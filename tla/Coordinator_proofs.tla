------------------------- MODULE Coordinator_proofs -------------------------
(***************************************************************************)
(* What the coordinator loop keeps true for any number of tasks,           *)
(* terminals, gates, reports and retries, and any limit.                   *)
(*                                                                         *)
(* The types (CoordinatorTypes) follow from TypeInv, which adds that a     *)
(* task that is out has a dispatch row: that is why only finitely many are *)
(* out and the slots a loop counts are a number.                           *)
(*                                                                         *)
(* The rest follows from CoordInv, which says                              *)
(*   - of the tables (Sound) that an active dispatch is its task's newest  *)
(*     and the task is out, and how failures count up to the limit;        *)
(*   - of the mail (MailOK) that a message is about its task's newest      *)
(*     dispatch;                                                           *)
(*   - of a loop (LoopOK) that every task of its snapshot may still be     *)
(*     handed out, no message is about one, and there is room for the      *)
(*     slots it counted.                                                   *)
(* Tasks with several gates are left out of the first two (Clean, Few):    *)
(* resolving one gate lets such a task out over the head of the other.     *)
(*                                                                         *)
(* CoordInv is kept while one loop runs at a time (OneCoordinator), which  *)
(* the code means and, after a reset of the tasks, does not ensure: what a *)
(* second loop hands out takes the slots the first one counted.  When      *)
(* there is only one Coordinator object, OneCoordinator always holds       *)
(* (OneLoopSuffices).                                                      *)
(***************************************************************************)
EXTENDS Coordinator, OrchestrationDb_proofs, InOrder_proofs

\* The rows and the gates of a task, whether or not the task itself is still there.
RowsOf(T, t)   == {c \in DOMAIN T.ctx : T.ctx[c].task = t}
GatesFor(T, t) == {g \in DOMAIN T.gate : T.gate[g].task = t}

Out(T) == {t \in Tasks : T.task[t] = "dispatched"}

\* A task that is out has a dispatch row, so that only finitely many are out.
Backed(T) == \A t \in Out(T) : RowsOf(T, t) # {}

LEMMA OutFinite ==
    ASSUME NEW T \in Tables, Backed(T)
    PROVE  IsFiniteSet(Out(T)) /\ Cardinality(Out(T)) \in Nat
<1> DEFINE n == Len(T.ctx)
           f == [t \in Out(T) |-> CHOOSE c \in DOMAIN T.ctx : T.ctx[c].task = t]
<1>1. n \in Nat /\ DOMAIN T.ctx = 1 .. n
  BY TablesType
<1>2. \A t \in Out(T) : f[t] \in DOMAIN T.ctx /\ T.ctx[f[t]].task = t
  BY DEF Backed, RowsOf
<1>3. f \in Injection(Out(T), 1 .. n)
  <2>1. f \in [Out(T) -> 1 .. n]
    BY <1>1, <1>2
  <2>2. \A t, u \in Out(T) : f[t] = f[u] => t = u
    BY <1>2
  <2> HIDE DEF f
  <2> QED
    BY <2>1, <2>2 DEF Injection, IsInjective
<1>4. IsFiniteSet(1 .. n)
  BY <1>1, FS_Interval
<1>5. IsFiniteSet(Out(T))
  <2> HIDE DEF f, n
  <2> QED
    BY <1>3, <1>4, FS_Injection, Zenon
<1> QED
  BY <1>5, FS_CardinalityType

-----------------------------------------------------------------------------
(* Statements that dispatch nothing. *)

\* The step from T to U only ends dispatches, and puts no task out.
Retires(T, U) == Orderly(T, U) /\ Out(U) \subseteq Out(T)

LEMMA RetiresCompose ==
    ASSUME NEW T \in Tables, NEW U, NEW W, Retires(T, U), Retires(U, W)
    PROVE  Retires(T, W)
BY OrderlyCompose DEF Retires

LEMMA RetiresSkip ==
    ASSUME NEW T \in Tables
    PROVE  Retires(T, T)
BY OrderlySkip DEF Retires

LEMMA RetiresBacked ==
    ASSUME NEW T \in Tables, NEW U, Retires(T, U), Backed(T)
    PROVE  Backed(U) /\ DOMAIN U.ctx = DOMAIN T.ctx
<1>1. DOMAIN U.ctx = DOMAIN T.ctx
  BY TablesType DEF Retires, Orderly, EndsOnly
<1> QED
  BY <1>1 DEF Retires, Orderly, EndsOnly, Backed, RowsOf

\* What is orderly and keeps the tasks that are out retires.
LEMMA KeptRetires ==
    ASSUME NEW T, NEW U, Orderly(T, U), AllKept(T, U)
    PROVE  Retires(T, U)
BY DEF Retires, AllKept, Kept, Out

LEMMA FailDispatchRetires ==
    ASSUME NEW T \in Tables, NEW c \in DOMAIN T.ctx
    PROVE  Retires(T, FailDispatch(T, c))
BY FailDispatchOrderly, FailDispatchKeeps, KeptRetires

LEMMA CreateGateRetires ==
    ASSUME NEW T \in Tables, NEW t \in Tasks
    PROVE  Retires(T, CreateGate(T, t))
BY CreateGateOrderly, CreateGateKeeps, KeptRetires

LEMMA ResolveGateRetires ==
    ASSUME NEW T \in Tables, NEW g \in DOMAIN T.gate
    PROVE  Retires(T, ResolveGate(T, g))
BY ResolveGateOrderly, ResolveGateKeeps, KeptRetires

LEMMA ResetTasksRetires ==
    ASSUME NEW T \in Tables
    PROVE  Retires(T, ResetTasks(T))
BY ResetTasksOrderly, ResetTasksKeeps, KeptRetires

LEMMA ReconcileRetires ==
    ASSUME NEW T \in Tables, NEW t \in Tasks, NEW c, NEW h, NEW p
    PROVE  Retires(T, ReconcileWorkerDone(T, t, c, h, p))
<1>1. "completed" \in TaskStatus
  BY DEF TaskStatus
<1>2. AllKept(T, UpdateTaskStatus(T, t, "completed"))
  BY <1>1, UpdateTaskStatusKeeps
<1>3. Orderly(T, UpdateTaskStatus(T, t, "completed"))
  BY <1>1, UpdateTaskStatusOrderly
<1> QED
  BY <1>2, <1>3, KeptRetires, RetiresSkip DEF ReconcileWorkerDone

LEMMA CreateTaskRetires ==
    ASSUME NEW T \in Tables, NEW t \in Tasks, NEW D \in SUBSET Tasks
    PROVE  Retires(T, CreateTask(T, t, D))
<1> DEFINE U == CreateTask(T, t, D)
<1>1. U.task = [T.task EXCEPT ![t] = IF D = {} THEN "ready" ELSE "pending"]
  BY DEF CreateTask, Tables
<1>2. \A u \in Tasks : U.task[u] = "dispatched" => T.task[u] = "dispatched"
  BY <1>1, TablesType
<1> QED
  BY <1>2, CreateTaskOrderly DEF Retires, Out

LEMMA BlockGatedRetires ==
    ASSUME NEW T \in Tables
    PROVE  Retires(T, BlockGated(T))
BY BlockGatedColumns DEF Retires, Orderly, EndsOnly, Out

-----------------------------------------------------------------------------
(* Reading the mail. *)

\* What every message keeps, reading the mail keeps.
LEMMA ReadMailKeeps ==
    ASSUME mail \in Seq(Message), NEW F, NEW V, [db |-> db, failed |-> F] \in V,
           \A i \in DOMAIN mail, a \in V : HandleMessage(a, mail[i]) \in V
    PROVE  ReadMail(F) \in V
<1> DEFINE n == Len(mail)
           base == [db |-> db, failed |-> F]
           step == [i \in 1 .. n |-> [a \in V |-> HandleMessage(a, mail[i])]]
           After(f, i) == IF i = 0 THEN base ELSE HandleMessage(f[i - 1], mail[i])
           Reads(f) == f = [i \in 0 .. n |-> After(f, i)]
           acc == CHOOSE f : Reads(f)
<1>1. n \in Nat /\ DOMAIN mail = 1 .. n
  BY LenProperties
<1>2. step \in Steps(n, V)
  BY <1>1 DEF Steps
<1> HIDE DEF base, step
<1>3. PICK f \in [0 .. n -> V] : f[0] = base /\ \A i \in 1 .. n : f[i] = step[i][f[i - 1]]
  <2>1. Courses(n, V, base, step) # {}
    BY <1>1, <1>2, CourseExists, Zenon DEF base
  <2> QED
    BY <2>1 DEF Courses
<1>4. \A i \in 1 .. n : f[i] = HandleMessage(f[i - 1], mail[i])
  <2>1. \A i \in 1 .. n : f[i - 1] \in V
    BY <1>1
  <2> QED
    BY <1>3, <2>1 DEF step
<1>5. Reads(f)
  <2>1. \A i \in 0 .. n : f[i] = After(f, i)
    BY <1>1, <1>3, <1>4
  <2> HIDE DEF After, n
  <2> QED
    BY <2>1
<1>6. Reads(acc)
  <2> HIDE DEF Reads
  <2> QED
    BY <1>5
<1>7. ReadMail(F) = acc[n]
  BY DEF ReadMail, base
<1> HIDE DEF acc
<1>8. acc[0] = base /\ \A i \in 1 .. n : acc[i] = HandleMessage(acc[i - 1], mail[i])
  BY <1>1, <1>6
<1> DEFINE W == [i \in 0 .. n |-> V]
<1>9. acc[0] \in W[0] /\ \A i \in 1 .. n : acc[i - 1] \in W[i - 1] => acc[i] \in W[i]
  BY <1>1, <1>8 DEF base
<1>10. \A i \in 0 .. n : acc[i] \in W[i]
  <2> HIDE DEF W, n
  <2> QED
    BY <1>1, <1>9, CourseKeeps, Zenon
<1> QED
  BY <1>1, <1>7, <1>10

\* An escalation that is acted on fails the newest dispatch of its task.
LEMMA EscalationFails ==
    ASSUME NEW a \in [db : Tables, failed : SUBSET Tasks], NEW t \in Tasks
    PROVE  LET c == Newest(ContextsOf(a.db, t))
               b == HandleEscalation(a, t)
           IN  \/ b = a
               \/ /\ b \in [db : Tables, failed : SUBSET Tasks]
                  /\ c \in ContextsOf(a.db, t) /\ \A d \in ContextsOf(a.db, t) : d =< c
                  /\ HasRow(a.db, t) /\ a.db.task[t] \notin {"completed", "failed"}
                  /\ b.db = FailDispatch(a.db, c)
<1> DEFINE c == Newest(ContextsOf(a.db, t))
           b == HandleEscalation(a, t)
           Acts == /\ HasRow(a.db, t)
                   /\ a.db.task[t] \notin {"completed", "failed"}
                   /\ ContextsOf(a.db, t) # {}
<1>1. CASE ~Acts
  BY <1>1 DEF HandleEscalation
<1>2. CASE Acts
  <2>1. ContextsOf(a.db, t) \in SUBSET (1 .. Len(a.db.ctx)) /\ Len(a.db.ctx) \in Nat
    BY TablesType DEF ContextsOf
  <2>2. c \in ContextsOf(a.db, t) /\ \A d \in ContextsOf(a.db, t) : d =< c
    BY <1>2, <2>1, NewestIsLast
  <2>3. FailDispatch(a.db, c) \in Tables
    BY <2>2, FailDispatchOrderly DEF Orderly, ContextsOf
  <2>4. \E F \in SUBSET Tasks : b = [db |-> FailDispatch(a.db, c), failed |-> F]
    BY <1>2 DEF HandleEscalation
  <2> HIDE DEF c, b
  <2> QED
    BY <1>2, <2>2, <2>3, <2>4 DEF c, b
<1> QED
  BY <1>1, <1>2

LEMMA HandleMessageRetires ==
    ASSUME NEW a \in [db : Tables, failed : SUBSET Tasks], NEW m \in Message
    PROVE  /\ HandleMessage(a, m) \in [db : Tables, failed : SUBSET Tasks]
           /\ Retires(a.db, HandleMessage(a, m).db)
<1>1. m.task \in Tasks
  BY DEF Message
<1>2. CASE m.type = "escalation"
  <2>1. HandleMessage(a, m) = HandleEscalation(a, m.task)
    BY <1>2 DEF HandleMessage
  <2>2. Newest(ContextsOf(a.db, m.task)) \in ContextsOf(a.db, m.task)
          => Retires(a.db, FailDispatch(a.db, Newest(ContextsOf(a.db, m.task))))
    BY FailDispatchRetires DEF ContextsOf
  <2> QED
    BY <1>1, <2>1, <2>2, EscalationFails, RetiresSkip
<1>3. CASE m.type # "escalation"
  <2>1. Retires(a.db, CreateGate(a.db, m.task))
    BY <1>1, CreateGateRetires
  <2>2. CreateGate(a.db, m.task) \in Tables
    BY <2>1 DEF Retires, Orderly
  <2>3. HandleMessage(a, m) = [db |-> CreateGate(a.db, m.task), failed |-> a.failed]
    BY <1>3 DEF HandleMessage
  <2> QED
    BY <2>1, <2>2, <2>3
<1> QED
  BY <1>2, <1>3

LEMMA ReadMailRetires ==
    ASSUME db \in Tables, mail \in Seq(Message), NEW F \in SUBSET Tasks
    PROVE  /\ ReadMail(F) \in [db : Tables, failed : SUBSET Tasks]
           /\ Retires(db, ReadMail(F).db)
<1> DEFINE V == {a \in [db : Tables, failed : SUBSET Tasks] : Retires(db, a.db)}
<1>1. [db |-> db, failed |-> F] \in V
  BY RetiresSkip
<1>2. ASSUME NEW i \in DOMAIN mail, NEW a \in V PROVE HandleMessage(a, mail[i]) \in V
  <2>1. mail[i] \in Message
    OBVIOUS
  <2>2. Retires(db, a.db) /\ Retires(a.db, HandleMessage(a, mail[i]).db)
    BY <2>1, HandleMessageRetires
  <2>3. Retires(db, HandleMessage(a, mail[i]).db)
    BY <2>2, RetiresCompose DEF Retires, Orderly
  <2> QED
    BY <2>1, <2>3, HandleMessageRetires
<1>3. ReadMail(F) \in V
  <2> HIDE DEF V
  <2> QED
    BY <1>1, <1>2, ReadMailKeeps
<1> QED
  BY <1>3

-----------------------------------------------------------------------------
(* Types. *)

\* A loop that awaits a probe or a prompt knows the task, the terminal and the dispatch.
Work == [task : Tasks, handle : Handles, ctx : Nat]

LoopTyped(T, s) ==
    /\ s \in LoopState
    /\ s.slots =< s.limit
    /\ s.pc \in {"probe", "send"} => s.work \in Work
    /\ s.pc = "send" => s.work.ctx \in DOMAIN T.ctx

\* The loops that run.
On == {l \in Loops : loop[l].pc # "off"}

LoopsTyped == loop \in [Loops -> LoopState] /\ \A l \in Loops : LoopTyped(db, loop[l])

TypeInv ==
    /\ db \in Tables /\ Backed(db)
    /\ runs \in [Loops -> RunStatus]
    /\ LoopsTyped /\ IsFiniteSet(On)
    /\ current \in Loops \cup {NoLoop}
    /\ mail \in Seq(Message)
    /\ alive \subseteq Handles
    /\ reports \in 0 .. MaxReports
    /\ mishaps \in 0 .. MaxMishaps

LEMMA TypeInvTypeOK == TypeInv => TypeOK
BY DEF TypeInv, TypeOK, LoopsTyped, LoopTyped

LEMMA NewLoopTyped ==
    ASSUME NEW T
    PROVE  LoopTyped(T, NewLoop) /\ NewLoop.pc = "off"
BY DEF NewLoop, LoopTyped, LoopState

LEMMA InitTypeInv == Init => TypeInv
<1> SUFFICES ASSUME Init PROVE TypeInv
  OBVIOUS
<1>1. db \in Tables /\ Backed(db)
  BY DEF Init, EmptyTables, Tables, Backed, Out, TaskStatus
<1>2. LoopsTyped
  BY NewLoopTyped DEF Init, LoopsTyped, LoopTyped
<1>3. IsFiniteSet(On)
  <2>1. On = {}
    BY NewLoopTyped DEF Init, On
  <2> QED
    BY <2>1, FS_EmptySet
<1>4. 0 \in 0 .. MaxReports /\ 0 \in 0 .. MaxMishaps
  BY CoordinatorAssumption
<1> QED
  BY <1>1, <1>2, <1>3, <1>4 DEF Init, TypeInv, RunStatus

\* Dispatch rows are never taken away.
Appends(T, U) == U \in Tables /\ Backed(U) /\ DOMAIN T.ctx \subseteq DOMAIN U.ctx

LEMMA RetiresAppends ==
    ASSUME NEW T \in Tables, NEW U, Retires(T, U), Backed(T)
    PROVE  Appends(T, U)
BY RetiresBacked DEF Appends, Retires, Orderly

LEMMA AppendsSkip ==
    ASSUME NEW T \in Tables, Backed(T)
    PROVE  Appends(T, T)
BY DEF Appends

\* One loop moves, and the others stay where they are.
LEMMA LoopMoves ==
    ASSUME LoopsTyped, IsFiniteSet(On), Appends(db, db'),
           NEW l \in Loops, NEW s, LoopTyped(db', s), loop' = [loop EXCEPT ![l] = s]
    PROVE  LoopsTyped' /\ IsFiniteSet(On')
<1>1. loop'[l] = s /\ \A m \in Loops : m # l => loop'[m] = loop[m]
  BY DEF LoopsTyped
<1>2. LoopsTyped'
  BY <1>1 DEF LoopsTyped, LoopTyped, Appends
<1>3. On' \subseteq On \cup {l}
  BY <1>1 DEF On
<1>4. IsFiniteSet(On \cup {l})
  BY FS_AddElement
<1> QED
  BY <1>2, <1>3, <1>4, FS_Subset

LEMMA LoopsStay ==
    ASSUME LoopsTyped, IsFiniteSet(On), Appends(db, db'), UNCHANGED loop
    PROVE  LoopsTyped' /\ IsFiniteSet(On')
<1>1. LoopsTyped'
  BY DEF LoopsTyped, LoopTyped, Appends
<1>2. On' = On
  BY DEF On
<1> QED
  BY <1>1, <1>2

LEMMA EndTypes ==
    ASSUME TypeInv, NEW l \in Loops, End(l), UNCHANGED <<db, mail, alive, reports, mishaps>>
    PROVE  TypeInv'
<1>1. Appends(db, db')
  BY AppendsSkip DEF TypeInv
<1>2. LoopsTyped' /\ IsFiniteSet(On')
  BY <1>1, NewLoopTyped, LoopMoves DEF TypeInv, End
<1>3. runs' \in [Loops -> RunStatus] /\ current' \in Loops \cup {NoLoop}
  BY DEF TypeInv, End, RunStatus
<1> QED
  BY <1>2, <1>3 DEF TypeInv

LEMMA LimitNat ==
    ASSUME NEW n \in Limits \cup {0}
    PROVE  n \in Nat
<1>1. Limits \subseteq Nat
  BY CoordinatorAssumption
<1> QED
  BY <1>1

LEMMA TickTypes ==
    ASSUME TypeInv, NEW l \in Loops, Tick(l)
    PROVE  /\ Retires(db, ReadMail(loop[l].failed).db)
           /\ Retires(db, db')
           /\ TypeInv'
<1> DEFINE F     == loop[l].failed
           read  == ReadMail(F)
           after == BlockGated(read.db)
           ready == TasksIn(after, {"ready"})
           busy  == Cardinality(TasksIn(after, {"dispatched"}))
           idle  == ready = {} \/ busy >= loop[l].limit
           slots == IF idle THEN 0 ELSE loop[l].limit - busy
           todo  == IF idle THEN {} ELSE ready
           pc    == IF idle THEN "assign" ELSE "list"
<1>1. db \in Tables /\ Backed(db) /\ mail \in Seq(Message) /\ F \in SUBSET Tasks
  BY DEF TypeInv, LoopsTyped, LoopState
<1>2. read \in [db : Tables, failed : SUBSET Tasks] /\ Retires(db, read.db)
  BY <1>1, ReadMailRetires
<1>3. Retires(db, after)
  <2>1. Retires(read.db, after)
    BY <1>2, BlockGatedRetires
  <2> QED
    BY <1>1, <1>2, <2>1, RetiresCompose
<1>4. db' = after
  BY DEF Tick
<1>5. Appends(db, after)
  BY <1>1, <1>3, RetiresAppends
<1>6. busy \in Nat
  <2>1. TasksIn(after, {"dispatched"}) = Out(after)
    BY DEF TasksIn, Out
  <2> HIDE DEF after
  <2> QED
    BY <1>5, <2>1, OutFinite DEF Appends
<1>7. ready \subseteq Tasks
  BY DEF TasksIn
<1>8. loop' = [loop EXCEPT ![l].pc = pc, ![l].todo = todo, ![l].slots = slots,
                           ![l].failed = read.failed]
  BY <1>4 DEF Tick
<1>9. loop[l] \in LoopState /\ loop[l].limit \in Nat /\ loop \in [Loops -> LoopState]
  <2>1. loop \in [Loops -> LoopState] /\ loop[l] \in LoopState
    BY DEF TypeInv, LoopsTyped
  <2>2. loop[l].limit \in Limits \cup {0}
    BY <2>1 DEF LoopState
  <2>3. loop[l].limit \in Nat
    BY <2>2, LimitNat
  <2> QED
    BY <2>1, <2>3
<1>10. slots \in Nat /\ slots =< loop[l].limit /\ todo \in SUBSET Tasks /\ pc \in {"assign", "list"}
  <2> HIDE DEF busy, ready
  <2> QED
    BY <1>6, <1>7, <1>9
<1>11. read.failed \in SUBSET Tasks
  BY <1>2
<1> HIDE DEF read, after, ready, busy, idle, slots, todo, pc
<1> DEFINE s == [loop[l] EXCEPT !.pc = pc, !.todo = todo, !.slots = slots, !.failed = read.failed]
<1>12. loop' = [loop EXCEPT ![l] = s]
  BY <1>8, <1>9
<1>13. s \in LoopState /\ s.slots = slots /\ s.limit = loop[l].limit /\ s.pc = pc
  BY <1>9, <1>10, <1>11 DEF LoopState
<1>14. LoopTyped(db', s)
  <2> HIDE DEF s
  <2> QED
    BY <1>10, <1>13 DEF LoopTyped
<1>15. LoopsTyped' /\ IsFiniteSet(On')
  <2> HIDE DEF s
  <2> QED
    BY <1>4, <1>5, <1>12, <1>14, LoopMoves DEF TypeInv
<1>16. mail' = << >> /\ UNCHANGED <<runs, current, alive, reports, mishaps>>
  BY DEF Tick
<1>17. TypeInv'
  BY <1>4, <1>5, <1>15, <1>16 DEF TypeInv, Appends
<1> QED
  BY <1>2, <1>3, <1>4, <1>17 DEF read

\* What a loop does between its ticks writes its own state, and no table but in a
\* dispatch or a refused prompt.
LEMMA LoopTypes ==
    ASSUME TypeInv, NEW l \in Loops, LoopStep(l), ~Tick(l), ~DispatchTask(l)
    PROVE  Retires(db, db') /\ TypeInv'
<1> DEFINE old == loop[l]
<1>1. /\ db \in Tables /\ Backed(db) /\ Appends(db, db) /\ Retires(db, db)
      /\ loop \in [Loops -> LoopState] /\ old \in LoopState /\ LoopTyped(db, old)
  BY AppendsSkip, RetiresSkip DEF TypeInv, LoopsTyped
<1>2. ASSUME NEW s, LoopTyped(db, s), loop' = [loop EXCEPT ![l] = s], UNCHANGED db
      PROVE  LoopsTyped' /\ IsFiniteSet(On') /\ Retires(db, db') /\ db' \in Tables /\ Backed(db')
  BY <1>1, <1>2, LoopMoves DEF TypeInv
<1>3. CASE Stopped(l)
  BY <1>1, <1>3, EndTypes DEF Stopped
<1>4. CASE ListTerminals(l)
  <2>1. PICK F \in SUBSET Handles, pc \in {"create", "assign"} :
            loop' = [loop EXCEPT ![l].free = F, ![l].pc = pc]
    BY <1>4 DEF ListTerminals, TypeInv
  <2> DEFINE s == [old EXCEPT !.free = F, !.pc = pc]
  <2>2. LoopTyped(db, s) /\ loop' = [loop EXCEPT ![l] = s]
    BY <1>1, <2>1 DEF LoopTyped, LoopState
  <2> HIDE DEF s
  <2> QED
    BY <1>2, <1>4, <2>2 DEF ListTerminals, TypeInv
<1>11. CASE ListTerminalsFails(l)
  <2> DEFINE s == [old EXCEPT !.free = {}, !.pc = "create"]
  <2>1. LoopTyped(db, s) /\ loop' = [loop EXCEPT ![l] = s]
    BY <1>1, <1>11 DEF ListTerminalsFails, LoopTyped, LoopState
  <2> HIDE DEF s
  <2>2. mishaps' \in 0 .. MaxMishaps
    BY <1>11, CoordinatorAssumption DEF ListTerminalsFails, TypeInv
  <2> QED
    BY <1>2, <1>11, <2>1, <2>2 DEF ListTerminalsFails, TypeInv
<1>5. ASSUME NEW h \in Handles, CreateTerminal(l, h) PROVE Retires(db, db') /\ TypeInv'
  <2> DEFINE s == [old EXCEPT !.free = {h}, !.pc = "assign"]
  <2>1. LoopTyped(db, s) /\ loop' = [loop EXCEPT ![l] = s]
    BY <1>1, <1>5 DEF CreateTerminal, LoopTyped, LoopState
  <2> HIDE DEF s
  <2> QED
    BY <1>2, <1>5, <2>1 DEF CreateTerminal, TypeInv
<1>6. CASE CreateTerminalFails(l) \/ Wake(l)
  <2>1. PICK pc \in {"assign", "top"} : loop' = [loop EXCEPT ![l].pc = pc]
    BY <1>6 DEF CreateTerminalFails, Wake
  <2> DEFINE s == [old EXCEPT !.pc = pc]
  <2>2. LoopTyped(db, s) /\ loop' = [loop EXCEPT ![l] = s]
    BY <1>1, <2>1 DEF LoopTyped, LoopState
  <2> HIDE DEF s
  <2> QED
    BY <1>2, <1>6, <2>2 DEF CreateTerminalFails, Wake, TypeInv
<1>7. ASSUME NEW t \in Tasks, NEW h \in Handles, Assign(l, t, h)
      PROVE  Retires(db, db') /\ TypeInv'
  <2> DEFINE w == [task |-> t, handle |-> h, ctx |-> 0]
             s == [old EXCEPT !.pc = "probe", !.todo = @ \ {t}, !.free = @ \ {h},
                              !.slots = @ - 1, !.work = w]
  <2>1. w \in Work
    BY DEF Work
  <2> HIDE DEF w
  <2>2. old.slots > 0
    BY <1>7 DEF Assign, MayAssign
  <2>3. loop' = [loop EXCEPT ![l] = s]
    BY <1>1, <1>7 DEF Assign, LoopState, w
  <2>4. old.slots \in Nat /\ old.limit \in Nat /\ old.slots =< old.limit
    BY <1>1, LimitNat DEF LoopTyped, LoopState
  <2>5. old.slots - 1 \in Nat /\ old.slots - 1 =< old.limit
    BY <2>2, <2>4
  <2>6. s \in LoopState /\ s.slots = old.slots - 1 /\ s.limit = old.limit /\ s.work = w
        /\ s.pc = "probe"
    BY <1>1, <2>1, <2>5 DEF LoopState, Work
  <2> HIDE DEF s
  <2>7. LoopTyped(db, s)
    BY <2>1, <2>5, <2>6 DEF LoopTyped
  <2> QED
    BY <1>2, <1>7, <2>3, <2>7 DEF Assign, TypeInv
<1>8. CASE SkipStaleBase(l) \/ PromptDelivered(l)
  <2> DEFINE s == [old EXCEPT !.pc = "assign", !.work = << >>]
  <2>1. LoopTyped(db, s) /\ loop' = [loop EXCEPT ![l] = s]
    BY <1>1, <1>8 DEF SkipStaleBase, PromptDelivered, LoopTyped, LoopState
  <2> HIDE DEF s
  <2> QED
    BY <1>2, <1>8, <2>1 DEF SkipStaleBase, PromptDelivered, TypeInv
<1>9. CASE PromptRefused(l)
  <2>1. old.work \in Work /\ old.work.ctx \in DOMAIN db.ctx
    BY <1>1, <1>9 DEF PromptRefused, LoopTyped
  <2>2. db' = FailDispatch(db, old.work.ctx)
    BY <1>9 DEF PromptRefused
  <2>3. Retires(db, db') /\ Appends(db, db')
    BY <1>1, <2>1, <2>2, FailDispatchRetires, RetiresAppends
  <2>4. PICK F \in SUBSET Tasks :
            loop' = [loop EXCEPT ![l].pc = "assign", ![l].work = << >>, ![l].failed = F]
    <3>1. old.work.task \in Tasks /\ old.failed \in SUBSET Tasks
      BY <1>1, <2>1 DEF Work, LoopState
    <3>2. old.failed \cup {old.work.task} \in SUBSET Tasks
      BY <3>1
    <3> QED
      BY <1>9, <3>1, <3>2 DEF PromptRefused
  <2> DEFINE s == [old EXCEPT !.pc = "assign", !.work = << >>, !.failed = F]
  <2>5. LoopTyped(db', s) /\ loop' = [loop EXCEPT ![l] = s]
    BY <1>1, <2>4 DEF LoopTyped, LoopState
  <2> HIDE DEF s
  <2>6. LoopsTyped' /\ IsFiniteSet(On')
    BY <2>3, <2>5, LoopMoves DEF TypeInv
  <2>7. mishaps' \in 0 .. MaxMishaps
    BY <1>9, CoordinatorAssumption DEF PromptRefused, TypeInv
  <2>8. UNCHANGED <<runs, current, mail, alive, reports>>
    BY <1>9 DEF PromptRefused
  <2> QED
    BY <2>3, <2>6, <2>7, <2>8 DEF TypeInv, Appends
<1>10. CASE CheckConvergence(l)
  <2>1. CASE End(l)
    BY <1>1, <1>10, <2>1, EndTypes DEF CheckConvergence
  <2>2. CASE loop' = [loop EXCEPT ![l].pc = "sleep", ![l].todo = {}, ![l].free = {},
                                  ![l].slots = 0] /\ UNCHANGED <<runs, current>>
    <3> DEFINE s == [old EXCEPT !.pc = "sleep", !.todo = {}, !.free = {}, !.slots = 0]
    <3>1. old.limit \in Nat
      BY <1>1, LimitNat DEF LoopState
    <3>2. loop' = [loop EXCEPT ![l] = s]
      BY <1>1, <2>2
    <3>3. s \in LoopState /\ s.pc = "sleep" /\ s.slots = 0 /\ s.limit = old.limit
      BY <1>1 DEF LoopState
    <3> HIDE DEF s
    <3>4. LoopTyped(db, s)
      BY <3>1, <3>3 DEF LoopTyped
    <3> QED
      BY <1>2, <1>10, <2>2, <3>2, <3>4 DEF CheckConvergence, TypeInv
  <2> QED
    BY <1>10, <2>1, <2>2 DEF CheckConvergence
<1> QED
  BY <1>3, <1>4, <1>5, <1>6, <1>7, <1>8, <1>9, <1>10, <1>11 DEF LoopStep, Turn

\* What the dispatch of a task writes.
LEMMA DispatchTypes ==
    ASSUME TypeInv, NEW l \in Loops, DispatchTask(l)
    PROVE  /\ loop[l].work \in Work
           /\ \/ /\ MayDispatch(db, loop[l].work.task, loop[l].work.handle,
                                PaneOf[loop[l].work.handle])
                 /\ Grants(db, db', loop[l].work.task, loop[l].work.handle,
                           PaneOf[loop[l].work.handle])
                 /\ loop' = [loop EXCEPT ![l] = [loop[l] EXCEPT !.pc = "send",
                                             !.work = [@ EXCEPT !.ctx = Len(db.ctx) + 1]]]
              \/ /\ db' = db
                 /\ loop' = [loop EXCEPT ![l] = [loop[l] EXCEPT !.pc = "assign", !.work = << >>]]
           /\ TypeInv'
<1> DEFINE old == loop[l]
           w   == old.work
           n   == Len(db.ctx) + 1
<1>1. /\ db \in Tables /\ Backed(db) /\ Appends(db, db)
      /\ loop \in [Loops -> LoopState] /\ old \in LoopState /\ LoopTyped(db, old)
  BY AppendsSkip DEF TypeInv, LoopsTyped
<1>2. w \in Work /\ w.task \in Tasks /\ w.handle \in Handles /\ PaneOf[w.handle] \in Panes
  <2>1. w \in Work
    BY <1>1 DEF DispatchTask, LoopTyped
  <2> QED
    BY <2>1, CoordinatorAssumption DEF Work
<1>3. UNCHANGED <<runs, current, mail, alive, reports, mishaps>>
  BY DEF DispatchTask
<1>4. CASE MayDispatch(db, w.task, w.handle, PaneOf[w.handle])
  <2> DEFINE x == [w EXCEPT !.ctx = n]
             s == [old EXCEPT !.pc = "send", !.work = x]
  <2>1. Grants(db, db', w.task, w.handle, PaneOf[w.handle])
    BY <1>1, <1>2, <1>4, CreateDispatchGrants DEF DispatchTask
  <2>2. db' \in Tables /\ n \in Nat /\ DOMAIN db.ctx \subseteq DOMAIN db'.ctx
        /\ n \in DOMAIN db'.ctx
    BY <1>1, <2>1, TablesType DEF Grants
  <2>3. Backed(db')
    <3>1. \A c \in DOMAIN db.ctx : db'.ctx[c] = db.ctx[c]
      BY <2>1 DEF Grants
    <3>2. db'.ctx[n].task = w.task /\ db'.task = [db.task EXCEPT ![w.task] = "dispatched"]
      BY <2>1 DEF Grants
    <3>3. \A t \in Tasks : db'.task[t] = IF t = w.task THEN "dispatched" ELSE db.task[t]
      BY <1>1, <3>2, TablesType
    <3> HIDE DEF n, w
    <3> QED
      BY <1>1, <2>2, <3>1, <3>2, <3>3 DEF Backed, Out, RowsOf
  <2>4. loop' = [loop EXCEPT ![l].pc = "send", ![l].work.ctx = n]
    BY <1>4 DEF DispatchTask
  <2>5. x \in Work /\ x.ctx = n
    BY <1>2, <2>2 DEF Work
  <2>6. loop' = [loop EXCEPT ![l] = s]
    BY <1>1, <1>2, <2>4 DEF LoopState, Work
  <2>7. LoopTyped(db', s)
    <3> HIDE DEF x, n
    <3> QED
      BY <1>1, <2>2, <2>5 DEF LoopTyped, LoopState, Work
  <2>8. LoopsTyped' /\ IsFiniteSet(On')
    <3> HIDE DEF s
    <3> QED
      BY <2>2, <2>3, <2>6, <2>7, LoopMoves DEF TypeInv, Appends
  <2> QED
    BY <1>2, <1>3, <1>4, <2>1, <2>2, <2>3, <2>6, <2>8 DEF TypeInv
<1>5. CASE ~MayDispatch(db, w.task, w.handle, PaneOf[w.handle])
  <2> DEFINE s == [old EXCEPT !.pc = "assign", !.work = << >>]
  <2>1. db' = db /\ loop' = [loop EXCEPT ![l].pc = "assign", ![l].work = << >>]
    BY <1>5 DEF DispatchTask
  <2>2. LoopTyped(db, s) /\ loop' = [loop EXCEPT ![l] = s]
    BY <1>1, <2>1 DEF LoopTyped, LoopState
  <2>3. LoopsTyped' /\ IsFiniteSet(On')
    <3> HIDE DEF s
    <3> QED
      BY <1>1, <2>1, <2>2, LoopMoves DEF TypeInv
  <2>4. TypeInv'
    BY <1>1, <1>3, <2>1, <2>3 DEF TypeInv
  <2> QED
    BY <1>2, <2>1, <2>2, <2>4
<1> QED
  BY <1>4, <1>5

\* A loop is started, stopped or gone: no table is written.
LEMMA RunTypes ==
    ASSUME TypeInv, RunStop \/ Crash \/ \E l \in Loops, n \in Limits : Run(l, n)
    PROVE  UNCHANGED <<db, mail>> /\ TypeInv'
<1>1. db \in Tables /\ Backed(db) /\ Appends(db, db) /\ loop \in [Loops -> LoopState]
  BY AppendsSkip DEF TypeInv, LoopsTyped
<1>2. CASE RunStop
  <2> DEFINE s == [loop[current] EXCEPT !.stopped = TRUE]
  <2>1. current \in Loops
    BY <1>2 DEF RunStop, TypeInv
  <2>2. LoopTyped(db, loop[current]) /\ loop[current] \in LoopState
    BY <2>1 DEF TypeInv, LoopsTyped
  <2>3. LoopTyped(db, s)
    BY <2>2 DEF LoopTyped, LoopState
  <2>4. loop' = [loop EXCEPT ![current] = s]
    BY <1>1, <1>2, <2>1 DEF RunStop
  <2> HIDE DEF s
  <2>5. UNCHANGED db
    BY <1>2 DEF RunStop
  <2>6. LoopsTyped' /\ IsFiniteSet(On')
    BY <1>1, <2>1, <2>3, <2>4, <2>5, LoopMoves DEF TypeInv
  <2> QED
    BY <1>1, <1>2, <2>5, <2>6 DEF RunStop, TypeInv
<1>3. CASE Crash
  <2>1. \A l \in Loops : LoopTyped(db, loop'[l]) /\ loop'[l].pc = "off"
    BY <1>3, NewLoopTyped DEF Crash
  <2>2. LoopsTyped'
    BY <1>3, <2>1 DEF Crash, LoopsTyped, LoopTyped
  <2>3. On' = {}
    BY <2>1 DEF On
  <2>4. IsFiniteSet(On')
    BY <2>3, FS_EmptySet
  <2>5. mishaps' \in 0 .. MaxMishaps
    BY <1>3, CoordinatorAssumption DEF Crash, TypeInv
  <2> QED
    BY <1>1, <1>3, <2>2, <2>4, <2>5 DEF Crash, TypeInv
<1>4. ASSUME NEW l \in Loops, NEW n \in Limits, Run(l, n)
      PROVE  UNCHANGED <<db, mail>> /\ TypeInv'
  <2>1. UNCHANGED <<db, mail, alive, reports, mishaps>>
    BY <1>4 DEF Run
  <2>2. CASE \E t \in Tasks : HasRow(db, t)
    <3> DEFINE s == [NewLoop EXCEPT !.pc = "top", !.limit = n]
    <3>1. n \in Nat
      BY LimitNat
    <3>2. s \in LoopState /\ s.slots = 0 /\ s.limit = n /\ s.pc = "top"
      BY DEF NewLoop, LoopState
    <3> HIDE DEF s
    <3>3. LoopTyped(db, s)
      BY <3>1, <3>2 DEF LoopTyped
    <3>4. loop' = [loop EXCEPT ![l] = s] /\ current' = l
          /\ runs' = [runs EXCEPT ![l] = "running"]
      BY <1>4, <2>2 DEF Run, s
    <3>5. LoopsTyped' /\ IsFiniteSet(On')
      BY <1>1, <2>1, <3>3, <3>4, LoopMoves DEF TypeInv
    <3> QED
      BY <1>1, <2>1, <3>4, <3>5 DEF TypeInv, RunStatus
  <2>3. CASE ~ \E t \in Tasks : HasRow(db, t)
    <3>1. UNCHANGED loop /\ current' = NoLoop /\ runs' = [runs EXCEPT ![l] = "failed"]
      BY <1>4, <2>3 DEF Run
    <3>2. LoopsTyped' /\ IsFiniteSet(On')
      BY <1>1, <2>1, <3>1, LoopsStay DEF TypeInv
    <3> QED
      BY <1>1, <2>1, <3>1, <3>2 DEF TypeInv, RunStatus
  <2> QED
    BY <2>2, <2>3
<1> QED
  BY <1>2, <1>3, <1>4

\* What workers, terminals and operators do to the tables and the mail.
OtherStep ==
    \/ \E c \in DOMAIN db.ctx : WorkerStep(c)
    \/ \E h \in Handles : TerminalExit(h)
    \/ Reset
    \/ \E t \in Tasks : TaskCreate(t) \/ GateCreate(t)
    \/ \E g \in DOMAIN db.gate : GateResolve(g)

\* A terminal that exits fails the newest dispatch it holds, if it holds one.
LEMMA ExitFails ==
    ASSUME TypeInv, NEW h \in Handles, TerminalExit(h)
    PROVE  \/ UNCHANGED <<db, mail>>
           \/ \E c \in DOMAIN db.ctx :
                 /\ IsActive(db, c) /\ db.ctx[c].handle = h
                 /\ db' = FailDispatch(db, c)
                 /\ mail' \in {mail, Append(mail, [type |-> "escalation",
                                                   task |-> db.ctx[c].task, ctx |-> c])}
<1> DEFINE held == {c \in DOMAIN db.ctx : IsActive(db, c) /\ db.ctx[c].handle = h}
<1>1. CASE held = {}
  BY <1>1 DEF TerminalExit
<1>2. CASE held # {}
  <2>1. held \in SUBSET (1 .. Len(db.ctx)) /\ Len(db.ctx) \in Nat
    BY TablesType DEF TypeInv
  <2>2. Newest(held) \in held
    <3> HIDE DEF held
    <3> QED
      BY <1>2, <2>1, NewestIsLast
  <2>3. PICK c : c = Newest(held)
    OBVIOUS
  <2>4. /\ db' = FailDispatch(db, c)
        /\ mail' \in {mail, Append(mail, [type |-> "escalation",
                                          task |-> db.ctx[c].task, ctx |-> c])}
    BY <1>2, <2>3 DEF TerminalExit
  <2> QED
    BY <2>2, <2>3, <2>4
<1> QED
  BY <1>1, <1>2

LEMMA OtherTypes ==
    ASSUME TypeInv, OtherStep
    PROVE  Retires(db, db') /\ UNCHANGED <<loop, current>> /\ TypeInv'
<1>1. /\ db \in Tables /\ Backed(db) /\ Retires(db, db)
      /\ \A c \in DOMAIN db.ctx : db.ctx[c] \in DispatchRow /\ c \in Nat
      /\ mail \in Seq(Message)
  BY RetiresSkip, TablesType DEF TypeInv
<1>2. ASSUME NEW c \in DOMAIN db.ctx, NEW n \in {c, Ended},
             NEW type \in {"escalation", "decision_gate"}
      PROVE  Append(mail, [type |-> type, task |-> db.ctx[c].task, ctx |-> n]) \in Seq(Message)
  <2>1. [type |-> type, task |-> db.ctx[c].task, ctx |-> n] \in Message
    BY <1>1 DEF Message, DispatchRow, Ended
  <2> QED
    BY <1>1, <2>1, AppendProperties
<1>3. SUFFICES /\ Retires(db, db') /\ UNCHANGED <<loop, current>>
               /\ runs' \in [Loops -> RunStatus]
               /\ mail' \in Seq(Message) /\ alive' \subseteq Handles
               /\ reports' \in 0 .. MaxReports /\ mishaps' \in 0 .. MaxMishaps
  <2>1. Retires(db, db') => Appends(db, db')
    BY <1>1, RetiresAppends
  <2>2. Retires(db, db') /\ UNCHANGED loop => LoopsTyped' /\ IsFiniteSet(On')
    BY <2>1, LoopsStay DEF TypeInv
  <2> QED
    BY <2>1, <2>2 DEF TypeInv, Appends
<1>4. MaxReports \in Nat /\ MaxMishaps \in Nat
  BY CoordinatorAssumption
<1>5. alive \subseteq Handles /\ reports \in 0 .. MaxReports /\ mishaps \in 0 .. MaxMishaps
     /\ runs \in [Loops -> RunStatus]
  BY DEF TypeInv
<1>6. ASSUME NEW c \in DOMAIN db.ctx, WorkerDone(c)
      PROVE  Retires(db, db')
  BY <1>1, <1>6, ReconcileRetires DEF WorkerDone, DispatchRow
<1>7. ASSUME NEW c \in DOMAIN db.ctx, NEW type \in {"escalation", "decision_gate"},
             WorkerReports(c, type)
      PROVE  UNCHANGED <<db, runs, loop, current, alive, mishaps>> /\ mail' \in Seq(Message)
             /\ reports' \in 0 .. MaxReports
  <2>1. reports' \in 0 .. MaxReports
    BY <1>4, <1>5, <1>7 DEF WorkerReports
  <2>2. mail' \in Seq(Message)
    <3>1. PICK n \in {c, Ended} :
             mail' = Append(mail, [type |-> type, task |-> db.ctx[c].task, ctx |-> n])
      BY <1>7 DEF WorkerReports
    <3> QED
      BY <1>2, <3>1
  <2> QED
    BY <1>7, <2>1, <2>2 DEF WorkerReports
<1>8. ASSUME NEW h \in Handles, TerminalExit(h)
      PROVE  Retires(db, db') /\ mail' \in Seq(Message) /\ alive' \subseteq Handles
  <2>1. alive' \subseteq Handles
    BY <1>5, <1>8 DEF TerminalExit
  <2>2. CASE UNCHANGED <<db, mail>>
    BY <1>1, <2>1, <2>2
  <2>3. ASSUME NEW c \in DOMAIN db.ctx, db' = FailDispatch(db, c),
               mail' \in {mail, Append(mail, [type |-> "escalation",
                                              task |-> db.ctx[c].task, ctx |-> c])}
        PROVE  Retires(db, db') /\ mail' \in Seq(Message)
    <3>1. Append(mail, [type |-> "escalation", task |-> db.ctx[c].task, ctx |-> c])
             \in Seq(Message)
      BY <1>2
    <3> QED
      BY <1>1, <2>3, <3>1, FailDispatchRetires
  <2> QED
    BY <1>8, <2>1, <2>2, <2>3, ExitFails
<1>9. ASSUME Reset
      PROVE  Retires(db, db') /\ mishaps' \in 0 .. MaxMishaps /\ runs' \in [Loops -> RunStatus]
  BY <1>1, <1>4, <1>5, <1>9, ResetTasksRetires DEF Reset, RunStatus
<1>10. ASSUME NEW t \in Tasks, TaskCreate(t)
       PROVE  Retires(db, db')
  <2>1. DepsOf[t] \in SUBSET Tasks
    BY CoordinatorAssumption
  <2> QED
    BY <1>1, <1>10, <2>1, CreateTaskRetires DEF TaskCreate
<1>11. ASSUME NEW t \in Tasks, GateCreate(t)
       PROVE  Retires(db, db') /\ reports' \in 0 .. MaxReports
  BY <1>1, <1>4, <1>5, <1>11, CreateGateRetires DEF GateCreate
<1>12. ASSUME NEW g \in DOMAIN db.gate, GateResolve(g)
       PROVE  Retires(db, db')
  BY <1>1, <1>12, ResolveGateRetires DEF GateResolve
<1>13. CASE \E c \in DOMAIN db.ctx : WorkerStep(c)
  <2>1. PICK c \in DOMAIN db.ctx : WorkerStep(c)
    BY <1>13
  <2>2. CASE WorkerDone(c)
    BY <1>1, <1>5, <1>6, <2>2 DEF WorkerDone
  <2>3. CASE WorkerReports(c, "escalation") \/ WorkerReports(c, "decision_gate")
    BY <1>1, <1>5, <1>7, <2>3
  <2> QED
    BY <2>1, <2>2, <2>3 DEF WorkerStep
<1>14. CASE \E h \in Handles : TerminalExit(h)
  BY <1>5, <1>8, <1>14 DEF TerminalExit
<1>15. CASE Reset
  BY <1>1, <1>5, <1>9, <1>15 DEF Reset
<1>16. CASE \E t \in Tasks : TaskCreate(t) \/ GateCreate(t)
  BY <1>1, <1>5, <1>10, <1>11, <1>16 DEF TaskCreate, GateCreate
<1>17. CASE \E g \in DOMAIN db.gate : GateResolve(g)
  BY <1>1, <1>5, <1>12, <1>17 DEF GateResolve
<1> QED
  BY <1>13, <1>14, <1>15, <1>16, <1>17 DEF OtherStep

\* A step is one of these.
LEMMA NextCases ==
    ASSUME [Next]_vars
    PROVE  \/ \E l \in Loops : LoopStep(l)
           \/ OtherStep
           \/ RunStop \/ Crash \/ \E l \in Loops, n \in Limits : Run(l, n)
           \/ UNCHANGED vars
BY DEF Next, OperatorStep, OtherStep

LEMMA NextTypeInv == TypeInv /\ [Next]_vars => TypeInv'
<1> SUFFICES ASSUME TypeInv, [Next]_vars PROVE TypeInv'
  OBVIOUS
<1>1. ASSUME NEW l \in Loops, LoopStep(l) PROVE TypeInv'
  BY <1>1, TickTypes, DispatchTypes, LoopTypes
<1>2. CASE UNCHANGED vars
  BY <1>2 DEF vars, TypeInv, LoopsTyped, On
<1> QED
  BY <1>1, <1>2, NextCases, OtherTypes, RunTypes

\* The tables, the loops and the mail keep their types in every run: a loop that awaits a
\* probe or a prompt knows what for, and the slots it counted are a number up to its limit.
THEOREM CoordinatorTypes == Spec => []TypeOK
<1>1. Init => TypeInv
  BY InitTypeInv
<1>2. TypeInv /\ [Next]_vars => TypeInv'
  BY NextTypeInv
<1>3. TypeInv => TypeOK
  BY TypeInvTypeOK
<1> QED
  BY <1>1, <1>2, <1>3, PTL DEF Spec

-----------------------------------------------------------------------------
(* What the tables keep about dispatches and gates. *)

IsLast(T, c) == \A d \in RowsOf(T, T.ctx[c].task) : d =< c

\* The gates of t that wait for an answer, that there is at most one gate, and that no
\* gate has let t out over the head of another.
Open(T, t)  == {g \in GatesFor(T, t) : T.gate[g].status = "pending"}
Few(T, t)   == \A g, k \in GatesFor(T, t) : g = k
Clean(T, t) == Few(T, t) \/ \A g \in GatesFor(T, t) : T.gate[g].status = "pending"

\* Only a deleted task has deleted rows.
Gone(T) == \A c \in DOMAIN T.ctx :
    T.ctx[c].status = "deleted" => T.task[T.ctx[c].task] = "deleted"

\* An active dispatch is the newest of its task, the task is out, and no gate is open on it.
ActiveOut(T) == \A c \in DOMAIN T.ctx :
    LET t == T.ctx[c].task
    IN  IsActive(T, c) /\ Clean(T, t) => t \in Out(T) /\ IsLast(T, c) /\ Open(T, t) = {}

\* The failures of t: every retry starts from the count of the one before, a failed one
\* counts one more, and the count that breaks the circuit is the last.
Counted(T, t) ==
    /\ \A c, d \in RowsOf(T, t) : c < d =>
          /\ T.ctx[c].failures =< T.ctx[d].failures
          /\ T.ctx[d].status \in {"failed", "circuit_broken"}
                => T.ctx[c].failures < T.ctx[d].failures
    /\ \A c \in RowsOf(T, t) :
          /\ T.ctx[c].status # "circuit_broken" => T.ctx[c].failures < CircuitLimit
          /\ T.ctx[c].status = "failed" => T.ctx[c].failures > 0
          /\ T.ctx[c].status = "circuit_broken" => T.task[t] = "failed" /\ IsLast(T, c)

Counts(T) == \A t \in Tasks : HasRow(T, t) /\ GatesFor(T, t) = {} => Counted(T, t)

Sound(T) == Fresh(T) /\ Gone(T) /\ ActiveOut(T) /\ Counts(T)

\* Gates are only added and answered.
GatesGrow(T, U) == \A g \in DOMAIN T.gate :
    /\ g \in DOMAIN U.gate
    /\ U.gate[g].task = T.gate[g].task
    /\ U.gate[g].status = "pending" => T.gate[g].status = "pending"

LEMMA GrowClean ==
    ASSUME NEW T, NEW U, GatesGrow(T, U), NEW t
    PROVE  /\ GatesFor(T, t) \subseteq GatesFor(U, t)
           /\ Few(U, t) => Few(T, t)
           /\ Clean(U, t) => Clean(T, t)
BY DEF GatesGrow, GatesFor, Few, Clean

LEMMA GrowCompose ==
    ASSUME NEW T, NEW U, NEW W, GatesGrow(T, U), GatesGrow(U, W)
    PROVE  GatesGrow(T, W)
BY DEF GatesGrow

\* The rows of every task stay its rows.
LEMMA SameRows ==
    ASSUME NEW T \in Tables, NEW U, Retires(T, U)
    PROVE  /\ DOMAIN U.ctx = DOMAIN T.ctx
           /\ \A t \in Tasks : RowsOf(U, t) = RowsOf(T, t)
           /\ \A c \in DOMAIN T.ctx : /\ U.ctx[c].task = T.ctx[c].task
                                      /\ T.ctx[c].task \in Tasks
                                      /\ IsLast(U, c) <=> IsLast(T, c)
                                      /\ IsActive(U, c) => IsActive(T, c)
<1>1. DOMAIN U.ctx = DOMAIN T.ctx /\ \A c \in DOMAIN T.ctx : U.ctx[c].task = T.ctx[c].task
  BY TablesType DEF Retires, Orderly, EndsOnly
<1>2. \A c \in DOMAIN T.ctx : T.ctx[c].task \in Tasks
  BY TablesType DEF DispatchRow
<1> QED
  BY <1>1, <1>2 DEF RowsOf, IsLast, Retires, Orderly, EndsOnly, IsActive

LEMMA GoneKept ==
    ASSUME NEW T \in Tables, NEW U, Retires(T, U), Gone(T),
           \A c \in DOMAIN T.ctx : U.ctx[c].status = "deleted" => T.ctx[c].status = "deleted",
           \A t \in Tasks : T.task[t] = "deleted" => U.task[t] = "deleted"
    PROVE  Gone(U)
BY SameRows DEF Gone

\* A statement that ends the dispatches of every task it takes out or gates.
LEMMA ActiveOutKept ==
    ASSUME NEW T \in Tables, NEW U, Retires(T, U), GatesGrow(T, U), ActiveOut(T),
           \A c \in DOMAIN T.ctx :
              LET t == T.ctx[c].task
              IN  IsActive(U, c) /\ Clean(U, t) /\ IsActive(T, c) /\ Clean(T, t)
                  /\ t \in Out(T) /\ IsLast(T, c) /\ Open(T, t) = {}
                     => t \in Out(U) /\ GatesFor(U, t) = GatesFor(T, t)
    PROVE  ActiveOut(U)
<1> SUFFICES ASSUME NEW c \in DOMAIN U.ctx, IsActive(U, c), Clean(U, U.ctx[c].task)
             PROVE  LET t == U.ctx[c].task IN t \in Out(U) /\ IsLast(U, c) /\ Open(U, t) = {}
  BY DEF ActiveOut
<1>1. PICK t : t = T.ctx[c].task
  OBVIOUS
<1>2. c \in DOMAIN T.ctx /\ U.ctx[c].task = t /\ IsActive(T, c) /\ (IsLast(U, c) <=> IsLast(T, c))
  BY <1>1, SameRows
<1>3. Clean(T, t)
  BY <1>2, GrowClean
<1>4. t \in Out(T) /\ IsLast(T, c) /\ Open(T, t) = {}
  BY <1>1, <1>2, <1>3 DEF ActiveOut
<1>5. t \in Out(U) /\ GatesFor(U, t) = GatesFor(T, t)
  BY <1>1, <1>2, <1>3, <1>4
<1>6. Open(U, t) = {}
  BY <1>4, <1>5 DEF Open, GatesGrow, GatesFor
<1> QED
  BY <1>2, <1>4, <1>5, <1>6

\* What keeps the count of a task: its rows and its status stay, but for a dispatch that
\* completes.
LEMMA CountedKept ==
    ASSUME NEW T \in Tables, NEW U, NEW t \in Tasks, RowsOf(U, t) = RowsOf(T, t), Counted(T, t),
           T.task[t] = "failed" => U.task[t] = "failed",
           \A c \in RowsOf(T, t) : /\ U.ctx[c].task = T.ctx[c].task
                                   /\ U.ctx[c].failures = T.ctx[c].failures
                                   /\ \/ U.ctx[c].status = T.ctx[c].status
                                      \/ U.ctx[c].status \notin {"failed", "circuit_broken"}
                                         /\ T.ctx[c].status = "dispatched"
    PROVE  Counted(U, t)
<1>1. \A c \in RowsOf(T, t) : IsLast(U, c) <=> IsLast(T, c)
  BY DEF IsLast, RowsOf
<1> QED
  BY <1>1 DEF Counted

LEMMA CountedNone ==
    ASSUME NEW U, NEW t, RowsOf(U, t) = {}
    PROVE  Counted(U, t)
BY DEF Counted

-----------------------------------------------------------------------------
(* Each statement keeps the tables sound. *)

LEMMA FailDispatchColumns ==
    ASSUME NEW T \in Tables, NEW c \in DOMAIN T.ctx, T.ctx[c].status # "deleted"
    PROVE  LET U      == FailDispatch(T, c)
               n      == T.ctx[c].failures + 1
               broken == n >= CircuitLimit
           IN  /\ U \in Tables
               /\ U.deps = T.deps /\ U.gate = T.gate
               /\ DOMAIN U.ctx = DOMAIN T.ctx
               /\ \A d \in DOMAIN T.ctx : d # c => U.ctx[d] = T.ctx[d]
               /\ U.ctx[c].task = T.ctx[c].task
               /\ U.ctx[c].status = IF broken THEN "circuit_broken" ELSE "failed"
               /\ U.ctx[c].failures = n
               /\ \A u \in Tasks : U.task[u] = IF u = T.ctx[c].task /\ HasRow(T, u)
                                               THEN IF broken THEN "failed" ELSE "ready"
                                               ELSE T.task[u]
<1> DEFINE n      == T.ctx[c].failures + 1
           broken == n >= CircuitLimit
           st     == IF broken THEN "circuit_broken" ELSE "failed"
           to     == IF broken THEN "failed" ELSE "ready"
           t      == T.ctx[c].task
           row    == [T.ctx[c] EXCEPT !.status = st, !.failures = n]
           A      == [T EXCEPT !.ctx[c].status = st, !.ctx[c].failures = n]
           U      == FailDispatch(T, c)
<1>1. T.ctx[c] \in DispatchRow /\ t \in Tasks /\ n \in Nat
  BY TablesType DEF DispatchRow
<1>2. U = SetTask(A, t, to)
  BY DEF FailDispatch
<1>3. st \in (DispatchStatus \cup {"deleted"}) \ {"dispatched"} /\ to \in TaskStatus
  BY DEF DispatchStatus, TaskStatus
<1>4. row.task = t /\ row.status = st /\ row.failures = n
  BY <1>1 DEF DispatchRow
<1>5. A = [T EXCEPT !.ctx = [T.ctx EXCEPT ![c] = row]]
  BY DEF Tables, DispatchRow
<1>6. A \in Tables
  <2> HIDE DEF st, n
  <2> QED
    BY <1>1, <1>3, EndRowOrderly DEF Orderly
<1> HIDE DEF row, A, st, to, n
<1>7. /\ A.task = T.task /\ A.deps = T.deps /\ A.gate = T.gate
      /\ A.ctx = [T.ctx EXCEPT ![c] = row]
  BY <1>5 DEF Tables
<1>8. /\ U.deps = A.deps /\ U.ctx = A.ctx /\ U.gate = A.gate
      /\ U.task = IF HasRow(A, t) THEN [A.task EXCEPT ![t] = to] ELSE A.task
      /\ U \in Tables
  <2> HIDE DEF U, t
  <2> QED
    BY <1>1, <1>2, <1>3, <1>6, SetTaskColumns, SetTaskOrderly DEF Orderly
<1>9. HasRow(A, t) <=> HasRow(T, t)
  BY <1>7 DEF HasRow
<1>10. \A u \in Tasks : U.task[u] = IF u = t /\ HasRow(T, u) THEN to ELSE T.task[u]
  <2> HIDE DEF U, t
  <2> QED
    BY <1>1, <1>7, <1>8, <1>9, TablesType
<1>11. /\ DOMAIN U.ctx = DOMAIN T.ctx
       /\ \A d \in DOMAIN T.ctx : d # c => U.ctx[d] = T.ctx[d]
       /\ U.ctx[c] = row
  <2> HIDE DEF U, t
  <2> QED
    BY <1>7, <1>8
<1> QED
  BY <1>4, <1>7, <1>8, <1>10, <1>11 DEF st, to, n

\* failDispatch, of the newest dispatch of the task.
LEMMA FailDispatchSound ==
    ASSUME NEW T \in Tables, Sound(T), NEW c \in DOMAIN T.ctx,
           Clean(T, T.ctx[c].task) => IsLast(T, c)
    PROVE  Sound(FailDispatch(T, c)) /\ GatesGrow(T, FailDispatch(T, c))
<1> DEFINE U == FailDispatch(T, c)
           t == T.ctx[c].task
           n == T.ctx[c].failures + 1
           broken == n >= CircuitLimit
<1>1. CASE T.ctx[c].status = "deleted"
  BY <1>1 DEF FailDispatch, GatesGrow
<1>2. CASE T.ctx[c].status # "deleted"
  <2>1. /\ U \in Tables
        /\ U.deps = T.deps /\ U.gate = T.gate
        /\ DOMAIN U.ctx = DOMAIN T.ctx
        /\ \A d \in DOMAIN T.ctx : d # c => U.ctx[d] = T.ctx[d]
        /\ U.ctx[c].task = t
        /\ U.ctx[c].status = IF broken THEN "circuit_broken" ELSE "failed"
        /\ U.ctx[c].failures = n
        /\ \A u \in Tasks : U.task[u] = IF u = t /\ HasRow(T, u)
                                        THEN IF broken THEN "failed" ELSE "ready"
                                        ELSE T.task[u]
    BY <1>2, FailDispatchColumns
  <2>2. t \in Tasks /\ T.ctx[c].failures \in Nat /\ \A d \in DOMAIN T.ctx : d \in Nat
    BY TablesType DEF DispatchRow
  <2>3. Retires(T, U)
    BY FailDispatchRetires
  <2>4. Onward(T, U)
    <3>1. Writes(T, U, t, {"ready", "failed"})
      BY FailDispatchWrites
    <3> HIDE DEF U, t
    <3> QED
      BY <2>2, <3>1, WritesOnward
  <2> HIDE DEF U, t, broken, n
  <2>5. GatesGrow(T, U)
    BY <2>1 DEF GatesGrow
  <2>6. Fresh(U)
    BY <2>4, OnwardFresh DEF Sound
  <2>7. Gone(U)
    <3>1. \A d \in DOMAIN T.ctx : U.ctx[d].status = "deleted" => T.ctx[d].status = "deleted"
      BY <2>1
    <3>2. \A u \in Tasks : T.task[u] = "deleted" => U.task[u] = "deleted"
      BY <2>1 DEF HasRow
    <3> QED
      BY <2>3, <3>1, <3>2, GoneKept DEF Sound
  <2>8. ActiveOut(U)
    <3>1. \A d \in DOMAIN T.ctx : IsActive(U, d) => d # c
      BY <2>1 DEF IsActive
    <3>2. ASSUME NEW d \in DOMAIN T.ctx, IsActive(U, d), Clean(T, T.ctx[d].task),
                 IsLast(T, d), T.ctx[d].task \in Out(T)
          PROVE  T.ctx[d].task \in Out(U)
      <4>1. T.ctx[d].task # t
        <5>1. SUFFICES ASSUME T.ctx[d].task = t PROVE FALSE
          OBVIOUS
        <5>2. c \in RowsOf(T, t) /\ d \in RowsOf(T, t) /\ IsLast(T, c)
          BY <3>2, <5>1 DEF RowsOf, t
        <5>3. c =< d /\ d =< c
          BY <3>2, <5>1, <5>2 DEF IsLast, t
        <5> QED
          BY <2>2, <3>1, <3>2, <5>3
      <4> QED
        BY <2>1, <3>2, <4>1 DEF Out
    <3>3. \A u : GatesFor(U, u) = GatesFor(T, u)
      BY <2>1 DEF GatesFor
    <3> QED
      BY <2>3, <2>5, <3>2, <3>3, ActiveOutKept DEF Sound
  <2>9. ASSUME NEW u \in Tasks, HasRow(U, u), GatesFor(U, u) = {}
        PROVE  Counted(U, u)
    <3>1. HasRow(T, u) /\ GatesFor(T, u) = {}
      BY <2>1, <2>9 DEF HasRow, GatesFor
    <3>2. Counted(T, u)
      BY <3>1 DEF Sound, Counts
    <3>3. RowsOf(U, u) = RowsOf(T, u)
      BY <2>3, SameRows
    <3>4. CASE u # t
      <4>1. U.task[u] = T.task[u] /\ \A d \in RowsOf(T, u) : U.ctx[d] = T.ctx[d]
        BY <2>1, <3>4 DEF RowsOf, t
      <4> QED
        BY <3>2, <3>3, <4>1, CountedKept
    <3>5. CASE u = t
      <4>1. IsLast(T, c)
        BY <3>1, <3>5 DEF Clean, Few, t
      <4>2. \A d \in RowsOf(T, u) : d \in DOMAIN T.ctx /\ d =< c /\ T.ctx[d].failures \in Nat
        BY <3>5, <4>1, TablesType DEF IsLast, RowsOf, t, DispatchRow
      <4>3. c \in RowsOf(T, u)
        BY <3>5 DEF RowsOf, t
      <4>4. \A d \in RowsOf(T, u) : d # c =>
                d < c /\ U.ctx[d] = T.ctx[d] /\ T.ctx[d].status # "circuit_broken"
        <5>1. ASSUME NEW d \in RowsOf(T, u), d # c, T.ctx[d].status = "circuit_broken"
              PROVE  FALSE
          <6>1. IsLast(T, d) /\ T.ctx[d].task = t
            BY <3>2, <3>5, <5>1 DEF Counted, RowsOf
          <6>2. c =< d
            BY <3>5, <4>3, <6>1 DEF IsLast
          <6> QED
            BY <2>2, <4>2, <5>1, <6>2
        <5> QED
          BY <2>1, <2>2, <4>2, <5>1
      <4>5. U.task[u] = IF broken THEN "failed" ELSE "ready"
        BY <2>1, <3>1, <3>5
      <4>6. IsLast(U, c)
        BY <2>3, <4>1, SameRows
      <4>7. n = T.ctx[c].failures + 1 /\ broken <=> n >= CircuitLimit
        BY DEF n, broken
      <4>8. \A a, d \in RowsOf(U, u) : a < d =>
              /\ U.ctx[a].failures =< U.ctx[d].failures
              /\ U.ctx[d].status \in {"failed", "circuit_broken"}
                    => U.ctx[a].failures < U.ctx[d].failures
        <5>1. SUFFICES ASSUME NEW a \in RowsOf(T, u), NEW d \in RowsOf(T, u), a < d
                       PROVE  /\ U.ctx[a].failures =< U.ctx[d].failures
                              /\ U.ctx[d].status \in {"failed", "circuit_broken"}
                                    => U.ctx[a].failures < U.ctx[d].failures
          BY <3>3
        <5>2. a # c /\ U.ctx[a] = T.ctx[a]
          BY <2>2, <4>2, <4>4, <5>1
        <5>3. T.ctx[a].failures =< T.ctx[d].failures
          BY <3>2, <5>1 DEF Counted
        <5>4. CASE d = c
          BY <2>1, <2>2, <4>2, <4>7, <5>2, <5>3, <5>4 DEF n
        <5>5. CASE d # c
          BY <3>2, <4>4, <5>1, <5>2, <5>5 DEF Counted
        <5> QED
          BY <5>4, <5>5
      <4>9. \A d \in RowsOf(U, u) :
              /\ U.ctx[d].status # "circuit_broken" => U.ctx[d].failures < CircuitLimit
              /\ U.ctx[d].status = "failed" => U.ctx[d].failures > 0
              /\ U.ctx[d].status = "circuit_broken" => U.task[u] = "failed" /\ IsLast(U, d)
        <5>1. SUFFICES ASSUME NEW d \in RowsOf(T, u)
                       PROVE  /\ U.ctx[d].status # "circuit_broken"
                                 => U.ctx[d].failures < CircuitLimit
                              /\ U.ctx[d].status = "failed" => U.ctx[d].failures > 0
                              /\ U.ctx[d].status = "circuit_broken"
                                   => U.task[u] = "failed" /\ IsLast(U, d)
          BY <3>3
        <5>2. CASE d = c
          BY <2>1, <2>2, <4>5, <4>6, <5>2 DEF n, broken, CircuitLimit
        <5>3. CASE d # c
          BY <3>2, <4>4, <5>1, <5>3 DEF Counted
        <5> QED
          BY <5>2, <5>3
      <4> QED
        BY <4>8, <4>9 DEF Counted
    <3> QED
      BY <3>4, <3>5
  <2> QED
    BY <2>5, <2>6, <2>7, <2>8, <2>9 DEF Sound, Counts, U
<1> QED
  BY <1>1, <1>2

\* The newest of the active dispatches of t.
LEMMA NewestActive ==
    ASSUME NEW T \in Tables, NEW t \in Tasks,
           NEW A, A = {c \in ContextsOf(T, t) : IsActive(T, c)}, A # {}
    PROVE  Newest(A) \in A /\ \A c \in A : c =< Newest(A)
<1>1. A \in SUBSET (1 .. Len(T.ctx)) /\ Len(T.ctx) \in Nat
  BY TablesType DEF ContextsOf
<1> QED
  BY <1>1, NewestIsLast

LEMMA CreateGateColumns ==
    ASSUME NEW T \in Tables, NEW t \in Tasks
    PROVE  LET U      == CreateGate(T, t)
               n      == Len(T.gate) + 1
               active == {c \in ContextsOf(T, t) : IsActive(T, c)}
           IN  /\ U \in Tables
               /\ U.deps = T.deps
               /\ n \in Nat /\ DOMAIN U.gate = DOMAIN T.gate \cup {n} /\ n \notin DOMAIN T.gate
               /\ \A g \in DOMAIN T.gate : U.gate[g] = T.gate[g]
               /\ U.gate[n].task = t /\ U.gate[n].status = "pending"
               /\ U.ctx = IF active = {} THEN T.ctx
                          ELSE [T.ctx EXCEPT ![Newest(active)].status = "completed"]
               /\ \A u \in Tasks : U.task[u] = IF u = t /\ HasRow(T, u)
                                               THEN "blocked" ELSE T.task[u]
<1> DEFINE row == [task |-> t, status |-> "pending"]
           n   == Len(T.gate) + 1
           A   == [T EXCEPT !.gate = Append(@, row)]
           B   == CompleteActiveDispatchForTask(A, t)
           W   == SetTask(B, t, "blocked")
           active == {c \in ContextsOf(T, t) : IsActive(T, c)}
           activeA == {c \in ContextsOf(A, t) : IsActive(A, c)}
<1>1. row \in GateRow /\ row.task = t /\ row.status = "pending"
  BY DEF GateRow
<1> HIDE DEF row
<1>2. /\ Append(T.gate, row) \in Seq(GateRow)
      /\ n \in Nat /\ DOMAIN Append(T.gate, row) = DOMAIN T.gate \cup {n}
      /\ n \notin DOMAIN T.gate
      /\ \A g \in DOMAIN T.gate : Append(T.gate, row)[g] = T.gate[g]
      /\ Append(T.gate, row)[n] = row
  BY <1>1, TablesType
<1>3. /\ A \in Tables
      /\ A.task = T.task /\ A.deps = T.deps /\ A.ctx = T.ctx /\ A.gate = Append(T.gate, row)
  BY <1>2 DEF Tables
<1> HIDE DEF A
<1>4. activeA = active
  BY <1>3 DEF ContextsOf, IsActive
<1>5. /\ B \in Tables
      /\ B.task = A.task /\ B.deps = A.deps /\ B.gate = A.gate
      /\ B.ctx = IF active = {} THEN A.ctx
                 ELSE [A.ctx EXCEPT ![Newest(active)].status = "completed"]
  <2>1. B \in Tables
    BY <1>3, CompleteActiveOrderly DEF Orderly
  <2>2. active = {} => B = A
    BY <1>4 DEF CompleteActiveDispatchForTask
  <2>3. /\ B.task = A.task /\ B.deps = A.deps /\ B.gate = A.gate
        /\ activeA # {} => B.ctx = [A.ctx EXCEPT ![Newest(activeA)].status = "completed"]
    <3> HIDE DEF B
    <3> QED
      BY <1>3, CompleteActiveColumns DEF B
  <2> HIDE DEF B, active, activeA
  <2> QED
    BY <1>4, <2>1, <2>2, <2>3
<1> HIDE DEF B
<1>6. "blocked" \in TaskStatus
  BY DEF TaskStatus
<1>7. /\ W \in Tables
      /\ W.deps = B.deps /\ W.ctx = B.ctx /\ W.gate = B.gate
      /\ W.task = IF HasRow(B, t) THEN [B.task EXCEPT ![t] = "blocked"] ELSE B.task
  BY <1>5, <1>6, SetTaskColumns, SetTaskOrderly DEF Orderly
<1> HIDE DEF W
<1>8. HasRow(B, t) <=> HasRow(T, t)
  BY <1>3, <1>5 DEF HasRow
<1>9. \A u \in Tasks : W.task[u] = IF u = t /\ HasRow(T, u) THEN "blocked" ELSE T.task[u]
  BY <1>3, <1>5, <1>7, <1>8, TablesType
<1>10. CreateGate(T, t) = W
  BY DEF CreateGate, W, B, A, row
<1> HIDE DEF active, n
<1>11. /\ W.ctx = IF active = {} THEN T.ctx
                  ELSE [T.ctx EXCEPT ![Newest(active)].status = "completed"]
       /\ W.deps = T.deps /\ W.gate = Append(T.gate, row)
  BY <1>3, <1>5, <1>7
<1> QED
  BY <1>1, <1>2, <1>7, <1>9, <1>10, <1>11 DEF active, n

\* What a gate changes in the rows: of its task's, the newest active one completes.
LEMMA CreateGateRows ==
    ASSUME NEW T \in Tables, NEW t \in Tasks
    PROVE  LET U == CreateGate(T, t)
           IN  /\ \A c \in DOMAIN T.ctx :
                     /\ U.ctx[c].failures = T.ctx[c].failures
                     /\ U.ctx[c].status \in {T.ctx[c].status, "completed"}
                     /\ T.ctx[c].task # t => U.ctx[c] = T.ctx[c]
               /\ \A c \in RowsOf(T, t) : IsLast(T, c) => ~IsActive(U, c)
<1> DEFINE U == CreateGate(T, t)
           active == {c \in ContextsOf(T, t) : IsActive(T, c)}
           n == Newest(active)
<1>1. U.ctx = IF active = {} THEN T.ctx ELSE [T.ctx EXCEPT ![n].status = "completed"]
  BY CreateGateColumns
<1>2. \A c \in DOMAIN T.ctx : T.ctx[c] \in DispatchRow /\ c \in Nat
  BY TablesType
<1>3. active # {} => n \in active /\ \A c \in active : c =< n
  <2> HIDE DEF n
  <2> QED
    BY NewestActive DEF n
<1>4. n \in active => n \in DOMAIN T.ctx /\ T.ctx[n].task = t
  BY DEF ContextsOf
<1>5. ASSUME NEW c \in RowsOf(T, t), IsLast(T, c), IsActive(U, c) PROVE FALSE
  <2>1. c \in DOMAIN T.ctx /\ T.ctx[c].task = t
    BY <1>5 DEF RowsOf
  <2>2. IsActive(T, c)
    BY <1>5, <2>1, CreateGateRetires, SameRows
  <2>3. c \in active
    BY <2>1, <2>2 DEF ContextsOf, IsActive
  <2>4. n \in active /\ c =< n
    BY <1>3, <2>3
  <2>5. n =< c
    BY <1>4, <1>5, <2>1, <2>4 DEF IsLast, RowsOf
  <2>6. n = c
    <3> HIDE DEF n, active
    <3> QED
      BY <1>2, <1>4, <2>1, <2>4, <2>5
  <2>7. U.ctx[c].status = "completed"
    <3> HIDE DEF n, active, U
    <3> QED
      BY <1>1, <1>2, <2>1, <2>3, <2>6 DEF DispatchRow
  <2> QED
    BY <1>5, <2>7 DEF IsActive
<1>6. \A c \in DOMAIN T.ctx :
         /\ U.ctx[c].failures = T.ctx[c].failures
         /\ U.ctx[c].status \in {T.ctx[c].status, "completed"}
         /\ T.ctx[c].task # t => U.ctx[c] = T.ctx[c]
  <2> HIDE DEF n, active, U
  <2> QED
    BY <1>1, <1>2, <1>3, <1>4 DEF DispatchRow
<1> QED
  BY <1>5, <1>6

\* createGate
LEMMA CreateGateSound ==
    ASSUME NEW T \in Tables, Sound(T), NEW t \in Tasks, T.task[t] # "absent"
    PROVE  Sound(CreateGate(T, t)) /\ GatesGrow(T, CreateGate(T, t))
<1> DEFINE U == CreateGate(T, t)
           n == Len(T.gate) + 1
<1>1. /\ DOMAIN U.gate = DOMAIN T.gate \cup {n} /\ n \notin DOMAIN T.gate
      /\ \A g \in DOMAIN T.gate : U.gate[g] = T.gate[g]
      /\ U.gate[n].task = t /\ U.gate[n].status = "pending"
      /\ \A u \in Tasks : U.task[u] = IF u = t /\ HasRow(T, u) THEN "blocked" ELSE T.task[u]
  BY CreateGateColumns
<1>2. /\ \A c \in DOMAIN T.ctx :
            /\ U.ctx[c].failures = T.ctx[c].failures
            /\ U.ctx[c].status \in {T.ctx[c].status, "completed"}
            /\ T.ctx[c].task # t => U.ctx[c] = T.ctx[c]
      /\ \A c \in RowsOf(T, t) : IsLast(T, c) => ~IsActive(U, c)
  BY CreateGateRows
<1>3. Retires(T, U) /\ Onward(T, U)
  BY CreateGateRetires, CreateGateStep
<1> HIDE DEF U, n
<1>4. GatesGrow(T, U) /\ \A u : u # t => GatesFor(U, u) = GatesFor(T, u)
  BY <1>1 DEF GatesGrow, GatesFor
<1>5. Fresh(U)
  BY <1>3, OnwardFresh DEF Sound
<1>6. Gone(U)
  <2>1. \A c \in DOMAIN T.ctx : U.ctx[c].status = "deleted" => T.ctx[c].status = "deleted"
    BY <1>2
  <2>2. \A u \in Tasks : T.task[u] = "deleted" => U.task[u] = "deleted"
    BY <1>1 DEF HasRow
  <2> QED
    BY <1>3, <2>1, <2>2, GoneKept DEF Sound
<1>7. ActiveOut(U)
  <2>1. ASSUME NEW c \in DOMAIN T.ctx, IsActive(U, c), IsLast(T, c), T.ctx[c].task \in Out(T)
        PROVE  T.ctx[c].task \in Out(U) /\ T.ctx[c].task # t
    <3>1. T.ctx[c].task # t
      BY <1>2, <2>1 DEF RowsOf
    <3> QED
      BY <1>1, <2>1, <3>1 DEF Out
  <2> QED
    BY <1>3, <1>4, <2>1, ActiveOutKept DEF Sound
<1>8. ASSUME NEW u \in Tasks, HasRow(U, u), GatesFor(U, u) = {}
      PROVE  Counted(U, u)
  <2>1. u # t
    BY <1>1, <1>8 DEF GatesFor
  <2>2. U.task[u] = T.task[u] /\ \A c \in RowsOf(T, u) : U.ctx[c] = T.ctx[c]
    BY <1>1, <1>2, <2>1 DEF RowsOf
  <2>3. Counted(T, u)
    BY <1>4, <1>8, <2>1, <2>2 DEF Sound, Counts, HasRow
  <2>4. RowsOf(U, u) = RowsOf(T, u)
    BY <1>3, SameRows
  <2> QED
    BY <2>2, <2>3, <2>4, CountedKept
<1> QED
  BY <1>4, <1>5, <1>6, <1>7, <1>8 DEF Sound, Counts, U

LEMMA ResolveGateColumns ==
    ASSUME NEW T \in Tables, NEW g \in DOMAIN T.gate, T.gate[g].status = "pending"
    PROVE  LET U == ResolveGate(T, g)
               t == T.gate[g].task
           IN  /\ t \in Tasks
               /\ U.deps = T.deps /\ U.ctx = T.ctx
               /\ DOMAIN U.gate = DOMAIN T.gate
               /\ \A k \in DOMAIN T.gate : k # g => U.gate[k] = T.gate[k]
               /\ U.gate[g].task = t /\ U.gate[g].status = "resolved"
               /\ \A u \in Tasks : U.task[u] = IF u = t /\ HasRow(T, u)
                                               THEN "ready" ELSE T.task[u]
<1> DEFINE row == [T.gate[g] EXCEPT !.status = "resolved"]
           G   == [T.gate EXCEPT ![g] = row]
           A   == [T EXCEPT !.gate[g].status = "resolved"]
           t   == T.gate[g].task
           U   == ResolveGate(T, g)
<1>1. T.gate[g] \in GateRow /\ t \in Tasks /\ "ready" \in TaskStatus
  BY TablesType DEF GateRow, TaskStatus
<1>2. row.task = t /\ row.status = "resolved" /\ row \in GateRow
  BY <1>1 DEF GateRow
<1> HIDE DEF row
<1>3. /\ G \in Seq(GateRow) /\ DOMAIN G = DOMAIN T.gate /\ G[g] = row
      /\ \A k \in DOMAIN T.gate : k # g => G[k] = T.gate[k]
  BY <1>2, TablesType
<1>4. A = [T EXCEPT !.gate = G]
  BY DEF Tables, row
<1> HIDE DEF G
<1>5. /\ A \in Tables
      /\ A.task = T.task /\ A.deps = T.deps /\ A.ctx = T.ctx /\ A.gate = G
  <2> HIDE DEF A
  <2> QED
    BY <1>3, <1>4 DEF Tables
<1>6. U = SetTask(A, t, "ready")
  BY DEF ResolveGate
<1> HIDE DEF A, U, t
<1>7. /\ U.deps = A.deps /\ U.ctx = A.ctx /\ U.gate = A.gate
      /\ U.task = IF HasRow(A, t) THEN [A.task EXCEPT ![t] = "ready"] ELSE A.task
  BY <1>1, <1>5, <1>6, SetTaskColumns
<1>8. HasRow(A, t) <=> HasRow(T, t)
  BY <1>5 DEF HasRow
<1>9. \A u \in Tasks : U.task[u] = IF u = t /\ HasRow(T, u) THEN "ready" ELSE T.task[u]
  BY <1>1, <1>5, <1>7, <1>8, TablesType
<1> QED
  BY <1>1, <1>2, <1>3, <1>5, <1>7, <1>9 DEF U, t

\* A task that may be handed out: when no gate let it out over another's head, none of its
\* dispatches is active, and it is not ready under an open gate.
Handable(T, t) == Clean(T, t) =>
    /\ \A c \in RowsOf(T, t) : ~IsActive(T, c)
    /\ T.task[t] = "ready" => Open(T, t) = {}

LEMMA HandableKept ==
    ASSUME NEW T \in Tables, NEW U, Retires(T, U), GatesGrow(T, U),
           NEW t \in Tasks, Handable(T, t),
           U.task[t] = "ready" /\ Clean(U, t) =>
              \/ Open(U, t) = {}
              \/ T.task[t] = "ready" /\ GatesFor(U, t) = GatesFor(T, t)
    PROVE  Handable(U, t)
<1> SUFFICES ASSUME Clean(U, t)
             PROVE  /\ \A c \in RowsOf(U, t) : ~IsActive(U, c)
                    /\ U.task[t] = "ready" => Open(U, t) = {}
  BY DEF Handable
<1>1. Clean(T, t)
  BY GrowClean
<1>2. \A c \in RowsOf(T, t) : ~IsActive(T, c)
  BY <1>1 DEF Handable
<1>3. \A c \in RowsOf(U, t) : ~IsActive(U, c)
  BY <1>2, SameRows DEF RowsOf
<1>4. ASSUME U.task[t] = "ready", T.task[t] = "ready", GatesFor(U, t) = GatesFor(T, t)
      PROVE  Open(U, t) = {}
  BY <1>1, <1>4 DEF Handable, Open, GatesGrow, GatesFor
<1> QED
  BY <1>3, <1>4

\* A statement keeps the tables sound, takes no gate back, and spoils no task that may be
\* handed out.
Keeps(T, U) == /\ Sound(U) /\ GatesGrow(T, U)
               /\ \A t \in Tasks : Handable(T, t) => Handable(U, t)

\* resolveGate, of a gate that is pending.
LEMMA ResolveGateSound ==
    ASSUME NEW T \in Tables, Sound(T), NEW g \in DOMAIN T.gate, T.gate[g].status = "pending"
    PROVE  Keeps(T, ResolveGate(T, g))
<1> DEFINE U == ResolveGate(T, g)
           t == T.gate[g].task
<1>1. /\ t \in Tasks
      /\ U.deps = T.deps /\ U.ctx = T.ctx
      /\ DOMAIN U.gate = DOMAIN T.gate
      /\ \A k \in DOMAIN T.gate : k # g => U.gate[k] = T.gate[k]
      /\ U.gate[g].task = t /\ U.gate[g].status = "resolved"
      /\ \A u \in Tasks : U.task[u] = IF u = t /\ HasRow(T, u) THEN "ready" ELSE T.task[u]
  BY ResolveGateColumns
<1>2. Retires(T, U)
  BY ResolveGateRetires
<1>3. Onward(T, U)
  <2>1. Writes(T, U, t, {"ready"})
    BY ResolveGateWrites
  <2> HIDE DEF U, t
  <2> QED
    BY <1>1, <2>1, WritesOnward
<1>4. g \in GatesFor(T, t) /\ g \in Open(T, t)
  BY DEF GatesFor, Open
<1> HIDE DEF U, t
<1>5. GatesGrow(T, U) /\ \A u : GatesFor(U, u) = GatesFor(T, u)
  <2>1. T.gate[g].task = t
    BY DEF t
  <2> QED
    BY <1>1, <2>1 DEF GatesGrow, GatesFor
<1>6. Clean(U, t) => Open(U, t) = {}
  BY <1>1, <1>4, <1>5 DEF Clean, Few, Open
<1>7. Fresh(U)
  BY <1>3, OnwardFresh DEF Sound
<1>8. Gone(U)
  <2>1. \A c \in DOMAIN T.ctx : U.ctx[c].status = "deleted" => T.ctx[c].status = "deleted"
    BY <1>1
  <2>2. \A u \in Tasks : T.task[u] = "deleted" => U.task[u] = "deleted"
    BY <1>1 DEF HasRow
  <2> QED
    BY <1>2, <2>1, <2>2, GoneKept DEF Sound
<1>9. ActiveOut(U)
  <2>1. ASSUME NEW c \in DOMAIN T.ctx, T.ctx[c].task \in Out(T), Open(T, T.ctx[c].task) = {}
        PROVE  T.ctx[c].task \in Out(U)
    <3>1. T.ctx[c].task # t
      BY <1>4, <2>1
    <3> QED
      BY <1>1, <2>1, <3>1 DEF Out
  <2> QED
    BY <1>2, <1>5, <2>1, ActiveOutKept DEF Sound
<1>10. ASSUME NEW u \in Tasks, HasRow(U, u), GatesFor(U, u) = {}
       PROVE  Counted(U, u)
  <2>1. u # t
    BY <1>4, <1>5, <1>10
  <2>2. U.task[u] = T.task[u]
    BY <1>1, <2>1
  <2>3. Counted(T, u)
    BY <1>5, <1>10, <2>2 DEF Sound, Counts, HasRow
  <2>4. RowsOf(U, u) = RowsOf(T, u)
    BY <1>2, SameRows
  <2> QED
    BY <1>1, <2>2, <2>3, <2>4, CountedKept
<1>11. ASSUME NEW u \in Tasks, Handable(T, u) PROVE Handable(U, u)
  <2>1. U.task[u] = "ready" /\ Clean(U, u) =>
              \/ Open(U, u) = {}
              \/ T.task[u] = "ready" /\ GatesFor(U, u) = GatesFor(T, u)
    BY <1>1, <1>5, <1>6
  <2> QED
    BY <1>2, <1>5, <1>11, <2>1, HandableKept
<1> QED
  BY <1>5, <1>7, <1>8, <1>9, <1>10, <1>11 DEF Keeps, Sound, Counts, U

\* createGate
LEMMA CreateGateKeepsAll ==
    ASSUME NEW T \in Tables, Sound(T), NEW t \in Tasks, T.task[t] # "absent"
    PROVE  Keeps(T, CreateGate(T, t))
<1> DEFINE U == CreateGate(T, t)
           n == Len(T.gate) + 1
<1>1. /\ DOMAIN U.gate = DOMAIN T.gate \cup {n} /\ n \notin DOMAIN T.gate
      /\ \A g \in DOMAIN T.gate : U.gate[g] = T.gate[g]
      /\ U.gate[n].task = t
      /\ \A u \in Tasks : U.task[u] = IF u = t /\ HasRow(T, u) THEN "blocked" ELSE T.task[u]
  BY CreateGateColumns
<1>2. Retires(T, U) /\ Sound(U) /\ GatesGrow(T, U)
  BY CreateGateRetires, CreateGateSound
<1> HIDE DEF U, n
<1>3. U.task[t] # "ready"
  BY <1>1 DEF HasRow
<1>4. \A u : u # t => GatesFor(U, u) = GatesFor(T, u)
  BY <1>1 DEF GatesFor
<1>5. ASSUME NEW u \in Tasks, Handable(T, u) PROVE Handable(U, u)
  <2>1. U.task[u] = "ready" =>
              T.task[u] = "ready" /\ GatesFor(U, u) = GatesFor(T, u)
    BY <1>1, <1>3, <1>4
  <2> QED
    BY <1>2, <1>5, <2>1, HandableKept
<1> QED
  BY <1>2, <1>5 DEF Keeps, U

\* failDispatch, of the newest dispatch of a task nobody is about to hand out, or of one
\* that is active.
LEMMA FailDispatchKeepsAll ==
    ASSUME NEW T \in Tables, Sound(T), NEW c \in DOMAIN T.ctx,
           Clean(T, T.ctx[c].task) => IsLast(T, c)
    PROVE  /\ Sound(FailDispatch(T, c)) /\ GatesGrow(T, FailDispatch(T, c))
           /\ \A t \in Tasks : Handable(T, t) /\ (t # T.ctx[c].task \/ IsActive(T, c))
                 => Handable(FailDispatch(T, c), t)
<1> DEFINE U == FailDispatch(T, c)
<1>1. Retires(T, U) /\ Sound(U) /\ GatesGrow(T, U)
  BY FailDispatchRetires, FailDispatchSound
<1>2. CASE T.ctx[c].status = "deleted"
  BY <1>1, <1>2 DEF FailDispatch
<1>3. CASE T.ctx[c].status # "deleted"
  <2>1. /\ U.gate = T.gate
        /\ \A u \in Tasks : u # T.ctx[c].task => U.task[u] = T.task[u]
    BY <1>3, FailDispatchColumns
  <2>2. \A u : GatesFor(U, u) = GatesFor(T, u)
    BY <2>1 DEF GatesFor
  <2> HIDE DEF U
  <2>3. ASSUME NEW t \in Tasks, Handable(T, t), t # T.ctx[c].task \/ IsActive(T, c)
        PROVE  Handable(U, t)
    <3>1. CASE t # T.ctx[c].task
      BY <1>1, <2>1, <2>2, <2>3, <3>1, HandableKept
    <3>2. CASE t = T.ctx[c].task /\ IsActive(T, c)
      <4>1. c \in RowsOf(T, t)
        BY <3>2 DEF RowsOf
      <4>2. ~Clean(T, t)
        BY <2>3, <3>2, <4>1 DEF Handable
      <4>3. ~Clean(U, t)
        BY <1>1, <4>2, GrowClean
      <4> QED
        BY <4>3 DEF Handable
    <3> QED
      BY <2>3, <3>1, <3>2
  <2> QED
    BY <1>1, <2>3 DEF U
<1> QED
  BY <1>2, <1>3

\* processDecisionGates: afterwards no task is ready under an open gate, so that every
\* ready task may be handed out.
LEMMA BlockGatedSound ==
    ASSUME NEW T \in Tables, Sound(T)
    PROVE  /\ Sound(BlockGated(T)) /\ GatesGrow(T, BlockGated(T))
           /\ \A t \in Tasks : BlockGated(T).task[t] = "ready" => Handable(BlockGated(T), t)
<1> DEFINE U == BlockGated(T)
<1>1. /\ U.deps = T.deps /\ U.ctx = T.ctx /\ U.gate = T.gate
      /\ \A t \in Tasks : U.task[t] = IF t \in Gated(T) /\ HasRow(T, t)
                                      THEN "blocked" ELSE T.task[t]
  BY BlockGatedColumns
<1>2. Retires(T, U)
  BY BlockGatedRetires
<1> HIDE DEF U
<1>3. GatesGrow(T, U) /\ \A t : GatesFor(U, t) = GatesFor(T, t) /\ Open(U, t) = Open(T, t)
  BY <1>1 DEF GatesGrow, GatesFor, Open
<1>4. \A t \in Tasks : t \in Gated(T) <=> Open(T, t) # {}
  BY DEF Gated, Open, GatesFor
<1>5. Fresh(U)
  <2>1. Owners(U) = Owners(T)
    BY <1>1, <1>2, OrderlyOwners DEF Retires
  <2>2. Onward(T, U)
    BY <1>1, <2>1 DEF Onward, Waits
  <2> QED
    BY <2>2, OnwardFresh DEF Sound
<1>6. Gone(U)
  <2>1. \A c \in DOMAIN T.ctx : U.ctx[c].status = "deleted" => T.ctx[c].status = "deleted"
    BY <1>1
  <2>2. \A u \in Tasks : T.task[u] = "deleted" => U.task[u] = "deleted"
    BY <1>1 DEF HasRow
  <2> QED
    BY <1>2, <2>1, <2>2, GoneKept DEF Sound
<1>7. ActiveOut(U)
  <2>1. ASSUME NEW c \in DOMAIN T.ctx, T.ctx[c].task \in Out(T), Open(T, T.ctx[c].task) = {}
        PROVE  T.ctx[c].task \in Out(U)
    BY <1>1, <1>4, <2>1 DEF Out
  <2> QED
    BY <1>2, <1>3, <2>1, ActiveOutKept DEF Sound
<1>8. ASSUME NEW u \in Tasks, HasRow(U, u), GatesFor(U, u) = {}
      PROVE  Counted(U, u)
  <2>1. u \notin Gated(T)
    BY <1>3, <1>4, <1>8 DEF Open
  <2>2. U.task[u] = T.task[u]
    BY <1>1, <2>1
  <2>3. Counted(T, u)
    BY <1>3, <1>8, <2>2 DEF Sound, Counts, HasRow
  <2>4. RowsOf(U, u) = RowsOf(T, u)
    BY <1>2, SameRows
  <2> QED
    BY <1>1, <2>2, <2>3, <2>4, CountedKept
<1>9. ASSUME NEW t \in Tasks, U.task[t] = "ready" PROVE Handable(U, t)
  <2>1. Open(U, t) = {}
    BY <1>1, <1>3, <1>4, <1>9 DEF HasRow
  <2>2. ASSUME Clean(U, t), NEW c \in RowsOf(U, t), IsActive(U, c) PROVE FALSE
    <3>1. t \in Out(U)
      BY <1>7, <2>2 DEF ActiveOut, RowsOf
    <3> QED
      BY <1>9, <3>1 DEF Out
  <2> QED
    BY <2>1, <2>2 DEF Handable
<1> QED
  BY <1>3, <1>5, <1>6, <1>7, <1>8, <1>9 DEF Sound, Counts, U

\* reconcileWorkerDone, of a report about dispatch c and its task.
LEMMA ReconcileSound ==
    ASSUME NEW T \in Tables, Sound(T), NEW c \in DOMAIN T.ctx, NEW h, NEW p
    PROVE  Keeps(T, ReconcileWorkerDone(T, T.ctx[c].task, c, h, p))
<1> DEFINE t == T.ctx[c].task
           U == UpdateTaskStatus(T, t, "completed")
<1>1. CASE ~AcceptsWorkerDone(T, t, c, h, p)
  BY <1>1 DEF ReconcileWorkerDone, Keeps, GatesGrow
<1>2. CASE AcceptsWorkerDone(T, t, c, h, p)
  <2>1. t \in Tasks /\ \A d \in DOMAIN T.ctx : T.ctx[d] \in DispatchRow /\ d \in Nat
    BY TablesType DEF DispatchRow
  <2>2. ReconcileWorkerDone(T, t, c, h, p) = U
    BY <1>2 DEF ReconcileWorkerDone
  <2>3. /\ U.deps = T.deps /\ U.gate = T.gate
        /\ U.ctx = [T.ctx EXCEPT ![c].status = "completed"]
        /\ U.task[t] = "completed"
        /\ \A u \in Tasks \ {t} :
              U.task[u] # T.task[u] => T.task[u] = "pending" /\ U.task[u] = "ready"
    BY <1>2, <2>1, ReportColumns
  <2>4. Retires(T, U)
    BY <2>1, <2>2, ReconcileRetires
  <2>5. T.task[t] = "dispatched" /\ IsActive(T, c)
    BY <1>2 DEF AcceptsWorkerDone
  <2> HIDE DEF U, t
  <2>6. /\ \A d \in DOMAIN T.ctx : d # c => U.ctx[d] = T.ctx[d]
        /\ U.ctx[c].status = "completed" /\ U.ctx[c].failures = T.ctx[c].failures
        /\ U.ctx[c].task = T.ctx[c].task
    BY <2>1, <2>3 DEF DispatchRow
  <2>7. GatesGrow(T, U) /\ \A u : GatesFor(U, u) = GatesFor(T, u)
    BY <2>3 DEF GatesGrow, GatesFor
  <2>8. Fresh(U)
    <3>1. Owners(U) = Owners(T)
      BY <2>3, <2>4, OrderlyOwners DEF Retires
    <3>2. Onward(T, U)
      BY <2>1, <2>3, <3>1 DEF Onward, Waits
    <3> QED
      BY <3>2, OnwardFresh DEF Sound
  <2>9. \A u \in Tasks : T.task[u] = "pending" =>
            RowsOf(T, u) = {} /\ GatesFor(T, u) = {} /\ RowsOf(U, u) = {} /\ GatesFor(U, u) = {}
    <3>1. ASSUME NEW u \in Tasks, T.task[u] = "pending"
          PROVE  RowsOf(T, u) = {} /\ GatesFor(T, u) = {}
      BY <3>1 DEF Sound, Fresh, Waits, Owners, RowsOf, GatesFor
    <3> QED
      BY <2>4, <2>7, <3>1, SameRows
  <2>10. Gone(U)
    <3>1. \A d \in DOMAIN T.ctx : U.ctx[d].status = "deleted" => T.ctx[d].status = "deleted"
      BY <2>6
    <3>2. \A u \in Tasks : T.task[u] = "deleted" => U.task[u] = "deleted"
      BY <2>3, <2>5
    <3> QED
      BY <2>4, <3>1, <3>2, GoneKept DEF Sound
  <2>11. ActiveOut(U)
    <3>1. ASSUME NEW d \in DOMAIN T.ctx, IsActive(U, d), T.ctx[d].task \in Out(T), IsLast(T, d),
                 Clean(T, T.ctx[d].task)
          PROVE  T.ctx[d].task \in Out(U)
      <4>1. d # c
        BY <2>6, <3>1 DEF IsActive
      <4>2. T.ctx[d].task # t
        <5>1. SUFFICES ASSUME T.ctx[d].task = t PROVE FALSE
          OBVIOUS
        <5>2. IsLast(T, c)
          BY <2>5, <3>1, <5>1 DEF t, Sound, ActiveOut
        <5>3. c \in RowsOf(T, t) /\ d \in RowsOf(T, t)
          BY <5>1 DEF RowsOf, t
        <5>4. c =< d /\ d =< c
          BY <3>1, <5>1, <5>2, <5>3 DEF IsLast, t
        <5> QED
          BY <2>1, <4>1, <5>4
      <4>3. T.ctx[d].task \in Tasks \ {t} /\ T.task[T.ctx[d].task] = "dispatched"
        BY <3>1, <4>2 DEF Out
      <4> QED
        BY <2>3, <4>3 DEF Out
    <3> QED
      BY <2>4, <2>7, <3>1, ActiveOutKept DEF Sound
  <2>12. ASSUME NEW u \in Tasks, HasRow(U, u), GatesFor(U, u) = {}
         PROVE  Counted(U, u)
    <3>1. CASE T.task[u] = "pending"
      BY <2>9, <3>1, CountedNone
    <3>2. CASE T.task[u] # "pending"
      <4>1. U.task[u] = T.task[u] \/ u = t
        BY <2>3, <3>2
      <4>2. HasRow(T, u)
        BY <2>5, <2>12, <4>1 DEF HasRow
      <4>3. Counted(T, u)
        BY <2>7, <2>12, <4>2 DEF Sound, Counts
      <4>4. RowsOf(U, u) = RowsOf(T, u)
        BY <2>4, SameRows
      <4>5. T.task[u] = "failed" => U.task[u] = "failed"
        BY <2>5, <4>1
      <4>6. ASSUME NEW d \in RowsOf(T, u)
            PROVE  /\ U.ctx[d].task = T.ctx[d].task
                   /\ U.ctx[d].failures = T.ctx[d].failures
                   /\ \/ U.ctx[d].status = T.ctx[d].status
                      \/ U.ctx[d].status \notin {"failed", "circuit_broken"}
                         /\ T.ctx[d].status = "dispatched"
        BY <2>5, <2>6 DEF RowsOf, IsActive
      <4> QED
        BY <4>3, <4>4, <4>5, <4>6, CountedKept
    <3> QED
      BY <3>1, <3>2
  <2>13. ASSUME NEW u \in Tasks, Handable(T, u) PROVE Handable(U, u)
    <3>1. U.task[u] = "ready" => T.task[u] = "ready" \/ T.task[u] = "pending"
      BY <2>3
    <3>2. U.task[u] = "ready" =>
              \/ Open(U, u) = {}
              \/ T.task[u] = "ready" /\ GatesFor(U, u) = GatesFor(T, u)
      BY <2>7, <2>9, <3>1 DEF Open
    <3> QED
      BY <2>4, <2>7, <2>13, <3>2, HandableKept
  <2>14. Keeps(T, U)
    BY <2>7, <2>8, <2>10, <2>11, <2>12, <2>13 DEF Keeps, Sound, Counts
  <2> QED
    BY <2>2, <2>14 DEF t
<1> QED
  BY <1>1, <1>2

\* resetTasks: nothing is active, and no task is left.
LEMMA ResetTasksSound ==
    ASSUME NEW T \in Tables, Sound(T)
    PROVE  Keeps(T, ResetTasks(T))
<1> DEFINE K == [t \in Tasks |-> IF HasRow(T, t) THEN "deleted" ELSE T.task[t]]
           C == [c \in DOMAIN T.ctx |-> [T.ctx[c] EXCEPT !.status = "deleted"]]
           G == [g \in DOMAIN T.gate |-> [T.gate[g] EXCEPT !.status = "deleted"]]
           U == ResetTasks(T)
<1>1. /\ U.task = K /\ U.ctx = C /\ U.gate = G
  BY DEF Tables, ResetTasks
<1>2. /\ \A u \in Tasks : U.task[u] \in {"absent", "deleted"}
      /\ \A u \in Tasks : HasRow(T, u) \/ T.task[u] = "deleted" => U.task[u] = "deleted"
  BY <1>1 DEF HasRow
<1>3. \A c \in DOMAIN T.ctx : U.ctx[c].status = "deleted"
  <2> HIDE DEF K, G, U
  <2> QED
    BY <1>1, DeletedRow, TablesType
<1>4. /\ DOMAIN U.gate = DOMAIN T.gate
      /\ \A g \in DOMAIN T.gate : U.gate[g].task = T.gate[g].task /\ U.gate[g].status = "deleted"
  <2>1. \A g \in DOMAIN T.gate : T.gate[g] \in GateRow
    BY TablesType
  <2> HIDE DEF K, C, U
  <2> QED
    BY <1>1, <2>1 DEF GateRow
<1>5. Retires(T, U) /\ Onward(T, U)
  BY ResetTasksRetires, ResetTasksStep
<1> HIDE DEF K, C, G, U
<1>6. GatesGrow(T, U) /\ \A u : Open(U, u) = {}
  BY <1>4 DEF GatesGrow, Open, GatesFor
<1>7. Fresh(U)
  BY <1>5, OnwardFresh DEF Sound
<1>8. Gone(U)
  <2>1. ASSUME NEW c \in DOMAIN T.ctx PROVE U.task[T.ctx[c].task] = "deleted"
    <3>1. T.ctx[c].task \in Tasks /\ T.ctx[c].task \in Owners(T)
      BY TablesType DEF DispatchRow, Owners
    <3>2. T.task[T.ctx[c].task] # "absent"
      BY <3>1 DEF Sound, Fresh, Waits
    <3> QED
      BY <1>2, <3>1, <3>2 DEF HasRow
  <2> QED
    BY <1>5, <2>1, SameRows DEF Gone
<1>9. ActiveOut(U)
  BY <1>3, <1>5, SameRows DEF ActiveOut, IsActive
<1>10. Counts(U)
  BY <1>2 DEF Counts, HasRow
<1>11. ASSUME NEW u \in Tasks, Handable(T, u) PROVE Handable(U, u)
  BY <1>5, <1>6, <1>11, HandableKept
<1> QED
  BY <1>6, <1>7, <1>8, <1>9, <1>10, <1>11 DEF Keeps, Sound, U

\* createTask
LEMMA CreateTaskSound ==
    ASSUME NEW T \in Tables, Sound(T), NEW t \in Tasks, NEW D \in SUBSET Tasks,
           T.task[t] = "absent", \A d \in D : T.task[d] # "absent"
    PROVE  Keeps(T, CreateTask(T, t, D))
<1> DEFINE U == CreateTask(T, t, D)
<1>1. U.ctx = T.ctx /\ U.gate = T.gate /\ \A u \in Tasks : u # t => U.task[u] = T.task[u]
  BY DEF CreateTask, Tables
<1>2. Retires(T, U) /\ Onward(T, U)
  BY CreateTaskRetires, CreateTaskStep
<1> HIDE DEF U
<1>3. RowsOf(T, t) = {} /\ GatesFor(T, t) = {}
  BY DEF Sound, Fresh, Waits, Owners, RowsOf, GatesFor
<1>4. GatesGrow(T, U) /\ \A u : GatesFor(U, u) = GatesFor(T, u)
  BY <1>1 DEF GatesGrow, GatesFor
<1>5. Fresh(U)
  BY <1>2, OnwardFresh DEF Sound
<1>6. Gone(U)
  <2>1. \A u \in Tasks : T.task[u] = "deleted" => U.task[u] = "deleted"
    BY <1>1
  <2> QED
    BY <1>1, <1>2, <2>1, GoneKept DEF Sound
<1>7. ActiveOut(U)
  <2>1. ASSUME NEW c \in DOMAIN T.ctx, T.ctx[c].task \in Out(T)
        PROVE  T.ctx[c].task \in Out(U)
    BY <1>1, <2>1 DEF Out
  <2> QED
    BY <1>2, <1>4, <2>1, ActiveOutKept DEF Sound
<1>8. ASSUME NEW u \in Tasks, HasRow(U, u), GatesFor(U, u) = {}
      PROVE  Counted(U, u)
  <2>1. RowsOf(U, u) = RowsOf(T, u)
    BY <1>2, SameRows
  <2>2. CASE u = t
    BY <1>3, <2>1, <2>2, CountedNone
  <2>3. CASE u # t
    <3>1. U.task[u] = T.task[u]
      BY <1>1, <2>3
    <3>2. Counted(T, u)
      BY <1>4, <1>8, <3>1 DEF Sound, Counts, HasRow
    <3> QED
      BY <1>1, <2>1, <3>1, <3>2, CountedKept
  <2> QED
    BY <2>2, <2>3
<1>9. ASSUME NEW u \in Tasks, Handable(T, u) PROVE Handable(U, u)
  <2>1. U.task[u] = "ready" =>
              \/ Open(U, u) = {}
              \/ T.task[u] = "ready" /\ GatesFor(U, u) = GatesFor(T, u)
    BY <1>1, <1>3, <1>4 DEF Open
  <2> QED
    BY <1>2, <1>4, <1>9, <2>1, HandableKept
<1> QED
  BY <1>4, <1>5, <1>6, <1>7, <1>8, <1>9 DEF Keeps, Sound, Counts, U

\* createDispatchContext, of a ready task that may be handed out.
LEMMA DispatchSound ==
    ASSUME NEW T \in Tables, Sound(T), NEW t \in Tasks, NEW h \in Handles, NEW p \in Panes,
           T.task[t] = "ready", Handable(T, t)
    PROVE  LET U == CreateDispatchContext(T, t, h, p)
               n == Len(T.ctx) + 1
           IN  /\ Sound(U) /\ U.gate = T.gate
               /\ n \in DOMAIN U.ctx /\ IsLast(U, n)
               /\ \A c \in DOMAIN T.ctx : T.ctx[c].task # t => (IsLast(U, c) <=> IsLast(T, c))
               /\ \A u \in Tasks : u # t /\ Handable(T, u) => Handable(U, u)
<1> DEFINE U   == CreateDispatchContext(T, t, h, p)
           n   == Len(T.ctx) + 1
           pf  == PriorFailures(T, t)
           row == [task |-> t, handle |-> h, pane |-> p, status |-> "dispatched", failures |-> pf]
<1>1. /\ pf \in Nat
      /\ \A c \in ContextsOf(T, t) : T.ctx[c].failures =< pf
      /\ pf = 0 \/ \E c \in ContextsOf(T, t) : pf = T.ctx[c].failures
  BY PriorFailuresMax
<1>2. U = [T EXCEPT !.task[t] = "dispatched", !.ctx = Append(T.ctx, row)]
  BY DEF CreateDispatchContext
<1> HIDE DEF pf
<1>3. row \in DispatchRow /\ row.task = t /\ row.status = "dispatched" /\ row.failures = pf
  BY <1>1 DEF DispatchRow, DispatchStatus
<1> HIDE DEF row, U
<1>4. /\ U.task = [T.task EXCEPT ![t] = "dispatched"] /\ U.ctx = Append(T.ctx, row)
      /\ U.deps = T.deps /\ U.gate = T.gate
  BY <1>2 DEF Tables
<1>5. /\ n \in Nat /\ DOMAIN U.ctx = DOMAIN T.ctx \cup {n} /\ n \notin DOMAIN T.ctx
      /\ \A c \in DOMAIN T.ctx : U.ctx[c] = T.ctx[c] /\ c < n
      /\ U.ctx[n] = row
  BY <1>3, <1>4, TablesType, AppendProperties
<1>6. U.task[t] = "dispatched" /\ \A u \in Tasks : u # t => U.task[u] = T.task[u]
  BY <1>4, TablesType
<1>7. \A c \in DOMAIN T.ctx : T.ctx[c] \in DispatchRow /\ c \in Nat /\ T.ctx[c].task \in Tasks
                               /\ T.ctx[c].failures \in Nat
  BY TablesType DEF DispatchRow
<1>8. Onward(T, U)
  BY CreateDispatchStep DEF U
<1> HIDE DEF n
<1>9. RowsOf(U, t) = RowsOf(T, t) \cup {n} /\ \A u : u # t => RowsOf(U, u) = RowsOf(T, u)
  BY <1>3, <1>5 DEF RowsOf
<1>10. \A u : /\ GatesFor(U, u) = GatesFor(T, u) /\ Open(U, u) = Open(T, u)
              /\ Clean(U, u) <=> Clean(T, u)
  BY <1>4 DEF GatesFor, Open, Clean, Few
<1>11. IsLast(U, n)
  <2>1. U.ctx[n].task = t
    BY <1>3, <1>5
  <2>2. \A d \in RowsOf(U, t) : d =< n
    BY <1>5, <1>7, <1>9 DEF RowsOf
  <2> QED
    BY <2>1, <2>2 DEF IsLast
<1>12. \A c \in DOMAIN T.ctx : T.ctx[c].task # t => (IsLast(U, c) <=> IsLast(T, c))
  BY <1>5, <1>9 DEF IsLast
<1>13. \A c \in DOMAIN U.ctx : \/ c = n /\ U.ctx[c] = row
                               \/ c \in DOMAIN T.ctx /\ U.ctx[c] = T.ctx[c]
  BY <1>5
<1>14. Fresh(U)
  BY <1>8, OnwardFresh DEF Sound
<1>15. Gone(U)
  <2>1. SUFFICES ASSUME NEW c \in DOMAIN U.ctx, U.ctx[c].status = "deleted"
                 PROVE  U.task[U.ctx[c].task] = "deleted"
    BY DEF Gone
  <2>2. c \in DOMAIN T.ctx /\ U.ctx[c] = T.ctx[c]
    BY <1>3, <1>13, <2>1
  <2>3. T.task[T.ctx[c].task] = "deleted"
    BY <2>1, <2>2 DEF Sound, Gone
  <2> QED
    BY <1>6, <1>7, <2>2, <2>3
<1>16. ActiveOut(U)
  <2>1. SUFFICES ASSUME NEW c \in DOMAIN U.ctx, IsActive(U, c), Clean(U, U.ctx[c].task)
                 PROVE  /\ U.ctx[c].task \in Out(U) /\ IsLast(U, c)
                        /\ Open(U, U.ctx[c].task) = {}
    BY DEF ActiveOut
  <2>2. CASE c = n
    <3>1. U.ctx[c].task = t
      BY <1>3, <1>5, <2>2
    <3>2. Open(T, t) = {}
      BY <1>10, <2>1, <3>1 DEF Handable
    <3> QED
      BY <1>6, <1>10, <1>11, <2>2, <3>1, <3>2 DEF Out
  <2>3. CASE c \in DOMAIN T.ctx /\ U.ctx[c] = T.ctx[c]
    <3>1. IsActive(T, c) /\ Clean(T, T.ctx[c].task)
      BY <1>10, <2>1, <2>3 DEF IsActive
    <3>2. T.ctx[c].task \in Out(T) /\ IsLast(T, c) /\ Open(T, T.ctx[c].task) = {}
      BY <2>3, <3>1 DEF Sound, ActiveOut
    <3>3. T.ctx[c].task # t
      BY <3>2 DEF Out
    <3> QED
      BY <1>6, <1>10, <1>12, <2>3, <3>2, <3>3 DEF Out
  <2> QED
    BY <1>13, <2>2, <2>3
<1>17. ASSUME NEW u \in Tasks, HasRow(U, u), GatesFor(U, u) = {}
       PROVE  Counted(U, u)
  <2>1. HasRow(T, u) /\ GatesFor(T, u) = {}
    BY <1>6, <1>10, <1>17 DEF HasRow
  <2>2. Counted(T, u)
    BY <2>1 DEF Sound, Counts
  <2>3. CASE u # t
    <3>1. \A c \in RowsOf(T, u) : U.ctx[c] = T.ctx[c]
      BY <1>5 DEF RowsOf
    <3>2. RowsOf(U, u) = RowsOf(T, u) /\ U.task[u] = T.task[u]
      BY <1>6, <1>9, <2>3
    <3> QED
      BY <2>2, <3>1, <3>2, CountedKept
  <2>4. CASE u = t
    <3>1. RowsOf(T, t) = ContextsOf(T, t)
      <4>1. \A c \in RowsOf(T, t) : T.ctx[c].status # "deleted"
        BY DEF Sound, Gone, RowsOf
      <4> QED
        BY <4>1 DEF RowsOf, ContextsOf
    <3>2. \A c \in RowsOf(T, t) : /\ c \in DOMAIN T.ctx /\ c < n /\ U.ctx[c] = T.ctx[c]
                                  /\ T.ctx[c].failures =< pf /\ T.ctx[c].failures \in Nat
                                  /\ T.ctx[c].status # "circuit_broken"
      BY <1>1, <1>5, <1>7, <2>2, <2>4, <3>1 DEF Counted, RowsOf
    <3>3. pf < CircuitLimit
      BY <1>1, <2>2, <2>4, <3>1, <3>2 DEF Counted, CircuitLimit
    <3>4. \A c \in RowsOf(U, t) : (c = n /\ U.ctx[c] = row) \/ c \in RowsOf(T, t)
      BY <1>5, <1>9
    <3>5. \A a, d \in RowsOf(U, t) : a < d =>
            /\ U.ctx[a].failures =< U.ctx[d].failures
            /\ U.ctx[d].status \in {"failed", "circuit_broken"}
                  => U.ctx[a].failures < U.ctx[d].failures
      <4>1. SUFFICES ASSUME NEW a \in RowsOf(U, t), NEW d \in RowsOf(U, t), a < d
                     PROVE  /\ U.ctx[a].failures =< U.ctx[d].failures
                            /\ U.ctx[d].status \in {"failed", "circuit_broken"}
                                  => U.ctx[a].failures < U.ctx[d].failures
        OBVIOUS
      <4>2. a \in RowsOf(T, t)
        <5>1. ASSUME a = n PROVE FALSE
          <6>1. d \in Nat /\ d =< n
            BY <1>5, <1>7, <3>2, <3>4
          <6> QED
            BY <1>5, <4>1, <5>1, <6>1
        <5> QED
          BY <3>4, <5>1
      <4>3. CASE d = n /\ U.ctx[d] = row
        BY <1>3, <3>2, <4>2, <4>3
      <4>4. CASE d \in RowsOf(T, t)
        BY <2>2, <2>4, <3>2, <4>1, <4>2, <4>4 DEF Counted
      <4> QED
        BY <3>4, <4>3, <4>4
    <3>6. \A c \in RowsOf(U, t) :
            /\ U.ctx[c].status # "circuit_broken" => U.ctx[c].failures < CircuitLimit
            /\ U.ctx[c].status = "failed" => U.ctx[c].failures > 0
            /\ U.ctx[c].status = "circuit_broken" => U.task[t] = "failed" /\ IsLast(U, c)
      <4>1. \A c \in RowsOf(T, t) :
              /\ U.ctx[c].status # "circuit_broken" /\ U.ctx[c].failures < CircuitLimit
              /\ U.ctx[c].status = "failed" => U.ctx[c].failures > 0
        BY <2>2, <2>4, <3>2 DEF Counted
      <4> QED
        BY <1>3, <3>3, <3>4, <4>1
    <3> QED
      BY <2>4, <3>5, <3>6 DEF Counted
  <2> QED
    BY <2>3, <2>4
<1>18. ASSUME NEW u \in Tasks, u # t, Handable(T, u) PROVE Handable(U, u)
  <2>1. \A c \in RowsOf(U, u) : c \in RowsOf(T, u) /\ U.ctx[c] = T.ctx[c]
    BY <1>5, <1>9, <1>18 DEF RowsOf
  <2> QED
    BY <1>6, <1>10, <1>18, <2>1 DEF Handable, IsActive
<1> QED
  BY <1>4, <1>5, <1>11, <1>12, <1>14, <1>15, <1>16, <1>17, <1>18 DEF Sound, Counts, U, n

-----------------------------------------------------------------------------
(* The mail and the loops. *)

\* A message is about a task that was dispatched.  One that was sent while its dispatch
\* was active is about the newest dispatch, unless the task has several gates.
MailOK(T, M) == \A i \in DOMAIN M :
    /\ RowsOf(T, M[i].task) # {}
    /\ M[i].ctx # Ended =>
          /\ M[i].ctx \in DOMAIN T.ctx
          /\ T.ctx[M[i].ctx].task = M[i].task
          /\ Few(T, M[i].task) => IsLast(T, M[i].ctx)

\* The tasks a loop in state s is still going to hand out, and its claim on the limit.
Snapshot(s) == s.todo \cup IF s.pc = "probe" THEN {s.work.task} ELSE {}
Claims(s)   == s.slots + IF s.pc = "probe" THEN 1 ELSE 0

\* The tasks of its snapshot may be handed out, and no worker on one of them has written;
\* there is room for what it claims; and the prompt it waits for is that of its task's
\* newest dispatch.
LoopOK(T, M, s) ==
    /\ s.pc \in {"off", "top", "sleep"} => s.todo = {} /\ s.slots = 0
    /\ s.pc \in {"probe", "send"} => s.work.task \notin s.todo
    /\ s.pc = "send" => T.ctx[s.work.ctx].task = s.work.task /\ IsLast(T, s.work.ctx)
    /\ \A t \in Snapshot(s) : Handable(T, t)
    /\ \A i \in DOMAIN M :
          M[i].ctx # Ended /\ Few(T, M[i].task) => M[i].task \notin Snapshot(s)
    /\ Claims(s) > 0 => Cardinality(Out(T)) + Claims(s) =< s.limit

LoopsOK == \A l \in Loops : LoopOK(db, mail, loop[l])

CoordInv == TypeInv /\ Sound(db) /\ MailOK(db, mail) /\ LoopsOK

\* A dispatch whose failures the reading of the mail counts is one an escalation is about,
\* or a late escalation is about its task.
Blamed(T, M, c) == Few(T, T.ctx[c].task) =>
    \E i \in DOMAIN M :
        /\ M[i].type = "escalation" /\ M[i].task = T.ctx[c].task
        /\ M[i].ctx \in {c, Ended}

LEMMA FewIsClean ==
    ASSUME NEW T, NEW t, Few(T, t)
    PROVE  Clean(T, t)
BY DEF Clean

\* An escalation fails the dispatch it is about, or it is late.
LEMMA EscalationSound ==
    ASSUME TypeInv, MailOK(db, mail), NEW i \in DOMAIN mail, mail[i].type = "escalation",
           NEW a \in [db : Tables, failed : SUBSET Tasks],
           Retires(db, a.db), Sound(a.db), GatesGrow(db, a.db)
    PROVE  LET b == HandleEscalation(a, mail[i].task)
           IN  /\ Sound(b.db) /\ GatesGrow(db, b.db)
               /\ \A c \in DOMAIN db.ctx : b.db.ctx[c].failures = a.db.ctx[c].failures
                                           \/ Blamed(db, mail, c)
<1> DEFINE t == mail[i].task
           b == HandleEscalation(a, t)
           c == Newest(ContextsOf(a.db, t))
<1>1. db \in Tables /\ t \in Tasks
  <2>1. mail[i] \in Message
    BY DEF TypeInv
  <2> QED
    BY <2>1 DEF TypeInv, Message
<1>2. CASE b = a
  BY <1>2
<1>3. CASE /\ c \in ContextsOf(a.db, t) /\ \A d \in ContextsOf(a.db, t) : d =< c
           /\ HasRow(a.db, t)
           /\ b.db = FailDispatch(a.db, c)
  <2> HIDE DEF c, b
  <2>1. RowsOf(a.db, t) = ContextsOf(a.db, t)
    <3>1. \A d \in RowsOf(a.db, t) : a.db.ctx[d].status # "deleted"
      BY <1>3 DEF Sound, Gone, RowsOf, HasRow
    <3> QED
      BY <3>1 DEF RowsOf, ContextsOf
  <2>2. /\ c \in DOMAIN a.db.ctx /\ c \in DOMAIN db.ctx /\ c \in Nat
        /\ a.db.ctx[c].task = t /\ db.ctx[c].task = t
        /\ a.db.ctx[c].status # "deleted"
        /\ IsLast(a.db, c) /\ IsLast(db, c)
    <3>1. c \in DOMAIN a.db.ctx /\ a.db.ctx[c].task = t /\ a.db.ctx[c].status # "deleted"
      BY <1>3 DEF ContextsOf
    <3>2. IsLast(a.db, c)
      BY <1>3, <2>1, <3>1 DEF IsLast
    <3>3. DOMAIN db.ctx = 1 .. Len(db.ctx) /\ Len(db.ctx) \in Nat
      BY <1>1, TablesType
    <3> QED
      BY <1>1, <3>1, <3>2, <3>3, SameRows
  <2>3. Sound(b.db) /\ GatesGrow(a.db, b.db)
    BY <1>3, <2>2, FailDispatchSound
  <2>4. \A d \in DOMAIN db.ctx : d # c => b.db.ctx[d].failures = a.db.ctx[d].failures
    BY <1>1, <1>3, <2>2, FailDispatchColumns, SameRows
  <2>5. Blamed(db, mail, c)
    <3>1. SUFFICES ASSUME Few(db, t), mail[i].ctx # Ended PROVE mail[i].ctx = c
      BY <2>2 DEF Blamed
    <3>2. /\ mail[i].ctx \in DOMAIN db.ctx
          /\ IsLast(db, mail[i].ctx) /\ db.ctx[mail[i].ctx].task = t
      BY <3>1 DEF MailOK
    <3>3. c \in RowsOf(db, t) /\ mail[i].ctx \in RowsOf(db, t)
      BY <1>1, <2>2, <3>2 DEF RowsOf
    <3>4. c =< mail[i].ctx /\ mail[i].ctx =< c
      BY <2>2, <3>2, <3>3 DEF IsLast
    <3>5. mail[i].ctx \in Nat
      BY <1>1, <3>2, TablesType
    <3> QED
      BY <2>2, <3>4, <3>5
  <2> QED
    BY <2>3, <2>4, <2>5, GrowCompose DEF b
<1> QED
  BY <1>1, <1>2, <1>3, EscalationFails

LEMMA ReadMailSound ==
    ASSUME TypeInv, Sound(db), MailOK(db, mail), NEW F \in SUBSET Tasks
    PROVE  LET read == ReadMail(F)
           IN  /\ read \in [db : Tables, failed : SUBSET Tasks]
               /\ Retires(db, read.db) /\ Sound(read.db) /\ GatesGrow(db, read.db)
               /\ \A c \in DOMAIN db.ctx : read.db.ctx[c].failures = db.ctx[c].failures
                                           \/ Blamed(db, mail, c)
<1> DEFINE V == {a \in [db : Tables, failed : SUBSET Tasks] :
                   /\ Retires(db, a.db) /\ Sound(a.db) /\ GatesGrow(db, a.db)
                   /\ \A c \in DOMAIN db.ctx : a.db.ctx[c].failures = db.ctx[c].failures
                                               \/ Blamed(db, mail, c)}
<1>1. [db |-> db, failed |-> F] \in V
  BY RetiresSkip DEF TypeInv, GatesGrow
<1>2. ASSUME NEW i \in DOMAIN mail, NEW a \in V PROVE HandleMessage(a, mail[i]) \in V
  <2> DEFINE b == HandleMessage(a, mail[i])
             t == mail[i].task
  <2>1. mail[i] \in Message /\ db \in Tables /\ t \in Tasks
    <3>1. mail[i] \in Message /\ db \in Tables
      BY DEF TypeInv
    <3> QED
      BY <3>1 DEF Message
  <2>2. b \in [db : Tables, failed : SUBSET Tasks] /\ Retires(a.db, b.db)
    BY <2>1, HandleMessageRetires
  <2>3. Retires(db, b.db)
    BY <2>1, <2>2, RetiresCompose
  <2>4. CASE mail[i].type = "escalation"
    <3>1. b = HandleEscalation(a, t)
      BY <2>4 DEF HandleMessage
    <3>2. /\ Sound(b.db) /\ GatesGrow(db, b.db)
          /\ \A c \in DOMAIN db.ctx : b.db.ctx[c].failures = a.db.ctx[c].failures
                                      \/ Blamed(db, mail, c)
      BY <2>4, <3>1, EscalationSound
    <3> HIDE DEF b
    <3> QED
      BY <2>2, <2>3, <3>2 DEF b
  <2>5. CASE mail[i].type # "escalation"
    <3>1. b.db = CreateGate(a.db, t)
      BY <2>5 DEF HandleMessage
    <3>2. a.db.task[t] # "absent"
      <4>1. RowsOf(db, t) # {}
        BY DEF MailOK
      <4>2. t \in Owners(a.db)
        BY <2>1, <4>1, SameRows DEF Owners, RowsOf
      <4> QED
        BY <2>1, <4>2 DEF Sound, Fresh, Waits
    <3>3. Sound(b.db) /\ GatesGrow(a.db, b.db)
      BY <2>1, <3>1, <3>2, CreateGateSound
    <3>4. \A c \in DOMAIN db.ctx : b.db.ctx[c].failures = a.db.ctx[c].failures
      BY <2>1, <3>1, CreateGateRows, SameRows
    <3> HIDE DEF b
    <3> QED
      BY <2>2, <2>3, <3>3, <3>4, GrowCompose DEF b
  <2> QED
    BY <2>4, <2>5
<1>3. ReadMail(F) \in V
  <2>1. mail \in Seq(Message)
    BY DEF TypeInv
  <2> HIDE DEF V
  <2> QED
    BY <1>1, <1>2, <2>1, ReadMailKeeps
<1> QED
  BY <1>3

\* A loop that is off claims nothing.
LEMMA OffOK ==
    ASSUME NEW T, NEW M, NEW s, s.pc = "off", s.todo = {}, s.slots = 0
    PROVE  LoopOK(T, M, s)
BY DEF LoopOK, Snapshot, Claims

LEMMA OutShrinks ==
    ASSUME NEW T \in Tables, NEW U, Backed(T), Out(U) \subseteq Out(T)
    PROVE  /\ Cardinality(Out(U)) =< Cardinality(Out(T))
           /\ Cardinality(Out(U)) \in Nat /\ Cardinality(Out(T)) \in Nat
<1>1. IsFiniteSet(Out(T))
  BY OutFinite
<1>2. IsFiniteSet(Out(U)) /\ Cardinality(Out(U)) =< Cardinality(Out(T))
  <2> HIDE DEF Out
  <2> QED
    BY <1>1, FS_Subset
<1> QED
  BY <1>1, <1>2, FS_CardinalityType

\* The tables move under a loop that stays where it is.
LEMMA LoopKept ==
    ASSUME NEW T \in Tables, NEW U, Backed(T), Retires(T, U), GatesGrow(T, U),
           NEW M, NEW N, NEW s, LoopTyped(T, s), LoopOK(T, M, s),
           \A t \in Snapshot(s) : Handable(U, t),
           \A i \in DOMAIN N : \/ i \in DOMAIN M /\ N[i] = M[i]
                               \/ N[i].ctx # Ended /\ Few(U, N[i].task)
                                     => N[i].task \notin Snapshot(s)
    PROVE  LoopOK(U, N, s)
<1>1. /\ s.pc \in {"off", "top", "sleep"} => s.todo = {} /\ s.slots = 0
      /\ s.pc \in {"probe", "send"} => s.work.task \notin s.todo
  BY DEF LoopOK
<1>2. ASSUME s.pc = "send"
      PROVE  U.ctx[s.work.ctx].task = s.work.task /\ IsLast(U, s.work.ctx)
  <2>1. s.work.ctx \in DOMAIN T.ctx
    BY <1>2 DEF LoopTyped
  <2>2. T.ctx[s.work.ctx].task = s.work.task /\ IsLast(T, s.work.ctx)
    BY <1>2 DEF LoopOK
  <2> QED
    BY <2>1, <2>2, SameRows
<1>3. \A i \in DOMAIN N : N[i].ctx # Ended /\ Few(U, N[i].task) => N[i].task \notin Snapshot(s)
  BY GrowClean DEF LoopOK
<1>4. ASSUME Claims(s) > 0 PROVE Cardinality(Out(U)) + Claims(s) =< s.limit
  <2>1. Cardinality(Out(T)) + Claims(s) =< s.limit
    BY <1>4 DEF LoopOK
  <2>2. /\ Cardinality(Out(U)) =< Cardinality(Out(T))
        /\ Cardinality(Out(U)) \in Nat /\ Cardinality(Out(T)) \in Nat
    BY OutShrinks DEF Retires
  <2>3. Claims(s) \in Nat /\ s.limit \in Nat
    BY LimitNat DEF LoopTyped, LoopState, Claims
  <2> QED
    BY <2>1, <2>2, <2>3
<1> QED
  BY <1>1, <1>2, <1>3, <1>4 DEF LoopOK

LEMMA MailKept ==
    ASSUME NEW T \in Tables, NEW U, Retires(T, U), GatesGrow(T, U), NEW M, MailOK(T, M)
    PROVE  MailOK(U, M)
BY SameRows, GrowClean DEF MailOK, RowsOf

\* Under OneCoordinator a loop that runs is alone.
LEMMA Alone ==
    ASSUME TypeInv, OneCoordinator, NEW l \in Loops, NEW m \in Loops, l # m,
           loop[l].pc # "off"
    PROVE  loop[m].pc = "off"
<1>1. IsFiniteSet(On) /\ Cardinality(On) =< 1 /\ l \in On
  BY DEF TypeInv, OneCoordinator, On
<1>2. Cardinality(On) \in Nat
  BY <1>1, FS_CardinalityType
<1>3. Cardinality(On) # 0
  BY <1>1, FS_EmptySet
<1>4. Cardinality(On) = 1
  BY <1>1, <1>2, <1>3
<1>5. \E x : On = {x}
  <2> HIDE DEF On
  <2> QED
    BY <1>1, <1>4, FS_Singleton
<1> QED
  BY <1>1, <1>5 DEF On

\* Only the loop that moves has to be looked at.
LEMMA LoopsKept ==
    ASSUME TypeInv, LoopsOK, OneCoordinator, NEW l \in Loops, loop[l].pc # "off",
           NEW s, loop' = [loop EXCEPT ![l] = s], LoopOK(db', mail', s)
    PROVE  LoopsOK'
<1>1. loop'[l] = s /\ \A m \in Loops : m # l => loop'[m] = loop[m]
  BY DEF TypeInv, LoopsTyped
<1>2. ASSUME NEW m \in Loops, m # l PROVE LoopOK(db', mail', loop'[m])
  <2>1. loop[m].pc = "off" /\ LoopOK(db, mail, loop[m])
    BY <1>2, Alone DEF LoopsOK
  <2>2. loop[m].todo = {} /\ loop[m].slots = 0
    BY <2>1 DEF LoopOK
  <2> QED
    BY <1>1, <1>2, <2>1, <2>2, OffOK
<1> QED
  BY <1>1, <1>2 DEF LoopsOK

\* A tick that reads the mail and blocks the gated tasks starts from a clean slate: every
\* ready task may be handed out, and there is room for the slots it counts.
LEMMA TickKeeps ==
    ASSUME CoordInv, OneCoordinator, NEW l \in Loops, Tick(l)
    PROVE  /\ CoordInv' /\ GatesGrow(db, db')
           /\ \A c \in DOMAIN db.ctx : db'.ctx[c].failures = db.ctx[c].failures
                                       \/ Blamed(db, mail, c)
<1> DEFINE F     == loop[l].failed
           read  == ReadMail(F)
           after == BlockGated(read.db)
           ready == TasksIn(after, {"ready"})
           busy  == Cardinality(TasksIn(after, {"dispatched"}))
           idle  == ready = {} \/ busy >= loop[l].limit
           slots == IF idle THEN 0 ELSE loop[l].limit - busy
           todo  == IF idle THEN {} ELSE ready
           pc    == IF idle THEN "assign" ELSE "list"
           s     == [loop[l] EXCEPT !.pc = pc, !.todo = todo, !.slots = slots,
                                    !.failed = read.failed]
<1>1. TypeInv /\ Sound(db) /\ MailOK(db, mail) /\ LoopsOK /\ TypeInv' /\ Retires(db, db')
  BY TickTypes DEF CoordInv
<1>2. F \in SUBSET Tasks /\ loop[l] \in LoopState /\ loop[l].limit \in Nat
  BY <1>1, LimitNat DEF TypeInv, LoopsTyped, LoopState
<1>3. /\ read \in [db : Tables, failed : SUBSET Tasks]
      /\ Retires(db, read.db) /\ Sound(read.db) /\ GatesGrow(db, read.db)
      /\ \A c \in DOMAIN db.ctx : read.db.ctx[c].failures = db.ctx[c].failures
                                  \/ Blamed(db, mail, c)
  <2> HIDE DEF F
  <2> QED
    BY <1>1, <1>2, ReadMailSound
<1>4. db' = after /\ mail' = << >>
  BY DEF Tick
<1> HIDE DEF read
<1>5. /\ Sound(after) /\ GatesGrow(read.db, after) /\ after.ctx = read.db.ctx
      /\ \A t \in Tasks : after.task[t] = "ready" => Handable(after, t)
  BY <1>3, BlockGatedSound, BlockGatedColumns
<1>6. busy = Cardinality(Out(after)) /\ busy \in Nat
  <2>1. TasksIn(after, {"dispatched"}) = Out(after)
    BY DEF TasksIn, Out
  <2>2. after \in Tables /\ Backed(after)
    BY <1>1, <1>4 DEF TypeInv
  <2> HIDE DEF after
  <2> QED
    BY <2>1, <2>2, OutFinite
<1>7. loop' = [loop EXCEPT ![l] = s] /\ loop[l].pc = "top"
  <2>1. loop' = [loop EXCEPT ![l].pc = pc, ![l].todo = todo, ![l].slots = slots,
                             ![l].failed = read.failed]
    BY <1>4 DEF Tick, read
  <2>2. loop[l].pc = "top" /\ loop \in [Loops -> LoopState]
    BY <1>1 DEF Tick, TypeInv, LoopsTyped
  <2> HIDE DEF pc, todo, slots
  <2> QED
    BY <1>2, <2>1, <2>2
<1>8. s.pc = pc /\ s.todo = todo /\ s.slots = slots /\ s.limit = loop[l].limit
  <2> HIDE DEF pc, todo, slots
  <2> QED
    BY <1>2 DEF LoopState
<1>9. /\ pc \in {"assign", "list"}
      /\ \A t \in todo : Handable(after, t)
      /\ slots > 0 => busy + slots =< loop[l].limit
  <2>1. \A t \in ready : Handable(after, t)
    BY <1>5 DEF TasksIn
  <2> HIDE DEF after, ready, busy
  <2> QED
    BY <1>2, <1>6, <2>1
<1>10. LoopOK(db', mail', s)
  <2>1. Snapshot(s) = todo /\ Claims(s) = slots
    <3>1. slots + 0 = slots
      <4> HIDE DEF busy, idle
      <4> QED
        BY <1>2, <1>6
    <3> HIDE DEF s, pc, todo, slots
    <3> QED
      BY <1>8, <1>9, <3>1 DEF Snapshot, Claims
  <2> HIDE DEF s, pc, todo, slots, busy, after
  <2> QED
    BY <1>4, <1>6, <1>8, <1>9, <2>1 DEF LoopOK
<1>11. LoopsOK'
  <2> HIDE DEF s
  <2> QED
    BY <1>1, <1>7, <1>10, LoopsKept
<1>12. MailOK(db', mail')
  BY <1>4 DEF MailOK
<1>13. GatesGrow(db, db')
  BY <1>3, <1>4, <1>5, GrowCompose
<1> HIDE DEF after
<1> QED
  BY <1>1, <1>3, <1>4, <1>5, <1>11, <1>12, <1>13 DEF CoordInv

\* A loop in state s goes to state r and takes up nothing it did not hold.
Narrows(s, r) ==
    /\ r.pc # "send"
    /\ r.pc \in {"off", "top", "sleep"} => r.todo = {} /\ r.slots = 0
    /\ r.pc = "probe" => r.work.task \notin r.todo
    /\ Snapshot(r) \subseteq Snapshot(s)
    /\ Claims(r) > 0 => Claims(r) =< Claims(s) /\ r.limit = s.limit

LEMMA LoopNarrows ==
    ASSUME NEW T, NEW M, NEW s, NEW r, LoopOK(T, M, s), Cardinality(Out(T)) \in Nat,
           LoopTyped(T, s), LoopTyped(T, r), Narrows(s, r)
    PROVE  LoopOK(T, M, r)
<1>1. Claims(r) \in Nat /\ Claims(s) \in Nat /\ r.limit \in Nat
  BY LimitNat DEF LoopTyped, LoopState, Claims
<1>2. Claims(r) > 0 => Cardinality(Out(T)) + Claims(r) =< r.limit
  <2>1. SUFFICES ASSUME Claims(r) > 0 PROVE Cardinality(Out(T)) + Claims(r) =< r.limit
    OBVIOUS
  <2>2. Claims(r) =< Claims(s) /\ r.limit = s.limit
    BY <2>1 DEF Narrows
  <2>3. Cardinality(Out(T)) + Claims(s) =< s.limit
    BY <1>1, <2>1, <2>2 DEF LoopOK
  <2> QED
    BY <1>1, <2>2, <2>3
<1>3. \A t \in Snapshot(r) : t \in Snapshot(s)
  BY DEF Narrows
<1>4. \A t \in Snapshot(r) : Handable(T, t)
  BY <1>3 DEF LoopOK
<1>5. \A i \in DOMAIN M : M[i].ctx # Ended /\ Few(T, M[i].task) => M[i].task \notin Snapshot(r)
  BY <1>3 DEF LoopOK
<1> QED
  BY <1>2, <1>4, <1>5 DEF LoopOK, Narrows

LEMMA NewNarrows == ASSUME NEW s PROVE Narrows(s, NewLoop)
BY DEF Narrows, NewLoop, Snapshot, Claims

LEMMA SameNarrows ==
    ASSUME NEW s, NEW r, s.slots \in Nat, r.pc \in {"create", "assign"}, r.todo = s.todo,
           r.slots = s.slots, r.limit = s.limit
    PROVE  Narrows(s, r)
<1>1. Snapshot(r) = r.todo /\ r.todo \subseteq Snapshot(s)
  BY DEF Snapshot
<1>2. Claims(r) = r.slots /\ r.slots =< Claims(s)
  BY DEF Claims
<1> QED
  BY <1>1, <1>2 DEF Narrows

\* The steps of a loop that write no table.
LEMMA LoopStepNarrows ==
    ASSUME CoordInv, NEW l \in Loops, LoopStep(l),
           ~Tick(l), ~DispatchTask(l), ~PromptRefused(l)
    PROVE  \E r : loop' = [loop EXCEPT ![l] = r] /\ Narrows(loop[l], r)
<1> DEFINE old == loop[l]
<1>2. /\ loop \in [Loops -> LoopState] /\ old \in LoopState
      /\ LoopOK(db, mail, old) /\ old.slots \in Nat /\ old.limit \in Nat
  BY LimitNat DEF CoordInv, TypeInv, LoopsTyped, LoopsOK, LoopState
<1>7. CASE Stopped(l) \/ (CheckConvergence(l) /\ Unfinished = {})
  <2>1. loop' = [loop EXCEPT ![l] = NewLoop]
    BY <1>7 DEF Stopped, CheckConvergence, End
  <2> QED
    BY <2>1, NewNarrows
<1>8. CASE ListTerminals(l)
  <2>1. PICK G \in SUBSET Handles, pc \in {"create", "assign"} :
            loop' = [loop EXCEPT ![l].free = G, ![l].pc = pc]
    BY <1>8 DEF ListTerminals, CoordInv, TypeInv
  <2> DEFINE r == [old EXCEPT !.free = G, !.pc = pc]
  <2>2. loop' = [loop EXCEPT ![l] = r]
    BY <1>2, <2>1
  <2>3. r.pc = pc /\ r.todo = old.todo /\ r.slots = old.slots /\ r.limit = old.limit
    BY <1>2 DEF LoopState
  <2> HIDE DEF r, old
  <2>4. Narrows(old, r)
    BY <1>2, <2>3, SameNarrows
  <2> QED
    BY <2>2, <2>4 DEF old
<1>15. CASE ListTerminalsFails(l)
  <2> DEFINE r == [old EXCEPT !.free = {}, !.pc = "create"]
  <2>1. loop' = [loop EXCEPT ![l] = r]
    BY <1>2, <1>15 DEF ListTerminalsFails
  <2>2. r.pc = "create" /\ r.todo = old.todo /\ r.slots = old.slots /\ r.limit = old.limit
    BY <1>2 DEF LoopState
  <2> HIDE DEF r, old
  <2>3. Narrows(old, r)
    BY <1>2, <2>2, SameNarrows
  <2> QED
    BY <2>1, <2>3 DEF old
<1>9. ASSUME NEW h \in Handles, CreateTerminal(l, h)
      PROVE  \E r : loop' = [loop EXCEPT ![l] = r] /\ Narrows(old, r)
  <2> DEFINE r == [old EXCEPT !.free = {h}, !.pc = "assign"]
  <2>1. loop' = [loop EXCEPT ![l] = r]
    BY <1>2, <1>9 DEF CreateTerminal
  <2>2. r.pc = "assign" /\ r.todo = old.todo /\ r.slots = old.slots /\ r.limit = old.limit
    BY <1>2 DEF LoopState
  <2> HIDE DEF r, old
  <2>3. Narrows(old, r)
    BY <1>2, <2>2, SameNarrows
  <2> QED
    BY <2>1, <2>3
<1>10. CASE CreateTerminalFails(l)
  <2> DEFINE r == [old EXCEPT !.pc = "assign"]
  <2>1. loop' = [loop EXCEPT ![l] = r]
    BY <1>2, <1>10 DEF CreateTerminalFails
  <2>2. r.pc = "assign" /\ r.todo = old.todo /\ r.slots = old.slots /\ r.limit = old.limit
    BY <1>2 DEF LoopState
  <2> HIDE DEF r, old
  <2>3. Narrows(old, r)
    BY <1>2, <2>2, SameNarrows
  <2> QED
    BY <2>1, <2>3 DEF old
<1>11. CASE Wake(l)
  <2> DEFINE r == [old EXCEPT !.pc = "top"]
  <2>1. loop' = [loop EXCEPT ![l] = r]
    BY <1>2, <1>11 DEF Wake
  <2>2. r.pc = "top" /\ r.todo = old.todo /\ r.slots = old.slots
    BY <1>2 DEF LoopState
  <2>3. old.todo = {} /\ old.slots = 0
    BY <1>2, <1>11 DEF Wake, LoopOK
  <2> HIDE DEF r, old
  <2>4. Narrows(old, r)
    BY <2>2, <2>3 DEF Narrows, Snapshot, Claims
  <2> QED
    BY <2>1, <2>4 DEF old
<1>12. ASSUME NEW t \in Tasks, NEW h \in Handles, Assign(l, t, h)
       PROVE  \E r : loop' = [loop EXCEPT ![l] = r] /\ Narrows(old, r)
  <2> DEFINE w == [task |-> t, handle |-> h, ctx |-> 0]
             r == [old EXCEPT !.pc = "probe", !.todo = @ \ {t}, !.free = @ \ {h},
                              !.slots = @ - 1, !.work = w]
  <2>1. loop' = [loop EXCEPT ![l] = r]
    BY <1>2, <1>12 DEF Assign, LoopState
  <2>2. w.task = t /\ old.pc = "assign" /\ old.slots > 0 /\ t \in old.todo
    BY <1>12 DEF Assign, MayAssign
  <2>3. /\ r.pc = "probe" /\ r.todo = old.todo \ {t} /\ r.slots = old.slots - 1
        /\ r.limit = old.limit /\ r.work = w
    BY <1>2 DEF LoopState
  <2> HIDE DEF r, w, old
  <2>4. Snapshot(r) \subseteq Snapshot(old)
    BY <2>2, <2>3 DEF Snapshot
  <2>5. Claims(r) =< Claims(old)
    BY <1>2, <2>2, <2>3 DEF Claims
  <2>6. Narrows(old, r)
    BY <2>2, <2>3, <2>4, <2>5 DEF Narrows
  <2> QED
    BY <2>1, <2>6
<1>13. CASE SkipStaleBase(l) \/ PromptDelivered(l)
  <2> DEFINE r == [old EXCEPT !.pc = "assign", !.work = << >>]
  <2>1. loop' = [loop EXCEPT ![l] = r]
    BY <1>2, <1>13 DEF SkipStaleBase, PromptDelivered
  <2>2. r.pc = "assign" /\ r.todo = old.todo /\ r.slots = old.slots /\ r.limit = old.limit
    BY <1>2 DEF LoopState
  <2> HIDE DEF r, old
  <2>3. Narrows(old, r)
    BY <1>2, <2>2, SameNarrows
  <2> QED
    BY <2>1, <2>3 DEF old
<1>14. CASE CheckConvergence(l) /\ Unfinished # {}
  <2> DEFINE r == [old EXCEPT !.pc = "sleep", !.todo = {}, !.free = {}, !.slots = 0]
  <2>1. loop' = [loop EXCEPT ![l] = r]
    <3>1. loop' = [loop EXCEPT ![l].pc = "sleep", ![l].todo = {}, ![l].free = {},
                               ![l].slots = 0]
      BY <1>14 DEF CheckConvergence
    <3> QED
      BY <1>2, <3>1
  <2>2. r.pc = "sleep" /\ r.todo = {} /\ r.slots = 0
    BY <1>2 DEF LoopState
  <2> HIDE DEF r, old
  <2>3. Narrows(old, r)
    BY <2>2 DEF Narrows, Snapshot, Claims
  <2> QED
    BY <2>1, <2>3 DEF old
<1>16. CASE \E h \in Handles : CreateTerminal(l, h)
  BY <1>9, <1>16
<1>17. CASE \E t \in Tasks, h \in Handles : Assign(l, t, h)
  BY <1>12, <1>17
<1> QED
  BY <1>7, <1>8, <1>10, <1>11, <1>13, <1>14, <1>15, <1>16, <1>17 DEF LoopStep, Turn

LEMMA LoopStepKeeps ==
    ASSUME CoordInv, OneCoordinator, NEW l \in Loops, LoopStep(l),
           ~Tick(l), ~DispatchTask(l), ~PromptRefused(l)
    PROVE  CoordInv' /\ UNCHANGED <<db, mail>>
<1>1. TypeInv /\ Sound(db) /\ MailOK(db, mail) /\ LoopsOK
  BY DEF CoordInv
<1>2. LoopTyped(db, loop[l]) /\ LoopOK(db, mail, loop[l]) /\ loop \in [Loops -> LoopState]
  BY <1>1 DEF TypeInv, LoopsTyped, LoopsOK, LoopTyped
<1>3. Cardinality(Out(db)) \in Nat
  BY <1>1, OutFinite DEF TypeInv
<1>4. UNCHANGED <<db, mail>> /\ loop[l].pc # "off"
  BY DEF LoopStep, Turn, Stopped, ListTerminals, ListTerminalsFails, CheckConvergence, Wake, CreateTerminalFails,
         CreateTerminal, Assign, MayAssign, SkipStaleBase, PromptDelivered
<1>5. TypeInv' /\ LoopTyped(db, loop'[l])
  <2>1. TypeInv'
    BY <1>1, LoopTypes
  <2> QED
    BY <1>4, <2>1 DEF TypeInv, LoopsTyped, LoopTyped
<1>6. PICK r : loop' = [loop EXCEPT ![l] = r] /\ Narrows(loop[l], r)
  BY LoopStepNarrows
<1>7. LoopTyped(db, r)
  BY <1>2, <1>5, <1>6
<1>8. LoopOK(db, mail, r)
  BY <1>2, <1>3, <1>6, <1>7, LoopNarrows
<1>9. LoopsOK'
  BY <1>1, <1>4, <1>6, <1>8, LoopsKept
<1> QED
  BY <1>1, <1>4, <1>5, <1>9 DEF CoordInv

\* A refused prompt fails the dispatch that waited for it, the newest of its task.
LEMMA RefusedKeeps ==
    ASSUME CoordInv, OneCoordinator, NEW l \in Loops, PromptRefused(l)
    PROVE  CoordInv' /\ Retires(db, db') /\ GatesGrow(db, db') /\ UNCHANGED mail
<1> DEFINE old == loop[l]
           c   == old.work.ctx
<1>1. TypeInv /\ Sound(db) /\ MailOK(db, mail) /\ LoopsOK /\ db \in Tables /\ Backed(db)
  BY DEF CoordInv, TypeInv
<1>2. /\ loop \in [Loops -> LoopState] /\ old \in LoopState /\ LoopTyped(db, old)
      /\ LoopOK(db, mail, old) /\ old.slots \in Nat /\ old.pc = "send"
  BY <1>1 DEF TypeInv, LoopsTyped, LoopsOK, LoopState, PromptRefused
<1>3. /\ c \in DOMAIN db.ctx /\ db.ctx[c].task = old.work.task /\ IsLast(db, c)
      /\ old.work.task \notin old.todo /\ Snapshot(old) = old.todo /\ old.todo \subseteq Tasks
  BY <1>2 DEF LoopTyped, LoopOK, Snapshot, LoopState
<1>4. db' = FailDispatch(db, c) /\ UNCHANGED mail
  BY DEF PromptRefused
<1>5. Retires(db, db') /\ TypeInv'
  <2>1. ~Tick(l) /\ ~DispatchTask(l) /\ LoopStep(l)
    BY <1>2 DEF Tick, DispatchTask, LoopStep, Turn
  <2> QED
    BY <1>1, <2>1, LoopTypes
<1>6. /\ Sound(db') /\ GatesGrow(db, db')
      /\ \A t \in Tasks : Handable(db, t) /\ t # old.work.task => Handable(db', t)
  BY <1>1, <1>3, <1>4, FailDispatchKeepsAll
<1>7. PICK F : loop' = [loop EXCEPT ![l] = [old EXCEPT !.pc = "assign", !.work = << >>,
                                                       !.failed = F]]
  <2>1. PICK F \in SUBSET Tasks :
            loop' = [loop EXCEPT ![l].pc = "assign", ![l].work = << >>, ![l].failed = F]
    <3>1. old.work.task \in Tasks /\ old.failed \in SUBSET Tasks
      BY <1>2 DEF LoopTyped, Work, LoopState
    <3>2. old.failed \cup {old.work.task} \in SUBSET Tasks
      BY <3>1
    <3> QED
      BY <3>1, <3>2 DEF PromptRefused
  <2> QED
    BY <1>2, <2>1
<1> DEFINE r == [old EXCEPT !.pc = "assign", !.work = << >>, !.failed = F]
<1>8. /\ loop' = [loop EXCEPT ![l] = r]
      /\ r.pc = "assign" /\ r.todo = old.todo /\ r.slots = old.slots /\ r.limit = old.limit
  BY <1>2, <1>7 DEF LoopState
<1> HIDE DEF r, old
<1>9. LoopTyped(db', old) /\ LoopTyped(db', r)
  <2>1. LoopTyped(db', old)
    BY <1>2, <1>5, SameRows, <1>1 DEF LoopTyped
  <2>2. LoopTyped(db', r)
    BY <1>2, <1>5, <1>8 DEF TypeInv, LoopsTyped
  <2> QED
    BY <2>1, <2>2
<1>10. LoopOK(db', mail', old)
  <2>1. \A t \in Snapshot(old) : Handable(db', t)
    BY <1>2, <1>3, <1>6 DEF LoopOK
  <2>2. \A i \in DOMAIN mail' : i \in DOMAIN mail /\ mail'[i] = mail[i]
    BY <1>4
  <2> QED
    BY <1>1, <1>2, <1>5, <1>6, <2>1, <2>2, LoopKept
<1>11. LoopOK(db', mail', r)
  <2>1. Narrows(old, r)
    BY <1>2, <1>8, SameNarrows
  <2>2. Cardinality(Out(db')) \in Nat
    BY <1>5, OutFinite DEF TypeInv
  <2> QED
    BY <1>9, <1>10, <2>1, <2>2, LoopNarrows
<1>12. LoopsOK'
  <2>1. loop[l].pc # "off"
    BY <1>2 DEF old
  <2> QED
    BY <1>1, <1>8, <1>11, <2>1, LoopsKept
<1>13. MailOK(db', mail')
  BY <1>1, <1>4, <1>5, <1>6, MailKept
<1> QED
  BY <1>4, <1>5, <1>6, <1>12, <1>13 DEF CoordInv

\* A dispatch is granted to a task that may be handed out, and there is room for it.
LEMMA DispatchKeeps ==
    ASSUME CoordInv, OneCoordinator, NEW l \in Loops, DispatchTask(l)
    PROVE  /\ CoordInv' /\ GatesGrow(db, db') /\ UNCHANGED mail
           /\ DOMAIN db.ctx \subseteq DOMAIN db'.ctx
           /\ \A c \in DOMAIN db.ctx : db'.ctx[c] = db.ctx[c]
           /\ \/ UNCHANGED db /\ loop'[l].pc = "assign"
              \/ /\ Cardinality(Out(db')) =< loop[l].limit
                 /\ \E t \in Tasks : /\ Handable(db, t) /\ db.task[t] = "ready"
                                     /\ Out(db') \subseteq Out(db) \cup {t}
           /\ \A m \in Loops : m # l => loop'[m] = loop[m]
<1> DEFINE old == loop[l]
           w   == old.work
           t   == w.task
           h   == w.handle
           p   == PaneOf[h]
           n   == Len(db.ctx) + 1
<1>1. TypeInv /\ Sound(db) /\ MailOK(db, mail) /\ LoopsOK /\ db \in Tables /\ Backed(db)
  BY DEF CoordInv, TypeInv
<1>2. /\ loop \in [Loops -> LoopState] /\ old \in LoopState /\ LoopTyped(db, old)
      /\ LoopOK(db, mail, old) /\ old.slots \in Nat /\ old.limit \in Nat /\ old.pc = "probe"
  BY <1>1, LimitNat DEF TypeInv, LoopsTyped, LoopsOK, LoopState, DispatchTask
<1>3. w \in Work /\ t \in Tasks /\ h \in Handles /\ p \in Panes /\ TypeInv' /\ UNCHANGED mail
  <2>1. w \in Work /\ TypeInv'
    BY <1>1, DispatchTypes
  <2>2. t \in Tasks /\ h \in Handles /\ PaneOf[h] \in Panes
    BY <2>1, CoordinatorAssumption DEF Work
  <2> QED
    BY <2>1, <2>2 DEF DispatchTask
<1>4. /\ t \in Snapshot(old) /\ old.todo \subseteq Snapshot(old) /\ t \notin old.todo
      /\ Claims(old) = old.slots + 1
      /\ old.todo \subseteq Tasks
  BY <1>2 DEF Snapshot, Claims, LoopOK, LoopState
<1>5. Handable(db, t) /\ \A u \in old.todo : Handable(db, u)
  BY <1>2, <1>4 DEF LoopOK
<1>6. Cardinality(Out(db)) \in Nat /\ Cardinality(Out(db)) + old.slots + 1 =< old.limit
  <2>1. Cardinality(Out(db)) \in Nat
    BY <1>1, OutFinite
  <2>2. Cardinality(Out(db)) + Claims(old) =< old.limit
    BY <1>2, <1>4 DEF LoopOK
  <2> HIDE DEF old
  <2> QED
    BY <1>2, <1>4, <2>1, <2>2
<1>7. CASE ~MayDispatch(db, t, h, p)
  <2> DEFINE r == [old EXCEPT !.pc = "assign", !.work = << >>]
  <2>1. UNCHANGED db /\ loop' = [loop EXCEPT ![l].pc = "assign", ![l].work = << >>]
    BY <1>7 DEF DispatchTask
  <2>2. loop' = [loop EXCEPT ![l] = r]
    BY <1>2, <2>1
  <2>3. r.pc = "assign" /\ r.todo = old.todo /\ r.slots = old.slots /\ r.limit = old.limit
    BY <1>2 DEF LoopState
  <2>4. loop'[l] = r /\ \A m \in Loops : m # l => loop'[m] = loop[m]
    BY <1>2, <2>2
  <2> HIDE DEF r
  <2>5. LoopTyped(db, r)
    BY <1>3, <2>1, <2>4 DEF TypeInv, LoopsTyped
  <2>6. Narrows(old, r)
    BY <1>2, <2>3, SameNarrows
  <2>7. LoopOK(db', mail', r)
    BY <1>2, <1>3, <1>6, <2>1, <2>5, <2>6, LoopNarrows
  <2>8. LoopsOK'
    BY <1>1, <1>2, <2>2, <2>7, LoopsKept
  <2>9. GatesGrow(db, db')
    BY <2>1 DEF GatesGrow
  <2>10. CoordInv'
    BY <1>1, <1>3, <2>1, <2>8 DEF CoordInv
  <2> QED
    BY <1>3, <2>1, <2>3, <2>4, <2>9, <2>10
<1>8. CASE MayDispatch(db, t, h, p)
  <2>1. /\ db' = CreateDispatchContext(db, t, h, p) /\ db.task[t] = "ready"
        /\ loop' = [loop EXCEPT ![l].pc = "send", ![l].work.ctx = n]
    BY <1>8 DEF DispatchTask, MayDispatch
  <2>2. Grants(db, db', t, h, p)
    BY <1>1, <1>3, <2>1, CreateDispatchGrants
  <2>3. /\ Sound(db') /\ db'.gate = db.gate
        /\ n \in DOMAIN db'.ctx /\ IsLast(db', n)
        /\ \A c \in DOMAIN db.ctx : db.ctx[c].task # t => (IsLast(db', c) <=> IsLast(db, c))
        /\ \A u \in Tasks : u # t /\ Handable(db, u) => Handable(db', u)
    BY <1>1, <1>3, <1>5, <2>1, DispatchSound
  <2> DEFINE x == [w EXCEPT !.ctx = n]
             s == [old EXCEPT !.pc = "send", !.work = x]
  <2>4. loop' = [loop EXCEPT ![l] = s]
    BY <1>2, <1>3, <2>1 DEF LoopState, Work
  <2>5. loop'[l] = s /\ \A m \in Loops : m # l => loop'[m] = loop[m]
    BY <1>2, <2>4
  <2>6. x.task = t /\ x.ctx = n
    BY <1>3 DEF Work
  <2>7. /\ s.pc = "send" /\ s.todo = old.todo /\ s.slots = old.slots /\ s.limit = old.limit
        /\ s.work = x
    BY <1>2 DEF LoopState
  <2> HIDE DEF s, x
  <2>8. Out(db') \subseteq Out(db) \cup {t}
    <3>1. db'.task = [db.task EXCEPT ![t] = "dispatched"]
      BY <2>2 DEF Grants
    <3>2. DOMAIN db.task = Tasks
      BY <1>1 DEF Tables
    <3> HIDE DEF t
    <3> QED
      BY <3>1, <3>2 DEF Out
  <2>9. Cardinality(Out(db')) \in Nat /\ Cardinality(Out(db')) =< Cardinality(Out(db)) + 1
    <3> DEFINE S == Out(db) \cup {t}
    <3>1. IsFiniteSet(Out(db))
      BY <1>1, OutFinite
    <3>2. IsFiniteSet(S) /\ Cardinality(S) =< Cardinality(Out(db)) + 1
      <4>1. IsFiniteSet(S) /\ \/ Cardinality(S) = Cardinality(Out(db))
                              \/ Cardinality(S) = Cardinality(Out(db)) + 1
        BY <3>1, FS_AddElement
      <4> HIDE DEF S
      <4> QED
        BY <1>6, <4>1
    <3> HIDE DEF S
    <3>3. Out(db') \subseteq S
      BY <2>8 DEF S
    <3>4. IsFiniteSet(Out(db')) /\ Cardinality(Out(db')) =< Cardinality(S)
      BY <3>2, <3>3, FS_Subset
    <3>5. Cardinality(Out(db')) \in Nat /\ Cardinality(S) \in Nat
      BY <3>2, <3>4, FS_CardinalityType
    <3> QED
      BY <1>6, <3>2, <3>4, <3>5
  <2>10. GatesGrow(db, db') /\ \A u : Few(db', u) => Few(db, u)
    <3>1. GatesGrow(db, db')
      BY <2>3 DEF GatesGrow
    <3> QED
      BY <3>1, GrowClean
  <2>11. /\ DOMAIN db.ctx \subseteq DOMAIN db'.ctx
         /\ \A c \in DOMAIN db.ctx : db'.ctx[c] = db.ctx[c]
    <3>1. /\ DOMAIN db.ctx = 1 .. Len(db.ctx) /\ DOMAIN db'.ctx = 1 .. Len(db'.ctx)
          /\ Len(db.ctx) \in Nat
      BY <1>1, <1>3, TablesType DEF TypeInv
    <3> QED
      BY <2>2, <3>1 DEF Grants
  <2>12. Snapshot(s) = old.todo /\ Claims(s) = old.slots
    BY <1>2, <2>7 DEF Snapshot, Claims
  <2>13. Cardinality(Out(db')) + old.slots =< old.limit
    <3> HIDE DEF old
    <3> QED
      BY <1>2, <1>6, <2>9
  <2>14. \A i \in DOMAIN mail' : mail'[i].ctx # Ended /\ Few(db', mail'[i].task) =>
             mail'[i].task # t /\ mail'[i].task \notin old.todo
    BY <1>2, <1>3, <1>4, <2>10 DEF LoopOK
  <2>15. LoopOK(db', mail', s)
    <3>1. db'.ctx[n].task = t
      BY <2>2 DEF Grants
    <3>2. \A u \in old.todo : Handable(db', u)
      BY <1>4, <1>5, <2>3
    <3> HIDE DEF old, t, n
    <3> QED
      BY <1>4, <2>3, <2>6, <2>7, <2>12, <2>13, <2>14, <3>1, <3>2 DEF LoopOK
  <2>16. LoopsOK'
    BY <1>1, <1>2, <2>4, <2>15, LoopsKept
  <2>17. MailOK(db', mail')
    <3>1. SUFFICES ASSUME NEW i \in DOMAIN mail
                   PROVE  /\ RowsOf(db', mail[i].task) # {}
                          /\ mail[i].ctx # Ended =>
                                /\ mail[i].ctx \in DOMAIN db'.ctx
                                /\ db'.ctx[mail[i].ctx].task = mail[i].task
                                /\ Few(db', mail[i].task) => IsLast(db', mail[i].ctx)
      BY <1>3 DEF MailOK
    <3>2. /\ RowsOf(db, mail[i].task) # {}
          /\ mail[i].ctx # Ended =>
                /\ mail[i].ctx \in DOMAIN db.ctx /\ db.ctx[mail[i].ctx].task = mail[i].task
                /\ Few(db, mail[i].task) => IsLast(db, mail[i].ctx)
      BY <1>1 DEF MailOK
    <3>3. RowsOf(db', mail[i].task) # {}
      BY <2>11, <3>2 DEF RowsOf
    <3> HIDE DEF t, n
    <3> QED
      BY <1>3, <2>3, <2>10, <2>11, <2>14, <3>2, <3>3
  <2>18. CoordInv'
    BY <1>3, <2>3, <2>16, <2>17 DEF CoordInv
  <2>19. Cardinality(Out(db')) =< old.limit
    <3> HIDE DEF old
    <3> QED
      BY <1>2, <2>9, <2>13
  <2> QED
    BY <1>3, <1>5, <2>1, <2>5, <2>8, <2>10, <2>11, <2>18, <2>19
<1> QED
  BY <1>7, <1>8

\* A message from the worker of c.
IsFrom(m, c) == m.task = db.ctx[c].task /\ m.ctx = IF IsActive(db, c) THEN c ELSE Ended

\* What others do: the tables stay sound, no task that may be handed out is spoilt, and a
\* new message is late or about an active dispatch, so no loop has its task in its snapshot.
LEMMA OthersKeep ==
    ASSUME CoordInv, Retires(db, db'), TypeInv', UNCHANGED loop, Keeps(db, db'),
           \A i \in DOMAIN mail' :
              \/ i \in DOMAIN mail /\ mail'[i] = mail[i]
              \/ \E c \in DOMAIN db.ctx : IsFrom(mail'[i], c)
    PROVE  CoordInv'
<1>1. TypeInv /\ Sound(db) /\ MailOK(db, mail) /\ LoopsOK /\ db \in Tables /\ Backed(db)
  BY DEF CoordInv, TypeInv
<1>2. /\ Sound(db') /\ GatesGrow(db, db')
      /\ \A t \in Tasks : Handable(db, t) => Handable(db', t)
  BY DEF Keeps
<1>3. ASSUME NEW c \in DOMAIN db.ctx, IsActive(db, c), Few(db', db.ctx[c].task)
      PROVE  IsLast(db', c) /\ ~Handable(db, db.ctx[c].task)
  <2>1. Clean(db, db.ctx[c].task)
    BY <1>2, <1>3, GrowClean DEF Clean
  <2>2. IsLast(db, c)
    BY <1>1, <1>3, <2>1 DEF Sound, ActiveOut
  <2>3. c \in RowsOf(db, db.ctx[c].task)
    BY DEF RowsOf
  <2>4. IsLast(db', c)
    BY <1>1, <2>2, SameRows
  <2> QED
    BY <1>3, <2>1, <2>3, <2>4 DEF Handable
<1>4. MailOK(db', mail')
  <2>1. SUFFICES ASSUME NEW i \in DOMAIN mail'
                 PROVE  /\ RowsOf(db', mail'[i].task) # {}
                        /\ mail'[i].ctx # Ended =>
                              /\ mail'[i].ctx \in DOMAIN db'.ctx
                              /\ db'.ctx[mail'[i].ctx].task = mail'[i].task
                              /\ Few(db', mail'[i].task) => IsLast(db', mail'[i].ctx)
    BY DEF MailOK
  <2>2. CASE i \in DOMAIN mail /\ mail'[i] = mail[i]
    <3>1. MailOK(db', mail)
      BY <1>1, <1>2, MailKept
    <3> QED
      BY <2>2, <3>1 DEF MailOK
  <2>3. ASSUME NEW c \in DOMAIN db.ctx, IsFrom(mail'[i], c)
        PROVE  /\ RowsOf(db', mail'[i].task) # {}
               /\ mail'[i].ctx # Ended =>
                     /\ mail'[i].ctx \in DOMAIN db'.ctx
                     /\ db'.ctx[mail'[i].ctx].task = mail'[i].task
                     /\ Few(db', mail'[i].task) => IsLast(db', mail'[i].ctx)
    <3>1. /\ mail'[i].task = db.ctx[c].task
          /\ mail'[i].ctx # Ended => mail'[i].ctx = c /\ IsActive(db, c)
      BY <2>3 DEF IsFrom
    <3>2. c \in DOMAIN db'.ctx /\ db'.ctx[c].task = db.ctx[c].task
      BY <1>1, SameRows
    <3>3. RowsOf(db', mail'[i].task) # {}
      BY <3>1, <3>2 DEF RowsOf
    <3>4. mail'[i].ctx # Ended /\ Few(db', mail'[i].task) => IsLast(db', mail'[i].ctx)
      BY <1>3, <3>1
    <3> QED
      BY <3>1, <3>2, <3>3, <3>4
  <2> QED
    BY <2>2, <2>3
<1>5. ASSUME NEW l \in Loops PROVE LoopOK(db', mail', loop[l])
  <2>1. /\ LoopTyped(db, loop[l]) /\ LoopOK(db, mail, loop[l])
        /\ \A t \in Snapshot(loop[l]) : t \in Tasks /\ Handable(db, t)
    <3>1. LoopTyped(db, loop[l]) /\ LoopOK(db, mail, loop[l])
      BY <1>1 DEF TypeInv, LoopsTyped, LoopsOK
    <3>2. Snapshot(loop[l]) \subseteq Tasks
      BY <3>1 DEF LoopTyped, LoopState, Work, Snapshot
    <3> QED
      BY <3>1, <3>2 DEF LoopOK
  <2>2. \A t \in Snapshot(loop[l]) : Handable(db', t)
    BY <1>2, <2>1
  <2>3. \A i \in DOMAIN mail' : \/ i \in DOMAIN mail /\ mail'[i] = mail[i]
                                \/ mail'[i].ctx # Ended /\ Few(db', mail'[i].task)
                                      => mail'[i].task \notin Snapshot(loop[l])
    BY <1>3, <2>1 DEF IsFrom
  <2> QED
    BY <1>1, <1>2, <2>1, <2>2, <2>3, LoopKept
<1> QED
  BY <1>2, <1>4, <1>5 DEF CoordInv, LoopsOK

\* failDispatch of an active dispatch.
LEMMA FailActiveKeeps ==
    ASSUME NEW T \in Tables, Sound(T), NEW c \in DOMAIN T.ctx, IsActive(T, c)
    PROVE  Keeps(T, FailDispatch(T, c))
<1>1. Clean(T, T.ctx[c].task) => IsLast(T, c)
  BY DEF Sound, ActiveOut
<1> QED
  BY <1>1, FailDispatchKeepsAll DEF Keeps

LEMMA KeepsSkip == ASSUME NEW T, Sound(T) PROVE Keeps(T, T)
BY DEF Keeps, GatesGrow

LEMMA OtherKeeps ==
    ASSUME CoordInv, OtherStep
    PROVE  CoordInv' /\ Retires(db, db') /\ GatesGrow(db, db') /\ UNCHANGED loop
           /\ (mail # << >> => mail' # << >>)
<1>1. TypeInv /\ Sound(db) /\ db \in Tables /\ mail \in Seq(Message)
  BY DEF CoordInv, TypeInv
<1>2. Retires(db, db') /\ UNCHANGED loop /\ TypeInv'
  BY <1>1, OtherTypes
<1> DEFINE Told == \A i \in DOMAIN mail' :
                      \/ i \in DOMAIN mail /\ mail'[i] = mail[i]
                      \/ \E c \in DOMAIN db.ctx : IsFrom(mail'[i], c)
           Done == Keeps(db, db') /\ Told /\ (mail # << >> => mail' # << >>)
<1>3. SUFFICES Done
  <2> HIDE DEF Told
  <2>1. CoordInv'
    BY <1>2, OthersKeep DEF Told
  <2> QED
    BY <1>2, <2>1 DEF Keeps
<1>4. ASSUME UNCHANGED mail PROVE Told /\ (mail # << >> => mail' # << >>)
  BY <1>4
<1>5. ASSUME NEW type, NEW c \in DOMAIN db.ctx, NEW n, n = IF IsActive(db, c) THEN c ELSE Ended,
             mail' = Append(mail, [type |-> type, task |-> db.ctx[c].task, ctx |-> n])
      PROVE  Told /\ (mail # << >> => mail' # << >>)
  <2> DEFINE msg == [type |-> type, task |-> db.ctx[c].task, ctx |-> n]
  <2>1. IsFrom(msg, c) /\ mail' = Append(mail, msg)
    BY <1>5 DEF IsFrom
  <2> HIDE DEF msg
  <2>2. /\ Len(mail) \in Nat /\ DOMAIN mail = 1 .. Len(mail)
        /\ DOMAIN mail' = 1 .. Len(mail) + 1
        /\ \A i \in 1 .. Len(mail) : mail'[i] = mail[i]
        /\ mail'[Len(mail) + 1] = msg
    BY <1>1, <2>1
  <2>3. Told
    <3>1. SUFFICES ASSUME NEW i \in DOMAIN mail'
                   PROVE  \/ i \in DOMAIN mail /\ mail'[i] = mail[i]
                          \/ mail'[i] = msg
      BY <1>5, <2>1
    <3> QED
      BY <2>2
  <2>4. mail' # << >>
    BY <2>2
  <2> QED
    BY <2>3, <2>4
<1> HIDE DEF Told
<1>6. ASSUME NEW c \in DOMAIN db.ctx, WorkerDone(c) PROVE Done
  <2>1. Keeps(db, db')
    BY <1>1, <1>6, ReconcileSound DEF WorkerDone
  <2> QED
    BY <1>4, <1>6, <2>1 DEF WorkerDone
<1>7. ASSUME NEW c \in DOMAIN db.ctx, NEW type, WorkerReports(c, type) PROVE Done
  <2>1. Keeps(db, db')
    BY <1>1, <1>7, KeepsSkip DEF WorkerReports
  <2> DEFINE n == IF IsActive(db, c) THEN c ELSE Ended
  <2>2. mail' = Append(mail, [type |-> type, task |-> db.ctx[c].task, ctx |-> n])
    BY <1>7 DEF WorkerReports
  <2> QED
    BY <1>5, <2>1, <2>2
<1>8. ASSUME NEW h \in Handles, TerminalExit(h) PROVE Done
  <2>1. CASE UNCHANGED <<db, mail>>
    <3>1. Keeps(db, db')
      BY <1>1, <2>1, KeepsSkip
    <3> QED
      BY <1>4, <2>1, <3>1
  <2>2. ASSUME NEW c \in DOMAIN db.ctx, IsActive(db, c), db' = FailDispatch(db, c),
               mail' \in {mail, Append(mail, [type |-> "escalation",
                                              task |-> db.ctx[c].task, ctx |-> c])}
        PROVE  Done
    <3>1. Keeps(db, db')
      BY <1>1, <2>2, FailActiveKeeps
    <3> QED
      BY <1>4, <1>5, <2>2, <3>1
  <2> QED
    BY <1>1, <1>8, <2>1, <2>2, ExitFails
<1>9. CASE Reset
  <2>1. Keeps(db, db')
    BY <1>1, <1>9, ResetTasksSound DEF Reset
  <2> QED
    BY <1>4, <1>9, <2>1 DEF Reset
<1>10. ASSUME NEW t \in Tasks, TaskCreate(t) PROVE Done
  <2>1. Keeps(db, db')
    <3>1. DepsOf[t] \in SUBSET Tasks
      BY CoordinatorAssumption
    <3> QED
      BY <1>1, <1>10, <3>1, CreateTaskSound DEF TaskCreate
  <2> QED
    BY <1>4, <1>10, <2>1 DEF TaskCreate
<1>11. ASSUME NEW t \in Tasks, GateCreate(t) PROVE Done
  <2>1. Keeps(db, db')
    BY <1>1, <1>11, CreateGateKeepsAll DEF GateCreate
  <2> QED
    BY <1>4, <1>11, <2>1 DEF GateCreate
<1>12. ASSUME NEW g \in DOMAIN db.gate, GateResolve(g) PROVE Done
  <2>1. Keeps(db, db')
    BY <1>1, <1>12, ResolveGateSound DEF GateResolve
  <2> QED
    BY <1>4, <1>12, <2>1 DEF GateResolve
<1> HIDE DEF Done
<1> QED
  BY <1>6, <1>7, <1>8, <1>9, <1>10, <1>11, <1>12 DEF OtherStep, WorkerStep

\* A run starts with nothing in hand, and a crash leaves no loop.
LEMMA RunKeeps ==
    ASSUME CoordInv, RunStop \/ Crash \/ \E l \in Loops, n \in Limits : Run(l, n)
    PROVE  CoordInv' /\ UNCHANGED <<db, mail>>
<1>1. TypeInv /\ Sound(db) /\ MailOK(db, mail) /\ LoopsOK
  BY DEF CoordInv
<1>2. UNCHANGED <<db, mail>> /\ TypeInv'
  BY <1>1, RunTypes
<1>3. loop \in [Loops -> LoopState] /\ \A l \in Loops : LoopOK(db, mail, loop[l])
  BY <1>1 DEF TypeInv, LoopsTyped, LoopsOK
<1>4. CASE RunStop
  <2>1. loop' = [loop EXCEPT ![current].stopped = TRUE] /\ current \in Loops
    BY <1>1, <1>4 DEF RunStop, TypeInv
  <2> DEFINE r == [loop[current] EXCEPT !.stopped = TRUE]
  <2>2. /\ r.pc = loop[current].pc /\ r.todo = loop[current].todo
        /\ r.slots = loop[current].slots /\ r.limit = loop[current].limit
        /\ r.work = loop[current].work
    BY <1>3, <2>1 DEF LoopState
  <2>3. loop' = [loop EXCEPT ![current] = r]
    BY <1>3, <2>1
  <2> HIDE DEF r
  <2>4. LoopOK(db, mail, r)
    <3>1. LoopOK(db, mail, loop[current])
      BY <1>3, <2>1
    <3>2. Snapshot(r) = Snapshot(loop[current]) /\ Claims(r) = Claims(loop[current])
      BY <2>2 DEF Snapshot, Claims
    <3> QED
      BY <2>2, <3>1, <3>2 DEF LoopOK
  <2>5. \A l \in Loops : LoopOK(db, mail, loop'[l])
    BY <1>3, <2>3, <2>4
  <2> QED
    BY <1>1, <1>2, <2>5 DEF CoordInv, LoopsOK
<1>5. CASE Crash
  <2>1. \A l \in Loops : loop'[l] = NewLoop
    BY <1>5 DEF Crash
  <2>2. NewLoop.pc = "off" /\ NewLoop.todo = {} /\ NewLoop.slots = 0
    BY DEF NewLoop
  <2>3. LoopOK(db, mail, NewLoop)
    BY <2>2, OffOK
  <2> QED
    BY <1>1, <1>2, <2>1, <2>3 DEF CoordInv, LoopsOK
<1>6. ASSUME NEW l \in Loops, NEW n \in Limits, Run(l, n) PROVE CoordInv'
  <2>1. PICK r : /\ loop' = [loop EXCEPT ![l] = r]
                 /\ \/ r = loop[l]
                    \/ r.pc = "top" /\ r.todo = {} /\ r.slots = 0
    <3> DEFINE r == [NewLoop EXCEPT !.pc = "top", !.limit = n]
    <3>1. r.pc = "top" /\ r.todo = {} /\ r.slots = 0
      BY DEF NewLoop
    <3>2. loop' = [loop EXCEPT ![l] = r] \/ loop' = [loop EXCEPT ![l] = loop[l]]
      BY <1>3, <1>6 DEF Run
    <3> HIDE DEF r
    <3> QED
      BY <3>1, <3>2
  <2>2. LoopOK(db, mail, r)
    <3>1. CASE r.pc = "top" /\ r.todo = {} /\ r.slots = 0
      BY <3>1 DEF LoopOK, Snapshot, Claims
    <3> QED
      BY <1>3, <2>1, <3>1
  <2>3. \A m \in Loops : LoopOK(db, mail, loop'[m])
    BY <1>3, <2>1, <2>2
  <2> QED
    BY <1>1, <1>2, <2>3 DEF CoordInv, LoopsOK
<1> QED
  BY <1>2, <1>4, <1>5, <1>6

LEMMA InitCoordInv == Init => CoordInv
<1> SUFFICES ASSUME Init PROVE CoordInv
  OBVIOUS
<1>1. TypeInv
  BY InitTypeInv
<1>2. DOMAIN db.ctx = {} /\ DOMAIN db.gate = {} /\ DOMAIN mail = {}
      /\ db.task = [t \in Tasks |-> "absent"] /\ db.deps = [t \in Tasks |-> {}]
  BY DEF Init, EmptyTables
<1>3. Sound(db)
  <2>1. Fresh(db)
    BY <1>2 DEF Fresh, Owners
  <2>2. Gone(db) /\ ActiveOut(db) /\ Counts(db)
    BY <1>2 DEF Gone, ActiveOut, Counts, HasRow
  <2> QED
    BY <2>1, <2>2 DEF Sound
<1>4. MailOK(db, mail)
  BY <1>2 DEF MailOK
<1>5. LoopsOK
  <2>1. NewLoop.pc = "off" /\ NewLoop.todo = {} /\ NewLoop.slots = 0
    BY DEF NewLoop
  <2>2. LoopOK(db, mail, NewLoop)
    BY <2>1, OffOK
  <2> QED
    BY <2>2 DEF Init, LoopsOK
<1> QED
  BY <1>1, <1>3, <1>4, <1>5 DEF CoordInv

LEMMA NextCoordInv == CoordInv /\ OneCoordinator /\ [Next]_vars => CoordInv'
<1> SUFFICES ASSUME CoordInv, OneCoordinator, [Next]_vars PROVE CoordInv'
  OBVIOUS
<1>1. ASSUME NEW l \in Loops, LoopStep(l) PROVE CoordInv'
  BY <1>1, TickKeeps, DispatchKeeps, RefusedKeeps, LoopStepKeeps
<1>2. CASE UNCHANGED vars
  <2>1. UNCHANGED <<db, runs, loop, current, mail, alive, reports, mishaps>>
    BY <1>2 DEF vars
  <2>2. TypeInv'
    BY NextTypeInv DEF CoordInv
  <2> QED
    BY <2>1, <2>2 DEF CoordInv, LoopsOK
<1> QED
  BY <1>1, <1>2, NextCases, OtherKeeps, RunKeeps

LEMMA CoordInvAlways == Spec /\ []OneCoordinator => []CoordInv
<1>1. Init => CoordInv
  BY InitCoordInv
<1>2. CoordInv /\ OneCoordinator /\ [Next]_vars => CoordInv'
  BY NextCoordInv
<1> QED
  BY <1>1, <1>2, PTL DEF Spec

-----------------------------------------------------------------------------
(* What the loop keeps true across its awaits. *)

LEMMA AtMostOne ==
    ASSUME NEW S, IsFiniteSet(S), Cardinality(S) =< 1, NEW a \in S, NEW b \in S
    PROVE  a = b
<1>1. Cardinality(S) \in Nat /\ Cardinality(S) # 0
  BY FS_CardinalityType, FS_EmptySet
<1>2. Cardinality(S) = 1
  BY <1>1
<1> QED
  BY <1>2, FS_Singleton

LEMMA GatesOnFew ==
    ASSUME db \in Tables, NEW t, Cardinality(GatesOn(t)) =< 1
    PROVE  Few(db, t)
<1>1. GatesOn(t) \subseteq 1 .. Len(db.gate) /\ Len(db.gate) \in Nat
  BY TablesType DEF GatesOn
<1>2. IsFiniteSet(GatesOn(t))
  <2>1. IsFiniteSet(1 .. Len(db.gate))
    BY <1>1, FS_Interval
  <2> QED
    BY <1>1, <2>1, FS_Subset
<1>3. \A a, b \in GatesOn(t) : a = b
  BY <1>2, AtMostOne
<1> QED
  BY <1>3 DEF GatesOn, Few, GatesFor

\* A loop that is the only one there can be needs no such assumption.
LEMMA OneLoopIsOneCoordinator ==
    ASSUME \A l, m \in Loops : l = m
    PROVE  OneCoordinator
<1>1. CASE On = {}
  BY <1>1, FS_EmptySet DEF OneCoordinator, On
<1>2. CASE On # {}
  <2>1. PICK l \in Loops : On = {l}
    BY <1>2 DEF On
  <2>2. Cardinality(On) = 1
    <3> HIDE DEF On
    <3> QED
      BY <2>1, FS_Singleton
  <2> QED
    BY <2>2 DEF OneCoordinator, On
<1> QED
  BY <1>1, <1>2

LEMMA CoordInvNoLeakedLock == CoordInv => NoLeakedLock
<1> SUFFICES ASSUME CoordInv, NEW c \in DOMAIN db.ctx, IsActive(db, c),
                    Cardinality(GatesOn(db.ctx[c].task)) =< 1
             PROVE  db.task[db.ctx[c].task] = "dispatched"
  BY DEF NoLeakedLock
<1>1. db \in Tables /\ ActiveOut(db)
  BY DEF CoordInv, TypeInv, Sound
<1>2. Clean(db, db.ctx[c].task)
  BY <1>1, GatesOnFew DEF Clean
<1> QED
  BY <1>1, <1>2 DEF ActiveOut, Out

LEMMA CoordInvCircuitHolds == CoordInv => CircuitHolds
<1> SUFFICES ASSUME CoordInv, NEW t \in Tasks, HasRow(db, t), GatesOn(t) = {}
             PROVE  /\ Cardinality({c \in ContextsOf(db, t) :
                            db.ctx[c].status \in {"failed", "circuit_broken"}}) =< CircuitLimit
                    /\ (\E c \in ContextsOf(db, t) : db.ctx[c].status = "circuit_broken")
                          => db.task[t] = "failed"
  BY DEF CircuitHolds
<1>1. db \in Tables /\ Counted(db, t)
  BY DEF CoordInv, TypeInv, Sound, Counts, GatesOn, GatesFor
<1>2. /\ ContextsOf(db, t) \subseteq RowsOf(db, t)
      /\ \A c \in RowsOf(db, t) : c \in Nat /\ db.ctx[c].task = t /\ db.ctx[c].failures \in Nat
  BY <1>1, TablesType DEF ContextsOf, RowsOf, DispatchRow
<1>3. (\E c \in ContextsOf(db, t) : db.ctx[c].status = "circuit_broken") => db.task[t] = "failed"
  BY <1>1, <1>2 DEF Counted
<1> DEFINE F == {c \in ContextsOf(db, t) : db.ctx[c].status \in {"failed", "circuit_broken"}}
           f == [c \in F |-> IF db.ctx[c].status = "circuit_broken"
                             THEN CircuitLimit ELSE db.ctx[c].failures]
<1>4. \A c \in F : f[c] \in 1 .. CircuitLimit
  BY <1>1, <1>2 DEF Counted, CircuitLimit
<1>5. ASSUME NEW c \in F, NEW d \in F, c < d PROVE f[c] # f[d]
  <2>1. /\ c \in RowsOf(db, t) /\ d \in RowsOf(db, t)
        /\ db.ctx[c].failures < db.ctx[d].failures
    BY <1>1, <1>2, <1>5 DEF Counted
  <2>2. db.ctx[c].status # "circuit_broken"
    <3>1. ASSUME db.ctx[c].status = "circuit_broken" PROVE FALSE
      <4>1. d =< c
        BY <1>1, <1>2, <2>1, <3>1 DEF Counted, IsLast
      <4> QED
        BY <1>2, <1>5, <2>1, <4>1
    <3> QED
      BY <3>1
  <2>3. db.ctx[c].failures < CircuitLimit
    BY <1>1, <2>1, <2>2 DEF Counted
  <2> QED
    BY <1>2, <2>1, <2>2, <2>3 DEF CircuitLimit
<1>6. f \in Injection(F, 1 .. CircuitLimit)
  <2>1. \A c, d \in F : c # d => f[c] # f[d]
    <3>1. \A c, d \in F : c # d => c < d \/ d < c
      BY <1>2
    <3> HIDE DEF f, F
    <3> QED
      BY <1>5, <3>1
  <2>2. f \in [F -> 1 .. CircuitLimit]
    BY <1>4
  <2> HIDE DEF f, F
  <2> QED
    BY <2>1, <2>2 DEF Injection, IsInjective
<1>7. Cardinality(F) =< CircuitLimit
  <2>1. IsFiniteSet(1 .. CircuitLimit) /\ Cardinality(1 .. CircuitLimit) = CircuitLimit
    <3>1. /\ 1 \in Int /\ CircuitLimit \in Int /\ CircuitLimit >= 1
          /\ CircuitLimit - 1 + 1 = CircuitLimit
      BY DEF CircuitLimit
    <3> HIDE DEF CircuitLimit
    <3> QED
      BY <3>1, FS_Interval
  <2> HIDE DEF f, F
  <2> QED
    BY <1>6, <2>1, FS_Injection
<1> QED
  BY <1>3, <1>7

\* What a step takes out, and who takes it.
LEMMA WhoDispatches ==
    ASSUME CoordInv, OneCoordinator, [Next]_vars
    PROVE  \/ \E l \in Loops : DispatchTask(l)
           \/ /\ Out(db') \subseteq Out(db)
              /\ \A l \in Loops : loop[l].pc = "probe" => loop'[l].pc # "send"
<1>1. TypeInv /\ loop \in [Loops -> LoopState] /\ db \in Tables
  BY DEF CoordInv, TypeInv, LoopsTyped
<1>2. ASSUME NEW m \in Loops, LoopStep(m), ~DispatchTask(m)
      PROVE  /\ Out(db') \subseteq Out(db)
             /\ \A l \in Loops : loop[l].pc = "probe" => loop'[l].pc # "send"
  <2>1. Retires(db, db')
    BY <1>1, <1>2, TickTypes, LoopTypes
  <2>2. loop[m].pc # "off"
    BY <1>2 DEF LoopStep, Turn, Stopped, Tick, ListTerminals, ListTerminalsFails, CheckConvergence, Wake,
                CreateTerminalFails, CreateTerminal, Assign, MayAssign, SkipStaleBase,
                PromptDelivered, PromptRefused
  <2>3. ASSUME NEW l \in Loops, loop[l].pc = "probe" PROVE loop'[l].pc # "send"
    <3>1. l = m
      BY <1>1, <2>2, <2>3, Alone
    <3>2. ~Tick(m) /\ ~PromptRefused(m)
      BY <2>3, <3>1 DEF Tick, PromptRefused
    <3>3. PICK r : loop' = [loop EXCEPT ![m] = r] /\ Narrows(loop[m], r)
      BY <1>2, <3>2, LoopStepNarrows
    <3>4. loop'[l] = r
      BY <1>1, <3>1, <3>3
    <3> QED
      BY <3>3, <3>4 DEF Narrows
  <2> QED
    BY <2>1, <2>3 DEF Retires
<1>3. CASE OtherStep
  <2>1. Retires(db, db') /\ UNCHANGED loop
    BY <1>1, <1>3, OtherTypes
  <2> QED
    BY <2>1 DEF Retires
<1>4. CASE RunStop \/ Crash \/ \E l \in Loops, n \in Limits : Run(l, n)
  <2>1. UNCHANGED db
    BY <1>1, <1>4, RunTypes
  <2>2. ASSUME NEW l \in Loops, loop[l].pc = "probe" PROVE loop'[l].pc # "send"
    <3>1. CASE RunStop
      <4>1. loop'[l].pc = loop[l].pc
        <5>1. current \in Loops /\ loop[current] \in LoopState
          BY <1>1, <3>1 DEF RunStop, TypeInv
        <5> QED
          BY <1>1, <3>1, <5>1 DEF RunStop, LoopState
      <4> QED
        BY <2>2, <4>1
    <3>2. CASE Crash
      BY <3>2 DEF Crash, NewLoop
    <3>3. ASSUME NEW m \in Loops, NEW n \in Limits, Run(m, n) PROVE loop'[l].pc # "send"
      <4>1. m # l
        BY <2>2, <3>3 DEF Run
      <4>2. loop'[l] = loop[l]
        BY <1>1, <3>3, <4>1 DEF Run
      <4> QED
        BY <2>2, <4>2
    <3> QED
      BY <1>4, <3>1, <3>2, <3>3
  <2> QED
    BY <2>1, <2>2
<1>5. CASE UNCHANGED vars
  BY <1>5 DEF vars
<1> QED
  BY <1>2, <1>3, <1>4, <1>5, NextCases

\* No terminal stays locked for a task that is not out, as long as one loop runs at a time:
\* an active dispatch, of a task with at most one gate, has its task in "dispatched", so
\* that a report or an exit ends both together.
THEOREM LocksDoNotLeak == Spec /\ []OneCoordinator => []NoLeakedLock
<1>1. CoordInv => NoLeakedLock
  BY CoordInvNoLeakedLock
<1> QED
  BY <1>1, CoordInvAlways, PTL

\* The circuit breaker holds: at most three dispatches of a task fail, and a task whose
\* circuit broke stays failed, unless a gate asks for a decision on it.
THEOREM CircuitBreaks == Spec /\ []OneCoordinator => []CircuitHolds
<1>1. CoordInv => CircuitHolds
  BY CoordInvCircuitHolds
<1> QED
  BY <1>1, CoordInvAlways, PTL

\* With a single Coordinator object nothing needs to be assumed.
THEOREM OneLoopSuffices ==
    ASSUME \A l, m \in Loops : l = m
    PROVE  Spec => [](NoLeakedLock /\ CircuitHolds)
<1>1. OneCoordinator
  BY OneLoopIsOneCoordinator
<1> QED
  BY <1>1, LocksDoNotLeak, CircuitBreaks, PTL

LEMMA StepConcurrency ==
    ASSUME CoordInv, OneCoordinator, [Next]_vars, NEW l \in Loops,
           loop[l].pc = "probe", loop'[l].pc = "send"
    PROVE  Cardinality({t \in Tasks : db'.task[t] = "dispatched"}) =< loop[l].limit
<1>1. PICK m \in Loops : DispatchTask(m)
  BY WhoDispatches
<1>2. loop[m].pc # "off" /\ TypeInv
  BY <1>1 DEF DispatchTask, CoordInv
<1>3. l = m
  BY <1>2, Alone
<1>4. Cardinality(Out(db')) =< loop[l].limit
  BY <1>1, <1>3, DispatchKeeps
<1> QED
  BY <1>4 DEF Out

\* A loop that runs alone never has more tasks out after a dispatch than its
\* --max-concurrent: the slots it counted before its first await are still there.
THEOREM LimitHolds == Spec /\ []OneCoordinator => ConcurrencyLimit
<1>1. CoordInv /\ OneCoordinator /\ [Next]_vars =>
        [\A l \in Loops : loop[l].pc = "probe" /\ loop'[l].pc = "send" =>
          Cardinality({t \in Tasks : db'.task[t] = "dispatched"}) =< loop[l].limit]_vars
  BY StepConcurrency
<1> QED
  BY <1>1, CoordInvAlways, PTL DEF Spec, ConcurrencyLimit

LEMMA StepGates ==
    ASSUME CoordInv, OneCoordinator, [Next]_vars, NEW t \in Tasks,
           GatesOn(t) # {}, \A g \in GatesOn(t) : db.gate[g].status = "pending"
    PROVE  ~(db.task[t] # "dispatched" /\ db'.task[t] = "dispatched")
<1> SUFFICES ASSUME t \notin Out(db), t \in Out(db') PROVE FALSE
  BY DEF Out
<1>1. PICK m \in Loops : DispatchTask(m)
  BY WhoDispatches
<1>2. \/ UNCHANGED db
      \/ \E u \in Tasks : /\ Handable(db, u) /\ db.task[u] = "ready"
                          /\ Out(db') \subseteq Out(db) \cup {u}
  BY <1>1, DispatchKeeps
<1>3. Handable(db, t) /\ db.task[t] = "ready"
  BY <1>2
<1>4. Clean(db, t) /\ Open(db, t) # {}
  BY DEF Clean, Open, GatesFor, GatesOn
<1> QED
  BY <1>3, <1>4 DEF Handable

\* A task whose gates all wait for an answer is not handed out.
THEOREM GatesBlock == Spec /\ []OneCoordinator => GateBlocksLoop
<1>1. CoordInv /\ OneCoordinator /\ [Next]_vars =>
        [\A t \in Tasks :
          GatesOn(t) # {} /\ (\A g \in GatesOn(t) : db.gate[g].status = "pending")
              => ~(db.task[t] # "dispatched" /\ db'.task[t] = "dispatched")]_vars
  BY StepGates
<1> QED
  BY <1>1, CoordInvAlways, PTL DEF Spec, GateBlocksLoop

\* Only a tick reads the mail.
LEMMA WhoReads ==
    ASSUME CoordInv, OneCoordinator, [Next]_vars, mail # << >>, mail' = << >>
    PROVE  \E l \in Loops : Tick(l)
<1>1. ASSUME NEW l \in Loops, LoopStep(l), ~Tick(l) PROVE UNCHANGED mail
  BY <1>1, DispatchKeeps, RefusedKeeps, LoopStepKeeps
<1>2. ~OtherStep
  BY OtherKeeps
<1>3. ~(RunStop \/ Crash \/ \E l \in Loops, n \in Limits : Run(l, n))
  BY RunKeeps
<1>4. ~UNCHANGED vars
  BY DEF vars
<1> QED
  BY <1>1, <1>2, <1>3, <1>4, NextCases

LEMMA StepEscalation ==
    ASSUME CoordInv, OneCoordinator, [Next]_vars, mail # << >>, mail' = << >>,
           NEW c \in DOMAIN db.ctx, db'.ctx[c].failures > db.ctx[c].failures,
           Cardinality(GatesOn(db.ctx[c].task)) =< 1
    PROVE  \E i \in DOMAIN mail :
              /\ mail[i].type = "escalation" /\ mail[i].task = db.ctx[c].task
              /\ mail[i].ctx \in {c, Ended}
<1>1. PICK l \in Loops : Tick(l)
  BY WhoReads
<1>2. db'.ctx[c].failures = db.ctx[c].failures \/ Blamed(db, mail, c)
  BY <1>1, TickKeeps
<1>3. db \in Tables /\ db.ctx[c].failures \in Nat
  <2>1. db \in Tables
    BY DEF CoordInv, TypeInv
  <2> QED
    BY <2>1, TablesType DEF DispatchRow
<1>4. Few(db, db.ctx[c].task)
  BY <1>3, GatesOnFew
<1> QED
  BY <1>2, <1>3, <1>4 DEF Blamed

\* An escalation that was sent while its dispatch was active fails that dispatch when a
\* tick reads it: a dispatch whose failures a tick counts has been reported by its own
\* worker, or by one of the same task whose dispatch had ended before it wrote, or its
\* task has several gates.
THEOREM EscalationsHit == Spec /\ []OneCoordinator => EscalationHitsItsDispatch
<1>1. CoordInv /\ OneCoordinator /\ [Next]_vars =>
        [mail # << >> /\ mail' = << >> => \A c \in DOMAIN db.ctx :
          db'.ctx[c].failures > db.ctx[c].failures /\ Cardinality(GatesOn(db.ctx[c].task)) =< 1
              => \E i \in DOMAIN mail :
                    /\ mail[i].type = "escalation" /\ mail[i].task = db.ctx[c].task
                    /\ mail[i].ctx \in {c, Ended}]_vars
  BY StepEscalation
<1> QED
  BY <1>1, CoordInvAlways, PTL DEF Spec, EscalationHitsItsDispatch
=============================================================================
