----------------------- MODULE OrchestrationDb_proofs -----------------------
(***************************************************************************)
(* What each statement of the orchestration database preserves, for every  *)
(* value of the tables.  The machines that run the statements cite these   *)
(* lemmas and never expand a statement themselves.                         *)
(***************************************************************************)
EXTENDS OrchestrationDb, FiniteSetTheorems, SequenceTheorems, TLAPS

\* A function to the naturals has a maximum on a finite nonempty set: the set of
\* points strictly above a point, ordered by inclusion, has a minimal element.
LEMMA MaximumExists ==
    ASSUME NEW S, IsFiniteSet(S), S # {}, NEW f \in [S -> Nat]
    PROVE  \E x \in S : \A y \in S : f[y] =< f[x]
  <1> DEFINE Above(x) == {y \in S : f[y] > f[x]}
             R        == StrictSubsetOrdering(S)
             Aboves   == {Above(x) : x \in S}
  <1>1. IsWellFoundedOn(R, SUBSET S)
    BY FS_StrictSubsetOrderingWellFounded, FS_FiniteSubsetsOfFinite, Zenon
  <1>2. Aboves \subseteq SUBSET S /\ Aboves # {}
    <2>1. PICK x : x \in S
      OBVIOUS
    <2>2. Above(x) \in Aboves
      BY <2>1
    <2>3. \A x1 : Above(x1) \subseteq S
      OBVIOUS
    <2> HIDE DEF Above
    <2> QED
      BY <2>2, <2>3, Zenon
  <1>3. \E A \in Aboves : \A B \in Aboves : ~(<<B, A>> \in R)
    <2> HIDE DEF Aboves, R
    <2> QED
      BY <1>1, <1>2, WFMin, Zenon
  <1>4. PICK x \in S : \A B \in Aboves : ~(<<B, Above(x)>> \in R)
    BY <1>3
  <1>5. ASSUME NEW y \in S, ~(f[y] =< f[x])
        PROVE  FALSE
    <2>1. f[x] \in Nat /\ f[y] \in Nat /\ f[y] > f[x]
      BY <1>5
    <2>2. \A z \in S : f[z] \in Nat
      OBVIOUS
    <2>3. Above(y) \subseteq Above(x)
      BY <2>1, <2>2
    <2>4. y \in Above(x) /\ y \notin Above(y)
      BY <2>1
    <2>5. <<Above(y), Above(x)>> \in R
      BY <2>3, <2>4 DEF StrictSubsetOrdering
    <2> QED
      BY <1>4, <2>5
  <1> QED
    BY <1>5

\* A set of dispatch ids is finite.
LEMMA SubintervalFinite ==
    ASSUME NEW n \in Nat, NEW S \in SUBSET (1 .. n)
    PROVE  IsFiniteSet(S)
  <1>1. 1 \in Int /\ n \in Int
    OBVIOUS
  <1>2. IsFiniteSet(1 .. n)
    BY <1>1, FS_Interval, Zenon
  <1> QED
    BY <1>2, FS_Subset, Zenon

\* The newest of some dispatches is one of them, and none is newer.
LEMMA NewestIsLast ==
    ASSUME NEW n \in Nat, NEW S \in SUBSET (1 .. n), S # {}
    PROVE  Newest(S) \in S /\ \A c \in S : c =< Newest(S)
  <1>1. IsFiniteSet(S)
    BY SubintervalFinite
  <1> DEFINE f == [c \in S |-> c]
  <1>2. f \in [S -> Nat]
    OBVIOUS
  <1>3. \E c \in S : \A d \in S : f[d] =< f[c]
    <2> HIDE DEF f
    <2> QED
      BY <1>1, <1>2, MaximumExists, Zenon
  <1>4. \E c \in S : \A d \in S : d =< c
    BY <1>3
  <1> QED
    BY <1>4, Zenon DEF Newest

\* The step from tables T to tables U creates no dispatch and revives none: rows
\* keep task, handle and pane, and a row that is active was active.
EndsOnly(T, U) ==
    /\ Len(U.ctx) = Len(T.ctx)
    /\ \A c \in DOMAIN T.ctx :
          /\ U.ctx[c].task = T.ctx[c].task
          /\ U.ctx[c].handle = T.ctx[c].handle
          /\ U.ctx[c].pane = T.ctx[c].pane
          /\ U.ctx[c].status = "dispatched" => T.ctx[c].status = "dispatched"

\* A statement is orderly when it keeps the tables well typed and only ends dispatches.
Orderly(T, U) == U \in Tables /\ EndsOnly(T, U)

\* The columns of well-typed tables.
LEMMA TablesType ==
    ASSUME NEW T \in Tables
    PROVE  /\ T.task \in [Tasks -> TaskStatus \cup {"absent", "deleted"}]
           /\ T.deps \in [Tasks -> SUBSET Tasks]
           /\ T.ctx \in Seq(DispatchRow)
           /\ T.gate \in Seq(GateRow)
           /\ Len(T.ctx) \in Nat /\ DOMAIN T.ctx = 1 .. Len(T.ctx)
           /\ Len(T.gate) \in Nat /\ DOMAIN T.gate = 1 .. Len(T.gate)
           /\ \A c \in DOMAIN T.ctx : T.ctx[c] \in DispatchRow
           /\ \A g \in DOMAIN T.gate : T.gate[g] \in GateRow
  BY DEF Tables

\* A table rebuilt row by row is a table with the same ids.
LEMMA RebuiltTable ==
    ASSUME NEW n \in Nat, NEW S, NEW f \in [1 .. n -> S]
    PROVE  f \in Seq(S) /\ Len(f) = n /\ DOMAIN f = 1 .. n
  <1>1. f \in Seq(S)
    BY SeqDef, Zenon
  <1> QED
    BY <1>1, LenProperties

\* Orderly steps compose: a method that runs several statements is orderly when each is.
LEMMA OrderlyCompose ==
    ASSUME NEW T \in Tables, NEW U, NEW W, Orderly(T, U), Orderly(U, W)
    PROVE  Orderly(T, W)
  <1>1. DOMAIN U.ctx = DOMAIN T.ctx
    BY TablesType DEF Orderly, EndsOnly
  <1> QED
    BY <1>1 DEF Orderly, EndsOnly

\* Doing nothing is orderly.
LEMMA OrderlySkip ==
    ASSUME NEW T \in Tables
    PROVE  Orderly(T, T)
  BY DEF Orderly, EndsOnly

\* UPDATE tasks SET status = ...
LEMMA SetTaskOrderly ==
    ASSUME NEW T \in Tables, NEW t \in Tasks, NEW s \in TaskStatus
    PROVE  Orderly(T, SetTask(T, t, s))
  <1>1. CASE ~HasRow(T, t)
    BY <1>1, OrderlySkip DEF SetTask
  <1>2. CASE HasRow(T, t)
    <2>1. SetTask(T, t, s) = [T EXCEPT !.task[t] = s]
      BY <1>2 DEF SetTask
    <2>2. [T EXCEPT !.task[t] = s] \in Tables
      BY DEF Tables
    <2>3. [T EXCEPT !.task[t] = s].ctx = T.ctx
      BY DEF Tables
    <2> QED
      BY <2>1, <2>2, <2>3 DEF Orderly, EndsOnly
  <1> QED
    BY <1>1, <1>2

\* A row of dispatch_contexts that leaves "dispatched" or keeps its status.
LEMMA EndRowOrderly ==
    ASSUME NEW T \in Tables, NEW c \in DOMAIN T.ctx,
           NEW s \in (DispatchStatus \cup {"deleted"}) \ {"dispatched"}, NEW n \in Nat
    PROVE  Orderly(T, [T EXCEPT !.ctx[c].status = s, !.ctx[c].failures = n])
  <1> DEFINE row == [T.ctx[c] EXCEPT !.status = s, !.failures = n]
             U   == [T EXCEPT !.ctx[c].status = s, !.ctx[c].failures = n]
  <1>1. T.ctx[c] \in DispatchRow
    BY TablesType
  <1>2. /\ row \in DispatchRow
        /\ row.task = T.ctx[c].task /\ row.handle = T.ctx[c].handle
        /\ row.pane = T.ctx[c].pane /\ row.status = s
    BY <1>1 DEF DispatchRow
  <1>3. U = [T EXCEPT !.ctx = [T.ctx EXCEPT ![c] = row]]
    BY DEF Tables, DispatchRow
  <1> HIDE DEF row, U
  <1>4. /\ [T.ctx EXCEPT ![c] = row] \in Seq(DispatchRow)
        /\ Len([T.ctx EXCEPT ![c] = row]) = Len(T.ctx)
    BY <1>2, TablesType
  <1>5. U \in Tables /\ U.ctx = [T.ctx EXCEPT ![c] = row]
    BY <1>3, <1>4 DEF Tables
  <1>6. EndsOnly(T, U)
    BY <1>2, <1>4, <1>5, TablesType DEF EndsOnly
  <1> QED
    BY <1>5, <1>6 DEF Orderly, U

\* The prior failures of a task: the largest count of its dispatches, 0 when it has none.
LEMMA PriorFailuresMax ==
    ASSUME NEW T \in Tables, NEW t \in Tasks
    PROVE  /\ PriorFailures(T, t) \in Nat
           /\ \A c \in ContextsOf(T, t) : T.ctx[c].failures =< PriorFailures(T, t)
           /\ \/ PriorFailures(T, t) = 0
              \/ \E c \in ContextsOf(T, t) : PriorFailures(T, t) = T.ctx[c].failures
  <1> DEFINE S == ContextsOf(T, t)
             f == [c \in S |-> T.ctx[c].failures]
  <1>1. CASE S = {}
    BY <1>1 DEF PriorFailures
  <1>2. CASE S # {}
    <2>1. IsFiniteSet(S)
      <3>1. S \in SUBSET (1 .. Len(T.ctx))
        BY TablesType DEF ContextsOf
      <3> QED
        BY <3>1, TablesType, SubintervalFinite
    <2>2. f \in [S -> Nat]
      BY TablesType DEF ContextsOf, DispatchRow
    <2>3. \E c \in S : \A d \in S : f[d] =< f[c]
      <3> HIDE DEF f, S
      <3> QED
        BY <1>2, <2>1, <2>2, MaximumExists, Zenon
    <2>4. PICK c \in S : \A d \in S : T.ctx[d].failures =< T.ctx[c].failures
      BY <2>3
    <2> DEFINE counts == {T.ctx[d].failures : d \in S}
               max    == CHOOSE n \in counts : \A m \in counts : m =< n
    <2>5. \E n \in counts : \A m \in counts : m =< n
      BY <2>4
    <2>6. max \in counts /\ \A m \in counts : m =< max
      <3> HIDE DEF counts
      <3> QED
        BY <2>5
    <2>7. counts \subseteq Nat
      BY TablesType DEF ContextsOf, DispatchRow
    <2>8. PriorFailures(T, t) = max
      BY <1>2 DEF PriorFailures
    <2> HIDE DEF max
    <2>9. \A d \in S : T.ctx[d].failures =< max
      BY <2>6
    <2>10. \E d \in S : max = T.ctx[d].failures
      BY <2>6
    <2> QED
      BY <2>6, <2>7, <2>8, <2>9, <2>10
  <1> QED
    BY <1>1, <1>2

\* completeActiveDispatchForTask
LEMMA CompleteActiveOrderly ==
    ASSUME NEW T \in Tables, NEW t \in Tasks
    PROVE  Orderly(T, CompleteActiveDispatchForTask(T, t))
  <1> DEFINE active == {c \in ContextsOf(T, t) : IsActive(T, c)}
             c      == Newest(active)
             U      == [T EXCEPT !.ctx[c].status = "completed"]
  <1>1. CASE active = {}
    BY <1>1, OrderlySkip DEF CompleteActiveDispatchForTask
  <1>2. CASE active # {}
    <2>1. c \in DOMAIN T.ctx
      <3>1. active \in SUBSET (1 .. Len(T.ctx)) /\ Len(T.ctx) \in Nat
        BY TablesType DEF ContextsOf
      <3>2. c \in active
        <4> HIDE DEF active
        <4> QED
          BY <1>2, <3>1, NewestIsLast
      <3> QED
        BY <3>2 DEF ContextsOf
    <2>2. T.ctx[c].failures \in Nat
      BY <2>1, TablesType DEF DispatchRow
    <2> HIDE DEF c
    <2>3. U = [T EXCEPT !.ctx[c].status = "completed", !.ctx[c].failures = T.ctx[c].failures]
      BY <2>1, TablesType DEF Tables, DispatchRow
    <2>4. Orderly(T, U)
      <3>1. "completed" \in (DispatchStatus \cup {"deleted"}) \ {"dispatched"}
        BY DEF DispatchStatus
      <3>2. Orderly(T, [T EXCEPT !.ctx[c].status = "completed", !.ctx[c].failures = T.ctx[c].failures])
        BY <2>1, <2>2, <3>1, EndRowOrderly, Zenon
      <3> QED
        BY <2>3, <3>2, Zenon
    <2>5. CompleteActiveDispatchForTask(T, t) = U
      BY <1>2 DEF CompleteActiveDispatchForTask, c
    <2> QED
      BY <2>4, <2>5
  <1> QED
    BY <1>1, <1>2

\* promoteReadyTasks
LEMMA PromoteOrderly ==
    ASSUME NEW T \in Tables, NEW t \in Tasks
    PROVE  Orderly(T, PromoteReadyTasks(T, t))
  <1> DEFINE f == [u \in Tasks |->
                     IF /\ T.task[u] = "pending"
                        /\ t \in T.deps[u]
                        /\ \A d \in T.deps[u] : T.task[d] = "completed"
                     THEN "ready" ELSE T.task[u]]
  <1>1. f \in [Tasks -> TaskStatus \cup {"absent", "deleted"}]
    BY TablesType DEF TaskStatus
  <1>2. PromoteReadyTasks(T, t) = [T EXCEPT !.task = f]
    BY DEF PromoteReadyTasks
  <1> HIDE DEF f
  <1>3. [T EXCEPT !.task = f] \in Tables /\ [T EXCEPT !.task = f].ctx = T.ctx
    BY <1>1 DEF Tables
  <1> QED
    BY <1>2, <1>3 DEF Orderly, EndsOnly

\* updateTaskStatus
LEMMA UpdateTaskStatusOrderly ==
    ASSUME NEW T \in Tables, NEW t \in Tasks, NEW s \in TaskStatus
    PROVE  Orderly(T, UpdateTaskStatus(T, t, s))
  <1> DEFINE A == SetTask(T, t, s)
             B == PromoteReadyTasks(A, t)
  <1>1. Orderly(T, A)
    BY SetTaskOrderly
  <1>2. Orderly(A, B)
    BY <1>1, PromoteOrderly DEF Orderly
  <1>3. Orderly(B, CompleteActiveDispatchForTask(B, t))
    BY <1>2, CompleteActiveOrderly DEF Orderly
  <1>4. Orderly(T, CompleteActiveDispatchForTask(B, t))
    <2> HIDE DEF A, B
    <2>1. A \in Tables /\ B \in Tables
      BY <1>1, <1>2 DEF Orderly
    <2> QED
      BY <1>1, <1>2, <1>3, <2>1, OrderlyCompose
  <1> QED
    BY <1>1, <1>4 DEF UpdateTaskStatus

\* failDispatch
LEMMA FailDispatchOrderly ==
    ASSUME NEW T \in Tables, NEW c \in DOMAIN T.ctx
    PROVE  Orderly(T, FailDispatch(T, c))
  <1> DEFINE n      == T.ctx[c].failures + 1
             broken == n >= CircuitLimit
             s      == IF broken THEN "circuit_broken" ELSE "failed"
             U      == [T EXCEPT !.ctx[c].status = s, !.ctx[c].failures = n]
             u      == IF broken THEN "failed" ELSE "ready"
  <1>1. T.ctx[c].task \in Tasks /\ n \in Nat
    BY TablesType DEF DispatchRow
  <1>2. Orderly(T, U)
    <2>1. s \in (DispatchStatus \cup {"deleted"}) \ {"dispatched"}
      BY DEF DispatchStatus
    <2> HIDE DEF s, n
    <2> QED
      BY <1>1, <2>1, EndRowOrderly
  <1>3. Orderly(U, SetTask(U, T.ctx[c].task, u))
    <2>1. u \in TaskStatus
      BY DEF TaskStatus
    <2> HIDE DEF u, U
    <2> QED
      BY <1>1, <1>2, <2>1, SetTaskOrderly DEF Orderly
  <1>4. Orderly(T, SetTask(U, T.ctx[c].task, u))
    <2> HIDE DEF u, U
    <2> QED
      BY <1>2, <1>3, OrderlyCompose DEF Orderly
  <1>5. FailDispatch(T, c) = IF T.ctx[c].status = "deleted"
                             THEN T ELSE SetTask(U, T.ctx[c].task, u)
    BY DEF FailDispatch
  <1> QED
    BY <1>4, <1>5, OrderlySkip

\* A row of decision_gates changes, or one is added: no dispatch does.
LEMMA GateTableOrderly ==
    ASSUME NEW T \in Tables, NEW G \in Seq(GateRow)
    PROVE  Orderly(T, [T EXCEPT !.gate = G])
  <1>1. [T EXCEPT !.gate = G] \in Tables /\ [T EXCEPT !.gate = G].ctx = T.ctx
    BY DEF Tables
  <1> QED
    BY <1>1 DEF Orderly, EndsOnly

\* createGate
LEMMA CreateGateOrderly ==
    ASSUME NEW T \in Tables, NEW t \in Tasks
    PROVE  Orderly(T, CreateGate(T, t))
  <1> DEFINE A == [T EXCEPT !.gate = Append(@, [task |-> t, status |-> "pending"])]
             B == CompleteActiveDispatchForTask(A, t)
             W == SetTask(B, t, "blocked")
  <1>1. Orderly(T, A)
    <2> DEFINE row == [task |-> t, status |-> "pending"]
    <2>1. row \in GateRow
      BY DEF GateRow
    <2> HIDE DEF row
    <2>2. Append(T.gate, row) \in Seq(GateRow)
      BY <2>1, TablesType, AppendProperties
    <2>3. [T EXCEPT !.gate = Append(@, row)] = [T EXCEPT !.gate = Append(T.gate, row)]
      BY DEF Tables
    <2>4. Orderly(T, [T EXCEPT !.gate = Append(@, row)])
      BY <2>2, <2>3, GateTableOrderly, Zenon
    <2> QED
      BY <2>4 DEF row
  <1>2. Orderly(A, B)
    BY <1>1, CompleteActiveOrderly DEF Orderly
  <1>3. Orderly(B, W)
    <2>1. "blocked" \in TaskStatus
      BY DEF TaskStatus
    <2> HIDE DEF A, B
    <2> QED
      BY <1>2, <2>1, SetTaskOrderly DEF Orderly
  <1>4. Orderly(T, W)
    <2> HIDE DEF A, B, W
    <2> QED
      BY <1>1, <1>2, <1>3, OrderlyCompose DEF Orderly
  <1> QED
    BY <1>4 DEF CreateGate

\* resolveGate
LEMMA ResolveGateOrderly ==
    ASSUME NEW T \in Tables, NEW g \in DOMAIN T.gate
    PROVE  Orderly(T, ResolveGate(T, g))
  <1> DEFINE row == [T.gate[g] EXCEPT !.status = "resolved"]
             G   == [T.gate EXCEPT ![g] = row]
             A   == [T EXCEPT !.gate[g].status = "resolved"]
             W   == SetTask(A, T.gate[g].task, "ready")
  <1>1. T.gate[g] \in GateRow
    BY TablesType
  <1>2. row \in GateRow
    BY <1>1 DEF GateRow
  <1>3. G \in Seq(GateRow)
    <2> HIDE DEF row
    <2> QED
      BY <1>2, TablesType
  <1>4. A = [T EXCEPT !.gate = G]
    BY DEF Tables
  <1>5. Orderly(T, A)
    BY <1>3, <1>4, GateTableOrderly
  <1>6. Orderly(A, W)
    <2>1. "ready" \in TaskStatus /\ T.gate[g].task \in Tasks
      BY <1>1 DEF TaskStatus, GateRow
    <2> HIDE DEF A
    <2> QED
      BY <1>5, <2>1, SetTaskOrderly DEF Orderly
  <1>7. Orderly(T, W)
    <2> HIDE DEF A, W
    <2> QED
      BY <1>5, <1>6, OrderlyCompose DEF Orderly
  <1> QED
    BY <1>7, OrderlySkip DEF ResolveGate

\* Deleting a dispatch row changes its status only.
LEMMA DeletedRow ==
    ASSUME NEW row \in DispatchRow
    PROVE  LET gone == [row EXCEPT !.status = "deleted"]
           IN  /\ gone \in DispatchRow
               /\ gone.task = row.task /\ gone.handle = row.handle /\ gone.pane = row.pane
               /\ gone.status = "deleted"
  BY DEF DispatchRow

\* resetTasks
LEMMA ResetTasksOrderly ==
    ASSUME NEW T \in Tables
    PROVE  Orderly(T, ResetTasks(T))
  <1> DEFINE K == [t \in Tasks |-> IF HasRow(T, t) THEN "deleted" ELSE T.task[t]]
             C == [c \in DOMAIN T.ctx |-> [T.ctx[c] EXCEPT !.status = "deleted"]]
             G == [g \in DOMAIN T.gate |-> [T.gate[g] EXCEPT !.status = "deleted"]]
             U == [T EXCEPT !.task = K, !.ctx = C, !.gate = G]
  <1>1. K \in [Tasks -> TaskStatus \cup {"absent", "deleted"}]
    BY TablesType
  <1>2. /\ C \in Seq(DispatchRow) /\ Len(C) = Len(T.ctx)
        /\ \A c \in DOMAIN T.ctx : /\ C[c].task = T.ctx[c].task /\ C[c].handle = T.ctx[c].handle
                                   /\ C[c].pane = T.ctx[c].pane /\ C[c].status = "deleted"
    <2>1. \A c \in 1 .. Len(T.ctx) :
              /\ [T.ctx[c] EXCEPT !.status = "deleted"] \in DispatchRow
              /\ [T.ctx[c] EXCEPT !.status = "deleted"].task = T.ctx[c].task
              /\ [T.ctx[c] EXCEPT !.status = "deleted"].handle = T.ctx[c].handle
              /\ [T.ctx[c] EXCEPT !.status = "deleted"].pane = T.ctx[c].pane
              /\ [T.ctx[c] EXCEPT !.status = "deleted"].status = "deleted"
      <3> HIDE DEF K, C, G, U
      <3> QED
        BY TablesType, DeletedRow
    <2>2. C \in [1 .. Len(T.ctx) -> DispatchRow]
      BY <2>1, TablesType
    <2>3. \A c \in DOMAIN T.ctx : C[c] = [T.ctx[c] EXCEPT !.status = "deleted"]
      OBVIOUS
    <2>4. DOMAIN T.ctx = 1 .. Len(T.ctx) /\ Len(T.ctx) \in Nat
      BY TablesType
    <2> HIDE DEF C
    <2>5. C \in Seq(DispatchRow) /\ Len(C) = Len(T.ctx)
      BY <2>2, <2>4, RebuiltTable
    <2> QED
      BY <2>1, <2>3, <2>4, <2>5
  <1>3. G \in Seq(GateRow)
    <2>1. \A g \in 1 .. Len(T.gate) : [T.gate[g] EXCEPT !.status = "deleted"] \in GateRow
      BY TablesType DEF GateRow
    <2>2. G \in [1 .. Len(T.gate) -> GateRow] /\ Len(T.gate) \in Nat
      BY <2>1, TablesType
    <2> HIDE DEF G
    <2> QED
      BY <2>2, RebuiltTable
  <1>4. ResetTasks(T) = U
    BY DEF ResetTasks
  <1> HIDE DEF K, C, G
  <1>5. U \in Tables /\ U.ctx = C
    BY <1>1, <1>2, <1>3 DEF Tables
  <1> QED
    BY <1>2, <1>4, <1>5 DEF Orderly, EndsOnly

\* createTask
LEMMA CreateTaskOrderly ==
    ASSUME NEW T \in Tables, NEW t \in Tasks, NEW D \in SUBSET Tasks
    PROVE  Orderly(T, CreateTask(T, t, D))
  <1> DEFINE s == IF D = {} THEN "ready" ELSE "pending"
  <1>1. s \in TaskStatus
    BY DEF TaskStatus
  <1> HIDE DEF s
  <1>2. CreateTask(T, t, D) = [T EXCEPT !.task[t] = s, !.deps[t] = D]
    BY DEF CreateTask, s
  <1>3. /\ [T EXCEPT !.task[t] = s, !.deps[t] = D] \in Tables
        /\ [T EXCEPT !.task[t] = s, !.deps[t] = D].ctx = T.ctx
    BY <1>1 DEF Tables
  <1> QED
    BY <1>2, <1>3 DEF Orderly, EndsOnly

\* A worker_done message, believed or not.
LEMMA ReconcileWorkerDoneOrderly ==
    ASSUME NEW T \in Tables, NEW t \in Tasks, NEW c, NEW h, NEW p
    PROVE  Orderly(T, ReconcileWorkerDone(T, t, c, h, p))
  <1>1. "completed" \in TaskStatus
    BY DEF TaskStatus
  <1> QED
    BY <1>1, UpdateTaskStatusOrderly, OrderlySkip DEF ReconcileWorkerDone

\* The step from T to U appends one active row, for terminal (h, p), and touches no
\* other dispatch.
Grants(T, U, t, h, p) ==
    /\ U \in Tables
    /\ Len(U.ctx) = Len(T.ctx) + 1
    /\ \A c \in DOMAIN T.ctx : U.ctx[c] = T.ctx[c]
    /\ U.ctx[Len(T.ctx) + 1].task = t
    /\ U.ctx[Len(T.ctx) + 1].handle = h
    /\ U.ctx[Len(T.ctx) + 1].pane = p
    /\ U.ctx[Len(T.ctx) + 1].status = "dispatched"
    /\ U.task = [T.task EXCEPT ![t] = "dispatched"]

\* createDispatchContext
LEMMA CreateDispatchGrants ==
    ASSUME NEW T \in Tables, NEW t \in Tasks, NEW h \in Handles, NEW p \in Panes
    PROVE  Grants(T, CreateDispatchContext(T, t, h, p), t, h, p)
  <1> DEFINE row == [task |-> t, handle |-> h, pane |-> p,
                     status |-> "dispatched", failures |-> PriorFailures(T, t)]
             U   == CreateDispatchContext(T, t, h, p)
  <1>1. row \in DispatchRow
    BY PriorFailuresMax DEF DispatchRow, DispatchStatus
  <1>2. row.handle = h /\ row.pane = p /\ row.status = "dispatched" /\ row.task = t
    OBVIOUS
  <1>3. U = [T EXCEPT !.task[t] = "dispatched", !.ctx = Append(T.ctx, row)]
    BY DEF CreateDispatchContext
  <1> HIDE DEF row
  <1>4. Append(T.ctx, row) \in Seq(DispatchRow)
    BY <1>1, TablesType
  <1>5. /\ U \in Tables /\ U.ctx = Append(T.ctx, row)
        /\ U.task = [T.task EXCEPT ![t] = "dispatched"]
    <2> DEFINE K == [T.task EXCEPT ![t] = "dispatched"]
               C == Append(T.ctx, row)
    <2>1. K \in [Tasks -> TaskStatus \cup {"absent", "deleted"}]
      BY TablesType DEF TaskStatus
    <2>2. U = [T EXCEPT !.task = K, !.ctx = C]
      BY <1>3 DEF Tables
    <2> HIDE DEF K, C, U
    <2>3. U \in Tables /\ U.ctx = C /\ U.task = K
      BY <1>4, <2>1, <2>2 DEF Tables, C
    <2> QED
      BY <2>3 DEF K, C
  <1> HIDE DEF U
  <1>6. /\ Len(U.ctx) = Len(T.ctx) + 1
        /\ U.ctx[Len(T.ctx) + 1] = row
        /\ \A c \in DOMAIN T.ctx : U.ctx[c] = T.ctx[c]
    BY <1>5, TablesType
  <1> QED
    BY <1>2, <1>5, <1>6 DEF Grants, U

\* The context an escalation fails exists.
LEMMA NewestContextExists ==
    ASSUME NEW T \in Tables, NEW t \in Tasks, ContextsOf(T, t) # {}
    PROVE  Newest(ContextsOf(T, t)) \in DOMAIN T.ctx
  <1>1. ContextsOf(T, t) \in SUBSET (1 .. Len(T.ctx)) /\ Len(T.ctx) \in Nat
    BY TablesType DEF ContextsOf
  <1>2. Newest(ContextsOf(T, t)) \in ContextsOf(T, t)
    BY <1>1, NewestIsLast
  <1> QED
    BY <1>2 DEF ContextsOf

-----------------------------------------------------------------------------
(* The columns the statements write. *)

LEMMA SetTaskColumns ==
    ASSUME NEW T \in Tables, NEW t \in Tasks, NEW s \in TaskStatus
    PROVE  LET U == SetTask(T, t, s)
           IN  /\ U.deps = T.deps /\ U.ctx = T.ctx /\ U.gate = T.gate
               /\ U.task = IF HasRow(T, t) THEN [T.task EXCEPT ![t] = s] ELSE T.task
BY DEF SetTask, Tables

\* The tasks that promotion makes ready once `done` is completed.
Promoted(T, done) ==
    {u \in Tasks : /\ T.task[u] = "pending" /\ done \in T.deps[u]
                   /\ \A d \in T.deps[u] : T.task[d] = "completed"}

LEMMA PromoteColumns ==
    ASSUME NEW T \in Tables, NEW t \in Tasks
    PROVE  LET U == PromoteReadyTasks(T, t)
           IN  /\ U.deps = T.deps /\ U.ctx = T.ctx /\ U.gate = T.gate
               /\ \A u \in Tasks :
                     U.task[u] = IF u \in Promoted(T, t) THEN "ready" ELSE T.task[u]
<1> DEFINE f == [u \in Tasks |->
                   IF /\ T.task[u] = "pending"
                      /\ t \in T.deps[u]
                      /\ \A d \in T.deps[u] : T.task[d] = "completed"
                   THEN "ready" ELSE T.task[u]]
<1>1. PromoteReadyTasks(T, t) = [T EXCEPT !.task = f]
  BY DEF PromoteReadyTasks
<1>2. \A u \in Tasks : f[u] = IF u \in Promoted(T, t) THEN "ready" ELSE T.task[u]
  BY DEF Promoted
<1> HIDE DEF f
<1>3. /\ [T EXCEPT !.task = f].task = f /\ [T EXCEPT !.task = f].deps = T.deps
      /\ [T EXCEPT !.task = f].ctx = T.ctx /\ [T EXCEPT !.task = f].gate = T.gate
  BY DEF Tables
<1> QED
  BY <1>1, <1>2, <1>3

\* The newest active dispatch of the task is completed, and nothing else changes.
LEMMA CompleteActiveColumns ==
    ASSUME NEW T \in Tables, NEW t \in Tasks
    PROVE  LET U == CompleteActiveDispatchForTask(T, t)
               active == {c \in ContextsOf(T, t) : IsActive(T, c)}
           IN  /\ U.task = T.task /\ U.deps = T.deps /\ U.gate = T.gate
               /\ active # {} => U.ctx = [T.ctx EXCEPT ![Newest(active)].status = "completed"]
<1> DEFINE active == {c \in ContextsOf(T, t) : IsActive(T, c)}
<1>1. PICK n : n = Newest(active)
  OBVIOUS
<1>2. CompleteActiveDispatchForTask(T, t)
        = IF active = {} THEN T ELSE [T EXCEPT !.ctx[n].status = "completed"]
  BY <1>1 DEF CompleteActiveDispatchForTask
<1> HIDE DEF active
<1> DEFINE U == [T EXCEPT !.ctx[n].status = "completed"]
<1>3. /\ U.task = T.task /\ U.deps = T.deps /\ U.gate = T.gate
      /\ U.ctx = [T.ctx EXCEPT ![n].status = "completed"]
  BY DEF Tables
<1> HIDE DEF U
<1>4. CompleteActiveDispatchForTask(T, t) = IF active = {} THEN T ELSE U
  BY <1>2 DEF U
<1> QED
  BY <1>1, <1>3, <1>4 DEF active

\* updateTaskStatus to "completed" of a task that has a row.
LEMMA CompletedColumns ==
    ASSUME NEW T \in Tables, NEW t \in Tasks, HasRow(T, t)
    PROVE  LET U == UpdateTaskStatus(T, t, "completed")
               A == SetTask(T, t, "completed")
               active == {c \in ContextsOf(T, t) : IsActive(T, c)}
           IN  /\ U.deps = T.deps /\ U.gate = T.gate
               /\ A.deps = T.deps /\ A.task = [T.task EXCEPT ![t] = "completed"]
               /\ \A u \in Tasks :
                     U.task[u] = IF u \in Promoted(A, t) THEN "ready" ELSE A.task[u]
               /\ active # {} => U.ctx = [T.ctx EXCEPT ![Newest(active)].status = "completed"]
<1> DEFINE A == SetTask(T, t, "completed")
           B == PromoteReadyTasks(A, t)
           C == CompleteActiveDispatchForTask(B, t)
<1>0. "completed" \in TaskStatus
  BY DEF TaskStatus
<1>1. A \in Tables
  BY <1>0, SetTaskOrderly DEF Orderly
<1>2. A.deps = T.deps /\ A.ctx = T.ctx /\ A.gate = T.gate
      /\ A.task = [T.task EXCEPT ![t] = "completed"]
  BY <1>0, SetTaskColumns
<1>3. UpdateTaskStatus(T, t, "completed") = C
  BY DEF UpdateTaskStatus
<1> HIDE DEF A
<1>4. B \in Tables
  BY <1>1, PromoteOrderly DEF Orderly
<1>5. /\ B.deps = A.deps /\ B.ctx = A.ctx /\ B.gate = A.gate
      /\ \A u \in Tasks : B.task[u] = IF u \in Promoted(A, t) THEN "ready" ELSE A.task[u]
  BY <1>1, PromoteColumns
<1> HIDE DEF B
<1>6. {c \in ContextsOf(B, t) : IsActive(B, c)} = {c \in ContextsOf(T, t) : IsActive(T, c)}
  BY <1>2, <1>5 DEF ContextsOf, IsActive
<1>7. /\ C.task = B.task /\ C.deps = B.deps /\ C.gate = B.gate
      /\ {c \in ContextsOf(T, t) : IsActive(T, c)} # {} =>
             C.ctx = [B.ctx EXCEPT ![Newest({c \in ContextsOf(T, t) : IsActive(T, c)})].status
                                       = "completed"]
  BY <1>4, <1>6, CompleteActiveColumns
<1> HIDE DEF C
<1> QED
  BY <1>2, <1>3, <1>5, <1>7 DEF A

\* What blocking the gated tasks writes.
Gated(T) == {T.gate[g].task : g \in {g \in DOMAIN T.gate : T.gate[g].status = "pending"}}

LEMMA BlockGatedColumns ==
    ASSUME NEW T \in Tables
    PROVE  LET U == BlockGated(T)
           IN  /\ U \in Tables
               /\ U.deps = T.deps /\ U.ctx = T.ctx /\ U.gate = T.gate
               /\ \A t \in Tasks : U.task[t] = IF t \in Gated(T) /\ HasRow(T, t)
                                               THEN "blocked" ELSE T.task[t]
<1> DEFINE f == [t \in Tasks |-> IF t \in Gated(T) /\ HasRow(T, t)
                                 THEN "blocked" ELSE T.task[t]]
           U == BlockGated(T)
<1>1. U = [T EXCEPT !.task = f]
  BY DEF BlockGated, Gated
<1>2. f \in [Tasks -> TaskStatus \cup {"absent", "deleted"}]
  BY TablesType DEF TaskStatus
<1>3. \A t \in Tasks : f[t] = IF t \in Gated(T) /\ HasRow(T, t)
                              THEN "blocked" ELSE T.task[t]
  OBVIOUS
<1> HIDE DEF f, U
<1>4. /\ U \in Tables
      /\ U.deps = T.deps /\ U.ctx = T.ctx /\ U.gate = T.gate
      /\ U.task = f
  BY <1>1, <1>2 DEF Tables
<1> QED
  BY <1>3, <1>4 DEF U

LEMMA BlockGatedOrderly ==
    ASSUME NEW T \in Tables
    PROVE  Orderly(T, BlockGated(T))
BY BlockGatedColumns DEF Orderly, EndsOnly

-----------------------------------------------------------------------------
(* What a statement keeps of the tasks that are out. *)

\* If u is out after the step from T to U, it was out before, with the same rows.
Kept(T, U, u) ==
    U.task[u] = "dispatched" =>
        /\ T.task[u] = "dispatched"
        /\ ContextsOf(U, u) = ContextsOf(T, u)
        /\ \A c \in ContextsOf(T, u) : IsActive(T, c) => IsActive(U, c)

\* A statement about task t keeps every other task.
KeptBut(T, U, t) == \A u \in Tasks : u # t => Kept(T, U, u)

\* A step keeps every task.
AllKept(T, U) == \A u \in Tasks : Kept(T, U, u)

\* Statements about one task compose.
LEMMA KeptButCompose ==
    ASSUME NEW T, NEW U, NEW W, NEW t, KeptBut(T, U, t), KeptBut(U, W, t)
    PROVE  KeptBut(T, W, t)
  BY DEF KeptBut, Kept

\* A statement whose task ends up not out keeps every task.
LEMMA KeptButSettles ==
    ASSUME NEW T, NEW U, NEW t, KeptBut(T, U, t), U.task[t] # "dispatched"
    PROVE  AllKept(T, U)
  BY DEF AllKept, KeptBut, Kept

\* A step that leaves the contexts alone and puts nothing out keeps every task.
LEMMA SameContextsKept ==
    ASSUME NEW T, NEW U, U.ctx = T.ctx,
           \A u \in Tasks : U.task[u] = "dispatched" => T.task[u] = "dispatched"
    PROVE  AllKept(T, U)
  BY DEF AllKept, Kept, ContextsOf, IsActive

\* UPDATE tasks SET status = ...
LEMMA SetTaskKeeps ==
    ASSUME NEW T \in Tables, NEW t \in Tasks, NEW s \in TaskStatus
    PROVE  /\ KeptBut(T, SetTask(T, t, s), t)
           /\ s # "dispatched" => SetTask(T, t, s).task[t] # "dispatched"
  <1>1. CASE ~HasRow(T, t)
    BY <1>1 DEF SetTask, KeptBut, Kept, HasRow
  <1>2. CASE HasRow(T, t)
    <2>1. SetTask(T, t, s) = [T EXCEPT !.task[t] = s]
      BY <1>2 DEF SetTask
    <2>2. /\ [T EXCEPT !.task[t] = s].ctx = T.ctx
          /\ [T EXCEPT !.task[t] = s].task = [T.task EXCEPT ![t] = s]
      BY DEF Tables
    <2>3. /\ [T.task EXCEPT ![t] = s][t] = s
          /\ \A u \in Tasks : u # t => [T.task EXCEPT ![t] = s][u] = T.task[u]
      BY TablesType
    <2> QED
      BY <2>1, <2>2, <2>3 DEF KeptBut, Kept, ContextsOf, IsActive
  <1> QED
    BY <1>1, <1>2

\* A row of task t ends or is counted: the rows of the other tasks stay.
LEMMA EndRowKeeps ==
    ASSUME NEW T \in Tables, NEW c \in DOMAIN T.ctx,
           NEW s \in DispatchStatus, NEW n \in Nat
    PROVE  LET U == [T EXCEPT !.ctx[c].status = s, !.ctx[c].failures = n]
           IN  U.task = T.task /\ KeptBut(T, U, T.ctx[c].task)
  <1> DEFINE row == [T.ctx[c] EXCEPT !.status = s, !.failures = n]
             U   == [T EXCEPT !.ctx[c].status = s, !.ctx[c].failures = n]
  <1>1. T.ctx[c] \in DispatchRow
    BY TablesType
  <1>2. row.task = T.ctx[c].task
    BY <1>1 DEF DispatchRow
  <1>3. U = [T EXCEPT !.ctx = [T.ctx EXCEPT ![c] = row]]
    BY DEF Tables, DispatchRow
  <1> HIDE DEF row, U
  <1>4. U.ctx = [T.ctx EXCEPT ![c] = row] /\ U.task = T.task
    BY <1>3 DEF Tables
  <1>5. /\ DOMAIN U.ctx = DOMAIN T.ctx
        /\ U.ctx[c].task = T.ctx[c].task
        /\ \A d \in DOMAIN T.ctx : d # c => U.ctx[d] = T.ctx[d]
    BY <1>2, <1>4
  <1>6. ASSUME NEW u \in Tasks, u # T.ctx[c].task
        PROVE  Kept(T, U, u)
    <2>1. ContextsOf(U, u) = ContextsOf(T, u)
      BY <1>5, <1>6 DEF ContextsOf
    <2>2. \A d \in ContextsOf(T, u) : d # c /\ d \in DOMAIN T.ctx
      BY <1>6 DEF ContextsOf
    <2> QED
      BY <1>4, <1>5, <2>1, <2>2 DEF Kept, IsActive
  <1>7. KeptBut(T, U, T.ctx[c].task)
    BY <1>6 DEF KeptBut
  <1> QED
    BY <1>4, <1>7 DEF U

\* completeActiveDispatchForTask
LEMMA CompleteActiveKeeps ==
    ASSUME NEW T \in Tables, NEW t \in Tasks
    PROVE  LET U == CompleteActiveDispatchForTask(T, t)
           IN  U.task = T.task /\ KeptBut(T, U, t)
  <1> DEFINE active == {c \in ContextsOf(T, t) : IsActive(T, c)}
             c      == Newest(active)
             U      == [T EXCEPT !.ctx[c].status = "completed"]
  <1>1. CASE active = {}
    BY <1>1 DEF CompleteActiveDispatchForTask, KeptBut, Kept
  <1>2. CASE active # {}
    <2>1. c \in DOMAIN T.ctx /\ T.ctx[c].task = t
      <3>1. active \in SUBSET (1 .. Len(T.ctx)) /\ Len(T.ctx) \in Nat
        BY TablesType DEF ContextsOf
      <3>2. c \in active
        <4> HIDE DEF active
        <4> QED
          BY <1>2, <3>1, NewestIsLast
      <3> QED
        BY <3>2 DEF ContextsOf
    <2>2. T.ctx[c].failures \in Nat
      BY <2>1, TablesType DEF DispatchRow
    <2> HIDE DEF c
    <2>3. U = [T EXCEPT !.ctx[c].status = "completed", !.ctx[c].failures = T.ctx[c].failures]
      BY <2>1, TablesType DEF Tables, DispatchRow
    <2>4. "completed" \in DispatchStatus
      BY DEF DispatchStatus
    <2> DEFINE V == [T EXCEPT !.ctx[c].status = "completed",
                              !.ctx[c].failures = T.ctx[c].failures]
    <2>5. V.task = T.task /\ KeptBut(T, V, T.ctx[c].task)
      BY <2>1, <2>2, <2>4, EndRowKeeps, Zenon
    <2> HIDE DEF U, V
    <2>6. U.task = T.task /\ KeptBut(T, U, t)
      BY <2>1, <2>3, <2>5 DEF V
    <2>7. CompleteActiveDispatchForTask(T, t) = U
      BY <1>2 DEF CompleteActiveDispatchForTask, U, c
    <2> QED
      BY <2>6, <2>7, Zenon
  <1> QED
    BY <1>1, <1>2

\* promoteReadyTasks
LEMMA PromoteKeeps ==
    ASSUME NEW T \in Tables, NEW t \in Tasks
    PROVE  LET U == PromoteReadyTasks(T, t)
           IN  /\ AllKept(T, U)
               /\ \A u \in Tasks : U.task[u] = "dispatched" => T.task[u] = "dispatched"
  <1> DEFINE f == [u \in Tasks |->
                     IF /\ T.task[u] = "pending"
                        /\ t \in T.deps[u]
                        /\ \A d \in T.deps[u] : T.task[d] = "completed"
                     THEN "ready" ELSE T.task[u]]
  <1>1. PromoteReadyTasks(T, t) = [T EXCEPT !.task = f]
    BY DEF PromoteReadyTasks
  <1>2. \A u \in Tasks : f[u] = "dispatched" => T.task[u] = "dispatched"
    OBVIOUS
  <1> HIDE DEF f
  <1> DEFINE U == [T EXCEPT !.task = f]
  <1>3. U.task = f /\ U.ctx = T.ctx
    BY DEF Tables
  <1>4. \A u \in Tasks : U.task[u] = "dispatched" => T.task[u] = "dispatched"
    BY <1>2, <1>3
  <1>5. PromoteReadyTasks(T, t) = U
    BY <1>1
  <1> HIDE DEF U
  <1>6. AllKept(T, U)
    BY <1>3, <1>4, SameContextsKept
  <1> QED
    BY <1>4, <1>5, <1>6

\* updateTaskStatus, to anything but "dispatched".
LEMMA UpdateTaskStatusKeeps ==
    ASSUME NEW T \in Tables, NEW t \in Tasks, NEW s \in TaskStatus, s # "dispatched"
    PROVE  AllKept(T, UpdateTaskStatus(T, t, s))
  <1> DEFINE A == SetTask(T, t, s)
             B == PromoteReadyTasks(A, t)
             C == CompleteActiveDispatchForTask(B, t)
  <1>1. A \in Tables /\ KeptBut(T, A, t) /\ A.task[t] # "dispatched"
    BY SetTaskKeeps, SetTaskOrderly DEF Orderly
  <1>2. AllKept(T, A)
    <2> HIDE DEF A
    <2> QED
      BY <1>1, KeptButSettles
  <1>3. B \in Tables /\ KeptBut(A, B, t) /\ B.task[t] # "dispatched"
    <2> HIDE DEF A
    <2> QED
      BY <1>1, PromoteKeeps, PromoteOrderly DEF Orderly, AllKept, KeptBut
  <1>4. KeptBut(B, C, t) /\ C.task[t] # "dispatched"
    <2> HIDE DEF B
    <2> QED
      BY <1>3, CompleteActiveKeeps
  <1>5. AllKept(T, C)
    <2> HIDE DEF A, B, C
    <2>1. KeptBut(T, B, t)
      BY <1>1, <1>3, KeptButCompose
    <2>2. KeptBut(T, C, t)
      BY <1>4, <2>1, KeptButCompose
    <2> QED
      BY <1>4, <2>2, KeptButSettles
  <1> QED
    BY <1>2, <1>5 DEF UpdateTaskStatus

\* failDispatch: the task of the failed row goes back or is given up.
LEMMA FailDispatchKeeps ==
    ASSUME NEW T \in Tables, NEW c \in DOMAIN T.ctx
    PROVE  AllKept(T, FailDispatch(T, c))
  <1> DEFINE n      == T.ctx[c].failures + 1
             broken == n >= CircuitLimit
             s      == IF broken THEN "circuit_broken" ELSE "failed"
             U      == [T EXCEPT !.ctx[c].status = s, !.ctx[c].failures = n]
             u      == IF broken THEN "failed" ELSE "ready"
             t      == T.ctx[c].task
             W      == SetTask(U, t, u)
  <1>1. t \in Tasks /\ n \in Nat
    BY TablesType DEF DispatchRow
  <1>2. s \in DispatchStatus /\ s \in (DispatchStatus \cup {"deleted"}) \ {"dispatched"}
    BY DEF DispatchStatus
  <1>3. KeptBut(T, U, t) /\ U \in Tables
    <2> HIDE DEF s, n
    <2>1. KeptBut(T, U, t)
      BY <1>1, <1>2, EndRowKeeps
    <2>2. Orderly(T, U)
      BY <1>1, <1>2, EndRowOrderly
    <2> QED
      BY <2>1, <2>2 DEF Orderly
  <1>4. KeptBut(U, W, t) /\ W.task[t] # "dispatched"
    <2>1. u \in TaskStatus /\ u # "dispatched"
      BY DEF TaskStatus
    <2> HIDE DEF u, U, t
    <2> QED
      BY <1>1, <1>3, <2>1, SetTaskKeeps
  <1>5. AllKept(T, W)
    <2> HIDE DEF U, W, t
    <2> QED
      BY <1>3, <1>4, KeptButCompose, KeptButSettles
  <1>6. FailDispatch(T, c) = IF T.ctx[c].status = "deleted" THEN T ELSE W
    BY DEF FailDispatch
  <1> QED
    BY <1>5, <1>6 DEF AllKept, Kept

\* createGate
LEMMA CreateGateKeeps ==
    ASSUME NEW T \in Tables, NEW t \in Tasks
    PROVE  AllKept(T, CreateGate(T, t))
  <1> DEFINE row == [task |-> t, status |-> "pending"]
             A   == [T EXCEPT !.gate = Append(@, row)]
             B   == CompleteActiveDispatchForTask(A, t)
             W   == SetTask(B, t, "blocked")
  <1>1. row \in GateRow
    BY DEF GateRow
  <1>2. A \in Tables /\ A.ctx = T.ctx /\ A.task = T.task
    <2> HIDE DEF row
    <2>1. Append(T.gate, row) \in Seq(GateRow)
      BY <1>1, TablesType, AppendProperties
    <2> QED
      BY <2>1 DEF Tables
  <1>3. KeptBut(T, A, t)
    <2> HIDE DEF A
    <2> QED
      BY <1>2 DEF KeptBut, Kept, ContextsOf, IsActive
  <1>4. B \in Tables /\ KeptBut(A, B, t)
    <2> HIDE DEF A
    <2> QED
      BY <1>2, CompleteActiveKeeps, CompleteActiveOrderly DEF Orderly
  <1>5. KeptBut(B, W, t) /\ W.task[t] # "dispatched"
    <2>1. "blocked" \in TaskStatus
      BY DEF TaskStatus
    <2> HIDE DEF B
    <2> QED
      BY <1>4, <2>1, SetTaskKeeps
  <1>6. AllKept(T, W)
    <2> HIDE DEF A, B, W
    <2>1. KeptBut(T, B, t)
      BY <1>3, <1>4, KeptButCompose
    <2>2. KeptBut(T, W, t)
      BY <1>5, <2>1, KeptButCompose
    <2> QED
      BY <1>5, <2>2, KeptButSettles
  <1> QED
    BY <1>6 DEF CreateGate

\* resolveGate
LEMMA ResolveGateKeeps ==
    ASSUME NEW T \in Tables, NEW g \in DOMAIN T.gate
    PROVE  AllKept(T, ResolveGate(T, g))
  <1> DEFINE row == [T.gate[g] EXCEPT !.status = "resolved"]
             G   == [T.gate EXCEPT ![g] = row]
             A   == [T EXCEPT !.gate[g].status = "resolved"]
             t   == T.gate[g].task
             W   == SetTask(A, t, "ready")
  <1>1. T.gate[g] \in GateRow /\ t \in Tasks /\ "ready" \in TaskStatus
    BY TablesType DEF GateRow, TaskStatus
  <1>2. G \in Seq(GateRow)
    <2>1. row \in GateRow
      BY <1>1 DEF GateRow
    <2> HIDE DEF row
    <2> QED
      BY <2>1, TablesType
  <1>3. A \in Tables /\ A.ctx = T.ctx /\ A.task = T.task
    <2>1. A = [T EXCEPT !.gate = G]
      BY DEF Tables
    <2> HIDE DEF G
    <2> QED
      BY <1>2, <2>1 DEF Tables
  <1>4. KeptBut(T, A, t)
    <2> HIDE DEF A
    <2> QED
      BY <1>3 DEF KeptBut, Kept, ContextsOf, IsActive
  <1>5. KeptBut(A, W, t) /\ W.task[t] # "dispatched"
    <2> HIDE DEF A, t
    <2> QED
      BY <1>1, <1>3, SetTaskKeeps
  <1>6. AllKept(T, W)
    <2> HIDE DEF A, W, t
    <2> QED
      BY <1>4, <1>5, KeptButCompose, KeptButSettles
  <1> QED
    BY <1>6 DEF ResolveGate, AllKept, Kept

\* resetTasks: no task is left at all.
LEMMA ResetTasksKeeps ==
    ASSUME NEW T \in Tables
    PROVE  AllKept(T, ResetTasks(T))
  <1>1. ResetTasks(T).task = [t \in Tasks |-> IF HasRow(T, t) THEN "deleted" ELSE T.task[t]]
    BY DEF ResetTasks, Tables
  <1>2. \A u \in Tasks : ResetTasks(T).task[u] # "dispatched"
    BY <1>1 DEF HasRow
  <1> QED
    BY <1>2 DEF AllKept, Kept

LEMMA BlockGatedKeeps ==
    ASSUME NEW T \in Tables
    PROVE  AllKept(T, BlockGated(T))
BY BlockGatedColumns, SameContextsKept

\* What keeps every task may be followed by what does.
LEMMA AllKeptCompose ==
    ASSUME NEW T, NEW U, NEW W, AllKept(T, U), AllKept(U, W)
    PROVE  AllKept(T, W)
BY DEF AllKept, Kept

-----------------------------------------------------------------------------
(* What a statement does to the tasks that wait. *)

\* Tasks that have, or had, a dispatch or a gate.
Owners(T) == {T.ctx[c].task : c \in DOMAIN T.ctx} \cup {T.gate[g].task : g \in DOMAIN T.gate}

Waits(T, u) == T.task[u] \in {"absent", "pending"}

\* A task that still waits owns nothing, and depends on tasks created before it.
Fresh(T) ==
    /\ \A u \in Tasks : Waits(T, u) => u \notin Owners(T)
    /\ \A u \in Tasks : T.task[u] = "absent" => T.deps[u] = {}
    /\ \A u \in Tasks : u \notin T.deps[u]

\* A step that completes no task and leaves those that wait alone.
Calm(T, U) ==
    /\ \A u \in Tasks : U.task[u] = "completed" => T.task[u] = "completed"
    /\ \A u \in Tasks : T.task[u] = "pending" => U.deps[u] = T.deps[u] /\ U.task[u] # "ready"

\* A step that sends no task back to wait, and gives none that waits anything to own.
Onward(T, U) ==
    /\ \A u \in Tasks : Waits(U, u) => Waits(T, u) /\ (u \in Owners(U) => u \in Owners(T))
    /\ \A u \in Tasks : U.task[u] = "absent" => T.task[u] = "absent" /\ U.deps[u] = T.deps[u]
    /\ \A u \in Tasks : u \in U.deps[u] => u \in T.deps[u]

LEMMA OnwardFresh ==
    ASSUME NEW T, NEW U, Fresh(T), Onward(T, U)
    PROVE  Fresh(U)
BY DEF Fresh, Onward

\* Tasks in one of these states were not handed out, or are taken back.
Unreleased == {"absent", "pending", "blocked", "deleted"}

\* A step that releases no task.
Withholds(T, U) == \A u \in Tasks : U.task[u] = T.task[u] \/ U.task[u] \in Unreleased

\* A step that writes the status of task t alone, one of V, and changes no owner.
Writes(T, U, t, V) ==
    /\ U.deps = T.deps /\ Owners(U) \subseteq Owners(T)
    /\ \A u \in Tasks \ {t} : U.task[u] = T.task[u]
    /\ U.task[t] = T.task[t] \/ U.task[t] \in V

LEMMA WritesOnward ==
    ASSUME NEW T, NEW U, NEW t \in Tasks, NEW V, Writes(T, U, t, V),
           V \cap {"absent", "pending"} = {}
    PROVE  Onward(T, U)
<1>1. \A u \in Tasks : Waits(U, u) => U.task[u] = T.task[u]
  BY DEF Writes, Waits
<1> QED
  BY <1>1 DEF Writes, Onward, Waits

LEMMA WritesCalm ==
    ASSUME NEW T, NEW U, NEW t \in Tasks, NEW V, Writes(T, U, t, V), "completed" \notin V,
           "ready" \notin V \/ T.task[t] # "pending"
    PROVE  Calm(T, U)
BY DEF Writes, Calm

\* The owner of a dispatch or a gate no longer waits.
LEMMA OwnerDoesNotWait ==
    ASSUME NEW T, Fresh(T), NEW u \in Tasks, u \in Owners(T)
    PROVE  T.task[u] # "pending"
BY DEF Fresh, Waits

LEMMA SameOwners ==
    ASSUME NEW T, NEW U, DOMAIN U.ctx = DOMAIN T.ctx, DOMAIN U.gate = DOMAIN T.gate,
           \A c \in DOMAIN T.ctx : U.ctx[c].task = T.ctx[c].task,
           \A g \in DOMAIN T.gate : U.gate[g].task = T.gate[g].task
    PROVE  Owners(U) = Owners(T)
BY DEF Owners

\* An orderly step that does not touch the gates changes no owner.
LEMMA OrderlyOwners ==
    ASSUME NEW T \in Tables, NEW U, Orderly(T, U), U.gate = T.gate
    PROVE  Owners(U) = Owners(T)
<1>1. U \in Tables /\ Len(U.ctx) = Len(T.ctx)
      /\ \A c \in DOMAIN T.ctx : U.ctx[c].task = T.ctx[c].task
  BY DEF Orderly, EndsOnly
<1>2. DOMAIN U.ctx = DOMAIN T.ctx
  BY <1>1, TablesType
<1> QED
  BY <1>1, <1>2, SameOwners

LEMMA SetTaskWrites ==
    ASSUME NEW T \in Tables, NEW t \in Tasks, NEW s \in TaskStatus
    PROVE  Writes(T, SetTask(T, t, s), t, {s})
<1> DEFINE U == SetTask(T, t, s)
<1>1. /\ U.deps = T.deps /\ U.gate = T.gate
      /\ U.task = IF HasRow(T, t) THEN [T.task EXCEPT ![t] = s] ELSE T.task
  BY SetTaskColumns
<1>2. Orderly(T, U)
  BY SetTaskOrderly
<1> HIDE DEF U
<1>3. Owners(U) = Owners(T)
  BY <1>1, <1>2, OrderlyOwners
<1> QED
  BY <1>1, <1>3, TablesType DEF Writes, U

LEMMA FailDispatchWrites ==
    ASSUME NEW T \in Tables, NEW c \in DOMAIN T.ctx
    PROVE  Writes(T, FailDispatch(T, c), T.ctx[c].task, {"ready", "failed"})
<1> DEFINE n      == T.ctx[c].failures + 1
           broken == n >= CircuitLimit
           s      == IF broken THEN "circuit_broken" ELSE "failed"
           U      == [T EXCEPT !.ctx[c].status = s, !.ctx[c].failures = n]
           v      == IF broken THEN "failed" ELSE "ready"
           t      == T.ctx[c].task
           W      == SetTask(U, t, v)
<1>1. t \in Tasks /\ n \in Nat
  BY TablesType DEF DispatchRow
<1>2. s \in (DispatchStatus \cup {"deleted"}) \ {"dispatched"} /\ v \in TaskStatus
      /\ v \in {"ready", "failed"}
  BY DEF DispatchStatus, TaskStatus
<1>3. Orderly(T, U)
  <2> HIDE DEF s, n
  <2> QED
    BY <1>1, <1>2, EndRowOrderly
<1>4. U.task = T.task /\ U.deps = T.deps /\ U.gate = T.gate
  <2> HIDE DEF s, n
  <2> QED
    BY DEF Tables
<1>5. FailDispatch(T, c) = IF T.ctx[c].status = "deleted" THEN T ELSE W
  BY DEF FailDispatch
<1> HIDE DEF U, v, t, s, n
<1>6. U \in Tables /\ Owners(U) = Owners(T)
  BY <1>3, <1>4, OrderlyOwners DEF Orderly
<1>7. Writes(U, W, t, {v})
  BY <1>1, <1>2, <1>6, SetTaskWrites
<1> HIDE DEF W
<1>8. Writes(T, W, t, {"ready", "failed"})
  BY <1>2, <1>4, <1>6, <1>7 DEF Writes
<1>9. Writes(T, T, t, {"ready", "failed"})
  BY DEF Writes
<1> QED
  BY <1>5, <1>8, <1>9 DEF t

LEMMA ResolveGateWrites ==
    ASSUME NEW T \in Tables, NEW g \in DOMAIN T.gate
    PROVE  Writes(T, ResolveGate(T, g), T.gate[g].task, {"ready"})
<1> DEFINE row == [T.gate[g] EXCEPT !.status = "resolved"]
           G   == [T.gate EXCEPT ![g] = row]
           A   == [T EXCEPT !.gate[g].status = "resolved"]
           t   == T.gate[g].task
           W   == SetTask(A, t, "ready")
<1>1. T.gate[g] \in GateRow /\ t \in Tasks /\ "ready" \in TaskStatus
  BY TablesType DEF GateRow, TaskStatus
<1>2. row \in GateRow /\ row.task = t
  BY <1>1 DEF GateRow
<1>3. A = [T EXCEPT !.gate = G]
  BY DEF Tables
<1> HIDE DEF row, A
<1>4. G \in Seq(GateRow) /\ DOMAIN G = DOMAIN T.gate
      /\ \A k \in DOMAIN T.gate : G[k].task = T.gate[k].task
  BY <1>2, TablesType
<1> HIDE DEF G
<1>5. /\ A \in Tables /\ A.task = T.task /\ A.deps = T.deps /\ A.ctx = T.ctx /\ A.gate = G
  BY <1>3, <1>4 DEF Tables
<1>6. Owners(A) = Owners(T)
  BY <1>4, <1>5, SameOwners
<1>7. Writes(A, W, t, {"ready"})
  <2> HIDE DEF t
  <2> QED
    BY <1>1, <1>5, SetTaskWrites
<1>8. ResolveGate(T, g) = IF T.gate[g].status = "deleted" THEN T ELSE W
  BY DEF ResolveGate, A
<1> HIDE DEF W, t
<1>9. Writes(T, W, t, {"ready"}) /\ Writes(T, T, t, {"ready"})
  BY <1>5, <1>6, <1>7 DEF Writes
<1> QED
  BY <1>8, <1>9 DEF t

\* createGate adds an owner, whose task is blocked by it, or is gone.
LEMMA CreateGateStep ==
    ASSUME NEW T \in Tables, NEW t \in Tasks, T.task[t] # "absent"
    PROVE  /\ Onward(T, CreateGate(T, t)) /\ Calm(T, CreateGate(T, t))
           /\ Withholds(T, CreateGate(T, t))
<1> DEFINE row == [task |-> t, status |-> "pending"]
           A   == [T EXCEPT !.gate = Append(@, row)]
           B   == CompleteActiveDispatchForTask(A, t)
           W   == SetTask(B, t, "blocked")
<1>0. "blocked" \in TaskStatus
  BY DEF TaskStatus
<1>1. row \in GateRow /\ row.task = t
  BY DEF GateRow
<1> HIDE DEF row
<1>2. /\ Append(T.gate, row) \in Seq(GateRow)
      /\ DOMAIN Append(T.gate, row) = 1 .. Len(T.gate) + 1
      /\ \A g \in 1 .. Len(T.gate) + 1 :
            Append(T.gate, row)[g] = IF g = Len(T.gate) + 1 THEN row ELSE T.gate[g]
  BY <1>1, TablesType, AppendProperties
<1>3. /\ A \in Tables /\ A.task = T.task /\ A.deps = T.deps /\ A.ctx = T.ctx
      /\ A.gate = Append(T.gate, row)
  BY <1>2 DEF Tables
<1> HIDE DEF A
<1>4. Owners(A) \subseteq Owners(T) \cup {t}
  BY <1>1, <1>2, <1>3, TablesType DEF Owners
<1>5. B.task = A.task /\ B.deps = A.deps /\ B.gate = A.gate
  BY <1>3, CompleteActiveColumns
<1>6. Orderly(A, B)
  BY <1>3, CompleteActiveOrderly
<1>7. CreateGate(T, t) = W
  BY DEF CreateGate, A, row
<1> HIDE DEF B
<1>8. B \in Tables /\ Owners(B) = Owners(A)
  BY <1>3, <1>5, <1>6, OrderlyOwners DEF Orderly
<1>9. Writes(B, W, t, {"blocked"})
  BY <1>0, <1>8, SetTaskWrites
<1>10. W.task = IF HasRow(B, t) THEN [B.task EXCEPT ![t] = "blocked"] ELSE B.task
  BY <1>0, <1>8, SetTaskColumns
<1> HIDE DEF W
<1>11. W.task[t] \in {"blocked", "deleted"}
  BY <1>3, <1>5, <1>10, TablesType DEF HasRow
<1>12. /\ W.deps = T.deps /\ Owners(W) \subseteq Owners(T) \cup {t}
       /\ \A u \in Tasks \ {t} : W.task[u] = T.task[u]
  BY <1>3, <1>4, <1>5, <1>8, <1>9 DEF Writes
<1>13. Calm(T, W)
  BY <1>11, <1>12 DEF Calm
<1>14. Onward(T, W)
  BY <1>11, <1>12 DEF Onward, Waits
<1>15. Withholds(T, W)
  BY <1>11, <1>12 DEF Withholds, Unreleased
<1> QED
  BY <1>7, <1>13, <1>14, <1>15

LEMMA CreateTaskStep ==
    ASSUME NEW T \in Tables, NEW t \in Tasks, NEW D \in SUBSET Tasks, T.task[t] = "absent",
           \A d \in D : T.task[d] # "absent"
    PROVE  /\ Onward(T, CreateTask(T, t, D)) /\ Calm(T, CreateTask(T, t, D))
           /\ CreateTask(T, t, D).task = [T.task EXCEPT ![t] = IF D = {} THEN "ready" ELSE "pending"]
           /\ CreateTask(T, t, D).deps = [T.deps EXCEPT ![t] = D]
<1> DEFINE s == IF D = {} THEN "ready" ELSE "pending"
           U == CreateTask(T, t, D)
<1>1. U = [T EXCEPT !.task[t] = s, !.deps[t] = D] /\ s \in {"ready", "pending"}
  BY DEF CreateTask
<1>2. Orderly(T, U)
  BY CreateTaskOrderly
<1> HIDE DEF s, U
<1>3. /\ U.task = [T.task EXCEPT ![t] = s] /\ U.deps = [T.deps EXCEPT ![t] = D]
      /\ U.gate = T.gate
  BY <1>1 DEF Tables
<1>4. /\ U.task[t] \in {"ready", "pending"} /\ U.deps[t] = D /\ t \notin D
      /\ \A u \in Tasks \ {t} : U.task[u] = T.task[u] /\ U.deps[u] = T.deps[u]
  BY <1>1, <1>3, TablesType
<1>5. Owners(U) = Owners(T)
  BY <1>2, <1>3, OrderlyOwners
<1>6. Calm(T, U)
  BY <1>4 DEF Calm
<1>7. Onward(T, U)
  BY <1>4, <1>5 DEF Onward, Waits
<1> QED
  BY <1>3, <1>6, <1>7 DEF U, s

LEMMA ResetTasksStep ==
    ASSUME NEW T \in Tables
    PROVE  /\ Onward(T, ResetTasks(T)) /\ Calm(T, ResetTasks(T))
           /\ Withholds(T, ResetTasks(T))
<1> DEFINE K == [t \in Tasks |-> IF HasRow(T, t) THEN "deleted" ELSE T.task[t]]
           C == [c \in DOMAIN T.ctx |-> [T.ctx[c] EXCEPT !.status = "deleted"]]
           G == [g \in DOMAIN T.gate |-> [T.gate[g] EXCEPT !.status = "deleted"]]
           U == [T EXCEPT !.task = K, !.ctx = C, !.gate = G]
<1>1. /\ U.task = K /\ U.ctx = C /\ U.gate = G /\ U.deps = T.deps
  BY DEF Tables
<1>2. \A u \in Tasks : K[u] = T.task[u] \/ K[u] = "deleted"
  OBVIOUS
<1>2a. \A u \in Tasks : K[u] \in {"absent", "deleted"}
  BY DEF HasRow
<1>3. DOMAIN C = DOMAIN T.ctx /\ \A c \in DOMAIN T.ctx : C[c].task = T.ctx[c].task
  BY TablesType DEF DispatchRow
<1>4. DOMAIN G = DOMAIN T.gate /\ \A g \in DOMAIN T.gate : G[g].task = T.gate[g].task
  BY TablesType DEF GateRow
<1>5. ResetTasks(T) = U
  BY DEF ResetTasks
<1> HIDE DEF K, C, G, U
<1>6. Owners(U) = Owners(T)
  BY <1>1, <1>3, <1>4, SameOwners
<1>7. Calm(T, U)
  BY <1>1, <1>2, <1>2a DEF Calm
<1>8. Onward(T, U)
  BY <1>1, <1>2, <1>6 DEF Onward, Waits
<1>9. Withholds(T, U)
  BY <1>1, <1>2 DEF Withholds, Unreleased
<1> QED
  BY <1>5, <1>7, <1>8, <1>9

\* processDecisionGates only blocks.
LEMMA BlockGatedStep ==
    ASSUME NEW T \in Tables
    PROVE  /\ Onward(T, BlockGated(T)) /\ Calm(T, BlockGated(T))
           /\ Withholds(T, BlockGated(T))
<1> DEFINE U == BlockGated(T)
<1>1. /\ U.deps = T.deps /\ U.gate = T.gate
      /\ \A u \in Tasks : U.task[u] = T.task[u] \/ U.task[u] = "blocked"
  BY BlockGatedColumns
<1>2. Orderly(T, U)
  BY BlockGatedOrderly
<1> HIDE DEF U
<1>3. Owners(U) = Owners(T)
  BY <1>1, <1>2, OrderlyOwners
<1>4. Onward(T, U)
  BY <1>1, <1>3 DEF Onward, Waits
<1>5. Calm(T, U) /\ Withholds(T, U)
  BY <1>1 DEF Calm, Withholds, Unreleased
<1> QED
  BY <1>4, <1>5 DEF U

\* Steps that leave the waiting tasks alone compose.
LEMMA CalmCompose ==
    ASSUME NEW T, NEW U, NEW W, Calm(T, U), Onward(T, U), Calm(U, W), Onward(U, W),
           U.deps = T.deps, W.deps = U.deps,
           \A u \in Tasks : W.task[u] = U.task[u] \/ W.task[u] = "blocked"
    PROVE  Calm(T, W) /\ Onward(T, W)
<1>1. Calm(T, W)
  BY DEF Calm
<1>2. Onward(T, W)
  BY DEF Onward
<1> QED
  BY <1>1, <1>2

\* createDispatchContext gives a row to a task that is ready.
LEMMA CreateDispatchStep ==
    ASSUME NEW T \in Tables, NEW t \in Tasks, NEW h \in Handles, NEW p \in Panes
    PROVE  /\ Onward(T, CreateDispatchContext(T, t, h, p))
           /\ T.task[t] = "ready" => Calm(T, CreateDispatchContext(T, t, h, p))
<1> DEFINE row == [task |-> t, handle |-> h, pane |-> p, status |-> "dispatched",
                   failures |-> PriorFailures(T, t)]
           U   == CreateDispatchContext(T, t, h, p)
<1>1. U = [T EXCEPT !.task[t] = "dispatched", !.ctx = Append(T.ctx, row)]
  BY DEF CreateDispatchContext
<1>2. row \in DispatchRow /\ row.task = t
  BY PriorFailuresMax DEF DispatchRow, DispatchStatus
<1> HIDE DEF row, U
<1>3. /\ U.task = [T.task EXCEPT ![t] = "dispatched"] /\ U.ctx = Append(T.ctx, row)
      /\ U.deps = T.deps /\ U.gate = T.gate
  BY <1>1 DEF Tables
<1>4. /\ DOMAIN U.ctx = 1 .. Len(T.ctx) + 1
      /\ \A c \in 1 .. Len(T.ctx) + 1 :
            U.ctx[c] = IF c = Len(T.ctx) + 1 THEN row ELSE T.ctx[c]
  BY <1>2, <1>3, TablesType, AppendProperties
<1>5. Owners(U) \subseteq Owners(T) \cup {t}
  BY <1>2, <1>3, <1>4, TablesType DEF Owners
<1>6. U.task[t] = "dispatched" /\ \A u \in Tasks \ {t} : U.task[u] = T.task[u]
  BY <1>3, TablesType
<1>7. Onward(T, U)
  BY <1>3, <1>5, <1>6 DEF Onward, Waits
<1>8. Calm(T, U)
  BY <1>3, <1>6 DEF Calm
<1> QED
  BY <1>7, <1>8 DEF U

-----------------------------------------------------------------------------
(* What a report that is believed writes. *)

\* It names the newest dispatch of its task, which is active: that one completes, with
\* its task, and tasks that waited for it are released.
LEMMA ReportColumns ==
    ASSUME NEW T \in Tables, NEW t \in Tasks, NEW c \in DOMAIN T.ctx, NEW h, NEW p,
           AcceptsWorkerDone(T, t, c, h, p)
    PROVE  LET U == UpdateTaskStatus(T, t, "completed")
           IN  /\ U.deps = T.deps /\ U.gate = T.gate
               /\ U.ctx = [T.ctx EXCEPT ![c].status = "completed"]
               /\ U.task[t] = "completed"
               /\ \A u \in Tasks \ {t} :
                     U.task[u] # T.task[u] => T.task[u] = "pending" /\ U.task[u] = "ready"
<1> DEFINE active == {d \in ContextsOf(T, t) : IsActive(T, d)}
           A == SetTask(T, t, "completed")
           U == UpdateTaskStatus(T, t, "completed")
<1>1. /\ HasRow(T, t) /\ T.ctx[c].task = t
      /\ IsActive(T, c) /\ c = Newest(ContextsOf(T, t))
  BY DEF AcceptsWorkerDone
<1>2. active # {} /\ c = Newest(active)
  <2>1. /\ ContextsOf(T, t) \in SUBSET (1 .. Len(T.ctx)) /\ Len(T.ctx) \in Nat
        /\ active \subseteq ContextsOf(T, t)
    BY TablesType DEF ContextsOf
  <2>2. c \in ContextsOf(T, t)
    BY <1>1 DEF ContextsOf, IsActive
  <2>3. c \in active /\ active \in SUBSET (1 .. Len(T.ctx))
    BY <1>1, <2>1, <2>2
  <2> HIDE DEF active
  <2>4. \A d \in active : d =< c
    BY <1>1, <2>1, <2>2, NewestIsLast
  <2>5. Newest(active) \in active /\ c =< Newest(active)
    BY <2>1, <2>3, NewestIsLast
  <2>6. Newest(active) =< c /\ Newest(active) \in Nat /\ c \in Nat
    BY <2>1, <2>3, <2>4, <2>5
  <2> QED
    BY <2>3, <2>5, <2>6
<1>3. /\ U.deps = T.deps /\ U.gate = T.gate
      /\ A.deps = T.deps /\ A.task = [T.task EXCEPT ![t] = "completed"]
      /\ \A u \in Tasks : U.task[u] = IF u \in Promoted(A, t) THEN "ready" ELSE A.task[u]
      /\ U.ctx = [T.ctx EXCEPT ![Newest(active)].status = "completed"]
  BY <1>1, <1>2, CompletedColumns
<1> HIDE DEF A, active, U
<1>4. /\ A.task[t] = "completed" /\ \A u \in Tasks \ {t} : A.task[u] = T.task[u]
  BY <1>3, TablesType
<1>5. U.task[t] = "completed"
  BY <1>3, <1>4 DEF Promoted
<1>6. \A u \in Tasks \ {t} :
          U.task[u] # T.task[u] => T.task[u] = "pending" /\ U.task[u] = "ready"
  BY <1>3, <1>4 DEF Promoted
<1> QED
  BY <1>2, <1>3, <1>5, <1>6 DEF U

=============================================================================
