---------------------- MODULE DispatchLifecycle_proofs ----------------------
(***************************************************************************)
(* The dispatch lifecycle, for every set of tasks, terminals and panes,    *)
(* every number of dispatches and every order of the operations.           *)
(*                                                                         *)
(* The lock: each operation either is orderly (it keeps the tables well    *)
(* typed and revives no dispatch) or is Dispatch, whose guard excludes a   *)
(* conflict with any active row.  Promotion needs two invariants: a task   *)
(* that is still pending owns no dispatch and no gate, so that its last    *)
(* dependency finds it pending; and a task that was never released has no  *)
(* dispatch, so that no late failure can release it.  No task is left in   *)
(* "dispatched" without an active dispatch, provided operators do not write*)
(* "dispatched" by hand: an operation that ends a dispatch also takes the  *)
(* task of that dispatch out, and touches no other task that is out.       *)
(***************************************************************************)
EXTENDS DispatchLifecycle, OrchestrationDb_proofs

\* A step that starts no dispatch.
Quiet ==
    /\ Orderly(db, db')
    /\ sending' \subseteq DOMAIN db.ctx
    /\ cleared' \subseteq Tasks

SomeDispatch ==
    \E t \in Tasks, h \in Handles, inject \in BOOLEAN :
        \E p \in KeysOf[h] : Dispatch(t, h, p, inject)

\* Every operation but Dispatch is orderly.
LEMMA StepIsQuietOrDispatch ==
    ASSUME TypeOK, [Next]_vars
    PROVE  Quiet \/ SomeDispatch
  <1> USE DEF TypeOK, Clear
  <1>1. ASSUME NEW t \in Tasks, NEW D \in SUBSET Tasks, TaskCreate(t, D)
        PROVE  Quiet
    BY <1>1, CreateTaskOrderly DEF TaskCreate, Quiet
  <1>2. ASSUME NEW t \in Tasks, NEW s \in OverrideTo, TaskUpdate(t, s)
        PROVE  Quiet
    BY <1>2, UpdateTaskStatusOrderly, LifecycleAssumption DEF TaskUpdate, Quiet
  <1>3. ASSUME NEW c \in sending, PromptDelivered(c)
        PROVE  Quiet
    BY <1>3, OrderlySkip DEF PromptDelivered, Quiet
  <1>4. ASSUME NEW c \in sending, PromptRefused(c)
        PROVE  Quiet
    BY <1>4, FailDispatchOrderly DEF PromptRefused, Quiet
  <1>5. ASSUME NEW t \in Tasks, GateCreate(t)
        PROVE  Quiet
    BY <1>5, CreateGateOrderly DEF GateCreate, Quiet
  <1>6. ASSUME NEW t \in Tasks, Escalate(t)
        PROVE  Quiet
    <2>1. Newest(ContextsOf(db, t)) \in DOMAIN db.ctx
      BY <1>6, NewestContextExists DEF Escalate
    <2>2. Orderly(db, FailDispatch(db, Newest(ContextsOf(db, t))))
      BY <2>1, FailDispatchOrderly
    <2>3. Orderly(db, db')
      BY <1>6, <2>2, BlockGatedOrderly, OrderlyCompose DEF Escalate, Orderly
    <2> QED
      BY <1>6, <2>3 DEF Escalate, Quiet
  <1>7. ASSUME NEW g \in DOMAIN db.gate, GateResolve(g)
        PROVE  Quiet
    <2>1. db.gate[g].task \in Tasks
      BY TablesType DEF GateRow
    <2> QED
      BY <1>7, <2>1, ResolveGateOrderly DEF GateResolve, Quiet
  <1>8. ASSUME Reblock
        PROVE  Quiet
    BY <1>8, BlockGatedOrderly DEF Reblock, Quiet
  <1>9. ASSUME NEW t \in Tasks, NEW c \in DOMAIN db.ctx, NEW h \in Handles, NEW p \in Panes,
               WorkerDone(t, c, h, p)
        PROVE  Quiet
    BY <1>9, ReconcileWorkerDoneOrderly DEF WorkerDone, Quiet
  <1>10. ASSUME NEW h \in Handles, TerminalExit(h)
         PROVE  Quiet
    BY <1>10, FailDispatchOrderly DEF TerminalExit, Quiet
  <1>11. ASSUME Reset
         PROVE  Quiet
    BY <1>11, ResetTasksOrderly DEF Reset, Quiet
  <1>12. ASSUME UNCHANGED vars
         PROVE  Quiet
    BY <1>12, OrderlySkip DEF vars, Quiet
  <1> QED
    BY <1>1, <1>2, <1>3, <1>4, <1>5, <1>6, <1>7, <1>8, <1>9, <1>10, <1>11, <1>12
       DEF Next, SomeDispatch

\* What a dispatch appends, in terms of the new tables.
LEMMA DispatchFacts ==
    ASSUME TypeOK, NEW t \in Tasks, NEW h \in Handles, NEW inject \in BOOLEAN,
           NEW p \in KeysOf[h], Dispatch(t, h, p, inject)
    PROVE  /\ p \in Panes
           /\ ~TerminalBusy(db, h, p)
           /\ db' \in Tables
           /\ Len(db'.ctx) = Len(db.ctx) + 1
           /\ \A c \in DOMAIN db.ctx : db'.ctx[c] = db.ctx[c]
           /\ db'.ctx[Len(db.ctx) + 1].handle = h
           /\ db'.ctx[Len(db.ctx) + 1].pane = p
           /\ db'.ctx[Len(db.ctx) + 1].status = "dispatched"
           /\ sending' \subseteq DOMAIN db'.ctx
  <1>1. p \in Panes
    BY LifecycleAssumption
  <1>2. /\ db' \in Tables
        /\ Len(db'.ctx) = Len(db.ctx) + 1
        /\ \A c \in DOMAIN db.ctx : db'.ctx[c] = db.ctx[c]
        /\ db'.ctx[Len(db.ctx) + 1].handle = h
        /\ db'.ctx[Len(db.ctx) + 1].pane = p
        /\ db'.ctx[Len(db.ctx) + 1].status = "dispatched"
    <2>1. db \in Tables /\ db' = CreateDispatchContext(db, t, h, p)
      BY DEF TypeOK, Dispatch
    <2>2. Grants(db, db', t, h, p)
      BY <1>1, <2>1, CreateDispatchGrants, Zenon
    <2> QED
      BY <2>2, Zenon DEF Grants
  <1>3. sending' \subseteq DOMAIN db'.ctx
    <2>1. DOMAIN db.ctx = 1 .. Len(db.ctx) /\ Len(db.ctx) \in Nat
      BY TablesType DEF TypeOK
    <2>2. DOMAIN db'.ctx = 1 .. (Len(db.ctx) + 1)
      BY <1>2, TablesType
    <2> QED
      BY <2>1, <2>2 DEF Dispatch, TypeOK
  <1> QED
    BY <1>1, <1>2, <1>3 DEF Dispatch, MayDispatch

\* The empty database is well typed.
LEMMA InitType == Init => TypeOK
  <1> SUFFICES ASSUME Init
               PROVE  TypeOK
    OBVIOUS
  <1>1. EmptyTables \in Tables
    BY DEF EmptyTables, Tables
  <1> QED
    BY <1>1 DEF Init, TypeOK

\* A step keeps the tables well typed.
LEMMA NextType == TypeOK /\ [Next]_vars => TypeOK'
  <1> SUFFICES ASSUME TypeOK, [Next]_vars
               PROVE  TypeOK'
    OBVIOUS
  <1>1. CASE Quiet
    <2>1. db \in Tables /\ db' \in Tables /\ Len(db'.ctx) = Len(db.ctx)
      BY <1>1 DEF Quiet, Orderly, EndsOnly, TypeOK
    <2>2. DOMAIN db'.ctx = DOMAIN db.ctx
      BY <2>1, TablesType
    <2> QED
      BY <1>1, <2>1, <2>2 DEF Quiet, TypeOK
  <1>2. CASE SomeDispatch
    <2>1. cleared' \subseteq Tasks
      BY <1>2 DEF SomeDispatch, Dispatch, Clear, TypeOK
    <2> QED
      BY <1>2, <2>1, DispatchFacts DEF SomeDispatch, TypeOK
  <1> QED
    BY <1>1, <1>2, StepIsQuietOrDispatch

\* The tables keep their types in every run.
THEOREM TypeCorrect == Spec => []TypeOK
  BY InitType, NextType, PTL DEF Spec

-----------------------------------------------------------------------------
(* The dispatch lock. *)

\* Whether two terminals conflict does not depend on which is named first.
LEMMA ConflictsSymmetric ==
    ASSUME NEW a, NEW b, Conflicts(a, b.handle, b.pane)
    PROVE  Conflicts(b, a.handle, a.pane)
  BY DEF Conflicts, SamePane

\* The lock is kept: a quiet step has no new active row, and Dispatch's guard looked
\* at every active row.
LEMMA NextOneDispatch ==
    ASSUME TypeOK, OneDispatchPerTerminal, [Next]_vars
    PROVE  OneDispatchPerTerminal'
  <1>1. DOMAIN db.ctx = 1 .. Len(db.ctx) /\ Len(db.ctx) \in Nat
    BY TablesType DEF TypeOK
  <1>2. CASE Quiet
    <2>1. DOMAIN db'.ctx = DOMAIN db.ctx
      BY <1>1, <1>2, TablesType DEF Quiet, Orderly, EndsOnly
    <2> QED
      BY <1>2, <2>1 DEF Quiet, Orderly, EndsOnly, OneDispatchPerTerminal, IsActive, Conflicts
  <1>3. ASSUME NEW t \in Tasks, NEW h \in Handles, NEW inject \in BOOLEAN,
               NEW p \in KeysOf[h], Dispatch(t, h, p, inject)
        PROVE  OneDispatchPerTerminal'
    <2> DEFINE n == Len(db.ctx) + 1
    <2>1. /\ DOMAIN db'.ctx = 1 .. n
          /\ \A c \in 1 .. n : c = n \/ c \in DOMAIN db.ctx
          /\ n \notin DOMAIN db.ctx
      BY <1>1, <1>3, DispatchFacts, TablesType
    <2>2. /\ db'.ctx[n].handle = h /\ db'.ctx[n].pane = p
          /\ \A c \in DOMAIN db.ctx : db'.ctx[c] = db.ctx[c]
          /\ \A c \in DOMAIN db.ctx : IsActive(db, c) => ~Conflicts(db.ctx[c], h, p)
      BY <1>3, DispatchFacts DEF TerminalBusy
    <2> HIDE DEF n
    <2>3. SUFFICES ASSUME NEW c \in 1 .. n, NEW d \in 1 .. n, c # d,
                          IsActive(db, c)', IsActive(db, d)'
                   PROVE  ~Conflicts(db'.ctx[c], db'.ctx[d].handle, db'.ctx[d].pane)
      BY <2>1 DEF OneDispatchPerTerminal
    <2>4. CASE c \in DOMAIN db.ctx /\ d \in DOMAIN db.ctx
      BY <2>2, <2>3, <2>4 DEF IsActive, OneDispatchPerTerminal
    <2>5. CASE c \in DOMAIN db.ctx /\ d = n
      BY <2>2, <2>3, <2>5 DEF IsActive
    <2>6. CASE c = n /\ d \in DOMAIN db.ctx
      <3>1. ~Conflicts(db'.ctx[d], db'.ctx[n].handle, db'.ctx[n].pane)
        BY <2>2, <2>3, <2>6 DEF IsActive
      <3> QED
        BY <2>6, <3>1, ConflictsSymmetric
    <2> QED
      BY <2>1, <2>3, <2>4, <2>5, <2>6
  <1> QED
    BY <1>2, <1>3, StepIsQuietOrDispatch DEF SomeDispatch

\* Two active dispatches never share a terminal, neither by handle nor by pane.
THEOREM DispatchLock == Spec => []OneDispatchPerTerminal
  <1>1. Init => OneDispatchPerTerminal
    BY DEF Init, EmptyTables, OneDispatchPerTerminal
  <1>2. TypeOK /\ OneDispatchPerTerminal /\ [Next]_vars => OneDispatchPerTerminal'
    BY NextOneDispatch
  <1> QED
    BY <1>1, <1>2, InitType, NextType, PTL DEF Spec

-----------------------------------------------------------------------------
(* The tables implement the lease on terminals. *)

\* A step of the tables grants one lease or ends some.
LEMMA StepIsLeaseStep ==
    ASSUME TypeOK, TypeOK', [Next]_vars
    PROVE  [Lease!LeaseNext]_Lease!leaseVars
  <1> DEFINE Terminal(T, c) == [handle |-> T.ctx[c].handle, pane |-> T.ctx[c].pane]
  <1>1. DOMAIN db.ctx = 1 .. Len(db.ctx) /\ Len(db.ctx) \in Nat
    BY TablesType DEF TypeOK
  <1>2. CASE Quiet
    <2>1. Len(db'.ctx) = Len(db.ctx) /\ DOMAIN db'.ctx = DOMAIN db.ctx
      BY <1>1, <1>2, TablesType DEF Quiet, Orderly, EndsOnly
    <2>2. \A c \in DOMAIN db.ctx : Terminal(db', c) = Terminal(db, c)
      BY <1>2 DEF Quiet, Orderly, EndsOnly
    <2>3. [c \in DOMAIN db'.ctx |-> Terminal(db', c)] = [c \in DOMAIN db.ctx |-> Terminal(db, c)]
      BY <2>1, <2>2
    <2>4. {c \in DOMAIN db'.ctx : IsActive(db', c)} \subseteq {c \in DOMAIN db.ctx : IsActive(db, c)}
      BY <1>2, <2>1 DEF Quiet, Orderly, EndsOnly, IsActive
    <2>5. Lease!Release
      BY <2>1, <2>3, <2>4 DEF Lease!Release, IsActive
    <2> QED
      BY <2>5 DEF Lease!LeaseNext
  <1>3. ASSUME NEW t \in Tasks, NEW h \in Handles, NEW inject \in BOOLEAN,
               NEW p \in KeysOf[h], Dispatch(t, h, p, inject)
        PROVE  Lease!LeaseNext
    <2> DEFINE n == Len(db.ctx) + 1
               x == [handle |-> h, pane |-> p]
    <2>1. /\ DOMAIN db'.ctx = 1 .. n
          /\ \A c \in 1 .. n : c = n \/ c \in DOMAIN db.ctx
          /\ n \notin DOMAIN db.ctx /\ n \in 1 .. n
          /\ Len(db'.ctx) = n
      BY <1>1, <1>3, DispatchFacts, TablesType
    <2>2. /\ db'.ctx[n].handle = h /\ db'.ctx[n].pane = p
          /\ db'.ctx[n].status = "dispatched"
          /\ \A c \in DOMAIN db.ctx : db'.ctx[c] = db.ctx[c]
          /\ \A c \in DOMAIN db.ctx : IsActive(db, c) => ~Conflicts(db.ctx[c], h, p)
          /\ p \in Panes
      BY <1>3, DispatchFacts DEF TerminalBusy
    <2>3. \A i \in {c \in DOMAIN db.ctx : IsActive(db, c)} : ~RowsConflict(Terminal(db, i), x)
      BY <2>2 DEF RowsConflict, Conflicts
    <2>4. [c \in DOMAIN db'.ctx |-> Terminal(db', c)]
            = [i \in 1 .. n |-> IF i = n THEN x ELSE [c \in DOMAIN db.ctx |-> Terminal(db, c)][i]]
      <3> HIDE DEF n
      <3> QED
        BY <2>1, <2>2
    <2>5. {c \in DOMAIN db'.ctx : IsActive(db', c)} = {c \in DOMAIN db.ctx : IsActive(db, c)} \cup {n}
      <3>1. \A c \in DOMAIN db.ctx : IsActive(db', c) <=> IsActive(db, c)
        BY <2>2 DEF IsActive
      <3>2. IsActive(db', n)
        BY <2>2 DEF IsActive
      <3>3. n \in DOMAIN db'.ctx /\ \A c : c \in DOMAIN db'.ctx <=> c = n \/ c \in DOMAIN db.ctx
        BY <1>1, <2>1
      <3> HIDE DEF n
      <3> QED
        BY <3>1, <3>2, <3>3
    <2>6. Lease!Grant(x)
      BY <2>1, <2>3, <2>4, <2>5 DEF Lease!Grant, IsActive
    <2>7. x \in [handle : Handles, pane : Panes]
      BY <2>2
    <2> QED
      BY <2>6, <2>7 DEF Lease!LeaseNext
  <1> QED
    BY <1>2, <1>3, StepIsQuietOrDispatch DEF SomeDispatch

\* The dispatch tables are a lease on terminals: granted under a fresh id, to a
\* terminal no lease is held on, and never taken up again once ended.
THEOREM LeaseImplementation == Spec => ImplementsLease
  <1>1. Init => Lease!LeaseInit
    BY DEF Init, EmptyTables, Lease!LeaseInit
  <1>2. TypeOK /\ TypeOK' /\ [Next]_vars => [Lease!LeaseNext]_Lease!leaseVars
    BY StepIsLeaseStep
  <1> QED
    BY <1>1, <1>2, TypeCorrect, PTL DEF Spec, ImplementsLease, Lease!LeaseSpec

-----------------------------------------------------------------------------
(* A report ends its own dispatch. *)

\* A report that is believed names the newest dispatch of the task, and that is active.
LEMMA ReportStep ==
    ASSUME TypeOK, NEW t \in Tasks, NEW c \in DOMAIN db.ctx, NEW h \in Handles,
           NEW p \in Panes, WorkerDone(t, c, h, p), db' # db
    PROVE  /\ db'.ctx = [db.ctx EXCEPT ![c].status = "completed"]
           /\ db.ctx[c].task = t
           /\ db.task[t] = "dispatched" /\ db'.task[t] = "completed"
           /\ \A u \in Tasks \ {t} :
                 db'.task[u] # db.task[u] => db.task[u] = "pending" /\ db'.task[u] = "ready"
           /\ \/ db.ctx[c].pane = NoPane /\ db.ctx[c].handle = h
              \/ db.ctx[c].pane # NoPane /\ p # NoPane /\ SamePane(db.ctx[c].pane, p)
<1>1. db \in Tables
  BY DEF TypeOK
<1>2. AcceptsWorkerDone(db, t, c, h, p) /\ db' = UpdateTaskStatus(db, t, "completed")
  BY DEF WorkerDone, ReconcileWorkerDone
<1>3. \/ db.ctx[c].pane = NoPane /\ db.ctx[c].handle = h
      \/ db.ctx[c].pane # NoPane /\ p # NoPane /\ SamePane(db.ctx[c].pane, p)
  BY <1>2 DEF AcceptsWorkerDone, HasLifecycleAuthority
<1>4. db.ctx[c].task = t /\ db.task[t] = "dispatched"
  BY <1>2 DEF AcceptsWorkerDone
<1> QED
  BY <1>1, <1>2, <1>3, <1>4, ReportColumns

\* reconcileWorkerDone: whatever was retried, reset or overridden before, a report that
\* changes anything comes from the dispatch's own terminal, ends that dispatch and its
\* task, and otherwise only releases tasks that waited for it.
THEOREM ReportEndsOwn == Spec => ReportEndsItsOwnDispatch
<1> DEFINE Ends ==
      db' # db => \A t \in Tasks, c \in DOMAIN db.ctx, h \in Handles, p \in Panes :
          WorkerDone(t, c, h, p) =>
              /\ db'.ctx = [db.ctx EXCEPT ![c].status = "completed"]
              /\ db.ctx[c].task = t
              /\ db.task[t] = "dispatched" /\ db'.task[t] = "completed"
              /\ \A u \in Tasks \ {t} :
                    db'.task[u] # db.task[u] => db.task[u] = "pending" /\ db'.task[u] = "ready"
              /\ \/ db.ctx[c].pane = NoPane /\ db.ctx[c].handle = h
                 \/ db.ctx[c].pane # NoPane /\ p # NoPane /\ SamePane(db.ctx[c].pane, p)
<1>1. TypeOK /\ [Next]_vars => [Ends]_vars
  BY ReportStep
<1> QED
  BY <1>1, InitType, NextType, PTL DEF Spec, ReportEndsItsOwnDispatch

-----------------------------------------------------------------------------
(* Promotion follows the dependencies. *)

LEMMA CompletedStep ==
    ASSUME NEW T \in Tables, NEW t \in Tasks, HasRow(T, t)
    PROVE  LET U == UpdateTaskStatus(T, t, "completed")
           IN  /\ Onward(T, U)
               /\ Fresh(T) => \A u \in Tasks : T.task[u] = "pending" =>
                     /\ U.task[u] = "ready" => DepsCompleted(U, u)
                     /\ ~DepsCompleted(T, u) /\ DepsCompleted(U, u) => U.task[u] = "ready"
               /\ \A u \in Tasks \ {t} : U.task[u] # T.task[u] =>
                     T.task[u] = "pending" /\ U.task[u] = "ready"
<1> DEFINE A == SetTask(T, t, "completed")
           U == UpdateTaskStatus(T, t, "completed")
<1>1. /\ U.deps = T.deps /\ U.gate = T.gate
      /\ A.deps = T.deps /\ A.task = [T.task EXCEPT ![t] = "completed"]
      /\ \A u \in Tasks : U.task[u] = IF u \in Promoted(A, t) THEN "ready" ELSE A.task[u]
  BY CompletedColumns
<1>2. Orderly(T, U)
  <2>1. "completed" \in TaskStatus
    BY DEF TaskStatus
  <2> QED
    BY <2>1, UpdateTaskStatusOrderly
<1> HIDE DEF A, U
<1>3. Owners(U) = Owners(T)
  BY <1>1, <1>2, OrderlyOwners
<1>4. A.task[t] = "completed" /\ \A u \in Tasks \ {t} : A.task[u] = T.task[u]
  BY <1>1, TablesType
<1>5. \A u \in Tasks : Waits(U, u) => U.task[u] = T.task[u]
  BY <1>1, <1>4 DEF Waits, Promoted
<1>6. Onward(T, U)
  BY <1>1, <1>3, <1>5 DEF Onward, Waits
<1>7. ASSUME Fresh(T), NEW u \in Tasks, T.task[u] = "pending"
      PROVE  /\ U.task[u] = "ready" => DepsCompleted(U, u)
             /\ ~DepsCompleted(T, u) /\ DepsCompleted(U, u) => U.task[u] = "ready"
  <2>1. T.deps[u] \in SUBSET Tasks /\ u \notin T.deps[u]
    BY <1>7, TablesType DEF Fresh
  <2>2. \A d \in Tasks : A.task[d] = "completed" <=> U.task[d] = "completed"
    BY <1>1 DEF Promoted
  <2>3. DepsCompleted(U, u) <=> DepsCompleted(A, u)
    BY <1>1, <2>1, <2>2 DEF DepsCompleted
  <2>4. ASSUME U.task[u] = "ready" PROVE DepsCompleted(U, u)
    <3>1. u \in Promoted(A, t)
      BY <1>1, <1>4, <1>7, <2>4
    <3> QED
      BY <2>3, <3>1 DEF Promoted, DepsCompleted
  <2>5. ASSUME ~DepsCompleted(T, u), DepsCompleted(U, u) PROVE U.task[u] = "ready"
    <3>1. t \in T.deps[u]
      BY <1>1, <1>4, <2>1, <2>3, <2>5 DEF DepsCompleted
    <3>2. A.task[u] = "pending"
      BY <1>4, <1>7, <2>1, <3>1
    <3>3. u \in Promoted(A, t)
      BY <1>1, <2>3, <2>5, <3>1, <3>2 DEF Promoted, DepsCompleted
    <3> QED
      BY <1>1, <3>3
  <2> QED
    BY <2>4, <2>5
<1>8. \A u \in Tasks \ {t} : U.task[u] # T.task[u] =>
           T.task[u] = "pending" /\ U.task[u] = "ready"
  BY <1>1, <1>4 DEF Promoted
<1> QED
  BY <1>6, <1>7, <1>8 DEF U

\* What the first half of PromotionFollowsDeps says of one task in a step.
Follows(u) ==
    db.task[u] = "pending" /\ ~DepsCompleted(db, u) /\ DepsCompleted(db', u)
        => db'.task[u] = "ready"

\* A step releases u only with its dependencies, by a decision, or again.
Stays(u) == db.task[u] \in Unreleased /\ u \notin cleared' => db'.task[u] \in Unreleased

LEMMA CalmFollows ==
    ASSUME TypeOK, Calm(db, db')
    PROVE  \A u \in Tasks : Follows(u)
<1> SUFFICES ASSUME NEW u \in Tasks, db.task[u] = "pending", DepsCompleted(db', u)
             PROVE  DepsCompleted(db, u)
  BY DEF Follows
<1>1. db.deps[u] \in SUBSET Tasks
  BY TablesType DEF TypeOK
<1> QED
  BY <1>1 DEF Calm, DepsCompleted

LEMMA WithholdsStays ==
    ASSUME Withholds(db, db')
    PROVE  \A u \in Tasks : Stays(u)
BY DEF Withholds, Stays

\* A task that the step leaves with its dependencies completed is cleared.
LEMMA ClearFacts ==
    ASSUME NEW S, Clear(S)
    PROVE  /\ S \subseteq cleared' /\ cleared \subseteq cleared'
           /\ \A u \in Tasks : HasRow(db', u) /\ DepsCompleted(db', u) => u \in cleared'
BY DEF Clear

\* A completion releases the tasks that waited for it, and no other.
LEMMA CompletionStays ==
    ASSUME TypeOK, Fresh(db), NEW t \in Tasks, HasRow(db, t),
           db' = UpdateTaskStatus(db, t, "completed"), NEW S, Clear(S),
           t \in S \/ db.task[t] \notin Unreleased
    PROVE  /\ Onward(db, db')
           /\ \A u \in Tasks : Follows(u)
           /\ \A u \in Tasks : Stays(u)
<1>0. db \in Tables
  BY DEF TypeOK
<1>1. /\ Onward(db, db')
      /\ \A u \in Tasks : Follows(u)
  BY <1>0, CompletedStep DEF Follows
<1>2. ASSUME NEW u \in Tasks, db.task[u] \in Unreleased, u \notin cleared'
      PROVE  db'.task[u] \in Unreleased
  <2>1. u # t
    BY <1>2, ClearFacts
  <2>2. CASE db'.task[u] = db.task[u]
    BY <1>2, <2>2
  <2>3. CASE db'.task[u] # db.task[u]
    <3>1. db.task[u] = "pending" /\ db'.task[u] = "ready"
      BY <1>0, <2>1, <2>3, CompletedStep
    <3>2. DepsCompleted(db', u)
      BY <1>0, <3>1, CompletedStep
    <3>3. HasRow(db', u)
      BY <3>1 DEF HasRow
    <3> QED
      BY <1>2, <3>2, <3>3, ClearFacts
  <2> QED
    BY <2>2, <2>3
<1> QED
  BY <1>1, <1>2 DEF Stays

\* A statement that writes only the status of t.
LEMMA WritesFollows ==
    ASSUME TypeOK, NEW t \in Tasks, NEW V, Writes(db, db', t, V), "completed" \notin V,
           "ready" \notin V \/ db.task[t] # "pending", V \cap {"absent", "pending"} = {},
           V \subseteq Unreleased \/ t \in cleared' \/ db.task[t] \notin Unreleased
    PROVE  /\ Onward(db, db') /\ Calm(db, db')
           /\ \A u \in Tasks : Follows(u)
           /\ \A u \in Tasks : Stays(u)
<1>1. Onward(db, db')
  BY WritesOnward
<1>2. Calm(db, db')
  BY WritesCalm
<1>3. \A u \in Tasks : Stays(u)
  BY DEF Writes, Stays
<1> QED
  BY <1>1, <1>2, <1>3, CalmFollows

\* An operator sets a status by hand.
LEMMA TaskUpdateFollows ==
    ASSUME TypeOK, Fresh(db), NEW t \in Tasks, NEW s \in TaskStatus \ {"pending"},
           TaskUpdate(t, s)
    PROVE  /\ Onward(db, db')
           /\ \A u \in Tasks : Follows(u)
           /\ \A u \in Tasks : Stays(u)
<1>0. HasRow(db, t) /\ db' = UpdateTaskStatus(db, t, s) /\ db \in Tables /\ Clear({t})
  BY DEF TaskUpdate, TypeOK
<1>1. CASE s = "completed"
  BY <1>0, <1>1, CompletionStays
<1>2. CASE s # "completed"
  <2>1. Writes(db, db', t, {s}) /\ {s} \cap {"absent", "pending"} = {}
    BY <1>0, <1>2, SetTaskWrites DEF UpdateTaskStatus, TaskStatus
  <2>2. Onward(db, db')
    BY <2>1, WritesOnward
  <2>3. t \in cleared'
    BY <1>0, ClearFacts
  <2>4. \A u \in Tasks : Stays(u)
    BY <2>1, <2>3 DEF Writes, Stays
  <2>5. ASSUME NEW u \in Tasks, DepsCompleted(db', u)
        PROVE  DepsCompleted(db, u)
    <3>1. db.deps[u] \in SUBSET Tasks
      BY <1>0, TablesType
    <3>2. \A d \in Tasks : db'.task[d] = "completed" => db.task[d] = "completed"
      BY <1>2, <2>1 DEF Writes
    <3> QED
      BY <2>1, <2>5, <3>1, <3>2 DEF DepsCompleted, Writes
  <2> QED
    BY <2>2, <2>4, <2>5 DEF Follows
<1> QED
  BY <1>1, <1>2

\* A task that was never released has no dispatch.
UnreleasedHasNone ==
    \A u \in Tasks \ cleared :
        /\ db.task[u] \in Unreleased
        /\ \A c \in DOMAIN db.ctx : db.ctx[c].task # u

\* A failure, on any of its ways, releases only a task that has a dispatch.
LEMMA FailFollows ==
    ASSUME TypeOK, Fresh(db), UnreleasedHasNone, NEW c \in DOMAIN db.ctx,
           db' = FailDispatch(db, c), Clear({})
    PROVE  /\ Onward(db, db') /\ Calm(db, db')
           /\ \A u \in Tasks : Follows(u)
           /\ \A u \in Tasks : Stays(u)
<1>1. db \in Tables /\ db.ctx[c].task \in Tasks /\ db.ctx[c].task \in Owners(db)
  BY TablesType DEF TypeOK, DispatchRow, Owners
<1>2. Writes(db, db', db.ctx[c].task, {"ready", "failed"})
  BY <1>1, FailDispatchWrites
<1>3. db.task[db.ctx[c].task] # "pending"
  BY <1>1, OwnerDoesNotWait
<1>4. "completed" \notin {"ready", "failed"} /\ {"ready", "failed"} \cap {"absent", "pending"} = {}
  OBVIOUS
<1>5. db.ctx[c].task \in cleared'
  BY <1>1, ClearFacts DEF UnreleasedHasNone
<1> QED
  BY <1>1, <1>2, <1>3, <1>4, <1>5, WritesFollows

\* An escalation fails the newest dispatch and blocks the gated tasks in one turn.
LEMMA EscalateFollows ==
    ASSUME TypeOK, Fresh(db), UnreleasedHasNone, NEW t \in Tasks, Escalate(t)
    PROVE  /\ Onward(db, db')
           /\ \A u \in Tasks : Follows(u)
           /\ \A u \in Tasks : Stays(u)
<1> DEFINE c == Newest(ContextsOf(db, t))
           M == FailDispatch(db, c)
           o == db.ctx[c].task
<1>1. db \in Tables /\ c \in DOMAIN db.ctx /\ db' = BlockGated(M) /\ Clear({})
  BY NewestContextExists DEF Escalate, TypeOK
<1> HIDE DEF c
<1>2. o \in Tasks /\ o \in Owners(db)
  BY <1>1, TablesType DEF DispatchRow, Owners
<1>3. M \in Tables
  BY <1>1, FailDispatchOrderly DEF Orderly
<1>4. Writes(db, M, o, {"ready", "failed"})
  BY <1>1, FailDispatchWrites
<1> HIDE DEF M
<1>5. db.task[o] # "pending"
  BY <1>2, OwnerDoesNotWait
<1>6. o \in cleared'
  BY <1>1, <1>2, ClearFacts DEF UnreleasedHasNone
<1> HIDE DEF o
<1>7. Onward(db, M) /\ Calm(db, M)
  <2>1. "completed" \notin {"ready", "failed"} /\ {"ready", "failed"} \cap {"absent", "pending"} = {}
    OBVIOUS
  <2> QED
    BY <1>2, <1>4, <1>5, <2>1, WritesOnward, WritesCalm
<1>8. /\ Onward(M, db') /\ Calm(M, db') /\ db'.deps = M.deps /\ M.deps = db.deps
      /\ \A u \in Tasks : db'.task[u] = M.task[u] \/ db'.task[u] = "blocked"
  BY <1>1, <1>3, <1>4, BlockGatedStep, BlockGatedColumns DEF Writes
<1>9. Calm(db, db') /\ Onward(db, db')
  BY <1>7, <1>8, CalmCompose
<1>10. \A u \in Tasks : Stays(u)
  BY <1>4, <1>6, <1>8 DEF Writes, Stays, Unreleased
<1> QED
  BY <1>9, <1>10, CalmFollows

LEMMA StepFollows ==
    ASSUME TypeOK, Fresh(db), UnreleasedHasNone, [Next]_vars, "pending" \notin OverrideTo
    PROVE  /\ Onward(db, db')
           /\ \A u \in Tasks : Follows(u)
           /\ (\A u \in Tasks : Stays(u)) \/ SomeDispatch
           /\ cleared \subseteq cleared'
<1> DEFINE F == \A u \in Tasks : Follows(u)
           W == \A u \in Tasks : Stays(u)
           G == Onward(db, db') /\ F /\ (W \/ SomeDispatch) /\ cleared \subseteq cleared'
<1>0. db \in Tables
  BY DEF TypeOK
<1>a. Calm(db, db') => F
  BY CalmFollows
<1>b. Withholds(db, db') => W
  BY WithholdsStays
<1>c. \A S : Clear(S) => cleared \subseteq cleared'
  BY ClearFacts
<1>d. db' = db => Onward(db, db') /\ F /\ W
  <2>1. db' = db => Onward(db, db') /\ Calm(db, db') /\ Withholds(db, db')
    BY DEF Onward, Calm, Withholds
  <2> QED
    BY <1>a, <1>b, <2>1
<1>1. ASSUME NEW t \in Tasks, NEW D \in SUBSET Tasks, TaskCreate(t, D) PROVE G
  <2>1. db' = CreateTask(db, t, D) /\ Clear({}) /\ db.task[t] = "absent"
        /\ \A d \in D : db.task[d] # "absent"
    BY <1>1 DEF TaskCreate
  <2>2. /\ Onward(db, db') /\ Calm(db, db')
        /\ db'.task = [db.task EXCEPT ![t] = IF D = {} THEN "ready" ELSE "pending"]
        /\ db'.deps = [db.deps EXCEPT ![t] = D]
    BY <1>0, <2>1, CreateTaskStep
  <2>3. ASSUME NEW u \in Tasks, db.task[u] \in Unreleased, u \notin cleared'
        PROVE  db'.task[u] \in Unreleased
    <3>1. CASE u # t
      BY <1>0, <2>2, <2>3, <3>1, TablesType
    <3>2. CASE u = t /\ D # {}
      BY <1>0, <2>2, <3>2, TablesType DEF Unreleased
    <3>3. CASE u = t /\ D = {}
      <4>1. db'.task[t] = "ready" /\ db'.deps[t] = {}
        BY <1>0, <2>2, <3>3, TablesType
      <4>2. HasRow(db', u) /\ DepsCompleted(db', u)
        BY <3>3, <4>1 DEF HasRow, DepsCompleted
      <4> QED
        BY <2>1, <2>3, <4>2, ClearFacts
    <3> QED
      BY <3>1, <3>2, <3>3
  <2>4. W
    BY <2>3 DEF Stays
  <2> QED
    BY <1>a, <1>c, <2>1, <2>2, <2>4
<1>2. ASSUME NEW t \in Tasks, NEW s \in OverrideTo, TaskUpdate(t, s) PROVE G
  <2>1. Clear({t}) /\ s \in TaskStatus \ {"pending"}
    BY <1>2, LifecycleAssumption DEF TaskUpdate
  <2> QED
    BY <1>2, <1>c, <2>1, TaskUpdateFollows
<1>3. ASSUME NEW t \in Tasks, NEW h \in Handles, NEW inject \in BOOLEAN, NEW p \in KeysOf[h],
             Dispatch(t, h, p, inject)
      PROVE  G
  <2>1. p \in Panes /\ db.task[t] = "ready" /\ db' = CreateDispatchContext(db, t, h, p)
        /\ Clear({})
    BY <1>3, LifecycleAssumption DEF Dispatch, MayDispatch
  <2>2. Onward(db, db') /\ Calm(db, db')
    BY <1>0, <2>1, CreateDispatchStep
  <2>3. SomeDispatch
    BY <1>3 DEF SomeDispatch
  <2> QED
    BY <1>a, <1>c, <2>1, <2>2, <2>3
<1>4. ASSUME NEW c \in sending, PromptDelivered(c) PROVE G
  BY <1>4, <1>d DEF PromptDelivered
<1>4a. ASSUME NEW c \in sending, PromptRefused(c) PROVE G
  <2>1. c \in DOMAIN db.ctx /\ db' = FailDispatch(db, c) /\ Clear({})
    BY <1>4a DEF PromptRefused, TypeOK
  <2> QED
    BY <1>c, <2>1, FailFollows
<1>5. ASSUME NEW t \in Tasks, GateCreate(t) PROVE G
  <2>1. db.task[t] # "absent" /\ db' = CreateGate(db, t) /\ Clear({})
    BY <1>5 DEF GateCreate
  <2> QED
    BY <1>0, <1>a, <1>b, <1>c, <2>1, CreateGateStep
<1>6. ASSUME NEW t \in Tasks, Escalate(t) PROVE G
  <2>1. Clear({})
    BY <1>6 DEF Escalate
  <2> QED
    BY <1>6, <1>c, <2>1, EscalateFollows
<1>7. ASSUME NEW g \in DOMAIN db.gate, GateResolve(g) PROVE G
  <2>0. db' = ResolveGate(db, g) /\ Clear({db.gate[g].task})
    BY <1>7 DEF GateResolve
  <2>1. db.gate[g].task \in Tasks /\ db.gate[g].task \in Owners(db)
    BY <1>0, TablesType DEF GateRow, Owners
  <2>2. Writes(db, db', db.gate[g].task, {"ready"})
    BY <1>0, <2>0, ResolveGateWrites
  <2>3. db.task[db.gate[g].task] # "pending"
    BY <2>1, OwnerDoesNotWait
  <2>4. "completed" \notin {"ready"} /\ {"ready"} \cap {"absent", "pending"} = {}
    OBVIOUS
  <2>5. db.gate[g].task \in cleared'
    BY <2>0, ClearFacts
  <2> QED
    BY <1>c, <2>0, <2>1, <2>2, <2>3, <2>4, <2>5, WritesFollows
<1>8. ASSUME Reblock PROVE G
  <2>1. db' = BlockGated(db) /\ Clear({})
    BY <1>8 DEF Reblock
  <2> QED
    BY <1>0, <1>a, <1>b, <1>c, <2>1, BlockGatedStep
<1>9. ASSUME NEW t \in Tasks, NEW c \in DOMAIN db.ctx, NEW h \in Handles, NEW p \in Panes,
             WorkerDone(t, c, h, p)
      PROVE  G
  <2>0. Clear({})
    BY <1>9 DEF WorkerDone
  <2>1. CASE db' = db
    BY <1>c, <1>d, <2>0, <2>1
  <2>2. CASE db' # db
    <3>1. HasRow(db, t) /\ db' = UpdateTaskStatus(db, t, "completed") /\ db.task[t] = "dispatched"
      BY <1>9, <2>2 DEF WorkerDone, ReconcileWorkerDone, AcceptsWorkerDone
    <3>2. db.task[t] \notin Unreleased
      BY <3>1 DEF Unreleased
    <3> QED
      BY <1>c, <2>0, <3>1, <3>2, CompletionStays
  <2> QED
    BY <2>1, <2>2
<1>10. ASSUME NEW h \in Handles, TerminalExit(h) PROVE G
  <2>1. Clear({})
    BY <1>10 DEF TerminalExit
  <2> QED
    BY <1>10, <1>c, <2>1, FailFollows DEF TerminalExit
<1>11. ASSUME Reset PROVE G
  <2>1. db' = ResetTasks(db) /\ Clear({})
    BY <1>11 DEF Reset
  <2> QED
    BY <1>0, <1>a, <1>b, <1>c, <2>1, ResetTasksStep
<1>12. ASSUME UNCHANGED vars PROVE G
  BY <1>12, <1>d DEF vars
<1> QED
  BY <1>1, <1>2, <1>3, <1>4, <1>4a, <1>5, <1>6, <1>7, <1>8, <1>9, <1>10, <1>11, <1>12 DEF Next

\* No step gives a task that was never released a dispatch, nor puts it out.
LEMMA NextUnreleased ==
    ASSUME TypeOK, Fresh(db), UnreleasedHasNone, [Next]_vars, "pending" \notin OverrideTo
    PROVE  UnreleasedHasNone'
<1>0. cleared \subseteq cleared' /\ DOMAIN db.ctx = 1 .. Len(db.ctx) /\ Len(db.ctx) \in Nat
  BY StepFollows, TablesType DEF TypeOK
<1>1. CASE Quiet
  <2>1. ~SomeDispatch
    <3>1. SomeDispatch => Len(db'.ctx) = Len(db.ctx) + 1
      BY DispatchFacts DEF SomeDispatch
    <3> QED
      BY <1>0, <1>1, <3>1 DEF Quiet, Orderly, EndsOnly
  <2>2. \A u \in Tasks : Stays(u)
    BY <2>1, StepFollows
  <2>3. DOMAIN db'.ctx = DOMAIN db.ctx /\ \A c \in DOMAIN db.ctx : db'.ctx[c].task = db.ctx[c].task
    BY <1>0, <1>1, TablesType DEF Quiet, Orderly, EndsOnly
  <2> QED
    BY <1>0, <2>2, <2>3 DEF UnreleasedHasNone, Stays
<1>2. ASSUME NEW t \in Tasks, NEW h \in Handles, NEW inject \in BOOLEAN,
             NEW p \in KeysOf[h], Dispatch(t, h, p, inject)
      PROVE  UnreleasedHasNone'
  <2>1. p \in Panes /\ db.task[t] = "ready" /\ db' = CreateDispatchContext(db, t, h, p)
        /\ db \in Tables
    BY <1>2, LifecycleAssumption DEF Dispatch, MayDispatch, TypeOK
  <2>2. t \in cleared'
    BY <1>0, <2>1 DEF UnreleasedHasNone, Unreleased
  <2>3. Grants(db, db', t, h, p)
    BY <2>1, CreateDispatchGrants, Zenon
  <2>4. /\ DOMAIN db'.ctx = 1 .. (Len(db.ctx) + 1)
        /\ db'.task = [db.task EXCEPT ![t] = "dispatched"]
    BY <2>3, TablesType DEF Grants
  <2>5. \A c \in DOMAIN db'.ctx : c \in DOMAIN db.ctx \/ c = Len(db.ctx) + 1
    BY <1>0, <2>4
  <2>6. \A c \in DOMAIN db'.ctx : db'.ctx[c].task = t \/ (c \in DOMAIN db.ctx /\ db'.ctx[c] = db.ctx[c])
    BY <2>3, <2>5 DEF Grants
  <2>7. \A u \in Tasks : u # t => db'.task[u] = db.task[u]
    BY <2>1, <2>4, TablesType
  <2> QED
    BY <1>0, <2>2, <2>6, <2>7 DEF UnreleasedHasNone
<1> QED
  BY <1>1, <1>2, StepIsQuietOrDispatch DEF SomeDispatch

\* Every operation but Dispatch keeps every task.
LEMMA StepKeepsOrDispatch ==
    ASSUME TypeOK, [Next]_vars, "dispatched" \notin OverrideTo
    PROVE  AllKept(db, db') \/ SomeDispatch
  <1> USE DEF TypeOK
  <1>1. ASSUME NEW t \in Tasks, NEW D \in SUBSET Tasks, TaskCreate(t, D)
        PROVE  AllKept(db, db')
    <2> DEFINE s == IF D = {} THEN "ready" ELSE "pending"
    <2>1. s # "dispatched"
      OBVIOUS
    <2>2. db' = [db EXCEPT !.task[t] = s, !.deps[t] = D]
      BY <1>1 DEF TaskCreate, CreateTask
    <2> HIDE DEF s
    <2>3. db'.ctx = db.ctx /\ db'.task = [db.task EXCEPT ![t] = s]
      BY <2>2 DEF Tables
    <2>4. \A u \in Tasks : db'.task[u] = "dispatched" => db.task[u] = "dispatched"
      BY <2>1, <2>3, TablesType
    <2> QED
      BY <2>3, <2>4, SameContextsKept
  <1>2. ASSUME NEW t \in Tasks, NEW s \in OverrideTo, TaskUpdate(t, s)
        PROVE  AllKept(db, db')
    BY <1>2, UpdateTaskStatusKeeps, LifecycleAssumption DEF TaskUpdate
  <1>3. ASSUME NEW c \in sending, PromptDelivered(c)
        PROVE  AllKept(db, db')
    BY <1>3 DEF PromptDelivered, AllKept, Kept
  <1>4. ASSUME NEW c \in sending, PromptRefused(c)
        PROVE  AllKept(db, db')
    BY <1>4, FailDispatchKeeps DEF PromptRefused
  <1>5. ASSUME NEW t \in Tasks, GateCreate(t)
        PROVE  AllKept(db, db')
    BY <1>5, CreateGateKeeps DEF GateCreate
  <1>6. ASSUME NEW t \in Tasks, Escalate(t)
        PROVE  AllKept(db, db')
    <2>1. Newest(ContextsOf(db, t)) \in DOMAIN db.ctx
      BY <1>6, NewestContextExists DEF Escalate
    <2>2. FailDispatch(db, Newest(ContextsOf(db, t))) \in Tables
      BY <2>1, FailDispatchOrderly DEF Orderly
    <2>3. AllKept(db, FailDispatch(db, Newest(ContextsOf(db, t))))
      BY <2>1, FailDispatchKeeps
    <2> QED
      BY <1>6, <2>2, <2>3, BlockGatedKeeps, AllKeptCompose DEF Escalate
  <1>7. ASSUME NEW g \in DOMAIN db.gate, GateResolve(g)
        PROVE  AllKept(db, db')
    BY <1>7, ResolveGateKeeps DEF GateResolve
  <1>8. ASSUME Reblock
        PROVE  AllKept(db, db')
    BY <1>8, BlockGatedKeeps DEF Reblock
  <1>9. ASSUME NEW t \in Tasks, NEW c \in DOMAIN db.ctx, NEW h \in Handles, NEW p \in Panes,
               WorkerDone(t, c, h, p)
        PROVE  AllKept(db, db')
    <2>1. "completed" \in TaskStatus
      BY DEF TaskStatus
    <2>2. db' = db \/ db' = UpdateTaskStatus(db, t, "completed")
      BY <1>9 DEF WorkerDone, ReconcileWorkerDone
    <2>3. CASE db' = db
      BY <2>3 DEF AllKept, Kept
    <2> QED
      BY <2>1, <2>2, <2>3, UpdateTaskStatusKeeps
  <1>10. ASSUME NEW h \in Handles, TerminalExit(h)
         PROVE  AllKept(db, db')
    BY <1>10, FailDispatchKeeps DEF TerminalExit
  <1>11. ASSUME Reset
         PROVE  AllKept(db, db')
    BY <1>11, ResetTasksKeeps DEF Reset
  <1>12. ASSUME UNCHANGED vars
         PROVE  AllKept(db, db')
    BY <1>12 DEF vars, AllKept, Kept
  <1> QED
    BY <1>1, <1>2, <1>3, <1>4, <1>5, <1>6, <1>7, <1>8, <1>9, <1>10, <1>11, <1>12
       DEF Next, SomeDispatch

\* Only a task that is ready is handed out.
LEMMA HandedOutWasReady ==
    ASSUME TypeOK, [Next]_vars, "dispatched" \notin OverrideTo, NEW t \in Tasks,
           db.task[t] # "dispatched", db'.task[t] = "dispatched"
    PROVE  db.task[t] = "ready"
<1>1. CASE AllKept(db, db')
  BY <1>1 DEF AllKept, Kept
<1>2. ASSUME NEW u \in Tasks, NEW h \in Handles, NEW inject \in BOOLEAN,
             NEW p \in KeysOf[h], Dispatch(u, h, p, inject)
      PROVE  db.task[t] = "ready"
  <2>1. p \in Panes /\ db.task[u] = "ready" /\ db' = CreateDispatchContext(db, u, h, p)
        /\ db \in Tables
    BY <1>2, LifecycleAssumption DEF Dispatch, MayDispatch, TypeOK
  <2>2. Grants(db, db', u, h, p)
    BY <2>1, CreateDispatchGrants, Zenon
  <2>3. db'.task = [db.task EXCEPT ![u] = "dispatched"]
    BY <2>2 DEF Grants
  <2> QED
    BY <2>1, <2>3, TablesType
<1> QED
  BY <1>1, <1>2, StepKeepsOrDispatch DEF SomeDispatch

\* The tables of a run have only fresh waiting tasks.
FreshTables == Fresh(db)

\* promoteReadyTasks: the completion of the last dependency, by a report or by hand,
\* releases the task at once, and no task is handed out before its dependencies were
\* all completed at one time, unless its status was set by hand or a gate on it was
\* resolved: failed dispatches, escalations and late refusals release only what was
\* released before.  As long as nobody writes "pending" or "dispatched" by hand.
THEOREM PromotionFollows ==
    ASSUME {"pending", "dispatched"} \cap OverrideTo = {}
    PROVE  Spec => PromotionFollowsDeps
<1> DEFINE Step ==
      \A t \in Tasks :
          /\ db.task[t] = "pending" /\ ~DepsCompleted(db, t) /\ DepsCompleted(db', t)
                => db'.task[t] = "ready"
          /\ db.task[t] # "dispatched" /\ db'.task[t] = "dispatched" => t \in cleared
<1>0. "pending" \notin OverrideTo /\ "dispatched" \notin OverrideTo
  OBVIOUS
<1>1. Init => FreshTables /\ UnreleasedHasNone
  BY DEF Init, EmptyTables, FreshTables, Fresh, Owners, UnreleasedHasNone, Unreleased
<1>2. TypeOK /\ FreshTables /\ UnreleasedHasNone /\ [Next]_vars
        => FreshTables' /\ UnreleasedHasNone'
  BY <1>0, StepFollows, NextUnreleased, OnwardFresh DEF FreshTables
<1>3. TypeOK /\ FreshTables /\ UnreleasedHasNone /\ [Next]_vars => [Step]_vars
  <2> SUFFICES ASSUME TypeOK, FreshTables, UnreleasedHasNone, [Next]_vars, NEW t \in Tasks
               PROVE  /\ Follows(t)
                      /\ db.task[t] # "dispatched" /\ db'.task[t] = "dispatched"
                            => t \in cleared
    BY DEF Follows
  <2>1. Follows(t)
    BY <1>0, StepFollows DEF FreshTables
  <2>2. ASSUME db.task[t] # "dispatched", db'.task[t] = "dispatched"
        PROVE  t \in cleared
    BY <1>0, <2>2, HandedOutWasReady DEF UnreleasedHasNone, Unreleased
  <2> QED
    BY <2>1, <2>2
<1> QED
  BY <1>1, <1>2, <1>3, InitType, NextType, PTL DEF Spec, PromotionFollowsDeps

-----------------------------------------------------------------------------
(* No task is left out without an active dispatch. *)

\* A step never leaves a task out without an owner.
LEMMA NextHasWorker ==
    ASSUME TypeOK, DispatchedHasWorker, [Next]_vars, "dispatched" \notin OverrideTo
    PROVE  DispatchedHasWorker'
  <1>1. DOMAIN db.ctx = 1 .. Len(db.ctx) /\ Len(db.ctx) \in Nat /\ db \in Tables
    BY TablesType DEF TypeOK
  <1>2. CASE AllKept(db, db')
    <2> SUFFICES ASSUME NEW t \in Tasks, db'.task[t] = "dispatched"
                 PROVE  /\ ContextsOf(db', t) # {}
                        /\ IsActive(db', Newest(ContextsOf(db', t)))
      BY DEF DispatchedHasWorker
    <2>1. /\ ContextsOf(db', t) = ContextsOf(db, t)
          /\ ContextsOf(db, t) # {}
          /\ IsActive(db, Newest(ContextsOf(db, t)))
          /\ \A c \in ContextsOf(db, t) : IsActive(db, c) => IsActive(db', c)
      BY <1>2 DEF AllKept, Kept, DispatchedHasWorker
    <2>2. ContextsOf(db, t) \in SUBSET (1 .. Len(db.ctx))
      BY <1>1 DEF ContextsOf
    <2>3. Newest(ContextsOf(db, t)) \in ContextsOf(db, t)
      BY <1>1, <2>1, <2>2, NewestIsLast
    <2> QED
      BY <2>1, <2>3
  <1>3. ASSUME NEW t \in Tasks, NEW h \in Handles, NEW inject \in BOOLEAN,
               NEW p \in KeysOf[h], Dispatch(t, h, p, inject)
        PROVE  DispatchedHasWorker'
    <2> DEFINE n == Len(db.ctx) + 1
    <2>1. p \in Panes /\ db' = CreateDispatchContext(db, t, h, p)
      BY <1>3, LifecycleAssumption DEF Dispatch
    <2>2. Grants(db, db', t, h, p)
      BY <1>1, <2>1, CreateDispatchGrants, Zenon
    <2>3. /\ DOMAIN db'.ctx = 1 .. n /\ n \in Nat
          /\ \A c \in 1 .. n : c = n \/ c \in DOMAIN db.ctx
          /\ \A c \in DOMAIN db.ctx : c \in 1 .. n /\ c < n
          /\ n \in 1 .. n
      BY <1>1, <2>2, TablesType DEF Grants
    <2>4. /\ \A c \in DOMAIN db.ctx : db'.ctx[c] = db.ctx[c]
          /\ db'.ctx[n].task = t /\ db'.ctx[n].status = "dispatched"
          /\ db'.task = [db.task EXCEPT ![t] = "dispatched"]
      BY <2>2 DEF Grants
    <2> HIDE DEF n
    <2> SUFFICES ASSUME NEW u \in Tasks, db'.task[u] = "dispatched"
                 PROVE  /\ ContextsOf(db', u) # {}
                        /\ IsActive(db', Newest(ContextsOf(db', u)))
      BY DEF DispatchedHasWorker
    <2>5. CASE u = t
      <3>1. n \in ContextsOf(db', t) /\ ContextsOf(db', t) \in SUBSET (1 .. n)
        BY <2>3, <2>4 DEF ContextsOf
      <3>2. /\ Newest(ContextsOf(db', t)) \in 1 .. n
            /\ n =< Newest(ContextsOf(db', t))
        BY <2>3, <3>1, NewestIsLast
      <3>3. Newest(ContextsOf(db', t)) = n
        BY <2>3, <3>2
      <3> QED
        BY <2>4, <2>5, <3>1, <3>3 DEF IsActive
    <2>6. CASE u # t
      <3>1. ContextsOf(db', u) = ContextsOf(db, u)
        BY <2>3, <2>4, <2>6 DEF ContextsOf
      <3>2. db.task[u] = "dispatched"
        BY <1>1, <2>4, <2>6, TablesType
      <3>3. ContextsOf(db, u) # {} /\ IsActive(db, Newest(ContextsOf(db, u)))
        BY <3>2 DEF DispatchedHasWorker
      <3>4. ContextsOf(db, u) \in SUBSET (1 .. Len(db.ctx))
        BY <1>1 DEF ContextsOf
      <3>5. Newest(ContextsOf(db, u)) \in DOMAIN db.ctx
        BY <1>1, <3>3, <3>4, NewestIsLast
      <3> QED
        BY <2>4, <3>1, <3>3, <3>5 DEF IsActive
    <2> QED
      BY <2>5, <2>6
  <1> QED
    BY <1>2, <1>3, StepKeepsOrDispatch DEF SomeDispatch

\* No task is lost in "dispatched": its newest dispatch is active, whoever ended,
\* gated, failed or retried what, as long as nobody writes "dispatched" by hand.
THEOREM TaskHasWorker ==
    ASSUME "dispatched" \notin OverrideTo
    PROVE  Spec => []DispatchedHasWorker
  <1>1. Init => DispatchedHasWorker
    BY DEF Init, EmptyTables, DispatchedHasWorker
  <1>2. TypeOK /\ DispatchedHasWorker /\ [Next]_vars => DispatchedHasWorker'
    BY NextHasWorker
  <1> QED
    BY <1>1, <1>2, InitType, NextType, PTL DEF Spec

=============================================================================
