--------------------------- MODULE OrchestrationDb ---------------------------
(***************************************************************************)
(* The three tables of the orchestration database that carry the dispatch  *)
(* protocol (src/main/runtime/orchestration/db.ts), as one record:         *)
(*                                                                         *)
(*   task  the status column of every task id, "absent" before the row is  *)
(*         inserted and "deleted" once a reset removed it (ids are random  *)
(*         and never reused)                                               *)
(*   deps  the dependency ids of every task                                *)
(*   ctx   dispatch_contexts in rowid order: a dispatch id is an index     *)
(*   gate  decision_gates in insertion order: a gate id is an index        *)
(*                                                                         *)
(* The database is synchronous (better-sqlite3) and JavaScript is single   *)
(* threaded, so each method below is one indivisible function of the       *)
(* tables.  The machines that call the methods are in other modules.       *)
(* Specs, titles, results, timestamps and the dispatch status "pending",   *)
(* which no statement ever writes, are left out.                           *)
(***************************************************************************)
EXTENDS Naturals, Sequences

CONSTANTS
    Tasks,      \* task ids
    Handles,    \* terminal handles: routing names, reissued after a restart
    PaneKeys,   \* pane keys "tab:leaf"; the tab half changes on break-out
    NoPane,     \* the pane key of a handle whose pane cannot be resolved
    LeafOf,     \* the leaf half of a pane key
    NoLeaf      \* the leaf of a key that does not parse

ASSUME PaneAssumption ==
    /\ NoPane \notin PaneKeys
    /\ DOMAIN LeafOf = PaneKeys

TaskStatus     == {"pending", "ready", "dispatched", "completed", "failed", "blocked"}
DispatchStatus == {"dispatched", "completed", "failed", "circuit_broken"}
Panes          == PaneKeys \cup {NoPane}

\* The failure count at which failDispatch breaks the circuit.
CircuitLimit == 3

DispatchRow == [task     : Tasks,
                handle   : Handles,
                pane     : Panes,
                status   : DispatchStatus \cup {"deleted"},
                failures : Nat]

GateRow == [task : Tasks, status : {"pending", "resolved", "deleted"}]

Tables == [task : [Tasks -> TaskStatus \cup {"absent", "deleted"}],
           deps : [Tasks -> SUBSET Tasks],
           ctx  : Seq(DispatchRow),
           gate : Seq(GateRow)]

EmptyTables == [task |-> [t \in Tasks |-> "absent"],
                deps |-> [t \in Tasks |-> {}],
                ctx  |-> << >>,
                gate |-> << >>]

-----------------------------------------------------------------------------
(* Queries. *)

HasRow(db, t) == db.task[t] \notin {"absent", "deleted"}

IsActive(db, c) == db.ctx[c].status = "dispatched"

ContextsOf(db, t) ==
    {c \in DOMAIN db.ctx : db.ctx[c].task = t /\ db.ctx[c].status # "deleted"}

\* ORDER BY rowid DESC LIMIT 1
Newest(S) == CHOOSE c \in S : \A d \in S : d =< c

\* Mutant of PriorFailures: a new context starts from zero.
NoPriorFailures(db, t) == 0

\* MAX(failure_count) over the contexts of t, 0 when there is none.
PriorFailures(db, t) ==
    IF ContextsOf(db, t) = {}
    THEN 0
    ELSE LET counts == {db.ctx[c].failures : c \in ContextsOf(db, t)}
         IN  CHOOSE n \in counts : \A m \in counts : m =< n

\* Two keys of one pane: equal, or sharing a leaf that parses.
SamePane(a, b) == a = b \/ (LeafOf[a] # NoLeaf /\ LeafOf[a] = LeafOf[b])

\* An active dispatch already holds the handle or the pane behind it.
Conflicts(row, h, p) ==
    \/ row.handle = h
    \/ p # NoPane /\ row.pane # NoPane /\ SamePane(row.pane, p)

\* Mutant of TerminalBusy: the lock as it was before panes, by handle only.
TerminalBusyByHandle(db, h, p) ==
    \E c \in DOMAIN db.ctx : IsActive(db, c) /\ db.ctx[c].handle = h

TerminalBusy(db, h, p) ==
    \E c \in DOMAIN db.ctx : IsActive(db, c) /\ Conflicts(db.ctx[c], h, p)

-----------------------------------------------------------------------------
(* Statements. *)

SetTask(db, t, s) ==
    IF HasRow(db, t) THEN [db EXCEPT !.task[t] = s] ELSE db

CreateTask(db, t, D) ==
    [db EXCEPT !.task[t] = IF D = {} THEN "ready" ELSE "pending",
               !.deps[t] = D]

CompleteActiveDispatchForTask(db, t) ==
    LET active == {c \in ContextsOf(db, t) : IsActive(db, c)}
    IN  IF active = {}
        THEN db
        ELSE [db EXCEPT !.ctx[Newest(active)].status = "completed"]

PromoteReadyTasks(db, done) ==
    [db EXCEPT !.task = [t \in Tasks |->
        IF /\ db.task[t] = "pending"
           /\ done \in db.deps[t]
           /\ \A d \in db.deps[t] : db.task[d] = "completed"
        THEN "ready"
        ELSE db.task[t]]]

\* Mutant of UpdateTaskStatus: promotion runs before the status is written.
PromoteThenUpdate(db, t, s) ==
    IF s = "completed"
    THEN CompleteActiveDispatchForTask(SetTask(PromoteReadyTasks(db, t), t, s), t)
    ELSE SetTask(db, t, s)

UpdateTaskStatus(db, t, s) ==
    IF s = "completed"
    THEN CompleteActiveDispatchForTask(PromoteReadyTasks(SetTask(db, t, s), t), t)
    ELSE SetTask(db, t, s)

\* createDispatchContext throws unless this holds.
MayDispatch(db, t, h, p) ==
    /\ db.task[t] = "ready"
    /\ ~TerminalBusy(db, h, p)

CreateDispatchContext(db, t, h, p) ==
    [db EXCEPT !.task[t] = "dispatched",
               !.ctx = Append(@, [task     |-> t,
                                  handle   |-> h,
                                  pane     |-> p,
                                  status   |-> "dispatched",
                                  failures |-> PriorFailures(db, t)])]

\* Mutant of FailDispatch: the task row is left alone.
FailDispatchKeepsTask(db, c) ==
    IF db.ctx[c].status = "deleted"
    THEN db
    ELSE [db EXCEPT !.ctx[c].status = "failed", !.ctx[c].failures = @ + 1]

\* Mutant of FailDispatch: a retry reuses the context instead of leaving it failed.
FailDispatchRetriesInPlace(db, c) ==
    IF db.ctx[c].status = "deleted"
    THEN db
    ELSE [db EXCEPT !.ctx[c].status = "dispatched", !.ctx[c].failures = @ + 1]

\* Whatever the status of the context and of its task: no guard but existence.
FailDispatch(db, c) ==
    LET row    == db.ctx[c]
        broken == row.failures + 1 >= CircuitLimit
    IN  IF row.status = "deleted"
        THEN db
        ELSE SetTask([db EXCEPT !.ctx[c].status = IF broken THEN "circuit_broken" ELSE "failed",
                                !.ctx[c].failures = row.failures + 1],
                     row.task,
                     IF broken THEN "failed" ELSE "ready")

\* Mutant of CreateGate: the dispatch stays active while its task waits.
CreateGateKeepsDispatch(db, t) ==
    SetTask([db EXCEPT !.gate = Append(@, [task |-> t, status |-> "pending"])], t, "blocked")

CreateGate(db, t) ==
    SetTask(CompleteActiveDispatchForTask(
                [db EXCEPT !.gate = Append(@, [task |-> t, status |-> "pending"])], t),
            t, "blocked")

ResolveGate(db, g) ==
    IF db.gate[g].status = "deleted"
    THEN db
    ELSE SetTask([db EXCEPT !.gate[g].status = "resolved"], db.gate[g].task, "ready")

\* Mutant of BlockGated: pending gates are left to createGate.
LeaveGatedAlone(db) == db

\* The loop's processDecisionGates: every task with a pending gate is blocked.
BlockGated(db) ==
    LET pending == {g \in DOMAIN db.gate : db.gate[g].status = "pending"}
        gated   == {db.gate[g].task : g \in pending}
    IN  [db EXCEPT !.task = [t \in Tasks |->
            IF t \in gated /\ HasRow(db, t) THEN "blocked" ELSE db.task[t]]]

\* Mutant of ResetTasks: dispatch ids start over, as rowids would.
ResetTasksReusesIds(db) ==
    [db EXCEPT !.task = [t \in Tasks |-> IF HasRow(db, t) THEN "deleted" ELSE db.task[t]],
               !.ctx  = << >>,
               !.gate = << >>]

ResetTasks(db) ==
    [db EXCEPT !.task = [t \in Tasks |-> IF HasRow(db, t) THEN "deleted" ELSE db.task[t]],
               !.ctx  = [c \in DOMAIN db.ctx |-> [db.ctx[c] EXCEPT !.status = "deleted"]],
               !.gate = [g \in DOMAIN db.gate |-> [db.gate[g] EXCEPT !.status = "deleted"]]]

-----------------------------------------------------------------------------
(* Reconciliation of a worker_done message (lifecycle-reconciliation.ts).   *)

\* The pane identity recorded at dispatch decides; a dispatch recorded without
\* one falls back on the handle.
HasLifecycleAuthority(row, h, p) ==
    IF row.pane # NoPane
    THEN p # NoPane /\ SamePane(row.pane, p)
    ELSE row.handle = h

\* Mutant of AcceptsWorkerDone: the dispatch need not be the newest of its task.
AcceptsEarlierDispatch(db, t, c, h, p) ==
    /\ HasRow(db, t)
    /\ db.ctx[c].task = t
    /\ HasLifecycleAuthority(db.ctx[c], h, p)
    /\ IsActive(db, c)
    /\ db.task[t] = "dispatched"

\* Sender (h, p) reports that dispatch c finished task t, and is believed.
AcceptsWorkerDone(db, t, c, h, p) ==
    /\ HasRow(db, t)
    /\ db.ctx[c].task = t
    /\ HasLifecycleAuthority(db.ctx[c], h, p)
    /\ IsActive(db, c)
    /\ c = Newest(ContextsOf(db, t))
    /\ db.task[t] = "dispatched"

ReconcileWorkerDone(db, t, c, h, p) ==
    IF AcceptsWorkerDone(db, t, c, h, p)
    THEN UpdateTaskStatus(db, t, "completed")
    ELSE db

=============================================================================
