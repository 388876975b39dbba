-------------------------- MODULE DispatchLifecycle --------------------------
(***************************************************************************)
(* Every operation of the runtime that writes the task, dispatch and gate  *)
(* tables, in any order its callers may produce: the orchestration.* RPC   *)
(* handlers (operators and coordinating agents), the worker's own reports, *)
(* the exit of a terminal, and what the coordinator loop does to the       *)
(* tables.  The one thing that spans two turns of the event loop is the    *)
(* delivery of a prompt: `dispatch --inject` creates the context, awaits   *)
(* sendTerminalAgentPrompt (about half a second of PTY writes) and fails   *)
(* the context if the write was refused, whatever happened meanwhile.      *)
(***************************************************************************)
EXTENDS OrchestrationDb

CONSTANTS
    KeysOf,         \* handle -> the pane keys getTerminalPaneKey may answer
    OverrideTo,     \* the statuses operators pass to task-update
    MaxDispatches,  \* bound: dispatch contexts ever created
    MaxGates,       \* bound: gates ever created
    MaxFailures     \* bound: failures counted on one context

ASSUME LifecycleAssumption ==
    /\ KeysOf \in [Handles -> SUBSET Panes]
    /\ OverrideTo \subseteq TaskStatus

VARIABLES
    db,         \* the tables
    sending,    \* dispatch ids whose prompt is still being written
    cleared     \* history: tasks that somebody or the end of their dependencies released

vars == <<db, sending, cleared>>

TypeOK ==
    /\ db \in Tables
    /\ sending \subseteq DOMAIN db.ctx
    /\ cleared \subseteq Tasks

Init ==
    /\ db = EmptyTables
    /\ sending = {}
    /\ cleared = {}

DepsCompleted(tables, t) == \A d \in tables.deps[t] : tables.task[d] = "completed"

\* The step leaves the dependencies of these tasks completed, or decides about S.
Clear(S) ==
    cleared' = cleared \cup S \cup {t \in Tasks : HasRow(db', t) /\ DepsCompleted(db', t)}

-----------------------------------------------------------------------------
(* Operators and coordinating agents, over RPC. *)

\* orchestration.taskCreate: dependency ids are not validated, but a caller can
\* only name an id it was given.
TaskCreate(t, D) ==
    /\ db.task[t] = "absent"
    /\ \A d \in D : db.task[d] # "absent"
    /\ db' = CreateTask(db, t, D)
    /\ UNCHANGED sending
    /\ Clear({})

\* orchestration.taskUpdate
TaskUpdate(t, s) ==
    /\ HasRow(db, t)
    /\ db' = UpdateTaskStatus(db, t, s)
    /\ UNCHANGED sending
    /\ Clear({t})

\* orchestration.dispatch, or the coordinator's dispatchTask, up to the await.
Dispatch(t, h, p, inject) ==
    /\ Len(db.ctx) < MaxDispatches
    /\ MayDispatch(db, t, h, p)
    /\ db' = CreateDispatchContext(db, t, h, p)
    /\ sending' = IF inject THEN sending \cup {Len(db.ctx) + 1} ELSE sending
    /\ Clear({})

PromptDelivered(c) ==
    /\ c \in sending
    /\ sending' = sending \ {c}
    /\ UNCHANGED <<db, cleared>>

\* The await rejected: the terminal would not take the prompt.
PromptRefused(c) ==
    /\ c \in sending
    /\ db.ctx[c].failures < MaxFailures
    /\ sending' = sending \ {c}
    /\ db' = FailDispatch(db, c)
    /\ Clear({})

\* orchestration.gateCreate, or a decision_gate message the loop handles.  The task may
\* be gone; a caller can only name an id it was given.
GateCreate(t) ==
    /\ Len(db.gate) < MaxGates
    /\ db.task[t] # "absent"
    /\ db' = CreateGate(db, t)
    /\ UNCHANGED sending
    /\ Clear({})

\* orchestration.gateResolve: also for a gate that was resolved before.
GateResolve(g) ==
    /\ db' = ResolveGate(db, g)
    /\ UNCHANGED sending
    /\ Clear({db.gate[g].task})

\* orchestration.reset --tasks or --all
Reset ==
    /\ db' = ResetTasks(db)
    /\ UNCHANGED sending
    /\ Clear({})

-----------------------------------------------------------------------------
(* Workers and their terminals. *)

\* A worker_done message naming task t and dispatch c, when it is sent and again
\* whenever an unread copy of it is read: from any handle and pane.
WorkerDone(t, c, h, p) ==
    /\ db' = ReconcileWorkerDone(db, t, c, h, p)
    /\ UNCHANGED sending
    /\ Clear({})

\* The PTY behind h exits: failActiveDispatchOnExit.
TerminalExit(h) ==
    \E c \in DOMAIN db.ctx :
        /\ IsActive(db, c)
        /\ db.ctx[c].handle = h
        /\ db.ctx[c].failures < MaxFailures
        /\ db' = FailDispatch(db, c)
        /\ UNCHANGED sending
        /\ Clear({})

-----------------------------------------------------------------------------
(* The coordinator loop: the first part of a tick, which handles the unread messages  *)
(* and blocks the gated tasks in one turn.  A tick that reads several messages is one  *)
(* of these steps for each: that gated tasks are blocked in between changes nothing,   *)
(* for they are blocked at the end and a message writes its task whatever its status.  *)

\* handleEscalation, then processDecisionGates: the newest context of t is failed,
\* whatever its status, and every task with a pending gate is blocked again.
Escalate(t) ==
    LET c == Newest(ContextsOf(db, t))
    IN  /\ HasRow(db, t)
        /\ db.task[t] \notin {"completed", "failed"}
        /\ ContextsOf(db, t) # {}
        /\ db.ctx[c].failures < MaxFailures
        /\ db' = BlockGated(FailDispatch(db, c))
        /\ UNCHANGED sending
        /\ Clear({})

\* processDecisionGates of a tick that has nothing to read.
Reblock ==
    /\ db' = BlockGated(db)
    /\ UNCHANGED sending
    /\ Clear({})

Next ==
    \/ \E t \in Tasks, D \in SUBSET Tasks : TaskCreate(t, D)
    \/ \E t \in Tasks, s \in OverrideTo : TaskUpdate(t, s)
    \/ \E t \in Tasks, h \in Handles, inject \in BOOLEAN :
           \E p \in KeysOf[h] : Dispatch(t, h, p, inject)
    \/ \E c \in sending : PromptDelivered(c) \/ PromptRefused(c)
    \/ \E t \in Tasks : GateCreate(t) \/ Escalate(t)
    \/ \E g \in DOMAIN db.gate : GateResolve(g)
    \/ Reblock
    \/ \E t \in Tasks, c \in DOMAIN db.ctx, h \in Handles, p \in Panes : WorkerDone(t, c, h, p)
    \/ \E h \in Handles : TerminalExit(h)
    \/ Reset

Spec == Init /\ [][Next]_vars

-----------------------------------------------------------------------------
(* What holds in every order of these operations. *)

\* The dispatch lock: two active dispatches never share a terminal, neither by
\* handle nor, behind two handles, by pane.
OneDispatchPerTerminal ==
    \A c, d \in DOMAIN db.ctx :
        c # d /\ IsActive(db, c) /\ IsActive(db, d)
            => ~Conflicts(db.ctx[c], db.ctx[d].handle, db.ctx[d].pane)

\* No task is lost in "dispatched": its newest dispatch is active, so a report or
\* the exit of that dispatch's terminal will move it on.  The loop never looks at a
\* task in "dispatched" again, whoever puts one there must leave it an owner.
DispatchedHasWorker ==
    \A t \in Tasks :
        db.task[t] = "dispatched" =>
            /\ ContextsOf(db, t) # {}
            /\ IsActive(db, Newest(ContextsOf(db, t)))

\* promoteReadyTasks: the step that completes the last open dependency of a pending
\* task makes it ready, and no task is handed out before there was a moment at which
\* its dependencies were all completed, unless somebody decided otherwise.  Setting its
\* status by hand is such a decision, and so is resolving a gate on it: a gate may be
\* put on a pending task, and resolving it makes the task ready without a look at its
\* dependencies.  Failed dispatches, escalations and re-blocked gates release nothing
\* that was not released before.
PromotionFollowsDeps ==
    [][\A t \in Tasks :
          /\ db.task[t] = "pending" /\ ~DepsCompleted(db, t) /\ DepsCompleted(db', t)
                => db'.task[t] = "ready"
          /\ db.task[t] # "dispatched" /\ db'.task[t] = "dispatched" => t \in cleared]_vars

\* A worker_done that changes anything comes from the pane (or, for a dispatch
\* recorded without pane, the handle) it was dispatched to, and ends exactly the
\* dispatch it names and its task.  Late reports of retried dispatches, reports with
\* confused ids and reports from other panes leave no trace.
ReportEndsItsOwnDispatch ==
    [][db' # db => \A t \in Tasks, c \in DOMAIN db.ctx, h \in Handles, p \in Panes :
          WorkerDone(t, c, h, p) =>
              /\ db'.ctx = [db.ctx EXCEPT ![c].status = "completed"]
              /\ db.ctx[c].task = t
              /\ db.task[t] = "dispatched" /\ db'.task[t] = "completed"
              /\ \A u \in Tasks \ {t} :
                    db'.task[u] # db.task[u] => db.task[u] = "pending" /\ db'.task[u] = "ready"
              /\ \/ db.ctx[c].pane = NoPane /\ db.ctx[c].handle = h
                 \/ db.ctx[c].pane # NoPane /\ p # NoPane /\ SamePane(db.ctx[c].pane, p)]_vars

-----------------------------------------------------------------------------
(* The dispatch lock as a lease on terminals. *)

RowsConflict(a, b) == Conflicts(a, b.handle, b.pane)

Lease == INSTANCE TerminalLease WITH
            Holders  <- [handle : Handles, pane : Panes],
            Conflict <- RowsConflict,
            granted  <- Len(db.ctx),
            holder   <- [c \in DOMAIN db.ctx |->
                            [handle |-> db.ctx[c].handle, pane |-> db.ctx[c].pane]],
            held     <- {c \in DOMAIN db.ctx : IsActive(db, c)}

\* Every operation on the tables grants at most one lease on a free terminal, or
\* ends leases: a dispatch that ended is never active again, and its terminal never
\* changes.
ImplementsLease == Lease!LeaseSpec

-----------------------------------------------------------------------------
(* What the documentation says and the tables do not keep. *)

\* promoteReadyTasks runs with the completion, "so there's no window where a task is
\* completable but its children haven't been promoted" (db.ts:673-675).
NoStrandedTask ==
    \A t \in Tasks : db.task[t] = "pending" => ~DepsCompleted(db, t)

\* "a gate blocks progress until a coordinator or user decision is recorded"
\* (skills/orchestration/SKILL.md): a task is not dispatched while a gate on it is
\* pending.
GateBlocksProgress ==
    [][\A t \in Tasks :
          (\E g \in DOMAIN db.gate : db.gate[g].task = t /\ db.gate[g].status = "pending")
              => ~(db.task[t] # "dispatched" /\ db'.task[t] = "dispatched")]_vars

=============================================================================
