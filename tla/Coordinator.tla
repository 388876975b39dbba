----------------------------- MODULE Coordinator -----------------------------
(***************************************************************************)
(* The coordinator loop (src/main/runtime/orchestration/coordinator.ts)    *)
(* with the workers and terminals it drives.  Every two seconds a tick     *)
(* handles the coordinator's unread messages, re-blocks tasks with an open *)
(* gate and hands ready tasks to free terminals.  The first part of a tick *)
(* is one turn of the event loop; handing out awaits the terminal list, a  *)
(* drift probe per task and the writing of each prompt, and anything may   *)
(* happen at an await.                                                     *)
(*                                                                         *)
(* A loop keeps a snapshot across its awaits: the ready tasks, the free    *)
(* terminals and the slots it counted before the first await.  Operators   *)
(* create tasks and gates, resolve gates, start and stop runs, and reset.  *)
(* Their other commands (dispatch, task-update) are in DispatchLifecycle.  *)
(***************************************************************************)
EXTENDS OrchestrationDb, FiniteSets

CONSTANTS
    Loops,          \* Coordinator objects
    NoLoop,
    DepsOf,         \* task -> the dependencies it is created with
    PaneOf,         \* handle -> its pane key, or NoPane
    Limits,         \* the values of --max-concurrent runs are started with
    MaxDispatches,  \* bound: dispatch contexts ever created
    MaxReports,     \* bound: escalations and gates raised by workers and operators
    MaxMishaps      \* bound: refused prompts on a live terminal, failed listings,
                    \* crashes, resets

ASSUME CoordinatorAssumption ==
    /\ NoLoop \notin Loops
    /\ DepsOf \in [Tasks -> SUBSET Tasks]
    /\ PaneOf \in [Handles -> Panes]
    /\ Limits \subseteq Nat \ {0}
    /\ {MaxDispatches, MaxReports, MaxMishaps} \subseteq Nat

VARIABLES
    db,         \* the tables
    runs,       \* loop -> the status of its coordinator_runs row
    loop,       \* loop -> where it is and what it holds across awaits
    current,    \* activeCoordinator, the loop run-stop reaches
    mail,       \* unread messages to the coordinator
    alive,      \* handles whose terminal is connected
    reports,    \* escalations and gates raised so far
    mishaps     \* refusals, failed listings, crashes and resets so far

vars == <<db, runs, loop, current, mail, alive, reports, mishaps>>

RunStatus == {"none", "running", "completed", "failed"}

\* todo, free, slots: the snapshot; task, handle, ctx: the task being handed out.
LoopState == [pc      : {"off", "top", "list", "create", "assign", "probe", "send", "sleep"},
              stopped : BOOLEAN,
              todo    : SUBSET Tasks,
              free    : SUBSET Handles,
              limit   : Limits \cup {0},
              slots   : Nat,
              work    : [task : Tasks, handle : Handles, ctx : Nat] \cup {<< >>},
              failed  : SUBSET Tasks]

\* The payload names only the task.  ctx is history: the dispatch the sender was thinking
\* of, or Ended when that was over before the message was written.
Message == [type : {"escalation", "decision_gate"}, task : Tasks, ctx : Nat]
Ended   == 0

TypeOK ==
    /\ db \in Tables
    /\ runs \in [Loops -> RunStatus]
    /\ loop \in [Loops -> LoopState] /\ \A l \in Loops : loop[l].slots =< loop[l].limit
    /\ current \in Loops \cup {NoLoop}
    /\ mail \in Seq(Message)
    /\ alive \subseteq Handles
    /\ reports \in 0 .. MaxReports
    /\ mishaps \in 0 .. MaxMishaps

NewLoop == [pc |-> "off", stopped |-> FALSE, todo |-> {}, free |-> {}, limit |-> 0,
            slots |-> 0, work |-> << >>, failed |-> {}]

Init ==
    /\ db = EmptyTables
    /\ runs = [l \in Loops |-> "none"]
    /\ loop = [l \in Loops |-> NewLoop]
    /\ current = NoLoop
    /\ mail = << >>
    /\ alive \in SUBSET Handles
    /\ reports = 0
    /\ mishaps = 0

TasksIn(tables, S) == {t \in Tasks : tables.task[t] \in S}

\* getActiveCoordinatorRun
SomeRunActive == \E l \in Loops : runs[l] = "running"

\* The worker of dispatch c is at its prompt, or at what was typed of it, and its terminal
\* is connected.  Nobody tells it when the dispatch ends, so it goes on.
Working(c) ==
    /\ db.ctx[c].handle \in alive
    /\ \A l \in Loops : loop[l].pc = "send" => loop[l].work.ctx # c

-----------------------------------------------------------------------------
(* Starting and stopping a run. *)

\* orchestration.run --max-concurrent n; decompose fails the run at once when there is
\* no task.
Run(l, n) ==
    /\ loop[l].pc = "off"
    /\ ~SomeRunActive
    /\ IF \E t \in Tasks : HasRow(db, t)
       THEN /\ runs' = [runs EXCEPT ![l] = "running"]
            /\ loop' = [loop EXCEPT ![l] = [NewLoop EXCEPT !.pc = "top", !.limit = n]]
            /\ current' = l
       ELSE /\ runs' = [runs EXCEPT ![l] = "failed"]
            /\ current' = NoLoop
            /\ UNCHANGED loop
    /\ UNCHANGED <<db, mail, alive, reports, mishaps>>

\* orchestration.runStop
RunStop ==
    /\ SomeRunActive
    /\ current # NoLoop
    /\ loop' = [loop EXCEPT ![current].stopped = TRUE]
    /\ current' = NoLoop
    /\ UNCHANGED <<db, runs, mail, alive, reports, mishaps>>

\* Mutant of Unfinished: a failed task keeps the run going.
UnfinishedOrFailed == TasksIn(db, {"pending", "ready", "dispatched", "blocked", "failed"})

Unfinished == TasksIn(db, {"pending", "ready", "dispatched", "blocked"})

\* The end of executeLoop: the row is updated by id, if it is still there.
End(l) ==
    /\ loop' = [loop EXCEPT ![l] = NewLoop]
    /\ runs' = [runs EXCEPT ![l] =
                   IF @ = "none" THEN @
                   ELSE IF \/ loop[l].stopped
                           \/ loop[l].failed \cup TasksIn(db, {"failed"}) # {}
                           \/ Unfinished # {}
                   THEN "failed" ELSE "completed"]
    /\ current' = IF current = l THEN NoLoop ELSE current

Stopped(l) ==
    /\ loop[l].pc = "top"
    /\ loop[l].stopped
    /\ End(l)
    /\ UNCHANGED <<db, mail, alive, reports, mishaps>>

-----------------------------------------------------------------------------
(* A tick. *)

\* handleEscalation fails the newest context of the task, whatever its status, and
\* remembers the task when that broke its circuit.
HandleEscalation(acc, t) ==
    LET tables == acc.db
        c      == Newest(ContextsOf(tables, t))
        after  == FailDispatch(tables, c)
    IN  IF /\ HasRow(tables, t)
           /\ tables.task[t] \notin {"completed", "failed"}
           /\ ContextsOf(tables, t) # {}
        THEN [db     |-> after,
              failed |-> IF after.ctx[c].status = "circuit_broken"
                         THEN acc.failed \cup {t} ELSE acc.failed]
        ELSE acc

HandleMessage(acc, msg) ==
    IF msg.type = "escalation"
    THEN HandleEscalation(acc, msg.task)
    ELSE [acc EXCEPT !.db = CreateGate(@, msg.task)]

\* processMessages: the unread messages, one after the other.
ReadMail(failed) ==
    LET acc[i \in 0 .. Len(mail)] ==
            IF i = 0 THEN [db |-> db, failed |-> failed] ELSE HandleMessage(acc[i - 1], mail[i])
    IN  acc[Len(mail)]

\* processMessages, processDecisionGates and dispatchReadyTasks up to its first await.
\* worker_done is not in mail: it was reconciled when it was sent, and reading it
\* again changes nothing.
Tick(l) ==
    LET read  == ReadMail(loop[l].failed)
        ready == TasksIn(db', {"ready"})
        busy  == Cardinality(TasksIn(db', {"dispatched"}))
        idle  == ready = {} \/ busy >= loop[l].limit
    IN  /\ loop[l].pc = "top"
        /\ ~loop[l].stopped
        /\ db' = BlockGated(read.db)
        /\ mail' = << >>
        /\ loop' = [loop EXCEPT ![l].pc     = IF idle THEN "assign" ELSE "list",
                                ![l].todo   = IF idle THEN {} ELSE ready,
                                ![l].slots  = IF idle THEN 0 ELSE loop[l].limit - busy,
                                ![l].failed = read.failed]
        /\ UNCHANGED <<runs, current, alive, reports, mishaps>>

\* getAvailableTerminals: connected, and not the assignee of a dispatched task.
ListTerminals(l) ==
    LET busy == {db.ctx[Newest(ContextsOf(db, t))].handle :
                    t \in {t \in TasksIn(db, {"dispatched"}) : ContextsOf(db, t) # {}}}
    IN  /\ loop[l].pc = "list"
        /\ loop' = [loop EXCEPT ![l].free = alive \ busy,
                                ![l].pc   = IF alive \subseteq busy THEN "create" ELSE "assign"]
        /\ UNCHANGED <<db, runs, current, mail, alive, reports, mishaps>>

CreateTerminal(l, h) ==
    /\ loop[l].pc = "create"
    /\ h \notin alive
    /\ alive' = alive \cup {h}
    /\ loop' = [loop EXCEPT ![l].free = {h}, ![l].pc = "assign"]
    /\ UNCHANGED <<db, runs, current, mail, reports, mishaps>>

\* terminal.list rejected: getAvailableTerminals answers that none is free.
ListTerminalsFails(l) ==
    /\ loop[l].pc = "list"
    /\ mishaps < MaxMishaps
    /\ mishaps' = mishaps + 1
    /\ loop' = [loop EXCEPT ![l].free = {}, ![l].pc = "create"]
    /\ UNCHANGED <<db, runs, current, mail, alive, reports>>

\* createTerminal rejected: this tick hands out nothing.
CreateTerminalFails(l) ==
    /\ loop[l].pc = "create"
    /\ loop' = [loop EXCEPT ![l].pc = "assign"]
    /\ UNCHANGED <<db, runs, current, mail, alive, reports, mishaps>>

\* Mutant of MayAssign: the slot count is not looked at.
MayAssignBeyondSlots(l, t, h) ==
    loop[l].pc = "assign" /\ t \in loop[l].todo /\ h \in loop[l].free

\* Mutant of MayAssign: the ready tasks are queried again after each await.
MayAssignAnyReady(l, t, h) ==
    /\ loop[l].pc = "assign"
    /\ loop[l].slots > 0
    /\ db.task[t] = "ready"
    /\ h \in loop[l].free

\* The next ready task of the snapshot goes to the next free terminal.
MayAssign(l, t, h) ==
    /\ loop[l].pc = "assign"
    /\ loop[l].slots > 0
    /\ t \in loop[l].todo
    /\ h \in loop[l].free

Assign(l, t, h) ==
    /\ MayAssign(l, t, h)
    /\ loop' = [loop EXCEPT ![l].pc    = "probe",
                            ![l].todo  = @ \ {t},
                            ![l].free  = @ \ {h},
                            ![l].slots = @ - 1,
                            ![l].work  = [task |-> t, handle |-> h, ctx |-> 0]]
    /\ UNCHANGED <<db, runs, current, mail, alive, reports, mishaps>>

\* The worktree is too far behind its base: the task stays ready.
SkipStaleBase(l) ==
    /\ loop[l].pc = "probe"
    /\ loop' = [loop EXCEPT ![l].pc = "assign", ![l].work = << >>]
    /\ UNCHANGED <<db, runs, current, mail, alive, reports, mishaps>>

\* createDispatchContext throws when the task or the terminal was taken meanwhile.
DispatchTask(l) ==
    LET w == loop[l].work
    IN  /\ loop[l].pc = "probe"
        /\ Len(db.ctx) < MaxDispatches
        /\ IF MayDispatch(db, w.task, w.handle, PaneOf[w.handle])
           THEN /\ db' = CreateDispatchContext(db, w.task, w.handle, PaneOf[w.handle])
                /\ loop' = [loop EXCEPT ![l].pc = "send", ![l].work.ctx = Len(db.ctx) + 1]
           ELSE /\ loop' = [loop EXCEPT ![l].pc = "assign", ![l].work = << >>]
                /\ UNCHANGED db
        /\ UNCHANGED <<runs, current, mail, alive, reports, mishaps>>

PromptDelivered(l) ==
    /\ loop[l].pc = "send"
    /\ loop[l].work.handle \in alive
    /\ loop' = [loop EXCEPT ![l].pc = "assign", ![l].work = << >>]
    /\ UNCHANGED <<db, runs, current, mail, alive, reports, mishaps>>

\* The terminal is gone, or is there and does not take the write.
PromptRefused(l) ==
    LET w     == loop[l].work
        after == FailDispatch(db, w.ctx)
    IN  /\ loop[l].pc = "send"
        /\ IF w.handle \in alive
           THEN mishaps < MaxMishaps /\ mishaps' = mishaps + 1
           ELSE UNCHANGED mishaps
        /\ db' = after
        /\ loop' = [loop EXCEPT ![l].pc = "assign",
                                ![l].work = << >>,
                                ![l].failed = IF after.ctx[w.ctx].status = "circuit_broken"
                                              THEN @ \cup {w.task} ELSE @]
        /\ UNCHANGED <<runs, current, mail, alive, reports>>

\* checkConvergence: no task left to wait for, or sleep until the next tick.
CheckConvergence(l) ==
    /\ loop[l].pc = "assign"
    /\ loop[l].slots = 0 \/ loop[l].todo = {} \/ loop[l].free = {}
    /\ IF Unfinished = {}
       THEN End(l)
       ELSE /\ loop' = [loop EXCEPT ![l].pc = "sleep", ![l].todo = {}, ![l].free = {},
                                    ![l].slots = 0]
            /\ UNCHANGED <<runs, current>>
    /\ UNCHANGED <<db, mail, alive, reports, mishaps>>

Wake(l) ==
    /\ loop[l].pc = "sleep"
    /\ loop' = [loop EXCEPT ![l].pc = "top"]
    /\ UNCHANGED <<db, runs, current, mail, alive, reports, mishaps>>

-----------------------------------------------------------------------------
(* Workers, terminals and operators. *)

\* A report that an ended dispatch is done is rejected: it changes nothing here.
WorkerDone(c) ==
    /\ Working(c)
    /\ IsActive(db, c)
    /\ db' = ReconcileWorkerDone(db, db.ctx[c].task, c, db.ctx[c].handle, db.ctx[c].pane)
    /\ UNCHANGED <<runs, loop, current, mail, alive, reports, mishaps>>

\* The worker of c sends an escalation or a decision_gate naming its task.
\* orchestration.send takes it whether or not the dispatch is still active.
WorkerReports(c, type) ==
    /\ Working(c)
    /\ reports < MaxReports
    /\ reports' = reports + 1
    /\ mail' = Append(mail, [type |-> type, task |-> db.ctx[c].task,
                             ctx |-> IF IsActive(db, c) THEN c ELSE Ended])
    /\ UNCHANGED <<db, runs, loop, current, alive, mishaps>>

\* failActiveDispatchOnExit
TerminalExit(h) ==
    LET held == {c \in DOMAIN db.ctx : IsActive(db, c) /\ db.ctx[c].handle = h}
    IN  /\ h \in alive
        /\ alive' = alive \ {h}
        /\ IF held = {}
           THEN UNCHANGED <<db, mail>>
           ELSE LET c == Newest(held)
                IN  /\ db' = FailDispatch(db, c)
                    /\ mail' = IF SomeRunActive
                               THEN Append(mail, [type |-> "escalation",
                                                  task |-> db.ctx[c].task, ctx |-> c])
                               ELSE mail
        /\ UNCHANGED <<runs, loop, current, reports, mishaps>>

TaskCreate(t) ==
    /\ db.task[t] = "absent"
    /\ \A d \in DepsOf[t] : db.task[d] # "absent"
    /\ db' = CreateTask(db, t, DepsOf[t])
    /\ UNCHANGED <<runs, loop, current, mail, alive, reports, mishaps>>

GateCreate(t) ==
    /\ db.task[t] # "absent"
    /\ reports < MaxReports
    /\ reports' = reports + 1
    /\ db' = CreateGate(db, t)
    /\ UNCHANGED <<runs, loop, current, mail, alive, mishaps>>

\* Once per gate: DispatchLifecycle has the operator who resolves one again.
GateResolve(g) ==
    /\ db.gate[g].status = "pending"
    /\ db' = ResolveGate(db, g)
    /\ UNCHANGED <<runs, loop, current, mail, alive, reports, mishaps>>

\* orchestration.reset --tasks; the loop is not told.
Reset ==
    /\ mishaps < MaxMishaps
    /\ mishaps' = mishaps + 1
    /\ db' = ResetTasks(db)
    /\ runs' = [l \in Loops |-> "none"]
    /\ UNCHANGED <<loop, current, mail, alive, reports>>

\* The runtime restarts: the loops are gone, the database and the terminals are not.
Crash ==
    /\ mishaps < MaxMishaps
    /\ mishaps' = mishaps + 1
    /\ \E l \in Loops : loop[l].pc # "off"
    /\ loop' = [l \in Loops |-> NewLoop]
    /\ current' = NoLoop
    /\ UNCHANGED <<db, runs, mail, alive, reports>>

\* The turns of a loop that come up by themselves: what it awaits ends one way or the
\* other.  At most one of them is enabled, but for the two ends of an await.
Turn(l) ==
    \/ Stopped(l) \/ Tick(l) \/ CheckConvergence(l) \/ Wake(l)
    \/ CreateTerminalFails(l) \/ \E h \in Handles : CreateTerminal(l, h)
    \/ \E t \in Tasks, h \in Handles : Assign(l, t, h)
    \/ PromptDelivered(l) \/ PromptRefused(l)

LoopStep(l) ==
    Turn(l) \/ ListTerminals(l) \/ ListTerminalsFails(l) \/ SkipStaleBase(l) \/ DispatchTask(l)

WorkerStep(c) ==
    WorkerDone(c) \/ WorkerReports(c, "escalation") \/ WorkerReports(c, "decision_gate")

OperatorStep ==
    \/ RunStop \/ Reset
    \/ \E l \in Loops, n \in Limits : Run(l, n)
    \/ \E t \in Tasks : TaskCreate(t) \/ GateCreate(t)
    \/ \E g \in DOMAIN db.gate : GateResolve(g)

Next ==
    \/ \E l \in Loops : LoopStep(l)
    \/ \E c \in DOMAIN db.ctx : WorkerStep(c)
    \/ \E h \in Handles : TerminalExit(h)
    \/ OperatorStep
    \/ Crash

Spec == Init /\ [][Next]_vars

\* A loop's turns come up.  The terminals can be listed, one can be created, and the base
\* is refreshed, now and again.  The worker of a dispatch reports in the end or its
\* terminal exits, and somebody resolves each gate.  Nobody has to start, stop or
\* escalate anything.
Fairness ==
    /\ \A l \in Loops :
          /\ WF_vars(Turn(l)) /\ SF_vars(ListTerminals(l)) /\ SF_vars(DispatchTask(l))
          /\ SF_vars(\E h \in Handles : CreateTerminal(l, h))
    /\ \A c \in 1 .. MaxDispatches :
          WF_vars(/\ c \in DOMAIN db.ctx /\ IsActive(db, c)
                  /\ WorkerDone(c) \/ TerminalExit(db.ctx[c].handle))
    /\ \A g \in 1 .. MaxReports : WF_vars(g \in DOMAIN db.gate /\ GateResolve(g))

FairSpec == Spec /\ Fairness

-----------------------------------------------------------------------------
(* What the loop keeps true across its awaits. *)

\* The slots counted before the first await are still there when they are used: a loop
\* never has more tasks out after a dispatch than its --max-concurrent.
ConcurrencyLimit ==
    [][\A l \in Loops : loop[l].pc = "probe" /\ loop'[l].pc = "send" =>
          Cardinality({t \in Tasks : db'.task[t] = "dispatched"}) =< loop[l].limit]_vars

GatesOn(t) == {g \in DOMAIN db.gate : db.gate[g].task = t}

\* No terminal stays locked for a task that is not out: an active dispatch has its task
\* in "dispatched", so a report or an exit ends both together.  (Two gates on one task
\* break this: resolving one lets the task out, resolving or re-blocking for the other
\* takes it back without ending the dispatch.)
NoLeakedLock ==
    \A c \in DOMAIN db.ctx :
        IsActive(db, c) /\ Cardinality(GatesOn(db.ctx[c].task)) =< 1
            => db.task[db.ctx[c].task] = "dispatched"

\* The circuit breaker bounds the retries of a task and holds once broken: at most three
\* of its dispatches fail, and then it stays failed (unless a gate asks for a decision
\* on it).
CircuitHolds ==
    \A t \in Tasks : HasRow(db, t) /\ GatesOn(t) = {} =>
        /\ Cardinality({c \in ContextsOf(db, t) :
                          db.ctx[c].status \in {"failed", "circuit_broken"}}) =< CircuitLimit
        /\ (\E c \in ContextsOf(db, t) : db.ctx[c].status = "circuit_broken")
              => db.task[t] = "failed"

\* An escalation names a task, and fails whatever dispatch is that task's newest when
\* the tick comes round.  One sent while its dispatch was active fails that dispatch,
\* however long it waited: the task cannot be out again by then, for the snapshot of
\* ready tasks was taken in the turn that read the mail.  So a dispatch pays only for
\* its own worker or for one whose dispatch had ended before it wrote, which nothing
\* stops.  (Two gates on one task break this too: a task that went out and came back
\* ready within one tick is out again.)
EscalationHitsItsDispatch ==
    [][mail # << >> /\ mail' = << >> => \A c \in DOMAIN db.ctx :
          db'.ctx[c].failures > db.ctx[c].failures /\ Cardinality(GatesOn(db.ctx[c].task)) =< 1
              => \E i \in DOMAIN mail :
                    /\ mail[i].type = "escalation" /\ mail[i].task = db.ctx[c].task
                    /\ mail[i].ctx \in {c, Ended}]_vars

\* A task whose gates are all pending is not handed out, even when a late failure made
\* it ready again or the gate came while the loop was about to hand it out.
GateBlocksLoop ==
    [][\A t \in Tasks :
          GatesOn(t) # {} /\ (\A g \in GatesOn(t) : db.gate[g].status = "pending")
              => ~(db.task[t] # "dispatched" /\ db'.task[t] = "dispatched")]_vars

\* Nothing is left to do but wait for tasks that cannot become ready: a dependency
\* failed, or had completed before the task was created.
Stuck ==
    /\ TasksIn(db, {"ready", "dispatched", "blocked"}) = {}
    /\ TasksIn(db, {"pending"}) # {}

\* A run ends, whatever terminals exit, prompts are refused and workers escalate, except
\* that a loop polls on when it is stuck (checkConvergence counts pending tasks as active).
Converges == \A l \in Loops : runs[l] = "running" ~> (runs[l] # "running" \/ Stuck)

-----------------------------------------------------------------------------
(* What the documentation says and the loop does not keep. *)

\* "After 3 consecutive failures on one task, the dispatch context circuit-breaks"
\* (skills/orchestration/SKILL.md): a task whose circuit broke was tried three times.
CircuitNeedsThreeFailures ==
    \A t \in Tasks :
        (\E c \in ContextsOf(db, t) : db.ctx[c].status = "circuit_broken")
            => Cardinality(ContextsOf(db, t)) >= CircuitLimit

\* "Only one coordinator can run at a time (enforced by the DB's active-run check)"
\* (orchestration-gates.ts).
OneCoordinator == Cardinality({l \in Loops : loop[l].pc # "off"}) =< 1

=============================================================================
