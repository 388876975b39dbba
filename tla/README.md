# Formal models of the agent orchestration runtime

TLA+ models of the parts of this repository that keep several coding agents,
their terminals and their users in step:

* orchestration: the SQLite-backed tables, the RPC methods that write them, the
  coordinator loop, the messages between terminals, and what the runtime does
  when terminals exit or agents become idle;
* the terminal daemon's host, which owns the child processes;
* the desktop's session with the mobile relay;
* scheduled automations.

Paths below are relative to the repository root; `orchestration/` stands for
`src/main/runtime/orchestration/`.

* [1. The system](#1-the-system)
* [2. Modules](#2-modules)
* [3. Runs](#3-runs)
* [4. Proofs](#4-proofs)
* [5. Disagreements found](#5-disagreements-found)
* [6. Not modelled](#6-not-modelled)
* [7. Plan](#7-plan)

## 1. The system

Everything below runs in the Electron main process (or in the headless server,
the PTY daemon or the SSH relay), in JavaScript: one turn of the event loop at a
time. better-sqlite3 is synchronous, so a database method is one indivisible
step; a handler is indivisible up to its next `await`. The interesting
interleavings are at awaits, timers, socket events and process restarts.

| Component | State | Operations | What makes it correct |
| --- | --- | --- | --- |
| **Orchestration tables** (`orchestration/db.ts`, `types.ts`) | tasks, dispatch contexts, gates, messages, coordinator runs | createTask, updateTaskStatus (with promotion), createDispatchContext, failDispatch, createGate / resolveGate, insertMessage, markAsRead / Delivered, reset | one dispatch per terminal; a task in `dispatched` has an owner; promotion with the completion of the last dependency, nothing handed out before; retries bounded by the circuit breaker |
| **RPC methods, lifecycle reconciliation** (`runtime/rpc/methods/orchestration*.ts`, `orchestration/lifecycle-reconciliation.ts`) | parked `check --wait` and `ask` calls | task-create / -update, dispatch `--inject`, gate-*, send, check, reply, ask, run, run-stop, reset | only the report of the task's own, current dispatch from its own pane counts; a parked reader wakes for its message; nothing is consumed for a caller that is gone |
| **Coordinator loop** (`orchestration/coordinator.ts`) | run row, snapshot of ready tasks, free terminals and slots held across awaits, failed tasks, `stopped` | tick: read mail, handle escalations and gates, re-block, list terminals, dispatch; convergence; stop | `--max-concurrent` is kept; an escalation sent in time never fails a later dispatch; gated tasks are not handed out; a run ends |
| **Runtime terminals** (`runtime/orca-runtime.ts`, the parts orchestration calls) | handles, leaf status (idle / working), message waiters, pending Enter timers | exit handler, prompt writes, push of messages to idle agents, title changes | what is marked delivered was shown; nothing is replayed; what is sent arrives while the terminal lives |
| **PTY daemon host** (`src/main/daemon/terminal-host.ts`, `session.ts`, `terminal-session-teardown.ts`, `post-ready-flush-gate.ts`) | the session of an id, its child, its queued input, the teardown operation that holds the id, kill requests, shutdown fence | createOrAttach, write, shell readiness and its timers, kill (graceful or immediate), sweep of descendants, forced kill with retry and deadline, exit, dispose | input in order and not stuck; the map owns the only live child; an immediate kill is acknowledged when the child is gone; nobody attaches to what is being killed; kills are answered |
| **Mobile cloud relay** (`src/main/runtime/relay/`) | signed-in account, reconciles under way, the owned broker, linger timer, persisted revocation outbox, token refresh | auth changes, fences, pairing calls, revocation, acknowledgement, timeout, control loss, refresh, restart | one broker, of the signed-in account; a revocation is never lost or sent by the wrong account, and is tried; an unwanted broker closes |
| **Automations** (`src/main/automations/`, `src/shared/automation-run-retention.ts`) | automations, runs, `evaluating`, passes, dispatch tokens, launched agents | tick, run now, dispatch to a window or on a server, precheck, mark result, retention, enable, delete, crash | one launch per run; a running run keeps its row; nothing due is passed over for ever |
| SSH relay (`src/relay/`) | client generations, in-flight requests, drain waiters | attach, invalidate, request, cancel, notify | nothing of an earlier generation reaches a later one |
| Renderer, source control, issue trackers | views; wrappers of external commands | | |

**How the modelled components interact.** A coordinating agent (or a person)
creates tasks with dependencies through RPC. Either it dispatches them itself, or
it starts the coordinator loop, which polls every two seconds. A dispatch writes a
dispatch context, sets the task to `dispatched` and, with `--inject`, writes the
prompt into the worker's terminal, which takes about half a second. The worker
reports with a `worker_done` message that names task and dispatch. The message is
reconciled against the tables when it is sent and again whenever an unread copy
is read. Reconciling completes the dispatch and the task and promotes dependants.
Failures come back along three ways: the prompt is refused (`failDispatch` after
the await), the terminal exits (`failActiveDispatchOnExit`, which also sends an
escalation), or the worker escalates. A gate takes a task out of circulation until
it is resolved. Messages reach a terminal by `check`, by `ask`, by the loop's
own tick, or typed into the prompt of an idle agent.

The other three are coupled to orchestration, and to each other, only through
terminals: a worker is a session of the daemon host, an automation launches an
agent in one, the relay carries a phone's input to one. None of them reads the
others' state, so they are modelled side by side and not composed. Within each,
the parts that do interact are composed: a session's input with the host that
kills it; reconciles with the broker, its requests and the persisted outbox; the
scheduler's pass with the server's launches, the window's handlers and the
store's retention.

**What is hard.** The same incident is reported along several ways at different
times; `failDispatch` looks neither at the status of the context nor at that of
the task; a pane can have two handles; the loop holds a snapshot across three
kinds of await while RPC callers change the tables; delivery is recorded half a
second after the text was typed; readers of one mailbox compete. In the daemon,
two requests to kill one session join each other while its descendants are being
captured, signals are refused and deadlines pass. In the relay session every
change of demand starts a reconcile that makes the earlier ones stale while they
wait for a context or a connection. In automations a pass keeps what was due
across awaits that take minutes, while the automation is disabled or deleted and the
process may die. `PROJECT.json` lists 40 hazards with the line each bites at.

## 2. Modules

| Module | Models | |
| --- | --- | --- |
| `OrchestrationDb` | tasks, dispatch contexts, gates as one record; every statement, and the loop's re-blocking of gated tasks, as an operator on it | pure operators |
| `DispatchLifecycle` | every operation that writes those tables, in any order callers may produce | state machine on `OrchestrationDb` |
| `TerminalLease` | what the dispatch lock promises: a lease on a terminal, granted only while none conflicts, never revived | abstract specification |
| `Coordinator` | the loop with its awaits, workers, terminals, operators, crashes | state machine on `OrchestrationDb` |
| `MessageDelivery` | one terminal's mailbox: reconciliation, readers, push to the idle agent | state machine |
| `OrchestrationDb_proofs` | how each statement may change the tables | lemmas |
| `DispatchLifecycle_proofs` | types, the lock, the refinement, no task out without a worker, reports and promotion | theorems |
| `InOrder_proofs` | what handling messages one after the other keeps | lemmas |
| `Coordinator_proofs` | types, the lock, the circuit breaker, the limit, gates, escalations | theorems |
| `MessageDelivery_proofs` | types, lost wakeups, what counts as read or delivered, asks, replays | theorems |
| `SessionInput` | one session's input: queue, shell readiness, gate, timers | pure operators |
| `TerminalHost` | the daemon host for one id: sessions, kills, teardown, shutdown | state machine on `SessionInput` |
| `InputPipe` | what a session promises about its input: all of it, in order, in the end | abstract specification |
| `TerminalHost_proofs` | types, input order, ownership of the child, kills, attach | theorems |
| `RelaySession` | reconciles, the owned broker, linger, revocation outbox, token refresh | state machine |
| `RelaySession_proofs` | types, one broker, the right account, no lost revocation | theorems |
| `Automations` | passes, dispatch on a server and in a window, results, retention, crashes | state machine |
| `Automations_proofs` | types, one launch, rows of running runs kept | theorems |
| `MC*` | small constants for TLC | |

### OrchestrationDb

`db` is a record of four functions or sequences. `db.task[t]` is the status
column, with `"absent"` before the row is inserted and `"deleted"` after a reset
(ids are random and never reused). `db.ctx` and `db.gate` are sequences in rowid
order, so an id is an index and `ORDER BY rowid DESC LIMIT 1` is `Newest`. Each
database method is an operator from tables to tables: `FailDispatch` is
`failDispatch` (`db.ts:869`), including that it has no guard but the existence of
the row; `UpdateTaskStatus` includes promotion and the completion of the active
dispatch; and so on (`map` in `PROJECT.json` has every line).

Pane keys are `tab:leaf`. A pane that is broken out of its tab keeps its leaf, so
two keys are one pane when their leaves agree (`SamePane`, `db.ts:22`).
`LeafOf` gives the leaf; a key that does not parse has `NoLeaf`.

Left out because nothing observes it: specs, titles, results, timestamps. The
dispatch status `pending` is declared in `types.ts` but no statement writes it.
`timeoutGate` and `failActiveDispatchForTask` have no callers.

### DispatchLifecycle

One action per operation. State: the tables and `sending`, the dispatches whose
prompt is still being written. This is the only thing that spans two turns:
`Dispatch` is the handler up to its await, `PromptDelivered` / `PromptRefused` the
two ways the await ends. `WorkerDone(t, c, h, p)` is a report with any ids from any
handle and pane, so that confused, late and repeated reports are among its
inputs. A terminal exit can be missed: the handler looks the dispatch up by the
terminal's current handle only. The action is therefore enabled but never obliged.
The coordinator's writes are here as well: `Escalate` is the turn in which a tick
reads an escalation, which ends with `processDecisionGates` (`BlockGated`), `Reblock` that
of a tick with nothing to read, `Dispatch` and `PromptRefused` serve the loop too. Apart from
that order within a turn nothing is assumed of the loop, so what holds here holds
whatever any loop does.

`cleared` is a history variable: the tasks that were released at some time, because their
dependencies were all completed or because somebody set their status by hand or resolved a
gate on them. No action reads it.

### Coordinator

`loop[l].pc` follows `executeLoop`: `top` (the head of the loop, one turn up to
the first await), `list` (`listTerminals`), `create` (`createTerminal`), `assign`
(the `for` over ready tasks), `probe` (the drift probe of `dispatchTask`), `send`
(the prompt), `sleep`. `todo`, `free` and `slots` are the locals the code keeps
across those awaits: the ready tasks as queried by the tick, the terminals as
listed, the slots as counted. Everything else may happen at any of them: reports,
exits, gates, escalations, resets, `run-stop`, a restart of the runtime (`Crash`:
loops vanish, the database and the PTYs stay).

`mail` holds the coordinator's unread escalations and decision gates. Each carries
`ctx`, the dispatch whose worker wrote it, or `Ended` when that dispatch was over by then:
nobody tells a worker that its dispatch has ended, and `orchestration.send` asks nothing of an
escalation. The code cannot see it (the payload names only the task) and no action reads
it; `EscalationHitsItsDispatch` compares it with what the loop did. A `worker_done` is not kept in `mail`, for it was
reconciled when sent and reading it again changes nothing (a property
`ReportEndsItsOwnDispatch` checks in DispatchLifecycle). `ask` sends its
`decision_gate` without a task id and the loop ignores it.

Workers here say `worker_done` only of dispatches that are active and operators resolve a gate once; the other cases
are in DispatchLifecycle.

### MessageDelivery

One terminal's mailbox. Rows carry what the table has (`type`, `read`,
`delivered_at`, whether it was rejected) and what the properties need: whether the
insert was followed by `notifyMessageArrived`, and whether the text is in the
prompt (`pasted`). Other messages matter only to their own terminal, so one
instance is one terminal. A terminal here is one handle, and a handle belongs to one
PTY: when the PTY is lost (`TerminalLost`) the handle stays lost, and a new PTY in the same
pane gets a handle of its own, with an empty mailbox (`orca-runtime.ts:22924-22955`).

A dispatch ends in three ways that differ for the mailbox: `completed` by a
`worker_done` that is believed, which also consumes its earlier heartbeats; `closed` by
`task-update`, a gate or a refused prompt, which touch no message; `failed` by the
worker's exit, which may leave an escalation. (`closed` is the model's word; the table says
`completed` or `failed`.)

Granularity: a resolved promise continues within the turn that resolved it, after
RPC requests that arrived with it. So a woken reader (`woken`) may be overtaken by
another request but not by a timer, a socket close or PTY output: these have the
guard `TurnOver`. `Check` / `Resume` / `CheckTimeout` / `CheckAbort` are the
blocking check, `Ask` / `AskResume` / `AskDeadline` / `AskAbort` the ask loop,
`LoopReads` the coordinator tick reading the same mailbox. `DeliverPendingMessages`
types a batch and queues its Enter; `PressEnter` is the 500 ms timer. For a
coordinator of an active run, or a Cursor agent, the prompt is the user's: the
text stays there without Enter and counts as delivered at once.

### SessionInput, TerminalHost, InputPipe

One terminal id, several clients and kill requests. `sess` is the session in the
host's map (`gen = 0` when there is none); children are numbered by generation, so
that a kill asked for one child cannot be mistaken for the next child of the same
id. `op` is the teardown operation of `terminal-session-teardown.ts`, which holds
the id from a kill of an agent session until the root was signalled, or, when the
kill is immediate, until the child exited. `call[c]` is a kill request and what it
awaits: the operation it joined, or its own forced kill. `force[o]` is a
`forceKillAndWaitForExit` for owner `o`: waiting 250 ms to retry, or waiting 8 s for the
exit.

`SweepEnds` is the end of the capture of descendants, in all its continuations:
the child exited meanwhile, an immediate request joined, a graceful kill goes
through or is refused. `ForceKillSent` / `ForceKillRefused` are the operating
system's answers; a refusal leaves the child, a `SIGKILL` that was accepted dooms
it (`doomed`), but it exits in a step of its own and perhaps after every deadline.
`ChildExits` answers every waiter in the same turn.

The n-th write is the number n, so that `got \o queue = 1..sent` says order and no
loss at once. What the output scan holds back, echo and bytes are left out; the
scan's state is kept, because ending it early (`PrepareForFinalSnapshot`, for a
teardown) is one of the ways in which the marker is never seen.

`InputPipe` is the refinement target: `Pipe!PipeSpec` with `open <- IsAlive`. Its
fairness condition makes it say that the queue is flushed as well.

### RelaySession

The code numbers its reconciles (`authEpoch`) and only compares numbers. A
reconcile and the broker it opens are a *slot* here, reused when nothing refers to
it; `current` is the slot of the newest epoch and `epoch` says what became of it.
`ReadStale` … `ReadOpens` are the ways in which `reconcile()` continues after it has
read its context, `BrokerOpens` and `AttemptFails` the two after it has opened a
broker. `own` is what the coordinator believes it owns; `live` is the slots whose
broker really holds connections: `OneBroker` compares them.

`flight` is what the owned broker has requested: the item that the outbox loop
awaits, what is left of the loop, and items sent directly when they were queued. The
relay's own handling (`RelayHandles`) is separate from the arrival of its answer, so
an answer can be lost after the phone was revoked. The persisted outbox survives
`Restart`; requests, brokers and calls do not.

The origin pool appears as one active control that is lost and comes back. Its
leases, drains and rotations, new bindings made by pairing, and the tunnels are not
modelled.

### Automations

`pass[p]` follows `evaluateDueRuns`: the automations left to look at, the clock of
the pass, and the run it dispatches or awaits. On a server the pass itself awaits
precheck and launch; in a window it only sends, and the renderer's handler is a
*job* of its own. A turn that has no `await` is still several actions (create the
run, dispatch, advance), because a crash may come between any two of them; nothing
else may (`Quiet`). Two passes exist so that `evaluating` has something to keep out.

`token[r]` is the one-time token that a window's handler redeems for a workspace.
`Pruned` is the retention of final runs, a run's id being the order of its creation.
Final statuses (completed, failed, skipped …) are one; what the properties tell apart is
whether a run is pending, dispatching, dispatched or over.

## 3. Runs

All bounds are named constants that appear as guards; TLC explores everything
within them.

| Run | Checks | Bounds and why |
| --- | --- | --- |
| `lifecycle` | `TypeOK`, `OneDispatchPerTerminal`, `DispatchedHasWorker`, `PromotionFollowsDeps`, `ReportEndsItsOwnDispatch`, `ImplementsLease` | 2 tasks (a dependency needs two), 3 handles of which two share a broken-out pane and one has none, 2 dispatches (two that compete, or a retry), 1 gate, 3 failures (the circuit breaks) |
| `coordinator` | `TypeOK`, `NoLeakedLock`, `ConcurrencyLimit`, `EscalationHitsItsDispatch`, `GateBlocksLoop` | 1 loop with limit 1 or 2, 2 tasks, 2 terminals, 2 dispatches (both tasks out, or a retry), 2 escalations or gates (a gate that ends a dispatch and the late escalation of its worker; two that are read in one tick), 1 refusal, failed listing, reset or crash |
| `converges` | `CircuitHolds`, `Converges` | a chain of 2 tasks on 1 terminal, 7 dispatches (more than two tasks that each break the circuit need, so the bound never stops the loop), 1 escalation or gate |
| `messages` | `TypeOK`, `NoLostWakeup`, `NothingConsumedUnseen`, `NoZombieHeartbeat`, `DeliveredWasShown`, `AnswerReachesAsk`, `NoReplay`, `SentIsPushed` | 2 checkers with different filters, 1 ask, 1 dispatch, 2 messages (one that is overtaken, reconciled or typed with the other), 2 pending Enters |
| `terminal_host` | `TypeOK`, `InputInOrder`, `QueueHasFlusher`, `OwnedChild`, `KillKeepsPromise`, `NeverAttachDoomed`, `InputIsPipe`, `KillIsAnswered`, `TerminationEnds` | 2 clients (one takes over from the other), 2 kill requests (one joins the other), 2 children under the id, 3 writes (queued, at the gate, fresh), 2 refused signals (the first is retried, the second exhausts the fallback) |
| `relay_session` | `TypeOK`, `OneBroker`, `BrokerFollowsAccount`, `RevokedByOwner`, `RevocationIsTried`, `UnwantedBrokerCloses` | 2 accounts, 2 phones of one of them (the outbox loop has a next item), 1 pairing call (demand for the account without phones), 3 slots (an owned broker and two overlapping reconciles), 1 change of account, 1 restart |
| `automations` | `TypeOK`, `LaunchedOnce`, `LiveRunKept`, `DueIsEvaluated` | 2 automations on a server (one is awaited while the other is due), 1 in a window, 1 occurrence that may be missed (grace 0, clock up to 2), 4 runs, 1 by hand, 1 crash, 2 passes |
| `stranded_task`, `gate_blocks`, `circuit_breaker`, `one_coordinator`, `pushed_once` | one documented claim each | the smallest instance that shows the disagreement, see section 5 |

Deadlock is checked for DispatchLifecycle and MessageDelivery. It is off for the
Coordinator runs, where all tasks may be finished and the bounds used up, and for the
last three, where the bounds on children, account changes and runs end every
behaviour in a state with nothing left to do. Symmetry
(tasks, terminals) is used only in runs without liveness, and only over values that
no constant tells apart; handles of `lifecycle` differ in their panes and are not
symmetric. The runs with liveness use none.

Bounds that differ from the code: `Retained = 0` keeps no final run beyond the
creation of the next one, where the code keeps 100. That is harsher, so what
survives here survives there. `Grace = 0` makes the one occurrence late after one tick.
The slots of RelaySession bound how many reconciles may overlap; a step that needs
another waits until one is over.

**What the properties say.** Each has a comment in its module. The ones that took
most thought:

* `DispatchedHasWorker`: the loop never looks at a task in `dispatched` again, so
  whoever puts a task there must leave it an active dispatch, although gates, exits,
  late refusals and resets end dispatches independently. (False if an operator
  writes `dispatched` with `task-update`; the run leaves that input out, the theorem
  says so.)
* `NoLeakedLock`: the converse. A dispatch that stays active while its task moved on
  keeps its terminal out of use. With two gates on one task this fails: resolving one
  lets the task out while the other is pending, and `processDecisionGates` then
  blocks the task again by writing its status, which leaves its dispatch active. The
  property is stated for at most one gate per task.
* `PromotionFollowsDeps`: `failDispatch` and `resolveGate` make a task `ready` without
  looking at its dependencies. For a failure (`db.ts:887-890`) this releases
  nothing new, because a task with a dispatch was released before; the property says so
  of every order of failures, late refusals, escalations and gates. A resolved gate does
  release a task whose dependencies are open (section 5), so it counts as a decision.
* `EscalationHitsItsDispatch`: an escalation names only a task. That one which was sent while
  its dispatch was active fails no later dispatch rests on the tick reading its mail and
  querying the ready tasks in one turn. The mutant that queries them again after an
  await breaks it. A worker whose dispatch had ended before it wrote is outside the
  promise: its escalation fails whatever dispatch is the newest (section 5).
* `ConcurrencyLimit`: the slots are counted before up to three awaits. They can only
  become an underestimate while one loop runs, since every way out of `dispatched`
  frees a slot and only the loop fills one. Operators' own `dispatch` commands are
  not in Coordinator; with them the limit is the loop's own, not the terminal
  farm's.
* `NoLostWakeup`: a parked reader has nothing waiting for it, whichever reader
  consumed what in between. The escalation of an exit is exempt (`signalled`): the
  exit handler inserts it without `notifyMessageArrived` (`orca-runtime.ts:10578`),
  so a parked `check --wait --types escalation` sleeps until its timeout.
* `KillKeepsPromise`: the acknowledgement of an immediate kill lets the caller delete
  the worktree under the process. An immediate request may join a graceful teardown
  before or after its root was signalled; the second case needs a forced kill of
  its own. The mutant that only joins breaks it.
* `TerminationEnds`: a session that is being terminated ends or is reopened, unless two
  signals were refused. One refusal must not use up the only fallback; after
  the second, none is left in the code either, hence the exception.
* `OneBroker`, `BrokerFollowsAccount`: nothing that was begun for an overtaken reconcile
  (a context read, a broker that connects) may leave a second broker, or one of
  the previous account. `BrokerFollowsAccount` claims nothing while a reconcile runs or
  when the newest one failed; section 5 says why.
* `RevokedByOwner` and `RevocationIsTried`: the outbox item is stored before the
  phone is forgotten and removed only after the relay's answer; that it is tried is
  promised once per broker, not again after a failure.
* `LaunchedOnce`: once per run and once more per crash. A crash between the launch and
  the update of the row makes the next pass find the run as it was; the code has no
  record that would tell.
* `LiveRunKept`: relates retention to work that is under way. `found`, the status the
  run had when its dispatch began, exempts a run that was already final and is
  dispatched again after a crash (section 5).
* `DueIsEvaluated`: whatever another automation's run, deletion or crash does. It rests
  on the `finally` that resets `evaluating`; the mutant without it starves the others.
* `NoZombieHeartbeat`: of dispatches that a report completed. It relates the order in which
  a read reconciles its batch to what was rejected, consumed or delivered before; a
  dispatch closed without a report is outside the promise (section 5).
* `SentIsPushed`: liveness of push, as long as the terminal lives. Busy agents, other
  batches and other readers only delay it. Replies are exempt, because `orchestration.reply` wakes readers but
  does not push.

**Mutants.** `PROJECT.json` pairs every property of a passing run with a changed
definition (a dropped guard, a swapped order, a forgotten reset) under which TLC
finds that property violated. The changed definitions stand beside the originals,
marked "Mutant of".

**Fairness.** Safety needs none. `Coordinator!Fairness`: the loop's own turns come
up and its awaits end one way or the other (weak fairness of `Turn`), terminals can be
listed and created and the base refreshed now and again (strong fairness, since listing
and creation can fail and the probe can refuse any number of times in between), a
worker of an active dispatch reports in the end or
its terminal exits, and somebody resolves each gate. Nobody has to start, stop or
escalate. `Converges` then says that a running run ends or is `Stuck`: the loop
counts pending tasks as active (`coordinator.ts:572`), so it polls for ever behind a
dependency that failed or had completed before the task was created.
`MessageDelivery!Fairness`: woken readers go on, timers fire, a working agent
becomes idle in the end. A lost terminal owes nothing, and nobody has to call check.
`TerminalHost!Fairness`: timers fire (shell-ready, gate, fallback, retry, deadline), the
capture of descendants is bounded by its own timeout, and a child that accepted
`SIGKILL` exits in the end, perhaps after everybody gave up. Clients, output and
voluntary exits owe nothing.
`RelaySession!Fairness`: a context read or an opening broker settles one way or the
other (both are requests with deadlines), a revocation request is answered or times
out after 10 s, calls end, the linger timer fires. The network owes no success:
`AttemptFails` satisfies the first as well as `BrokerOpens`.
`Automations!Fairness`: the one-minute timer fires again and again and a pass goes on
within its own turn; a precheck has a timeout, and a server's launch that a pass
awaits is taken to return. The last is an assumption about git and the shell: the code
has no deadline there, and a launch that hangs keeps `evaluating` set. User, window and
agents owe nothing.

## 4. Proofs

TLC's instances have two tasks, three handles and two dispatches; two kill requests;
three reconciles. The theorems hold for every value of the constants, under the named
assumptions of the modules: `PaneAssumption` (`NoPane` is not a key, every key has a
leaf or `NoLeaf`), `LifecycleAssumption` (pane keys and override statuses have their
types), `CoordinatorAssumption` (dependencies are tasks, limits are positive),
`DeliveryAssumption`, `HostAssumption`, `SessionAssumption` and `AutomationsAssumption`
(the "none" values are not members, the bounds are numbers).

| Theorem | Statement |
| --- | --- |
| `TypeCorrect` | `DispatchLifecycle`: `Spec => []TypeOK` |
| `DispatchLock` | `Spec => []OneDispatchPerTerminal` |
| `LeaseImplementation` | `Spec => ImplementsLease` |
| `TaskHasWorker` | `Spec => []DispatchedHasWorker`, if `"dispatched" \notin OverrideTo` |
| `ReportEndsOwn` | `Spec => ReportEndsItsOwnDispatch` |
| `PromotionFollows` | `Spec => PromotionFollowsDeps`, if `{"pending", "dispatched"} \cap OverrideTo = {}` |
| `CoordinatorTypes` | `Coordinator`: `Spec => []TypeOK` |
| `LocksDoNotLeak` | `Spec /\ []OneCoordinator => []NoLeakedLock` |
| `CircuitBreaks` | `Spec /\ []OneCoordinator => []CircuitHolds` |
| `OneLoopSuffices` | `Spec => [](NoLeakedLock /\ CircuitHolds)`, if there is one loop |
| `LimitHolds` | `Spec /\ []OneCoordinator => ConcurrencyLimit` |
| `GatesBlock` | `Spec /\ []OneCoordinator => GateBlocksLoop` |
| `EscalationsHit` | `Spec /\ []OneCoordinator => EscalationHitsItsDispatch` |
| `DeliveryTypes` | `MessageDelivery`: `Spec => []TypeOK` |
| `NoWakeupIsLost` | `Spec => []NoLostWakeup` |
| `ConsumedIsSeen`, `DeliveredIsShown` | `Spec => []NothingConsumedUnseen`, `Spec => []DeliveredWasShown` |
| `NoHeartbeatOutlivesItsDispatch` | `Spec => []NoZombieHeartbeat` |
| `AskHearsAnswers` | `Spec => AnswerReachesAsk` |
| `NothingIsReplayed` | `Spec => NoReplay` |
| `HostTypes` | `TerminalHost`: `Spec => []TypeOK` |
| `InputOrdered`, `QueueFlushed` | `Spec => []InputInOrder`, `Spec => []QueueHasFlusher` |
| `ChildOwned` | `Spec => []OwnedChild` |
| `ImmediateKillsKept` | `Spec => []KillKeepsPromise` |
| `DoomedNeverAttached` | `Spec => NeverAttachDoomed` |
| `RelayTypes` | `RelaySession`: `Spec => []TypeOK` |
| `OnlyOneBroker` | `Spec => []OneBroker` |
| `NoForeignBroker` | `Spec => []BrokerFollowsAccount` |
| `NoRevocationLost` | `Spec => []RevokedByOwner` |
| `AutomationTypes` | `Automations`: `Spec => []TypeOK` |
| `LaunchedAtMostOnce` | `Spec => []LaunchedOnce` |
| `LiveRowKept` | `Spec => []LiveRunKept` |

**Orchestration.** *Two kinds of step.* `OrchestrationDb_proofs` shows that each
statement is `Orderly`: it keeps the type, the number of rows and whose they are, and
activates nothing. The one exception is `CreateDispatchContext`, which `Grants` one
new row on a terminal that was free. `DispatchLifecycle_proofs` lifts this to
`Next`: every step is `Orderly`, or is a `Dispatch`.

*The lock* is inductive together with `TypeOK`. An orderly step shrinks the set of
active rows; a granted row conflicts with no active one because `MayDispatch`
asked. Symmetry of `Conflicts` is needed here: the code compares the existing row
with the candidate in one direction only.

*The refinement* maps the rows to `holder` and the active rows to `held`. Orderly
steps are `Release` (or stutter), a dispatch is `Grant`.

*The owner.* A statement about task `t` keeps every other task (`KeptBut`): one
that is out afterwards was out before with the same rows, still active. A statement
may end the dispatch of `t` only if `t` itself leaves `dispatched`, possibly some
statements later in the same operation. So statements compose by `KeptBut`, and
the operation as a whole keeps every task (`AllKept`) because `t` ends up not out.
This is where the order inside `updateTaskStatus` and `createGate` is used. The
dispatch itself makes its new row the newest of its task.

*Reports.* A report that is believed names the newest dispatch of its task and that
row is active, so the "newest active" row that `completeActiveDispatchForTask` looks up
is the reported one (`ReportStep`); no invariant beyond the types is needed.

*Promotion.* Two invariants. `FreshTables`: a task that still waits has never had a
dispatch or a gate, one not yet created has no dependencies, and none depends on itself (a
task that did would be completed and promoted by the same statement); so the completion of
the last dependency finds the task `pending`. `UnreleasedHasNone`: a task that was never
released (not in `cleared`) has no dispatch and is in no state from which it could be handed
out; so no failure, late refusal or escalation, which all name a dispatch, can make it
`ready`. Every step is `Onward`: it sends no task back to wait and gives a waiting one
nothing to own. A step other than a completion is `Calm` on the waiting tasks, and one that
only blocks `Withholds`. An operator who writes `pending` by hand on a task that has a
dispatch breaks the first invariant, one who writes `dispatched` hands a task out without a
dispatch, hence the assumption.

Multi-way joins (a task with several dependencies) appear in TLC only with two
tasks; for the type, the lock and the owner the proofs cover them.

**Items in order.** A tick handles its unread messages, and a reader of the mailbox
reconciles its batch, one message after the other in a single step. The models write
this as a recursive function over `0 .. n`. Such a definition only chooses a function that
satisfies its equation; that one exists (`CourseExists`), and that what every message
keeps the whole batch keeps (`CourseKeeps`), is shown in `InOrder_proofs` by induction.
The library's induction theorems take a predicate as a parameter, which the provers
cannot instantiate, so the induction is stated for a *set* of numbers and rests on
`WFMin` (every nonempty set of numbers has a least one).

**The coordinator.** *Types.* That the slots a tick counts are a number needs the tasks
that are out to be finitely many, although `Tasks` may be infinite: `Backed` says each of
them has a dispatch row. Every statement but a dispatch `Retires`: it is `Orderly` and
takes no task out.

*Safety.* None of the five properties is inductive. `CoordInv` is, and has a part for each
place where something stale could be used:
* `Sound`, of the tables. `ActiveOut` says that an active dispatch is the newest of its
  task, its task is out and no gate is open on it. `Counts` says how failures add up:
  each dispatch of a task starts from the count of the one before, one that failed counts
  more, and the one that broke the circuit is the last. Hence the failed dispatches have
  different counts up to three, which bounds their number (`CircuitHolds`).
* `MailOK`, of the unread messages. Each is about the newest dispatch of its task, unless
  that was over when it was written.
* `LoopOK`, of a loop between its awaits. Every task of its snapshot is `Handable` (no
  active dispatch, and no gate open if it is ready), no unread message of an active
  dispatch is about one of them, and the tasks that are out together with its slots
  stay within the limit. The second is what makes `MailOK` inductive: a dispatch would make
  an unread message about the task's earlier dispatch hit the new one. A worker that
  writes after its dispatch ended is not covered by either, hence `Ended` in the property. A tick establishes all three because it reads the
  mail, blocks the gated tasks and queries the ready ones in one turn (`TickKeeps`).

Tasks with several gates are exempt (`Clean`, `Few`), as in the properties.

*The assumption.* `[]OneCoordinator` says that one loop runs at a time. The code means it
(`orchestration-gates.ts:8`), and run `one_coordinator` shows that a reset during a run
breaks it; then a second loop fills slots the first one counted. With one `Coordinator`
object it holds by itself (`OneLoopIsOneCoordinator`), so the theorems say of a runtime
that never runs two loops what the code does, resets and crashes included.

**Messages.** `DeliveryInv` is `TypeOK` and `NoLostWakeup` with three more parts. `RowsOK`
is about each row by itself: it was read only by a caller (`taken`) or as the heartbeat of a
dispatch that is over, and delivered only into the prompt. `PastedWhileOpen`: the rows a
pending Enter will mark are in the prompt as long as the terminal is open; without it
`PressEnter` could deliver what nobody saw. `NoAnswerBeforeAsk`: nobody is
answered who has not asked, so an ask that starts has no reply waiting. `ConsumeSettles` says what a read leaves of the rows,
whatever order its messages come in: rows are only marked, a dispatch only ends, and a
heartbeat that is left unread is of a dispatch that no report completed. A dispatch that
is closed without a report changes no row (`EndedRowsOK`).

**The terminal host.** *Input.* `InputInv` says of one session's input that it has its
type and satisfies `InOrder` and `HasFlusher` together: a queue that nothing will flush
would let the next write overtake it. Each operator of `SessionInput` has a lemma of
its own; the steps of the host only choose between them.

*Kills.* `KillKeepsPromise` is not inductive: that a request answered "ok" by the end of
an operation was not an immediate one depends on what the operation remembers.
`KillInv` adds that the session is the newest generation (`NewestGeneration`), that who
has joined has an operation to join, which knows when one of them is immediate
(`JoinedHasOperation`), and that whoever waits in a forced kill waits for a live
session (`ForcedIsAlive`). *Attach.* `DoomedInv` adds that a session that somebody
wants gone is marked `terminating` or is held by an operation, which is exactly what
`MayOpen` asks.

**The relay session.** The types carry one fact that is not a type: a call only waits for
a reconcile that still runs. It needs `LatestRuns` (the slot of `latestReconcile` is not
free), since a call that finds no broker goes on to await that one. Safety rests on
`OpeningIsCurrent`: if the reconcile that opens a broker is still the current one, then
the account it opens for is the account signed in and the earlier broker is already
closed. Hence a broker that is installed replaces nothing (`OneBroker`) and belongs to
the right account (`BrokerFollowsAccount`). `FlightOwned` extends `RevokedByOwner` to
what the outbox loop has yet to send.

**Automations.** *One launch.* Call a run `Committed` when it was launched in this life
of the process, or has a token or a job that may still launch it. Nothing is dispatched
that is committed: a manual run is new, and the run a pass finds for an occurrence is not
committed, because of `OnceInv`: the automation of a committed run has moved past its
occurrence, or will by the pass that handles it (`MovesOn`), and a pass that has yet to
come to that automation looks for a later occurrence. This uses that
`LatestAtOrBefore` finds the greatest and `NextAfter` the least occurrence (`LatestFound`,
`NextFound`), that `next` is itself an occurrence, and that only one pass is under way
(`PassInv`). A crash ends the commitment of every run and is what the bound `1 + crashes`
pays for. *Rows.* `JobInv` ties a job to its row: one job for a run, and a run that is
not final while the job is live (`RowOK`), so that retention, which takes final rows
(`PrunedRows`), passes it by; only the deletion of the automation takes it.

**Only model-checked:** the refinement `InputIsPipe`, because `InputPipe` states fairness
(its safety part is `InputOrdered`), and all liveness (`Converges`, `SentIsPushed`,
`KillIsAnswered`, `TerminationEnds`, `RevocationIsTried`, `UnwantedBrokerCloses`,
`DueIsEvaluated`), which the prover cannot express under fairness. Every invariant and
every other action property of a passing run is also a theorem.

## 5. Disagreements found

Each of these is a run in which TLC finds the documented claim violated by what the
code does.

* `stranded_task`: a task created after its dependencies completed stays `pending`
  for ever; promotion runs only when a dependency completes (`db.ts:571`,
  against `db.ts:673-675`).
* `gate_blocks`: a gate is created while the prompt of a dispatch is being written; the
  prompt is then refused, and `failDispatch` makes the gated task `ready` although the
  gate had ended that dispatch (`orchestration.ts:556`, `db.ts:892-893`, against
  `skills/orchestration/SKILL.md:108`). Before a loop's next tick blocks it again, or
  when no loop runs, it can be dispatched with its gate pending. The loop itself does not
  do so (`GateBlocksLoop`), since it blocks gated tasks in the turn that queries the ready
  ones; other dispatchers can.
* `circuit_breaker`: one terminal exit is counted by the exit handler, by the
  escalation it sends and by the refused prompt, so the circuit can break on the
  first attempt (`orca-runtime.ts:10566`, against `SKILL.md:124`).
* `one_coordinator`: `reset` deletes the run row of a live loop, and a second loop
  can start beside it (`db.ts:1052`, against `orchestration-gates.ts:8-9`).
* `pushed_once`: a second message within the half second before Enter types the
  first one again (`orca-runtime.ts:23370`, against `db.ts:426-427`).

Seen while modelling, without a run of their own. Some contradict a comment, which is
quoted; the others are what the models say the code does.

*Orchestration.*
* A gate can be created on a task that is still `pending`; resolving it makes the task
  `ready` while its dependencies are open (`db.ts:908`, `db.ts:930`), and it is handed out.
  Should its dispatch then fail, what the comment at `db.ts:887-890` says of a failed task,
  that its dependencies are already satisfied, is not true of it. `PromotionFollowsDeps`
  therefore counts a resolved gate as a decision that stands for the dependencies.
* A worker whose dispatch was ended by a gate, `task-update` or a refusal may still escalate:
  `orchestration.send` (`orchestration.ts:206-250`) has no guard, and `handleEscalation`
  (`coordinator.ts:311-323`) fails the task's newest dispatch, which may be a healthy retry
  on another terminal.
* `markAsReadAndDelivered` says that superseded lifecycle messages "must not be consumed or
  injected after their dispatch has finished" (`db.ts:492-493`). That is kept when a
  `worker_done` finishes the dispatch. When `task-update` or a gate does
  (`db.ts:804-821`, `db.ts:904`), its unread heartbeats stay, are read by `check` or typed
  into the coordinator's prompt, and a `worker_done` that follows is ignored before it
  would suppress them (`lifecycle-reconciliation.ts:211-219`).
* Text that was typed and lost with its terminal before Enter stays "queued (delivered_at
  still NULL) and will be re-delivered on the next idle transition"
  (`orca-runtime.ts:23380-23382`). It stays queued under a handle that no PTY has any more: a
  new PTY in the pane gets a new handle (`orca-runtime.ts:22924-22955`) and
  `deliverPendingMessages` asks for the rows of that one only. Hence the condition `pane.open` in
  `SentIsPushed`.
* `SKILL.md:98` says `check --wait` returns one message at a time, while
  `readAndReturn` returns all unread ones. After a restart of the runtime the run row
  still says `running` and blocks `orchestration.run` until a reset.

*Terminal daemon.* A request for an immediate kill that joins a teardown whose root
was already signalled starts a second forced kill, and nobody awaits its promise
(`terminal-session-teardown.ts:30`). If the child outlives the deadline the promise
rejects without a handler. The model keeps this in `unheard`.

*Relay session.*
* A token refresh whose context read is overtaken by any reconcile closes its broker,
  and the coordinator is not told (`relay-session-broker.ts:239-244`): it keeps the
  ownership, so later reconciles find "a broker of the same account" that is
  closed. `live` and `own` differ in this way only.
* A revocation that failed or timed out is sent again only when a broker opens or the
  phone is queued once more; that the control reconnects retries nothing, although
  `desktop-relay-service.ts:255-258` counts on it. Hence `RevocationIsTried` is about
  the first request.
* If the context read after a change of account fails, the broker of the earlier account
  stays, without a linger timer. Hence the exceptions for a failed epoch.
* In code around the model: a device that is removed while `createMobilePairingOffer`
  awaits its pairing relay leaves the invite behind (`runtime-rpc.ts:779-783`).

*Automations.*
* An automation deleted while a server awaits its launch makes the update throw, and the
  rest of the pass waits for the next tick. The rejection of `void evaluateDueRuns()`
  is not handled.
* After a reload of the window the service still believes it ready; a run whose handler
  was lost stays `dispatching` for ever.
* A crash between a run's last update and `advanceAutomationNextRun` dispatches the
  same, final run again, although `automations-types.ts:20` calls these "statuses a
  run can never leave"; retention may take its row while it works.
* An automation that is disabled while a pass is under way still runs in that pass.
* Two marks of one run that overlap both collect its usage: `service.ts:141-145` guards
  only marks in sequence (usage is outside the model).

## 6. Not modelled

* Formatting, preambles, groups: no state. Group sends are single sends to each
  member.
* Messages between other terminals, `inbox` and `check --peek`: they change nothing
  here.
* The reset of the messages table and a coordinator handle that changes in mid-run.
* Terminal daemon: the final checkpoint of a shutdown (`onFinalCheckpoint` is passed only by
  tests, so `Dispose` leaves the output scan alone), resize, output records and
  snapshots, flow control of producers, the
  socket protocol, the daemon's own restart.
* Relay: the origin pool's leases, drains and rotations, new bindings by pairing,
  tunnels and byte streams. Every phone here is bound before the session starts, so a
  phone that is provisioned again while an item of its earlier binding is pending
  does not occur.
* Automations: collection of usage, edits of a schedule, runs in an existing workspace
  and the reuse of its session, external automation managers, the expiry of tokens
  by time (giving up covers its effect). `CreateStarts` does not ask whether the run has a
  workspace yet (`workspace-provenance.ts:61`), so the model creates one in at least the
  cases in which the code does.
* The SSH relay (`src/relay/`): not begun.
* Renderer, layout, source control, issue trackers: views and wrappers of external
  commands. They are most of the repository's lines; little of them keeps state that
  a protocol depends on, so the modelled share of all lines stays small.

## 7. Plan

1. `RelayOriginPool`: drain, rotation, rebind and retry timer of origins, as the
   detailed form of RelaySession's one control. Properties: a draining origin is left
   in the end; a stopped pool opens nothing.
2. `RelayDispatcher` of the SSH relay: client generations. Property: no answer or
   side effect of an earlier generation reaches a later one.
3. Proofs for both, as for the components above: types first, then the invariant that
   ties what is under way to the generation or the origin it was begun for.
