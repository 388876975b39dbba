----------------------------- MODULE Automations ------------------------------
(***************************************************************************)
(* Scheduled and manual runs of automations.  A pass over the due          *)
(* automations (every minute, and when the window is ready) finds the      *)
(* latest occurrence, creates its run or finds it, has it dispatched, and  *)
(* moves the automation's next run time on.  In a window the renderer's    *)
(* handler creates a workspace with a one-time token and launches the      *)
(* agent; a headless server does it itself, and its pass awaits that.      *)
(* Results are marked by whoever notices the end first.                    *)
(*                                                                         *)
(* What runs without an await is one turn of the event loop: nothing but a *)
(* crash comes between its steps (Quiet).  Every automation here has a     *)
(* precheck, creates a workspace per run and keeps its schedule.           *)
(***************************************************************************)
EXTENDS Naturals, FiniteSets

CONSTANTS
    Autos,          \* automations, numbered in the order of their names
    Created,        \* those there are at first, on a server (TRUE) and in a window
    Passes,         \* evaluations that may be under way
    Occurrences,    \* times at which the schedule fires
    Grace,          \* how late an occurrence may still run
    Retained,       \* final runs kept for an automation
    MaxTime,        \* bound: the clock
    MaxRuns,        \* bound: runs created
    MaxManual,      \* bound: runs started by hand
    MaxCrashes      \* bound: restarts

ASSUME AutomationsAssumption ==
    /\ {Grace, Retained, MaxTime, MaxRuns, MaxManual, MaxCrashes} \subseteq Nat
    /\ Occurrences \subseteq 1 .. MaxTime
    /\ Autos \subseteq Nat \ {0} /\ "none" \notin Passes
    /\ Created \in [BOOLEAN -> SUBSET Autos]

VARIABLES
    headless,   \* a server without a window
    now,
    ready,      \* the window's renderer has said it is ready
    auto,       \* automation -> its row
    run,        \* run -> its row
    evaluating,
    pass,       \* evaluation -> where it is
    jobs,       \* dispatches under way, agents watched, results to mark
    token,      \* run -> its dispatch token
    launches,   \* run -> agents launched for it
    manual, crashes     \* counters of the bounds

sender == <<ready, jobs, token>>
counters == <<manual, crashes>>
vars == <<headless, now, auto, run, evaluating, pass, sender, launches, counters>>

Runs == 1 .. MaxRuns
\* "final" stands for completed, dispatch_failed and every skipped_ status.
Statuses == {"none", "gone", "pending", "dispatching", "dispatched", "final"}
Stored(r) == run[r].status \notin {"none", "gone"}

IdlePass == [pc |-> "idle", todo |-> {}, since |-> 0, auto |-> 0, run |-> 0]
NoAutoRow == [exists |-> FALSE, enabled |-> FALSE, next |-> 0]
NoRun == [auto |-> 0, at |-> 0, status |-> "none"]
GoneRun == [NoRun EXCEPT !.status = "gone"]

\* A job's pass is the one that awaits it, its `found` the status its run had when the
\* dispatch began.
Live == {"precheck", "launch", "started", "sent", "create", "agent"}
Job == [run : Runs, auto : Autos, pc : Live \cup {"done"}, pass : Passes \cup {"none"},
        found : Statuses]

\* Types; a pass is under way exactly while `evaluating` is set, and a token is left
\* only of a run that is being dispatched.
TypeOK ==
    /\ headless \in BOOLEAN /\ now \in 0 .. MaxTime /\ ready \in BOOLEAN
    /\ auto \in [Autos -> [exists : BOOLEAN, enabled : BOOLEAN, next : 0 .. MaxTime + 1]]
    /\ run \in [Runs -> [auto : Autos \cup {0}, at : {0} \cup Occurrences,
                         status : Statuses]]
    /\ pass \in [Passes -> [pc : {"idle", "going", "dispatch", "awaits", "advance"},
                            todo : SUBSET Autos, since : 0 .. MaxTime, auto : {0} \cup Autos,
                            run : {0} \cup Runs]]
    /\ evaluating = (\E p \in Passes : pass[p].pc # "idle")
    /\ jobs \subseteq Job
    /\ token \in [Runs -> {"none", "free", "used"}]
    /\ \A r \in Runs : token[r] # "none" /\ Stored(r) => run[r].status = "dispatching"
    /\ launches \in [Runs -> Nat]
    /\ manual \in 0 .. MaxManual /\ crashes \in 0 .. MaxCrashes

LatestAtOrBefore(t) == CHOOSE o \in Occurrences :
    o =< t /\ \A q \in Occurrences : q =< t => q =< o
NextAfter(t) ==
    LET coming == {o \in Occurrences : o > t} IN
    IF coming = {} THEN MaxTime + 1 ELSE CHOOSE o \in coming : \A q \in coming : o =< q

Init ==
    /\ headless \in BOOLEAN /\ now = 0 /\ ready = FALSE
    /\ auto = [a \in Autos |->
                 IF a \in Created[headless]
                 THEN [exists |-> TRUE, enabled |-> TRUE, next |-> NextAfter(0)]
                 ELSE NoAutoRow]
    /\ run = [r \in Runs |-> NoRun]
    /\ evaluating = FALSE /\ pass = [p \in Passes |-> IdlePass]
    /\ jobs = {} /\ token = [r \in Runs |-> "none"]
    /\ launches = [r \in Runs |-> 0]
    /\ manual = 0 /\ crashes = 0

-----------------------------------------------------------------------------
(* The store.  A run's id is the order of its creation.                    *)

\* Mutant of Pruned: retention spares only the runs that have not started.
PrunedUnlessPending(rows) ==
    [r \in Runs |->
        LET started == {s \in Runs : /\ rows[s].status \notin {"none", "gone", "pending"}
                                     /\ rows[s].auto = rows[r].auto} IN
        IF r \in started /\ Cardinality({s \in started : s > r}) >= Retained
        THEN GoneRun ELSE rows[r]]

\* pruneAutomationRuns(): of the final runs of an automation only the newest are kept.
Pruned(rows) ==
    [r \in Runs |->
        LET newer == {s \in Runs : /\ s > r /\ rows[s].status = "final"
                                   /\ rows[s].auto = rows[r].auto} IN
        IF rows[r].status = "final" /\ Cardinality(newer) >= Retained
        THEN GoneRun ELSE rows[r]]

\* createAutomationRun(): the rows with run r of the occurrence, which may exist.
\* (Manual runs are created for the present millisecond, here 0, and never exist.)
CreateAutomationRun(r, a, at) ==
    LET existing == {s \in Runs : Stored(s) /\ run[s].auto = a /\ run[s].at = at /\ at # 0} IN
    IF existing # {} THEN IF r \in existing THEN {run} ELSE {}
    ELSE IF run[r].status = "none" /\ \A s \in 1 .. r - 1 : run[s].status # "none"
         THEN {Pruned([run EXCEPT ![r] = [auto |-> a, at |-> at, status |-> "pending"]])}
         ELSE {}

\* updateAutomationRun(), which throws when the run is not stored.
Update(rows, r, status) ==
    IF rows[r].status \in {"none", "gone"} THEN rows ELSE [rows EXCEPT ![r].status = status]

-----------------------------------------------------------------------------
(* A pass over the due automations.                                        *)

Due(a) == auto[a].exists /\ auto[a].enabled /\ auto[a].next =< now
Quiet == \A p \in Passes : pass[p].pc \in {"idle", "awaits"}
\* Mutant of MayStart: a pass does not look whether one is under way.
MayStartAnother == TRUE

MayStart == evaluating = FALSE

StartPass(p) ==
    /\ Quiet /\ MayStart /\ pass[p].pc = "idle"
    /\ p = CHOOSE q \in Passes : pass[q].pc = "idle"
    /\ \E a \in Autos : Due(a)
    /\ evaluating' = TRUE
    /\ pass' = [pass EXCEPT ![p] = [pc |-> "going", todo |-> {a \in Autos : Due(a)},
                                   since |-> now, auto |-> 0, run |-> 0]]
    /\ UNCHANGED <<headless, now, auto, run, sender, launches, counters>>

\* What was due when the pass began is evaluated, also if it was disabled or deleted since.
CreateRun(p, a) ==
    /\ pass[p].pc = "going" /\ a \in pass[p].todo /\ \A b \in pass[p].todo : a =< b
    /\ \E r \in Runs :
          /\ run' \in CreateAutomationRun(r, a, LatestAtOrBefore(pass[p].since))
          /\ pass' = [pass EXCEPT ![p].pc = "dispatch", ![p].todo = @ \ {a},
                                   ![p].auto = a, ![p].run = r]
    /\ UNCHANGED <<headless, now, auto, evaluating, sender, launches, counters>>

InGrace(p) == pass[p].since - run[pass[p].run].at =< Grace

SkipMissed(p) ==
    /\ pass[p].pc = "dispatch" /\ ~InGrace(p)
    /\ run' = Update(run, pass[p].run, "final")
    /\ pass' = [pass EXCEPT ![p].pc = "advance"]
    /\ UNCHANGED <<headless, now, auto, evaluating, sender, launches, counters>>

\* requestDispatch() of run r of rows, awaited by the pass `by` or by a caller: there may
\* be no target or no window, the window is told, or the server begins by itself.
RequestDispatch(rows, r, by) ==
    \/ /\ run' = Update(rows, r, "final") /\ UNCHANGED <<jobs, token>>
    \/ /\ ready
       /\ run' = Update(rows, r, "dispatching") /\ token' = [token EXCEPT ![r] = "free"]
       /\ jobs' = jobs \cup {[run |-> r, auto |-> rows[r].auto, pc |-> "sent", pass |-> "none",
                              found |-> rows[r].status]}
    \/ /\ headless /\ auto[rows[r].auto].exists /\ run' = rows /\ UNCHANGED token
       /\ jobs' = jobs \cup {[run |-> r, auto |-> rows[r].auto, pass |-> by,
                              found |-> rows[r].status,
                              pc |-> IF rows[r].at = 0 THEN "launch" ELSE "precheck"]}

DispatchDue(p) ==
    /\ pass[p].pc = "dispatch" /\ InGrace(p)
    /\ RequestDispatch(run, pass[p].run, p)
    /\ pass' = [pass EXCEPT ![p].pc = IF \E j \in jobs' : j.pass = p THEN "awaits"
                                                              ELSE "advance"]
    /\ UNCHANGED <<headless, now, ready, auto, evaluating, launches, counters>>

PassEnds(p) == pass' = [pass EXCEPT ![p] = IdlePass] /\ evaluating' = FALSE

\* Mutant of PassThrows: the flag is not reset in a finally.
PassThrowsUnreset(p) == pass' = [pass EXCEPT ![p] = IdlePass] /\ UNCHANGED evaluating

\* A throw abandons the automations that are left, and the finally resets the flag.
PassThrows(p) == PassEnds(p)

\* runPrecheck() finds no automation.
PrecheckThrows(p) ==
    /\ pass[p].pc = "dispatch" /\ InGrace(p) /\ headless
    /\ ~auto[pass[p].auto].exists
    /\ PassThrows(p)
    /\ UNCHANGED <<headless, now, auto, run, sender, launches, counters>>

\* advanceAutomationNextRun(), which throws when the automation is gone; then the next
\* automation, or the end of the pass.
AdvanceNextRun(p) ==
    LET a == pass[p].auto IN
    /\ pass[p].pc = "advance"
    /\ auto' = IF auto[a].exists THEN [auto EXCEPT ![a].next = NextAfter(pass[p].since)]
               ELSE auto
    /\ IF ~auto[a].exists THEN PassThrows(p)
       ELSE IF pass[p].todo = {} THEN PassEnds(p)
       ELSE pass' = [pass EXCEPT ![p].pc = "going"] /\ UNCHANGED evaluating
    /\ UNCHANGED <<headless, now, run, sender, launches, counters>>

\* runNow().
RunNow(a) ==
    /\ Quiet /\ auto[a].exists /\ manual < MaxManual /\ manual' = manual + 1
    /\ \E r \in Runs : \E rows \in CreateAutomationRun(r, a, 0) : RequestDispatch(rows, r, "none")
    /\ UNCHANGED <<headless, now, ready, auto, evaluating, pass, launches, crashes>>

-----------------------------------------------------------------------------
(* Results.  markDispatchResult() stores the status and clears the token.  *)
(* The collection of the usage of a final run, which writes the row again  *)
(* with that status, is left out.                                          *)

\* Mutant of Mark: the token is left to expire.
MarkKeepsToken(r, status) == run' = Update(run, r, status) /\ UNCHANGED token

Mark(r, status) ==
    /\ run' = Update(run, r, status)
    /\ token' = IF Stored(r) THEN [token EXCEPT ![r] = "none"] ELSE token

Becomes(j, pc) == jobs' = (jobs \ {j}) \cup {[j EXCEPT !.pc = pc]}

\* The agent of a run is launched, in a workspace of its own.
LaunchAgent(j) ==
    /\ Quiet /\ j.pc = "launch" /\ Becomes(j, "started")
    /\ launches' = [launches EXCEPT ![j.run] = @ + 1]
    /\ UNCHANGED <<headless, now, ready, auto, run, evaluating, pass, token, counters>>

\* It says it is done, or exits; the handler that launched it, or the server, marks that.
AgentDone(j) ==
    /\ Quiet /\ j.pc = "agent" /\ Becomes(j, "done")
    /\ UNCHANGED <<headless, now, ready, auto, run, evaluating, pass, token, launches, counters>>

MarkEnd(j) ==
    /\ Quiet /\ j.pc = "done" /\ jobs' = jobs \ {j}
    /\ Mark(j.run, "final")
    /\ UNCHANGED <<headless, now, ready, auto, evaluating, pass, launches, counters>>

\* The page marks a dispatched run whose agent it sees done, watched or not.
PageMarks(r) ==
    /\ Quiet /\ ready /\ run[r].status = "dispatched"
    /\ ~\E j \in jobs : j.run = r /\ j.pc = "agent"
    /\ Mark(r, "final")
    /\ UNCHANGED <<headless, now, ready, auto, evaluating, pass, jobs, launches, counters>>

-----------------------------------------------------------------------------
(* A headless server: the pass awaits the precheck and the launch.         *)

\* The result is stored, and the pass goes on unless that threw.
Settle(j, status) ==
    /\ run' = Update(run, j.run, status)
    /\ IF j.pass = "none" THEN UNCHANGED <<pass, evaluating>>
       ELSE IF Stored(j.run)
       THEN pass' = [pass EXCEPT ![j.pass].pc = "advance"] /\ UNCHANGED evaluating
       ELSE PassThrows(j.pass)

PrecheckPasses(j) ==
    /\ Quiet /\ headless /\ j.pc = "precheck" /\ Becomes(j, "launch")
    /\ UNCHANGED <<headless, now, ready, auto, run, evaluating, pass, token, launches, counters>>

PrecheckFails(j) ==
    /\ Quiet /\ headless /\ j.pc = "precheck"
    /\ jobs' = jobs \ {j} /\ Settle(j, "final")
    /\ UNCHANGED <<headless, now, ready, auto, token, launches, counters>>

\* The workspace cannot be created, or no agent terminal is reported.
HeadlessFails(j) ==
    /\ Quiet /\ headless /\ j.pc \in {"launch", "started"}
    /\ jobs' = jobs \ {j} /\ Settle(j, "final")
    /\ UNCHANGED <<headless, now, ready, auto, token, launches, counters>>

\* The launch returns; its completion is watched only if the run is still stored.
HeadlessReturns(j) ==
    /\ Quiet /\ headless /\ j.pc = "started" /\ Settle(j, "dispatched")
    /\ jobs' = (jobs \ {j}) \cup (IF Stored(j.run) THEN {[j EXCEPT !.pc = "agent",
                                                             !.pass = "none"]}
                                ELSE {})
    /\ UNCHANGED <<headless, now, ready, auto, token, launches, counters>>

-----------------------------------------------------------------------------
(* A window: its handler of automations:dispatchRequested.                 *)

\* The handler skips the run, or fails before, in or after the creation of the workspace.
HandlerGivesUp(j) ==
    /\ Quiet /\ ~headless /\ j.pc \in {"sent", "create", "launch"}
    /\ jobs' = jobs \ {j}
    /\ Mark(j.run, "final")
    /\ UNCHANGED <<headless, now, ready, auto, evaluating, pass, launches, counters>>

\* resolveAutomationWorkspaceProvenance(): a workspace is created once for a token, and
\* only for a run that is being dispatched; otherwise, or when the token has expired,
\* the handler gives up.  (That the run has no workspace yet is not asked here:
\* one more run may get one than in the code.)
CreateStarts(j) ==
    /\ Quiet /\ ~headless /\ j.pc = "sent" /\ Becomes(j, "create")
    /\ auto[j.auto].exists /\ run[j.run].status = "dispatching"
    /\ token[j.run] = "free" /\ token' = [token EXCEPT ![j.run] = "used"]
    /\ UNCHANGED <<headless, now, ready, auto, run, evaluating, pass, launches, counters>>

CreateEnds(j) ==
    /\ Quiet /\ ~headless /\ j.pc = "create" /\ Becomes(j, "launch")
    /\ token' = [token EXCEPT ![j.run] = "none"]
    /\ UNCHANGED <<headless, now, ready, auto, run, evaluating, pass, launches, counters>>

\* The handler says the run is dispatched; if that throws it has nothing left to mark.
MarkDispatched(j) ==
    /\ Quiet /\ ~headless /\ j.pc = "started" /\ Mark(j.run, "dispatched")
    /\ jobs' = (jobs \ {j}) \cup (IF Stored(j.run) THEN {[j EXCEPT !.pc = "agent"]} ELSE {})
    /\ UNCHANGED <<headless, now, ready, auto, evaluating, pass, launches, counters>>

-----------------------------------------------------------------------------
(* The user, the window and the clock.                                     *)

Tick ==
    /\ Quiet /\ now < MaxTime /\ now' = now + 1
    /\ UNCHANGED <<headless, auto, run, evaluating, pass, sender, launches, counters>>

RendererReady ==
    /\ Quiet /\ ~headless /\ ~ready /\ ready' = TRUE
    /\ UNCHANGED <<headless, now, auto, run, evaluating, pass, jobs, token, launches, counters>>

\* The window is closed, or reloads: then the service believes it ready all the while.
RendererGone ==
    /\ Quiet /\ ready /\ ready' \in BOOLEAN /\ jobs' = {}
    /\ UNCHANGED <<headless, now, auto, run, evaluating, pass, token, launches, counters>>

SetEnabled(a) ==
    /\ Quiet /\ auto[a].exists /\ auto' = [auto EXCEPT ![a].enabled = ~@]
    /\ UNCHANGED <<headless, now, run, evaluating, pass, sender, launches, counters>>

DeleteAutomation(a) ==
    /\ Quiet /\ auto[a].exists /\ auto' = [auto EXCEPT ![a] = NoAutoRow]
    /\ run' = [r \in Runs |-> IF run[r].auto = a THEN GoneRun ELSE run[r]]
    /\ UNCHANGED <<headless, now, evaluating, pass, sender, launches, counters>>

\* The process is killed and started again: the store is what it was.
Crash ==
    /\ crashes < MaxCrashes /\ crashes' = crashes + 1
    /\ ready' = FALSE /\ evaluating' = FALSE /\ pass' = [p \in Passes |-> IdlePass]
    /\ jobs' = {} /\ token' = [r \in Runs |-> "none"]
    /\ UNCHANGED <<headless, now, auto, run, launches, manual>>

-----------------------------------------------------------------------------
PassStep(p) ==
    \/ \E a \in Autos : CreateRun(p, a)
    \/ SkipMissed(p) \/ DispatchDue(p) \/ PrecheckThrows(p) \/ AdvanceNextRun(p)
HeadlessStep(j) ==
    \/ PrecheckPasses(j) \/ PrecheckFails(j) \/ HeadlessFails(j) \/ HeadlessReturns(j)
WindowStep(j) ==
    \/ HandlerGivesUp(j) \/ CreateStarts(j) \/ CreateEnds(j) \/ MarkDispatched(j)

Next ==
    \/ \E p \in Passes : StartPass(p) \/ PassStep(p)
    \/ \E a \in Autos : RunNow(a) \/ SetEnabled(a) \/ DeleteAutomation(a)
    \/ \E j \in jobs : HeadlessStep(j) \/ WindowStep(j) \/ LaunchAgent(j) \/ AgentDone(j)
                        \/ MarkEnd(j)
    \/ \E r \in Runs : PageMarks(r)
    \/ Tick \/ RendererReady \/ RendererGone \/ Crash

Spec == Init /\ [][Next]_vars

\* The timer fires again and again, a pass goes on in its own turn, a precheck has a
\* timeout, and the creation of a workspace is taken to return.  The user, the window
\* and the agents owe nothing.
Awaited == {j \in jobs : j.pass # "none"}
Fairness ==
    /\ WF_vars(\E p \in Passes : StartPass(p) \/ PassStep(p))
    /\ WF_vars(\E j \in Awaited : HeadlessStep(j) \/ LaunchAgent(j))
FairSpec == Spec /\ Fairness

-----------------------------------------------------------------------------
(* Properties.                                                             *)

\* An agent is launched for a run once, and once more at most for every crash: neither a
\* pass that overlaps another, nor a run found again, nor a lost window launches it twice.
LaunchedOnce == \A r \in Runs : launches[r] =< 1 + crashes

\* While a run is dispatched and its agent works, its row stays, unless its automation
\* was deleted: retention takes only what is final, so its result finds it.  (A run that
\* was final already, and is dispatched again after a crash came before the automation
\* moved on, can be taken.)
LiveRunKept ==
    \A j \in jobs :
        j.pc \in Live /\ j.found # "final" => Stored(j.run) \/ ~auto[j.auto].exists

\* A due automation is evaluated, whatever another one's run, deletion or crash does: a
\* pass that throws does not keep the later ones out.
DueIsEvaluated == \A a \in Autos : Due(a) ~> ~Due(a)

=============================================================================
