---------------------------- MODULE TerminalHost -----------------------------
(***************************************************************************)
(* The terminal daemon's host, for one session id: create or attach, write *)
(* input, kill gracefully or at once, and shut the host down.  A session   *)
(* owns one child process.  Killing an agent first captures its            *)
(* descendants, and the teardown operation holds the id meanwhile; killing *)
(* at once sends SIGKILL, retries it once and waits for the child's exit.  *)
(* The operating system may refuse a signal, and a child may outlive one.  *)
(*                                                                         *)
(* JavaScript runs one turn at a time.  A turn starts at a request, at a   *)
(* timer, at the end of the capture, at output or at the child's exit.     *)
(* Sessions with different ids share nothing but the shutdown.             *)
(***************************************************************************)
EXTENDS SessionInput

CONSTANTS
    Clients,        \* stream clients that attach to the session
    Calls,          \* kill requests
    NoClient,
    MaxGenerations, \* bound: children spawned under the id
    MaxWrites,      \* bound: writes to one session
    MaxRefusals     \* bound: signals that the operating system refuses

ASSUME HostAssumption ==
    /\ NoClient \notin Clients
    /\ Calls \cap {"op", "shutdown"} = {}
    /\ {MaxGenerations, MaxRefusals} \subseteq Nat
    /\ MaxWrites \in Nat \ {0}

VARIABLES
    alive,      \* generations whose child process has not exited
    doomed,     \* generations whose child accepted a SIGKILL
    spawned,    \* how many children were spawned
    sess,       \* the session in the host's map
    input,      \* its input
    op,         \* the teardown operation that holds the id
    call,       \* kill request -> where it is
    force,      \* owner -> where its forceKillAndWaitForExit is
    fenced,     \* creation is fenced: the host shuts down
    refused,    \* signals refused so far
    unheard     \* a forced kill failed and nobody awaits its promise

vars == <<alive, doomed, spawned, sess, input, op, call, force, fenced, refused, unheard>>

Generations == 1 .. MaxGenerations
Owners == Calls \cup {"op", "shutdown"}

\* gen: 0 when the map has no session.  killTimer: attempts the force-kill fallback has
\* left, 0 when it is not armed.
Session == [gen : 0 .. MaxGenerations, agent : BOOLEAN, terminating : BOOLEAN,
            killTimer : 0 .. 2, forceSent : BOOLEAN, client : Clients \cup {NoClient}]

NoSession == [gen |-> 0, agent |-> FALSE, terminating |-> FALSE,
              killTimer |-> 0, forceSent |-> FALSE, client |-> NoClient]

\* signalled: the operation signalled the root, by a forced kill it now waits for.
Operation == [held : BOOLEAN, immediate : BOOLEAN, signalled : BOOLEAN]

NoOp == [held |-> FALSE, immediate |-> FALSE, signalled |-> FALSE]

\* A request waits for the operation it joined or for its own forced kill.
Call == [pc : {"idle", "joined", "forcing", "ok", "failed"},
         immediate : BOOLEAN, gen : 0 .. MaxGenerations]

TypeOK ==
    /\ alive \subseteq Generations /\ doomed \subseteq Generations
    /\ spawned \in 0 .. MaxGenerations
    /\ sess \in Session
    /\ input \in Input /\ input.sent =< MaxWrites
    /\ op \in Operation
    /\ call \in [Calls -> Call]
    /\ force \in [Owners -> {"none", "retry", "exit"}]
    /\ fenced \in BOOLEAN /\ unheard \in BOOLEAN
    /\ refused \in 0 .. MaxRefusals

Init ==
    /\ alive = {} /\ doomed = {} /\ spawned = 0
    /\ sess = NoSession /\ input = NewInput(FALSE)
    /\ op = NoOp
    /\ call = [c \in Calls |-> [pc |-> "idle", immediate |-> FALSE, gen |-> 0]]
    /\ force = [o \in Owners |-> "none"]
    /\ fenced = FALSE /\ refused = 0 /\ unheard = FALSE

IsAlive == sess.gen # 0

-----------------------------------------------------------------------------
(* Create, attach and input.                                               *)

\* Mutant of MayOpen: only the shutdown fences a session.
MayOpenUnlessFenced == ~fenced

MayOpen == ~fenced /\ ~op.held /\ ~(IsAlive /\ sess.terminating)

Attach(cl) ==
    /\ MayOpen /\ IsAlive /\ sess.client # cl
    /\ sess' = [sess EXCEPT !.client = cl]
    /\ UNCHANGED <<alive, doomed, spawned, input, op, call, force, fenced, refused, unheard>>

\* command: a startup command that the shell's arguments do not carry.
Create(cl, agent, supported, command) ==
    /\ MayOpen /\ ~IsAlive /\ spawned < MaxGenerations
    /\ spawned' = spawned + 1
    /\ alive' = alive \cup {spawned'}
    /\ sess' = [gen |-> spawned', agent |-> agent, terminating |-> FALSE,
                killTimer |-> 0, forceSent |-> FALSE, client |-> cl]
    /\ input' = IF command THEN Accept(NewInput(supported)) ELSE NewInput(supported)
    /\ UNCHANGED <<doomed, op, call, force, fenced, refused, unheard>>

InputOnly == UNCHANGED <<alive, doomed, spawned, sess, op, call, force, fenced, refused, unheard>>

Write ==
    /\ IsAlive /\ input.sent < MaxWrites
    /\ input' = Accept(input)
    /\ InputOnly

ReadyMarker(prompt) ==
    /\ IsAlive /\ input.shell = "pending" /\ input.scan
    /\ input' = TransitionToReady(input, prompt)
    /\ InputOnly

Output ==
    /\ IsAlive /\ ~(input.shell = "pending" /\ input.scan)
    /\ input' = NotifyData(input)
    /\ InputOnly

\* takePendingOutput for a teardown, and the checkpoint of a shutdown.
FinalSnapshot ==
    /\ IsAlive
    /\ input' = PrepareForFinalSnapshot(input)
    /\ InputOnly

ReadyTimer ==
    /\ IsAlive /\ input.shell = "pending"
    /\ input' = ShellReadyTimeout(input)
    /\ InputOnly

GateTimer ==
    /\ IsAlive /\ IsPending(input.gate)
    /\ input' = GateFires(input)
    /\ InputOnly

-----------------------------------------------------------------------------
(* Signals.                                                                *)

Refuse == refused < MaxRefusals /\ refused' = refused + 1

\* requestForceKill: nothing to do when SIGKILL was sent before, else it is
\* accepted or refused by the system.
ForceKillSent ==
    \/ sess.forceSent /\ UNCHANGED <<doomed, refused>>
    \/ ~sess.forceSent /\ doomed' = doomed \cup {sess.gen} /\ UNCHANGED refused

ForceKillRefused == ~sess.forceSent /\ Refuse /\ UNCHANGED doomed

\* The start of forceKillAndWaitForExit for an owner.
StartForce(o) ==
    \/ /\ ForceKillSent
       /\ sess' = [sess EXCEPT !.terminating = TRUE, !.forceSent = TRUE]
       /\ force' = [force EXCEPT ![o] = "exit"]
    \/ /\ ForceKillRefused
       /\ sess' = [sess EXCEPT !.terminating = TRUE]
       /\ force' = [force EXCEPT ![o] = "retry"]

\* The promise of the operation settles for every request that joined it.
Settle(answer) ==
    call' = [c \in Calls |-> IF call[c].pc = "joined" THEN [call[c] EXCEPT !.pc = answer]
                             ELSE call[c]]

\* The forced kill of an owner failed.  A request that joined the operation was
\* given the operation's promise: no one awaits the one of its own forced kill.
ForceFails(o) ==
    /\ force' = [force EXCEPT ![o] = "none"]
    /\ \/ o = "op" /\ Settle("failed") /\ op' = NoOp /\ UNCHANGED unheard
       \/ o = "shutdown" /\ UNCHANGED <<op, call, unheard>>
       \/ /\ o \in Calls /\ call[o].pc = "forcing"
          /\ call' = [call EXCEPT ![o].pc = "failed"]
          /\ UNCHANGED <<op, unheard>>
       \/ /\ o \in Calls /\ call[o].pc # "forcing"
          /\ unheard' = TRUE
          /\ UNCHANGED <<op, call>>

-----------------------------------------------------------------------------
(* kill(sessionId, { immediate }).                                         *)

Asks(c, pc, immediate) ==
    call' = [call EXCEPT ![c] = [pc |-> pc, immediate |-> immediate, gen |-> spawned]]

\* Mutant of RequestImmediate: before the root is signalled it only waits.
RequestImmediateJoins(c) ==
    /\ op.held
    /\ Asks(c, "joined", TRUE)
    /\ IF op.signalled /\ IsAlive THEN StartForce(c)
                                  ELSE UNCHANGED <<doomed, sess, force, refused>>
    /\ UNCHANGED op

\* An operation holds the id: the request joins it.  When its root was already
\* signalled, an immediate request starts a forced kill of its own as well.
RequestImmediate(c) ==
    /\ op.held
    /\ Asks(c, "joined", TRUE)
    /\ op' = [op EXCEPT !.immediate = TRUE]
    /\ IF op.signalled /\ IsAlive THEN StartForce(c)
                                  ELSE UNCHANGED <<doomed, sess, force, refused>>

JoinGraceful(c) ==
    /\ op.held
    /\ Asks(c, "joined", FALSE)
    /\ UNCHANGED <<doomed, sess, force, refused, op>>

KillAgentSession(c, immediate) ==
    /\ ~op.held /\ IsAlive /\ sess.agent
    /\ \/ /\ ~sess.terminating
          /\ Asks(c, "joined", immediate)
          /\ op' = [held |-> TRUE, immediate |-> immediate, signalled |-> FALSE]
          /\ sess' = [sess EXCEPT !.terminating = TRUE,
                                  !.killTimer = IF immediate \/ @ > 0 THEN @ ELSE 2]
          /\ UNCHANGED <<doomed, force, refused>>
       \/ /\ sess.terminating /\ immediate
          /\ Asks(c, "forcing", TRUE)
          /\ StartForce(c) /\ UNCHANGED op
       \/ /\ sess.terminating /\ ~immediate
          /\ Asks(c, "ok", FALSE)
          /\ UNCHANGED <<doomed, sess, force, refused, op>>

\* session.kill() of a plain shell: a refused signal leaves the session as it was.
KillShell(c) ==
    /\ ~op.held /\ IsAlive /\ ~sess.agent
    /\ \/ /\ sess.terminating /\ Asks(c, "ok", FALSE)
          /\ UNCHANGED <<sess, refused>>
       \/ /\ ~sess.terminating /\ Asks(c, "ok", FALSE)
          /\ sess' = [sess EXCEPT !.terminating = TRUE,
                                  !.killTimer = IF @ > 0 THEN @ ELSE 2]
          /\ UNCHANGED refused
       \/ /\ ~sess.terminating /\ Asks(c, "failed", FALSE) /\ Refuse
          /\ sess' = [sess EXCEPT !.killTimer = 0]
    /\ UNCHANGED <<doomed, force, op>>

KillShellNow(c) ==
    /\ ~op.held /\ IsAlive /\ ~sess.agent
    /\ Asks(c, "forcing", TRUE)
    /\ StartForce(c) /\ UNCHANGED op

Kill(c) ==
    /\ call[c].pc = "idle"
    /\ \/ RequestImmediate(c) \/ JoinGraceful(c)
       \/ \E immediate \in BOOLEAN : KillAgentSession(c, immediate)
       \/ KillShell(c) \/ KillShellNow(c)
    /\ UNCHANGED <<alive, spawned, input, fenced, unheard>>

-----------------------------------------------------------------------------
(* The capture of descendants ends, and the root is signalled.             *)

\* Mutant of SweepEnds: the operation of a child that exited meanwhile stays.
SweepEndsIfAlive ==
    /\ op.held /\ ~op.signalled /\ IsAlive
    /\ \/ /\ op.immediate
          /\ op' = [op EXCEPT !.signalled = TRUE]
          /\ StartForce("op") /\ UNCHANGED call
       \/ /\ ~op.immediate
          /\ op' = NoOp /\ Settle("ok")
          /\ UNCHANGED <<doomed, sess, force, refused>>
    /\ UNCHANGED <<alive, spawned, input, fenced, unheard>>

SweepEnds ==
    /\ op.held /\ ~op.signalled
    /\ \/ /\ ~IsAlive
          /\ op' = NoOp /\ Settle("ok")
          /\ UNCHANGED <<doomed, sess, force, refused>>
       \/ /\ IsAlive /\ op.immediate
          /\ op' = [op EXCEPT !.signalled = TRUE]
          /\ StartForce("op") /\ UNCHANGED call
       \/ /\ IsAlive /\ ~op.immediate
          /\ op' = NoOp /\ Settle("ok")
          /\ UNCHANGED <<doomed, sess, force, refused>>
       \/ /\ IsAlive /\ ~op.immediate /\ Refuse
          /\ op' = NoOp /\ Settle("failed")
          /\ sess' = [sess EXCEPT !.terminating = FALSE, !.killTimer = 0]
          /\ UNCHANGED <<doomed, force>>
    /\ UNCHANGED <<alive, spawned, input, fenced, unheard>>

\* Mutants of KillTimer: it fires although it was not armed; it fires only once.
KillTimerUnarmed ==
    /\ IsAlive
    /\ ~op.held \/ op.signalled
    /\ \/ /\ ForceKillSent
          /\ sess' = [sess EXCEPT !.killTimer = 0, !.forceSent = TRUE]
       \/ /\ ForceKillRefused
          /\ sess' = [sess EXCEPT !.killTimer = @ - 1]
    /\ UNCHANGED <<alive, spawned, input, op, call, force, fenced, unheard>>

KillTimerOnce ==
    /\ IsAlive /\ sess.killTimer > 0
    /\ ~op.held \/ op.signalled
    /\ \/ ForceKillSent /\ sess' = [sess EXCEPT !.killTimer = 0, !.forceSent = TRUE]
       \/ ForceKillRefused /\ sess' = [sess EXCEPT !.killTimer = 0]
    /\ UNCHANGED <<alive, spawned, input, op, call, force, fenced, unheard>>

\* The force-kill fallback, 5 s after a graceful kill (the capture is over by then:
\* it is bounded by 1 s) and once more if it is refused.
KillTimer ==
    /\ IsAlive /\ sess.killTimer > 0
    /\ ~op.held \/ op.signalled
    /\ \/ /\ ForceKillSent
          /\ sess' = [sess EXCEPT !.killTimer = 0, !.forceSent = TRUE]
       \/ /\ ForceKillRefused
          /\ sess' = [sess EXCEPT !.killTimer = @ - 1]
    /\ UNCHANGED <<alive, spawned, input, op, call, force, fenced, unheard>>

\* A forced kill that was refused tries again 250 ms later.
ForceRetry(o) ==
    /\ force[o] = "retry"
    /\ \/ /\ ForceKillSent
          /\ sess' = [sess EXCEPT !.forceSent = TRUE]
          /\ force' = [force EXCEPT ![o] = "exit"]
          /\ UNCHANGED <<op, call, unheard>>
       \/ ForceKillRefused /\ ForceFails(o) /\ UNCHANGED sess
    /\ UNCHANGED <<alive, spawned, input, fenced>>

\* The child did not exit within 8 s of the forced kill.
WaitTimesOut(o) ==
    /\ force[o] = "exit"
    /\ ForceFails(o)
    /\ UNCHANGED <<alive, doomed, spawned, sess, input, fenced, refused>>

\* The child exits, by itself or because of a signal: every waiter is answered and
\* the host drops the session.  An operation that still captures stays.
ChildExits ==
    /\ IsAlive
    /\ alive' = alive \ {sess.gen}
    /\ sess' = NoSession /\ input' = NewInput(FALSE)
    /\ call' = [c \in Calls |->
                  IF \/ call[c].pc = "forcing"
                     \/ call[c].pc = "joined" /\ op.signalled
                  THEN [call[c] EXCEPT !.pc = "ok"] ELSE call[c]]
    /\ op' = IF op.held /\ op.signalled THEN NoOp ELSE op
    /\ force' = [o \in Owners |-> "none"]
    /\ UNCHANGED <<doomed, spawned, fenced, refused, unheard>>

\* Mutant of Dispose: the shutdown drops the session without waiting for its child.
DisposeAtOnce ==
    /\ ~fenced /\ fenced' = TRUE
    /\ sess' = NoSession /\ input' = NewInput(FALSE)
    /\ UNCHANGED <<alive, doomed, spawned, op, call, force, refused, unheard>>

\* host.dispose(): a failed shutdown keeps the session and may be asked for again.  (The
\* daemon passes no onFinalCheckpoint, so no final snapshot is taken first.)
Dispose ==
    /\ force["shutdown"] = "none"
    /\ fenced' = TRUE
    /\ \/ ~IsAlive /\ ~fenced /\ UNCHANGED <<doomed, sess, force, refused>>
       \/ /\ IsAlive
          /\ \/ /\ ForceKillSent
                /\ sess' = [sess EXCEPT !.terminating = TRUE, !.forceSent = TRUE,
                                        !.client = NoClient]
                /\ force' = [force EXCEPT !["shutdown"] = "exit"]
             \/ /\ ForceKillRefused
                /\ sess' = [sess EXCEPT !.terminating = TRUE, !.client = NoClient]
                /\ force' = [force EXCEPT !["shutdown"] = "retry"]
    /\ UNCHANGED <<alive, spawned, input, op, call, unheard>>

-----------------------------------------------------------------------------

Opening ==
    \E cl \in Clients :
        \/ Attach(cl)
        \/ \E agent, supported, command \in BOOLEAN : Create(cl, agent, supported, command)

Typing == Write \/ Output \/ FinalSnapshot \/ ReadyTimer \/ GateTimer \/ \E p \in BOOLEAN : ReadyMarker(p)

Ending ==
    \/ SweepEnds \/ KillTimer \/ ChildExits \/ Dispose
    \/ \E c \in Calls : Kill(c)
    \/ \E o \in Owners : ForceRetry(o) \/ WaitTimesOut(o)

Next == Opening \/ Typing \/ Ending

Spec == Init /\ [][Next]_vars

\* Timers fire and the capture is bounded.  A child that accepted SIGKILL exits in
\* the end, perhaps after whoever waited for it gave up.
Fairness ==
    /\ WF_vars(ReadyTimer) /\ WF_vars(GateTimer)
    /\ WF_vars(SweepEnds) /\ WF_vars(KillTimer)
    /\ \A o \in Owners : WF_vars(ForceRetry(o)) /\ WF_vars(WaitTimesOut(o))
    /\ WF_vars(IsAlive /\ sess.gen \in doomed /\ ChildExits)

FairSpec == Spec /\ Fairness

-----------------------------------------------------------------------------
(* Properties.                                                             *)

\* What the child was given, followed by what is still queued, is what was written,
\* in order and without loss: Session.write, the shell-ready timeout and the gate
\* never let new input overtake queued input.
InputInOrder == InOrder(input)

\* Queued input always has a timer that will flush it: without one it would wait for
\* ever behind a gate or a shell state that nothing changes.
QueueHasFlusher == HasFlusher(input)

\* The host's map owns the only live child of the id: no timeout, refusal, shutdown
\* or creation under the same id loses or doubles it.
OwnedChild == alive = IF IsAlive THEN {sess.gen} ELSE {}

\* An immediate kill is acknowledged only when the child it was asked for is gone,
\* also when it joined a graceful teardown (the acknowledgement lets the caller
\* delete the worktree under the process).
KillKeepsPromise ==
    \A c \in Calls : call[c].pc = "ok" /\ call[c].immediate => call[c].gen \notin alive

\* No client attaches to a session once a kill of it is under way or was acknowledged.
NeverAttachDoomed ==
    [][ \A cl \in Clients : Attach(cl) =>
            \A c \in Calls : call[c].gen = sess.gen => call[c].pc \in {"idle", "failed"} ]_vars

\* The session's input implements a pipe that keeps order and delivers.
Pipe == INSTANCE InputPipe WITH open <- IsAlive, sent <- input.sent, got <- input.got
InputIsPipe == Pipe!PipeSpec

\* Every kill request is answered: by the end of the capture, the child's exit, a
\* refusal or the 8 s deadline.
KillIsAnswered ==
    \A c \in Calls : call[c].pc \in {"joined", "forcing"} ~> call[c].pc \in {"ok", "failed"}

\* A session that is being terminated ends or is reopened, unless the system refused
\* two signals: one refusal must not consume the only owner of the termination.
TerminationEnds ==
    (IsAlive /\ sess.terminating) ~> (~IsAlive \/ ~sess.terminating \/ refused > 1)

=============================================================================
