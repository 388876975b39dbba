------------------------- MODULE TerminalHost_proofs --------------------------
(***************************************************************************)
(* Proofs about the daemon's terminal host: input reaches the child in the *)
(* order it was written, the host owns the one live child, and an          *)
(* immediate kill is acknowledged only when the child is gone, for any     *)
(* number of clients, requests, generations, writes and refused signals.   *)
(***************************************************************************)
EXTENDS TerminalHost, SequenceTheorems, TLAPS

-----------------------------------------------------------------------------
(* Input.                                                                  *)

\* What the operators on the input of a session preserve.
InputOK(i) == i \in Input /\ InOrder(i) /\ HasFlusher(i)

LEMMA AppendBehind ==
    ASSUME NEW s \in Seq(Nat), NEW t \in Seq(Nat), NEW d \in Nat
    PROVE  s \o Append(t, d) = Append(s \o t, d)
<1>1. Append(t, d) = t \o <<d>> /\ <<d>> \in Seq(Nat)
  BY AppendIsConcat
<1>2. s \o (t \o <<d>>) = (s \o t) \o <<d>>
  BY <1>1, ConcatAssociative
<1>3. s \o t \in Seq(Nat)
  BY ConcatProperties
<1>4. Append(s \o t, d) = (s \o t) \o <<d>>
  BY <1>3, AppendIsConcat
<1> QED
  BY <1>1, <1>2, <1>4

LEMMA NothingBehind ==
    ASSUME NEW s \in Seq(Nat), NEW t \in Seq(Nat)
    PROVE  s \o t \in Seq(Nat) /\ (s \o t) \o << >> = s \o t /\ s \o << >> = s
<1>1. s \o t \in Seq(Nat)
  BY ConcatProperties
<1> QED
  BY <1>1, ConcatEmptySeq

\* New input goes behind what is queued, or to the child when nothing is queued.
LEMMA AcceptKeeps ==
    ASSUME NEW i, InputOK(i)
    PROVE  InputOK(Accept(i)) /\ Accept(i).sent = i.sent + 1
<1>1. i \in Input /\ InOrder(i) /\ HasFlusher(i)
  BY DEF InputOK
<1>2. i.got \in Seq(Nat) /\ i.queue \in Seq(Nat) /\ i.sent \in Nat
      /\ i.sent + 1 \in Nat
  BY <1>1 DEF Input
<1>3. Append(Written(i.sent), i.sent + 1) = Written(i.sent + 1)
  BY <1>2 DEF Written
<1>4. CASE i.shell = "pending" \/ IsPending(i.gate)
  <2> DEFINE q == Append(i.queue, i.sent + 1)
  <2>1. Accept(i) = [i EXCEPT !.sent = i.sent + 1, !.queue = q]
    BY <1>1, <1>4 DEF Accept, Input
  <2>2. i.got \o q = Append(i.got \o i.queue, i.sent + 1)
    BY <1>2, AppendBehind
  <2>3. q \in Seq(Nat)
    BY <1>2
  <2> HIDE DEF q
  <2>4. Accept(i) \in Input /\ Accept(i).sent = i.sent + 1
        /\ Accept(i).queue = q /\ Accept(i).got = i.got
        /\ Accept(i).shell = i.shell /\ Accept(i).gate = i.gate
    BY <1>1, <1>2, <2>1, <2>3 DEF Input
  <2> QED
    BY <1>1, <1>3, <1>4, <2>2, <2>4 DEF InputOK, InOrder, HasFlusher
<1>5. CASE ~(i.shell = "pending" \/ IsPending(i.gate))
  <2> DEFINE g == Append(i.got, i.sent + 1)
  <2>1. Accept(i) = [i EXCEPT !.sent = i.sent + 1, !.got = g]
    BY <1>1, <1>5 DEF Accept, Input
  <2>2. i.queue = << >>
    BY <1>1, <1>5 DEF HasFlusher
  <2>3. i.got = Written(i.sent)
    BY <1>1, <1>2, <2>2, NothingBehind DEF InOrder
  <2>4. g \in Seq(Nat) /\ g = Written(i.sent + 1)
    BY <1>2, <1>3, <2>3
  <2> HIDE DEF g
  <2>5. Accept(i) \in Input /\ Accept(i).sent = i.sent + 1
        /\ Accept(i).got = g /\ Accept(i).queue = i.queue
    BY <1>1, <1>2, <2>1, <2>4 DEF Input
  <2>6. Accept(i).got \o Accept(i).queue = Accept(i).got
    BY <2>2, <2>4, <2>5, NothingBehind
  <2> QED
    BY <2>2, <2>4, <2>5, <2>6 DEF InputOK, InOrder, HasFlusher
<1> QED
  BY <1>4, <1>5

\* A session starts with nothing written.
LEMMA NewInputOK ==
    ASSUME NEW supported \in BOOLEAN
    PROVE  InputOK(NewInput(supported)) /\ NewInput(supported).sent = 0
<1>1. NewInput(supported) \in Input /\ HasFlusher(NewInput(supported))
      /\ NewInput(supported).sent = 0
  BY DEF NewInput, Input, HasFlusher
<1>2. << >> \o << >> = Written(0)
  BY DEF Written
<1> QED
  BY <1>1, <1>2 DEF InputOK, InOrder, NewInput

\* Flushing moves the whole queue behind what the child already has.
LEMMA FlushKeeps ==
    ASSUME NEW i \in Input, InOrder(i)
    PROVE  InputOK(FlushPreReadyQueue(i)) /\ FlushPreReadyQueue(i).sent = i.sent
<1> DEFINE g == i.got \o i.queue
<1>1. g \in Seq(Nat) /\ g \o << >> = g /\ << >> \in Seq(Nat)
  BY NothingBehind, EmptySeq DEF Input
<1>2. FlushPreReadyQueue(i) = [i EXCEPT !.queue = << >>, !.got = g]
  BY DEF FlushPreReadyQueue, Input
<1>3. g = Written(i.sent)
  BY DEF InOrder
<1> HIDE DEF g
<1>4. FlushPreReadyQueue(i) \in Input /\ FlushPreReadyQueue(i).queue = << >>
      /\ FlushPreReadyQueue(i).got = g /\ FlushPreReadyQueue(i).sent = i.sent
  BY <1>1, <1>2 DEF Input
<1> QED
  BY <1>1, <1>3, <1>4 DEF InputOK, InOrder, HasFlusher

\* The marker, output, the timers and a final snapshot keep the order.
LEMMA ReadinessKeeps ==
    ASSUME NEW i, InputOK(i), NEW prompt \in BOOLEAN
    PROVE  /\ InputOK(TransitionToReady(i, prompt)) /\ TransitionToReady(i, prompt).sent = i.sent
           /\ InputOK(NotifyData(i)) /\ NotifyData(i).sent = i.sent
           /\ InputOK(PrepareForFinalSnapshot(i)) /\ PrepareForFinalSnapshot(i).sent = i.sent
           /\ InputOK(GateFires(i)) /\ GateFires(i).sent = i.sent
           /\ InputOK(ShellReadyTimeout(i)) /\ ShellReadyTimeout(i).sent = i.sent
<1>1. i \in Input /\ InOrder(i) /\ HasFlusher(i)
  BY DEF InputOK
<1>2. InputOK(TransitionToReady(i, prompt)) /\ TransitionToReady(i, prompt).sent = i.sent
  BY <1>1 DEF InputOK, TransitionToReady, Input, InOrder, HasFlusher, IsPending
<1>3. InputOK(NotifyData(i)) /\ NotifyData(i).sent = i.sent
  BY <1>1 DEF InputOK, NotifyData, Input, InOrder, HasFlusher, IsPending
<1>4. InputOK(PrepareForFinalSnapshot(i)) /\ PrepareForFinalSnapshot(i).sent = i.sent
  BY <1>1 DEF InputOK, PrepareForFinalSnapshot, Input, InOrder, HasFlusher
<1>5. GateFires(i) = FlushPreReadyQueue([i EXCEPT !.gate = "idle"])
      /\ ShellReadyTimeout(i) =
           FlushPreReadyQueue([i EXCEPT !.shell = "timed_out", !.scan = FALSE])
  BY DEF GateFires, ShellReadyTimeout
<1>6. ASSUME NEW j \in Input, InOrder(j)
      PROVE  InputOK(FlushPreReadyQueue(j)) /\ FlushPreReadyQueue(j).sent = j.sent
  BY <1>6, FlushKeeps
<1>7. [i EXCEPT !.gate = "idle"] \in Input /\ InOrder([i EXCEPT !.gate = "idle"])
      /\ [i EXCEPT !.gate = "idle"].sent = i.sent
  BY <1>1 DEF Input, InOrder
<1>8. [i EXCEPT !.shell = "timed_out", !.scan = FALSE] \in Input
      /\ InOrder([i EXCEPT !.shell = "timed_out", !.scan = FALSE])
      /\ [i EXCEPT !.shell = "timed_out", !.scan = FALSE].sent = i.sent
  BY <1>1 DEF Input, InOrder
<1> QED
  BY <1>2, <1>3, <1>4, <1>5, <1>6, <1>7, <1>8

InputInv == InputOK(input) /\ input.sent =< MaxWrites

LEMMA NoInputOK == InputOK(NewInput(FALSE)) /\ NewInput(FALSE).sent = 0
<1>1. FALSE \in BOOLEAN
  OBVIOUS
<1> QED
  BY <1>1, NewInputOK, Zenon

LEMMA InputInit == Init => InputInv
<1> SUFFICES ASSUME Init PROVE InputInv
  OBVIOUS
<1>1. input = NewInput(FALSE)
  BY DEF Init
<1>2. InputOK(input) /\ input.sent = 0
  BY <1>1, NoInputOK, Zenon
<1> QED
  BY <1>2, HostAssumption DEF InputInv

\* Only these steps touch the input.
LEMMA InputStep == InputInv /\ [Next]_vars => InputInv'
<1> SUFFICES ASSUME InputInv, [Next]_vars PROVE InputInv'
  OBVIOUS
<1> USE HostAssumption
<1>1. InputOK(input) /\ input.sent =< MaxWrites /\ input.sent \in Nat /\ MaxWrites \in Nat \ {0}
  BY DEF InputInv, InputOK, Input
<1>2. ASSUME UNCHANGED input PROVE InputInv'
  BY <1>1, <1>2 DEF InputInv
<1>3. ASSUME InputOK(input'), input'.sent = input.sent PROVE InputInv'
  BY <1>1, <1>3 DEF InputInv
<1>4. CASE Opening
  <2>1. PICK cl \in Clients :
            \/ Attach(cl)
            \/ \E agent, supported, command \in BOOLEAN : Create(cl, agent, supported, command)
    BY <1>4 DEF Opening
  <2>2. CASE Attach(cl)
    BY <1>2, <2>2 DEF Attach
  <2>3. ASSUME NEW agent \in BOOLEAN, NEW supported \in BOOLEAN, NEW command \in BOOLEAN,
               Create(cl, agent, supported, command)
        PROVE  InputInv'
    <3>1. input' = IF command THEN Accept(NewInput(supported)) ELSE NewInput(supported)
      BY <2>3 DEF Create
    <3>2. InputOK(NewInput(supported)) /\ NewInput(supported).sent = 0
      BY NewInputOK
    <3>3. InputOK(Accept(NewInput(supported))) /\ Accept(NewInput(supported)).sent = 1
      BY <3>2, AcceptKeeps
    <3> QED
      BY <1>1, <3>1, <3>2, <3>3 DEF InputInv
  <2> QED
    BY <2>1, <2>2, <2>3
<1>5. CASE Typing
  <2>1. CASE Write
    <3>1. input' = Accept(input) /\ input.sent < MaxWrites
      BY <2>1 DEF Write
    <3>2. InputOK(input') /\ input'.sent = input.sent + 1
      BY <1>1, <3>1, AcceptKeeps
    <3> QED
      BY <1>1, <3>1, <3>2 DEF InputInv
  <2>2. CASE Output
    BY <1>1, <1>3, <2>2, ReadinessKeeps DEF Output
  <2>3. CASE FinalSnapshot
    BY <1>1, <1>3, <2>3, ReadinessKeeps DEF FinalSnapshot
  <2>4. CASE ReadyTimer
    BY <1>1, <1>3, <2>4, ReadinessKeeps DEF ReadyTimer
  <2>5. CASE GateTimer
    BY <1>1, <1>3, <2>5, ReadinessKeeps DEF GateTimer
  <2>6. ASSUME NEW p \in BOOLEAN, ReadyMarker(p) PROVE InputInv'
    BY <1>1, <1>3, <2>6, ReadinessKeeps DEF ReadyMarker
  <2> QED
    BY <1>5, <2>1, <2>2, <2>3, <2>4, <2>5, <2>6 DEF Typing
<1>6. CASE Ending
  <2>1. CASE ChildExits
    <3>1. input' = NewInput(FALSE)
      BY <2>1 DEF ChildExits
    <3>2. InputOK(input') /\ input'.sent = 0
      BY <3>1, NoInputOK, Zenon
    <3> QED
      BY <1>1, <3>2 DEF InputInv
  <2>2. CASE Dispose
    BY <1>2, <2>2 DEF Dispose
  <2>3. CASE SweepEnds
    BY <1>2, <2>3 DEF SweepEnds
  <2>4. CASE KillTimer
    BY <1>2, <2>4 DEF KillTimer
  <2>5. ASSUME NEW c \in Calls, Kill(c) PROVE InputInv'
    BY <1>2, <2>5 DEF Kill
  <2>6. ASSUME NEW o \in Owners, ForceRetry(o) \/ WaitTimesOut(o) PROVE InputInv'
    BY <1>2, <2>6 DEF ForceRetry, WaitTimesOut
  <2> QED
    BY <1>6, <2>1, <2>2, <2>3, <2>4, <2>5, <2>6 DEF Ending
<1>7. CASE UNCHANGED vars
  BY <1>2, <1>7 DEF vars
<1> QED
  BY <1>4, <1>5, <1>6, <1>7 DEF Next

\* Input reaches the child in the order it was written, and nothing that is queued
\* lacks a timer: the claim of Session.write, the shell-ready timeout and the gate.
THEOREM InputOrdered == Spec => []InputInOrder
<1>1. InputInv => InputInOrder
  BY DEF InputInv, InputOK, InputInOrder
<1> QED
  BY <1>1, InputInit, InputStep, PTL DEF Spec

THEOREM QueueFlushed == Spec => []QueueHasFlusher
<1>1. InputInv => QueueHasFlusher
  BY DEF InputInv, InputOK, QueueHasFlusher
<1> QED
  BY <1>1, InputInit, InputStep, PTL DEF Spec

-----------------------------------------------------------------------------
(* Kills.                                                                  *)

\* TypeOK without the input.
KillTypes ==
    /\ alive \subseteq Generations /\ doomed \subseteq Generations
    /\ spawned \in 0 .. MaxGenerations
    /\ sess \in Session
    /\ op \in Operation
    /\ call \in [Calls -> Call]
    /\ force \in [Owners -> {"none", "retry", "exit"}]
    /\ fenced \in BOOLEAN /\ unheard \in BOOLEAN
    /\ refused \in 0 .. MaxRefusals

\* The session in the map is the newest generation, and no request is older than time.
NewestGeneration ==
    /\ sess.gen \in {0, spawned}
    /\ \A c \in Calls : call[c].gen =< spawned

\* A request that waits for the operation finds it there, as strong as it asked for.
JoinedHasOperation ==
    \A c \in Calls : call[c].pc = "joined" => op.held /\ (call[c].immediate => op.immediate)

\* Only a live child is being killed.
ForcedIsAlive == \A o \in Owners : force[o] # "none" => IsAlive

KillInv == /\ KillTypes /\ OwnedChild /\ KillKeepsPromise
           /\ NewestGeneration /\ JoinedHasOperation /\ ForcedIsAlive

LEMMA KillInit == Init => KillInv
<1> SUFFICES ASSUME Init PROVE KillInv
  OBVIOUS
<1>1. NoSession \in Session /\ NoSession.gen = 0 /\ NoOp \in Operation
  BY HostAssumption DEF NoSession, Session, NoOp, Operation
<1>2. call \in [Calls -> Call]
      /\ \A c \in Calls : call[c].pc = "idle" /\ call[c].gen = 0
  BY HostAssumption DEF Init, Call
<1>3. force \in [Owners -> {"none", "retry", "exit"}]
      /\ \A o \in Owners : force[o] = "none"
  BY DEF Init
<1>4. KillTypes
  <2>1. alive \subseteq Generations /\ doomed \subseteq Generations
        /\ spawned \in 0 .. MaxGenerations /\ refused \in 0 .. MaxRefusals
    BY HostAssumption DEF Init
  <2>2. fenced \in BOOLEAN /\ unheard \in BOOLEAN
    BY DEF Init
  <2>3. sess \in Session /\ op \in Operation
    BY <1>1 DEF Init
  <2> QED
    BY <1>2, <1>3, <2>1, <2>2, <2>3, Zenon DEF KillTypes
<1>5. OwnedChild /\ KillKeepsPromise /\ NewestGeneration /\ JoinedHasOperation /\ ForcedIsAlive
  BY <1>1, <1>2, <1>3 DEF Init, OwnedChild, KillKeepsPromise, NewestGeneration,
     JoinedHasOperation, ForcedIsAlive, IsAlive
<1> QED
  BY <1>4, <1>5 DEF KillInv

\* The part of the state that a signal may change.
SignalStep ==
    /\ sess' \in Session /\ sess'.gen = sess.gen
    /\ doomed' \subseteq Generations
    /\ refused' \in 0 .. MaxRefusals

LEMMA LiveGeneration ==
    ASSUME KillTypes, IsAlive
    PROVE  sess.gen \in Generations
  BY HostAssumption DEF KillTypes, IsAlive, Session, Generations

LEMMA SignalTypes ==
    ASSUME KillTypes, IsAlive, ForceKillSent \/ ForceKillRefused
    PROVE  doomed' \subseteq Generations /\ refused' \in 0 .. MaxRefusals
<1>1. sess.gen \in Generations
  BY LiveGeneration
<1> QED
  BY <1>1, HostAssumption DEF KillTypes, ForceKillSent, ForceKillRefused, Refuse

LEMMA StartForceKeeps ==
    ASSUME KillTypes, IsAlive, NEW o \in Owners, StartForce(o)
    PROVE  /\ SignalStep
           /\ force' \in [Owners -> {"none", "retry", "exit"}]
<1>1. doomed' \subseteq Generations /\ refused' \in 0 .. MaxRefusals
  BY SignalTypes DEF StartForce
<1>2. sess' \in Session /\ sess'.gen = sess.gen
  BY DEF StartForce, KillTypes, Session
<1>3. force' \in [Owners -> {"none", "retry", "exit"}]
  BY DEF StartForce, KillTypes
<1> QED
  BY <1>1, <1>2, <1>3 DEF SignalStep

\* What the types say of the timer and the flag.
LEMMA TimerRange == KillTypes => sess.killTimer \in 0 .. 2 /\ sess.terminating \in BOOLEAN
  BY DEF KillTypes, Session

\* Requests that are answered keep what they asked for.
Answered(answer) ==
    /\ call' \in [Calls -> Call]
    /\ \A c \in Calls : /\ call'[c].immediate = call[c].immediate
                         /\ call'[c].gen = call[c].gen
                         /\ call'[c].pc \in {call[c].pc, answer}

LEMMA SettleAnswers ==
    ASSUME KillTypes, NEW answer \in {"ok", "failed"}, Settle(answer)
    PROVE  /\ Answered(answer)
           /\ \A c \in Calls : call'[c].pc # "joined"
           /\ \A c \in Calls : call[c].pc # "joined" => call'[c] = call[c]
  BY DEF KillTypes, Settle, Answered, Call

LEMMA AsksCall ==
    ASSUME KillTypes, NEW c \in Calls, NEW pc \in {"joined", "forcing", "ok", "failed"},
           NEW immediate \in BOOLEAN, Asks(c, pc, immediate)
    PROVE  /\ call' \in [Calls -> Call]
           /\ call'[c].pc = pc /\ call'[c].immediate = immediate /\ call'[c].gen = spawned
           /\ \A d \in Calls \ {c} : call'[d] = call[d]
  BY HostAssumption DEF KillTypes, Asks, Call

LEMMA ForceFailsKeeps ==
    ASSUME KillTypes, NEW o \in Owners, ForceFails(o)
    PROVE  /\ Answered("failed")
           /\ op' \in Operation /\ unheard' \in BOOLEAN
           /\ force' \in [Owners -> {"none", "retry", "exit"}]
           /\ \A p \in Owners : force'[p] # "none" => force[p] # "none"
           /\ op' = op \/ (\A c \in Calls : call'[c].pc # "joined")
<1>1. force' \in [Owners -> {"none", "retry", "exit"}]
      /\ \A p \in Owners : force'[p] # "none" => force[p] # "none"
  BY DEF ForceFails, KillTypes
<1>2. CASE o = "op" /\ Settle("failed") /\ op' = NoOp /\ UNCHANGED unheard
  BY <1>1, <1>2, SettleAnswers DEF KillTypes, NoOp, Operation
<1>3. CASE UNCHANGED <<op, call, unheard>>
  BY <1>1, <1>3 DEF KillTypes, Answered
<1>4. CASE o \in Calls /\ call' = [call EXCEPT ![o].pc = "failed"] /\ UNCHANGED <<op, unheard>>
  <2>1. Answered("failed")
    BY <1>4 DEF KillTypes, Answered, Call
  <2> QED
    BY <1>1, <1>4, <2>1 DEF KillTypes
<1>5. CASE unheard' = TRUE /\ UNCHANGED <<op, call>>
  BY <1>1, <1>5 DEF KillTypes, Answered
<1> QED
  BY <1>2, <1>3, <1>4, <1>5 DEF ForceFails

\* A step that keeps the child keeps the invariant if the requests stay honest.
LEMMA SameChild ==
    ASSUME KillInv, SignalStep, UNCHANGED <<alive, spawned>>,
           op' \in Operation, call' \in [Calls -> Call],
           force' \in [Owners -> {"none", "retry", "exit"}],
           fenced' \in BOOLEAN, unheard' \in BOOLEAN,
           \A o \in Owners : force'[o] # "none" => IsAlive,
           \A c \in Calls :
               /\ call'[c].gen =< spawned
               /\ call'[c].pc = "ok" /\ call'[c].immediate => call'[c].gen \notin alive
               /\ call'[c].pc = "joined" =>
                       op'.held /\ (call'[c].immediate => op'.immediate)
    PROVE  KillInv'
<1>1. KillTypes'
  BY DEF KillInv, KillTypes, SignalStep
<1>2. IsAlive' <=> IsAlive
  BY DEF IsAlive, SignalStep
<1>3. OwnedChild'
  BY <1>2 DEF KillInv, OwnedChild, SignalStep
<1>4. NewestGeneration' /\ KillKeepsPromise' /\ JoinedHasOperation'
  BY DEF KillInv, NewestGeneration, KillKeepsPromise, JoinedHasOperation, SignalStep
<1>5. ForcedIsAlive'
  BY <1>2 DEF ForcedIsAlive
<1> QED
  BY <1>1, <1>3, <1>4, <1>5 DEF KillInv

\* What the invariant says of requests, and what StartForce leaves of it.
LEMMA Requests ==
    ASSUME KillInv
    PROVE  /\ KillTypes
           /\ op \in Operation /\ call \in [Calls -> Call]
           /\ force \in [Owners -> {"none", "retry", "exit"}]
           /\ fenced \in BOOLEAN /\ unheard \in BOOLEAN
           /\ spawned \in Nat
           /\ \A o \in Owners : force[o] # "none" => IsAlive
           /\ \A c \in Calls :
               /\ call[c].gen =< spawned
               /\ call[c].pc = "ok" /\ call[c].immediate => call[c].gen \notin alive
               /\ call[c].pc = "joined" => op.held /\ (call[c].immediate => op.immediate)
           /\ ~IsAlive => alive = {}
  BY HostAssumption DEF KillInv, KillTypes, ForcedIsAlive, NewestGeneration, KillKeepsPromise,
     JoinedHasOperation, OwnedChild

\* Nothing is signalled.
LEMMA Unsignalled ==
    ASSUME KillTypes, UNCHANGED <<doomed, refused>>, sess' \in Session, sess'.gen = sess.gen
    PROVE  SignalStep
  BY DEF KillTypes, SignalStep

LEMMA OpeningKeepsKills ==
    ASSUME KillInv, Opening
    PROVE  KillInv'
<1> USE HostAssumption
<1>0. PICK cl \in Clients :
          \/ Attach(cl)
          \/ \E agent, supported, command \in BOOLEAN : Create(cl, agent, supported, command)
  BY DEF Opening
<1>1. CASE Attach(cl)
  <2>1. sess' \in Session /\ sess'.gen = sess.gen
    BY <1>1, Requests DEF Attach, KillTypes, Session
  <2>2. SignalStep
    BY <1>1, <2>1, Requests, Unsignalled DEF Attach
  <2> QED
    BY <1>1, <2>2, Requests, SameChild DEF Attach
<1>2. ASSUME NEW agent \in BOOLEAN, NEW supported \in BOOLEAN, NEW command \in BOOLEAN,
             Create(cl, agent, supported, command)
      PROVE  KillInv'
  <2>1. spawned' = spawned + 1 /\ spawned' \in Generations /\ spawned \in Nat
    BY <1>2, Requests DEF Create, KillTypes, Generations
  <2>2. alive' = {spawned'} /\ sess'.gen = spawned' /\ sess' \in Session
    BY <1>2, <2>1, Requests DEF Create, Session, Generations
  <2>3. KillTypes'
    BY <1>2, <2>1, <2>2, Requests DEF Create, KillTypes, Generations
  <2>4. IsAlive' /\ OwnedChild'
    BY <2>1, <2>2 DEF IsAlive, OwnedChild, Generations
  <2>5. NewestGeneration' /\ KillKeepsPromise' /\ JoinedHasOperation'
    BY <1>2, <2>1, <2>2, Requests DEF Create, NewestGeneration, KillKeepsPromise,
       JoinedHasOperation, KillTypes, Call
  <2> QED
    BY <2>3, <2>4, <2>5 DEF KillInv, ForcedIsAlive
<1> QED
  BY <1>0, <1>1, <1>2

LEMMA ChildExitsKeepsKills ==
    ASSUME KillInv, ChildExits
    PROVE  KillInv'
<1> USE HostAssumption
<1>1. alive' = {} /\ sess' = NoSession /\ UNCHANGED <<doomed, spawned, fenced, refused, unheard>>
  BY DEF KillInv, OwnedChild, ChildExits
<1>2. NoSession \in Session /\ NoSession.gen = 0 /\ NoOp \in Operation
  BY DEF NoSession, Session, NoOp, Operation
<1>3. force' \in [Owners -> {"none", "retry", "exit"}]
      /\ \A o \in Owners : force'[o] = "none"
  BY DEF ChildExits
<1>4. /\ call' \in [Calls -> Call]
      /\ \A c \in Calls : call'[c].gen = call[c].gen /\ call'[c].immediate = call[c].immediate
  BY Requests DEF ChildExits, Call
<1>10. \A c \in Calls : call'[c].pc = "joined" => call[c].pc = "joined" /\ ~op.signalled
  BY Requests DEF ChildExits, Call
<1>5. op' \in Operation /\ (~op.signalled => op' = op)
  BY <1>2, Requests DEF ChildExits
<1>6. KillTypes'
  BY <1>1, <1>2, <1>3, <1>4, <1>5, Requests DEF KillTypes
<1>7. ~IsAlive' /\ OwnedChild' /\ KillKeepsPromise' /\ ForcedIsAlive'
  BY <1>1, <1>2, <1>3 DEF IsAlive, OwnedChild, KillKeepsPromise, ForcedIsAlive
<1>8. NewestGeneration'
  <2>1. sess'.gen = 0 /\ spawned' = spawned
    BY <1>1, <1>2
  <2>2. \A c \in Calls : call'[c].gen =< spawned
    BY <1>4, Requests
  <2> QED
    BY <2>1, <2>2 DEF NewestGeneration
<1>9. JoinedHasOperation'
  <2> SUFFICES ASSUME NEW c \in Calls, call'[c].pc = "joined"
               PROVE  op'.held /\ (call'[c].immediate => op'.immediate)
    BY DEF JoinedHasOperation
  <2>1. call[c].pc = "joined" /\ op' = op
    BY <1>10, <1>5
  <2>2. call'[c].immediate = call[c].immediate
    BY <1>4
  <2>3. op.held /\ (call[c].immediate => op.immediate)
    BY <2>1, Requests
  <2> QED
    BY <2>1, <2>2, <2>3
<1> QED
  BY <1>6, <1>7, <1>8, <1>9 DEF KillInv

LEMMA TypingKeepsKills ==
    ASSUME KillInv, Typing
    PROVE  KillInv'
<1>1. InputOnly
  BY DEF Typing, Write, Output, FinalSnapshot, ReadyTimer, GateTimer, ReadyMarker
<1>2. SignalStep
  BY <1>1, Requests, Unsignalled DEF InputOnly, KillTypes
<1> QED
  BY <1>1, <1>2, Requests, SameChild DEF InputOnly

LEMMA KillKeeps ==
    ASSUME KillInv, NEW c \in Calls, Kill(c)
    PROVE  KillInv'
<1> USE HostAssumption
<1>1. c \in Owners /\ UNCHANGED <<alive, spawned, fenced, unheard>>
  BY DEF Owners, Kill
<1>2. ASSUME NEW pc \in {"joined", "forcing", "ok", "failed"}, NEW immediate \in BOOLEAN,
             Asks(c, pc, immediate), SignalStep, op' \in Operation,
             force' \in [Owners -> {"none", "retry", "exit"}],
             IsAlive \/ force' = force,
             pc = "ok" => ~immediate,
             pc = "joined" => op'.held /\ (immediate => op'.immediate),
             op.held => op'.held /\ (op.immediate => op'.immediate)
      PROVE  KillInv'
  <2>1. call' \in [Calls -> Call] /\ call'[c].pc = pc /\ call'[c].immediate = immediate
        /\ call'[c].gen = spawned /\ \A d \in Calls \ {c} : call'[d] = call[d]
    BY <1>2, Requests, AsksCall
  <2>2. \A o \in Owners : force'[o] # "none" => IsAlive
    BY <1>2, Requests
  <2>3. \A d \in Calls :
           /\ call'[d].gen =< spawned
           /\ call'[d].pc = "ok" /\ call'[d].immediate => call'[d].gen \notin alive
           /\ call'[d].pc = "joined" => op'.held /\ (call'[d].immediate => op'.immediate)
    BY <1>2, <2>1, Requests
  <2> QED
    BY <1>1, <1>2, <2>1, <2>2, <2>3, Requests, SameChild
<1>3. UNCHANGED <<doomed, sess, refused>> => SignalStep
  BY Requests, Unsignalled DEF KillTypes
<1>4. CASE RequestImmediate(c)
  <2>1. op' \in Operation /\ op'.held /\ op'.immediate
    BY <1>4, Requests DEF RequestImmediate, Operation
  <2>2. SignalStep /\ force' \in [Owners -> {"none", "retry", "exit"}]
        /\ (IsAlive \/ force' = force)
    BY <1>1, <1>3, <1>4, Requests, StartForceKeeps DEF RequestImmediate
  <2>3. Asks(c, "joined", TRUE)
    BY <1>4 DEF RequestImmediate
  <2> QED
    BY <1>2, <2>1, <2>2, <2>3
<1>5. CASE JoinGraceful(c)
  BY <1>2, <1>3, <1>5, Requests DEF JoinGraceful
<1>6. ASSUME NEW immediate \in BOOLEAN, KillAgentSession(c, immediate) PROVE KillInv'
  <2>1. CASE /\ ~sess.terminating
             /\ Asks(c, "joined", immediate)
             /\ op' = [held |-> TRUE, immediate |-> immediate, signalled |-> FALSE]
             /\ sess' = [sess EXCEPT !.terminating = TRUE,
                                     !.killTimer = IF immediate \/ @ > 0 THEN @ ELSE 2]
             /\ UNCHANGED <<doomed, force, refused>>
    <3>1. op' \in Operation /\ op'.held /\ op'.immediate = immediate /\ ~op.held
      BY <1>6, <2>1 DEF Operation, KillAgentSession
    <3>2. sess' \in Session /\ sess'.gen = sess.gen
      <4> DEFINE k == IF immediate \/ sess.killTimer > 0 THEN sess.killTimer ELSE 2
      <4>1. k \in 0 .. 2
        BY Requests, TimerRange
      <4>2. sess' = [sess EXCEPT !.terminating = TRUE, !.killTimer = k]
        BY <2>1
      <4> HIDE DEF k
      <4> QED
        BY <4>1, <4>2, Requests DEF KillTypes, Session
    <3>3. SignalStep
      BY <2>1, <3>2, Requests, Unsignalled
    <3> QED
      BY <1>2, <2>1, <3>1, <3>3, Requests
  <2>2. CASE /\ sess.terminating /\ immediate
             /\ Asks(c, "forcing", TRUE)
             /\ StartForce(c) /\ UNCHANGED op
    <3>1. SignalStep /\ force' \in [Owners -> {"none", "retry", "exit"}] /\ IsAlive
      BY <1>1, <1>6, <2>2, Requests, StartForceKeeps DEF KillAgentSession
    <3> QED
      BY <1>2, <2>2, <3>1, Requests
  <2>3. CASE /\ sess.terminating /\ ~immediate
             /\ Asks(c, "ok", FALSE)
             /\ UNCHANGED <<doomed, sess, force, refused, op>>
    BY <1>2, <1>3, <2>3, Requests
  <2> QED
    BY <1>6, <2>1, <2>2, <2>3 DEF KillAgentSession
<1>7. CASE KillShell(c)
  <2>1. SignalStep
    <3>1. sess' \in Session /\ sess'.gen = sess.gen
      <4> DEFINE k == IF sess.killTimer > 0 THEN sess.killTimer ELSE 2
      <4>1. k \in 0 .. 2 /\ 0 \in 0 .. 2
        BY Requests, TimerRange
      <4>2. \/ sess' = sess
            \/ sess' = [sess EXCEPT !.terminating = TRUE, !.killTimer = k]
            \/ sess' = [sess EXCEPT !.killTimer = 0]
        BY <1>7 DEF KillShell
      <4>3. sess \in Session
        BY Requests DEF KillTypes
      <4> HIDE DEF k
      <4>4. CASE sess' = [sess EXCEPT !.terminating = TRUE, !.killTimer = k]
        BY <4>1, <4>3, <4>4 DEF Session
      <4>5. CASE sess' = [sess EXCEPT !.killTimer = 0]
        BY <4>1, <4>3, <4>5 DEF Session
      <4> QED
        BY <4>2, <4>3, <4>4, <4>5
    <3>2. refused' \in 0 .. MaxRefusals /\ doomed' = doomed
      <4>1. (UNCHANGED refused \/ Refuse) /\ doomed' = doomed
        BY <1>7 DEF KillShell
      <4>2. refused \in 0 .. MaxRefusals
        BY Requests DEF KillTypes
      <4> QED
        BY <4>1, <4>2 DEF Refuse
    <3> QED
      BY <3>1, <3>2, Requests DEF SignalStep, KillTypes
  <2>2. UNCHANGED <<force, op>> /\ (Asks(c, "ok", FALSE) \/ Asks(c, "failed", FALSE))
    BY <1>7 DEF KillShell
  <2> QED
    BY <1>2, <2>1, <2>2, Requests
<1>8. CASE KillShellNow(c)
  <2>1. SignalStep /\ force' \in [Owners -> {"none", "retry", "exit"}] /\ IsAlive
    BY <1>1, <1>8, Requests, StartForceKeeps DEF KillShellNow
  <2> QED
    BY <1>2, <1>8, <2>1, Requests DEF KillShellNow
<1> QED
  BY <1>4, <1>5, <1>6, <1>7, <1>8 DEF Kill

LEMMA SweepKeepsKills ==
    ASSUME KillInv, SweepEnds
    PROVE  KillInv'
<1> USE HostAssumption
<1>1. UNCHANGED <<alive, spawned, fenced, unheard>> /\ op.held
  BY DEF SweepEnds
<1>2. NoOp \in Operation
  BY DEF NoOp, Operation
<1>3. ASSUME NEW answer \in {"ok", "failed"}, Settle(answer), op' = NoOp, UNCHANGED force,
             SignalStep, answer = "ok" => ~IsAlive \/ ~op.immediate
      PROVE  KillInv'
  <2>1. /\ Answered(answer)
        /\ \A c \in Calls : call'[c].pc # "joined"
        /\ \A c \in Calls : call[c].pc # "joined" => call'[c] = call[c]
    BY <1>3, Requests, SettleAnswers
  <2>2. \A c \in Calls :
           call'[c].pc = "ok" /\ call'[c].immediate => call'[c].gen \notin alive
    BY <1>3, <2>1, Requests DEF Answered
  <2> QED
    BY <1>1, <1>2, <1>3, <2>1, <2>2, Requests, SameChild DEF Answered
<1>4. UNCHANGED <<doomed, sess, refused>> => SignalStep
  BY Requests, Unsignalled DEF KillTypes
<1>5. CASE /\ ~IsAlive
           /\ op' = NoOp /\ Settle("ok")
           /\ UNCHANGED <<doomed, sess, force, refused>>
  BY <1>3, <1>4, <1>5
<1>6. CASE /\ IsAlive /\ op.immediate
           /\ op' = [op EXCEPT !.signalled = TRUE]
           /\ StartForce("op") /\ UNCHANGED call
  <2>1. SignalStep /\ force' \in [Owners -> {"none", "retry", "exit"}]
    BY <1>6, Requests, StartForceKeeps DEF Owners
  <2>2. op' \in Operation /\ op'.held /\ op'.immediate
    BY <1>1, <1>6, Requests DEF Operation
  <2> QED
    BY <1>1, <1>6, <2>1, <2>2, Requests, SameChild
<1>7. CASE /\ IsAlive /\ ~op.immediate
           /\ op' = NoOp /\ Settle("ok")
           /\ UNCHANGED <<doomed, sess, force, refused>>
  BY <1>3, <1>4, <1>7
<1>8. CASE /\ IsAlive /\ ~op.immediate /\ Refuse
           /\ op' = NoOp /\ Settle("failed")
           /\ sess' = [sess EXCEPT !.terminating = FALSE, !.killTimer = 0]
           /\ UNCHANGED <<doomed, force>>
  <2>1. sess' \in Session /\ sess'.gen = sess.gen
    <3> DEFINE k == 0
    <3>1. k \in 0 .. 2
      OBVIOUS
    <3>2. sess' = [sess EXCEPT !.terminating = FALSE, !.killTimer = k]
      BY <1>8
    <3> HIDE DEF k
    <3> QED
      BY <3>1, <3>2, Requests DEF KillTypes, Session
  <2>2. refused' \in 0 .. MaxRefusals
    BY <1>8, Requests DEF KillTypes, Refuse
  <2>3. SignalStep
    BY <1>8, <2>1, <2>2, Requests DEF SignalStep, KillTypes
  <2> QED
    BY <1>3, <1>8, <2>3
<1> QED
  BY <1>5, <1>6, <1>7, <1>8 DEF SweepEnds

LEMMA TimersKeepKills ==
    ASSUME KillInv, KillTimer \/ Dispose \/ \E o \in Owners : ForceRetry(o) \/ WaitTimesOut(o)
    PROVE  KillInv'
<1> USE HostAssumption
<1>1. CASE KillTimer
  <2>1. doomed' \subseteq Generations /\ refused' \in 0 .. MaxRefusals
    BY <1>1, Requests, SignalTypes DEF KillTimer
  <2>2. sess' \in Session /\ sess'.gen = sess.gen
    <3> DEFINE k == sess.killTimer - 1
    <3>1. k \in 0 .. 2 /\ 0 \in 0 .. 2
      BY <1>1, Requests, TimerRange DEF KillTimer
    <3>2. \/ sess' = [sess EXCEPT !.killTimer = 0, !.forceSent = TRUE]
          \/ sess' = [sess EXCEPT !.killTimer = k]
      BY <1>1 DEF KillTimer
    <3> HIDE DEF k
    <3> QED
      BY <3>1, <3>2, Requests DEF KillTypes, Session
  <2> QED
    BY <1>1, <2>1, <2>2, Requests, SameChild DEF KillTimer, SignalStep
<1>2. CASE Dispose
  <2>1. CASE ~IsAlive
    <3>1. SignalStep
      BY <1>2, <2>1, Requests, Unsignalled DEF Dispose, KillTypes
    <3> QED
      BY <1>2, <2>1, <3>1, Requests, SameChild DEF Dispose
  <2>2. CASE IsAlive
    <3>1. doomed' \subseteq Generations /\ refused' \in 0 .. MaxRefusals
      BY <1>2, <2>2, Requests, SignalTypes DEF Dispose
    <3>2. sess' \in Session /\ sess'.gen = sess.gen
      BY <1>2, <2>2, Requests DEF Dispose, KillTypes, Session
    <3>3. force' \in [Owners -> {"none", "retry", "exit"}]
      BY <1>2, <2>2, Requests DEF Dispose, Owners
    <3> QED
      BY <1>2, <2>2, <3>1, <3>2, <3>3, Requests, SameChild DEF Dispose, SignalStep
  <2> QED
    BY <2>1, <2>2
<1>3. ASSUME NEW o \in Owners, ForceFails(o), SignalStep, UNCHANGED <<alive, spawned, fenced>>
      PROVE  KillInv'
  <2>1. /\ Answered("failed") /\ op' \in Operation /\ unheard' \in BOOLEAN
        /\ force' \in [Owners -> {"none", "retry", "exit"}]
        /\ \A p \in Owners : force'[p] # "none" => force[p] # "none"
        /\ op' = op \/ (\A c \in Calls : call'[c].pc # "joined")
    BY <1>3, Requests, ForceFailsKeeps
  <2>2. \A c \in Calls :
           /\ call'[c].gen =< spawned
           /\ call'[c].pc = "ok" /\ call'[c].immediate => call'[c].gen \notin alive
           /\ call'[c].pc = "joined" => op'.held /\ (call'[c].immediate => op'.immediate)
    BY <2>1, Requests DEF Answered
  <2> QED
    BY <1>3, <2>1, <2>2, Requests, SameChild DEF Answered
<1>4. ASSUME NEW o \in Owners, ForceRetry(o) PROVE KillInv'
  <2>1. IsAlive
    BY <1>4, Requests DEF ForceRetry
  <2>2. doomed' \subseteq Generations /\ refused' \in 0 .. MaxRefusals
    BY <1>4, <2>1, Requests, SignalTypes DEF ForceRetry
  <2>3. sess' \in Session /\ sess'.gen = sess.gen
    BY <1>4, Requests DEF ForceRetry, KillTypes, Session
  <2>4. SignalStep
    BY <2>2, <2>3 DEF SignalStep
  <2>5. CASE force' = [force EXCEPT ![o] = "exit"] /\ UNCHANGED <<op, call, unheard>>
    <3>1. force' \in [Owners -> {"none", "retry", "exit"}]
      BY <2>5, Requests
    <3> QED
      BY <1>4, <2>1, <2>4, <2>5, <3>1, Requests, SameChild DEF ForceRetry
  <2>6. CASE ForceFails(o)
    BY <1>3, <1>4, <2>4, <2>6 DEF ForceRetry
  <2> QED
    BY <1>4, <2>5, <2>6 DEF ForceRetry
<1>5. ASSUME NEW o \in Owners, WaitTimesOut(o) PROVE KillInv'
  <2>1. SignalStep
    BY <1>5, Requests, Unsignalled DEF WaitTimesOut, KillTypes
  <2> QED
    BY <1>3, <1>5, <2>1 DEF WaitTimesOut
<1> QED
  BY <1>1, <1>2, <1>4, <1>5

LEMMA KillStep == KillInv /\ [Next]_vars => KillInv'
<1> SUFFICES ASSUME KillInv, [Next]_vars PROVE KillInv'
  OBVIOUS
<1>1. CASE Opening
  BY <1>1, OpeningKeepsKills
<1>2. CASE Typing
  BY <1>2, TypingKeepsKills
<1>3. CASE Ending
  BY <1>3, SweepKeepsKills, TimersKeepKills, ChildExitsKeepsKills, KillKeeps DEF Ending
<1>4. CASE UNCHANGED vars
  BY <1>4 DEF vars, KillInv, KillTypes, OwnedChild, KillKeepsPromise, NewestGeneration,
     JoinedHasOperation, ForcedIsAlive, IsAlive
<1> QED
  BY <1>1, <1>2, <1>3, <1>4 DEF Next

\* Every variable of the host keeps its type.
THEOREM HostTypes == Spec => []TypeOK
<1>1. KillInv /\ InputInv => TypeOK
  BY DEF KillInv, KillTypes, InputInv, InputOK, TypeOK
<1> QED
  BY <1>1, KillInit, KillStep, InputInit, InputStep, PTL DEF Spec

\* The host owns the one live child of the id through refusals, timeouts and shutdown.
THEOREM ChildOwned == Spec => []OwnedChild
<1>1. KillInv => OwnedChild
  BY DEF KillInv
<1> QED
  BY <1>1, KillInit, KillStep, PTL DEF Spec

\* An immediate kill is acknowledged only when the child is gone, whatever it joined:
\* the operation it joins is made as strong as it asked for.
THEOREM ImmediateKillsKept == Spec => []KillKeepsPromise
<1>1. KillInv => KillKeepsPromise
  BY DEF KillInv
<1> QED
  BY <1>1, KillInit, KillStep, PTL DEF Spec

-----------------------------------------------------------------------------
(* No client attaches to a doomed session.                                 *)

Wanted == {"joined", "forcing", "ok"}

\* A kill under way or acknowledged keeps its session terminating, and so does the
\* operation; while descendants are captured, every such kill waits for the operation.
DoomedInv ==
    IsAlive =>
        /\ op.held => sess.terminating
        /\ \A c \in Calls : call[c].gen = sess.gen =>
              /\ call[c].pc \in Wanted => sess.terminating
              /\ op.held /\ ~op.signalled => call[c].pc \notin {"forcing", "ok"}

LEMMA DoomedInit == Init => DoomedInv
  BY DEF Init, DoomedInv, IsAlive, NoSession

\* Steps in which no request gets nearer to a kill.
LEMMA DoomedKept ==
    ASSUME DoomedInv, sess'.gen = sess.gen,
           sess.terminating => sess'.terminating,
           op'.held => op.held,
           op'.held /\ ~op'.signalled => ~op.signalled,
           \A c \in Calls : call'[c].gen = call[c].gen /\ call'[c].pc \in {call[c].pc, "failed"}
    PROVE  DoomedInv'
  BY DEF DoomedInv, IsAlive, Wanted

\* A request that asks, of a session that from now on terminates unless it failed.
LEMMA DoomedAsk ==
    ASSUME KillInv, DoomedInv, NEW c \in Calls,
           NEW pc \in {"joined", "forcing", "ok", "failed"}, NEW immediate \in BOOLEAN,
           Asks(c, pc, immediate), sess'.gen = sess.gen,
           sess.terminating => sess'.terminating,
           IsAlive /\ (op'.held \/ pc # "failed") => sess'.terminating,
           op'.held /\ ~op'.signalled => pc \in {"joined", "failed"},
           op'.held /\ ~op'.signalled /\ IsAlive =>
               (op.held /\ ~op.signalled) \/ ~sess.terminating
    PROVE  DoomedInv'
<1>1. call'[c].pc = pc /\ \A d \in Calls \ {c} : call'[d] = call[d]
  BY Requests, AsksCall
<1>2. IsAlive' <=> IsAlive
  BY DEF IsAlive
<1>3. ASSUME IsAlive, NEW d \in Calls, call'[d].gen = sess.gen
      PROVE  /\ call'[d].pc \in Wanted => sess'.terminating
             /\ op'.held /\ ~op'.signalled => call'[d].pc \notin {"forcing", "ok"}
  <2>1. CASE d = c
    BY <1>1, <1>3, <2>1 DEF Wanted
  <2>2. CASE d # c
    BY <1>1, <1>3, <2>2 DEF DoomedInv, Wanted
  <2> QED
    BY <2>1, <2>2
<1> QED
  BY <1>2, <1>3 DEF DoomedInv

LEMMA DoomedKill ==
    ASSUME KillInv, DoomedInv, NEW c \in Calls, Kill(c)
    PROVE  DoomedInv'
<1>1. call \in [Calls -> Call] /\ KillTypes /\ sess \in Session /\ op \in Operation
  BY Requests DEF KillTypes
<1>2. ASSUME StartForce(c) PROVE sess'.gen = sess.gen /\ sess'.terminating
  BY <1>1, <1>2 DEF StartForce, Session
<1>3. CASE RequestImmediate(c)
  <2>1. op.held /\ Asks(c, "joined", TRUE) /\ op'.signalled = op.signalled
    BY <1>3, <1>1 DEF RequestImmediate, Operation
  <2>2. sess'.gen = sess.gen /\ (sess.terminating => sess'.terminating)
    BY <1>2, <1>3 DEF RequestImmediate
  <2>3. IsAlive => sess'.terminating
    BY <2>1, <2>2 DEF DoomedInv
  <2> QED
    BY <2>1, <2>2, <2>3, DoomedAsk
<1>4. CASE JoinGraceful(c)
  BY <1>4, DoomedAsk DEF JoinGraceful, DoomedInv
<1>5. ASSUME NEW immediate \in BOOLEAN, KillAgentSession(c, immediate) PROVE DoomedInv'
  <2>0. IsAlive /\ ~op.held
    BY <1>5 DEF KillAgentSession
  <2>1. CASE /\ ~sess.terminating
             /\ Asks(c, "joined", immediate)
             /\ op' = [held |-> TRUE, immediate |-> immediate, signalled |-> FALSE]
             /\ sess' = [sess EXCEPT !.terminating = TRUE,
                                     !.killTimer = IF immediate \/ @ > 0 THEN @ ELSE 2]
    <3>1. sess'.gen = sess.gen /\ sess'.terminating
      BY <2>1, <1>1 DEF Session
    <3> QED
      BY <2>1, <3>1, DoomedAsk
  <2>2. CASE /\ sess.terminating /\ immediate
             /\ Asks(c, "forcing", TRUE)
             /\ StartForce(c) /\ UNCHANGED op
    BY <1>2, <2>0, <2>2, DoomedAsk
  <2>3. CASE /\ sess.terminating /\ ~immediate
             /\ Asks(c, "ok", FALSE)
             /\ UNCHANGED <<doomed, sess, force, refused, op>>
    BY <2>0, <2>3, DoomedAsk
  <2> QED
    BY <1>5, <2>1, <2>2, <2>3 DEF KillAgentSession
<1>6. CASE KillShell(c)
  <2>0. IsAlive /\ ~op.held /\ UNCHANGED op
    BY <1>6 DEF KillShell
  <2>1. CASE sess.terminating /\ Asks(c, "ok", FALSE) /\ UNCHANGED sess
    BY <2>0, <2>1, DoomedAsk
  <2>2. CASE /\ ~sess.terminating /\ Asks(c, "ok", FALSE)
             /\ sess' = [sess EXCEPT !.terminating = TRUE,
                                     !.killTimer = IF @ > 0 THEN @ ELSE 2]
    <3>1. sess'.gen = sess.gen /\ sess'.terminating
      BY <2>2, <1>1 DEF Session
    <3> QED
      BY <2>0, <2>2, <3>1, DoomedAsk
  <2>3. CASE /\ ~sess.terminating /\ Asks(c, "failed", FALSE)
             /\ sess' = [sess EXCEPT !.killTimer = 0]
    <3>1. sess'.gen = sess.gen
      BY <2>3, <1>1 DEF Session
    <3> QED
      BY <2>0, <2>3, <3>1, DoomedAsk
  <2> QED
    BY <1>6, <2>1, <2>2, <2>3 DEF KillShell
<1>7. CASE KillShellNow(c)
  BY <1>2, <1>7, DoomedAsk DEF KillShellNow
<1> QED
  BY <1>3, <1>4, <1>5, <1>6, <1>7 DEF Kill

LEMMA DoomedSweep ==
    ASSUME KillInv, DoomedInv, SweepEnds
    PROVE  DoomedInv'
<1>1. KillTypes /\ sess \in Session /\ op \in Operation /\ op.held /\ ~op.signalled
  BY Requests DEF KillTypes, SweepEnds
<1>2. NoOp.held = FALSE
  BY DEF NoOp
<1>3. CASE ~IsAlive /\ UNCHANGED sess
  BY <1>3 DEF DoomedInv, IsAlive
<1>4. CASE /\ IsAlive /\ op.immediate
           /\ op' = [op EXCEPT !.signalled = TRUE]
           /\ StartForce("op") /\ UNCHANGED call
  <2>1. sess'.gen = sess.gen /\ sess'.terminating
    BY <1>1, <1>4 DEF StartForce, Session
  <2>2. op'.signalled
    BY <1>1, <1>4 DEF Operation
  <2> QED
    BY <1>4, <2>1, <2>2 DEF DoomedInv, IsAlive
<1>5. CASE IsAlive /\ op' = NoOp /\ Settle("ok") /\ UNCHANGED sess
  <2>1. Answered("ok") /\ \A c \in Calls : call[c].pc # "joined" => call'[c] = call[c]
    BY <1>1, <1>5, SettleAnswers
  <2> QED
    BY <1>1, <1>2, <1>5, <2>1 DEF DoomedInv, IsAlive
<1>6. CASE IsAlive /\ op' = NoOp /\ Settle("failed")
           /\ sess' = [sess EXCEPT !.terminating = FALSE, !.killTimer = 0]
  <2>1. /\ Answered("failed") /\ \A c \in Calls : call'[c].pc # "joined"
    BY <1>1, <1>6, SettleAnswers
  <2>2. sess'.gen = sess.gen
    BY <1>1, <1>6 DEF Session
  <2>3. \A c \in Calls : call'[c].gen = sess.gen => call'[c].pc \notin Wanted
    BY <1>1, <1>6, <2>1 DEF DoomedInv, Answered, Wanted
  <2> QED
    BY <1>2, <1>6, <2>2, <2>3 DEF DoomedInv, IsAlive
<1> QED
  BY <1>3, <1>4, <1>5, <1>6 DEF SweepEnds

LEMMA DoomedStep == KillInv /\ DoomedInv /\ [Next]_vars => DoomedInv'
<1> SUFFICES ASSUME KillInv, DoomedInv, [Next]_vars PROVE DoomedInv'
  OBVIOUS
<1>1. KillTypes /\ sess \in Session /\ op \in Operation /\ call \in [Calls -> Call]
  BY Requests DEF KillTypes
<1>2. CASE Opening
  <2>1. ASSUME NEW cl \in Clients, Attach(cl) PROVE DoomedInv'
    <3>1. sess'.gen = sess.gen /\ sess'.terminating = sess.terminating
      BY <1>1, <2>1 DEF Attach, Session
    <3> QED
      BY <2>1, <3>1, DoomedKept DEF Attach
  <2>2. ASSUME NEW cl \in Clients, NEW agent \in BOOLEAN, NEW supported \in BOOLEAN,
               NEW command \in BOOLEAN, Create(cl, agent, supported, command)
        PROVE  DoomedInv'
    <3>1. sess'.gen = spawned + 1 /\ UNCHANGED <<call, op>> /\ ~op.held
      BY <2>2 DEF Create, MayOpen
    <3>2. \A c \in Calls : call[c].gen # spawned + 1
      BY Requests
    <3> QED
      BY <3>1, <3>2 DEF DoomedInv
  <2> QED
    BY <1>2, <2>1, <2>2 DEF Opening
<1>3. CASE Typing
  <2>1. InputOnly
    BY <1>3 DEF Typing, Write, Output, FinalSnapshot, ReadyTimer, GateTimer, ReadyMarker
  <2> QED
    BY <2>1, DoomedKept DEF InputOnly
<1>4. CASE KillTimer
  <2>1. sess'.gen = sess.gen /\ sess'.terminating = sess.terminating
    BY <1>1, <1>4 DEF KillTimer, Session
  <2> QED
    BY <1>4, <2>1, DoomedKept DEF KillTimer
<1>5. CASE ChildExits
  BY <1>5 DEF ChildExits, NoSession, DoomedInv, IsAlive
<1>6. CASE Dispose
  <2>1. sess'.gen = sess.gen /\ (sess.terminating => sess'.terminating)
    BY <1>1, <1>6 DEF Dispose, Session
  <2> QED
    BY <1>6, <2>1, DoomedKept DEF Dispose
<1>7. ASSUME NEW o \in Owners, ForceFails(o), sess'.gen = sess.gen,
             sess'.terminating = sess.terminating
      PROVE  DoomedInv'
  <2>1. Answered("failed")
    BY <1>1, <1>7, ForceFailsKeeps
  <2>2. op' = op \/ op' = NoOp
    BY <1>7 DEF ForceFails
  <2> QED
    BY <1>7, <2>1, <2>2, DoomedKept DEF Answered, NoOp
<1>8. ASSUME NEW o \in Owners, ForceRetry(o) PROVE DoomedInv'
  <2>1. sess'.gen = sess.gen /\ sess'.terminating = sess.terminating
    BY <1>1, <1>8 DEF ForceRetry, Session
  <2>2. CASE UNCHANGED <<op, call>>
    BY <2>1, <2>2, DoomedKept
  <2>3. CASE ForceFails(o)
    BY <1>7, <2>1, <2>3
  <2> QED
    BY <1>8, <2>2, <2>3 DEF ForceRetry
<1>9. ASSUME NEW o \in Owners, WaitTimesOut(o) PROVE DoomedInv'
  BY <1>7, <1>9 DEF WaitTimesOut
<1>10. CASE UNCHANGED vars
  BY <1>10 DEF vars, DoomedInv, IsAlive
<1> QED
  BY <1>2, <1>3, <1>4, <1>5, <1>6, <1>8, <1>9, <1>10, DoomedKill, DoomedSweep DEF Next, Ending

\* Once a kill of a session is under way or was acknowledged no client attaches to it:
\* only a refused signal, which every waiting request is told of, reopens a session.
THEOREM DoomedNeverAttached == Spec => NeverAttachDoomed
<1>1. ASSUME KillInv, DoomedInv, NEW cl \in Clients, Attach(cl),
             NEW c \in Calls, call[c].gen = sess.gen
      PROVE  call[c].pc \in {"idle", "failed"}
  <2>1. call[c] \in Call
    BY <1>1 DEF KillInv, KillTypes
  <2>2. IsAlive /\ ~sess.terminating /\ ~op.held
    BY <1>1 DEF Attach, MayOpen
  <2> QED
    BY <1>1, <2>1, <2>2 DEF DoomedInv, Call, Wanted
<1>2. KillInv /\ DoomedInv /\ [Next]_vars =>
        [ \A cl \in Clients : Attach(cl) =>
            \A c \in Calls : call[c].gen = sess.gen => call[c].pc \in {"idle", "failed"} ]_vars
  BY <1>1
<1> QED
  BY <1>2, KillInit, KillStep, DoomedInit, DoomedStep, PTL DEF Spec, NeverAttachDoomed

=============================================================================
