---------------------------- MODULE SessionInput -----------------------------
(***************************************************************************)
(* The input of one terminal session of the daemon.  Input written before  *)
(* the shell is ready waits in a queue; the shell's ready marker arms a    *)
(* gate that flushes the queue once the prompt was drawn; a timeout stands *)
(* in for a marker that never comes.  The n-th write is the number n.      *)
(***************************************************************************)
EXTENDS Naturals, Sequences

\* scan: output is still searched for the marker.  gate: "prompt" while the prompt is
\* awaited under the fallback timer, "settling" while the short timer after the prompt's
\* first bytes runs.  sent: writes the session accepted.  got: what its child was given,
\* in order.
Input == [shell : {"unsupported", "pending", "ready", "timed_out"},
          scan  : BOOLEAN,
          gate  : {"idle", "prompt", "settling"},
          queue : Seq(Nat),
          sent  : Nat,
          got   : Seq(Nat)]

NewInput(supported) ==
    [shell |-> IF supported THEN "pending" ELSE "unsupported", scan |-> supported,
     gate  |-> "idle", queue |-> << >>, sent |-> 0, got |-> << >>]

IsPending(gate) == gate # "idle"

\* Mutant of Accept: fresh input does not wait for the gate.
AcceptPastGate(i) ==
    LET d == i.sent + 1
    IN  IF i.shell = "pending" THEN [i EXCEPT !.sent = d, !.queue = Append(@, d)]
                               ELSE [i EXCEPT !.sent = d, !.got = Append(@, d)]

Accept(i) ==
    LET d == i.sent + 1
    IN  IF i.shell = "pending" \/ IsPending(i.gate)
        THEN [i EXCEPT !.sent = d, !.queue = Append(@, d)]
        ELSE [i EXCEPT !.sent = d, !.got = Append(@, d)]

FlushPreReadyQueue(i) == [i EXCEPT !.queue = << >>, !.got = @ \o i.queue]

\* Mutant of TransitionToReady: the gate is armed only when the prompt came with the marker.
TransitionToReadyUnarmed(i, prompt) ==
    [i EXCEPT !.shell = "ready", !.scan = FALSE,
              !.gate = IF i.queue # << >> /\ prompt THEN "settling" ELSE "idle"]

\* The marker was seen, with or without bytes of the prompt behind it.
TransitionToReady(i, prompt) ==
    [i EXCEPT !.shell = "ready", !.scan = FALSE,
              !.gate = IF i.queue = << >> THEN "idle"
                       ELSE IF prompt THEN "settling" ELSE "prompt"]

NotifyData(i) == [i EXCEPT !.gate = IF @ = "prompt" THEN "settling" ELSE @]

GateFires(i) == FlushPreReadyQueue([i EXCEPT !.gate = "idle"])

\* Mutant of ShellReadyTimeout: the queue stays.
ShellReadyTimeoutKeepsQueue(i) == [i EXCEPT !.shell = "timed_out", !.scan = FALSE]

ShellReadyTimeout(i) == FlushPreReadyQueue([i EXCEPT !.shell = "timed_out", !.scan = FALSE])

\* A final snapshot releases what the scan holds back and ends the scan.
PrepareForFinalSnapshot(i) == [i EXCEPT !.scan = FALSE]

Written(n) == [k \in 1 .. n |-> k]

InOrder(i) == i.got \o i.queue = Written(i.sent)

HasFlusher(i) == i.queue # << >> => i.shell = "pending" \/ IsPending(i.gate)

=============================================================================
