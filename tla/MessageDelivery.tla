--------------------------- MODULE MessageDelivery ---------------------------
(***************************************************************************)
(* Messages to one terminal: the messages table, the lifecycle             *)
(* reconciliation of worker_done and heartbeat, the blocking readers       *)
(* (check --wait and ask), the coordinator loop when it reads the same     *)
(* mailbox, and the push of messages to an idle agent, which types them    *)
(* into its prompt and presses Enter half a second later.                  *)
(*                                                                         *)
(* JavaScript runs one turn at a time.  A reader that was woken goes on    *)
(* within the turn that woke it, after the RPC requests that arrived with  *)
(* it; timers, socket closes and terminal output wait for the turn to end. *)
(* Replies by this terminal, peeks and resets only mark or remove rows and *)
(* are left out; messages to other terminals are other instances.  A       *)
(* terminal is one handle, and a handle is one PTY: a PTY started in the   *)
(* same pane has a handle, and a mailbox, of its own.                      *)
(***************************************************************************)
EXTENDS Naturals, Sequences

CONSTANTS
    Checkers,       \* clients that call orchestration.check --wait
    FilterOf,       \* checker -> the message types it asks for
    Dispatches,     \* dispatches whose workers report to this terminal
    NoDispatch,     \* what other messages are about
    MaxMessages,    \* bound: messages ever sent to the terminal
    MaxEnters       \* bound: Enter keys waiting for their half second

Types == {"status", "escalation", "worker_done", "heartbeat"}

ASSUME DeliveryAssumption ==
    /\ NoDispatch \notin Dispatches
    /\ FilterOf \in [Checkers -> SUBSET Types]
    /\ {MaxMessages, MaxEnters} \subseteq Nat

VARIABLES
    msgs,       \* the rows, in sequence order
    dispatch,   \* dispatch -> its status; completed by a report, or closed without one
    check,      \* checker -> where its call is
    ask,        \* where this terminal's one ask is
    pane,       \* the terminal and the agent in it
    enters,     \* the batches whose Enter is due, oldest first
    run,        \* this terminal is the coordinator of the active run
    taken       \* messages a live caller got from a read that consumed them

vars == <<msgs, dispatch, check, ask, pane, enters, run, taken>>

\* answer: a reply in the thread of the ask.  honest: sent from the dispatch's pane, and
\* a report for a task that is still dispatched.
\* signalled: inserted by an operation that calls notifyMessageArrived.  pasted: typed
\* into the prompt, and not lost with its terminal before Enter.
Row == [type      : Types,
        about     : Dispatches \cup {NoDispatch},
        honest    : BOOLEAN,
        answer    : BOOLEAN,
        signalled : BOOLEAN,
        rejected  : BOOLEAN,
        read      : BOOLEAN,
        delivered : BOOLEAN,
        pasted    : BOOLEAN]

TypeOK ==
    /\ msgs \in Seq(Row) /\ Len(msgs) =< MaxMessages
    /\ dispatch \in [Dispatches -> {"dispatched", "completed", "closed", "failed"}]
    /\ check \in [Checkers -> {"idle", "parked", "woken"}]
    /\ ask \in {"none", "parked", "woken", "answered", "timedOut", "aborted"}
    /\ pane \in [open : BOOLEAN, status : {"idle", "working"}, cursor : BOOLEAN]
    /\ enters \in Seq((SUBSET (1 .. MaxMessages)) \ {{}})
    /\ run \in BOOLEAN
    /\ taken \subseteq DOMAIN msgs

Init ==
    /\ msgs = << >>
    /\ dispatch = [d \in Dispatches |-> "dispatched"]
    /\ check = [c \in Checkers |-> "idle"]
    /\ ask = "none"
    /\ \E cursor \in BOOLEAN :
          pane = [open |-> TRUE, status |-> "working", cursor |-> cursor]
    /\ enters = << >>
    /\ run = FALSE
    /\ taken = {}

\* No reader is about to go on: the turn is over.
TurnOver == ask # "woken" /\ \A c \in Checkers : check[c] # "woken"

-----------------------------------------------------------------------------
(* The messages table. *)

NewRow(type, d, honest) ==
    [type |-> type, about |-> d, honest |-> honest, answer |-> FALSE, signalled |-> TRUE,
     rejected |-> FALSE, read |-> FALSE, delivered |-> FALSE, pasted |-> FALSE]

Unread(rows, types) == {i \in DOMAIN rows : ~rows[i].read /\ rows[i].type \in types}

\* Mutant of Undelivered: rows already delivered are replayed.
UndeliveredOrNot(rows) == Unread(rows, Types)

\* getUndeliveredUnreadMessages
Undelivered(rows) == {i \in Unread(rows, Types) : ~rows[i].delivered}

\* Mutant of Answers: replies that another reader consumed are not seen.
UnreadAnswers(rows) == {i \in Unread(rows, Types) : rows[i].answer}

\* getThreadMessagesFor, for the thread of the ask.
Answers(rows) == {i \in DOMAIN rows : rows[i].answer}

MarkRead(rows, S) ==
    [i \in DOMAIN rows |-> IF i \in S THEN [rows[i] EXCEPT !.read = TRUE] ELSE rows[i]]

MarkReadAndDelivered(rows, S) ==
    [i \in DOMAIN rows |->
        IF i \in S THEN [rows[i] EXCEPT !.read = TRUE, !.delivered = TRUE] ELSE rows[i]]

-----------------------------------------------------------------------------
(* Lifecycle reconciliation, of message i in tables [rows, status]. *)

Reject(tables, i) == [tables EXCEPT !.rows[i].rejected = TRUE]

Suppressed(tables, i) ==
    /\ tables.rows[i].type = "heartbeat"
    /\ ~tables.rows[i].rejected
    /\ tables.status[tables.rows[i].about] # "dispatched"

ReconcileHeartbeat(tables, i) ==
    CASE Suppressed(tables, i) ->
            [tables EXCEPT !.rows = MarkReadAndDelivered(@, {i})]
      [] ~Suppressed(tables, i) /\ ~tables.rows[i].honest -> Reject(tables, i)
      [] OTHER -> tables

\* Mutant of EarlierHeartbeats: heartbeats that were rejected are forgotten.
EarlierAcceptedHeartbeats(rows, i) ==
    {j \in Unread(rows, {"heartbeat"}) :
        j < i /\ rows[j].about = rows[i].about /\ ~rows[j].rejected}

\* suppressEarlierHeartbeats
EarlierHeartbeats(rows, i) ==
    {j \in Unread(rows, {"heartbeat"}) : j < i /\ rows[j].about = rows[i].about}

ReconcileWorkerDone(tables, i) ==
    LET row == tables.rows[i]
    IN  CASE ~row.honest -> Reject(tables, i)
          [] row.honest /\ tables.status[row.about] = "dispatched" ->
                [rows   |-> MarkReadAndDelivered(tables.rows, EarlierHeartbeats(tables.rows, i)),
                 status |-> [tables.status EXCEPT ![row.about] = "completed"]]
          [] OTHER -> tables

ReconcileLifecycleMessage(tables, i) ==
    CASE tables.rows[i].type = "heartbeat"   -> ReconcileHeartbeat(tables, i)
      [] tables.rows[i].type = "worker_done" -> ReconcileWorkerDone(tables, i)
      [] OTHER -> tables

\* A read that consumes S reconciles its messages in order and marks them read.
Consume(S) ==
    LET after[i \in 0 .. Len(msgs)] ==
            IF i = 0 THEN [rows |-> msgs, status |-> dispatch]
            ELSE IF i \in S THEN ReconcileLifecycleMessage(after[i - 1], i)
            ELSE after[i - 1]
    IN  [after[Len(msgs)] EXCEPT !.rows = MarkRead(@, S)]

-----------------------------------------------------------------------------
(* Waking readers and pushing to the agent. *)

\* Mutant of Woken: one waiter per message is enough.
WokenFirst(c, type) ==
    /\ check[c] = "parked" /\ type \in FilterOf[c]
    /\ c = CHOOSE x \in Checkers : check[x] = "parked" /\ type \in FilterOf[x]

\* notifyMessageArrived wakes every waiter whose filter admits the type.
Woken(c, type) == check[c] = "parked" /\ type \in FilterOf[c]

NotifyMessageArrived(type) ==
    /\ check' = [c \in Checkers |-> IF Woken(c, type) THEN "woken" ELSE check[c]]
    /\ ask' = IF ask = "parked" THEN "woken" ELSE ask

\* Mutant of MayPush: nothing is typed while an Enter is due.
MayPushOnce(rows) == pane.open /\ enters = << >> /\ Undelivered(rows) # {}

\* Mutant of MayPush: an empty mailbox is no reason to stop.
MayPushNothing(rows) == pane.open

MayPush(rows) == pane.open /\ Undelivered(rows) # {}

\* The prompt belongs to the user: text is left there without Enter.
UserOwned == run \/ pane.cursor

\* deliverPendingMessages: type the batch; Enter and delivered_at come later, unless
\* the prompt is the user's.
DeliverPendingMessages(rows) ==
    LET batch == Undelivered(rows)
    IN  IF MayPush(rows)
        THEN /\ msgs' = [i \in DOMAIN rows |->
                   IF i \in batch
                   THEN [rows[i] EXCEPT !.pasted = TRUE, !.delivered = UserOwned]
                   ELSE rows[i]]
             /\ enters' = IF UserOwned THEN enters ELSE Append(enters, batch)
        ELSE msgs' = rows /\ UNCHANGED enters

\* deliverPendingMessagesForHandle
DeliverIfIdle(rows) ==
    IF pane.status = "idle" THEN DeliverPendingMessages(rows)
                            ELSE msgs' = rows /\ UNCHANGED enters

-----------------------------------------------------------------------------
(* Senders. *)

\* orchestration.send to this terminal; one delivery of a send to a group.  Lifecycle
\* messages are sent to the coordinator's handle, never to a group, and are reconciled
\* before anyone is woken.
Send(type, d, honest) ==
    LET i      == Len(msgs) + 1
        rows   == Append(msgs, NewRow(type, d, honest))
        tables == [rows |-> rows, status |-> dispatch]
        after  == ReconcileLifecycleMessage(tables, i)
    IN  /\ Len(msgs) < MaxMessages
        /\ dispatch' = after.status
        /\ IF Suppressed(tables, i)
           THEN msgs' = after.rows /\ UNCHANGED <<check, ask, enters>>
           ELSE DeliverIfIdle(after.rows) /\ NotifyMessageArrived(type)
        /\ UNCHANGED <<pane, run, taken>>

\* orchestration.reply to the ask: readers are woken, nothing is pushed.
Reply ==
    /\ ask # "none"
    /\ Len(msgs) < MaxMessages
    /\ msgs' = Append(msgs, [NewRow("status", NoDispatch, TRUE) EXCEPT !.answer = TRUE])
    /\ NotifyMessageArrived("status")
    /\ UNCHANGED <<dispatch, pane, enters, run, taken>>

\* failActiveDispatchOnExit: the escalation is inserted, nobody is told.
WorkerExit(d) ==
    /\ TurnOver
    /\ dispatch[d] = "dispatched"
    /\ dispatch' = [dispatch EXCEPT ![d] = "failed"]
    /\ IF run
       THEN /\ Len(msgs) < MaxMessages
            /\ msgs' = Append(msgs, [NewRow("escalation", d, TRUE) EXCEPT !.signalled = FALSE])
       ELSE UNCHANGED msgs
    /\ UNCHANGED <<check, ask, pane, enters, run, taken>>

\* completeActiveDispatchForTask by task-update or gate-create, or the refusal of the
\* prompt: the dispatch is over, and its messages are left as they are.
DispatchClosed(d) ==
    /\ dispatch[d] = "dispatched"
    /\ dispatch' = [dispatch EXCEPT ![d] = "closed"]
    /\ UNCHANGED <<msgs, check, ask, pane, enters, run, taken>>

-----------------------------------------------------------------------------
(* Readers. *)

\* readAndReturn of a call whose client is there.
ReadAndReturn(c) ==
    LET found == Unread(msgs, FilterOf[c])
        after == Consume(found)
    IN  /\ msgs' = after.rows
        /\ dispatch' = after.status
        /\ taken' = taken \cup found

\* check --wait: what there is, or wait.
Check(c) ==
    /\ check[c] = "idle"
    /\ IF Unread(msgs, FilterOf[c]) # {}
       THEN ReadAndReturn(c) /\ UNCHANGED check
       ELSE /\ check' = [check EXCEPT ![c] = "parked"]
            /\ UNCHANGED <<msgs, dispatch, taken>>
    /\ UNCHANGED <<ask, pane, enters, run>>

Resume(c) ==
    /\ check[c] = "woken"
    /\ ReadAndReturn(c)
    /\ check' = [check EXCEPT ![c] = "idle"]
    /\ UNCHANGED <<ask, pane, enters, run>>

\* The timer of the waiter: the call reads once more and returns.
CheckTimeout(c) ==
    /\ TurnOver
    /\ check[c] = "parked"
    /\ ReadAndReturn(c)
    /\ check' = [check EXCEPT ![c] = "idle"]
    /\ UNCHANGED <<ask, pane, enters, run>>

\* Mutant of RowsAfterAbort: the signal is not looked at after the wait.
ConsumedAfterAbort(c) == Consume(Unread(msgs, FilterOf[c])).rows

\* The client is gone: its call returns nothing and consumes nothing.
RowsAfterAbort(c) == msgs

CheckAbort(c) ==
    /\ TurnOver
    /\ check[c] = "parked"
    /\ msgs' = RowsAfterAbort(c)
    /\ check' = [check EXCEPT ![c] = "idle"]
    /\ UNCHANGED <<dispatch, ask, pane, enters, run, taken>>

\* orchestration.ask: the question goes to another terminal, this one waits.
Ask ==
    /\ ask = "none"
    /\ ask' = "parked"
    /\ UNCHANGED <<msgs, dispatch, check, pane, enters, run, taken>>

\* The loop of ask after a wait: an answer, or wait on, or give up at the deadline.
AskLoop(givesUp) ==
    IF Answers(msgs) # {}
    THEN LET first == CHOOSE i \in Answers(msgs) : \A j \in Answers(msgs) : i =< j
         IN  /\ ask' = "answered"
             /\ msgs' = MarkRead(msgs, {first})
             /\ taken' = taken \cup {first}
    ELSE /\ ask' = IF givesUp THEN "timedOut" ELSE "parked"
         /\ UNCHANGED <<msgs, taken>>

AskResume ==
    /\ ask = "woken"
    /\ \E late \in BOOLEAN : AskLoop(late)
    /\ UNCHANGED <<dispatch, check, pane, enters, run>>

AskDeadline ==
    /\ TurnOver
    /\ ask = "parked"
    /\ AskLoop(TRUE)
    /\ UNCHANGED <<dispatch, check, pane, enters, run>>

\* The asking client is gone; its waiter is released.
AskAbort ==
    /\ TurnOver
    /\ ask = "parked"
    /\ Answers(msgs) = {}
    /\ ask' = "aborted"
    /\ UNCHANGED <<msgs, dispatch, check, pane, enters, run, taken>>

\* processMessages of a coordinator loop that runs for this terminal.
LoopReads ==
    LET found == Unread(msgs, Types)
        after == Consume(found)
    IN  /\ TurnOver
        /\ run
        /\ found # {}
        /\ msgs' = after.rows
        /\ dispatch' = after.status
        /\ taken' = taken \cup found
        /\ UNCHANGED <<check, ask, pane, enters, run>>

\* A run of the loop starts or ends.
RunToggles ==
    /\ run' = ~run
    /\ UNCHANGED <<msgs, dispatch, check, ask, pane, enters, taken>>

-----------------------------------------------------------------------------
(* The agent and its terminal. *)

\* The title of the terminal says the agent is idle.
AgentIdle ==
    /\ TurnOver
    /\ pane.open
    /\ pane.status = "working"
    /\ Len(enters) < MaxEnters
    /\ pane' = [pane EXCEPT !.status = "idle"]
    /\ DeliverPendingMessages(msgs)
    /\ UNCHANGED <<dispatch, check, ask, run, taken>>

AgentWorks ==
    /\ TurnOver
    /\ pane.open
    /\ pane.status = "idle"
    /\ pane' = [pane EXCEPT !.status = "working"]
    /\ UNCHANGED <<msgs, dispatch, check, ask, enters, run, taken>>

MarkDelivered(S) ==
    [i \in DOMAIN msgs |-> IF i \in S THEN [msgs[i] EXCEPT !.delivered = TRUE] ELSE msgs[i]]

\* Mutant of EnterTaken: delivered_at is stamped whether or not Enter was written.
EnterTried == TRUE

\* The write of Enter succeeds: the terminal that was typed into is still there.
EnterTaken == pane.open

\* Half a second later.  The Enters of a terminal that was lost fail.
PressEnter ==
    /\ TurnOver
    /\ enters # << >>
    /\ enters' = Tail(enters)
    /\ msgs' = IF EnterTaken THEN MarkDelivered(Head(enters)) ELSE msgs
    /\ UNCHANGED <<dispatch, check, ask, pane, run, taken>>

\* The PTY is lost, and with it what was typed and not entered.  Its handle stays lost.
TerminalLost ==
    /\ TurnOver
    /\ pane.open
    /\ pane' = [pane EXCEPT !.open = FALSE, !.status = "working"]
    /\ msgs' = [i \in DOMAIN msgs |->
                   IF msgs[i].delivered THEN msgs[i] ELSE [msgs[i] EXCEPT !.pasted = FALSE]]
    /\ UNCHANGED <<dispatch, check, ask, enters, run, taken>>

SendSome ==
    \/ Send("status", NoDispatch, TRUE)
    \/ \E type \in {"worker_done", "heartbeat"}, d \in Dispatches, honest \in BOOLEAN :
          Send(type, d, honest)

AskStep == Ask \/ AskResume \/ AskDeadline \/ AskAbort

CheckStep(c) == Check(c) \/ Resume(c) \/ CheckTimeout(c) \/ CheckAbort(c)

TerminalStep == AgentIdle \/ AgentWorks \/ PressEnter \/ TerminalLost

Next ==
    \/ SendSome \/ Reply
    \/ \E d \in Dispatches : WorkerExit(d) \/ DispatchClosed(d)
    \/ \E c \in Checkers : CheckStep(c)
    \/ AskStep \/ LoopReads \/ RunToggles \/ TerminalStep

Spec == Init /\ [][Next]_vars

\* Turns of the event loop end and timers fire; an agent finishes what it works on.  No
\* agent has to start working, and nobody has to call check.
Fairness ==
    /\ \A c \in Checkers : WF_vars(Resume(c))
    /\ WF_vars(AskResume)
    /\ WF_vars(PressEnter)
    /\ WF_vars(AgentIdle)

FairSpec == Spec /\ Fairness

-----------------------------------------------------------------------------
(* What readers, senders and the agent may rely on. *)

\* A reader sleeps only while there is nothing for it: no unread message of a type it
\* asked for, and no answer to the ask, whatever other readers took in between.  (The
\* escalation of a worker's exit wakes nobody.)
NoLostWakeup ==
    /\ \A c \in Checkers : check[c] = "parked" =>
          \A i \in Unread(msgs, FilterOf[c]) : ~msgs[i].signalled
    /\ ask = "parked" => \A i \in DOMAIN msgs : ~msgs[i].answer

\* A message disappears from check only into a live caller's hands, or as a heartbeat
\* of a dispatch that is over: no timeout, abort, push or race of readers loses one.
NothingConsumedUnseen ==
    \A i \in DOMAIN msgs : msgs[i].read =>
        \/ i \in taken
        \/ msgs[i].type = "heartbeat" /\ dispatch[msgs[i].about] # "dispatched"

\* Once a report completed a dispatch, no heartbeat of it is left to be read or pushed,
\* neither an earlier one nor a late one.  (Whoever closes a dispatch without a report
\* leaves the earlier ones, and a report that comes later is ignored.)
NoZombieHeartbeat ==
    \A i \in DOMAIN msgs :
        msgs[i].type = "heartbeat" /\ dispatch[msgs[i].about] = "completed" => msgs[i].read

\* A message that counts as delivered is in the prompt of the terminal (or was read):
\* delivered_at is not stamped on text that was lost with its terminal before Enter.
DeliveredWasShown ==
    \A i \in DOMAIN msgs :
        msgs[i].delivered /\ ~msgs[i].read => msgs[i].pasted

\* An ask gives up only when nobody answered, also if a check took the answer first.
AnswerReachesAsk ==
    [][ask' = "timedOut" /\ ask # "timedOut" => \A i \in DOMAIN msgs : ~msgs[i].answer]_vars

\* What was delivered is never typed again.
NoReplay ==
    [][Len(enters') > Len(enters) =>
          \A i \in enters'[Len(enters')] \cap DOMAIN msgs : ~msgs[i].delivered /\ ~msgs[i].read]_vars

\* A message that was sent is read or reaches the agent, although the agent is busy or
\* other messages are under way, as long as its terminal lives.
\* (A reply and the escalation of an exit are not pushed: they wait for the next time
\* the agent becomes idle, or for the next send.)
SentIsPushed ==
    \A i \in 1 .. MaxMessages :
        (i \in DOMAIN msgs /\ msgs[i].signalled /\ ~msgs[i].answer)
            ~> (~pane.open \/ (i \in DOMAIN msgs /\ (msgs[i].delivered \/ msgs[i].read)))

-----------------------------------------------------------------------------
(* What the comments say and the runtime does not keep. *)

\* "each row is auto-pushed at most once" (db.ts:425): no message is typed into a prompt
\* it is in.
PushedOnce ==
    [][Len(enters') > Len(enters) =>
          \A i \in enters'[Len(enters')] \cap DOMAIN msgs : ~msgs[i].pasted]_vars

=============================================================================
