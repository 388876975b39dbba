----------------------- MODULE MessageDelivery_proofs -----------------------
(***************************************************************************)
(* Proofs about MessageDelivery.  A read reconciles its messages one after *)
(* the other; ConsumeSettles says what that leaves of the rows, by the     *)
(* induction of InOrder_proofs.  The inductive invariant is DeliveryInv:   *)
(* each row by itself is as it should be, a reader that sleeps has nothing *)
(* to read, and what waits for its Enter is in the prompt.                 *)
(***************************************************************************)
EXTENDS MessageDelivery, InOrder_proofs, SequenceTheorems

\* A table rebuilt row by row.
LEMMA Rebuilt ==
    ASSUME NEW R \in Seq(Row), NEW f \in [DOMAIN R -> Row]
    PROVE  f \in Seq(Row) /\ Len(f) = Len(R) /\ DOMAIN f = DOMAIN R
<1>1. Len(R) \in Nat /\ DOMAIN R = 1 .. Len(R)
  BY LenProperties
<1>2. f \in Seq(Row)
  BY <1>1, SeqDef, Zenon
<1> QED
  BY <1>1, <1>2, LenProperties

\* An element that joins a sequence.
LEMMA Appended ==
    ASSUME NEW B, NEW s \in Seq(B), NEW e \in B, NEW t, t = Append(s, e)
    PROVE  /\ t \in Seq(B) /\ Len(t) = Len(s) + 1 /\ DOMAIN t = 1 .. Len(s) + 1
           /\ \A k \in DOMAIN s : t[k] = s[k]
           /\ t[Len(s) + 1] = e
<1>1. t \in Seq(B) /\ Len(t) = Len(s) + 1
  OBVIOUS
<1>2. Len(s) \in Nat /\ DOMAIN s = 1 .. Len(s) /\ DOMAIN t = 1 .. Len(t)
  BY <1>1, LenProperties
<1> QED
  BY <1>1, <1>2

\* What marking, rejecting, pasting or losing rows never touches.
SameMessage(a, b) ==
    /\ a.type = b.type /\ a.about = b.about /\ a.honest = b.honest
    /\ a.answer = b.answer /\ a.signalled = b.signalled

\* Tables U are tables T after rows were reconciled: rows are only marked, whatever was
\* consumed unread is a heartbeat of a dispatch that is over, and no status changed.
Settles(T, U) ==
    /\ U.rows \in Seq(Row) /\ Len(U.rows) = Len(T.rows)
    /\ U.status = T.status
    /\ \A j \in DOMAIN T.rows :
          LET a == T.rows[j]
              b == U.rows[j]
          IN  /\ SameMessage(a, b) /\ b.pasted = a.pasted
              /\ a.read => b.read
              /\ a.delivered => b.delivered
              /\ b.read => a.read \/ (a.type = "heartbeat" /\ T.status[a.about] # "dispatched")
              /\ b.delivered => a.delivered \/ b.read

LEMMA SettlesSkip ==
    ASSUME NEW T, T.rows \in Seq(Row)
    PROVE  Settles(T, T)
BY DEF Settles, SameMessage

LEMMA SettlesCompose ==
    ASSUME NEW T, T.rows \in Seq(Row), NEW U, NEW W, Settles(T, U), Settles(U, W)
    PROVE  Settles(T, W)
<1>1. DOMAIN T.rows = DOMAIN U.rows
  BY LenProperties DEF Settles
<1> QED
  BY <1>1 DEF Settles, SameMessage

LEMMA MarkReadAndDeliveredRows ==
    ASSUME NEW R \in Seq(Row), NEW S
    PROVE  LET Q == MarkReadAndDelivered(R, S)
           IN  /\ Q \in Seq(Row) /\ Len(Q) = Len(R) /\ DOMAIN Q = DOMAIN R
               /\ \A j \in DOMAIN R :
                     /\ SameMessage(R[j], Q[j]) /\ Q[j].pasted = R[j].pasted
                     /\ Q[j].rejected = R[j].rejected
                     /\ Q[j].read = (R[j].read \/ j \in S)
                     /\ Q[j].delivered = (R[j].delivered \/ j \in S)
<1> DEFINE Q == MarkReadAndDelivered(R, S)
<1>1. \A j \in DOMAIN R : R[j] \in Row
  BY LenProperties, ElementOfSeq
<1>2. \A j \in DOMAIN R : Q[j] \in Row
  BY <1>1 DEF MarkReadAndDelivered, Row
<1>3. Q \in [DOMAIN R -> Row]
  BY <1>2 DEF MarkReadAndDelivered
<1>4. \A j \in DOMAIN R :
          /\ SameMessage(R[j], Q[j]) /\ Q[j].pasted = R[j].pasted
          /\ Q[j].rejected = R[j].rejected
          /\ Q[j].read = (R[j].read \/ j \in S)
          /\ Q[j].delivered = (R[j].delivered \/ j \in S)
  BY <1>1 DEF MarkReadAndDelivered, Row, SameMessage
<1> QED
  BY <1>3, <1>4, Rebuilt

LEMMA MarkReadRows ==
    ASSUME NEW R \in Seq(Row), NEW S
    PROVE  LET Q == MarkRead(R, S)
           IN  /\ Q \in Seq(Row) /\ Len(Q) = Len(R) /\ DOMAIN Q = DOMAIN R
               /\ \A j \in DOMAIN R :
                     /\ SameMessage(R[j], Q[j]) /\ Q[j].pasted = R[j].pasted
                     /\ Q[j].delivered = R[j].delivered
                     /\ Q[j].read = (R[j].read \/ j \in S)
<1> DEFINE Q == MarkRead(R, S)
<1>1. \A j \in DOMAIN R : R[j] \in Row
  BY LenProperties, ElementOfSeq
<1>2. \A j \in DOMAIN R : Q[j] \in Row
  BY <1>1 DEF MarkRead, Row
<1>3. Q \in [DOMAIN R -> Row]
  BY <1>2 DEF MarkRead
<1>4. \A j \in DOMAIN R :
          /\ SameMessage(R[j], Q[j]) /\ Q[j].pasted = R[j].pasted
          /\ Q[j].delivered = R[j].delivered
          /\ Q[j].read = (R[j].read \/ j \in S)
  BY <1>1 DEF MarkRead, Row, SameMessage
<1> QED
  BY <1>3, <1>4, Rebuilt

-----------------------------------------------------------------------------
(* Reconciliation. *)

Status == [Dispatches -> {"dispatched", "completed", "closed", "failed"}]

MailTables == [rows : Seq(Row), status : Status]

NamesDispatch(row) == row.type \in {"worker_done", "heartbeat"} => row.about \in Dispatches

LEMMA MarkedSettles ==
    ASSUME NEW T \in MailTables, NEW S \in SUBSET DOMAIN T.rows,
           \A j \in S : T.rows[j].type = "heartbeat" /\ T.status[T.rows[j].about] # "dispatched"
    PROVE  LET U == [T EXCEPT !.rows = MarkReadAndDelivered(@, S)]
           IN  U \in MailTables /\ Settles(T, U)
<1> DEFINE U == [T EXCEPT !.rows = MarkReadAndDelivered(@, S)]
<1>1. T.rows \in Seq(Row) /\ T.status \in Status
  BY DEF MailTables
<1> DEFINE Q == MarkReadAndDelivered(T.rows, S)
<1>2. U = [rows |-> Q, status |-> T.status]
  BY DEF MailTables
<1>3. /\ Q \in Seq(Row) /\ Len(Q) = Len(T.rows)
      /\ \A j \in DOMAIN T.rows :
            /\ SameMessage(T.rows[j], Q[j]) /\ Q[j].pasted = T.rows[j].pasted
            /\ Q[j].read = (T.rows[j].read \/ j \in S)
            /\ Q[j].delivered = (T.rows[j].delivered \/ j \in S)
  BY <1>1, MarkReadAndDeliveredRows
<1> HIDE DEF Q
<1>4. U \in MailTables /\ U.rows = Q /\ U.status = T.status
  BY <1>1, <1>2, <1>3 DEF MailTables
<1> HIDE DEF U
<1>5. Settles(T, U)
  BY <1>3, <1>4 DEF Settles
<1> QED
  BY <1>4, <1>5 DEF U

LEMMA RejectSettles ==
    ASSUME NEW T \in MailTables, NEW i \in DOMAIN T.rows
    PROVE  Reject(T, i) \in MailTables /\ Settles(T, Reject(T, i))
<1> DEFINE row == [T.rows[i] EXCEPT !.rejected = TRUE]
           R   == [T.rows EXCEPT ![i] = row]
<1>1. T.rows \in Seq(Row) /\ T.status \in Status /\ \A j \in DOMAIN T.rows : T.rows[j] \in Row
  BY LenProperties, ElementOfSeq DEF MailTables
<1>2. /\ row \in Row /\ SameMessage(T.rows[i], row) /\ row.pasted = T.rows[i].pasted
      /\ row.read = T.rows[i].read /\ row.delivered = T.rows[i].delivered
  BY <1>1 DEF Row, SameMessage
<1>3. Reject(T, i) = [T EXCEPT !.rows = R]
  BY DEF Reject, MailTables
<1> HIDE DEF row
<1>4. R \in Seq(Row) /\ Len(R) = Len(T.rows) /\ DOMAIN R = DOMAIN T.rows
  <2>1. R \in [DOMAIN T.rows -> Row]
    BY <1>1, <1>2
  <2> HIDE DEF R
  <2> QED
    BY <1>1, <2>1, Rebuilt
<1>5. \A j \in DOMAIN T.rows :
         /\ SameMessage(T.rows[j], R[j]) /\ R[j].pasted = T.rows[j].pasted
         /\ R[j].read = T.rows[j].read /\ R[j].delivered = T.rows[j].delivered
  BY <1>1, <1>2 DEF SameMessage
<1> HIDE DEF R
<1>6. [T EXCEPT !.rows = R] \in MailTables /\ [T EXCEPT !.rows = R].rows = R
      /\ [T EXCEPT !.rows = R].status = T.status
  BY <1>4 DEF MailTables
<1> QED
  BY <1>1, <1>3, <1>4, <1>5, <1>6 DEF Settles

\* reconcileHeartbeat, and a worker_done that does not end its dispatch.
LEMMA ReconcileSettles ==
    ASSUME NEW T \in MailTables, NEW i \in DOMAIN T.rows,
           T.rows[i].type = "worker_done" /\ T.rows[i].honest
               => T.status[T.rows[i].about] # "dispatched"
    PROVE  LET U == ReconcileLifecycleMessage(T, i)
           IN  U \in MailTables /\ Settles(T, U)
<1>0. T.rows \in Seq(Row) /\ T.rows[i].honest \in BOOLEAN
  <2>1. T.rows \in Seq(Row)
    BY DEF MailTables
  <2>2. T.rows[i] \in Row
    BY <2>1, LenProperties, ElementOfSeq
  <2> QED
    BY <2>1, <2>2 DEF Row
<1>1. T \in MailTables /\ Settles(T, T)
  BY <1>0, SettlesSkip
<1>2. Reject(T, i) \in MailTables /\ Settles(T, Reject(T, i))
  BY RejectSettles
<1>3. CASE T.rows[i].type = "heartbeat"
  <2>1. CASE Suppressed(T, i)
    <3>1. ReconcileHeartbeat(T, i) = [T EXCEPT !.rows = MarkReadAndDelivered(@, {i})]
      BY <2>1 DEF ReconcileHeartbeat
    <3>2. {i} \in SUBSET DOMAIN T.rows
          /\ \A j \in {i} : T.rows[j].type = "heartbeat" /\ T.status[T.rows[j].about] # "dispatched"
      BY <2>1 DEF Suppressed
    <3> QED
      BY <1>3, <3>1, <3>2, MarkedSettles DEF ReconcileLifecycleMessage
  <2>2. CASE ~Suppressed(T, i)
    <3>1. ReconcileHeartbeat(T, i) \in {Reject(T, i), T}
      BY <2>2 DEF ReconcileHeartbeat
    <3> QED
      BY <1>1, <1>2, <1>3, <3>1 DEF ReconcileLifecycleMessage
  <2> QED
    BY <2>1, <2>2
<1>4. CASE T.rows[i].type = "worker_done"
  <2>1. ReconcileWorkerDone(T, i) \in {Reject(T, i), T}
    BY <1>0, <1>4 DEF ReconcileWorkerDone
  <2> QED
    BY <1>1, <1>2, <1>4, <2>1 DEF ReconcileLifecycleMessage
<1>5. CASE T.rows[i].type \notin {"heartbeat", "worker_done"}
  BY <1>1, <1>5 DEF ReconcileLifecycleMessage
<1> QED
  BY <1>3, <1>4, <1>5

\* A read: what it consumes, and heartbeats of dispatches that are over, become read.
LEMMA ConsumeSettles ==
    ASSUME msgs \in Seq(Row), dispatch \in Status, NEW S,
           \A i \in DOMAIN msgs : msgs[i].type = "worker_done" /\ msgs[i].honest
               => dispatch[msgs[i].about] # "dispatched"
    PROVE  \E R \in Seq(Row) :
              /\ Settles([rows |-> msgs, status |-> dispatch], [rows |-> R, status |-> dispatch])
              /\ Consume(S) = [rows |-> MarkRead(R, S), status |-> dispatch]
<1> DEFINE n == Len(msgs)
           base == [rows |-> msgs, status |-> dispatch]
           V == {T \in MailTables : Settles(base, T)}
           Read(T, i) == IF i \in S THEN ReconcileLifecycleMessage(T, i) ELSE T
           step == [i \in 1 .. n |-> [T \in V |-> Read(T, i)]]
<1>1. n \in Nat /\ DOMAIN msgs = 1 .. n
  BY LenProperties
<1>2. base \in V
  BY SettlesSkip DEF MailTables
<1>3. ASSUME NEW i \in 1 .. n, NEW T \in V PROVE Read(T, i) \in V
  <2>1. T \in MailTables /\ Settles(base, T) /\ DOMAIN T.rows = DOMAIN msgs
    BY LenProperties DEF Settles
  <2>2. T.rows[i].type = "worker_done" /\ T.rows[i].honest
               => T.status[T.rows[i].about] # "dispatched"
    BY <1>1, <2>1 DEF Settles, SameMessage
  <2>3. ReconcileLifecycleMessage(T, i) \in MailTables
        /\ Settles(T, ReconcileLifecycleMessage(T, i))
    BY <1>1, <2>1, <2>2, ReconcileSettles
  <2>4. Settles(base, ReconcileLifecycleMessage(T, i))
    BY <2>1, <2>3, SettlesCompose
  <2> QED
    BY <2>3, <2>4
<1> HIDE DEF V
<1>4. step \in Steps(n, V)
  <2> HIDE DEF Read
  <2> QED
    BY <1>3 DEF Steps
<1> HIDE DEF n, base, step
<1>5. PICK f \in [0 .. n -> V] : f[0] = base /\ \A i \in 1 .. n : f[i] = step[i][f[i - 1]]
  <2>1. Courses(n, V, base, step) # {}
    BY <1>1, <1>2, <1>4, CourseExists, Zenon
  <2> QED
    BY <2>1 DEF Courses
<1>6. \A i \in 1 .. n : f[i] = Read(f[i - 1], i)
  <2> HIDE DEF Read
  <2>1. \A i \in 1 .. n : f[i - 1] \in V
    BY <1>1
  <2> QED
    BY <1>1, <1>5, <2>1 DEF step
<1> DEFINE Equation(g) == g = [i \in 0 .. n |-> IF i = 0 THEN base
                                        ELSE IF i \in S THEN ReconcileLifecycleMessage(g[i - 1], i)
                                        ELSE g[i - 1]]
           after == CHOOSE g : Equation(g)
<1>7. Equation(f)
  BY <1>1, <1>5, <1>6
<1>8. Equation(after)
  <2> HIDE DEF Equation
  <2> QED
    BY <1>7
<1>9. Consume(S) = [after[n] EXCEPT !.rows = MarkRead(@, S)]
  BY DEF Consume, n, base
<1> HIDE DEF after
<1>10. after[0] = base /\ \A i \in 1 .. n : after[i] = Read(after[i - 1], i)
  BY <1>1, <1>8
<1>11. after[n] \in V
  <2> DEFINE W == [i \in 0 .. n |-> V]
  <2>1. after[0] \in W[0]
    BY <1>1, <1>2, <1>10
  <2>2. \A i \in 1 .. n : after[i - 1] \in W[i - 1] => after[i] \in W[i]
    <3> HIDE DEF Read
    <3> QED
      BY <1>1, <1>3, <1>10
  <2>3. \A i \in 0 .. n : after[i] \in W[i]
    <3> HIDE DEF W
    <3> QED
      BY <1>1, <2>1, <2>2, CourseKeeps
  <2> QED
    BY <1>1, <2>3
<1> DEFINE R == after[n].rows
<1>12. /\ after[n] = [rows |-> R, status |-> dispatch] /\ R \in Seq(Row)
       /\ Settles(base, after[n])
  BY <1>11 DEF V, MailTables, Settles, base
<1>13. Consume(S) = [rows |-> MarkRead(R, S), status |-> dispatch]
  BY <1>9, <1>12
<1> QED
  BY <1>12, <1>13 DEF base

-----------------------------------------------------------------------------
(* The push. *)

\* What is typed into the prompt, and what becomes of the rows that are.
Pushes(R, Q) ==
    /\ Q \in Seq(Row) /\ Len(Q) = Len(R)
    /\ \A i \in DOMAIN R :
          /\ SameMessage(R[i], Q[i]) /\ Q[i].read = R[i].read
          /\ R[i].delivered => Q[i].delivered
          /\ R[i].pasted => Q[i].pasted
          /\ Q[i].delivered => R[i].delivered \/ Q[i].pasted

LEMMA DeliverPushes ==
    ASSUME NEW R \in Seq(Row), run \in BOOLEAN, pane.cursor \in BOOLEAN,
           DeliverPendingMessages(R)
    PROVE  /\ Pushes(R, msgs')
           /\ \/ enters' = enters
              \/ /\ pane.open /\ Undelivered(R) # {} /\ enters' = Append(enters, Undelivered(R))
                 /\ \A i \in Undelivered(R) : msgs'[i].pasted
<1> DEFINE batch == Undelivered(R)
           Q == [i \in DOMAIN R |->
                   IF i \in batch
                   THEN [R[i] EXCEPT !.pasted = TRUE, !.delivered = UserOwned]
                   ELSE R[i]]
<1>1. \A i \in DOMAIN R : R[i] \in Row
  BY LenProperties, ElementOfSeq
<1>2. batch \subseteq DOMAIN R /\ \A i \in batch : ~R[i].delivered
  BY DEF Undelivered, Unread
<1>3. CASE ~MayPush(R)
  BY <1>1, <1>3 DEF DeliverPendingMessages, Pushes, SameMessage
<1>4. CASE MayPush(R)
  <2>1. msgs' = Q /\ enters' = IF UserOwned THEN enters ELSE Append(enters, batch)
    BY <1>4 DEF DeliverPendingMessages
  <2>2. UserOwned \in BOOLEAN
    BY DEF UserOwned
  <2> HIDE DEF batch
  <2>3. \A i \in DOMAIN R : Q[i] \in Row
    BY <1>1, <2>2 DEF Row
  <2>4. \A i \in DOMAIN R :
          /\ SameMessage(R[i], Q[i]) /\ Q[i].read = R[i].read
          /\ R[i].delivered => Q[i].delivered
          /\ R[i].pasted => Q[i].pasted
          /\ Q[i].delivered => R[i].delivered \/ Q[i].pasted
          /\ i \in batch => Q[i].pasted
    BY <1>1, <1>2 DEF Row, SameMessage
  <2>5. Q \in [DOMAIN R -> Row]
    BY <2>3
  <2> HIDE DEF Q
  <2>6. Q \in Seq(Row) /\ Len(Q) = Len(R)
    BY <2>5, Rebuilt
  <2>7. Pushes(R, msgs') /\ \A i \in batch : msgs'[i].pasted
    BY <1>2, <2>1, <2>4, <2>6 DEF Pushes
  <2>8. pane.open /\ batch # {}
    BY <1>4 DEF MayPush, batch
  <2> QED
    BY <2>1, <2>7, <2>8 DEF batch
<1> QED
  BY <1>3, <1>4

LEMMA DeliverIfIdlePushes ==
    ASSUME NEW R \in Seq(Row), run \in BOOLEAN, pane.cursor \in BOOLEAN, DeliverIfIdle(R)
    PROVE  /\ Pushes(R, msgs')
           /\ \/ enters' = enters
              \/ /\ pane.open /\ Undelivered(R) # {} /\ enters' = Append(enters, Undelivered(R))
                 /\ \A i \in Undelivered(R) : msgs'[i].pasted
<1>1. CASE pane.status = "idle"
  BY <1>1, DeliverPushes DEF DeliverIfIdle
<1>2. CASE pane.status # "idle"
  BY <1>2 DEF DeliverIfIdle, Pushes, SameMessage
<1> QED
  BY <1>1, <1>2

-----------------------------------------------------------------------------
(* The invariant. *)

\* Row i says nothing that is not so: a lifecycle message names a dispatch, one of the
\* dispatch's own terminal that reports it done has ended it, what was consumed was seen
\* or is a heartbeat of a dispatch that is over, what was delivered was shown, and no
\* heartbeat of a completed dispatch is left.
RowOK(i, row, status, seen) ==
    /\ NamesDispatch(row)
    /\ row.type = "worker_done" /\ row.honest => status[row.about] # "dispatched"
    /\ row.read => \/ i \in seen
                   \/ row.type = "heartbeat" /\ status[row.about] # "dispatched"
    /\ row.delivered /\ ~row.read => row.pasted
    /\ row.type = "heartbeat" /\ status[row.about] = "completed" => row.read

RowsOK == \A i \in DOMAIN msgs : RowOK(i, msgs[i], dispatch, taken)

\* Nobody is answered who has not asked.
NoAnswerBeforeAsk == ask = "none" => \A i \in DOMAIN msgs : ~msgs[i].answer

\* What waits for its Enter is in the prompt of a terminal that is there.
PastedWhileOpen ==
    \A k \in DOMAIN enters, i \in 1 .. MaxMessages :
        i \in enters[k] => i \in DOMAIN msgs /\ (pane.open => msgs[i].pasted)

DeliveryInv == TypeOK /\ RowsOK /\ NoLostWakeup /\ NoAnswerBeforeAsk /\ PastedWhileOpen

\* Row b is what a step made of row a: it was read only by somebody, delivered only into
\* a prompt, and neither is taken back.
RowAdvances(i, a, b, status, seen) ==
    /\ SameMessage(a, b)
    /\ a.read => b.read
    /\ a.delivered => b.delivered
    /\ b.read => \/ a.read \/ i \in seen
                 \/ a.type = "heartbeat" /\ status[a.about] # "dispatched"
    /\ b.delivered => a.delivered \/ b.read \/ b.pasted
    /\ a.delivered /\ a.pasted => b.pasted

LEMMA RowStaysOK ==
    ASSUME NEW i, NEW a, NEW b, NEW st \in Status, NEW st2 \in Status, NEW seen, NEW seen2,
           RowOK(i, a, st, seen), RowAdvances(i, a, b, st2, seen2), seen \subseteq seen2,
           \A d \in Dispatches : st[d] # "dispatched" => st2[d] = st[d],
           a.type = "heartbeat" /\ st2[a.about] = "completed" => st[a.about] = "completed" \/ b.read
    PROVE  RowOK(i, b, st2, seen2)
BY DEF RowOK, RowAdvances, SameMessage, NamesDispatch

\* The same for a step that neither adds rows nor ends a dispatch.
LEMMA RowsStayOK ==
    ASSUME TypeOK, RowsOK, msgs' \in Seq(Row), Len(msgs') = Len(msgs), UNCHANGED dispatch,
           taken \subseteq taken',
           \A i \in DOMAIN msgs : RowAdvances(i, msgs[i], msgs'[i], dispatch, taken')
    PROVE  RowsOK'
<1>1. DOMAIN msgs' = DOMAIN msgs /\ dispatch \in Status
  BY LenProperties DEF TypeOK, Status
<1> QED
  BY <1>1, RowStaysOK DEF RowsOK

LEMMA InitInv == Init => DeliveryInv
<1> SUFFICES ASSUME Init PROVE DeliveryInv
  OBVIOUS
<1>1. msgs = << >> /\ enters = << >> /\ DOMAIN msgs = {} /\ DOMAIN enters = {} /\ Len(msgs) = 0
  BY DEF Init
<1>2. MaxMessages \in Nat
  BY DeliveryAssumption
<1>3. msgs \in Seq(Row) /\ enters \in Seq((SUBSET (1 .. MaxMessages)) \ {{}})
  BY <1>1
<1>4. TypeOK
  <2>1. Len(msgs) =< MaxMessages
    BY <1>1, <1>2
  <2>2. pane \in [open : BOOLEAN, status : {"idle", "working"}, cursor : BOOLEAN]
    BY <2>1 DEF Init
  <2>3. /\ dispatch \in [Dispatches -> {"dispatched", "completed", "closed", "failed"}]
        /\ check \in [Checkers -> {"idle", "parked", "woken"}]
        /\ ask \in {"none", "parked", "woken", "answered", "timedOut", "aborted"}
        /\ run \in BOOLEAN /\ taken = {}
    BY DEF Init
  <2> QED
    BY <1>3, <2>1, <2>2, <2>3 DEF TypeOK
<1> QED
  BY <1>1, <1>4 DEF Init, DeliveryInv, RowsOK, NoLostWakeup, NoAnswerBeforeAsk, PastedWhileOpen,
                    Unread

\* The columns of the rows, and what the invariant says of the sequences.
LEMMA Typed ==
    ASSUME TypeOK
    PROVE  /\ msgs \in Seq(Row) /\ Len(msgs) \in Nat /\ DOMAIN msgs = 1 .. Len(msgs)
           /\ Len(msgs) =< MaxMessages /\ MaxMessages \in Nat
           /\ \A i \in DOMAIN msgs : msgs[i] \in Row
           /\ dispatch \in Status
           /\ enters \in Seq((SUBSET (1 .. MaxMessages)) \ {{}})
           /\ Len(enters) \in Nat /\ DOMAIN enters = 1 .. Len(enters)
           /\ run \in BOOLEAN /\ pane.cursor \in BOOLEAN /\ pane.open \in BOOLEAN
<1>1. msgs \in Seq(Row) /\ enters \in Seq((SUBSET (1 .. MaxMessages)) \ {{}})
  BY DEF TypeOK
<1>2. /\ Len(msgs) \in Nat /\ DOMAIN msgs = 1 .. Len(msgs)
      /\ Len(enters) \in Nat /\ DOMAIN enters = 1 .. Len(enters)
  BY <1>1, LenProperties
<1>3. \A i \in DOMAIN msgs : msgs[i] \in Row
  BY <1>1, <1>2, ElementOfSeq
<1> QED
  BY <1>1, <1>2, <1>3, DeliveryAssumption DEF TypeOK, Status

-----------------------------------------------------------------------------
(* What a step does to the batches that wait for Enter, and to the readers. *)

\* The batches stay as they are when rows stay in the prompt they were typed into.
LEMMA BatchesStay ==
    ASSUME TypeOK, PastedWhileOpen, UNCHANGED enters, Len(msgs) =< Len(msgs'),
           msgs' \in Seq(Row), pane'.open => pane.open,
           \A i \in DOMAIN msgs : pane'.open /\ msgs[i].pasted => msgs'[i].pasted
    PROVE  PastedWhileOpen'
<1>1. DOMAIN msgs \subseteq DOMAIN msgs'
  BY Typed, LenProperties
<1> QED
  BY <1>1 DEF PastedWhileOpen

\* A push adds the batch it typed.
LEMMA BatchAdded ==
    ASSUME TypeOK, PastedWhileOpen, NEW R \in Seq(Row), Len(msgs) =< Len(R),
           Len(R) =< MaxMessages, Pushes(R, msgs'), pane'.open = pane.open,
           \A i \in DOMAIN msgs : msgs[i].pasted => R[i].pasted,
           \/ enters' = enters
           \/ /\ pane.open /\ Undelivered(R) # {} /\ enters' = Append(enters, Undelivered(R))
              /\ \A i \in Undelivered(R) : msgs'[i].pasted
    PROVE  /\ enters' \in Seq((SUBSET (1 .. MaxMessages)) \ {{}})
           /\ PastedWhileOpen'
<1> DEFINE batch == Undelivered(R)
<1>1. /\ Len(R) \in Nat /\ DOMAIN R = 1 .. Len(R)
      /\ msgs' \in Seq(Row) /\ DOMAIN msgs' = DOMAIN R
  BY LenProperties DEF Pushes
<1>2. DOMAIN msgs \subseteq DOMAIN msgs' /\ DOMAIN msgs \subseteq DOMAIN R
  BY <1>1, Typed
<1>3. \A i \in DOMAIN msgs : msgs[i].pasted => msgs'[i].pasted
  BY <1>2 DEF Pushes
<1>4. CASE enters' = enters
  BY <1>2, <1>3, <1>4, Typed DEF PastedWhileOpen
<1>5. CASE /\ pane.open /\ batch # {} /\ enters' = Append(enters, batch)
           /\ \A i \in batch : msgs'[i].pasted
  <2> DEFINE B == (SUBSET (1 .. MaxMessages)) \ {{}}
  <2>1. batch \subseteq DOMAIN R
    BY DEF Undelivered, Unread
  <2> HIDE DEF batch
  <2>2. DOMAIN R \subseteq 1 .. MaxMessages
    BY <1>1, Typed
  <2>3. batch \in B /\ batch \subseteq DOMAIN msgs'
    BY <1>1, <1>5, <2>1, <2>2
  <2>4. enters \in Seq(B) /\ Len(enters) \in Nat /\ DOMAIN enters = 1 .. Len(enters)
    BY Typed
  <2> HIDE DEF B
  <2>5. enters' = Append(enters, batch)
    BY <1>5
  <2>6. batch \in B
    BY <2>3
  <2>7. enters \in Seq(B)
    BY <2>4
  <2>8. /\ enters' \in Seq(B)
        /\ DOMAIN enters' = 1 .. Len(enters) + 1
        /\ \A k \in DOMAIN enters : enters'[k] = enters[k]
        /\ enters'[Len(enters) + 1] = batch
    <3>1. enters' \in Seq(B)
      BY <2>5, <2>6, <2>7, Appended
    <3>2. DOMAIN enters' = 1 .. Len(enters) + 1
      BY <2>5, <2>6, <2>7, Appended
    <3>3. \A k \in DOMAIN enters : enters'[k] = enters[k]
      BY <2>5, <2>6, <2>7, Appended
    <3>4. enters'[Len(enters) + 1] = batch
      BY <2>5, <2>6, <2>7, Appended
    <3> QED
      BY <3>1, <3>2, <3>3, <3>4
  <2>9. ASSUME NEW k \in DOMAIN enters', NEW i \in 1 .. MaxMessages, i \in enters'[k]
        PROVE  i \in DOMAIN msgs' /\ msgs'[i].pasted
    <3>1. CASE k \in DOMAIN enters
      BY <1>2, <1>3, <1>5, <2>8, <2>9, <3>1 DEF PastedWhileOpen
    <3>2. CASE k \notin DOMAIN enters
      <4>1. k = Len(enters) + 1
        BY <2>8, <3>2, Typed
      <4> QED
        BY <1>5, <2>3, <2>8, <2>9, <4>1
    <3> QED
      BY <3>1, <3>2
  <2> QED
    BY <2>8, <2>9 DEF PastedWhileOpen, B
<1> QED
  BY <1>4, <1>5

\* Rows were only marked: a reader that sleeps has nothing more to read than before.
LEMMA ReadersStay ==
    ASSUME TypeOK, NoLostWakeup, NoAnswerBeforeAsk, msgs' \in Seq(Row), Len(msgs') = Len(msgs),
           \A i \in DOMAIN msgs : SameMessage(msgs[i], msgs'[i]) /\ (msgs[i].read => msgs'[i].read),
           \A c \in Checkers : check'[c] = "parked" =>
               check[c] = "parked" \/ Unread(msgs, FilterOf[c]) = {},
           ask' \in {"none", "parked"} => ask' = ask
    PROVE  NoLostWakeup' /\ NoAnswerBeforeAsk'
<1>1. DOMAIN msgs' = DOMAIN msgs
  BY Typed, LenProperties
<1>2. \A c \in Checkers : Unread(msgs', FilterOf[c]) \subseteq Unread(msgs, FilterOf[c])
  BY <1>1 DEF Unread, SameMessage
<1> QED
  BY <1>1, <1>2 DEF NoLostWakeup, NoAnswerBeforeAsk, SameMessage, Unread

\* A message was added and its readers told.
LEMMA ReadersNotified ==
    ASSUME TypeOK, NoLostWakeup, NoAnswerBeforeAsk, NEW type,
           msgs' \in Seq(Row), Len(msgs') = Len(msgs) + 1,
           \A i \in DOMAIN msgs : SameMessage(msgs[i], msgs'[i]) /\ (msgs[i].read => msgs'[i].read),
           msgs'[Len(msgs) + 1].type = type,
           msgs'[Len(msgs) + 1].answer => ask # "none",
           NotifyMessageArrived(type)
    PROVE  /\ NoLostWakeup' /\ NoAnswerBeforeAsk'
           /\ check' \in [Checkers -> {"idle", "parked", "woken"}]
           /\ ask' \in {"none", "parked", "woken", "answered", "timedOut", "aborted"}
<1>1. DOMAIN msgs' = 1 .. Len(msgs) + 1 /\ DOMAIN msgs = 1 .. Len(msgs) /\ Len(msgs) \in Nat
  BY Typed, LenProperties
<1>2. /\ check \in [Checkers -> {"idle", "parked", "woken"}]
      /\ ask \in {"none", "parked", "woken", "answered", "timedOut", "aborted"}
  BY DEF TypeOK
<1>3. \A c \in Checkers : check'[c] = "parked" => check[c] = "parked" /\ type \notin FilterOf[c]
  BY <1>2 DEF NotifyMessageArrived, Woken
<1>4. ask' # "parked" /\ (ask' = "none" => ask = "none")
  BY DEF NotifyMessageArrived
<1>5. ASSUME NEW c \in Checkers, check'[c] = "parked", NEW i \in Unread(msgs', FilterOf[c])
      PROVE  ~msgs'[i].signalled
  <2>1. i \in DOMAIN msgs
    BY <1>1, <1>3, <1>5 DEF Unread
  <2> QED
    BY <1>3, <1>5, <2>1 DEF Unread, SameMessage, NoLostWakeup
<1>6. NoAnswerBeforeAsk'
  BY <1>1, <1>4 DEF NoAnswerBeforeAsk, SameMessage
<1> QED
  BY <1>2, <1>4, <1>5, <1>6 DEF NoLostWakeup, NotifyMessageArrived

-----------------------------------------------------------------------------
(* What the steps do to the rows. *)

\* A read by check, by the loop, or by a call that timed out.
LEMMA ReadKeeps ==
    ASSUME DeliveryInv, NEW S \in SUBSET DOMAIN msgs,
           msgs' = Consume(S).rows, dispatch' = Consume(S).status, taken' = taken \cup S
    PROVE  /\ msgs' \in Seq(Row) /\ Len(msgs') = Len(msgs) /\ UNCHANGED dispatch
           /\ taken' \subseteq DOMAIN msgs'
           /\ \A i \in DOMAIN msgs :
                 /\ SameMessage(msgs[i], msgs'[i]) /\ msgs'[i].pasted = msgs[i].pasted
                 /\ msgs[i].read => msgs'[i].read
                 /\ msgs[i].delivered => msgs'[i].delivered
           /\ RowsOK'
<1>1. msgs \in Seq(Row) /\ dispatch \in Status /\ taken \subseteq DOMAIN msgs
  BY Typed DEF DeliveryInv, TypeOK
<1>2. \A i \in DOMAIN msgs : msgs[i].type = "worker_done" /\ msgs[i].honest
          => dispatch[msgs[i].about] # "dispatched"
  BY DEF DeliveryInv, RowsOK, RowOK
<1>3. PICK R \in Seq(Row) :
          /\ Settles([rows |-> msgs, status |-> dispatch], [rows |-> R, status |-> dispatch])
          /\ Consume(S) = [rows |-> MarkRead(R, S), status |-> dispatch]
  BY <1>1, <1>2, ConsumeSettles
<1>4. msgs' = MarkRead(R, S) /\ dispatch' = dispatch
  BY <1>3
<1>5. /\ MarkRead(R, S) \in Seq(Row) /\ Len(MarkRead(R, S)) = Len(R)
      /\ \A j \in DOMAIN R :
            /\ SameMessage(R[j], MarkRead(R, S)[j])
            /\ MarkRead(R, S)[j].pasted = R[j].pasted
            /\ MarkRead(R, S)[j].delivered = R[j].delivered
            /\ MarkRead(R, S)[j].read = (R[j].read \/ j \in S)
  BY MarkReadRows
<1>6. /\ Len(R) = Len(msgs)
      /\ \A j \in DOMAIN msgs :
            /\ SameMessage(msgs[j], R[j]) /\ R[j].pasted = msgs[j].pasted
            /\ msgs[j].read => R[j].read
            /\ msgs[j].delivered => R[j].delivered
            /\ R[j].read => \/ msgs[j].read
                            \/ msgs[j].type = "heartbeat" /\ dispatch[msgs[j].about] # "dispatched"
            /\ R[j].delivered => msgs[j].delivered \/ R[j].read
  BY <1>3 DEF Settles
<1>7. msgs' \in Seq(Row) /\ Len(msgs') = Len(msgs) /\ DOMAIN R = DOMAIN msgs
      /\ DOMAIN msgs' = DOMAIN msgs
  BY <1>1, <1>4, <1>5, <1>6, LenProperties
<1>8. \A i \in DOMAIN msgs :
         /\ SameMessage(R[i], msgs'[i]) /\ msgs'[i].pasted = R[i].pasted
         /\ msgs'[i].delivered = R[i].delivered
         /\ msgs'[i].read = (R[i].read \/ i \in S)
  BY <1>4, <1>5, <1>7
<1>9. \A i \in DOMAIN msgs :
         /\ SameMessage(msgs[i], msgs'[i]) /\ msgs'[i].pasted = msgs[i].pasted
         /\ msgs[i].read => msgs'[i].read
         /\ msgs[i].delivered => msgs'[i].delivered
  <2>1. \A i \in DOMAIN msgs :
            SameMessage(msgs[i], msgs'[i]) /\ msgs'[i].pasted = msgs[i].pasted
    BY <1>6, <1>8 DEF SameMessage
  <2>2. \A i \in DOMAIN msgs : msgs[i].read => msgs'[i].read
    BY <1>6, <1>8
  <2>3. \A i \in DOMAIN msgs : msgs[i].delivered => msgs'[i].delivered
    BY <1>6, <1>8
  <2> QED
    BY <2>1, <2>2, <2>3
<1>10. \A i \in DOMAIN msgs : RowAdvances(i, msgs[i], msgs'[i], dispatch, taken')
  BY <1>6, <1>9, <1>8 DEF RowAdvances
<1>11. RowsOK'
  BY <1>4, <1>7, <1>10, RowsStayOK DEF DeliveryInv
<1> QED
  BY <1>1, <1>4, <1>7, <1>9, <1>11

\* A row that joins the table.
LEMMA JoinedRowsOK ==
    ASSUME TypeOK, RowsOK, NEW row \in Row, msgs' = Append(msgs, row), UNCHANGED taken,
           dispatch' \in Status,
           \A d \in Dispatches : dispatch[d] # "dispatched" => dispatch'[d] = dispatch[d],
           \A d \in Dispatches : dispatch'[d] = "completed" => dispatch[d] = "completed",
           RowOK(Len(msgs) + 1, row, dispatch', taken')
    PROVE  /\ msgs' \in Seq(Row) /\ Len(msgs') = Len(msgs) + 1
           /\ \A i \in DOMAIN msgs : msgs'[i] = msgs[i]
           /\ msgs'[Len(msgs) + 1] = row
           /\ RowsOK'
<1>1. /\ msgs' \in Seq(Row) /\ Len(msgs') = Len(msgs) + 1 /\ DOMAIN msgs' = 1 .. Len(msgs) + 1
      /\ DOMAIN msgs = 1 .. Len(msgs) /\ Len(msgs) \in Nat /\ msgs \in Seq(Row)
      /\ dispatch \in Status
  BY Typed, LenProperties
<1>2. \A i \in DOMAIN msgs : msgs'[i] = msgs[i]
  BY <1>1, Appended
<1>3. msgs'[Len(msgs) + 1] = row
  BY <1>1, Appended
<1>4. ASSUME NEW i \in DOMAIN msgs
      PROVE  RowOK(i, msgs'[i], dispatch', taken')
  <2>1. RowOK(i, msgs[i], dispatch, taken) /\ msgs'[i] = msgs[i]
    BY <1>2 DEF RowsOK
  <2>2. RowAdvances(i, msgs[i], msgs'[i], dispatch', taken')
    BY <2>1 DEF RowAdvances, SameMessage
  <2>3. msgs[i].type = "heartbeat" => msgs[i].about \in Dispatches
    BY <2>1 DEF RowOK, NamesDispatch
  <2> QED
    BY <1>1, <2>1, <2>2, <2>3, RowStaysOK
<1>5. RowsOK'
  BY <1>1, <1>3, <1>4 DEF RowsOK
<1> QED
  BY <1>1, <1>2, <1>3, <1>5

\* Rows that are fine stay fine when a batch of them is typed.
LEMMA PushedRowsOK ==
    ASSUME NEW R \in Seq(Row), Pushes(R, msgs'), dispatch' \in Status,
           \A j \in DOMAIN R : RowOK(j, R[j], dispatch', taken')
    PROVE  RowsOK'
<1>1. DOMAIN msgs' = DOMAIN R
  BY LenProperties DEF Pushes
<1>2. ASSUME NEW j \in DOMAIN R PROVE RowOK(j, msgs'[j], dispatch', taken')
  <2>1. RowAdvances(j, R[j], msgs'[j], dispatch', taken')
    BY DEF Pushes, RowAdvances, SameMessage
  <2> QED
    BY <2>1, RowStaysOK
<1> QED
  BY <1>1, <1>2 DEF RowsOK

\* orchestration.send before anyone is told: the new row, last, was reconciled.
Sent(type, d, honest) == [rows   |-> Append(msgs, NewRow(type, d, honest)), status |-> dispatch]

After(type, d, honest) == ReconcileLifecycleMessage(Sent(type, d, honest), Len(msgs) + 1)

LEMMA SentTables ==
    ASSUME DeliveryInv, NEW type \in Types, NEW d \in Dispatches \cup {NoDispatch},
           NEW honest \in BOOLEAN
    PROVE  /\ Sent(type, d, honest) \in MailTables
           /\ Sent(type, d, honest).status = dispatch
           /\ LET rows == Sent(type, d, honest).rows
              IN  /\ rows \in Seq(Row) /\ Len(rows) = Len(msgs) + 1
                  /\ DOMAIN rows = 1 .. Len(msgs) + 1
                  /\ \A j \in DOMAIN msgs : rows[j] = msgs[j]
                  /\ rows[Len(msgs) + 1] = NewRow(type, d, honest)
<1>1. NewRow(type, d, honest) \in Row
  BY DEF NewRow, Row
<1>2. msgs \in Seq(Row) /\ dispatch \in Status
  BY Typed DEF DeliveryInv
<1> DEFINE rows == Append(msgs, NewRow(type, d, honest))
<1>3. /\ rows \in Seq(Row) /\ Len(rows) = Len(msgs) + 1
      /\ DOMAIN rows = 1 .. Len(msgs) + 1
      /\ \A j \in DOMAIN msgs : rows[j] = msgs[j]
      /\ rows[Len(msgs) + 1] = NewRow(type, d, honest)
  BY <1>1, <1>2, Appended
<1> HIDE DEF rows
<1>4. Sent(type, d, honest) = [rows |-> rows, status |-> dispatch]
  BY DEF Sent, rows
<1> QED
  BY <1>2, <1>3, <1>4 DEF MailTables

LEMMA SendRows ==
    ASSUME DeliveryInv, NEW type \in Types, NEW d \in Dispatches \cup {NoDispatch},
           NEW honest \in BOOLEAN, type \in {"worker_done", "heartbeat"} => d \in Dispatches,
           dispatch' = After(type, d, honest).status, UNCHANGED taken
    PROVE  LET R == After(type, d, honest).rows
           IN  /\ R \in Seq(Row) /\ Len(R) = Len(msgs) + 1 /\ dispatch' \in Status
               /\ \A j \in DOMAIN msgs :
                     /\ SameMessage(msgs[j], R[j]) /\ R[j].pasted = msgs[j].pasted
                     /\ msgs[j].read => R[j].read
                     /\ msgs[j].delivered => R[j].delivered
               /\ R[Len(msgs) + 1].type = type /\ ~R[Len(msgs) + 1].answer
               /\ Suppressed(Sent(type, d, honest), Len(msgs) + 1) => R[Len(msgs) + 1].read
               /\ \A j \in DOMAIN R : RowOK(j, R[j], dispatch', taken')
<1> DEFINE T == Sent(type, d, honest)
           i == Len(msgs) + 1
           U == After(type, d, honest)
           row == NewRow(type, d, honest)
<1>1. /\ T \in MailTables /\ T.status = dispatch /\ T.rows \in Seq(Row) /\ Len(T.rows) = i
      /\ DOMAIN T.rows = 1 .. i /\ \A j \in DOMAIN msgs : T.rows[j] = msgs[j]
      /\ T.rows[i] = row
  BY SentTables
<1>2. /\ DOMAIN msgs = 1 .. Len(msgs) /\ Len(msgs) \in Nat /\ i \in DOMAIN T.rows
      /\ dispatch \in Status
  BY <1>1, Typed DEF DeliveryInv
<1>3. /\ row.type = type /\ row.about = d /\ row.honest = honest /\ ~row.answer /\ ~row.rejected
      /\ ~row.read /\ ~row.delivered /\ ~row.pasted
  BY DEF NewRow
<1>4. \A j \in DOMAIN msgs : RowOK(j, msgs[j], dispatch, taken) /\ NamesDispatch(msgs[j])
  BY DEF DeliveryInv, RowsOK, RowOK
<1>5. U = ReconcileLifecycleMessage(T, i)
  BY DEF After
<1> HIDE DEF T, U, row, i
<1>6. CASE type = "worker_done" /\ honest /\ dispatch[d] = "dispatched"
  <2> DEFINE S == EarlierHeartbeats(T.rows, i)
             Q == MarkReadAndDelivered(T.rows, S)
  <2>1. U = [rows |-> Q, status |-> [dispatch EXCEPT ![d] = "completed"]]
    BY <1>1, <1>3, <1>5, <1>6 DEF ReconcileLifecycleMessage, ReconcileWorkerDone
  <2>2. /\ S \subseteq DOMAIN T.rows
        /\ \A j \in S : T.rows[j].type = "heartbeat" /\ T.rows[j].about = d
    BY <1>1, <1>3 DEF EarlierHeartbeats, Unread
  <2>3. \A j \in DOMAIN msgs : msgs[j].type = "heartbeat" /\ msgs[j].about = d /\ ~msgs[j].read
           => j \in S
    BY <1>1, <1>2, <1>3 DEF EarlierHeartbeats, Unread, i
  <2> HIDE DEF S
  <2>4. /\ Q \in Seq(Row) /\ Len(Q) = i
        /\ \A j \in DOMAIN T.rows :
              /\ SameMessage(T.rows[j], Q[j]) /\ Q[j].pasted = T.rows[j].pasted
              /\ Q[j].read = (T.rows[j].read \/ j \in S)
              /\ Q[j].delivered = (T.rows[j].delivered \/ j \in S)
    BY <1>1, MarkReadAndDeliveredRows
  <2> HIDE DEF Q
  <2>5. U.rows = Q /\ dispatch' = [dispatch EXCEPT ![d] = "completed"]
    BY <2>1 DEF U
  <2>6. d \in Dispatches
    BY <1>6
  <2>7. dispatch' \in Status /\ dispatch'[d] = "completed"
    BY <1>2, <2>5, <2>6 DEF Status
  <2>8. \A x \in Dispatches : dispatch[x] # "dispatched" => dispatch'[x] = dispatch[x]
    BY <1>2, <1>6, <2>5, <2>6 DEF Status
  <2>9. \A x \in Dispatches : dispatch'[x] = "completed" => dispatch[x] = "completed" \/ x = d
    BY <1>2, <2>5 DEF Status
  <2>10. ASSUME NEW j \in DOMAIN msgs
        PROVE  /\ SameMessage(msgs[j], Q[j]) /\ Q[j].pasted = msgs[j].pasted
               /\ msgs[j].read => Q[j].read
               /\ msgs[j].delivered => Q[j].delivered
               /\ RowOK(j, Q[j], dispatch', taken')
    <3>1. j \in DOMAIN T.rows /\ T.rows[j] = msgs[j]
      BY <1>1, <1>2 DEF i
    <3>2. SameMessage(msgs[j], Q[j]) /\ Q[j].pasted = msgs[j].pasted
      BY <2>4, <3>1
    <3>3. Q[j].read = (msgs[j].read \/ j \in S) /\ Q[j].delivered = (msgs[j].delivered \/ j \in S)
      BY <2>4, <3>1
    <3>4. j \in S => msgs[j].type = "heartbeat" /\ msgs[j].about = d
      BY <2>2, <3>1
    <3>5. msgs[j].read => Q[j].read
      BY <3>3
    <3>6. msgs[j].delivered => Q[j].delivered
      BY <3>3
    <3>7. Q[j].read => \/ msgs[j].read
                       \/ msgs[j].type = "heartbeat" /\ dispatch'[msgs[j].about] # "dispatched"
      BY <2>7, <3>3, <3>4
    <3>8. Q[j].delivered => msgs[j].delivered \/ Q[j].read
      BY <3>3
    <3>9. RowAdvances(j, msgs[j], Q[j], dispatch', taken')
      BY <3>2, <3>5, <3>6, <3>7, <3>8 DEF RowAdvances
    <3>10. msgs[j].type = "heartbeat" /\ dispatch'[msgs[j].about] = "completed"
             => dispatch[msgs[j].about] = "completed" \/ Q[j].read
      <4>1. msgs[j].about = d /\ msgs[j].type = "heartbeat" => Q[j].read
        BY <2>3, <3>3
      <4> QED
        BY <1>4, <2>9, <4>1 DEF NamesDispatch
    <3> QED
      BY <1>2, <1>4, <2>7, <2>8, <3>2, <3>5, <3>6, <3>9, <3>10, RowStaysOK
  <2>11. /\ Q[i].type = type /\ ~Q[i].answer /\ RowOK(i, Q[i], dispatch', taken')
    <3>1. SameMessage(row, Q[i]) /\ i \notin S
      BY <1>1, <1>2, <1>3, <1>6, <2>2, <2>4
    <3>2. ~Q[i].read
      BY <1>1, <1>2, <1>3, <2>4, <3>1
    <3>3. ~Q[i].delivered
      BY <1>1, <1>2, <1>3, <2>4, <3>1
    <3> QED
      BY <1>3, <1>6, <2>6, <2>7, <3>1, <3>2, <3>3 DEF SameMessage, RowOK, NamesDispatch
  <2>12. ~Suppressed(T, i)
    BY <1>1, <1>3, <1>6 DEF Suppressed
  <2>13. DOMAIN Q = 1 .. i
    BY <2>4, LenProperties
  <2>14. \A j \in DOMAIN Q : RowOK(j, Q[j], dispatch', taken')
    BY <1>2, <2>10, <2>11, <2>13 DEF i
  <2> QED
    BY <2>4, <2>5, <2>7, <2>10, <2>11, <2>12, <2>14 DEF i, T, U
<1>7. CASE ~(type = "worker_done" /\ honest /\ dispatch[d] = "dispatched")
  <2>1. U \in MailTables /\ Settles(T, U)
    BY <1>1, <1>2, <1>3, <1>5, <1>7, ReconcileSettles
  <2> DEFINE Q == U.rows
  <2>2. /\ Q \in Seq(Row) /\ Len(Q) = i /\ dispatch' = dispatch
        /\ \A j \in DOMAIN T.rows :
              /\ SameMessage(T.rows[j], Q[j]) /\ Q[j].pasted = T.rows[j].pasted
              /\ T.rows[j].read => Q[j].read
              /\ T.rows[j].delivered => Q[j].delivered
              /\ Q[j].read => \/ T.rows[j].read
                              \/ /\ T.rows[j].type = "heartbeat"
                                 /\ dispatch[T.rows[j].about] # "dispatched"
              /\ Q[j].delivered => T.rows[j].delivered \/ Q[j].read
    BY <1>1, <2>1 DEF Settles, U
  <2> HIDE DEF Q
  <2>3. ASSUME NEW j \in DOMAIN msgs
        PROVE  /\ SameMessage(msgs[j], Q[j]) /\ Q[j].pasted = msgs[j].pasted
               /\ msgs[j].read => Q[j].read
               /\ msgs[j].delivered => Q[j].delivered
               /\ RowOK(j, Q[j], dispatch', taken')
    <3>1. j \in DOMAIN T.rows /\ T.rows[j] = msgs[j]
      BY <1>1, <1>2 DEF i
    <3>2. RowAdvances(j, msgs[j], Q[j], dispatch', taken')
      BY <2>2, <3>1 DEF RowAdvances
    <3> QED
      BY <1>2, <1>4, <2>2, <3>1, <3>2, RowStaysOK
  <2>4. SameMessage(row, Q[i]) /\ (Q[i].read => type = "heartbeat" /\ dispatch[d] # "dispatched")
        /\ (Q[i].delivered => Q[i].read)
    BY <1>1, <1>2, <1>3, <2>2
  <2>5. type = "heartbeat" /\ dispatch[d] # "dispatched" => Q[i].read
    <3>1. SUFFICES ASSUME type = "heartbeat", dispatch[d] # "dispatched" PROVE Q[i].read
      OBVIOUS
    <3>2. Suppressed(T, i)
      BY <1>1, <1>3, <3>1 DEF Suppressed
    <3>3. U = [T EXCEPT !.rows = MarkReadAndDelivered(@, {i})]
      BY <1>1, <1>3, <1>5, <3>1, <3>2 DEF ReconcileLifecycleMessage, ReconcileHeartbeat
    <3>4. Q = MarkReadAndDelivered(T.rows, {i})
      BY <1>1, <3>3 DEF Q, MailTables
    <3>5. Q[i].read = (T.rows[i].read \/ i \in {i})
      BY <1>1, <1>2, <3>4, MarkReadAndDeliveredRows
    <3> QED
      BY <3>5
  <2>6. Suppressed(T, i) => Q[i].read
    BY <1>1, <1>3, <2>5 DEF Suppressed
  <2>7. Q[i].type = type /\ ~Q[i].answer /\ RowOK(i, Q[i], dispatch', taken')
    <3>1. Q[i].type = type /\ Q[i].about = d /\ Q[i].honest = honest /\ ~Q[i].answer
      BY <1>3, <2>4 DEF SameMessage
    <3>2. type = "worker_done" /\ honest => dispatch[d] # "dispatched"
      BY <1>7
    <3> QED
      BY <2>2, <2>4, <2>5, <3>1, <3>2 DEF RowOK, NamesDispatch
  <2>8. DOMAIN Q = 1 .. i
    BY <2>2, LenProperties
  <2>9. \A j \in DOMAIN Q : RowOK(j, Q[j], dispatch', taken')
    BY <1>2, <2>3, <2>7, <2>8 DEF i
  <2> QED
    BY <1>2, <2>2, <2>3, <2>6, <2>7, <2>9 DEF i, T, U, Q
<1> QED
  BY <1>6, <1>7

-----------------------------------------------------------------------------
(* Every step keeps the invariant. *)

LEMMA SendInv ==
    ASSUME DeliveryInv, NEW type \in Types, NEW d \in Dispatches \cup {NoDispatch},
           NEW honest \in BOOLEAN, type \in {"worker_done", "heartbeat"} => d \in Dispatches,
           Send(type, d, honest)
    PROVE  DeliveryInv'
<1> DEFINE R == After(type, d, honest).rows
<1>1. /\ Len(msgs) < MaxMessages /\ dispatch' = After(type, d, honest).status
      /\ UNCHANGED <<pane, run, taken>>
  BY DEF Send, After, Sent
<1>2. /\ R \in Seq(Row) /\ Len(R) = Len(msgs) + 1 /\ dispatch' \in Status
      /\ \A j \in DOMAIN msgs :
            /\ SameMessage(msgs[j], R[j]) /\ R[j].pasted = msgs[j].pasted
            /\ msgs[j].read => R[j].read
            /\ msgs[j].delivered => R[j].delivered
      /\ R[Len(msgs) + 1].type = type /\ ~R[Len(msgs) + 1].answer
      /\ Suppressed(Sent(type, d, honest), Len(msgs) + 1) => R[Len(msgs) + 1].read
      /\ \A j \in DOMAIN R : RowOK(j, R[j], dispatch', taken')
  BY <1>1, SendRows
<1>3. IF Suppressed(Sent(type, d, honest), Len(msgs) + 1)
      THEN msgs' = R /\ UNCHANGED <<check, ask, enters>>
      ELSE DeliverIfIdle(R) /\ NotifyMessageArrived(type)
  BY DEF Send, After, Sent
<1> HIDE DEF R
<1>4. /\ TypeOK /\ PastedWhileOpen /\ NoLostWakeup /\ NoAnswerBeforeAsk
      /\ msgs \in Seq(Row) /\ Len(msgs) \in Nat /\ DOMAIN msgs = 1 .. Len(msgs)
      /\ MaxMessages \in Nat
      /\ DOMAIN R = 1 .. Len(msgs) + 1 /\ run \in BOOLEAN /\ pane.cursor \in BOOLEAN
      /\ Len(R) =< MaxMessages /\ Len(msgs) =< Len(R)
  BY <1>1, <1>2, Typed, LenProperties DEF DeliveryInv
<1>5. CASE Suppressed(Sent(type, d, honest), Len(msgs) + 1)
  <2>1. msgs' = R /\ UNCHANGED <<check, ask, enters>>
    BY <1>3, <1>5
  <2>2. RowsOK'
    BY <1>2, <2>1 DEF RowsOK
  <2>3. PastedWhileOpen'
    BY <1>1, <1>2, <1>4, <2>1, BatchesStay
  <2>4. \A i \in DOMAIN msgs' : i \in DOMAIN msgs \/ msgs'[i].read
    BY <1>2, <1>4, <1>5, <2>1
  <2>5. \A c \in Checkers : Unread(msgs', FilterOf[c]) \subseteq Unread(msgs, FilterOf[c])
    BY <1>2, <2>1, <2>4 DEF Unread, SameMessage
  <2>6. \A i \in DOMAIN msgs' : msgs'[i].answer => i \in DOMAIN msgs /\ msgs[i].answer
    BY <1>2, <1>4, <2>1 DEF SameMessage
  <2>7. NoLostWakeup' /\ NoAnswerBeforeAsk'
    BY <1>2, <1>4, <2>1, <2>5, <2>6 DEF NoLostWakeup, NoAnswerBeforeAsk, Unread, SameMessage
  <2>8. TypeOK'
    BY <1>1, <1>2, <1>4, <2>1 DEF TypeOK, Status
  <2> QED
    BY <2>2, <2>3, <2>7, <2>8 DEF DeliveryInv
<1>6. CASE ~Suppressed(Sent(type, d, honest), Len(msgs) + 1)
  <2>1. DeliverIfIdle(R) /\ NotifyMessageArrived(type)
    BY <1>3, <1>6
  <2>2. /\ Pushes(R, msgs')
        /\ \/ enters' = enters
           \/ /\ pane.open /\ Undelivered(R) # {} /\ enters' = Append(enters, Undelivered(R))
              /\ \A i \in Undelivered(R) : msgs'[i].pasted
    BY <1>2, <1>4, <2>1, DeliverIfIdlePushes
  <2>3. RowsOK'
    BY <1>2, <2>2, PushedRowsOK
  <2>4. \A i \in DOMAIN msgs : msgs[i].pasted => R[i].pasted
    BY <1>2
  <2>5. /\ enters' \in Seq((SUBSET (1 .. MaxMessages)) \ {{}})
        /\ PastedWhileOpen'
    BY <1>1, <1>2, <1>4, <2>2, <2>4, BatchAdded
  <2>6. /\ msgs' \in Seq(Row) /\ Len(msgs') = Len(msgs) + 1
        /\ \A i \in DOMAIN R : SameMessage(R[i], msgs'[i]) /\ msgs'[i].read = R[i].read
    BY <1>2, <2>2 DEF Pushes
  <2>7. /\ \A i \in DOMAIN msgs : SameMessage(msgs[i], msgs'[i])
        /\ \A i \in DOMAIN msgs : msgs[i].read => msgs'[i].read
    BY <1>2, <1>4, <2>6 DEF SameMessage
  <2>8. msgs'[Len(msgs) + 1].type = type /\ ~msgs'[Len(msgs) + 1].answer
    BY <1>2, <1>4, <2>6 DEF SameMessage
  <2>9. /\ NoLostWakeup' /\ NoAnswerBeforeAsk'
        /\ check' \in [Checkers -> {"idle", "parked", "woken"}]
        /\ ask' \in {"none", "parked", "woken", "answered", "timedOut", "aborted"}
    BY <1>4, <2>1, <2>6, <2>7, <2>8, ReadersNotified
  <2>10. taken' \subseteq DOMAIN msgs' /\ Len(msgs') =< MaxMessages
    <3>1. taken' \subseteq DOMAIN msgs
      BY <1>1, <1>4 DEF TypeOK
    <3> QED
      BY <1>2, <1>4, <2>6, <3>1, LenProperties
  <2>11. TypeOK'
    BY <1>1, <1>2, <1>4, <2>5, <2>6, <2>9, <2>10 DEF TypeOK, Status
  <2> QED
    BY <2>3, <2>5, <2>9, <2>11 DEF DeliveryInv
<1> QED
  BY <1>5, <1>6

LEMMA ReplyInv == ASSUME DeliveryInv, Reply PROVE DeliveryInv'
<1> DEFINE row == [NewRow("status", NoDispatch, TRUE) EXCEPT !.answer = TRUE]
<1>1. /\ ask # "none" /\ Len(msgs) < MaxMessages /\ msgs' = Append(msgs, row)
      /\ NotifyMessageArrived("status") /\ UNCHANGED <<dispatch, pane, enters, run, taken>>
  BY DEF Reply
<1>2. /\ row \in Row /\ row.type = "status" /\ ~row.read /\ ~row.delivered
  BY DEF NewRow, Row, Types
<1> HIDE DEF row
<1>3. /\ TypeOK /\ RowsOK /\ PastedWhileOpen /\ NoLostWakeup /\ NoAnswerBeforeAsk
      /\ dispatch \in Status /\ Len(msgs) \in Nat /\ MaxMessages \in Nat
      /\ DOMAIN msgs = 1 .. Len(msgs)
  BY Typed DEF DeliveryInv
<1>4. RowOK(Len(msgs) + 1, row, dispatch', taken')
  BY <1>2 DEF RowOK, NamesDispatch
<1>5. /\ msgs' \in Seq(Row) /\ Len(msgs') = Len(msgs) + 1
      /\ \A i \in DOMAIN msgs : msgs'[i] = msgs[i]
      /\ msgs'[Len(msgs) + 1] = row
      /\ RowsOK'
  BY <1>1, <1>2, <1>3, <1>4, JoinedRowsOK
<1>6. PastedWhileOpen'
  BY <1>1, <1>3, <1>5, BatchesStay
<1>7. /\ NoLostWakeup' /\ NoAnswerBeforeAsk'
      /\ check' \in [Checkers -> {"idle", "parked", "woken"}]
      /\ ask' \in {"none", "parked", "woken", "answered", "timedOut", "aborted"}
  BY <1>1, <1>2, <1>3, <1>5, ReadersNotified DEF SameMessage
<1>8. taken' \subseteq DOMAIN msgs'
  <2>1. taken' \subseteq DOMAIN msgs
    BY <1>1, <1>3 DEF TypeOK
  <2> QED
    BY <1>3, <1>5, <2>1, LenProperties
<1>9. TypeOK'
  BY <1>1, <1>3, <1>5, <1>7, <1>8 DEF TypeOK
<1> QED
  BY <1>5, <1>6, <1>7, <1>9 DEF DeliveryInv

\* A dispatch ends without a report and the rows stay as they are.
LEMMA EndedRowsOK ==
    ASSUME TypeOK, RowsOK, UNCHANGED <<msgs, taken>>, dispatch' \in Status,
           \A x \in Dispatches : dispatch[x] # "dispatched" => dispatch'[x] = dispatch[x],
           \A x \in Dispatches : dispatch'[x] = "completed" => dispatch[x] = "completed"
    PROVE  RowsOK'
<1>1. ASSUME NEW i \in DOMAIN msgs PROVE RowOK(i, msgs'[i], dispatch', taken')
  <2>1. RowOK(i, msgs[i], dispatch, taken)
    BY DEF RowsOK
  <2>2. RowAdvances(i, msgs[i], msgs'[i], dispatch', taken')
    BY <2>1 DEF RowOK, RowAdvances, SameMessage
  <2>3. msgs[i].type = "heartbeat" => msgs[i].about \in Dispatches
    BY <2>1 DEF RowOK, NamesDispatch
  <2>4. msgs[i].type = "heartbeat" /\ dispatch'[msgs[i].about] = "completed"
           => dispatch[msgs[i].about] = "completed" \/ msgs'[i].read
    BY <2>3
  <2>5. taken \subseteq taken' /\ dispatch \in Status
    BY DEF TypeOK, Status
  <2> QED
    BY <2>1, <2>2, <2>4, <2>5, RowStaysOK
<1> QED
  BY <1>1 DEF RowsOK

LEMMA DispatchClosedInv ==
    ASSUME DeliveryInv, NEW d \in Dispatches, DispatchClosed(d) PROVE DeliveryInv'
<1>1. /\ dispatch[d] = "dispatched" /\ dispatch' = [dispatch EXCEPT ![d] = "closed"]
      /\ UNCHANGED <<msgs, check, ask, pane, enters, run, taken>>
  BY DEF DispatchClosed
<1>2. TypeOK /\ RowsOK /\ PastedWhileOpen /\ NoLostWakeup /\ NoAnswerBeforeAsk
      /\ dispatch \in Status
  BY DEF DeliveryInv, TypeOK, Status
<1>3. /\ dispatch' \in Status
      /\ \A x \in Dispatches : dispatch[x] # "dispatched" => dispatch'[x] = dispatch[x]
      /\ \A x \in Dispatches : dispatch'[x] = "completed" => dispatch[x] = "completed"
  BY <1>1, <1>2 DEF Status
<1>4. RowsOK'
  BY <1>1, <1>2, <1>3, EndedRowsOK
<1>5. NoLostWakeup' /\ NoAnswerBeforeAsk' /\ PastedWhileOpen'
  BY <1>1, <1>2 DEF NoLostWakeup, NoAnswerBeforeAsk, PastedWhileOpen, Unread
<1>6. TypeOK'
  BY <1>1, <1>2, <1>3 DEF TypeOK, Status
<1> QED
  BY <1>4, <1>5, <1>6 DEF DeliveryInv

LEMMA WorkerExitInv == ASSUME DeliveryInv, NEW d \in Dispatches, WorkerExit(d) PROVE DeliveryInv'
<1> DEFINE row == [NewRow("escalation", d, TRUE) EXCEPT !.signalled = FALSE]
<1>1. /\ dispatch[d] = "dispatched" /\ dispatch' = [dispatch EXCEPT ![d] = "failed"]
      /\ IF run THEN Len(msgs) < MaxMessages /\ msgs' = Append(msgs, row) ELSE UNCHANGED msgs
      /\ UNCHANGED <<check, ask, pane, enters, run, taken>>
  BY DEF WorkerExit
<1>2. row \in Row /\ row.type = "escalation" /\ ~row.read /\ ~row.delivered /\ ~row.answer
      /\ ~row.signalled
  BY DEF NewRow, Row, Types
<1> HIDE DEF row
<1>3. /\ TypeOK /\ RowsOK /\ PastedWhileOpen /\ NoLostWakeup /\ NoAnswerBeforeAsk
      /\ dispatch \in Status /\ Len(msgs) \in Nat /\ MaxMessages \in Nat
      /\ DOMAIN msgs = 1 .. Len(msgs) /\ msgs \in Seq(Row) /\ taken \subseteq DOMAIN msgs
  BY Typed DEF DeliveryInv, TypeOK
<1>4. /\ dispatch' \in Status
      /\ \A x \in Dispatches : dispatch[x] # "dispatched" => dispatch'[x] = dispatch[x]
      /\ \A x \in Dispatches : dispatch'[x] = "completed" => dispatch[x] = "completed"
  BY <1>1, <1>3 DEF Status
<1>5. /\ msgs' \in Seq(Row) /\ Len(msgs) =< Len(msgs') /\ Len(msgs') =< MaxMessages
      /\ \A i \in DOMAIN msgs : msgs'[i] = msgs[i]
      /\ \A i \in DOMAIN msgs' : i \in DOMAIN msgs \/ msgs'[i] = row
      /\ DOMAIN msgs \subseteq DOMAIN msgs'
      /\ RowsOK'
  <2>1. CASE run
    <3>1. RowOK(Len(msgs) + 1, row, dispatch', taken')
      BY <1>2 DEF RowOK, NamesDispatch
    <3>2. /\ msgs' \in Seq(Row) /\ Len(msgs') = Len(msgs) + 1
          /\ \A i \in DOMAIN msgs : msgs'[i] = msgs[i]
          /\ msgs'[Len(msgs) + 1] = row
          /\ RowsOK'
      BY <1>1, <1>2, <1>3, <1>4, <2>1, <3>1, JoinedRowsOK
    <3>3. DOMAIN msgs' = 1 .. Len(msgs) + 1
      BY <3>2, LenProperties
    <3> QED
      BY <1>1, <1>3, <2>1, <3>2, <3>3
  <2>2. CASE ~run
    <3>1. msgs' = msgs
      BY <1>1, <2>2
    <3>2. RowsOK'
      BY <1>1, <1>3, <1>4, <3>1, EndedRowsOK
    <3> QED
      BY <1>3, <3>1, <3>2 DEF TypeOK
  <2> QED
    BY <2>1, <2>2, <1>3 DEF TypeOK
<1>6. PastedWhileOpen'
  BY <1>1, <1>3, <1>5, BatchesStay
<1>7. NoLostWakeup' /\ NoAnswerBeforeAsk'
  <2>1. ASSUME NEW c \in Checkers, NEW i \in Unread(msgs', FilterOf[c]), check'[c] = "parked"
        PROVE  ~msgs'[i].signalled
    <3>1. i \in DOMAIN msgs' /\ (i \in DOMAIN msgs => i \in Unread(msgs, FilterOf[c]))
      BY <1>5, <2>1 DEF Unread
    <3> QED
      BY <1>1, <1>2, <1>3, <1>5, <2>1, <3>1 DEF NoLostWakeup
  <2>2. \A i \in DOMAIN msgs' : msgs'[i].answer => i \in DOMAIN msgs /\ msgs[i].answer
    BY <1>2, <1>5
  <2> QED
    BY <1>1, <1>3, <2>1, <2>2 DEF NoLostWakeup, NoAnswerBeforeAsk
<1>8. TypeOK'
  BY <1>1, <1>3, <1>4, <1>5 DEF TypeOK, Status
<1> QED
  BY <1>5, <1>6, <1>7, <1>8 DEF DeliveryInv

\* A call of check: it reads, waits, or is given up.
LEMMA CheckInv == ASSUME DeliveryInv, NEW c \in Checkers, CheckStep(c) PROVE DeliveryInv'
<1> DEFINE found == Unread(msgs, FilterOf[c])
<1>1. /\ TypeOK /\ RowsOK /\ PastedWhileOpen /\ NoLostWakeup /\ NoAnswerBeforeAsk
      /\ Len(msgs) \in Nat /\ msgs \in Seq(Row) /\ DOMAIN msgs = 1 .. Len(msgs)
      /\ Len(msgs) =< MaxMessages
      /\ check \in [Checkers -> {"idle", "parked", "woken"}]
  BY Typed DEF DeliveryInv, TypeOK
<1>2. UNCHANGED <<ask, pane, enters, run>>
  BY DEF CheckStep, Check, Resume, CheckTimeout, CheckAbort
<1>3. CASE ReadAndReturn(c) /\ check' \in {check, [check EXCEPT ![c] = "idle"]}
  <2>1. /\ found \subseteq DOMAIN msgs /\ msgs' = Consume(found).rows
        /\ dispatch' = Consume(found).status /\ taken' = taken \cup found
    BY <1>3 DEF ReadAndReturn, Unread
  <2> HIDE DEF found
  <2>2. /\ msgs' \in Seq(Row) /\ Len(msgs') = Len(msgs) /\ UNCHANGED dispatch
        /\ taken' \subseteq DOMAIN msgs'
        /\ \A i \in DOMAIN msgs :
              /\ SameMessage(msgs[i], msgs'[i]) /\ msgs'[i].pasted = msgs[i].pasted
              /\ msgs[i].read => msgs'[i].read
              /\ msgs[i].delivered => msgs'[i].delivered
        /\ RowsOK'
    BY <2>1, ReadKeeps
  <2>3. PastedWhileOpen'
    BY <1>1, <1>2, <2>2, BatchesStay
  <2>4. /\ check' \in [Checkers -> {"idle", "parked", "woken"}]
        /\ \A x \in Checkers : check'[x] = "parked" => check[x] = "parked"
    BY <1>1, <1>3
  <2>5. NoLostWakeup' /\ NoAnswerBeforeAsk'
    BY <1>1, <1>2, <2>2, <2>4, ReadersStay
  <2>6. TypeOK'
    BY <1>1, <1>2, <2>2, <2>4 DEF TypeOK
  <2> QED
    BY <2>2, <2>3, <2>5, <2>6 DEF DeliveryInv
<1>4. CASE /\ UNCHANGED <<msgs, dispatch, taken>>
           /\ \/ found = {} /\ check' = [check EXCEPT ![c] = "parked"]
              \/ check' = [check EXCEPT ![c] = "idle"]
  <2>1. /\ check' \in [Checkers -> {"idle", "parked", "woken"}]
        /\ \A x \in Checkers : check'[x] = "parked" =>
              check[x] = "parked" \/ Unread(msgs, FilterOf[x]) = {}
    BY <1>1, <1>4
  <2>2. RowsOK' /\ PastedWhileOpen'
    BY <1>1, <1>2, <1>4 DEF RowsOK, PastedWhileOpen
  <2>3. NoLostWakeup' /\ NoAnswerBeforeAsk'
    BY <1>1, <1>2, <1>4, <2>1, ReadersStay DEF SameMessage
  <2>4. TypeOK'
    BY <1>1, <1>2, <1>4, <2>1 DEF TypeOK
  <2> QED
    BY <2>2, <2>3, <2>4 DEF DeliveryInv
<1>5. \/ ReadAndReturn(c) /\ check' \in {check, [check EXCEPT ![c] = "idle"]}
      \/ /\ UNCHANGED <<msgs, dispatch, taken>>
         /\ \/ found = {} /\ check' = [check EXCEPT ![c] = "parked"]
            \/ check' = [check EXCEPT ![c] = "idle"]
  <2>1. CASE Check(c)
    BY <2>1 DEF Check
  <2>2. CASE Resume(c)
    BY <2>2 DEF Resume
  <2>3. CASE CheckTimeout(c)
    BY <2>3 DEF CheckTimeout
  <2>4. CASE CheckAbort(c)
    BY <2>4 DEF CheckAbort, RowsAfterAbort
  <2> QED
    BY <2>1, <2>2, <2>3, <2>4 DEF CheckStep
<1> QED
  BY <1>3, <1>4, <1>5

\* The coordinator's loop takes the mailbox.
LEMMA LoopReadsInv == ASSUME DeliveryInv, LoopReads PROVE DeliveryInv'
<1> DEFINE found == Unread(msgs, Types)
<1>1. /\ found \subseteq DOMAIN msgs /\ msgs' = Consume(found).rows
      /\ dispatch' = Consume(found).status /\ taken' = taken \cup found
      /\ UNCHANGED <<check, ask, pane, enters, run>>
  BY DEF LoopReads, Unread
<1> HIDE DEF found
<1>2. /\ TypeOK /\ RowsOK /\ PastedWhileOpen /\ NoLostWakeup /\ NoAnswerBeforeAsk
      /\ Len(msgs) \in Nat /\ msgs \in Seq(Row)
  BY Typed DEF DeliveryInv
<1>3. /\ msgs' \in Seq(Row) /\ Len(msgs') = Len(msgs) /\ UNCHANGED dispatch
      /\ taken' \subseteq DOMAIN msgs'
      /\ \A i \in DOMAIN msgs :
            /\ SameMessage(msgs[i], msgs'[i]) /\ msgs'[i].pasted = msgs[i].pasted
            /\ msgs[i].read => msgs'[i].read
            /\ msgs[i].delivered => msgs'[i].delivered
      /\ RowsOK'
  BY <1>1, ReadKeeps
<1>4. PastedWhileOpen'
  BY <1>1, <1>2, <1>3, BatchesStay
<1>5. NoLostWakeup' /\ NoAnswerBeforeAsk'
  BY <1>1, <1>2, <1>3, ReadersStay
<1>6. TypeOK'
  BY <1>1, <1>2, <1>3 DEF TypeOK
<1> QED
  BY <1>3, <1>4, <1>5, <1>6 DEF DeliveryInv

\* The ask: it starts, is answered, waits on, or ends without an answer.
LEMMA AskInv == ASSUME DeliveryInv, AskStep PROVE DeliveryInv'
<1>1. /\ TypeOK /\ RowsOK /\ PastedWhileOpen /\ NoLostWakeup /\ NoAnswerBeforeAsk
      /\ Len(msgs) \in Nat /\ msgs \in Seq(Row) /\ dispatch \in Status
      /\ taken \subseteq DOMAIN msgs
  BY Typed DEF DeliveryInv, TypeOK
<1>2. UNCHANGED <<dispatch, check, pane, enters, run>>
  BY DEF AskStep, Ask, AskResume, AskDeadline, AskAbort
<1>3. CASE \E i \in Answers(msgs) : /\ msgs' = MarkRead(msgs, {i}) /\ taken' = taken \cup {i}
                                    /\ ask' = "answered"
  <2>1. PICK i \in Answers(msgs) : /\ msgs' = MarkRead(msgs, {i}) /\ taken' = taken \cup {i}
                                   /\ ask' = "answered"
    BY <1>3
  <2>2. i \in DOMAIN msgs
    BY DEF Answers
  <2>3. /\ msgs' \in Seq(Row) /\ Len(msgs') = Len(msgs) /\ DOMAIN msgs' = DOMAIN msgs
        /\ \A j \in DOMAIN msgs :
              /\ SameMessage(msgs[j], msgs'[j]) /\ msgs'[j].pasted = msgs[j].pasted
              /\ msgs'[j].delivered = msgs[j].delivered
              /\ msgs'[j].read = (msgs[j].read \/ j \in {i})
    BY <1>1, <2>1, MarkReadRows
  <2>4. \A j \in DOMAIN msgs : msgs[j].read => msgs'[j].read
    BY <2>3
  <2>5. \A j \in DOMAIN msgs : msgs'[j].read => msgs[j].read \/ j \in taken'
    BY <2>1, <2>3
  <2>6. \A j \in DOMAIN msgs : RowAdvances(j, msgs[j], msgs'[j], dispatch, taken')
    BY <2>3, <2>4, <2>5 DEF RowAdvances
  <2>7. RowsOK'
    BY <1>1, <1>2, <2>1, <2>3, <2>6, RowsStayOK
  <2>8. PastedWhileOpen'
    BY <1>1, <1>2, <2>3, BatchesStay
  <2>9. NoLostWakeup' /\ NoAnswerBeforeAsk'
    BY <1>1, <1>2, <2>1, <2>3, <2>4, ReadersStay
  <2>10. TypeOK'
    BY <1>1, <1>2, <2>1, <2>2, <2>3 DEF TypeOK
  <2> QED
    BY <2>7, <2>8, <2>9, <2>10 DEF DeliveryInv
<1>4. CASE /\ UNCHANGED <<msgs, taken>> /\ ask' \in {"parked", "timedOut", "aborted"}
           /\ Answers(msgs) = {}
  <2>1. RowsOK' /\ PastedWhileOpen'
    BY <1>1, <1>2, <1>4 DEF RowsOK, PastedWhileOpen
  <2>2. NoLostWakeup' /\ NoAnswerBeforeAsk'
    BY <1>1, <1>2, <1>4 DEF NoLostWakeup, NoAnswerBeforeAsk, Answers, Unread
  <2>3. TypeOK'
    BY <1>1, <1>2, <1>4 DEF TypeOK
  <2> QED
    BY <2>1, <2>2, <2>3 DEF DeliveryInv
<1>5. \/ \E i \in Answers(msgs) : /\ msgs' = MarkRead(msgs, {i}) /\ taken' = taken \cup {i}
                                  /\ ask' = "answered"
      \/ /\ UNCHANGED <<msgs, taken>> /\ ask' \in {"parked", "timedOut", "aborted"}
         /\ Answers(msgs) = {}
  <2>1. CASE Ask
    BY <1>1, <2>1 DEF Ask, NoAnswerBeforeAsk, Answers
  <2>2. ASSUME NEW late \in BOOLEAN, AskLoop(late)
        PROVE  \/ \E i \in Answers(msgs) : /\ msgs' = MarkRead(msgs, {i}) /\ taken' = taken \cup {i}
                                           /\ ask' = "answered"
               \/ /\ UNCHANGED <<msgs, taken>> /\ ask' \in {"parked", "timedOut", "aborted"}
                  /\ Answers(msgs) = {}
    <3>1. CASE Answers(msgs) # {}
      <4> DEFINE first == CHOOSE i \in Answers(msgs) : \A j \in Answers(msgs) : i =< j
      <4>1. first \in Answers(msgs)
        <5>1. Answers(msgs) \in SUBSET Nat
          BY <1>1, Typed DEF Answers
        <5>2. \E i \in Answers(msgs) : \A j \in Answers(msgs) : i =< j
          BY <3>1, <5>1, LeastOfNat
        <5> QED
          BY <5>2
      <4> QED
        BY <2>2, <3>1, <4>1 DEF AskLoop
    <3>2. CASE Answers(msgs) = {}
      BY <2>2, <3>2 DEF AskLoop
    <3> QED
      BY <3>1, <3>2
  <2>3. CASE AskResume
    BY <2>2, <2>3 DEF AskResume
  <2>4. CASE AskDeadline
    BY <2>2, <2>4 DEF AskDeadline
  <2>5. CASE AskAbort
    BY <2>5 DEF AskAbort
  <2> QED
    BY <2>1, <2>3, <2>4, <2>5 DEF AskStep
<1> QED
  BY <1>3, <1>4, <1>5

\* Rows were typed, entered or lost with their terminal; nobody read.
LEMMA RewrittenInv ==
    ASSUME DeliveryInv, UNCHANGED <<dispatch, check, ask, run, taken>>,
           msgs' \in Seq(Row), Len(msgs') = Len(msgs),
           \A i \in DOMAIN msgs : SameMessage(msgs[i], msgs'[i]) /\ msgs'[i].read = msgs[i].read,
           pane' \in [open : BOOLEAN, status : {"idle", "working"}, cursor : BOOLEAN],
           enters' \in Seq((SUBSET (1 .. MaxMessages)) \ {{}}),
           RowsOK', PastedWhileOpen'
    PROVE  DeliveryInv'
<1>1. /\ TypeOK /\ NoLostWakeup /\ NoAnswerBeforeAsk
      /\ msgs \in Seq(Row) /\ Len(msgs) =< MaxMessages /\ taken \subseteq DOMAIN msgs
  BY Typed DEF DeliveryInv, TypeOK
<1>2. DOMAIN msgs' = DOMAIN msgs
  BY <1>1, LenProperties
<1>3. \A i \in DOMAIN msgs : SameMessage(msgs[i], msgs'[i]) /\ (msgs[i].read => msgs'[i].read)
  OBVIOUS
<1>4. NoLostWakeup' /\ NoAnswerBeforeAsk'
  BY <1>1, <1>3, ReadersStay
<1>5. TypeOK'
  BY <1>1, <1>2 DEF TypeOK
<1> QED
  BY <1>4, <1>5 DEF DeliveryInv

LEMMA AgentIdleInv == ASSUME DeliveryInv, AgentIdle PROVE DeliveryInv'
<1>1. /\ pane' = [pane EXCEPT !.status = "idle"] /\ DeliverPendingMessages(msgs)
      /\ UNCHANGED <<dispatch, check, ask, run, taken>>
  BY DEF AgentIdle
<1>2. /\ TypeOK /\ RowsOK /\ PastedWhileOpen
      /\ msgs \in Seq(Row) /\ Len(msgs) \in Nat /\ Len(msgs) =< MaxMessages
      /\ dispatch \in Status /\ run \in BOOLEAN /\ pane.cursor \in BOOLEAN
  BY Typed DEF DeliveryInv
<1>3. /\ Pushes(msgs, msgs')
      /\ \/ enters' = enters
         \/ /\ pane.open /\ Undelivered(msgs) # {} /\ enters' = Append(enters, Undelivered(msgs))
            /\ \A i \in Undelivered(msgs) : msgs'[i].pasted
  BY <1>1, <1>2, DeliverPushes
<1>4. /\ pane' \in [open : BOOLEAN, status : {"idle", "working"}, cursor : BOOLEAN]
      /\ pane'.open = pane.open
  BY <1>1, <1>2 DEF TypeOK
<1>5. enters' \in Seq((SUBSET (1 .. MaxMessages)) \ {{}}) /\ PastedWhileOpen'
  <2>1. Len(msgs) =< Len(msgs) /\ \A i \in DOMAIN msgs : msgs[i].pasted => msgs[i].pasted
    BY <1>2
  <2> QED
    BY <1>2, <1>3, <1>4, <2>1, BatchAdded
<1>6. /\ msgs' \in Seq(Row) /\ Len(msgs') = Len(msgs)
      /\ \A i \in DOMAIN msgs : SameMessage(msgs[i], msgs'[i]) /\ msgs'[i].read = msgs[i].read
  BY <1>3 DEF Pushes
<1>7. RowsOK'
  BY <1>1, <1>2, <1>3, PushedRowsOK DEF RowsOK
<1> QED
  BY <1>1, <1>4, <1>5, <1>6, <1>7, RewrittenInv

\* Half a second later: delivered_at is stamped if the terminal took the Enter.
LEMMA PressEnterInv == ASSUME DeliveryInv, PressEnter PROVE DeliveryInv'
<1> DEFINE Q == MarkDelivered(Head(enters))
           B == (SUBSET (1 .. MaxMessages)) \ {{}}
<1>1. /\ enters # << >> /\ enters' = Tail(enters) /\ msgs' = IF pane.open THEN Q ELSE msgs
      /\ UNCHANGED <<dispatch, check, ask, pane, run, taken>>
  BY DEF PressEnter, EnterTaken
<1>2. /\ TypeOK /\ RowsOK /\ PastedWhileOpen
      /\ msgs \in Seq(Row) /\ Len(msgs) \in Nat /\ DOMAIN msgs = 1 .. Len(msgs)
      /\ Len(msgs) =< MaxMessages /\ MaxMessages \in Nat
      /\ dispatch \in Status /\ enters \in Seq(B) /\ pane.open \in BOOLEAN
      /\ \A i \in DOMAIN msgs : msgs[i] \in Row
  BY Typed DEF DeliveryInv
<1> HIDE DEF B
<1>3. /\ enters' \in Seq(B) /\ Len(enters') = Len(enters) - 1 /\ Len(enters) \in Nat
      /\ \A k \in 1 .. Len(enters') : enters'[k] = enters[k + 1]
      /\ Head(enters) = enters[1] /\ 1 \in DOMAIN enters
      /\ DOMAIN enters' = 1 .. Len(enters') /\ DOMAIN enters = 1 .. Len(enters)
  <2>1. enters' \in Seq(B) /\ Len(enters') = Len(enters) - 1 /\ Len(enters) \in Nat
    BY <1>1, <1>2
  <2>2. \A k \in 1 .. Len(enters') : enters'[k] = enters[k + 1]
    BY <1>1, <1>2, <2>1
  <2>3. Head(enters) = enters[1] /\ 1 \in DOMAIN enters
    BY <1>1, <1>2
  <2>4. DOMAIN enters' = 1 .. Len(enters') /\ DOMAIN enters = 1 .. Len(enters)
    BY <1>2, <2>1, LenProperties
  <2> QED
    BY <2>1, <2>2, <2>3, <2>4
<1>4. \A i \in DOMAIN msgs : pane.open /\ i \in Head(enters) => msgs[i].pasted
  BY <1>2, <1>3 DEF PastedWhileOpen
<1>5. /\ msgs' \in Seq(Row) /\ Len(msgs') = Len(msgs)
      /\ \A i \in DOMAIN msgs :
            /\ SameMessage(msgs[i], msgs'[i]) /\ msgs'[i].read = msgs[i].read
            /\ msgs'[i].pasted = msgs[i].pasted
            /\ msgs[i].delivered => msgs'[i].delivered
            /\ msgs'[i].delivered => msgs[i].delivered \/ msgs[i].pasted
  <2>1. CASE pane.open
    <3>1. msgs' = Q
      BY <1>1, <2>1
    <3>2. \A i \in DOMAIN msgs : Q[i] \in Row
      BY <1>2 DEF MarkDelivered, Row
    <3>3. \A i \in DOMAIN msgs :
            /\ SameMessage(msgs[i], Q[i]) /\ Q[i].read = msgs[i].read
            /\ Q[i].pasted = msgs[i].pasted
            /\ msgs[i].delivered => Q[i].delivered
            /\ Q[i].delivered => msgs[i].delivered \/ msgs[i].pasted
      BY <1>2, <1>4, <2>1 DEF MarkDelivered, Row, SameMessage
    <3>4. Q \in [DOMAIN msgs -> Row]
      BY <3>2 DEF MarkDelivered
    <3> HIDE DEF Q
    <3>5. Q \in Seq(Row) /\ Len(Q) = Len(msgs)
      BY <1>2, <3>4, Rebuilt
    <3> QED
      BY <3>1, <3>3, <3>5
  <2>2. CASE ~pane.open
    <3>1. msgs' = msgs
      BY <1>1, <2>2
    <3> QED
      BY <1>2, <3>1 DEF SameMessage
  <2> QED
    BY <1>2, <2>1, <2>2
<1>6. \A i \in DOMAIN msgs : RowAdvances(i, msgs[i], msgs'[i], dispatch, taken')
  BY <1>5 DEF RowAdvances
<1>7. RowsOK'
  BY <1>1, <1>2, <1>5, <1>6, RowsStayOK
<1>8. PastedWhileOpen'
  <2>1. DOMAIN msgs' = DOMAIN msgs
    BY <1>2, <1>5, LenProperties
  <2>2. \A k \in DOMAIN enters' : k + 1 \in DOMAIN enters /\ enters'[k] = enters[k + 1]
    BY <1>3
  <2> QED
    BY <1>1, <1>2, <1>5, <2>1, <2>2 DEF PastedWhileOpen
<1>9. /\ enters' \in Seq((SUBSET (1 .. MaxMessages)) \ {{}})
      /\ pane' \in [open : BOOLEAN, status : {"idle", "working"}, cursor : BOOLEAN]
  BY <1>1, <1>2, <1>3 DEF B, TypeOK
<1> QED
  BY <1>1, <1>5, <1>7, <1>8, <1>9, RewrittenInv

LEMMA TerminalLostInv == ASSUME DeliveryInv, TerminalLost PROVE DeliveryInv'
<1> DEFINE Q == [i \in DOMAIN msgs |->
                   IF msgs[i].delivered THEN msgs[i] ELSE [msgs[i] EXCEPT !.pasted = FALSE]]
<1>1. /\ pane' = [pane EXCEPT !.open = FALSE, !.status = "working"]
      /\ msgs' = Q
      /\ UNCHANGED <<dispatch, check, ask, enters, run, taken>>
  BY DEF TerminalLost
<1>2. /\ TypeOK /\ RowsOK /\ PastedWhileOpen
      /\ msgs \in Seq(Row) /\ Len(msgs) \in Nat /\ Len(msgs) =< MaxMessages
      /\ \A i \in DOMAIN msgs : msgs[i] \in Row
  BY Typed, DeliveryAssumption DEF DeliveryInv
<1>3. \A i \in DOMAIN msgs : Q[i] \in Row
  BY <1>2 DEF Row
<1>4. \A i \in DOMAIN msgs :
         /\ SameMessage(msgs[i], Q[i]) /\ Q[i].read = msgs[i].read
         /\ Q[i].delivered = msgs[i].delivered
         /\ msgs[i].delivered => Q[i].pasted = msgs[i].pasted
  BY <1>2 DEF Row, SameMessage
<1>5. Q \in [DOMAIN msgs -> Row]
  BY <1>3
<1> HIDE DEF Q
<1>6. /\ msgs' \in Seq(Row) /\ Len(msgs') = Len(msgs)
      /\ \A i \in DOMAIN msgs :
            /\ SameMessage(msgs[i], msgs'[i]) /\ msgs'[i].read = msgs[i].read
            /\ msgs'[i].delivered = msgs[i].delivered
            /\ msgs[i].delivered => msgs'[i].pasted = msgs[i].pasted
  BY <1>1, <1>2, <1>4, <1>5, Rebuilt
<1>7. \A i \in DOMAIN msgs : RowAdvances(i, msgs[i], msgs'[i], dispatch, taken')
  BY <1>6 DEF RowAdvances
<1>8. RowsOK'
  BY <1>1, <1>2, <1>6, <1>7, RowsStayOK
<1>9. /\ pane' \in [open : BOOLEAN, status : {"idle", "working"}, cursor : BOOLEAN]
      /\ ~pane'.open
  <2>1. pane \in [open : BOOLEAN, status : {"idle", "working"}, cursor : BOOLEAN]
    BY <1>2 DEF TypeOK
  <2> QED
    BY <1>1, <2>1
<1>10. PastedWhileOpen'
  <2>1. DOMAIN msgs' = DOMAIN msgs
    BY <1>2, <1>6, LenProperties
  <2> QED
    BY <1>1, <1>2, <1>9, <2>1 DEF PastedWhileOpen
<1> QED
  BY <1>1, <1>2, <1>6, <1>8, <1>9, <1>10, RewrittenInv DEF TypeOK

\* Steps of the agent and the run that leave the mailbox alone.
LEMMA PaneInv ==
    ASSUME DeliveryInv, UNCHANGED <<msgs, dispatch, check, ask, enters, taken>>,
           run' \in BOOLEAN,
           pane' \in [open : BOOLEAN, status : {"idle", "working"}, cursor : BOOLEAN],
           pane'.open => pane.open
    PROVE  DeliveryInv'
<1>1. TypeOK /\ RowsOK /\ PastedWhileOpen /\ NoLostWakeup /\ NoAnswerBeforeAsk
  BY DEF DeliveryInv
<1>2. TypeOK'
  BY <1>1 DEF TypeOK
<1>3. RowsOK' /\ NoLostWakeup' /\ NoAnswerBeforeAsk'
  BY <1>1 DEF RowsOK, NoLostWakeup, NoAnswerBeforeAsk, Unread
<1>4. PastedWhileOpen'
  BY <1>1 DEF PastedWhileOpen
<1> QED
  BY <1>2, <1>3, <1>4 DEF DeliveryInv

LEMMA NextInv == DeliveryInv /\ [Next]_vars => DeliveryInv'
<1> SUFFICES ASSUME DeliveryInv, [Next]_vars PROVE DeliveryInv'
  OBVIOUS
<1>1. CASE SendSome
  <2>1. CASE Send("status", NoDispatch, TRUE)
    <3>1. "status" \in Types /\ "status" \notin {"worker_done", "heartbeat"}
      BY DEF Types
    <3> QED
      BY <2>1, <3>1, SendInv
  <2>2. ASSUME NEW type \in {"worker_done", "heartbeat"}, NEW d \in Dispatches,
               NEW honest \in BOOLEAN, Send(type, d, honest)
        PROVE  DeliveryInv'
    <3>1. type \in Types
      BY DEF Types
    <3> QED
      BY <2>2, <3>1, SendInv
  <2> QED
    BY <1>1, <2>1, <2>2 DEF SendSome
<1>2. CASE Reply
  BY <1>2, ReplyInv
<1>3. ASSUME NEW d \in Dispatches, WorkerExit(d) \/ DispatchClosed(d) PROVE DeliveryInv'
  BY <1>3, WorkerExitInv, DispatchClosedInv
<1>4. ASSUME NEW c \in Checkers, CheckStep(c) PROVE DeliveryInv'
  BY <1>4, CheckInv
<1>5. CASE AskStep
  BY <1>5, AskInv
<1>6. CASE LoopReads
  BY <1>6, LoopReadsInv
<1>7. CASE RunToggles
  <2>1. pane' = pane /\ run' \in BOOLEAN /\ UNCHANGED <<msgs, dispatch, check, ask, enters, taken>>
    BY <1>7 DEF RunToggles, DeliveryInv, TypeOK
  <2> QED
    BY <2>1, PaneInv DEF DeliveryInv, TypeOK
<1>8. CASE TerminalStep
  <2>1. CASE AgentIdle
    BY <2>1, AgentIdleInv
  <2>2. CASE AgentWorks
    <3>1. /\ pane' = [pane EXCEPT !.status = "working"] /\ pane.open
          /\ UNCHANGED <<msgs, dispatch, check, ask, enters, run, taken>>
      BY <2>2 DEF AgentWorks
    <3> QED
      BY <3>1, PaneInv DEF DeliveryInv, TypeOK
  <2>3. CASE PressEnter
    BY <2>3, PressEnterInv
  <2>4. CASE TerminalLost
    BY <2>4, TerminalLostInv
  <2> QED
    BY <1>8, <2>1, <2>2, <2>3, <2>4 DEF TerminalStep
<1>9. CASE UNCHANGED vars
  <2>1. UNCHANGED <<msgs, dispatch, check, ask, pane, enters, run, taken>>
    BY <1>9 DEF vars
  <2>2. TypeOK /\ PastedWhileOpen
    BY DEF DeliveryInv
  <2>3. pane' \in [open : BOOLEAN, status : {"idle", "working"}, cursor : BOOLEAN] /\ run' \in BOOLEAN /\ (pane'.open => pane.open)
    BY <2>1, <2>2 DEF TypeOK
  <2> QED
    BY <2>1, <2>3, PaneInv
<1> QED
  BY <1>1, <1>2, <1>3, <1>4, <1>5, <1>6, <1>7, <1>8, <1>9 DEF Next

-----------------------------------------------------------------------------
(* The results. *)

LEMMA InvTheorem == Spec => []DeliveryInv
<1>1. Init => DeliveryInv
  BY InitInv
<1>2. DeliveryInv /\ [Next]_vars => DeliveryInv'
  BY NextInv
<1> QED
  BY <1>1, <1>2, PTL DEF Spec

\* Every variable keeps its type: the readers' states, the batches that wait for Enter,
\* and only rows that exist are handed to callers.
THEOREM DeliveryTypes == Spec => []TypeOK
<1>1. DeliveryInv => TypeOK
  BY DEF DeliveryInv
<1> QED
  BY <1>1, InvTheorem, PTL

\* waitForMessage and notifyMessageArrived lose no wakeup: a check or an ask that sleeps
\* has nothing signalled to read.
THEOREM NoWakeupIsLost == Spec => []NoLostWakeup
<1>1. DeliveryInv => NoLostWakeup
  BY DEF DeliveryInv
<1> QED
  BY <1>1, InvTheorem, PTL

\* markAsRead takes a message away only for a caller that gets it, or for a heartbeat of
\* a dispatch that is over.
THEOREM ConsumedIsSeen == Spec => []NothingConsumedUnseen
<1>1. DeliveryInv => NothingConsumedUnseen
  BY DEF DeliveryInv, RowsOK, RowOK, NothingConsumedUnseen
<1> QED
  BY <1>1, InvTheorem, PTL

\* suppressEarlierHeartbeats and the check of later ones leave no heartbeat in the mailbox
\* of a dispatch that a report completed, also when others are closed without one.
THEOREM NoHeartbeatOutlivesItsDispatch == Spec => []NoZombieHeartbeat
<1>1. DeliveryInv => NoZombieHeartbeat
  BY DEF DeliveryInv, RowsOK, RowOK, NoZombieHeartbeat
<1> QED
  BY <1>1, InvTheorem, PTL

\* deliverPendingMessages stamps delivered_at only on what is in a prompt, and never on
\* text that was lost with its terminal.
THEOREM DeliveredIsShown == Spec => []DeliveredWasShown
<1>1. DeliveryInv => DeliveredWasShown
  BY DEF DeliveryInv, RowsOK, RowOK, DeliveredWasShown
<1> QED
  BY <1>1, InvTheorem, PTL

\* A step types at most one batch, and nothing in it was delivered or read before.
LEMMA StepReplaysNothing ==
    ASSUME DeliveryInv, [Next]_vars, Len(enters') > Len(enters)
    PROVE  \A i \in enters'[Len(enters')] \cap DOMAIN msgs : ~msgs[i].delivered /\ ~msgs[i].read
<1> DEFINE B == (SUBSET (1 .. MaxMessages)) \ {{}}
<1>1. /\ enters \in Seq(B) /\ Len(enters) \in Nat /\ msgs \in Seq(Row) /\ run \in BOOLEAN
      /\ DOMAIN msgs = 1 .. Len(msgs) /\ Len(msgs) \in Nat
      /\ pane.cursor \in BOOLEAN /\ Len(msgs) =< MaxMessages /\ MaxMessages \in Nat
  BY Typed DEF DeliveryInv
<1>2. enters' # enters
  BY <1>1
<1>3. ASSUME NEW R \in Seq(Row), enters' = Append(enters, Undelivered(R)), Len(R) =< MaxMessages,
             Undelivered(R) # {}, DOMAIN msgs \subseteq DOMAIN R,
             \A i \in DOMAIN msgs : msgs[i].read => R[i].read,
             \A i \in DOMAIN msgs : msgs[i].delivered => R[i].delivered
      PROVE  \A i \in enters'[Len(enters')] \cap DOMAIN msgs :
                ~msgs[i].delivered /\ ~msgs[i].read
  <2> DEFINE batch == Undelivered(R)
  <2>1. batch \subseteq DOMAIN R /\ \A i \in batch : ~R[i].delivered /\ ~R[i].read
    BY DEF Undelivered, Unread
  <2>2. DOMAIN R \subseteq 1 .. MaxMessages
    BY <1>1, <1>3, LenProperties
  <2>3. enters' = Append(enters, batch) /\ batch # {}
    BY <1>3
  <2> HIDE DEF batch
  <2>4. batch \in B
    BY <2>1, <2>2, <2>3
  <2> HIDE DEF B
  <2>5. Len(enters') = Len(enters) + 1
    BY <1>1, <2>3, <2>4, Appended
  <2>6. enters'[Len(enters) + 1] = batch
    BY <1>1, <2>3, <2>4, Appended
  <2> QED
    BY <1>3, <2>1, <2>5, <2>6
<1>4. ASSUME NEW type \in Types, NEW d \in Dispatches \cup {NoDispatch}, NEW honest \in BOOLEAN,
             type \in {"worker_done", "heartbeat"} => d \in Dispatches, Send(type, d, honest)
      PROVE  \A i \in enters'[Len(enters')] \cap DOMAIN msgs :
                ~msgs[i].delivered /\ ~msgs[i].read
  <2> DEFINE R == After(type, d, honest).rows
  <2>1. /\ dispatch' = After(type, d, honest).status /\ UNCHANGED taken
        /\ Len(msgs) < MaxMessages /\ DeliverIfIdle(R)
    BY <1>2, <1>4 DEF Send, After, Sent
  <2>2. /\ R \in Seq(Row) /\ Len(R) = Len(msgs) + 1
        /\ \A i \in DOMAIN msgs : msgs[i].read => R[i].read
        /\ \A i \in DOMAIN msgs : msgs[i].delivered => R[i].delivered
    BY <1>4, <2>1, SendRows
  <2> HIDE DEF R
  <2>3. enters' = Append(enters, Undelivered(R)) /\ Undelivered(R) # {}
    BY <1>1, <1>2, <2>1, <2>2, DeliverIfIdlePushes
  <2>4. DOMAIN msgs \subseteq DOMAIN R /\ Len(R) =< MaxMessages
    BY <1>1, <2>1, <2>2, LenProperties
  <2> QED
    BY <1>3, <2>2, <2>3, <2>4
<1>5. CASE SendSome
  <2>1. CASE Send("status", NoDispatch, TRUE)
    <3>1. "status" \in Types /\ "status" \notin {"worker_done", "heartbeat"}
      BY DEF Types
    <3> QED
      BY <1>4, <2>1, <3>1
  <2>2. ASSUME NEW type \in {"worker_done", "heartbeat"}, NEW d \in Dispatches,
               NEW honest \in BOOLEAN, Send(type, d, honest)
        PROVE  \A i \in enters'[Len(enters')] \cap DOMAIN msgs :
                  ~msgs[i].delivered /\ ~msgs[i].read
    <3>1. type \in Types
      BY DEF Types
    <3> QED
      BY <1>4, <2>2, <3>1
  <2> QED
    BY <1>5, <2>1, <2>2 DEF SendSome
<1>6. CASE AgentIdle
  <2>1. DeliverPendingMessages(msgs)
    BY <1>6 DEF AgentIdle
  <2>2. enters' = Append(enters, Undelivered(msgs)) /\ Undelivered(msgs) # {}
    BY <1>1, <1>2, <2>1, DeliverPushes
  <2> QED
    BY <1>1, <1>3, <2>2
<1>7. CASE PressEnter
  <2>1. enters # << >> /\ enters' = Tail(enters)
    BY <1>7 DEF PressEnter
  <2> HIDE DEF B
  <2>2. Len(enters') = Len(enters) - 1
    BY <1>1, <2>1
  <2> QED
    BY <1>1, <2>2
<1>8. CASE \/ Reply \/ AskStep \/ LoopReads \/ RunToggles \/ AgentWorks \/ TerminalLost
           \/ UNCHANGED vars
           \/ \E d \in Dispatches : WorkerExit(d) \/ DispatchClosed(d)
           \/ \E c \in Checkers : CheckStep(c)
  <2>1. enters' = enters
    BY <1>8 DEF Reply, AskStep, Ask, AskResume, AskDeadline, AskAbort, LoopReads, RunToggles,
                AgentWorks, TerminalLost, vars, WorkerExit, DispatchClosed, CheckStep, Check,
                Resume, CheckTimeout, CheckAbort
  <2> QED
    BY <1>2, <2>1
<1> QED
  BY <1>5, <1>6, <1>7, <1>8 DEF Next, TerminalStep

\* getUndeliveredUnreadMessages: a push never types what was delivered or read before,
\* although a batch that is typed and not entered may be typed again.
THEOREM NothingIsReplayed == Spec => NoReplay
<1> DEFINE Fresh == Len(enters') > Len(enters) =>
               \A i \in enters'[Len(enters')] \cap DOMAIN msgs :
                  ~msgs[i].delivered /\ ~msgs[i].read
<1>1. DeliveryInv /\ [Next]_vars => Fresh
  BY StepReplaysNothing
<1>2. NoReplay <=> [][Fresh]_vars
  BY DEF NoReplay
<1> HIDE DEF Fresh
<1> QED
  BY <1>1, <1>2, InvTheorem, PTL DEF Spec

LEMMA StepHearsAnswers ==
    ASSUME [Next]_vars, ask' = "timedOut", ask # "timedOut"
    PROVE  \A i \in DOMAIN msgs : ~msgs[i].answer
<1>1. CASE AskStep
  <2>1. ASSUME NEW late \in BOOLEAN, AskLoop(late) PROVE Answers(msgs) = {}
    BY <2>1 DEF AskLoop
  <2>2. Answers(msgs) = {}
    BY <1>1, <2>1 DEF AskStep, Ask, AskResume, AskDeadline, AskAbort
  <2> QED
    BY <2>2 DEF Answers
<1>2. ASSUME NEW type, NotifyMessageArrived(type) PROVE FALSE
  BY <1>2 DEF NotifyMessageArrived
<1>3. CASE SendSome
  <2>1. ASSUME NEW type, NEW d, NEW honest, Send(type, d, honest) PROVE FALSE
    <3>1. ask' = ask \/ NotifyMessageArrived(type)
      BY <2>1 DEF Send
    <3> QED
      BY <1>2, <3>1
  <2> QED
    BY <1>3, <2>1 DEF SendSome
<1>4. CASE Reply
  BY <1>2, <1>4 DEF Reply
<1>5. CASE \/ LoopReads \/ RunToggles \/ TerminalStep \/ UNCHANGED vars
           \/ \E d \in Dispatches : WorkerExit(d) \/ DispatchClosed(d)
           \/ \E c \in Checkers : CheckStep(c)
  BY <1>5 DEF LoopReads, RunToggles, TerminalStep, AgentIdle, AgentWorks, PressEnter, TerminalLost,
              vars, WorkerExit, DispatchClosed, CheckStep, Check, Resume, CheckTimeout,
              CheckAbort
<1> QED
  BY <1>1, <1>3, <1>4, <1>5 DEF Next

\* The loop of orchestration.ask looks at the thread before it gives up, and at messages
\* that another reader consumed.
THEOREM AskHearsAnswers == Spec => AnswerReachesAsk
<1> DEFINE Heard == ask' = "timedOut" /\ ask # "timedOut" => \A i \in DOMAIN msgs : ~msgs[i].answer
<1>1. [Next]_vars => Heard
  BY StepHearsAnswers
<1>2. AnswerReachesAsk <=> [][Heard]_vars
  BY DEF AnswerReachesAsk
<1> HIDE DEF Heard
<1> QED
  BY <1>1, <1>2, PTL DEF Spec
=============================================================================
