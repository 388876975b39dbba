------------------------- MODULE RelaySession_proofs --------------------------
(***************************************************************************)
(* Proofs about the relay session: its types, that at most one broker is   *)
(* connected and belongs to the signed-in account, and that no revocation  *)
(* is lost or sent by another account's broker, for any accounts, phones   *)
(* and calls and any number of reconciles.                                 *)
(***************************************************************************)
EXTENDS RelaySession, TLAPS

-----------------------------------------------------------------------------
(* Types.                                                                  *)

\* latestReconcile is one that still runs, so that a call which goes on to await it waits
\* for something.
LatestRuns == latest # 0 => attempt[latest].at # "free"
TypeInv == TypeOK /\ LatestRuns

Attempt == [at : {"free", "reading", "opening"}, account : Accounts \cup {NoAccount}]
Waiter == [pc : {"idle", "waiting", "working", "done"}, on : {0} \cup Slots]

\* A new reconcile runs in a free slot and leaves the others alone.
LEMMA ReconcileTypes ==
    ASSUME TypeInv, Reconcile
    PROVE  /\ attempt' \in [Slots -> Attempt] /\ current' \in Slots /\ latest' = current'
           /\ epoch' = "running" /\ attempt[current'].at = "free"
           /\ attempt'[current'].at = "reading"
           /\ \A s \in Slots \ {current'} : attempt'[s] = attempt[s]
<1>1. PICK s \in Free :
          /\ attempt' = [attempt EXCEPT ![s] = [Idle EXCEPT !.at = "reading"]]
          /\ current' = s /\ epoch' = "running" /\ latest' = s
  BY DEF Reconcile
<1>2. s \in Slots /\ attempt[s].at = "free" /\ attempt \in [Slots -> Attempt]
  BY DEF Free, TypeInv, TypeOK, Attempt
<1>3. [Idle EXCEPT !.at = "reading"] = [at |-> "reading", account |-> NoAccount]
  BY DEF Idle
<1> QED
  BY <1>1, <1>2, <1>3 DEF Attempt

\* A call that waits goes on waiting for its attempt, which was not the free slot taken.
LEMMA ReconcileKeepsTypes ==
    ASSUME TypeInv, Reconcile
    PROVE  /\ attempt' \in [Slots -> Attempt] /\ current' \in {0} \cup Slots
           /\ latest' \in {0} \cup Slots /\ epoch' = "running" /\ LatestRuns'
           /\ \A s \in Slots : attempt[s].at # "free" => attempt'[s].at # "free"
<1>1. latest' \in Slots /\ attempt'[latest'].at = "reading"
  BY ReconcileTypes
<1>2. LatestRuns'
  BY <1>1 DEF LatestRuns
<1> QED
  BY <1>2, ReconcileTypes

\* The end of an attempt frees its slot; whoever waited for it moves on.
LEMMA EndTypes ==
    ASSUME TypeInv, NEW s \in Slots, NEW o \in {0} \cup Slots,
           NEW outcome \in {"settled", "failed"},
           End(s, outcome), Finish(s, o)
    PROVE  /\ attempt' \in [Slots -> Attempt] /\ attempt'[s].at = "free"
           /\ \A t \in Slots \ {s} : attempt'[t] = attempt[t]
           /\ current' \in {0} \cup Slots /\ latest' \in {0} \cup Slots
           /\ epoch' \in {"running", "settled", "failed", "fenced"}
           /\ LatestRuns'
           /\ call' \in [Calls -> Waiter]
           /\ \A c \in Calls : call'[c].pc = "waiting" =>
                  call'[c].on # 0 /\ attempt'[call'[c].on].at # "free"
<1>1. attempt \in [Slots -> Attempt] /\ Idle \in Attempt /\ Idle.at = "free"
  BY DEF TypeInv, TypeOK, Attempt, Idle
<1>2. attempt' \in [Slots -> Attempt] /\ attempt'[s].at = "free"
      /\ \A t \in Slots \ {s} : attempt'[t] = attempt[t]
  BY <1>1 DEF End
<1>3. current' \in {0} \cup Slots /\ latest' \in {0} \cup Slots
      /\ epoch' \in {"running", "settled", "failed", "fenced"}
  BY DEF End, TypeInv, TypeOK
<1>4. latest' # 0 => latest' \in Slots \ {s} /\ latest' = latest
  BY <1>3 DEF End
<1>5. LatestRuns'
  BY <1>2, <1>4 DEF LatestRuns, TypeInv
<1>6. ASSUME NEW c \in Calls
      PROVE  /\ call'[c] \in Waiter
             /\ call'[c].pc = "waiting" =>
                    call'[c].on # 0 /\ attempt'[call'[c].on].at # "free"
  <2>1. call[c] \in Waiter
        /\ (call[c].pc = "waiting" => call[c].on # 0 /\ attempt[call[c].on].at # "free")
    BY DEF TypeInv, TypeOK, Waiter
  <2>2. CASE call[c].pc # "waiting" \/ call[c].on # s
    <3>1. call'[c] = call[c]
      BY <2>2 DEF Finish
    <3> QED
      BY <1>2, <2>1, <2>2, <3>1 DEF Waiter
  <2>3. CASE call[c].pc = "waiting" /\ call[c].on = s /\ o = 0 /\ latest \notin {0, s}
    <3>1. call'[c] = [call[c] EXCEPT !.on = latest]
      BY <2>3 DEF Finish
    <3>2. latest \in Slots \ {s} /\ attempt[latest].at # "free"
      BY <2>3 DEF TypeInv, TypeOK, LatestRuns
    <3>3. call'[c].on = latest /\ call'[c] \in Waiter
      BY <2>1, <3>1, <3>2 DEF Waiter
    <3> QED
      BY <1>2, <3>2, <3>3 DEF Slots
  <2>4. CASE call[c].pc = "waiting" /\ call[c].on = s /\ ~(o = 0 /\ latest \notin {0, s})
    <3>1. call'[c] = [pc |-> "working", on |-> 0]
      BY <2>4 DEF Finish
    <3> QED
      BY <3>1 DEF Waiter
  <2> QED
    BY <2>2, <2>3, <2>4
<1>7. call' \in [Calls -> Waiter]
  BY <1>6 DEF Finish
<1> QED
  BY <1>2, <1>3, <1>5, <1>6, <1>7

\* The two halves of the types: the attempts with the calls that await them, and the rest.
AttemptsTyped ==
    /\ attempt \in [Slots -> Attempt]
    /\ current \in {0} \cup Slots /\ latest \in {0} \cup Slots
    /\ epoch \in {"running", "settled", "failed", "fenced"}
    /\ LatestRuns
    /\ call \in [Calls -> Waiter]
    /\ \A c \in Calls : call[c].pc = "waiting" =>
           call[c].on # 0 /\ attempt[call[c].on].at # "free"
RestTyped ==
    /\ account \in Accounts \cup {NoAccount}
    /\ own \in Owner /\ live \subseteq Slots /\ linked \in BOOLEAN
    /\ flight \in Flight /\ tried \subseteq Devices
    /\ refresh \in {"armed", "reading", "stale"}
    /\ linger \in BOOLEAN
    /\ outbox \subseteq Devices /\ paired \subseteq Devices /\ revoked \subseteq Devices
    /\ mutations \in 0 .. MaxMutations /\ restarts \in 0 .. MaxRestarts

LEMMA TwoHalves == TypeInv <=> AttemptsTyped /\ RestTyped
BY DEF TypeInv, TypeOK, AttemptsTyped, RestTyped, Attempt, Waiter

LEMMA BothHalvesKept == AttemptsTyped' /\ RestTyped' => TypeInv'
BY DEF TypeInv, TypeOK, AttemptsTyped, RestTyped, Attempt, Waiter

\* A reconcile that starts and leaves the calls alone keeps the first half.
LEMMA ReconcileKeepsHalf ==
    ASSUME TypeInv, Reconcile, UNCHANGED call
    PROVE  AttemptsTyped'
<1>1. /\ call \in [Calls -> Waiter]
      /\ \A c \in Calls : call[c].pc = "waiting" =>
             call[c].on # 0 /\ attempt[call[c].on].at # "free"
  BY TwoHalves DEF AttemptsTyped
<1>2. \A c \in Calls : call[c].pc = "waiting" => call[c].on \in Slots
  BY <1>1 DEF Waiter
<1> QED
  BY <1>1, <1>2, ReconcileKeepsTypes DEF AttemptsTyped

LEMMA EndKeepsHalf ==
    ASSUME TypeInv, NEW s \in Slots, NEW o \in {0} \cup Slots,
           NEW outcome \in {"settled", "failed"},
           End(s, outcome), Finish(s, o)
    PROVE  AttemptsTyped'
BY EndTypes DEF AttemptsTyped

\* The pieces of a step that keep the second half.
LEMMA OwnershipTypes ==
    ASSUME RestTyped
    PROVE  /\ own.slot \in {0} \cup Slots /\ own.account \in Accounts \cup {NoAccount}
           /\ NoOwner \in Owner /\ NoFlight \in Flight
           /\ Staled \in {"armed", "reading", "stale"}
           /\ flight.left \subseteq Devices /\ flight.at \in Devices \cup {NoDevice}
           /\ flight.direct \subseteq Devices
BY DEF RestTyped, Owner, NoOwner, NoFlight, Flight, Staled

LEMMA LoopTypes ==
    ASSUME NEW left \in SUBSET Devices, NEW direct \in SUBSET Devices,
           NEW f \in LoopOver(left, direct)
    PROVE  /\ f \in Flight
           /\ f.direct = direct /\ f.left \subseteq left
           /\ f.at \in left \cup {NoDevice}
<1>1. CASE \E d \in left : f = [left |-> left \ {d}, at |-> d, direct |-> direct]
  BY <1>1 DEF Flight
<1>2. CASE left = {} /\ f = [NoFlight EXCEPT !.direct = direct]
  <2>1. f = [left |-> {}, at |-> NoDevice, direct |-> direct]
    BY <1>2 DEF NoFlight
  <2> QED
    BY <2>1 DEF Flight
<1> QED
  BY <1>1, <1>2 DEF LoopOver

LEMMA InvalidateTypes ==
    ASSUME RestTyped, InvalidateOwnership
    PROVE  /\ own' \in Owner /\ live' \subseteq Slots /\ linked' \in BOOLEAN
           /\ flight' \in Flight /\ tried' \subseteq Devices
           /\ refresh' \in {"armed", "reading", "stale"}
BY OwnershipTypes DEF RestTyped, InvalidateOwnership

-----------------------------------------------------------------------------
LEMMA InitTypes == Init => TypeInv
<1> SUFFICES ASSUME Init PROVE TypeInv
  OBVIOUS
<1>1. 1 \in Slots
  BY SessionAssumption DEF Slots
<1>2. attempt \in [Slots -> Attempt] /\ attempt[1].at = "reading"
  BY <1>1 DEF Init, FirstRead, Idle, Attempt
<1>3. AttemptsTyped
  BY <1>1, <1>2 DEF Init, AttemptsTyped, LatestRuns, Waiter
<1>4. MaxMutations \in Nat /\ MaxRestarts \in Nat
  BY SessionAssumption
<1>5. 0 \in 0 .. MaxMutations /\ 0 \in 0 .. MaxRestarts
  BY <1>4
<1>6. NoOwner \in Owner /\ NoFlight \in Flight
  BY DEF NoOwner, Owner, NoFlight, Flight
<1>7. RestTyped
  BY <1>5, <1>6 DEF Init, RestTyped
<1> QED
  BY <1>3, <1>7, TwoHalves

LEMMA ReadTypes ==
    ASSUME TypeInv, NEW s \in Slots, ReadContext(s)
    PROVE  TypeInv'
<1>0. AttemptsTyped /\ RestTyped /\ own.slot \in {0} \cup Slots
  BY TwoHalves, OwnershipTypes
<1>a. attempt[s].at = "reading" /\ UNCHANGED <<account, outbox, paired, revoked, counters>>
  BY DEF ReadContext
<1>1. CASE ReadStale(s)
  <2>1. End(s, "settled") /\ Finish(s, own.slot) /\ UNCHANGED <<brokerVars, linger>>
    BY <1>1 DEF ReadStale
  <2>2. AttemptsTyped'
    BY <1>0, <2>1, EndKeepsHalf
  <2>3. RestTyped'
    BY <1>0, <1>a, <2>1 DEF RestTyped, brokerVars, counters
  <2> QED
    BY <2>2, <2>3, BothHalvesKept
<1>2. CASE ReadSignedOut(s)
  <2>1. End(s, "settled") /\ Finish(s, 0) /\ linger' = FALSE /\ InvalidateOwnership
    BY <1>2 DEF ReadSignedOut
  <2>2. AttemptsTyped'
    BY <2>1, EndKeepsHalf
  <2>3. RestTyped'
    BY <1>0, <1>a, <2>1, InvalidateTypes DEF RestTyped, counters
  <2> QED
    BY <2>2, <2>3, BothHalvesKept
<1>3. CASE ReadNoDemand(s)
  <2>1. /\ End(s, "settled") /\ (Finish(s, 0) \/ Finish(s, own.slot))
        /\ linger' \in BOOLEAN
        /\ InvalidateOwnership \/ UNCHANGED brokerVars
    BY <1>0, <1>3 DEF ReadNoDemand, RestTyped
  <2>2. AttemptsTyped'
    BY <1>0, <2>1, EndKeepsHalf
  <2>3. RestTyped'
    BY <1>0, <1>a, <2>1, InvalidateTypes DEF RestTyped, brokerVars, counters
  <2> QED
    BY <2>2, <2>3, BothHalvesKept
<1>4. CASE ReadSameAccount(s)
  <2>1. End(s, "settled") /\ Finish(s, own.slot) /\ linger' = FALSE /\ UNCHANGED brokerVars
    BY <1>4 DEF ReadSameAccount
  <2>2. AttemptsTyped'
    BY <1>0, <2>1, EndKeepsHalf
  <2>3. RestTyped'
    BY <1>0, <1>a, <2>1 DEF RestTyped, brokerVars, counters
  <2> QED
    BY <2>2, <2>3, BothHalvesKept
<1>5. CASE ReadOpens(s)
  <2>1. /\ linger' = FALSE /\ InvalidateOwnership
        /\ attempt' = [attempt EXCEPT ![s] = [at |-> "opening", account |-> account]]
        /\ UNCHANGED <<current, epoch, latest, call>>
    BY <1>5 DEF ReadOpens
  <2>2. attempt' \in [Slots -> Attempt]
        /\ \A t \in Slots : attempt'[t].at # "free" \/ attempt'[t] = attempt[t]
    BY <1>0, <2>1 DEF AttemptsTyped, RestTyped, Attempt
  <2>3. \A c \in Calls : call[c].pc = "waiting" => call[c].on \in Slots
    BY <1>0 DEF AttemptsTyped, Waiter
  <2>4. AttemptsTyped'
    BY <1>0, <2>1, <2>2, <2>3 DEF AttemptsTyped, LatestRuns
  <2>5. RestTyped'
    BY <1>0, <1>a, <2>1, InvalidateTypes DEF RestTyped, counters
  <2> QED
    BY <2>4, <2>5, BothHalvesKept
<1> QED
  BY <1>1, <1>2, <1>3, <1>4, <1>5 DEF ReadContext

LEMMA OpenTypes ==
    ASSUME TypeInv, NEW s \in Slots, BrokerOpens(s)
    PROVE  TypeInv'
<1>0. AttemptsTyped /\ RestTyped /\ own.slot \in {0} \cup Slots
  BY TwoHalves, OwnershipTypes
<1>1. End(s, "settled") /\ (Finish(s, own.slot) \/ Finish(s, s))
      /\ UNCHANGED <<account, linger, outbox, paired, revoked, counters>>
  BY DEF BrokerOpens
<1>2. AttemptsTyped'
  BY <1>0, <1>1, EndKeepsHalf
<1>3. CASE current = s
  <2> DEFINE a == attempt[s].account
  <2>1. /\ own' = [slot |-> s, account |-> a] /\ live' = live \cup {s} /\ linked' = TRUE
        /\ flight' \in LoopOver(PendingFor(a), {})
        /\ tried' = {flight'.at} \ {NoDevice} /\ refresh' = "armed"
    BY <1>3 DEF BrokerOpens
  <2>2. a \in Accounts \cup {NoAccount} /\ PendingFor(a) \subseteq Devices
    BY <1>0 DEF AttemptsTyped, Attempt, RestTyped, PendingFor
  <2>3. flight' \in Flight /\ flight'.at \in Devices \cup {NoDevice}
    BY <2>1, <2>2, LoopTypes
  <2>4. own' \in Owner
    BY <2>1, <2>2 DEF Owner
  <2>5. RestTyped'
    BY <1>0, <1>1, <2>1, <2>3, <2>4 DEF RestTyped, counters
  <2> QED
    BY <1>2, <2>5, BothHalvesKept
<1>4. CASE current # s
  <2>1. UNCHANGED brokerVars
    BY <1>4 DEF BrokerOpens
  <2>2. RestTyped'
    BY <1>0, <1>1, <2>1 DEF RestTyped, brokerVars, counters
  <2> QED
    BY <1>2, <2>2, BothHalvesKept
<1> QED
  BY <1>3, <1>4

\* The steps that leave the attempts and the calls alone.
LEMMA AttemptsKept ==
    ASSUME AttemptsTyped, UNCHANGED <<attempt, latest, call>>,
           current' \in {0} \cup Slots, epoch' \in {"running", "settled", "failed", "fenced"}
    PROVE  AttemptsTyped'
BY DEF AttemptsTyped, LatestRuns

LEMMA AnsweredTypes ==
    ASSUME RestTyped, NEW d \in Devices, Answered(d)
    PROVE  /\ flight' \in Flight /\ tried' \subseteq Devices
           /\ flight'.left \subseteq flight.left
           /\ flight'.direct \subseteq flight.direct
           /\ flight'.at \in flight.left \cup {flight.at, NoDevice}
<1>1. flight \in Flight /\ tried \subseteq Devices
  BY DEF RestTyped
<1>2. CASE flight.at = d
  <2>1. flight' \in LoopOver(flight.left, flight.direct)
    BY <1>2 DEF Answered
  <2>2. flight.left \in SUBSET Devices /\ flight.direct \in SUBSET Devices
    BY <1>1 DEF Flight
  <2>3. /\ flight' \in Flight /\ flight'.direct = flight.direct
        /\ flight'.left \subseteq flight.left /\ flight'.at \in flight.left \cup {NoDevice}
    BY <2>1, <2>2, LoopTypes
  <2> QED
    BY <1>1, <2>2, <2>3 DEF Answered
<1>3. CASE flight.at # d
  <2>1. flight' = [flight EXCEPT !.direct = @ \ {d}]
    BY <1>3 DEF Answered
  <2>2. /\ flight'.left = flight.left /\ flight'.at = flight.at
        /\ flight'.direct = flight.direct \ {d} /\ flight' \in Flight
    BY <1>1, <2>1 DEF Flight
  <2> QED
    BY <1>1, <2>2 DEF Answered, Flight
<1> QED
  BY <1>2, <1>3

LEMMA FailTypes ==
    ASSUME RestTyped, FailRequests
    PROVE  flight' \in Flight /\ tried' \subseteq Devices /\ linked' \in BOOLEAN
BY OwnershipTypes DEF RestTyped, FailRequests

LEMMA StartTypes ==
    ASSUME TypeInv, NEW c \in Calls, CallStarts(c)
    PROVE  TypeInv'
<1>0. AttemptsTyped /\ RestTyped
  BY TwoHalves
<1>1. Reconcile /\ refresh' = Staled
      /\ UNCHANGED <<account, own, live, linked, flight, tried, linger, outbox, paired,
                     revoked, counters>>
  BY DEF CallStarts
<1> DEFINE w == IF own.slot # 0 THEN [pc |-> "working", on |-> 0]
                ELSE [pc |-> "waiting", on |-> latest']
<1>2. call' = [call EXCEPT ![c] = w]
  BY DEF CallStarts
<1>3. latest' \in Slots /\ attempt'[latest'].at = "reading" /\ latest' # 0
  BY <1>1, ReconcileTypes DEF Slots
<1>4. w \in Waiter /\ (w.pc = "waiting" => w.on # 0 /\ attempt'[w.on].at # "free")
  BY <1>3 DEF Waiter
<1>5. /\ call \in [Calls -> Waiter]
      /\ \A e \in Calls : call[e].pc = "waiting" =>
             call[e].on # 0 /\ call[e].on \in Slots /\ attempt[call[e].on].at # "free"
  BY <1>0 DEF AttemptsTyped, Waiter
<1> HIDE DEF w
<1>6. call' \in [Calls -> Waiter]
  BY <1>2, <1>4, <1>5
<1>7. ASSUME NEW e \in Calls, call'[e].pc = "waiting"
      PROVE  call'[e].on # 0 /\ attempt'[call'[e].on].at # "free"
  <2>1. CASE e = c
    BY <1>2, <1>4, <1>5, <1>7, <2>1
  <2>2. CASE e # c
    <3>1. call'[e] = call[e]
      BY <1>2, <1>5, <2>2
    <3> QED
      BY <1>1, <1>5, <1>7, <3>1, ReconcileKeepsTypes
  <2> QED
    BY <2>1, <2>2
<1>8. AttemptsTyped'
  BY <1>1, <1>6, <1>7, ReconcileKeepsTypes DEF AttemptsTyped
<1>9. RestTyped'
  BY <1>0, <1>1, OwnershipTypes DEF RestTyped, counters
<1> QED
  BY <1>8, <1>9, BothHalvesKept

LEMMA EndCallTypes ==
    ASSUME TypeInv, NEW c \in Calls, CallEnds(c)
    PROVE  TypeInv'
<1>0. AttemptsTyped /\ RestTyped
  BY TwoHalves
<1>1. Reconcile /\ refresh' = Staled
      /\ UNCHANGED <<account, own, live, linked, flight, tried, linger, outbox, paired,
                     revoked, counters>>
  BY DEF CallEnds
<1>2. call' = [call EXCEPT ![c].pc = "done"]
  BY DEF CallEnds
<1>5. /\ call \in [Calls -> Waiter]
      /\ \A e \in Calls : call[e].pc = "waiting" =>
             call[e].on # 0 /\ call[e].on \in Slots /\ attempt[call[e].on].at # "free"
  BY <1>0 DEF AttemptsTyped, Waiter
<1>6. call' \in [Calls -> Waiter] /\ call'[c].pc = "done"
      /\ \A e \in Calls \ {c} : call'[e] = call[e]
  BY <1>2, <1>5 DEF Waiter
<1>7. \A e \in Calls : call'[e].pc = "waiting" =>
          call'[e].on # 0 /\ attempt'[call'[e].on].at # "free"
  BY <1>1, <1>5, <1>6, ReconcileKeepsTypes
<1>8. AttemptsTyped'
  BY <1>1, <1>6, <1>7, ReconcileKeepsTypes DEF AttemptsTyped
<1>9. RestTyped'
  BY <1>0, <1>1, OwnershipTypes DEF RestTyped, counters
<1> QED
  BY <1>8, <1>9, BothHalvesKept

LEMMA RestartTypes ==
    ASSUME TypeInv, Restart
    PROVE  TypeInv'
<1>0. AttemptsTyped /\ RestTyped
  BY TwoHalves
<1>1. 1 \in Slots /\ MaxRestarts \in Nat
  BY SessionAssumption DEF Slots
<1>2. attempt' \in [Slots -> Attempt] /\ attempt'[1].at = "reading"
  BY <1>1 DEF Restart, FirstRead, Idle, Attempt
<1>3. /\ call' \in [Calls -> Waiter]
      /\ \A c \in Calls : call'[c].pc # "waiting"
  BY <1>0 DEF Restart, AttemptsTyped, Waiter
<1>4. AttemptsTyped'
  BY <1>1, <1>2, <1>3 DEF Restart, AttemptsTyped, LatestRuns
<1>5. restarts' \in 0 .. MaxRestarts
  BY <1>0, <1>1 DEF Restart, RestTyped
<1>6. RestTyped'
  BY <1>0, <1>5, OwnershipTypes DEF Restart, RestTyped
<1> QED
  BY <1>4, <1>6, BothHalvesKept

LEMMA NextTypes == TypeInv /\ [Next]_vars => TypeInv'
<1> SUFFICES ASSUME TypeInv, [Next]_vars PROVE TypeInv'
  OBVIOUS
<1>0. AttemptsTyped /\ RestTyped /\ own.slot \in {0} \cup Slots
  BY TwoHalves, OwnershipTypes
<1>00. current \in {0} \cup Slots /\ epoch \in {"running", "settled", "failed", "fenced"}
  BY <1>0 DEF AttemptsTyped
<1>1. ASSUME NEW s \in Slots, ReadContext(s) PROVE TypeInv'
  BY <1>1, ReadTypes
<1>2. ASSUME NEW s \in Slots, AttemptFails(s) PROVE TypeInv'
  <2>1. AttemptsTyped'
    BY <1>0, <1>2, EndKeepsHalf DEF AttemptFails
  <2>2. RestTyped'
    BY <1>0, <1>2 DEF AttemptFails, RestTyped, brokerVars, counters
  <2> QED
    BY <2>1, <2>2, BothHalvesKept
<1>3. ASSUME NEW s \in Slots, BrokerOpens(s) PROVE TypeInv'
  BY <1>3, OpenTypes
<1>4. CASE Fence
  <2>1. AttemptsTyped'
    BY <1>0, <1>4, AttemptsKept DEF Fence
  <2>2. RestTyped'
    BY <1>0, <1>4, InvalidateTypes DEF Fence, RestTyped, counters
  <2> QED
    BY <2>1, <2>2, BothHalvesKept
<1>5. CASE LingerFires
  <2>1. AttemptsTyped'
    BY <1>0, <1>00, <1>5, AttemptsKept DEF LingerFires, reconcileVars
  <2>2. InvalidateOwnership \/ UNCHANGED brokerVars
    BY <1>5 DEF LingerFires
  <2>3. RestTyped'
    BY <1>0, <1>5, <2>2, InvalidateTypes DEF LingerFires, RestTyped, brokerVars, counters
  <2> QED
    BY <2>1, <2>3, BothHalvesKept
<1>6. CASE ControlLost
  <2>1. AttemptsTyped'
    BY <1>0, <1>00, <1>6, AttemptsKept DEF ControlLost, reconcileVars
  <2>2. RestTyped'
    BY <1>0, <1>6, FailTypes DEF ControlLost, RestTyped, counters
  <2> QED
    BY <2>1, <2>2, BothHalvesKept
<1>7. CASE ControlBack
  <2>1. AttemptsTyped'
    BY <1>0, <1>00, <1>7, AttemptsKept DEF ControlBack, reconcileVars
  <2>2. RestTyped'
    BY <1>0, <1>7 DEF ControlBack, RestTyped, counters
  <2> QED
    BY <2>1, <2>2, BothHalvesKept
<1>8. CASE Refresh
  <2>1. AttemptsTyped'
    BY <1>0, <1>00, <1>8, AttemptsKept DEF Refresh, reconcileVars
  <2>2. /\ refresh' \in {"armed", "reading", "stale"} /\ UNCHANGED own
        /\ \/ UNCHANGED <<live, linked, flight, tried>>
           \/ FailRequests /\ live' = live \ {own.slot}
    BY <1>8 DEF Refresh, RefreshStarts, RefreshReads, RefreshFails, CloseBroker
  <2>3. RestTyped'
    BY <1>0, <1>8, <2>2, FailTypes DEF Refresh, RestTyped, counters
  <2> QED
    BY <2>1, <2>3, BothHalvesKept
<1>9. CASE Restart
  BY <1>9, RestartTypes
<1>10. ASSUME NEW a \in Accounts \cup {NoAccount}, AuthMutates(a) PROVE TypeInv'
  <2>1. AttemptsTyped'
    BY <1>10, ReconcileKeepsHalf DEF AuthMutates
  <2>2. mutations' \in 0 .. MaxMutations /\ refresh' \in {"armed", "reading", "stale"}
    BY <1>0, <1>10, SessionAssumption, OwnershipTypes DEF AuthMutates, RestTyped
  <2>3. RestTyped'
    BY <1>0, <1>10, <2>2 DEF AuthMutates, RestTyped
  <2> QED
    BY <2>1, <2>3, BothHalvesKept
<1>11. ASSUME NEW c \in Calls, CallStarts(c) PROVE TypeInv'
  BY <1>11, StartTypes
<1>12. ASSUME NEW c \in Calls, CallEnds(c) PROVE TypeInv'
  BY <1>12, EndCallTypes
<1>13. ASSUME NEW d \in Devices, RevokeDevice(d) PROVE TypeInv'
  <2>1. AttemptsTyped'
    BY <1>13, ReconcileKeepsHalf DEF RevokeDevice
  <2>2. flight \in Flight /\ [flight EXCEPT !.direct = @ \cup {d}] \in Flight
    BY <1>0 DEF RestTyped, Flight
  <2>3. flight' \in Flight /\ tried' \subseteq Devices
    BY <1>0, <1>13, <2>2 DEF RevokeDevice, RestTyped
  <2>4. RestTyped'
    BY <1>0, <1>13, <2>3, OwnershipTypes DEF RevokeDevice, RestTyped, counters
  <2> QED
    BY <2>1, <2>4, BothHalvesKept
<1>14. ASSUME NEW d \in Devices, RelayHandles(d) PROVE TypeInv'
  <2>1. AttemptsTyped'
    BY <1>0, <1>00, <1>14, AttemptsKept DEF RelayHandles, reconcileVars
  <2>2. RestTyped'
    BY <1>0, <1>14 DEF RelayHandles, RestTyped, brokerVars, counters
  <2> QED
    BY <2>1, <2>2, BothHalvesKept
<1>15. ASSUME NEW d \in Devices, AckArrives(d) PROVE TypeInv'
  <2>1. AttemptsTyped'
    BY <1>15, ReconcileKeepsHalf DEF AckArrives
  <2>2. RestTyped'
    BY <1>0, <1>15, AnsweredTypes, OwnershipTypes DEF AckArrives, RestTyped, counters
  <2> QED
    BY <2>1, <2>2, BothHalvesKept
<1>16. ASSUME NEW d \in Devices, RevokeTimesOut(d) PROVE TypeInv'
  <2>1. AttemptsTyped'
    BY <1>0, <1>00, <1>16, AttemptsKept DEF RevokeTimesOut, reconcileVars
  <2>2. RestTyped'
    BY <1>0, <1>16, AnsweredTypes DEF RevokeTimesOut, RestTyped, counters
  <2> QED
    BY <2>1, <2>2, BothHalvesKept
<1>17. CASE UNCHANGED vars
  <2>1. AttemptsTyped' /\ RestTyped'
    BY <1>0, <1>17 DEF vars, reconcileVars, brokerVars, counters, AttemptsTyped, LatestRuns,
       RestTyped
  <2> QED
    BY <2>1, BothHalvesKept
<1> QED
  BY <1>1, <1>2, <1>3, <1>4, <1>5, <1>6, <1>7, <1>8, <1>9, <1>10, <1>11, <1>12, <1>13,
     <1>14, <1>15, <1>16, <1>17 DEF Next

\* Every step of the coordinator, the broker, the calls and the relay keeps the types, and
\* a call only ever awaits a reconcile that still runs.
THEOREM RelayTypes == Spec => []TypeOK
<1>1. TypeInv => TypeOK
  BY DEF TypeInv
<1> QED
  BY <1>1, InitTypes, NextTypes, PTL DEF Spec

-----------------------------------------------------------------------------
(* Safety.                                                                 *)

\* The current reconcile opens its broker for the account that is signed in, and only
\* after the earlier broker was closed: its success breaks nothing.
OpeningIsCurrent ==
    \A s \in Slots : attempt[s].at = "opening" /\ current = s =>
        own.slot = 0 /\ attempt[s].account = account

\* All that the outbox loop still has to send, too, is bound to the broker's account.
FlightOwned == \A d \in flight.left \cup InFlight : own.account = AccountOf[d]

Forgotten == Devices \ paired \subseteq outbox \cup revoked

BrokerInv == OneBroker /\ FlightOwned
SafeInv ==
    TypeInv /\ OpeningIsCurrent /\ BrokerInv /\ Forgotten /\ BrokerFollowsAccount

LEMMA InvalidateSafe ==
    ASSUME SafeInv, InvalidateOwnership
    PROVE  own' = NoOwner /\ own'.slot = 0 /\ live' = {} /\ BrokerInv'
<1>1. live \subseteq {own.slot}
  BY DEF SafeInv, BrokerInv, OneBroker
<1>2. own' = NoOwner /\ own'.slot = 0 /\ live' = {} /\ linked' = FALSE /\ flight' = NoFlight
  BY <1>1 DEF InvalidateOwnership, NoOwner
<1>3. InFlight' = {} /\ flight'.left = {}
  BY <1>2 DEF InFlight, NoFlight
<1> QED
  BY <1>2, <1>3 DEF BrokerInv, OneBroker, FlightOwned

LEMMA BrokerKept ==
    ASSUME SafeInv, UNCHANGED <<own, live, linked, flight>>
    PROVE  BrokerInv'
BY DEF SafeInv, BrokerInv, OneBroker, FlightOwned, InFlight

LEMMA FailSafe ==
    ASSUME SafeInv, FailRequests, UNCHANGED own, live' \subseteq live
    PROVE  BrokerInv'
<1>1. InFlight' = {} /\ flight'.left = {} /\ linked' = FALSE
  BY DEF FailRequests, InFlight, NoFlight
<1> QED
  BY <1>1 DEF SafeInv, BrokerInv, OneBroker, FlightOwned

LEMMA AnsweredSafe ==
    ASSUME SafeInv, NEW d \in Devices, Answered(d), UNCHANGED <<own, live, linked>>
    PROVE  BrokerInv'
<1>1. RestTyped
  BY TwoHalves DEF SafeInv
<1>2. d \in InFlight
  BY DEF Answered
<1>3. flight'.left \cup InFlight' \subseteq flight.left \cup InFlight
  BY <1>1, AnsweredTypes DEF InFlight
<1>4. linked
  BY <1>2 DEF SafeInv, BrokerInv, OneBroker
<1> QED
  BY <1>3, <1>4 DEF SafeInv, BrokerInv, OneBroker, FlightOwned

\* A new reconcile only reads so far, and nothing is claimed of the broker while it runs.
LEMMA ReconcileSafe ==
    ASSUME SafeInv, Reconcile
    PROVE  OpeningIsCurrent' /\ BrokerFollowsAccount'
<1>1. /\ epoch' = "running" /\ attempt'[current'].at = "reading"
  BY ReconcileTypes DEF SafeInv
<1> QED
  BY <1>1 DEF OpeningIsCurrent, BrokerFollowsAccount

\* The end of an attempt leaves the current one as it was, or none.
LEMMA EndSafe ==
    ASSUME SafeInv, NEW s \in Slots, NEW outcome \in {"settled", "failed"},
           End(s, outcome), UNCHANGED account, own' = own \/ own'.slot = 0 \/ current = s
    PROVE  OpeningIsCurrent'
<1>1. attempt \in [Slots -> Attempt]
  BY TwoHalves DEF SafeInv, AttemptsTyped
<1>2. \A r \in Slots \ {s} : attempt'[r] = attempt[r]
  BY <1>1 DEF End
<1>3. CASE current = s
  <2>1. current' = 0
    BY <1>3 DEF End
  <2> QED
    BY <2>1 DEF OpeningIsCurrent, Slots
<1>4. CASE current # s
  <2>1. current' = current
    BY <1>4 DEF End
  <2> QED
    BY <1>2, <1>4, <2>1 DEF OpeningIsCurrent, SafeInv
<1> QED
  BY <1>3, <1>4

\* What a step leaves true of the account when it leaves the epoch, the account and the
\* broker's owner alone.
LEMMA AccountKept ==
    ASSUME SafeInv, UNCHANGED <<account, epoch, own>>, live' \subseteq live
    PROVE  BrokerFollowsAccount'
BY DEF SafeInv, BrokerFollowsAccount

LEMMA AttemptsLeftAlone ==
    ASSUME SafeInv, UNCHANGED <<account, attempt, current>>, own' = own \/ own'.slot = 0
    PROVE  OpeningIsCurrent'
BY DEF SafeInv, OpeningIsCurrent

LEMMA ForgottenKept ==
    ASSUME SafeInv, UNCHANGED <<outbox, paired, revoked>>
    PROVE  Forgotten'
BY DEF SafeInv, Forgotten

LEMMA InitSafe == Init => SafeInv
<1> SUFFICES ASSUME Init PROVE SafeInv
  OBVIOUS
<1>1. TypeInv
  BY InitTypes
<1>2. own.slot = 0 /\ live = {} /\ linked = FALSE /\ InFlight = {} /\ flight.left = {}
  BY DEF Init, NoOwner, NoFlight, InFlight
<1>3. BrokerInv
  BY <1>2 DEF BrokerInv, OneBroker, FlightOwned
<1>4. attempt[1].at = "reading"
  BY SessionAssumption DEF Init, FirstRead, Idle, Slots
<1>5. OpeningIsCurrent /\ BrokerFollowsAccount
  BY <1>4 DEF Init, OpeningIsCurrent, BrokerFollowsAccount
<1>6. Forgotten
  BY DEF Init, Forgotten
<1> QED
  BY <1>1, <1>3, <1>5, <1>6 DEF SafeInv

LEMMA ReadSafe ==
    ASSUME SafeInv, NEW s \in Slots, ReadContext(s)
    PROVE  OpeningIsCurrent' /\ BrokerInv' /\ Forgotten' /\ BrokerFollowsAccount'
<1>0. UNCHANGED account /\ Forgotten'
  BY ForgottenKept DEF ReadContext
<1>1. CASE ReadStale(s)
  <2>1. current # s /\ End(s, "settled") /\ UNCHANGED brokerVars
    BY <1>1 DEF ReadStale
  <2>2. OpeningIsCurrent'
    BY <1>0, <2>1, EndSafe DEF brokerVars
  <2>3. BrokerInv'
    BY <2>1, BrokerKept DEF brokerVars
  <2>4. BrokerFollowsAccount'
    BY <1>0, <2>1, AccountKept DEF End, brokerVars
  <2> QED
    BY <1>0, <2>2, <2>3, <2>4
<1>2. CASE End(s, "settled") /\ current = s /\ InvalidateOwnership
  <2>1. OpeningIsCurrent'
    BY <1>0, <1>2, EndSafe
  <2>2. BrokerInv' /\ own'.slot = 0
    BY <1>2, InvalidateSafe
  <2>3. BrokerFollowsAccount'
    BY <1>2, <2>2 DEF BrokerFollowsAccount, End
  <2> QED
    BY <1>0, <2>1, <2>2, <2>3
<1>3. CASE /\ End(s, "settled") /\ current = s /\ UNCHANGED brokerVars
           /\ own.slot = 0 \/ own.account = account
  <2>1. OpeningIsCurrent'
    BY <1>0, <1>3, EndSafe
  <2>2. BrokerInv'
    BY <1>3, BrokerKept DEF brokerVars
  <2>3. BrokerFollowsAccount'
    BY <1>0, <1>3 DEF BrokerFollowsAccount, End, brokerVars
  <2> QED
    BY <1>0, <2>1, <2>2, <2>3
<1>4. CASE ReadSignedOut(s)
  BY <1>2, <1>4 DEF ReadSignedOut
<1>5. CASE ReadNoDemand(s)
  BY <1>2, <1>3, <1>5 DEF ReadNoDemand
<1>6. CASE ReadSameAccount(s)
  BY <1>3, <1>6 DEF ReadSameAccount
<1>7. CASE ReadOpens(s)
  <2>1. /\ current = s /\ InvalidateOwnership /\ UNCHANGED <<current, epoch>>
        /\ attempt' = [attempt EXCEPT ![s] = [at |-> "opening", account |-> account]]
    BY <1>7 DEF ReadOpens
  <2>2. BrokerInv' /\ own' = NoOwner /\ own'.slot = 0 /\ live' = {}
    BY <2>1, InvalidateSafe
  <2>3. attempt \in [Slots -> Attempt]
    BY TwoHalves DEF SafeInv, AttemptsTyped
  <2>4. OpeningIsCurrent'
    BY <1>0, <2>1, <2>2, <2>3 DEF OpeningIsCurrent
  <2>5. BrokerFollowsAccount'
    BY <2>2 DEF BrokerFollowsAccount
  <2> QED
    BY <1>0, <2>2, <2>4, <2>5
<1> QED
  BY <1>1, <1>4, <1>5, <1>6, <1>7 DEF ReadContext

LEMMA OpenSafe ==
    ASSUME SafeInv, NEW s \in Slots, BrokerOpens(s)
    PROVE  OpeningIsCurrent' /\ BrokerInv' /\ Forgotten' /\ BrokerFollowsAccount'
<1>0. /\ UNCHANGED account /\ Forgotten' /\ End(s, "settled")
      /\ attempt[s].at = "opening"
  BY ForgottenKept DEF BrokerOpens
<1>1. CASE current = s
  <2> DEFINE a == attempt[s].account
  <2>1. /\ own' = [slot |-> s, account |-> a] /\ live' = live \cup {s} /\ linked' = TRUE
        /\ flight' \in LoopOver(PendingFor(a), {})
    BY <1>1 DEF BrokerOpens
  <2>2. own.slot = 0 /\ a = account
    BY <1>0, <1>1 DEF SafeInv, OpeningIsCurrent
  <2>3. live = {}
    BY <2>2 DEF SafeInv, BrokerInv, OneBroker
  <2>4. PendingFor(a) \in SUBSET Devices /\ \A d \in PendingFor(a) : AccountOf[d] = a
    BY TwoHalves DEF SafeInv, RestTyped, PendingFor
  <2>5. /\ flight'.direct = {} /\ flight'.left \subseteq PendingFor(a)
        /\ flight'.at \in PendingFor(a) \cup {NoDevice}
    BY <2>1, <2>4, LoopTypes
  <2>6. own'.slot = s /\ own'.account = a /\ s # 0
    BY <2>1 DEF Slots
  <2>7. BrokerInv'
    BY <2>1, <2>3, <2>4, <2>5, <2>6 DEF BrokerInv, OneBroker, FlightOwned, InFlight
  <2>8. OpeningIsCurrent'
    BY <1>0, <1>1, EndSafe
  <2>9. BrokerFollowsAccount'
    BY <1>0, <1>1, <2>2, <2>6 DEF BrokerFollowsAccount, End
  <2> QED
    BY <1>0, <2>7, <2>8, <2>9
<1>2. CASE current # s
  <2>1. UNCHANGED brokerVars
    BY <1>2 DEF BrokerOpens
  <2>2. OpeningIsCurrent'
    BY <1>0, <2>1, EndSafe DEF brokerVars
  <2>3. BrokerInv'
    BY <2>1, BrokerKept DEF brokerVars
  <2>4. BrokerFollowsAccount'
    BY <1>0, <1>2, <2>1, AccountKept DEF End, brokerVars
  <2> QED
    BY <1>0, <2>2, <2>3, <2>4
<1> QED
  BY <1>1, <1>2

LEMMA RevokeSafe ==
    ASSUME SafeInv, NEW d \in Devices, RevokeDevice(d)
    PROVE  OpeningIsCurrent' /\ BrokerInv' /\ Forgotten' /\ BrokerFollowsAccount'
<1>1. OpeningIsCurrent' /\ BrokerFollowsAccount'
  BY ReconcileSafe DEF RevokeDevice
<1>2. Forgotten'
  BY DEF RevokeDevice, SafeInv, Forgotten
<1>3. flight \in Flight
  BY TwoHalves DEF SafeInv, RestTyped
<1>4. CASE own.slot # 0 /\ own.account = AccountOf[d] /\ linked
  <2>1. flight' = [flight EXCEPT !.direct = @ \cup {d}] /\ UNCHANGED <<own, live, linked>>
    BY <1>4 DEF RevokeDevice
  <2>2. flight'.left = flight.left /\ InFlight' = InFlight \cup {d}
    BY <1>3, <2>1, SessionAssumption DEF Flight, InFlight
  <2>3. BrokerInv'
    BY <1>4, <2>1, <2>2 DEF BrokerInv, OneBroker, FlightOwned, SafeInv
  <2> QED
    BY <1>1, <1>2, <2>3
<1>5. CASE ~(own.slot # 0 /\ own.account = AccountOf[d] /\ linked)
  <2>1. UNCHANGED <<own, live, linked, flight>>
    BY <1>5 DEF RevokeDevice
  <2> QED
    BY <1>1, <1>2, <2>1, BrokerKept
<1> QED
  BY <1>4, <1>5

LEMMA NextSafe == SafeInv /\ [Next]_vars => SafeInv'
<1> SUFFICES ASSUME SafeInv, [Next]_vars
             PROVE  OpeningIsCurrent' /\ BrokerInv' /\ Forgotten' /\ BrokerFollowsAccount'
  BY NextTypes DEF SafeInv
<1> DEFINE Kept == OpeningIsCurrent' /\ BrokerInv' /\ Forgotten' /\ BrokerFollowsAccount'
<1>1. ASSUME NEW s \in Slots, ReadContext(s) PROVE Kept
  BY <1>1, ReadSafe
<1>2. ASSUME NEW s \in Slots, AttemptFails(s) PROVE Kept
  <2>1. /\ End(s, "failed") /\ UNCHANGED brokerVars
        /\ UNCHANGED <<account, outbox, paired, revoked>>
    BY <1>2 DEF AttemptFails
  <2>2. OpeningIsCurrent'
    BY <2>1, EndSafe DEF brokerVars
  <2>3. BrokerInv' /\ Forgotten'
    BY <2>1, BrokerKept, ForgottenKept DEF brokerVars
  <2>4. BrokerFollowsAccount'
    BY <2>1 DEF SafeInv, BrokerFollowsAccount, End, brokerVars
  <2> QED
    BY <2>2, <2>3, <2>4
<1>3. ASSUME NEW s \in Slots, BrokerOpens(s) PROVE Kept
  BY <1>3, OpenSafe
<1>4. CASE Fence
  <2>1. own' = NoOwner /\ own'.slot = 0 /\ live' = {} /\ BrokerInv'
    BY <1>4, InvalidateSafe DEF Fence
  <2>2. OpeningIsCurrent'
    BY <1>4 DEF Fence, OpeningIsCurrent, Slots
  <2>3. BrokerFollowsAccount' /\ Forgotten'
    BY <1>4, <2>1, ForgottenKept DEF Fence, BrokerFollowsAccount
  <2> QED
    BY <2>1, <2>2, <2>3
<1>5. CASE LingerFires
  <2>1. InvalidateOwnership \/ UNCHANGED brokerVars
    BY <1>5 DEF LingerFires
  <2>2. /\ UNCHANGED <<account, attempt, current, epoch, outbox, paired, revoked>>
    BY <1>5 DEF LingerFires, reconcileVars
  <2>3. CASE InvalidateOwnership
    <3>1. own' = NoOwner /\ own'.slot = 0 /\ live' = {} /\ BrokerInv'
      BY <2>3, InvalidateSafe
    <3>2. OpeningIsCurrent' /\ Forgotten'
      BY <2>2, <3>1, AttemptsLeftAlone, ForgottenKept
    <3>3. BrokerFollowsAccount'
      BY <3>1 DEF BrokerFollowsAccount
    <3> QED
      BY <3>1, <3>2, <3>3
  <2>4. CASE UNCHANGED brokerVars
    BY <2>2, <2>4, BrokerKept, AttemptsLeftAlone, ForgottenKept, AccountKept DEF brokerVars
  <2> QED
    BY <2>1, <2>3, <2>4
<1>6. CASE ControlLost
  <2>1. /\ FailRequests /\ UNCHANGED <<own, live>>
        /\ UNCHANGED <<account, attempt, current, epoch, outbox, paired, revoked>>
    BY <1>6 DEF ControlLost, reconcileVars
  <2> QED
    BY <2>1, FailSafe, AttemptsLeftAlone, ForgottenKept, AccountKept
<1>7. CASE ControlBack
  <2>1. /\ own.slot \in live /\ linked' = TRUE /\ UNCHANGED <<own, live, flight>>
        /\ UNCHANGED <<account, attempt, current, epoch, outbox, paired, revoked>>
    BY <1>7 DEF ControlBack, reconcileVars
  <2>2. BrokerInv'
    BY <2>1 DEF SafeInv, BrokerInv, OneBroker, FlightOwned, InFlight
  <2> QED
    BY <2>1, <2>2, AttemptsLeftAlone, ForgottenKept, AccountKept
<1>8. CASE Refresh
  <2>1. /\ UNCHANGED <<account, attempt, current, epoch, outbox, paired, revoked>>
        /\ UNCHANGED own
        /\ \/ UNCHANGED <<live, linked, flight>>
           \/ FailRequests /\ live' = live \ {own.slot}
    BY <1>8 DEF Refresh, RefreshStarts, RefreshReads, RefreshFails, CloseBroker,
       reconcileVars
  <2>2. BrokerInv' /\ live' \subseteq live
    BY <2>1, BrokerKept, FailSafe
  <2> QED
    BY <2>1, <2>2, AttemptsLeftAlone, ForgottenKept, AccountKept
<1>9. CASE Restart
  <2>1. own'.slot = 0 /\ live' = {} /\ linked' = FALSE /\ InFlight' = {}
        /\ flight'.left = {}
    BY <1>9 DEF Restart, NoOwner, NoFlight, InFlight
  <2>2. BrokerInv'
    BY <2>1 DEF BrokerInv, OneBroker, FlightOwned
  <2>3. attempt'[1].at = "reading" /\ current' = 1 /\ epoch' = "running"
    BY <1>9, SessionAssumption DEF Restart, FirstRead, Idle, Slots
  <2>4. OpeningIsCurrent' /\ BrokerFollowsAccount'
    BY <2>3 DEF OpeningIsCurrent, BrokerFollowsAccount
  <2> QED
    BY <1>9, <2>2, <2>4, ForgottenKept DEF Restart
<1>10. ASSUME NEW a \in Accounts \cup {NoAccount}, AuthMutates(a) PROVE Kept
  BY <1>10, ReconcileSafe, BrokerKept, ForgottenKept DEF AuthMutates
<1>11. ASSUME NEW c \in Calls, CallStarts(c) PROVE Kept
  BY <1>11, ReconcileSafe, BrokerKept, ForgottenKept DEF CallStarts
<1>12. ASSUME NEW c \in Calls, CallEnds(c) PROVE Kept
  BY <1>12, ReconcileSafe, BrokerKept, ForgottenKept DEF CallEnds
<1>13. ASSUME NEW d \in Devices, RevokeDevice(d) PROVE Kept
  BY <1>13, RevokeSafe
<1>14. ASSUME NEW d \in Devices, RelayHandles(d) PROVE Kept
  <2>1. /\ UNCHANGED <<account, attempt, current, epoch>> /\ UNCHANGED brokerVars
        /\ Forgotten'
    BY <1>14 DEF RelayHandles, reconcileVars, SafeInv, Forgotten
  <2> QED
    BY <2>1, BrokerKept, AttemptsLeftAlone, AccountKept DEF brokerVars
<1>15. ASSUME NEW d \in Devices, AckArrives(d) PROVE Kept
  <2>1. /\ d \in revoked /\ Answered(d) /\ Reconcile /\ outbox' = outbox \ {d}
        /\ UNCHANGED <<own, live, linked, paired, revoked>>
    BY <1>15 DEF AckArrives
  <2>2. Forgotten'
    BY <2>1 DEF SafeInv, Forgotten
  <2> QED
    BY <2>1, <2>2, ReconcileSafe, AnsweredSafe
<1>16. ASSUME NEW d \in Devices, RevokeTimesOut(d) PROVE Kept
  <2>1. /\ Answered(d) /\ UNCHANGED <<own, live, linked, outbox, paired, revoked>>
        /\ UNCHANGED <<account, attempt, current, epoch>>
    BY <1>16 DEF RevokeTimesOut, reconcileVars
  <2> QED
    BY <2>1, AnsweredSafe, AttemptsLeftAlone, ForgottenKept, AccountKept
<1>17. CASE UNCHANGED vars
  BY <1>17, BrokerKept, AttemptsLeftAlone, ForgottenKept, AccountKept
     DEF vars, reconcileVars, brokerVars
<1> QED
  BY <1>1, <1>2, <1>3, <1>4, <1>5, <1>6, <1>7, <1>8, <1>9, <1>10, <1>11, <1>12, <1>13,
     <1>14, <1>15, <1>16, <1>17 DEF Next

\* However reconciles, calls, account changes and the linger timer interleave, only the
\* owned broker holds connections: one that opened for a superseded reconcile is closed
\* (relay-auth-coordinator.ts), and requests are outstanding on its active control only.
THEOREM OnlyOneBroker == Spec => []OneBroker
<1>1. SafeInv => OneBroker
  BY DEF SafeInv, BrokerInv
<1> QED
  BY <1>1, InitSafe, NextSafe, PTL DEF Spec

\* Once the newest reconcile is over and did not fail, no broker of an account that is not
\* signed in remains; after a fence there is none at all.
THEOREM NoForeignBroker == Spec => []BrokerFollowsAccount
<1>1. SafeInv => BrokerFollowsAccount
  BY DEF SafeInv
<1> QED
  BY <1>1, InitSafe, NextSafe, PTL DEF Spec

\* No revocation is lost: a forgotten phone is in the outbox or revoked.  And none is sent
\* over another account's broker.
THEOREM NoRevocationLost == Spec => []RevokedByOwner
<1>1. SafeInv => RevokedByOwner
  BY DEF SafeInv, BrokerInv, FlightOwned, Forgotten, RevokedByOwner
<1> QED
  BY <1>1, InitSafe, NextSafe, PTL DEF Spec

=============================================================================
