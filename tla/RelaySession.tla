---------------------------- MODULE RelaySession -----------------------------
(***************************************************************************)
(* The desktop's session with the mobile relay.  RelayAuthCoordinator      *)
(* keeps at most one broker, for the signed-in account, while something    *)
(* demands it: a paired phone, a pairing call under way, or a revocation   *)
(* that waits in the persisted outbox.  Every change of demand or account  *)
(* starts a new reconcile and makes the earlier ones stale.  The broker    *)
(* owns a pool of control connections, refreshes its token, and sends the  *)
(* revocations; an item leaves the outbox only when it was acknowledged.   *)
(*                                                                         *)
(* The code numbers its reconciles (authEpoch) and only compares numbers   *)
(* for equality; here a reconcile and the broker it opens are a slot,      *)
(* reused when nothing refers to it any more.                              *)
(***************************************************************************)
EXTENDS Naturals, FiniteSets

CONSTANTS
    Accounts, NoAccount,
    Devices, NoDevice,  \* phones paired with this desktop
    AccountOf,          \* the account a phone's relay binding belongs to
    Calls,              \* pairing and endpoint calls
    MaxAttempts,        \* bound: reconciles and brokers that exist at once
    MaxMutations,       \* bound: sign-ins, sign-outs and switches
    MaxRestarts         \* bound: restarts of the desktop

ASSUME SessionAssumption ==
    /\ NoAccount \notin Accounts /\ NoDevice \notin Devices
    /\ AccountOf \in [Devices -> Accounts]
    /\ {MaxAttempts, MaxMutations, MaxRestarts} \subseteq Nat
    /\ MaxAttempts > 1

VARIABLES
    account,    \* what readContext would return: the entitled account, if any
    attempt,    \* slot -> the reconcile that runs there
    current,    \* the slot that reconciles the current epoch, 0 when none does
    epoch,      \* what became of the current epoch
    latest,     \* the slot of latestReconcile, 0 when it is over
    own,        \* ownership: the slot of the broker and its account
    live,       \* slots whose broker holds connections
    linked,     \* the owned broker has an active control
    flight,     \* revocations that the owned broker sends
    tried,      \* revocations requested of the owned broker
    refresh,    \* where its token refresh is
    linger,     \* the linger timer runs
    outbox,     \* the persisted outbox
    paired,     \* the phones in the device registry
    revoked,    \* the phones that the relay has revoked
    call,       \* a call -> where it is
    mutations, restarts     \* counters of the bounds

counters == <<mutations, restarts>>
brokerVars == <<own, live, linked, flight, tried, refresh>>
reconcileVars == <<attempt, current, epoch, latest>>
vars == <<account, reconcileVars, brokerVars, linger, outbox, paired, revoked, call, counters>>

Slots == 1 .. MaxAttempts
Owner == [slot : {0} \cup Slots, account : Accounts \cup {NoAccount}]
NoOwner == [slot |-> 0, account |-> NoAccount]

\* The outbox loop of the broker (what is left of it and the item it awaits) and the
\* items that were sent when they were queued.
Flight == [left : SUBSET Devices, at : Devices \cup {NoDevice}, direct : SUBSET Devices]
NoFlight == [left |-> {}, at |-> NoDevice, direct |-> {}]

InFlight == flight.direct \cup ({flight.at} \ {NoDevice})

TypeOK ==
    /\ account \in Accounts \cup {NoAccount}
    /\ attempt \in [Slots -> [at : {"free", "reading", "opening"},
                              account : Accounts \cup {NoAccount}]]
    /\ current \in {0} \cup Slots /\ latest \in {0} \cup Slots
    /\ epoch \in {"running", "settled", "failed", "fenced"}
    /\ own \in Owner /\ live \subseteq Slots /\ linked \in BOOLEAN
    /\ flight \in Flight /\ tried \subseteq Devices
    /\ refresh \in {"armed", "reading", "stale"}
    /\ linger \in BOOLEAN
    /\ outbox \subseteq Devices /\ paired \subseteq Devices /\ revoked \subseteq Devices
    /\ call \in [Calls -> [pc : {"idle", "waiting", "working", "done"},
                           on : {0} \cup Slots]]
    /\ \A c \in Calls : call[c].pc = "waiting" =>
           call[c].on # 0 /\ attempt[call[c].on].at # "free"
    /\ mutations \in 0 .. MaxMutations /\ restarts \in 0 .. MaxRestarts

Idle == [at |-> "free", account |-> NoAccount]
FirstRead == [s \in Slots |-> IF s = 1 THEN [Idle EXCEPT !.at = "reading"] ELSE Idle]

\* start() has begun the first reconcile.
Init ==
    /\ account \in Accounts \cup {NoAccount}
    /\ attempt = FirstRead /\ current = 1 /\ epoch = "running" /\ latest = 1
    /\ own = NoOwner /\ live = {} /\ linked = FALSE
    /\ flight = NoFlight /\ tried = {} /\ refresh = "armed"
    /\ linger = FALSE
    /\ outbox = {} /\ paired = Devices /\ revoked = {}
    /\ call = [c \in Calls |-> [pc |-> "idle", on |-> 0]]
    /\ mutations = 0 /\ restarts = 0

-----------------------------------------------------------------------------
(* Demand, epochs and ownership.                                           *)

\* Mutant of HasDemand: a pending revocation is no demand.
HasDemandOfPhones(a) ==
    \/ \E c \in Calls : call[c].pc \in {"waiting", "working"}
    \/ \E d \in paired : AccountOf[d] = a

HasDemand(a) ==
    \/ \E c \in Calls : call[c].pc \in {"waiting", "working"}
    \/ \E d \in outbox \cup paired : AccountOf[d] = a

Free == {s \in Slots : attempt[s].at = "free" /\ s # own.slot}

\* reconcile(): the new attempt reads its context; a token refresh that reads its own
\* will find that the epoch has passed.
Reconcile ==
    \E s \in Free :
        /\ \A t \in Free : s =< t
        /\ attempt' = [attempt EXCEPT ![s] = [Idle EXCEPT !.at = "reading"]]
        /\ current' = s /\ epoch' = "running" /\ latest' = s

Staled == IF refresh = "reading" THEN "stale" ELSE refresh

\* invalidateOwnership(): the broker is closed, and its requests with it.
InvalidateOwnership ==
    /\ own' = NoOwner /\ live' = live \ {own.slot} /\ linked' = FALSE
    /\ flight' = NoFlight /\ tried' = {} /\ refresh' = "armed"

\* Mutant of Finish: a call only goes on with a broker.
FinishWithBroker(s, o) ==
    call' = [c \in Calls |->
        IF call[c].pc = "waiting" /\ call[c].on = s /\ o # 0 THEN [pc |-> "working", on |-> 0]
        ELSE call[c]]

\* The attempt s has ended, leaving the broker of slot o: the calls that awaited it wait
\* for a newer one if there is no broker, or go on, with the broker or with an error.
Finish(s, o) ==
    call' = [c \in Calls |->
        IF call[c].pc # "waiting" \/ call[c].on # s THEN call[c]
        ELSE IF o = 0 /\ latest \notin {0, s} THEN [call[c] EXCEPT !.on = latest]
        ELSE [pc |-> "working", on |-> 0]]

End(s, outcome) ==
    /\ attempt' = [attempt EXCEPT ![s] = Idle]
    /\ epoch' = IF current = s THEN outcome ELSE epoch
    /\ current' = IF current = s THEN 0 ELSE current
    /\ latest' = IF latest = s THEN 0 ELSE latest

-----------------------------------------------------------------------------
(* One reconcile: read the context, then open a broker if it is wanted.    *)

ReadStale(s) ==
    /\ current # s
    /\ End(s, "settled") /\ Finish(s, own.slot)
    /\ UNCHANGED <<brokerVars, linger>>

ReadSignedOut(s) ==
    /\ current = s /\ account = NoAccount
    /\ linger' = FALSE /\ InvalidateOwnership
    /\ End(s, "settled") /\ Finish(s, 0)

ReadNoDemand(s) ==
    /\ current = s /\ account # NoAccount /\ ~HasDemand(account)
    /\ End(s, "settled")
    /\ \/ /\ own.slot # 0 /\ own.account # account
          /\ linger' = FALSE /\ InvalidateOwnership /\ Finish(s, 0)
       \/ /\ own.slot # 0 /\ own.account = account
          /\ linger' = TRUE /\ Finish(s, own.slot)
          /\ UNCHANGED brokerVars
       \/ /\ own.slot = 0 /\ Finish(s, 0)
          /\ UNCHANGED <<brokerVars, linger>>

\* Mutant of ReadSameAccount: any broker will do, whatever its account.
ReadAnyAccount(s) ==
    /\ current = s /\ account # NoAccount /\ HasDemand(account) /\ own.slot # 0
    /\ linger' = FALSE
    /\ End(s, "settled") /\ Finish(s, own.slot)
    /\ UNCHANGED brokerVars

ReadSameAccount(s) ==
    /\ current = s /\ account # NoAccount /\ HasDemand(account)
    /\ own.slot # 0 /\ own.account = account
    /\ linger' = FALSE
    /\ End(s, "settled") /\ Finish(s, own.slot)
    /\ UNCHANGED brokerVars

ReadOpens(s) ==
    /\ current = s /\ account # NoAccount /\ HasDemand(account)
    /\ own.slot = 0 \/ own.account # account
    /\ linger' = FALSE /\ InvalidateOwnership
    /\ attempt' = [attempt EXCEPT ![s] = [at |-> "opening", account |-> account]]
    /\ UNCHANGED <<current, epoch, latest, call>>

ReadContext(s) ==
    /\ attempt[s].at = "reading"
    /\ \/ ReadStale(s) \/ ReadSignedOut(s) \/ ReadNoDemand(s) \/ ReadSameAccount(s)
       \/ ReadOpens(s)
    /\ UNCHANGED <<account, outbox, paired, revoked, counters>>

\* readContext or openBroker rejects.
AttemptFails(s) ==
    /\ attempt[s].at \in {"reading", "opening"}
    /\ End(s, "failed") /\ Finish(s, own.slot)
    /\ UNCHANGED <<account, brokerVars, linger, outbox, paired, revoked, counters>>

\* The requests after the loop took its next item, if any is left.
LoopOver(left, direct) ==
    {[left |-> left \ {d}, at |-> d, direct |-> direct] : d \in left}
    \cup (IF left = {} THEN {[NoFlight EXCEPT !.direct = direct]} ELSE {})

PendingFor(a) == {d \in outbox : AccountOf[d] = a}

\* Mutant of BrokerOpens: a broker that opened for a superseded reconcile is not closed.
BrokerOpensUnfenced(s) ==
    /\ attempt[s].at = "opening"
    /\ End(s, "settled")
    /\ own' = [slot |-> s, account |-> attempt[s].account]
    /\ live' = live \cup {s} /\ linked' = TRUE
    /\ flight' \in LoopOver(PendingFor(attempt[s].account), {})
    /\ tried' = {flight'.at} \ {NoDevice}
    /\ refresh' = "armed" /\ Finish(s, s)
    /\ UNCHANGED <<account, linger, outbox, paired, revoked, counters>>

\* The broker is connected.  If no newer epoch began it is owned, and starts to flush
\* the outbox; if one did, it closes itself.
BrokerOpens(s) ==
    /\ attempt[s].at = "opening"
    /\ End(s, "settled")
    /\ IF current = s
       THEN /\ own' = [slot |-> s, account |-> attempt[s].account]
            /\ live' = live \cup {s} /\ linked' = TRUE
            /\ flight' \in LoopOver(PendingFor(attempt[s].account), {})
            /\ tried' = {flight'.at} \ {NoDevice}
            /\ refresh' = "armed"
            /\ Finish(s, s)
       ELSE /\ Finish(s, own.slot)
            /\ UNCHANGED brokerVars
    /\ UNCHANGED <<account, linger, outbox, paired, revoked, counters>>

-----------------------------------------------------------------------------
(* Accounts, demand and the linger timer.                                  *)

\* fenceAndCloseNow(): before a sign-out, a relaunch or a quit.
Fence ==
    /\ current' = 0 /\ epoch' = "fenced" /\ linger' = FALSE
    /\ InvalidateOwnership
    /\ UNCHANGED <<account, attempt, latest, outbox, paired, revoked, call, counters>>

AuthMutates(a) ==
    /\ a # account /\ mutations < MaxMutations
    /\ account' = a /\ mutations' = mutations + 1
    /\ Reconcile /\ refresh' = Staled
    /\ UNCHANGED <<own, live, linked, flight, tried, linger, outbox, paired, revoked, call,
                   restarts>>

LingerFires ==
    /\ linger /\ linger' = FALSE
    /\ IF HasDemand(own.account)
       THEN UNCHANGED brokerVars
       ELSE InvalidateOwnership
    /\ UNCHANGED <<account, reconcileVars, outbox, paired, revoked, call, counters>>

\* withTransientDemand(): the call holds a reference, and uses the broker there is or
\* waits for the reconcile that it started.
CallStarts(c) ==
    /\ call[c].pc = "idle"
    /\ Reconcile /\ refresh' = Staled
    /\ call' = [call EXCEPT ![c] = IF own.slot # 0 THEN [pc |-> "working", on |-> 0]
                                   ELSE [pc |-> "waiting", on |-> latest']]
    /\ UNCHANGED <<account, own, live, linked, flight, tried, linger, outbox, paired,
                   revoked, counters>>

CallEnds(c) ==
    /\ call[c].pc = "working"
    /\ call' = [call EXCEPT ![c].pc = "done"]
    /\ Reconcile /\ refresh' = Staled
    /\ UNCHANGED <<account, own, live, linked, flight, tried, linger, outbox, paired,
                   revoked, counters>>

-----------------------------------------------------------------------------
(* Revocations.                                                            *)

\* revokeMobileDevice(): the item is saved before the phone is forgotten, and is sent
\* at once if the broker of its account has a control.
RevokeDevice(d) ==
    LET owned == own.slot # 0 /\ own.account = AccountOf[d] IN
    /\ d \in paired
    /\ outbox' = outbox \cup {d} /\ paired' = paired \ {d}
    /\ tried' = IF owned THEN tried \cup {d} ELSE tried
    /\ flight' = IF owned /\ linked THEN [flight EXCEPT !.direct = @ \cup {d}] ELSE flight
    /\ Reconcile /\ refresh' = Staled
    /\ UNCHANGED <<account, own, live, linked, linger, revoked, call, counters>>

\* The relay revokes the phone; its answer is still under way.
RelayHandles(d) ==
    /\ d \in InFlight \ revoked
    /\ revoked' = revoked \cup {d}
    /\ UNCHANGED <<account, reconcileVars, brokerVars, linger, outbox,
                   paired, call, counters>>

\* The request for d is over: the loop goes on with the next item if it awaited d.
Answered(d) ==
    /\ d \in InFlight
    /\ flight' \in IF flight.at = d THEN LoopOver(flight.left, flight.direct)
                   ELSE {[flight EXCEPT !.direct = @ \ {d}]}
    /\ tried' = tried \cup (flight.left \ flight'.left)

\* Mutant of AckArrives: the demand is not looked at again when an item is gone.
AckArrivesQuietly(d) ==
    /\ d \in revoked /\ Answered(d)
    /\ outbox' = outbox \ {d}
    /\ UNCHANGED <<account, reconcileVars, own, live, linked, refresh, linger, paired,
                   revoked, call, counters>>

AckArrives(d) ==
    /\ d \in revoked /\ Answered(d)
    /\ outbox' = outbox \ {d}
    /\ Reconcile /\ refresh' = Staled
    /\ UNCHANGED <<account, own, live, linked, linger, paired, revoked, call, counters>>

\* Mutant of RevokeTimesOut: the item is dropped whatever the outcome.
RevokeGivenUp(d) ==
    /\ Answered(d) /\ outbox' = outbox \ {d}
    /\ UNCHANGED <<account, reconcileVars, own, live, linked, refresh, linger,
                   paired, revoked, call, counters>>

\* No answer in 10 s, or an error: the item stays in the outbox.
RevokeTimesOut(d) ==
    /\ Answered(d)
    /\ UNCHANGED <<account, reconcileVars, own, live, linked, refresh, linger,
                   outbox, paired, revoked, call, counters>>

-----------------------------------------------------------------------------
(* The owned broker: its control and its token.                            *)

\* Every request on the control fails; the loop then fails what is left of it.
FailRequests ==
    /\ linked' = FALSE /\ flight' = NoFlight /\ tried' = tried \cup flight.left

\* The broker closes itself.  The coordinator is not told: it keeps the ownership.
CloseBroker ==
    /\ FailRequests /\ live' = live \ {own.slot}
    /\ refresh' = "armed" /\ UNCHANGED own

\* The active control closes, or is closed after a message it did not expect.
ControlLost ==
    /\ linked /\ FailRequests
    /\ UNCHANGED <<account, reconcileVars, own, live, refresh, linger, outbox,
                   paired, revoked, call, counters>>

ControlBack ==
    /\ own.slot \in live /\ ~linked
    /\ linked' = TRUE
    /\ UNCHANGED <<account, reconcileVars, own, live, flight, tried, refresh,
                   linger, outbox, paired, revoked, call, counters>>

RefreshStarts ==
    /\ own.slot \in live /\ refresh = "armed" /\ refresh' = "reading"
    /\ UNCHANGED <<own, live, linked, flight, tried>>

\* refreshAccessToken() answers null to a read that another reconcile overtook.  The
\* exchange of the token that follows a good read may fail as the read may.
RefreshReads ==
    \/ /\ refresh = "reading" /\ account = own.account
       /\ refresh' = "armed"
       /\ UNCHANGED <<own, live, linked, flight, tried>>
    \/ /\ refresh = "stale" /\ CloseBroker

\* It is tried again, until a minute after the token has expired.
RefreshFails ==
    /\ refresh \in {"reading", "stale"}
    /\ \/ refresh' = "armed" /\ UNCHANGED <<own, live, linked, flight, tried>>
       \/ CloseBroker

Refresh ==
    /\ RefreshStarts \/ RefreshReads \/ RefreshFails
    /\ UNCHANGED <<account, reconcileVars, linger, outbox, paired, revoked, call,
                   counters>>

-----------------------------------------------------------------------------

\* The desktop stops and starts again: only what was saved remains.
Restart ==
    /\ restarts < MaxRestarts /\ restarts' = restarts + 1
    /\ attempt' = FirstRead /\ current' = 1 /\ epoch' = "running" /\ latest' = 1
    /\ own' = NoOwner /\ live' = {} /\ linked' = FALSE
    /\ flight' = NoFlight /\ tried' = {} /\ refresh' = "armed"
    /\ linger' = FALSE
    /\ call' = [c \in Calls |-> IF call[c].pc = "idle" THEN call[c]
                                ELSE [pc |-> "done", on |-> 0]]
    /\ UNCHANGED <<account, outbox, paired, revoked, mutations>>

Next ==
    \/ \E s \in Slots : ReadContext(s) \/ AttemptFails(s) \/ BrokerOpens(s)
    \/ Fence \/ LingerFires \/ ControlLost \/ ControlBack \/ Refresh \/ Restart
    \/ \E a \in Accounts \cup {NoAccount} : AuthMutates(a)
    \/ \E c \in Calls : CallStarts(c) \/ CallEnds(c)
    \/ \E d \in Devices : \/ RevokeDevice(d) \/ RelayHandles(d)
                          \/ AckArrives(d) \/ RevokeTimesOut(d)

Spec == Init /\ [][Next]_vars

\* Reads, connections and calls end; requests and the linger timer have deadlines.
Fairness ==
    /\ \A s \in Slots : WF_vars(ReadContext(s) \/ BrokerOpens(s) \/ AttemptFails(s))
    /\ \A d \in Devices : WF_vars(AckArrives(d) \/ RevokeTimesOut(d))
    /\ \A c \in Calls : WF_vars(CallEnds(c))
    /\ WF_vars(LingerFires)

FairSpec == Spec /\ Fairness

-----------------------------------------------------------------------------
(* Properties.                                                             *)

\* At most one broker holds connections, the one that the coordinator owns: a broker
\* that opened for a superseded reconcile never stays open beside it, and requests are
\* only outstanding on its active control.
OneBroker ==
    /\ live \subseteq {own.slot} \ {0}
    /\ linked => own.slot \in live
    /\ InFlight # {} => linked

\* Once the newest reconcile is over (and did not fail), no broker of another account
\* than the signed-in one remains, and a fence leaves none until the next reconcile,
\* whatever was reading, connecting or refreshing when the account changed.
BrokerFollowsAccount ==
    /\ epoch = "fenced" => own = NoOwner /\ live = {}
    /\ epoch = "settled" => own.slot = 0 \/ own.account = account

\* A phone that was forgotten is either still in the outbox or was revoked by the
\* relay, across lost controls, timeouts and restarts; and a revocation is only sent
\* over a broker of the account that the phone was bound to.
RevokedByOwner ==
    /\ Devices \ paired \subseteq outbox \cup revoked
    /\ \A d \in InFlight : own.account = AccountOf[d]

Superseded(d) ==
    d \notin outbox \/ account # AccountOf[d] \/ epoch \in {"fenced", "failed"}

\* A queued revocation is requested of a broker of its account while that account stays
\* signed in, unless the newest reconcile failed: the pending item is demand enough.
RevocationIsTried ==
    \A d \in Devices : d \in outbox /\ account = AccountOf[d] ~> d \in tried \/ Superseded(d)

\* A broker that nothing demands any more is closed by the linger timer, unless the
\* reconcile that should have started the timer failed.
Unwanted == own.slot # 0 /\ ~HasDemand(own.account)
UnwantedBrokerCloses == Unwanted ~> ~Unwanted \/ epoch = "failed"

=============================================================================
