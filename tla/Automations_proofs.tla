-------------------------- MODULE Automations_proofs --------------------------
(***************************************************************************)
(* Proofs about automations: the types, that an agent is launched for a    *)
(* run at most once in a life of the process, and that retention keeps the *)
(* row of a run whose agent works, for any automations, occurrences, runs, *)
(* passes and crashes.                                                     *)
(***************************************************************************)
EXTENDS Automations, WellFoundedInduction, TLAPS

-----------------------------------------------------------------------------
(* Occurrences.                                                            *)

LEMMA Numbers ==
    /\ MaxTime \in Nat /\ MaxCrashes \in Nat /\ MaxManual \in Nat /\ MaxRuns \in Nat
    /\ Grace \in Nat /\ Occurrences \subseteq 1 .. MaxTime /\ Occurrences \subseteq Nat
BY AutomationsAssumption

LEMMA OccurrenceRange ==
    /\ \A o \in Occurrences : o \in 1 .. MaxTime /\ o \in Nat /\ o =< MaxTime
    /\ \A o \in Occurrences \cup {MaxTime + 1} : o \in 0 .. MaxTime + 1 /\ o \in Nat /\ o # 0
<1>1. \A o \in Occurrences : o \in 1 .. MaxTime /\ o \in Nat /\ o =< MaxTime /\ o # 0
  BY Numbers
<1> QED
  BY <1>1, Numbers

LEMMA Least ==
    ASSUME NEW S \in SUBSET Nat, S # {}
    PROVE  \E n \in S : \A m \in S : n =< m
<1> DEFINE R == OpToRel(<, Nat)
<1>1. IsWellFoundedOn(R, Nat)
  BY NatLessThanWellFounded
<1>2. \A x, y \in Nat : x < y => <<x, y>> \in R
  BY DEF OpToRel
<1> HIDE DEF R
<1>3. PICK n \in S : \A m \in S : <<m, n>> \notin R
  BY <1>1, WFMin
<1>4. \A m \in S : m \in Nat /\ n \in Nat /\ ~(m < n)
  BY <1>2, <1>3
<1>5. \A m \in S : n =< m
  BY <1>4
<1> QED
  BY <1>5

LEMMA Greatest ==
    ASSUME NEW t \in Nat, NEW S \in SUBSET (0 .. t), S # {}
    PROVE  \E n \in S : \A m \in S : m =< n
<1> DEFINE D == {t - m : m \in S}
<1>1. \A m \in S : m \in Nat /\ t - m \in Nat /\ t - m \in D
  OBVIOUS
<1>2. D \in SUBSET Nat /\ D # {}
  BY <1>1
<1> HIDE DEF D
<1>3. PICK d \in D : \A e \in D : d =< e
  BY <1>2, Least
<1>4. PICK n \in S : d = t - n
  BY DEF D
<1>5. ASSUME NEW m \in S PROVE m =< n
  <2>1. t - n =< t - m
    BY <1>1, <1>3, <1>4
  <2> QED
    BY <1>1, <2>1
<1> QED
  BY <1>5

\* latestAutomationOccurrenceAtOrBefore: none later has passed.
LEMMA LatestFound ==
    ASSUME NEW t \in 0 .. MaxTime, \E o \in Occurrences : o =< t
    PROVE  /\ LatestAtOrBefore(t) \in Occurrences /\ LatestAtOrBefore(t) =< t
           /\ \A q \in Occurrences : q =< t => q =< LatestAtOrBefore(t)
<1> DEFINE S == {o \in Occurrences : o =< t}
<1>0. t \in Nat /\ \A o \in Occurrences : o \in Nat
  BY Numbers
<1>1. S \in SUBSET (0 .. t) /\ S # {}
  BY <1>0
<1>2. PICK n \in S : \A m \in S : m =< n
  BY <1>0, <1>1, Greatest
<1>3. \E o \in Occurrences : o =< t /\ \A q \in Occurrences : q =< t => q =< o
  BY <1>2
<1> QED
  BY <1>3 DEF LatestAtOrBefore

LEMMA NextFound ==
    ASSUME NEW t \in 0 .. MaxTime
    PROVE  NextAfter(t) \in Occurrences \cup {MaxTime + 1} /\ NextAfter(t) > t
<1> DEFINE S == {o \in Occurrences : o > t}
<1>1. S \in SUBSET Nat
  BY Numbers
<1>2. CASE S = {}
  <2>1. NextAfter(t) = MaxTime + 1
    BY <1>2 DEF NextAfter
  <2> QED
    BY <2>1, Numbers
<1>3. CASE S # {}
  <2>1. PICK n \in S : \A m \in S : n =< m
    BY <1>1, <1>3, Least
  <2>2. \E o \in S : \A q \in S : o =< q
    BY <2>1
  <2>3. NextAfter(t) \in S
    BY <1>3, <2>2 DEF NextAfter
  <2> QED
    BY <2>3
<1> QED
  BY <1>2, <1>3

-----------------------------------------------------------------------------
(* The inductive invariant.                                                *)

Handling == {"dispatch", "awaits", "advance"}
Before == {"precheck", "sent", "create", "launch"}

\* A run that has been launched in this life of the process, or is on its way to be.
Committed(r) == launches[r] > crashes \/ token[r] # "none" \/ \E j \in jobs : j.run = r

Scalars ==
    /\ headless \in BOOLEAN /\ now \in 0 .. MaxTime /\ ready \in BOOLEAN
    /\ manual \in 0 .. MaxManual /\ crashes \in 0 .. MaxCrashes

AutoRow == [exists : BOOLEAN, enabled : BOOLEAN, next : 0 .. MaxTime + 1]
RunRow == [auto : Autos \cup {0}, at : {0} \cup Occurrences, status : Statuses]
PassRow == [pc : {"idle"} \cup {"going"} \cup Handling, todo : SUBSET Autos, since : 0 .. MaxTime,
            auto : {0} \cup Autos, run : {0} \cup Runs]

\* What the store holds: who owns a run, and when an automation runs next.
StoreInv ==
    /\ auto \in [Autos -> AutoRow] /\ run \in [Runs -> RunRow]
    /\ \A r \in Runs : Stored(r) => run[r].auto \in Autos
    /\ \A r \in Runs : run[r].status = "none" => launches[r] = 0 /\ ~Committed(r)
    /\ \A a \in Autos : auto[a].exists => auto[a].next \in Occurrences \cup {MaxTime + 1}

LaunchInv == launches \in [Runs -> Nat] /\ \A r \in Runs : launches[r] =< 1 + crashes

TokenInv ==
    /\ token \in [Runs -> {"none", "free", "used"}]
    /\ \A r \in Runs : token[r] # "none" /\ Stored(r) => run[r].status = "dispatching"
    /\ headless => ~ready /\ \A r \in Runs : token[r] = "none"

\* What a job relies on in the store, and in the process.
RowOK(x) ==
    /\ run[x.run].status # "none" /\ (Stored(x.run) => run[x.run].auto = x.auto)
    /\ x.pc \in Live /\ x.found # "final" /\ auto[x.auto].exists =>
           Stored(x.run) /\ run[x.run].status # "final"
    /\ ~headless /\ x.pc \in Live \ {"agent"} => run[x.run].status # "dispatched"
TurnOK(x) ==
    /\ x.pass # "none" =>
           /\ headless /\ x.pc \in {"precheck", "launch", "started"}
           /\ pass[x.pass].pc = "awaits" /\ pass[x.pass].run = x.run
    /\ x.pc \in Before => launches[x.run] =< crashes
JobInv ==
    /\ jobs \subseteq Job
    /\ \A x, y \in jobs : x.run = y.run => x = y
    /\ \A x \in jobs : RowOK(x) /\ TurnOK(x)

Concerns(w) == w.todo \cup (IF w.pc \in Handling THEN {w.auto} ELSE {})

PassOK(w) ==
    /\ w.pc = "idle" => w.todo = {}
    /\ w.todo # {} => \E o \in Occurrences : o =< w.since
    /\ \A a \in Concerns(w) : auto[a].exists => auto[a].next =< w.since
    /\ w.pc \in Handling =>
           /\ w.auto \in Autos \ w.todo /\ w.run \in Runs /\ run[w.run].status # "none"
           /\ Stored(w.run) =>
                  run[w.run].auto = w.auto /\ run[w.run].at \in Occurrences
                  /\ run[w.run].at =< w.since
    /\ w.pc = "dispatch" => Stored(w.run) /\ ~Committed(w.run)

PassInv ==
    /\ pass \in [Passes -> PassRow]
    /\ evaluating = (\E p \in Passes : pass[p].pc # "idle")
    /\ \A p, q \in Passes : p = q \/ pass[p].pc = "idle" \/ pass[q].pc = "idle"
    /\ \A p \in Passes : PassOK(pass[p])

\* A committed run of an occurrence is not found again: its automation has moved on, or
\* will by the pass that handles it, and a pass that has yet to come to it looks for a
\* later occurrence.
MovesOn(r) ==
    \/ auto[run[r].auto].next > run[r].at
    \/ \E p \in Passes : pass[p].run = r /\ pass[p].pc \in {"awaits", "advance"}
OnceInv ==
    \A r \in Runs : Committed(r) /\ Stored(r) /\ run[r].at # 0 =>
        /\ auto[run[r].auto].exists => MovesOn(r)
        /\ \A p \in Passes : run[r].auto \in pass[p].todo =>
               run[r].at < LatestAtOrBefore(pass[p].since)

Inv == /\ Scalars /\ StoreInv /\ LaunchInv /\ TokenInv /\ JobInv /\ PassInv /\ OnceInv

LEMMA InvTypes == Inv => TypeOK /\ LaunchedOnce /\ LiveRunKept
<1> SUFFICES ASSUME Inv PROVE TypeOK /\ LaunchedOnce /\ LiveRunKept
  OBVIOUS
<1>1. TypeOK
  BY DEF Inv, Scalars, StoreInv, LaunchInv, TokenInv, JobInv, PassInv, TypeOK, AutoRow,
     RunRow, PassRow, Handling
<1>2. LaunchedOnce
  BY DEF Inv, LaunchInv, LaunchedOnce
<1>3. LiveRunKept
  BY DEF Inv, JobInv, RowOK, LiveRunKept
<1> QED
  BY <1>1, <1>2, <1>3

LEMMA InitInv == Init => Inv
<1> SUFFICES ASSUME Init PROVE Inv
  OBVIOUS
<1>1. 0 \in 0 .. MaxTime /\ 0 \in 0 .. MaxManual /\ 0 \in 0 .. MaxCrashes
  BY Numbers
<1>2. Scalars
  BY <1>1 DEF Init, Scalars
<1>3. NextAfter(0) \in Occurrences \cup {MaxTime + 1}
  BY <1>1, NextFound
<1>3a. NextAfter(0) \in 0 .. MaxTime + 1
  BY <1>3, OccurrenceRange
<1>4. NoAutoRow \in AutoRow /\ ~NoAutoRow.exists
  BY <1>1, Numbers DEF NoAutoRow, AutoRow
<1>5. auto \in [Autos -> AutoRow]
      /\ \A a \in Autos : auto[a].exists => auto[a].next = NextAfter(0)
  BY <1>3a, <1>4 DEF Init, AutoRow
<1>6. run \in [Runs -> RunRow] /\ \A r \in Runs : run[r].status = "none"
  BY DEF Init, NoRun, RunRow, Statuses
<1>7. \A r \in Runs : ~Stored(r) /\ ~Committed(r) /\ launches[r] = 0
  BY <1>6 DEF Init, Stored, Committed
<1>8. StoreInv
  BY <1>3, <1>5, <1>6, <1>7 DEF StoreInv
<1>9. LaunchInv /\ TokenInv /\ JobInv
  BY DEF Init, LaunchInv, TokenInv, JobInv
<1>10. IdlePass \in PassRow /\ IdlePass.pc = "idle" /\ IdlePass.todo = {}
  BY <1>1 DEF IdlePass, PassRow, Handling
<1>11. PassOK(IdlePass)
  BY <1>10 DEF PassOK, Concerns, Handling
<1>12. PassInv
  BY <1>10, <1>11 DEF Init, PassInv
<1>13. OnceInv
  BY <1>7 DEF OnceInv
<1> QED
  BY <1>2, <1>8, <1>9, <1>12, <1>13 DEF Inv

-----------------------------------------------------------------------------
(* The store.                                                              *)

LEMMA UpdateRows ==
    ASSUME NEW rows \in [Runs -> RunRow], NEW r \in Runs,
           NEW status \in Statuses \ {"none", "gone"}
    PROVE  /\ Update(rows, r, status) \in [Runs -> RunRow]
           /\ \A s \in Runs \ {r} : Update(rows, r, status)[s] = rows[s]
           /\ Update(rows, r, status)[r].auto = rows[r].auto
           /\ Update(rows, r, status)[r].at = rows[r].at
           /\ IF rows[r].status \in {"none", "gone"}
              THEN Update(rows, r, status)[r].status = rows[r].status
              ELSE Update(rows, r, status)[r].status = status
<1>1. CASE rows[r].status \in {"none", "gone"}
  BY <1>1 DEF Update
<1>2. CASE rows[r].status \notin {"none", "gone"}
  <2>1. Update(rows, r, status) = [rows EXCEPT ![r].status = status]
    BY <1>2 DEF Update
  <2> QED
    BY <1>2, <2>1 DEF RunRow
<1> QED
  BY <1>1, <1>2

\* Retention takes final runs, and touches nothing else.
LEMMA PrunedRows ==
    ASSUME NEW rows \in [Runs -> RunRow]
    PROVE  /\ Pruned(rows) \in [Runs -> RunRow]
           /\ \A r \in Runs :
                 Pruned(rows)[r] = rows[r]
                 \/ (rows[r].status = "final" /\ Pruned(rows)[r] = GoneRun)
<1>1. GoneRun \in RunRow
  BY DEF GoneRun, NoRun, RunRow, Statuses
<1>2. \A r \in Runs : Pruned(rows)[r] = rows[r]
                        \/ (rows[r].status = "final" /\ Pruned(rows)[r] = GoneRun)
  BY DEF Pruned
<1>3. Pruned(rows) = [r \in Runs |-> Pruned(rows)[r]]
  BY DEF Pruned
<1>4. \A r \in Runs : Pruned(rows)[r] \in RunRow
  BY <1>1, <1>2
<1> QED
  BY <1>2, <1>3, <1>4

\* What becomes of the rows in a step that creates none.
RowsKept ==
    /\ run' \in [Runs -> RunRow]
    /\ \A r \in Runs :
          /\ run'[r].status = "none" => run[r].status = "none"
          /\ run'[r].status \notin {"none", "gone"} =>
                 /\ run[r].status \notin {"none", "gone"}
                 /\ run'[r].auto = run[r].auto /\ run'[r].at = run[r].at

LEMMA UpdateKeeps ==
    ASSUME StoreInv, NEW r \in Runs, NEW status \in Statuses \ {"none", "gone"},
           run' = Update(run, r, status)
    PROVE  /\ RowsKept /\ \A s \in Runs \ {r} : run'[s] = run[s]
           /\ Stored(r) => run'[r].status = status
           /\ ~Stored(r) => run'[r].status = run[r].status
           /\ Stored(r)' <=> Stored(r)
           /\ run'[r].auto = run[r].auto
<1>1. run \in [Runs -> RunRow]
  BY DEF StoreInv
<1> QED
  BY <1>1, UpdateRows DEF RowsKept, Stored

-----------------------------------------------------------------------------
(* Steps that commit no run: what is true of passes, rows and occurrences  *)
(* stays true.                                                             *)

CommitsKept == \A r \in Runs : Committed(r)' => Committed(r)

AutosKept ==
    /\ auto' \in [Autos -> AutoRow]
    /\ \A a \in Autos : auto'[a].exists => auto[a].exists /\ auto'[a].next = auto[a].next

\* A pass that gives up has nothing committed that its automation has yet to move on from.
Over(p) ==
    \A r \in Runs : pass[p].run = r /\ pass[p].pc \in {"awaits", "advance"} =>
        ~Stored(r)' \/ ~Committed(r)' \/ ~auto'[pass[p].auto].exists

PassesGoOn ==
    /\ pass' \in [Passes -> PassRow]
    /\ evaluating' = (\E p \in Passes : pass'[p].pc # "idle")
    /\ \A p \in Passes :
          \/ pass'[p] = pass[p] /\ (pass[p].pc = "dispatch" => Stored(pass[p].run)')
          \/ pass[p].pc \in Handling /\ pass'[p] = [pass[p] EXCEPT !.pc = "advance"]
          \/ pass'[p] = IdlePass /\ Over(p)

LEMMA IdleFacts == IdlePass.pc = "idle" /\ IdlePass.todo = {} /\ IdlePass \in PassRow
<1>1. 0 \in 0 .. MaxTime
  BY Numbers
<1> QED
  BY <1>1 DEF IdlePass, PassRow, Handling

LEMMA IdleOK == PassOK(IdlePass)'
BY IdleFacts DEF PassOK, Concerns, Handling

LEMMA AdvanceFacts ==
    ASSUME NEW w \in PassRow, w.pc \in Handling
    PROVE  /\ [w EXCEPT !.pc = "advance"] \in PassRow
           /\ [w EXCEPT !.pc = "advance"].pc = "advance"
           /\ [w EXCEPT !.pc = "advance"].todo = w.todo
           /\ [w EXCEPT !.pc = "advance"].since = w.since
           /\ [w EXCEPT !.pc = "advance"].auto = w.auto
           /\ [w EXCEPT !.pc = "advance"].run = w.run
BY DEF PassRow, Handling

\* One pass, whether it went on or stayed where it was.
LEMMA PassStaysOK ==
    ASSUME Inv, RowsKept, CommitsKept, AutosKept, NEW w \in PassRow, PassOK(w),
           NEW v \in PassRow, v.todo = w.todo, v.since = w.since, v.auto = w.auto,
           v.run = w.run, v.pc = w.pc \/ (w.pc \in Handling /\ v.pc = "advance"),
           v.pc = "dispatch" => Stored(v.run)'
    PROVE  PassOK(v)'
<1>1. v.pc = "idle" => v.todo = {}
  BY DEF PassOK
<1>2. v.todo # {} => \E o \in Occurrences : o =< v.since
  BY DEF PassOK
<1>3. (v.pc \in Handling => w.pc \in Handling) /\ (w.pc \in Handling => v.pc \in Handling)
  BY DEF Handling
<1>4. Concerns(v) = Concerns(w) /\ Concerns(w) \subseteq Autos
  BY <1>3 DEF Concerns, PassOK, PassRow
<1>5. \A a \in Concerns(v) : auto'[a].exists => auto'[a].next =< v.since
  BY <1>4 DEF AutosKept, PassOK
<1>6. ASSUME v.pc \in Handling
      PROVE  /\ v.auto \in Autos \ v.todo /\ v.run \in Runs /\ run'[v.run].status # "none"
             /\ Stored(v.run)' =>
                    run'[v.run].auto = v.auto /\ run'[v.run].at \in Occurrences
                    /\ run'[v.run].at =< v.since
  <2>1. /\ w.auto \in Autos \ w.todo /\ w.run \in Runs /\ run[w.run].status # "none"
        /\ Stored(w.run) =>
               run[w.run].auto = w.auto /\ run[w.run].at \in Occurrences
               /\ run[w.run].at =< w.since
    BY <1>3, <1>6 DEF PassOK
  <2> QED
    BY <2>1 DEF RowsKept, Stored
<1>7. v.pc = "dispatch" => Stored(v.run)' /\ ~Committed(v.run)'
  <2>1. ASSUME v.pc = "dispatch" PROVE ~Committed(w.run) /\ w.run \in Runs
    BY <2>1 DEF PassOK, Handling
  <2> QED
    BY <2>1 DEF CommitsKept
<1> QED
  BY <1>1, <1>2, <1>5, <1>6, <1>7 DEF PassOK, Concerns

LEMMA PassesStayOK ==
    ASSUME Inv, RowsKept, CommitsKept, AutosKept, PassesGoOn
    PROVE  PassInv'
<1>1. \A p \in Passes : pass[p] \in PassRow /\ PassOK(pass[p])
  BY DEF Inv, PassInv
<1>2. ASSUME NEW p \in Passes
      PROVE  PassOK(pass[p])' /\ (pass'[p].pc = "idle" \/ pass[p].pc # "idle")
  <2>1. CASE pass'[p] = pass[p] /\ (pass[p].pc = "dispatch" => Stored(pass[p].run)')
    BY <1>1, <2>1, PassStaysOK
  <2>2. CASE pass[p].pc \in Handling /\ pass'[p] = [pass[p] EXCEPT !.pc = "advance"]
    BY <1>1, <2>2, AdvanceFacts, PassStaysOK DEF Handling
  <2>3. CASE pass'[p] = IdlePass
    BY <2>3, IdleOK, IdleFacts
  <2> QED
    BY <2>1, <2>2, <2>3 DEF PassesGoOn
<1>3. \A p, q \in Passes : p = q \/ pass'[p].pc = "idle" \/ pass'[q].pc = "idle"
  BY <1>2 DEF Inv, PassInv
<1> QED
  BY <1>2, <1>3 DEF PassInv, PassesGoOn

LEMMA OnceGoesOn ==
    ASSUME Inv, RowsKept, CommitsKept, AutosKept, PassesGoOn
    PROVE  OnceInv'
<1> SUFFICES ASSUME NEW r \in Runs, Committed(r)', Stored(r)', run'[r].at # 0
             PROVE  /\ auto'[run'[r].auto].exists => MovesOn(r)'
                    /\ \A p \in Passes : run'[r].auto \in pass'[p].todo =>
                           run'[r].at < LatestAtOrBefore(pass'[p].since)
  BY DEF OnceInv
<1>1. /\ Committed(r) /\ Stored(r)
      /\ run'[r].auto = run[r].auto /\ run'[r].at = run[r].at
  BY DEF CommitsKept, RowsKept, Stored
<1>2. run[r].auto \in Autos
  BY <1>1 DEF Inv, StoreInv
<1>3. \A p \in Passes : pass[p] \in PassRow /\ PassOK(pass[p])
  BY DEF Inv, PassInv
<1>4. ASSUME auto'[run'[r].auto].exists PROVE MovesOn(r)'
  <2>1. auto[run[r].auto].exists /\ auto'[run[r].auto].next = auto[run[r].auto].next
    BY <1>1, <1>2, <1>4 DEF AutosKept
  <2>2. MovesOn(r)
    BY <1>1, <2>1 DEF Inv, OnceInv
  <2>3. CASE auto[run[r].auto].next > run[r].at
    BY <1>1, <2>1, <2>3 DEF MovesOn
  <2>4. ASSUME NEW p \in Passes, pass[p].run = r, pass[p].pc \in {"awaits", "advance"}
        PROVE  MovesOn(r)'
    <3>1. pass[p].auto = run[r].auto
      BY <1>1, <1>3, <2>4 DEF PassOK, Handling
    <3>2. ~Over(p)
      BY <1>1, <1>4, <2>4, <3>1 DEF Over
    <3>3. pass'[p].run = r /\ pass'[p].pc \in {"awaits", "advance"}
      BY <1>3, <2>4, <3>2, AdvanceFacts DEF PassesGoOn
    <3> QED
      BY <3>3 DEF MovesOn
  <2> QED
    BY <2>2, <2>3, <2>4 DEF MovesOn
<1>5. ASSUME NEW p \in Passes, run'[r].auto \in pass'[p].todo
      PROVE  run'[r].at < LatestAtOrBefore(pass'[p].since)
  <2>1. pass'[p].todo = pass[p].todo /\ pass'[p].since = pass[p].since
    BY <1>3, <1>5, IdleFacts, AdvanceFacts DEF PassesGoOn
  <2> QED
    BY <1>1, <1>5, <2>1 DEF Inv, OnceInv
<1> QED
  BY <1>4, <1>5

\* What the store says stays true when no run is created, or one that nothing refers to.
LEMMA StoreGoesOn ==
    ASSUME Inv, RowsKept, CommitsKept, AutosKept,
           \A r \in Runs : run[r].status = "none" => launches'[r] = launches[r]
    PROVE  StoreInv'
<1>1. \A r \in Runs : Stored(r)' => run'[r].auto \in Autos
  BY DEF Inv, StoreInv, RowsKept, Stored
<1>2. \A r \in Runs : run'[r].status = "none" => launches'[r] = 0 /\ ~Committed(r)'
  BY DEF Inv, StoreInv, RowsKept, CommitsKept
<1>3. \A a \in Autos : auto'[a].exists => auto'[a].next \in Occurrences \cup {MaxTime + 1}
  BY DEF Inv, StoreInv, AutosKept
<1> QED
  BY <1>1, <1>2, <1>3 DEF StoreInv, RowsKept, AutosKept

LEMMA GoOn ==
    ASSUME Inv, RowsKept, CommitsKept, AutosKept, PassesGoOn, UNCHANGED <<launches, crashes>>,
           Scalars', TokenInv', JobInv'
    PROVE  Inv'
<1>1. StoreInv' /\ PassInv' /\ OnceInv'
  BY StoreGoesOn, PassesStayOK, OnceGoesOn
<1>2. LaunchInv'
  BY DEF Inv, LaunchInv
<1> QED
  BY <1>1, <1>2 DEF Inv

-----------------------------------------------------------------------------
(* Jobs.                                                                   *)

\* A job goes on as k, or is over; only its own run, and the pass that awaits it, change.
LEMMA JobGoesOn ==
    ASSUME Inv, NEW j \in jobs, NEW k \in Job, k.run = j.run,
           jobs' \subseteq (jobs \ {j}) \cup {k}, k \in jobs' => RowOK(k)' /\ TurnOK(k)',
           \A r \in Runs \ {j.run} : run'[r] = run[r] /\ launches'[r] = launches[r],
           \A p \in Passes \ {j.pass} : pass'[p] = pass[p],
           UNCHANGED <<auto, headless, crashes>>
    PROVE  JobInv'
<1>1. jobs \subseteq Job /\ \A x \in jobs : RowOK(x) /\ TurnOK(x)
  BY DEF Inv, JobInv
<1>2. \A x \in jobs \ {j} : x.run \in Runs \ {j.run} /\ x.auto \in Autos
                            /\ x.pass \in Passes \cup {"none"}
  BY <1>1 DEF Inv, JobInv, Job
<1>3. \A x \in jobs \ {j} : RowOK(x)'
  BY <1>1, <1>2 DEF RowOK, Stored
<1>4. ASSUME NEW x \in jobs \ {j} PROVE TurnOK(x)'
  <2>1. x.pass # "none" => x.pass \in Passes \ {j.pass}
    BY <1>1, <1>2 DEF TurnOK
  <2> QED
    BY <1>1, <1>2, <2>1 DEF TurnOK
<1>5. \A x, y \in jobs' : x.run = y.run => x = y
  BY <1>2 DEF Inv, JobInv
<1> QED
  BY <1>1, <1>3, <1>4, <1>5 DEF JobInv

\* No job goes on: some may be lost.
LEMMA JobsStay ==
    ASSUME Inv, jobs' \subseteq jobs, \A x \in jobs' : RowOK(x)',
           \A x \in jobs' : x.pass # "none" => pass'[x.pass] = pass[x.pass],
           UNCHANGED <<launches, crashes, headless>>
    PROVE  JobInv'
<1>1. \A x \in jobs' : TurnOK(x)'
  BY DEF Inv, JobInv, TurnOK
<1> QED
  BY <1>1 DEF Inv, JobInv

\* The rows of a job's run and automation were not touched.
LEMMA RowStays ==
    ASSUME NEW x \in Job, RowOK(x), run'[x.run] = run[x.run],
           auto'[x.auto].exists => auto[x.auto].exists, UNCHANGED headless
    PROVE  RowOK(x)'
BY DEF RowOK, Stored

-----------------------------------------------------------------------------
(* The steps of jobs.                                                      *)

LEMMA QuietPasses ==
    ASSUME Inv, Quiet, UNCHANGED <<pass, evaluating>>
    PROVE  PassesGoOn
<1>1. \A p \in Passes : pass[p].pc # "dispatch"
  BY DEF Quiet
<1> QED
  BY <1>1 DEF Inv, PassInv, PassesGoOn

LEMMA AutosStay ==
    ASSUME Inv, UNCHANGED auto
    PROVE  AutosKept
BY DEF Inv, StoreInv, AutosKept

LEMMA RowsStay ==
    ASSUME Inv, UNCHANGED run
    PROVE  RowsKept
BY DEF Inv, StoreInv, RowsKept

LEMMA JobCommits ==
    ASSUME Inv, NEW j \in jobs, NEW k \in Job, k.run = j.run,
           jobs' \subseteq (jobs \ {j}) \cup {k},
           \A r \in Runs \ {j.run} : launches'[r] = launches[r],
           \A r \in Runs : token'[r] # "none" => token[r] # "none",
           UNCHANGED crashes
    PROVE  CommitsKept
BY DEF CommitsKept, Committed

\* updateAutomationRun throws for a run that is gone, and then the pass gives up.
LEMMA SettleGoesOn ==
    ASSUME Inv, Quiet, NEW j \in jobs, NEW status \in Statuses \ {"none", "gone"},
           Settle(j, status), UNCHANGED auto
    PROVE  /\ RowsKept /\ PassesGoOn
           /\ \A r \in Runs \ {j.run} : run'[r] = run[r]
           /\ \A p \in Passes \ {j.pass} : pass'[p] = pass[p]
           /\ Stored(j.run)' <=> Stored(j.run)
           /\ Stored(j.run) => run'[j.run].status = status
           /\ run'[j.run].auto = run[j.run].auto
           /\ run'[j.run].status # "none"
<1>1. j \in Job /\ RowOK(j) /\ TurnOK(j) /\ j.run \in Runs /\ j.pass \in Passes \cup {"none"}
  BY DEF Inv, JobInv, Job
<1>2. run' = Update(run, j.run, status) /\ StoreInv
  BY DEF Settle, Inv
<1>3. /\ RowsKept /\ \A r \in Runs \ {j.run} : run'[r] = run[r]
      /\ Stored(j.run) => run'[j.run].status = status
      /\ Stored(j.run)' <=> Stored(j.run)
      /\ run'[j.run].auto = run[j.run].auto
  BY <1>1, <1>2, UpdateKeeps
<1>4. run'[j.run].status # "none"
  BY <1>1, <1>3 DEF RowsKept, RowOK
<1>5. PassesGoOn /\ \A p \in Passes \ {j.pass} : pass'[p] = pass[p]
  <2>1. CASE j.pass = "none"
    BY <2>1, QuietPasses DEF Settle
  <2>2. CASE j.pass # "none"
    <3>1. j.pass \in Passes /\ pass[j.pass].pc = "awaits" /\ pass[j.pass].run = j.run
      BY <1>1, <2>2 DEF TurnOK
    <3>2. /\ pass \in [Passes -> PassRow] /\ pass[j.pass].pc \in Handling
          /\ \A p \in Passes \ {j.pass} : pass[p].pc = "idle"
      BY <3>1 DEF Inv, PassInv, Handling
    <3>3. \A p \in Passes : pass[p].pc # "dispatch"
      BY DEF Quiet
    <3>4. CASE Stored(j.run)
      <4>1. pass' = [pass EXCEPT ![j.pass].pc = "advance"] /\ UNCHANGED evaluating
        BY <2>2, <3>4 DEF Settle
      <4>2. /\ pass'[j.pass] = [pass[j.pass] EXCEPT !.pc = "advance"]
            /\ pass'[j.pass] \in PassRow /\ pass'[j.pass].pc = "advance"
            /\ \A p \in Passes \ {j.pass} : pass'[p] = pass[p]
        BY <3>1, <3>2, <4>1, AdvanceFacts
      <4>3. pass' \in [Passes -> PassRow]
        BY <3>2, <4>1, <4>2
      <4>4. evaluating' = (\E p \in Passes : pass'[p].pc # "idle")
        <5>1. evaluating = TRUE
          BY <3>1 DEF Inv, PassInv
        <5>2. \E p \in Passes : pass'[p].pc # "idle"
          BY <3>1, <4>2
        <5> QED
          BY <4>1, <5>1, <5>2
      <4> QED
        BY <3>2, <3>3, <4>2, <4>3, <4>4 DEF PassesGoOn
    <3>5. CASE ~Stored(j.run)
      <4>1. pass' = [pass EXCEPT ![j.pass] = IdlePass] /\ evaluating' = FALSE
        BY <2>2, <3>5 DEF Settle, PassThrows, PassEnds
      <4>2. /\ pass'[j.pass] = IdlePass /\ pass' \in [Passes -> PassRow]
            /\ \A p \in Passes \ {j.pass} : pass'[p] = pass[p]
        BY <3>1, <3>2, <4>1, IdleFacts
      <4>3. \A p \in Passes : pass'[p].pc = "idle"
        BY <3>2, <4>2, IdleFacts
      <4>4. Over(j.pass)
        BY <1>3, <3>1, <3>5 DEF Over
      <4> QED
        BY <3>3, <4>1, <4>2, <4>3, <4>4 DEF PassesGoOn
    <3> QED
      BY <3>4, <3>5
  <2> QED
    BY <2>1, <2>2
<1> QED
  BY <1>3, <1>4, <1>5

\* A server has no window's tokens, so that settling a run there upsets none.
LEMMA ServerTokens ==
    ASSUME Inv, headless, UNCHANGED <<headless, ready, token>>
    PROVE  TokenInv'
BY DEF Inv, TokenInv

LEMMA SameTokens ==
    ASSUME Inv, UNCHANGED <<headless, ready, token, run>>
    PROVE  TokenInv'
BY DEF Inv, TokenInv, Stored

LEMMA MarkGoesOn ==
    ASSUME Inv, NEW r \in Runs, NEW status \in Statuses \ {"none", "gone"}, Mark(r, status),
           UNCHANGED <<headless, ready>>
    PROVE  /\ RowsKept /\ TokenInv'
           /\ \A s \in Runs \ {r} : run'[s] = run[s]
           /\ Stored(r) => run'[r].status = status
           /\ Stored(r)' <=> Stored(r)
           /\ run'[r].auto = run[r].auto
           /\ run'[r].status = "none" => run[r].status = "none"
           /\ \A s \in Runs : token'[s] # "none" => token[s] # "none"
<1>1. run' = Update(run, r, status) /\ StoreInv
  BY DEF Mark, Inv
<1>2. /\ RowsKept /\ \A s \in Runs \ {r} : run'[s] = run[s]
      /\ Stored(r) => run'[r].status = status
      /\ Stored(r)' <=> Stored(r)
      /\ run'[r].auto = run[r].auto
  BY <1>1, UpdateKeeps
<1>3. token \in [Runs -> {"none", "free", "used"}]
  BY DEF Inv, TokenInv
<1>4. token' = IF Stored(r) THEN [token EXCEPT ![r] = "none"] ELSE token
  BY DEF Mark
<1>5. /\ token' \in [Runs -> {"none", "free", "used"}]
      /\ \A s \in Runs : token'[s] = token[s] \/ token'[s] = "none"
      /\ Stored(r) => token'[r] = "none"
  BY <1>3, <1>4
<1>6. \A s \in Runs : token'[s] # "none" /\ Stored(s)' => run'[s].status = "dispatching"
  BY <1>2, <1>5 DEF Inv, TokenInv, Stored
<1>7. TokenInv'
  BY <1>5, <1>6 DEF Inv, TokenInv
<1> QED
  BY <1>2, <1>5, <1>7 DEF RowsKept

LEMMA MovedJob ==
    ASSUME NEW j \in Job, NEW pc \in Live \cup {"done"}
    PROVE  /\ [j EXCEPT !.pc = pc] \in Job
           /\ [j EXCEPT !.pc = pc].pc = pc /\ [j EXCEPT !.pc = pc].run = j.run
           /\ [j EXCEPT !.pc = pc].auto = j.auto /\ [j EXCEPT !.pc = pc].pass = j.pass
           /\ [j EXCEPT !.pc = pc].found = j.found
BY DEF Job

LEMMA JobFacts ==
    ASSUME Inv, NEW j \in jobs
    PROVE  /\ j \in Job /\ RowOK(j) /\ TurnOK(j) /\ j.run \in Runs /\ j.auto \in Autos
           /\ j.pass \in Passes \cup {"none"} /\ j.pc \in Live \cup {"done"}
           /\ Committed(j.run) /\ run[j.run].status # "none"
BY DEF Inv, JobInv, Job, Committed, RowOK

\* A job that moves while the store and the passes stay as they are.
LEMMA MoveInv ==
    ASSUME Inv, Quiet, NEW j \in jobs, NEW pc \in Live \cup {"done"}, Becomes(j, pc),
           pc \in Live => j.pc \in Live /\ (j.pc # "agent" \/ pc = "agent"),
           pc \in Before => j.pc \in Before,
           j.pass # "none" => pc \in {"precheck", "launch", "started"},
           ~headless /\ pc \in Live \ {"agent"} => j.pc \in Live \ {"agent"},
           \A r \in Runs : token'[r] # "none" => token[r] # "none",
           TokenInv',
           UNCHANGED <<headless, now, ready, auto, run, evaluating, pass, launches, counters>>
    PROVE  Inv'
<1> DEFINE k == [j EXCEPT !.pc = pc]
<1>1. /\ k \in Job /\ k.pc = pc /\ k.run = j.run /\ k.auto = j.auto /\ k.pass = j.pass
      /\ k.found = j.found
  BY JobFacts, MovedJob
<1>2. jobs' = (jobs \ {j}) \cup {k}
  BY DEF Becomes
<1> HIDE DEF k
<1>3. RowOK(j) /\ TurnOK(j)
  BY JobFacts
<1>4. RowOK(k)'
  BY <1>1, <1>3 DEF RowOK, Stored
<1>5. TurnOK(k)'
  BY <1>1, <1>3 DEF TurnOK, counters
<1>6. JobInv'
  BY <1>1, <1>2, <1>4, <1>5, JobGoesOn DEF counters
<1>7. CommitsKept
  BY <1>1, <1>2, JobCommits DEF counters
<1>8. RowsKept /\ AutosKept /\ PassesGoOn
  BY RowsStay, AutosStay, QuietPasses
<1>9. Scalars'
  BY DEF Inv, Scalars, counters
<1> QED
  BY <1>6, <1>7, <1>8, <1>9, GoOn DEF counters

LEMMA AgentDoneInv ==
    ASSUME Inv, NEW j \in jobs, AgentDone(j)
    PROVE  Inv'
<1>1. TokenInv'
  BY SameTokens DEF AgentDone
<1>2. j.pass = "none"
  BY JobFacts DEF AgentDone, TurnOK
<1> QED
  BY <1>1, <1>2, MoveInv DEF AgentDone, Live, Before

LEMMA PrecheckPassesInv ==
    ASSUME Inv, NEW j \in jobs, PrecheckPasses(j)
    PROVE  Inv'
<1>1. TokenInv'
  BY SameTokens DEF PrecheckPasses
<1> QED
  BY <1>1, MoveInv DEF PrecheckPasses, Live, Before

LEMMA CreateStartsInv ==
    ASSUME Inv, NEW j \in jobs, CreateStarts(j)
    PROVE  Inv'
<1>0. j.run \in Runs /\ token \in [Runs -> {"none", "free", "used"}]
  BY JobFacts DEF Inv, TokenInv
<1>1. /\ token' = [token EXCEPT ![j.run] = "used"] /\ token[j.run] = "free" /\ ~headless
      /\ UNCHANGED <<headless, ready, run>>
  BY DEF CreateStarts
<1>2. TokenInv' /\ \A r \in Runs : token'[r] # "none" => token[r] # "none"
  BY <1>0, <1>1 DEF Inv, TokenInv, Stored
<1>3. j.pass = "none"
  BY JobFacts DEF CreateStarts, TurnOK
<1> QED
  BY <1>2, <1>3, MoveInv DEF CreateStarts, Live, Before

LEMMA CreateEndsInv ==
    ASSUME Inv, NEW j \in jobs, CreateEnds(j)
    PROVE  Inv'
<1>0. j.run \in Runs /\ token \in [Runs -> {"none", "free", "used"}]
  BY JobFacts DEF Inv, TokenInv
<1>1. /\ token' = [token EXCEPT ![j.run] = "none"] /\ ~headless
      /\ UNCHANGED <<headless, ready, run>>
  BY DEF CreateEnds
<1>2. TokenInv' /\ \A r \in Runs : token'[r] # "none" => token[r] # "none"
  BY <1>0, <1>1 DEF Inv, TokenInv, Stored
<1>3. j.pass = "none"
  BY JobFacts DEF CreateEnds, TurnOK
<1> QED
  BY <1>2, <1>3, MoveInv DEF CreateEnds, Live, Before

LEMMA LaunchAgentInv ==
    ASSUME Inv, NEW j \in jobs, LaunchAgent(j)
    PROVE  Inv'
<1> DEFINE k == [j EXCEPT !.pc = "started"]
<1>0. "started" \in Live \cup {"done"} /\ j \in Job /\ j.run \in Runs
  BY JobFacts DEF Live
<1>1. /\ k \in Job /\ k.pc = "started" /\ k.run = j.run /\ k.auto = j.auto /\ k.pass = j.pass
      /\ k.found = j.found
  BY <1>0, MovedJob
<1>2. /\ jobs' = (jobs \ {j}) \cup {k} /\ j.pc = "launch" /\ Quiet
      /\ launches' = [launches EXCEPT ![j.run] = @ + 1]
      /\ UNCHANGED <<headless, now, ready, auto, run, evaluating, pass, token, counters>>
  BY DEF LaunchAgent, Becomes
<1> HIDE DEF k
<1>3. RowOK(j) /\ TurnOK(j)
  BY JobFacts
<1>4. RowOK(k)' /\ TurnOK(k)'
  BY <1>1, <1>2, <1>3 DEF RowOK, Stored, TurnOK, Live, Before
<1>5. launches \in [Runs -> Nat] /\ \A r \in Runs : launches[r] =< 1 + crashes
  BY DEF Inv, LaunchInv
<1>6. /\ launches' \in [Runs -> Nat] /\ launches'[j.run] = launches[j.run] + 1
      /\ \A r \in Runs \ {j.run} : launches'[r] = launches[r]
  BY <1>0, <1>2, <1>5
<1>7. launches[j.run] =< crashes /\ crashes \in Nat
  BY <1>2, <1>3, Numbers DEF TurnOK, Before, Inv, Scalars
<1>8. LaunchInv'
  BY <1>2, <1>5, <1>6, <1>7 DEF LaunchInv, counters
<1>9. JobInv'
  BY <1>1, <1>2, <1>4, <1>6, JobGoesOn DEF counters
<1>10. CommitsKept
  BY <1>1, <1>2, <1>6, JobCommits DEF counters
<1>11. RowsKept /\ AutosKept /\ PassesGoOn
  BY <1>2, RowsStay, AutosStay, QuietPasses
<1>12. Scalars' /\ TokenInv'
  BY <1>2, SameTokens DEF Inv, Scalars, counters
<1>13. run[j.run].status # "none"
  BY JobFacts
<1>14. StoreInv' /\ PassInv' /\ OnceInv'
  BY <1>6, <1>10, <1>11, <1>13, StoreGoesOn, PassesStayOK, OnceGoesOn
<1> QED
  BY <1>8, <1>9, <1>12, <1>14 DEF Inv

\* A job that is over, or becomes the watch over its agent, with its result marked.
LEMMA MarkedInv ==
    ASSUME Inv, Quiet, NEW j \in jobs, NEW status \in Statuses \ {"none", "gone"},
           Mark(j.run, status), NEW k \in Job, k.run = j.run,
           jobs' \subseteq (jobs \ {j}) \cup {k}, k \in jobs' => RowOK(k)' /\ TurnOK(k)',
           UNCHANGED <<headless, now, ready, auto, evaluating, pass, launches, counters>>
    PROVE  Inv'
<1>1. j.run \in Runs
  BY JobFacts
<1>2. /\ RowsKept /\ TokenInv' /\ \A s \in Runs \ {j.run} : run'[s] = run[s]
      /\ \A s \in Runs : token'[s] # "none" => token[s] # "none"
  BY <1>1, MarkGoesOn
<1>3. JobInv'
  BY <1>2, JobGoesOn DEF counters
<1>4. CommitsKept
  BY <1>2, JobCommits DEF counters
<1>5. AutosKept /\ PassesGoOn
  BY AutosStay, QuietPasses
<1>6. Scalars'
  BY DEF Inv, Scalars, counters
<1> QED
  BY <1>2, <1>3, <1>4, <1>5, <1>6, GoOn DEF counters

LEMMA EndMarkedInv ==
    ASSUME Inv, NEW j \in jobs, MarkEnd(j) \/ HandlerGivesUp(j)
    PROVE  Inv'
<1>1. /\ Quiet /\ jobs' = jobs \ {j} /\ Mark(j.run, "final")
      /\ UNCHANGED <<headless, now, ready, auto, evaluating, pass, launches, counters>>
  BY DEF MarkEnd, HandlerGivesUp
<1>2. jobs' \subseteq (jobs \ {j}) \cup {j} /\ j \notin jobs' /\ j \in Job
  BY <1>1, JobFacts
<1>3. "final" \in Statuses \ {"none", "gone"}
  BY DEF Statuses
<1> QED
  BY <1>1, <1>2, <1>3, MarkedInv

LEMMA MarkDispatchedInv ==
    ASSUME Inv, NEW j \in jobs, MarkDispatched(j)
    PROVE  Inv'
<1> DEFINE k == [j EXCEPT !.pc = "agent"]
<1>0. /\ Quiet /\ ~headless /\ j.pc = "started" /\ Mark(j.run, "dispatched")
      /\ jobs' = (jobs \ {j}) \cup (IF Stored(j.run) THEN {k} ELSE {})
      /\ UNCHANGED <<headless, now, ready, auto, evaluating, pass, launches, counters>>
  BY DEF MarkDispatched
<1>a. "agent" \in Live \cup {"done"} /\ j \in Job
  BY JobFacts DEF Live
<1>1. /\ k \in Job /\ k.pc = "agent" /\ k.run = j.run /\ k.auto = j.auto /\ k.pass = j.pass
      /\ k.found = j.found
  BY <1>a, MovedJob
<1>2. jobs' \subseteq (jobs \ {j}) \cup {k} /\ (k \in jobs' => Stored(j.run) \/ k \in jobs)
  BY <1>0
<1>3. RowOK(j) /\ TurnOK(j) /\ j.run \in Runs /\ "dispatched" \in Statuses \ {"none", "gone"}
  BY JobFacts DEF Statuses
<1> HIDE DEF k
<1>4. k \in jobs' => Stored(j.run)
  <2>1. k \notin jobs \/ k = j
    BY <1>1 DEF Inv, JobInv
  <2>2. k # j
    BY <1>0, <1>1
  <2> QED
    BY <1>2, <2>1, <2>2
<1>5. /\ Stored(j.run) => run'[j.run].status = "dispatched"
      /\ run'[j.run].auto = run[j.run].auto /\ Stored(j.run)' <=> Stored(j.run)
  BY <1>0, <1>3, MarkGoesOn
<1>6. ASSUME k \in jobs' PROVE RowOK(k)'
  <2>1. run[j.run].auto = j.auto
    BY <1>3, <1>4, <1>6 DEF RowOK
  <2>2. /\ run'[k.run].status = "dispatched" /\ run'[k.run].auto = k.auto
        /\ k.pc = "agent"
    BY <1>1, <1>4, <1>5, <1>6, <2>1
  <2> QED
    BY <2>2 DEF RowOK, Stored
<1>8. j.pass = "none"
  BY <1>0, <1>3 DEF TurnOK
<1>7. TurnOK(k)'
  BY <1>8, <1>0, <1>1, <1>3 DEF TurnOK, Before
<1> QED
  BY <1>0, <1>1, <1>2, <1>3, <1>6, <1>7, MarkedInv

\* A job of the server that is over, or becomes the watch over its agent, with the result
\* stored and its pass gone on.
LEMMA SettledInv ==
    ASSUME Inv, Quiet, headless, NEW j \in jobs, NEW status \in Statuses \ {"none", "gone"},
           Settle(j, status), NEW k \in Job, k.run = j.run,
           jobs' \subseteq (jobs \ {j}) \cup {k}, k \in jobs' => RowOK(k)' /\ TurnOK(k)',
           UNCHANGED <<headless, now, ready, auto, token, launches, counters>>
    PROVE  Inv'
<1>1. /\ RowsKept /\ PassesGoOn
      /\ \A r \in Runs \ {j.run} : run'[r] = run[r]
      /\ \A p \in Passes \ {j.pass} : pass'[p] = pass[p]
  BY SettleGoesOn
<1>2. TokenInv'
  BY ServerTokens
<1>3. JobInv'
  BY <1>1, JobGoesOn DEF counters
<1>4. CommitsKept
  BY JobCommits DEF counters
<1>5. AutosKept
  BY AutosStay
<1>6. Scalars'
  BY DEF Inv, Scalars, counters
<1> QED
  BY <1>1, <1>2, <1>3, <1>4, <1>5, <1>6, GoOn DEF counters

LEMMA JobFailsInv ==
    ASSUME Inv, NEW j \in jobs, PrecheckFails(j) \/ HeadlessFails(j)
    PROVE  Inv'
<1>1. /\ Quiet /\ headless /\ jobs' = jobs \ {j} /\ Settle(j, "final")
      /\ UNCHANGED <<headless, now, ready, auto, token, launches, counters>>
  BY DEF PrecheckFails, HeadlessFails
<1>2. jobs' \subseteq (jobs \ {j}) \cup {j} /\ j \notin jobs' /\ j \in Job
  BY <1>1, JobFacts
<1>3. "final" \in Statuses \ {"none", "gone"}
  BY DEF Statuses
<1> QED
  BY <1>1, <1>2, <1>3, SettledInv

LEMMA HeadlessReturnsInv ==
    ASSUME Inv, NEW j \in jobs, HeadlessReturns(j)
    PROVE  Inv'
<1> DEFINE k == [j EXCEPT !.pc = "agent", !.pass = "none"]
<1>0. /\ Quiet /\ headless /\ j.pc = "started" /\ Settle(j, "dispatched")
      /\ jobs' = (jobs \ {j}) \cup (IF Stored(j.run) THEN {k} ELSE {})
      /\ UNCHANGED <<headless, now, ready, auto, token, launches, counters>>
  BY DEF HeadlessReturns
<1>a. "agent" \in Live \cup {"done"} /\ j \in Job
  BY JobFacts DEF Live
<1>1. /\ k \in Job /\ k.pc = "agent" /\ k.run = j.run /\ k.auto = j.auto /\ k.pass = "none"
      /\ k.found = j.found
  BY <1>a DEF Job
<1>2. jobs' \subseteq (jobs \ {j}) \cup {k}
  BY <1>0
<1>3. RowOK(j) /\ TurnOK(j) /\ j.run \in Runs /\ "dispatched" \in Statuses \ {"none", "gone"}
  BY JobFacts DEF Statuses
<1>4. k \in jobs' => Stored(j.run)
  <2>1. k \notin jobs \/ k = j
    BY <1>1 DEF Inv, JobInv
  <2>2. k # j
    BY <1>0, <1>1
  <2> QED
    BY <1>0, <2>1, <2>2
<1> HIDE DEF k
<1>5. /\ Stored(j.run) => run'[j.run].status = "dispatched"
      /\ run'[j.run].auto = run[j.run].auto /\ Stored(j.run)' <=> Stored(j.run)
  BY <1>0, <1>3, SettleGoesOn
<1>6. ASSUME k \in jobs' PROVE RowOK(k)'
  <2>1. run[j.run].auto = j.auto
    BY <1>3, <1>4, <1>6 DEF RowOK
  <2>2. /\ run'[k.run].status = "dispatched" /\ run'[k.run].auto = k.auto
        /\ k.pc = "agent"
    BY <1>1, <1>4, <1>5, <1>6, <2>1
  <2> QED
    BY <2>2 DEF RowOK, Stored
<1>7. TurnOK(k)'
  BY <1>1 DEF TurnOK, Before
<1> QED
  BY <1>0, <1>1, <1>2, <1>3, <1>6, <1>7, SettledInv

-----------------------------------------------------------------------------
(* The steps of the page, the user and the clock.                          *)

LEMMA PageMarksInv ==
    ASSUME Inv, NEW r \in Runs, PageMarks(r)
    PROVE  Inv'
<1>1. /\ Quiet /\ ready /\ run[r].status = "dispatched" /\ Mark(r, "final")
      /\ ~\E j \in jobs : j.run = r /\ j.pc = "agent"
      /\ UNCHANGED <<headless, now, ready, auto, evaluating, pass, jobs, launches, counters>>
  BY DEF PageMarks
<1>2. "final" \in Statuses \ {"none", "gone"} /\ ~headless
  BY <1>1 DEF Statuses, Inv, TokenInv
<1>3. /\ RowsKept /\ TokenInv' /\ \A s \in Runs \ {r} : run'[s] = run[s]
      /\ Stored(r)' <=> Stored(r)
      /\ run'[r].auto = run[r].auto /\ run'[r].status # "none"
      /\ \A s \in Runs : token'[s] # "none" => token[s] # "none"
      /\ Stored(r) => run'[r].status = "final"
  BY <1>1, <1>2, MarkGoesOn
<1>4. ASSUME NEW x \in jobs PROVE RowOK(x)'
  <2>1. RowOK(x) /\ x \in Job
    BY <1>4, JobFacts
  <2>2. CASE x.run = r
    <3>1. x.pc \notin Live
      BY <1>1, <1>2, <2>1, <2>2 DEF RowOK, Live
    <3> QED
      BY <1>1, <1>3, <2>1, <2>2, <3>1 DEF RowOK, Stored, Live
  <2>3. CASE x.run # r
    BY <1>1, <1>3, <2>1, <2>3, RowStays DEF Job
  <2> QED
    BY <2>2, <2>3
<1>5. JobInv'
  BY <1>1, <1>4, JobsStay DEF counters
<1>6. CommitsKept
  BY <1>1, <1>3 DEF CommitsKept, Committed, counters
<1>7. AutosKept /\ PassesGoOn
  BY <1>1, AutosStay, QuietPasses
<1>8. Scalars'
  BY <1>1 DEF Inv, Scalars, counters
<1> QED
  BY <1>1, <1>3, <1>5, <1>6, <1>7, <1>8, GoOn DEF counters

\* A turn that dispatches nothing, and leaves the passes as they are.
LEMMA TurnInv ==
    ASSUME Inv, Quiet, RowsKept, AutosKept, jobs' \subseteq jobs, \A x \in jobs : RowOK(x)',
           headless => ~ready', \A r \in Runs : Stored(r)' => run'[r] = run[r],
           now' \in 0 .. MaxTime, ready' \in BOOLEAN,
           UNCHANGED <<headless, evaluating, pass, token, launches, counters>>
    PROVE  Inv'
<1>1. JobInv'
  BY JobsStay DEF counters
<1>2. CommitsKept
  BY DEF CommitsKept, Committed, counters
<1>3. TokenInv'
  BY DEF Inv, TokenInv, RowsKept, Stored
<1>4. Scalars'
  BY DEF Inv, Scalars, counters
<1> QED
  BY <1>1, <1>2, <1>3, <1>4, QuietPasses, GoOn DEF counters

LEMMA StoreStays ==
    ASSUME Inv, UNCHANGED <<headless, run>>,
           \A a \in Autos : auto'[a].exists => auto[a].exists
    PROVE  /\ RowsKept /\ \A x \in jobs : RowOK(x)'
           /\ \A r \in Runs : Stored(r)' => run'[r] = run[r]
<1>1. \A x \in jobs : RowOK(x) /\ x \in Job /\ x.auto \in Autos
  BY JobFacts
<1> QED
  BY <1>1, RowsStay, RowStays

LEMMA ClockInv ==
    ASSUME Inv, Tick \/ RendererReady \/ RendererGone
    PROVE  Inv'
<1>1. /\ Quiet /\ jobs' \subseteq jobs
      /\ UNCHANGED <<headless, auto, run, evaluating, pass, token, launches, counters>>
  BY DEF Tick, RendererReady, RendererGone, sender
<1>2. now' \in 0 .. MaxTime
  BY Numbers DEF Inv, Scalars, Tick, RendererReady, RendererGone
<1>3. ready' \in BOOLEAN /\ (headless => ~ready')
  <2>1. ready \in BOOLEAN /\ (headless => ~ready)
    BY DEF Inv, Scalars, TokenInv
  <2>2. CASE Tick
    BY <2>1, <2>2 DEF Tick, sender
  <2>3. CASE RendererReady
    BY <2>3 DEF RendererReady
  <2>4. CASE RendererGone
    BY <2>1, <2>4 DEF RendererGone
  <2> QED
    BY <2>2, <2>3, <2>4
<1> QED
  BY <1>1, <1>2, <1>3, AutosStay, StoreStays, TurnInv

LEMMA SetEnabledInv ==
    ASSUME Inv, NEW a \in Autos, SetEnabled(a)
    PROVE  Inv'
<1>1. /\ Quiet /\ auto' = [auto EXCEPT ![a].enabled = ~@] /\ ready' = ready /\ jobs' = jobs
      /\ UNCHANGED <<headless, now, run, evaluating, pass, token, launches, counters>>
  BY DEF SetEnabled, sender
<1>2. auto \in [Autos -> AutoRow]
  BY DEF Inv, StoreInv
<1>3. /\ auto' \in [Autos -> AutoRow]
      /\ \A b \in Autos : auto'[b].exists = auto[b].exists /\ auto'[b].next = auto[b].next
  BY <1>1, <1>2 DEF AutoRow
<1>4. AutosKept
  BY <1>3 DEF AutosKept
<1>5. ready' \in BOOLEAN /\ (headless => ~ready') /\ now' \in 0 .. MaxTime
  BY <1>1 DEF Inv, Scalars, TokenInv
<1> QED
  BY <1>1, <1>3, <1>4, <1>5, StoreStays, TurnInv

LEMMA DeleteAutomationInv ==
    ASSUME Inv, NEW a \in Autos, DeleteAutomation(a)
    PROVE  Inv'
<1>1. /\ Quiet /\ auto' = [auto EXCEPT ![a] = NoAutoRow] /\ ready' = ready /\ jobs' = jobs
      /\ run' = [r \in Runs |-> IF run[r].auto = a THEN GoneRun ELSE run[r]]
      /\ UNCHANGED <<headless, now, evaluating, pass, token, launches, counters>>
  BY DEF DeleteAutomation, sender
<1>2. auto \in [Autos -> AutoRow] /\ run \in [Runs -> RunRow]
  BY DEF Inv, StoreInv
<1>3. NoAutoRow \in AutoRow /\ ~NoAutoRow.exists
  <2>1. 0 \in 0 .. MaxTime + 1
    BY Numbers
  <2> QED
    BY <2>1 DEF NoAutoRow, AutoRow
<1>4. AutosKept /\ ~auto'[a].exists /\ \A b \in Autos \ {a} : auto'[b] = auto[b]
  BY <1>1, <1>2, <1>3 DEF AutosKept
<1>5. GoneRun \in RunRow /\ GoneRun.status = "gone"
  BY DEF GoneRun, NoRun, RunRow, Statuses
<1>6. \A r \in Runs : run'[r] = (IF run[r].auto = a THEN GoneRun ELSE run[r])
  BY <1>1
<1>7. RowsKept /\ \A r \in Runs : Stored(r)' => run'[r] = run[r]
  BY <1>1, <1>2, <1>5, <1>6 DEF RowsKept, Stored
<1>8. ASSUME NEW x \in jobs PROVE RowOK(x)'
  <2>1. RowOK(x) /\ x \in Job /\ x.run \in Runs /\ x.auto \in Autos
    BY <1>8, JobFacts
  <2>2. CASE run[x.run].auto = a
    <3>1. run'[x.run].status = "gone"
      BY <1>5, <1>6, <2>1, <2>2
    <3>2. Stored(x.run) => x.auto = a
      BY <2>1, <2>2 DEF RowOK
    <3> QED
      BY <1>1, <1>4, <2>1, <3>1, <3>2 DEF RowOK, Stored
  <2>3. CASE run[x.run].auto # a
    BY <1>1, <1>4, <1>6, <2>1, <2>3, RowStays
  <2> QED
    BY <2>2, <2>3
<1>9. ready' \in BOOLEAN /\ (headless => ~ready') /\ now' \in 0 .. MaxTime
  BY <1>1 DEF Inv, Scalars, TokenInv
<1> QED
  BY <1>1, <1>4, <1>7, <1>8, <1>9, TurnInv

\* Nothing of the process is left; a run that was launched may be launched again.
LEMMA CrashInv ==
    ASSUME Inv, Crash
    PROVE  Inv'
<1>1. /\ crashes < MaxCrashes /\ crashes' = crashes + 1
      /\ ready' = FALSE /\ evaluating' = FALSE /\ pass' = [p \in Passes |-> IdlePass]
      /\ jobs' = {} /\ token' = [r \in Runs |-> "none"]
      /\ UNCHANGED <<headless, now, auto, run, launches, manual>>
  BY DEF Crash
<1>2. crashes \in Nat /\ crashes' \in 0 .. MaxCrashes
  BY <1>1, Numbers DEF Inv, Scalars
<1>3. LaunchInv' /\ \A r \in Runs : ~(launches'[r] > crashes')
  BY <1>1, <1>2 DEF Inv, LaunchInv
<1>4. \A r \in Runs : ~Committed(r)'
  BY <1>1, <1>3 DEF Committed
<1>5. Scalars' /\ TokenInv' /\ JobInv'
  BY <1>1, <1>2 DEF Inv, Scalars, TokenInv, JobInv
<1>6. RowsKept /\ AutosKept /\ CommitsKept
  BY <1>1, <1>4, RowsStay, AutosStay DEF CommitsKept
<1>7. PassesGoOn
  BY <1>1, <1>4, IdleFacts DEF PassesGoOn, Over, PassInv, Inv, PassRow
<1>8. StoreInv' /\ PassInv' /\ OnceInv'
  BY <1>1, <1>6, <1>7, StoreGoesOn, PassesStayOK, OnceGoesOn
<1> QED
  BY <1>3, <1>5, <1>8 DEF Inv

-----------------------------------------------------------------------------
(* The steps of a pass.                                                    *)

\* Only one pass is under way: it becomes v, and the others are as they were.
LEMMA OnePass ==
    ASSUME Inv, NEW p \in Passes, \A q \in Passes \ {p} : pass[q].pc = "idle",
           NEW v \in PassRow, PassOK(v)', pass' = [pass EXCEPT ![p] = v],
           evaluating' = (v.pc # "idle")
    PROVE  PassInv'
<1>1. pass \in [Passes -> PassRow] /\ \A q \in Passes : PassOK(pass[q])
  BY DEF Inv, PassInv
<1>2. /\ pass' \in [Passes -> PassRow] /\ pass'[p] = v
      /\ \A q \in Passes \ {p} : pass'[q] = pass[q]
  BY <1>1
<1>3. ASSUME NEW q \in Passes \ {p} PROVE PassOK(pass[q])'
  <2>1. pass'[q].pc = "idle" /\ pass'[q].todo = {}
    BY <1>1, <1>2 DEF PassOK
  <2> QED
    BY <2>1 DEF PassOK, Concerns, Handling
<1>4. evaluating' = (\E q \in Passes : pass'[q].pc # "idle")
  BY <1>2
<1> QED
  BY <1>2, <1>3, <1>4 DEF PassInv

LEMMA OthersIdle ==
    ASSUME Inv, NEW p \in Passes, pass[p].pc # "idle"
    PROVE  /\ pass[p] \in PassRow /\ PassOK(pass[p]) /\ evaluating = TRUE
           /\ \A q \in Passes \ {p} : pass[q].pc = "idle"
BY DEF Inv, PassInv

\* What only moves passes.
LEMMA PassMoveInv ==
    ASSUME Inv, PassInv', OnceInv',
           \A x \in jobs : x.pass # "none" => pass'[x.pass] = pass[x.pass],
           UNCHANGED <<headless, now, auto, run, sender, launches, counters>>
    PROVE  Inv'
<1>1. UNCHANGED <<headless, now, auto, run, ready, jobs, token, launches, manual, crashes>>
  BY DEF sender, counters
<1>2. \A x \in jobs : RowOK(x)'
  BY <1>1, StoreStays
<1>3. JobInv'
  BY <1>1, <1>2, JobsStay
<1>4. StoreInv'
  BY <1>1, RowsStay, AutosStay, StoreGoesOn DEF CommitsKept, Committed
<1>5. Scalars' /\ LaunchInv' /\ TokenInv'
  BY <1>1, SameTokens DEF Inv, Scalars, LaunchInv
<1> QED
  BY <1>3, <1>4, <1>5 DEF Inv

LEMMA StartPassInv ==
    ASSUME Inv, NEW p \in Passes, StartPass(p)
    PROVE  Inv'
<1>0. PICK T \in SUBSET Autos : T = {a \in Autos : Due(a)}
  OBVIOUS
<1>a. PICK v : v = [pc |-> "going", todo |-> T, since |-> now, auto |-> 0, run |-> 0]
  OBVIOUS
<1>1. /\ ~evaluating /\ evaluating' = TRUE /\ pass' = [pass EXCEPT ![p] = v]
      /\ UNCHANGED <<headless, now, auto, run, sender, launches, counters>>
  BY <1>0, <1>a DEF StartPass, MayStart
<1>2. /\ \A q \in Passes : pass[q].pc = "idle" /\ pass[q].todo = {}
      /\ pass \in [Passes -> PassRow]
  BY <1>1 DEF Inv, PassInv, PassOK
<1>3. v \in PassRow /\ v.todo = T /\ v.since = now /\ v.pc = "going"
  BY <1>a DEF PassRow, Inv, Scalars
<1>4. now \in 0 .. MaxTime /\ now \in Nat
  BY Numbers DEF Inv, Scalars
<1>5. \A a \in T : auto[a].exists /\ auto[a].next =< now /\ auto[a].next \in Occurrences
  BY <1>0, <1>4, Numbers DEF Due, Inv, StoreInv
<1>6. PassOK(v)'
  <2>1. v.todo # {} => \E o \in Occurrences : o =< v.since
    BY <1>3, <1>5
  <2>2. Concerns(v) = T /\ v.pc \notin Handling
    BY <1>3 DEF Concerns, Handling
  <2>3. \A a \in T : auto'[a].exists => auto'[a].next =< v.since
    BY <1>1, <1>3, <1>5
  <2> QED
    BY <1>3, <2>1, <2>2, <2>3 DEF PassOK, Handling, Concerns
<1>7. PassInv'
  BY <1>1, <1>2, <1>3, <1>6, OnePass
<1>8. /\ pass'[p] = v /\ \A q \in Passes \ {p} : pass'[q] = pass[q]
  BY <1>1, <1>2
<1>9. OnceInv'
  <2> SUFFICES ASSUME NEW r \in Runs, Committed(r)', Stored(r)', run'[r].at # 0
               PROVE  /\ auto'[run'[r].auto].exists => MovesOn(r)'
                      /\ \A q \in Passes : run'[r].auto \in pass'[q].todo =>
                             run'[r].at < LatestAtOrBefore(pass'[q].since)
    BY DEF OnceInv
  <2>1. Committed(r) /\ Stored(r) /\ run[r].at # 0
    BY <1>1 DEF Committed, Stored, sender, counters
  <2>2. auto[run[r].auto].exists => auto[run[r].auto].next > run[r].at
    BY <1>2, <2>1 DEF Inv, OnceInv, MovesOn
  <2>3. auto'[run'[r].auto].exists => MovesOn(r)'
    BY <1>1, <2>2 DEF MovesOn
  <2>4. ASSUME NEW q \in Passes, run'[r].auto \in pass'[q].todo
        PROVE  run'[r].at < LatestAtOrBefore(pass'[q].since)
    <3>1. pass'[q].todo = T /\ pass'[q].since = now
      BY <1>2, <1>3, <1>8, <2>4
    <3>2. /\ auto[run[r].auto].next > run[r].at /\ auto[run[r].auto].next \in Occurrences
          /\ auto[run[r].auto].next =< now
      BY <1>1, <1>5, <2>2, <2>4, <3>1
    <3>3. /\ LatestAtOrBefore(now) \in Occurrences
          /\ auto[run[r].auto].next =< LatestAtOrBefore(now)
      BY <1>4, <3>2, LatestFound
    <3>4. run[r].at \in Nat
      <4>1. run[r].at \in {0} \cup Occurrences
        BY DEF Inv, StoreInv, RunRow
      <4> QED
        BY <4>1, Numbers
    <3>5. run[r].at < LatestAtOrBefore(now)
      <4>1. /\ auto[run[r].auto].next \in Nat /\ LatestAtOrBefore(now) \in Nat
            /\ auto[run[r].auto].next > run[r].at
            /\ auto[run[r].auto].next =< LatestAtOrBefore(now)
        BY <3>2, <3>3, Numbers
      <4> HIDE DEF LatestAtOrBefore
      <4> QED
        BY <3>4, <4>1
    <3> QED
      BY <1>1, <3>1, <3>5
  <2> QED
    BY <2>3, <2>4
<1>10. \A x \in jobs : x.pass = "none"
  BY <1>2, JobFacts DEF TurnOK
<1> QED
  BY <1>1, <1>7, <1>9, <1>10, PassMoveInv

LEMMA AdvanceNextRunInv ==
    ASSUME Inv, NEW p \in Passes, AdvanceNextRun(p)
    PROVE  Inv'
<1> DEFINE w == pass[p]
           a == w.auto
<1>1. /\ w.pc = "advance"
      /\ auto' = IF auto[a].exists THEN [auto EXCEPT ![a].next = NextAfter(w.since)] ELSE auto
      /\ IF ~auto[a].exists THEN PassEnds(p)
         ELSE IF w.todo = {} THEN PassEnds(p)
         ELSE pass' = [pass EXCEPT ![p].pc = "going"] /\ UNCHANGED evaluating
      /\ UNCHANGED <<headless, now, run, ready, jobs, token, launches, manual, crashes>>
  BY DEF AdvanceNextRun, PassThrows, sender, counters
<1>2. /\ w \in PassRow /\ PassOK(w) /\ evaluating = TRUE
      /\ \A q \in Passes \ {p} : pass[q].pc = "idle" /\ pass[q].todo = {}
      /\ pass \in [Passes -> PassRow]
  BY <1>1, OthersIdle DEF Inv, PassInv, PassOK
<1>3. /\ a \in Autos \ w.todo /\ a \in Concerns(w) /\ w.todo \subseteq Concerns(w)
      /\ w.since \in 0 .. MaxTime
  BY <1>1, <1>2 DEF PassOK, Handling, Concerns, PassRow
<1>4. /\ NextAfter(w.since) \in Occurrences \cup {MaxTime + 1} /\ NextAfter(w.since) > w.since
      /\ NextAfter(w.since) \in 0 .. MaxTime + 1
  BY <1>3, NextFound, OccurrenceRange
<1>5. auto \in [Autos -> AutoRow]
  BY DEF Inv, StoreInv
<1> HIDE DEF a
<1>6. /\ auto' \in [Autos -> AutoRow]
      /\ \A b \in Autos : auto'[b].exists = auto[b].exists
      /\ \A b \in Autos \ {a} : auto'[b] = auto[b]
      /\ auto[a].exists => auto'[a].next = NextAfter(w.since)
  BY <1>1, <1>3, <1>4, <1>5 DEF AutoRow
<1>7. PICK v : v = IF auto[a].exists /\ w.todo # {} THEN [w EXCEPT !.pc = "going"] ELSE IdlePass
  OBVIOUS
<1>8. pass' = [pass EXCEPT ![p] = v] /\ evaluating' = (v.pc # "idle") /\ v \in PassRow
  <2>1. CASE auto[a].exists /\ w.todo # {}
    BY <1>1, <1>2, <1>7, <2>1 DEF PassRow
  <2>2. CASE ~(auto[a].exists /\ w.todo # {})
    BY <1>1, <1>2, <1>7, <2>2, IdleFacts DEF PassEnds
  <2> QED
    BY <2>1, <2>2
<1>9. PassOK(v)'
  <2>1. CASE auto[a].exists /\ w.todo # {}
    <3>1. v.pc = "going" /\ v.todo = w.todo /\ v.since = w.since
      BY <1>2, <1>7, <2>1 DEF PassRow
    <3>2. Concerns(v) = v.todo /\ v.pc \notin Handling
      BY <3>1 DEF Concerns, Handling
    <3>3. \A b \in Concerns(v) : auto'[b].exists => auto'[b].next =< v.since
      BY <1>2, <1>3, <1>6, <3>1, <3>2 DEF PassOK, PassRow
    <3>4. v.todo # {} => \E o \in Occurrences : o =< v.since
      BY <1>2, <3>1 DEF PassOK
    <3> QED
      BY <3>1, <3>2, <3>3, <3>4 DEF PassOK, Handling, Concerns
  <2>2. CASE ~(auto[a].exists /\ w.todo # {})
    BY <1>7, <2>2, IdleOK
  <2> QED
    BY <2>1, <2>2
<1>10. PassInv'
  BY <1>2, <1>8, <1>9, OnePass
<1>11. pass'[p] = v /\ \A q \in Passes \ {p} : pass'[q] = pass[q]
  BY <1>2, <1>8
<1>12. OnceInv'
  <2> SUFFICES ASSUME NEW r \in Runs, Committed(r)', Stored(r)', run'[r].at # 0
               PROVE  /\ auto'[run'[r].auto].exists => MovesOn(r)'
                      /\ \A q \in Passes : run'[r].auto \in pass'[q].todo =>
                             run'[r].at < LatestAtOrBefore(pass'[q].since)
    BY DEF OnceInv
  <2>1. Committed(r) /\ Stored(r) /\ run[r].at # 0 /\ run' = run
    BY <1>1 DEF Committed, Stored
  <2>2. run[r].auto \in Autos /\ run[r].at \in Nat
    <3>1. run[r].at \in {0} \cup Occurrences
      BY DEF Inv, StoreInv, RunRow
    <3> QED
      BY <2>1, <3>1, Numbers DEF Inv, StoreInv
  <2>3. auto[run[r].auto].exists =>
            auto[run[r].auto].next > run[r].at \/ (w.run = r /\ w.pc \in {"awaits", "advance"})
    BY <1>2, <2>1 DEF Inv, OnceInv, MovesOn
  <2>4. w.run = r => run[r].auto = a /\ run[r].at =< w.since
    BY <1>1, <1>2, <2>1 DEF PassOK, Handling, a
  <2>5. ASSUME auto'[run'[r].auto].exists PROVE MovesOn(r)'
    <3>1. CASE run[r].auto = a
      <4>1. auto[a].exists /\ auto[a].next =< w.since
        BY <1>2, <1>3, <1>6, <2>1, <2>5, <3>1 DEF PassOK
      <4>2. auto[a].next \in Nat /\ w.since \in Nat
        BY <1>3, <1>5, Numbers DEF AutoRow
      <4>3. run[r].at =< w.since
        BY <2>2, <2>3, <2>4, <3>1, <4>1, <4>2
      <4>4. NextAfter(w.since) \in Nat /\ NextAfter(w.since) > w.since
        BY <1>4, OccurrenceRange
      <4>5. NextAfter(w.since) > run[r].at
        BY <2>2, <4>2, <4>3, <4>4
      <4>6. auto'[a].next > run'[r].at
        BY <1>6, <2>1, <4>1, <4>5
      <4> QED
        BY <2>1, <3>1, <4>6 DEF MovesOn
    <3>2. CASE run[r].auto # a
      <4>1. auto[run[r].auto].next > run[r].at
        BY <1>6, <2>1, <2>2, <2>3, <2>4, <2>5, <3>2
      <4> QED
        BY <1>6, <2>1, <2>2, <3>2, <4>1 DEF MovesOn
    <3> QED
      BY <3>1, <3>2
  <2>6. ASSUME NEW q \in Passes, run'[r].auto \in pass'[q].todo
        PROVE  run'[r].at < LatestAtOrBefore(pass'[q].since)
    <3>1. q = p /\ v # IdlePass
      BY <1>2, <1>11, <2>6, IdleFacts
    <3>2. v.todo = w.todo /\ v.since = w.since
      BY <1>2, <1>7, <3>1 DEF PassRow
    <3> QED
      BY <1>11, <2>1, <2>6, <3>1, <3>2 DEF Inv, OnceInv
  <2> QED
    BY <2>5, <2>6
<1>13. JobInv'
  <2>1. \A x \in jobs : RowOK(x)'
    BY <1>1, <1>6, JobFacts, RowStays
  <2>2. \A x \in jobs : x.pass # "none" => x.pass \in Passes \ {p}
    BY <1>1, JobFacts DEF TurnOK
  <2> QED
    BY <1>1, <1>11, <2>1, <2>2, JobsStay
<1>14. StoreInv'
  <2>1. \A b \in Autos : auto'[b].exists => auto'[b].next \in Occurrences \cup {MaxTime + 1}
    BY <1>4, <1>6 DEF Inv, StoreInv
  <2>2. \A r \in Runs : Committed(r)' <=> Committed(r)
    BY <1>1 DEF Committed
  <2> QED
    BY <1>1, <1>6, <2>1, <2>2 DEF Inv, StoreInv, Stored
<1>15. Scalars' /\ LaunchInv' /\ TokenInv'
  BY <1>1, SameTokens DEF Inv, Scalars, LaunchInv
<1> QED
  BY <1>10, <1>12, <1>13, <1>14, <1>15 DEF Inv

LEMMA PrecheckThrowsInv ==
    ASSUME Inv, NEW p \in Passes, PrecheckThrows(p)
    PROVE  Inv'
<1>1. /\ pass[p].pc = "dispatch" /\ pass' = [pass EXCEPT ![p] = IdlePass] /\ evaluating' = FALSE
      /\ UNCHANGED <<headless, now, auto, run, sender, launches, counters>>
  BY DEF PrecheckThrows, PassThrows, PassEnds
<1>2. pass \in [Passes -> PassRow] /\ \A q \in Passes \ {p} : pass[q].pc = "idle"
  BY <1>1, OthersIdle DEF Inv, PassInv
<1>3. pass'[p] = IdlePass /\ \A q \in Passes \ {p} : pass'[q] = pass[q]
  BY <1>1, <1>2
<1>4. PassesGoOn
  BY <1>1, <1>2, <1>3, IdleFacts DEF PassesGoOn, Over
<1>5. \A x \in jobs : x.pass # "none" => pass'[x.pass] = pass[x.pass]
  BY <1>1, <1>3, JobFacts DEF TurnOK
<1>6. CommitsKept /\ RowsKept /\ AutosKept
  BY <1>1, RowsStay, AutosStay DEF CommitsKept, Committed, sender, counters
<1> QED
  BY <1>1, <1>4, <1>5, <1>6, PassesStayOK, OnceGoesOn, PassMoveInv

-----------------------------------------------------------------------------
(* The creation of a run, and its dispatch: one run is new or becomes      *)
(* committed, and the others stay or are taken by retention.               *)

OthersKept(rows, r) ==
    \A s \in Runs \ {r} :
        rows[s] = run[s] \/ (run[s].status = "final" /\ rows[s] = GoneRun)

LEMMA GoneFacts == GoneRun \in RunRow /\ GoneRun.status = "gone"
BY DEF GoneRun, NoRun, RunRow, Statuses

\* createAutomationRun finds the run of the occurrence, or adds it after the others.
LEMMA CreatedRows ==
    ASSUME Inv, NEW r \in Runs, NEW a \in Autos, NEW at \in {0} \cup Occurrences,
           NEW rows \in CreateAutomationRun(r, a, at)
    PROVE  /\ rows \in [Runs -> RunRow] /\ OthersKept(rows, r)
           /\ rows[r].auto = a /\ rows[r].at = at /\ rows[r].status \notin {"none", "gone"}
           /\ \/ rows = run /\ at # 0
              \/ run[r].status = "none" /\ rows[r].status = "pending"
<1> DEFINE existing == {s \in Runs : Stored(s) /\ run[s].auto = a /\ run[s].at = at /\ at # 0}
           new == [run EXCEPT ![r] = [auto |-> a, at |-> at, status |-> "pending"]]
<1>1. run \in [Runs -> RunRow]
  BY DEF Inv, StoreInv
<1>2. \/ r \in existing /\ rows = run
      \/ run[r].status = "none" /\ rows = Pruned(new)
  BY DEF CreateAutomationRun
<1>3. CASE r \in existing /\ rows = run
  BY <1>1, <1>3 DEF OthersKept, Stored
<1>4. CASE run[r].status = "none" /\ rows = Pruned(new)
  <2>1. [auto |-> a, at |-> at, status |-> "pending"] \in RunRow
    BY DEF RunRow, Statuses
  <2>2. /\ new \in [Runs -> RunRow] /\ \A s \in Runs \ {r} : new[s] = run[s]
        /\ new[r] = [auto |-> a, at |-> at, status |-> "pending"]
    BY <1>1, <2>1
  <2> HIDE DEF new
  <2>3. /\ rows \in [Runs -> RunRow]
        /\ \A s \in Runs : rows[s] = new[s] \/ (new[s].status = "final" /\ rows[s] = GoneRun)
    BY <1>4, <2>2, PrunedRows
  <2>4. rows[r] = new[r]
    BY <2>2, <2>3
  <2>5. OthersKept(rows, r)
    BY <2>2, <2>3 DEF OthersKept
  <2> QED
    BY <1>4, <2>2, <2>3, <2>4, <2>5
<1> QED
  BY <1>2, <1>3, <1>4

\* One run becomes known to the process, and at most one job is begun for it.
LEMMA NewRun ==
    ASSUME Inv, NEW r \in Runs, ~Committed(r), run' \in [Runs -> RunRow],
           run'[r].status \notin {"none", "gone"}, run'[r].auto \in Autos,
           OthersKept(run', r), NEW N \in SUBSET Job, jobs' = jobs \cup N,
           \A k, l \in N : k = l, \A k \in N : k.run = r /\ RowOK(k)' /\ TurnOK(k)',
           \A x \in jobs : x.pass # "none" => pass'[x.pass] = pass[x.pass],
           \/ token' = token
           \/ /\ ready /\ run'[r].status = "dispatching"
              /\ token' = [token EXCEPT ![r] = "free"],
           UNCHANGED <<headless, ready, auto, launches, crashes>>
    PROVE  /\ StoreInv' /\ LaunchInv' /\ TokenInv' /\ JobInv'
           /\ \A s \in Runs \ {r} : Committed(s)' => Committed(s)
           /\ N = {} /\ token' = token => ~Committed(r)'
<1>1. token[r] = "none" /\ \A x \in jobs : x.run # r
  BY DEF Committed
<1>2. /\ token' \in [Runs -> {"none", "free", "used"}]
      /\ \A s \in Runs \ {r} : token'[s] = token[s]
      /\ token'[r] = "none" \/ run'[r].status = "dispatching"
  BY <1>1 DEF Inv, TokenInv
<1>3. TokenInv'
  <2>1. ASSUME NEW s \in Runs, token'[s] # "none", Stored(s)'
        PROVE  run'[s].status = "dispatching"
    BY <1>2, <2>1, GoneFacts DEF Inv, TokenInv, OthersKept, Stored
  <2>2. headless => ~ready
    BY DEF Inv, TokenInv
  <2>3. headless => token' = token
    BY <2>2
  <2> QED
    BY <1>2, <2>1, <2>2, <2>3 DEF Inv, TokenInv
<1>4. /\ \A s \in Runs \ {r} : Committed(s)' => Committed(s)
      /\ N = {} /\ token' = token => ~Committed(r)'
  BY <1>2 DEF Committed
<1>5. StoreInv'
  <2>1. \A s \in Runs : Stored(s)' => run'[s].auto \in Autos
    BY GoneFacts DEF Inv, StoreInv, OthersKept, Stored
  <2>2. \A s \in Runs : run'[s].status = "none" => launches'[s] = 0 /\ ~Committed(s)'
    BY <1>4, GoneFacts DEF Inv, StoreInv, OthersKept
  <2> QED
    BY <2>1, <2>2 DEF Inv, StoreInv
<1>6. ASSUME NEW x \in jobs PROVE RowOK(x)' /\ TurnOK(x)'
  <2>1. RowOK(x) /\ TurnOK(x) /\ x \in Job /\ x.run \in Runs \ {r}
    BY <1>1, <1>6, JobFacts
  <2>2. TurnOK(x)'
    BY <1>6, <2>1 DEF TurnOK
  <2>3. CASE run'[x.run] = run[x.run]
    BY <2>1, <2>2, <2>3, RowStays
  <2>4. CASE run[x.run].status = "final" /\ run'[x.run] = GoneRun
    BY <2>1, <2>2, <2>4, GoneFacts DEF RowOK, Stored
  <2> QED
    BY <2>1, <2>3, <2>4 DEF OthersKept
<1>7. JobInv'
  BY <1>1, <1>6 DEF Inv, JobInv
<1>8. LaunchInv'
  BY DEF Inv, LaunchInv
<1> QED
  BY <1>3, <1>4, <1>5, <1>7, <1>8

\* What was true of the other committed runs stays true, if the passes go on with them.
LEMMA NewRunOnce ==
    ASSUME Inv, NEW r \in Runs, OthersKept(run', r), UNCHANGED auto,
           \A s \in Runs \ {r} : Committed(s)' => Committed(s),
           \A p \in Passes : pass'[p].todo \subseteq pass[p].todo
                             /\ pass'[p].since = pass[p].since,
           \A p \in Passes : pass[p].pc \in {"awaits", "advance"} => pass'[p] = pass[p],
           Committed(r)' /\ run'[r].at # 0 =>
               /\ auto[run'[r].auto].exists => MovesOn(r)'
               /\ \A p \in Passes : run'[r].auto \notin pass'[p].todo
    PROVE  OnceInv'
<1> SUFFICES ASSUME NEW s \in Runs, Committed(s)', Stored(s)', run'[s].at # 0
             PROVE  /\ auto'[run'[s].auto].exists => MovesOn(s)'
                    /\ \A p \in Passes : run'[s].auto \in pass'[p].todo =>
                           run'[s].at < LatestAtOrBefore(pass'[p].since)
  BY DEF OnceInv
<1>1. CASE s = r
  BY <1>1
<1>2. CASE s # r
  <2>1. Committed(s) /\ run'[s] = run[s] /\ Stored(s)
    BY <1>2, GoneFacts DEF OthersKept, Stored
  <2>2. auto[run[s].auto].exists => MovesOn(s)
    BY <2>1 DEF Inv, OnceInv
  <2>3. MovesOn(s) => MovesOn(s)'
    BY <2>1 DEF MovesOn
  <2>4. \A p \in Passes : run[s].auto \in pass[p].todo =>
            run[s].at < LatestAtOrBefore(pass[p].since)
    BY <2>1 DEF Inv, OnceInv
  <2>5. \A p \in Passes : run'[s].auto \in pass'[p].todo =>
            run'[s].at < LatestAtOrBefore(pass'[p].since)
    BY <2>1, <2>4
  <2> QED
    BY <2>1, <2>2, <2>3, <2>5
<1> QED
  BY <1>1, <1>2

LEMMA CreateRunInv ==
    ASSUME Inv, NEW p \in Passes, NEW a \in Autos, CreateRun(p, a)
    PROVE  Inv'
<1> DEFINE w == pass[p]
           at == LatestAtOrBefore(w.since)
<1>1. PICK r \in Runs :
          /\ run' \in CreateAutomationRun(r, a, at)
          /\ pass' = [pass EXCEPT ![p].pc = "dispatch", ![p].todo = @ \ {a},
                                   ![p].auto = a, ![p].run = r]
  BY DEF CreateRun
<1>2. /\ w.pc = "going" /\ a \in w.todo
      /\ UNCHANGED <<headless, now, auto, evaluating, ready, jobs, token, launches, manual,
                     crashes>>
  BY DEF CreateRun, sender, counters
<1>3. /\ w \in PassRow /\ PassOK(w) /\ evaluating = TRUE /\ pass \in [Passes -> PassRow]
      /\ \A q \in Passes \ {p} : pass[q].pc = "idle"
  BY <1>2, OthersIdle DEF Inv, PassInv
<1>4. w.since \in 0 .. MaxTime /\ \E o \in Occurrences : o =< w.since
  BY <1>2, <1>3 DEF PassOK, PassRow
<1>5. at \in Occurrences /\ at =< w.since /\ at # 0
  BY <1>4, LatestFound, OccurrenceRange
<1> HIDE DEF at
<1>6. /\ run' \in [Runs -> RunRow] /\ OthersKept(run', r)
      /\ run'[r].auto = a /\ run'[r].at = at /\ run'[r].status \notin {"none", "gone"}
      /\ run' = run \/ run[r].status = "none"
  BY <1>1, <1>5, CreatedRows
\* A run that is found is not committed: the pass would look for a later occurrence.
<1>7. ~Committed(r)
  <2>1. CASE run[r].status = "none"
    BY <2>1 DEF Inv, StoreInv
  <2>2. CASE run' = run
    <3>1. Stored(r) /\ run[r].auto = a /\ run[r].at = at /\ at # 0
      BY <1>5, <1>6, <2>2 DEF Stored
    <3>2. Committed(r) => at < at
      BY <1>2, <3>1 DEF Inv, OnceInv, at
    <3> QED
      BY <1>5, <3>2, Numbers
  <2> QED
    BY <1>6, <2>1, <2>2
<1>8. \A x \in jobs : x.pass # "none" => pass'[x.pass] = pass[x.pass]
  <2>1. \A x \in jobs : x.pass # "none" => x.pass \in Passes \ {p}
    BY <1>2, JobFacts DEF TurnOK
  <2> QED
    BY <1>1, <1>3, <2>1
<1>9. /\ StoreInv' /\ LaunchInv' /\ TokenInv' /\ JobInv' /\ ~Committed(r)'
      /\ \A s \in Runs \ {r} : Committed(s)' => Committed(s)
  <2>1. {} \in SUBSET Job /\ jobs' = jobs \cup {}
    BY <1>2
  <2> QED
    BY <1>2, <1>6, <1>7, <1>8, <2>1, NewRun
<1>10. PICK v : v = [w EXCEPT !.pc = "dispatch", !.todo = @ \ {a}, !.auto = a, !.run = r]
  OBVIOUS
<1>11. /\ v \in PassRow /\ v.pc = "dispatch" /\ v.todo = w.todo \ {a} /\ v.since = w.since
       /\ v.auto = a /\ v.run = r
  BY <1>3, <1>10 DEF PassRow, Handling
<1>12. pass' = [pass EXCEPT ![p] = v]
  BY <1>1, <1>10
<1>13. PassOK(v)'
  <2>1. Concerns(v) \subseteq w.todo /\ w.todo \subseteq Concerns(w)
    BY <1>2, <1>11 DEF Concerns
  <2>2. \A b \in Concerns(v) : auto'[b].exists => auto'[b].next =< v.since
    BY <1>2, <1>3, <1>11, <2>1 DEF PassOK
  <2>3. v.pc \in Handling => v.auto \in Autos \ v.todo
    BY <1>11
  <2>4. Stored(v.run)' =>
            run'[v.run].auto = v.auto /\ run'[v.run].at \in Occurrences
            /\ run'[v.run].at =< v.since
    BY <1>5, <1>6, <1>11
  <2>5. Stored(v.run)' /\ ~Committed(v.run)' /\ v.run \in Runs /\ run'[v.run].status # "none"
    BY <1>6, <1>9, <1>11 DEF Stored
  <2> QED
    BY <1>4, <1>11, <2>2, <2>3, <2>4, <2>5 DEF PassOK, Concerns
<1>14. PassInv'
  BY <1>2, <1>3, <1>11, <1>12, <1>13, OnePass
<1>15. OnceInv'
  <2>1. /\ pass'[p] = v /\ \A q \in Passes \ {p} : pass'[q] = pass[q]
    BY <1>3, <1>12
  <2>2. \A q \in Passes : pass'[q].todo \subseteq pass[q].todo /\ pass'[q].since = pass[q].since
    BY <1>11, <2>1
  <2>3. \A q \in Passes : pass[q].pc \in {"awaits", "advance"} => pass'[q] = pass[q]
    BY <1>2, <2>1
  <2> QED
    BY <1>2, <1>6, <1>9, <2>2, <2>3, NewRunOnce
<1>16. Scalars'
  BY <1>2 DEF Inv, Scalars
<1> QED
  BY <1>9, <1>14, <1>15, <1>16 DEF Inv

\* A run that is not committed has no token and no job.
LEMMA FreeRun ==
    ASSUME NEW r \in Runs, ~Committed(r)
    PROVE  token[r] = "none" /\ (\A x \in jobs : x.run # r) /\ ~(launches[r] > crashes)
BY DEF Committed

LEMMA RequestMade ==
    ASSUME Inv, NEW r \in Runs, ~Committed(r), NEW rows \in [Runs -> RunRow],
           rows[r].status \notin {"none", "gone"}, rows[r].auto \in Autos,
           OthersKept(rows, r), NEW by \in Passes \cup {"none"}, RequestDispatch(rows, r, by),
           \A x \in jobs : x.pass # "none" => x.pass # by /\ pass'[x.pass] = pass[x.pass],
           by # "none" /\ (\E x \in jobs' : x.pass = by) =>
               pass'[by].pc = "awaits" /\ pass'[by].run = r,
           UNCHANGED <<headless, ready, auto, launches, crashes>>
    PROVE  /\ StoreInv' /\ LaunchInv' /\ TokenInv' /\ JobInv'
           /\ \A s \in Runs \ {r} : Committed(s)' => Committed(s)
           /\ run'[r].auto = rows[r].auto /\ run'[r].at = rows[r].at
           /\ run' \in [Runs -> RunRow] /\ run'[r].status \notin {"none", "gone"}
           /\ OthersKept(run', r)
<1> DEFINE Kept == /\ run' \in [Runs -> RunRow] /\ OthersKept(run', r)
                   /\ run'[r].auto = rows[r].auto /\ run'[r].at = rows[r].at
                   /\ run'[r].status \notin {"none", "gone"}
<1>0. launches[r] =< crashes
  BY FreeRun, Numbers DEF Inv, LaunchInv, Scalars
<1>1. ASSUME NEW status \in {"final", "dispatching"}, run' = Update(rows, r, status)
      PROVE  Kept /\ run'[r].status = status
  <2>1. status \in Statuses \ {"none", "gone"}
    BY DEF Statuses
  <2>2. /\ run' \in [Runs -> RunRow] /\ \A s \in Runs \ {r} : run'[s] = rows[s]
        /\ run'[r].auto = rows[r].auto /\ run'[r].at = rows[r].at /\ run'[r].status = status
    BY <1>1, <2>1, UpdateRows
  <2> QED
    BY <2>1, <2>2 DEF OthersKept
<1>2. CASE run' = Update(rows, r, "final") /\ UNCHANGED <<jobs, token>>
  <2>1. {} \in SUBSET Job /\ jobs' = jobs \cup {} /\ token' = token
    BY <1>2
  <2>2. Kept
    BY <1>1, <1>2
  <2> HIDE DEF Kept
  <2>3. /\ StoreInv' /\ LaunchInv' /\ TokenInv' /\ JobInv'
        /\ \A s \in Runs \ {r} : Committed(s)' => Committed(s)
    BY <2>1, <2>2, NewRun DEF Kept
  <2> QED
    BY <2>2, <2>3 DEF Kept
<1>3. ASSUME ready, run' = Update(rows, r, "dispatching"), token' = [token EXCEPT ![r] = "free"],
             jobs' = jobs \cup {[run |-> r, auto |-> rows[r].auto, pc |-> "sent",
                                pass |-> "none", found |-> rows[r].status]}
      PROVE  /\ StoreInv' /\ LaunchInv' /\ TokenInv' /\ JobInv'
             /\ \A s \in Runs \ {r} : Committed(s)' => Committed(s)
             /\ Kept
  <2>1. PICK k : k = [run |-> r, auto |-> rows[r].auto, pc |-> "sent", pass |-> "none",
                      found |-> rows[r].status]
    OBVIOUS
  <2>2. /\ k \in Job /\ k.run = r /\ k.auto = rows[r].auto /\ k.pc = "sent"
        /\ k.pass = "none"
    BY <2>1 DEF Job, Live, RunRow
  <2>3. Kept /\ run'[r].status = "dispatching"
    BY <1>1, <1>3
  <2> HIDE DEF Kept
  <2>4. RowOK(k)'
    BY <2>2, <2>3 DEF Kept, RowOK, Stored
  <2>5. TurnOK(k)'
    BY <1>0, <2>2 DEF TurnOK
  <2>6. {k} \in SUBSET Job /\ jobs' = jobs \cup {k}
    BY <1>3, <2>1, <2>2
  <2>7. /\ StoreInv' /\ LaunchInv' /\ TokenInv' /\ JobInv'
        /\ \A s \in Runs \ {r} : Committed(s)' => Committed(s)
    <3>1. PICK N \in SUBSET Job : N = {k}
      BY <2>2
    <3>2. /\ jobs' = jobs \cup N /\ \A x, y \in N : x = y
          /\ \A x \in N : x.run = r /\ RowOK(x)' /\ TurnOK(x)'
      BY <2>2, <2>4, <2>5, <2>6, <3>1
    <3>3. /\ run' \in [Runs -> RunRow] /\ OthersKept(run', r) /\ run'[r].auto \in Autos
          /\ run'[r].status \notin {"none", "gone"}
      BY <2>3 DEF Kept
    <3> QED
      BY <1>3, <2>3, <3>2, <3>3, NewRun
  <2> QED
    BY <2>3, <2>7
<1>4. ASSUME headless, auto[rows[r].auto].exists, run' = rows, UNCHANGED token,
             jobs' = jobs \cup {[run |-> r, auto |-> rows[r].auto, pass |-> by,
                                found |-> rows[r].status,
                                pc |-> IF rows[r].at = 0 THEN "launch" ELSE "precheck"]}
      PROVE  /\ StoreInv' /\ LaunchInv' /\ TokenInv' /\ JobInv'
             /\ \A s \in Runs \ {r} : Committed(s)' => Committed(s)
             /\ Kept
  <2>1. PICK k : k = [run |-> r, auto |-> rows[r].auto, pass |-> by, found |-> rows[r].status,
                      pc |-> IF rows[r].at = 0 THEN "launch" ELSE "precheck"]
    OBVIOUS
  <2>2. /\ k \in Job /\ k.run = r /\ k.auto = rows[r].auto /\ k.pc \in {"launch", "precheck"}
        /\ k.pass = by /\ k.found = rows[r].status
    BY <2>1 DEF Job, Live, RunRow
  <2>3. Kept /\ run'[r] = rows[r]
    BY <1>4
  <2> HIDE DEF Kept
  <2>4. RowOK(k)'
    BY <1>4, <2>2, <2>3 DEF Kept, RowOK, Stored
  <2>5. {k} \in SUBSET Job /\ jobs' = jobs \cup {k}
    BY <1>4, <2>1, <2>2
  <2>6. TurnOK(k)'
    BY <1>0, <1>4, <2>2, <2>5 DEF TurnOK
  <2>7. /\ StoreInv' /\ LaunchInv' /\ TokenInv' /\ JobInv'
        /\ \A s \in Runs \ {r} : Committed(s)' => Committed(s)
    <3>1. PICK N \in SUBSET Job : N = {k}
      BY <2>2
    <3>2. /\ jobs' = jobs \cup N /\ \A x, y \in N : x = y
          /\ \A x \in N : x.run = r /\ RowOK(x)' /\ TurnOK(x)'
      BY <2>2, <2>4, <2>5, <2>6, <3>1
    <3>3. /\ run' \in [Runs -> RunRow] /\ OthersKept(run', r) /\ run'[r].auto \in Autos
          /\ run'[r].status \notin {"none", "gone"}
      BY <2>3 DEF Kept
    <3> QED
      BY <1>4, <2>3, <3>2, <3>3, NewRun
  <2> QED
    BY <2>3, <2>7
<1> QED
  BY <1>2, <1>3, <1>4 DEF RequestDispatch

\* A pass that has found or created its run moves on to v, with the run dispatched or not.
LEMMA AfterDispatch ==
    ASSUME Inv, NEW p \in Passes, pass[p].pc = "dispatch", NEW pc \in {"awaits", "advance"},
           pass' = [pass EXCEPT ![p].pc = pc], UNCHANGED <<auto, evaluating>>,
           run' \in [Runs -> RunRow], run'[pass[p].run].status \notin {"none", "gone"},
           run'[pass[p].run].auto = run[pass[p].run].auto,
           run'[pass[p].run].at = run[pass[p].run].at, OthersKept(run', pass[p].run),
           \A s \in Runs \ {pass[p].run} : Committed(s)' => Committed(s)
    PROVE  PassInv' /\ OnceInv'
<1> DEFINE w == pass[p]
<1>1. /\ w \in PassRow /\ PassOK(w) /\ evaluating = TRUE /\ pass \in [Passes -> PassRow]
      /\ \A q \in Passes \ {p} : pass[q].pc = "idle" /\ pass[q].todo = {}
  BY OthersIdle DEF Inv, PassInv, PassOK
<1>2. PICK r \in Runs : r = w.run
  BY <1>1 DEF PassOK, Handling
<1>3. /\ Stored(r) /\ w.auto \in Autos \ w.todo /\ w.auto = run[r].auto
      /\ run[r].at \in Occurrences /\ run[r].at =< w.since
  BY <1>1, <1>2 DEF PassOK, Handling
<1>4. PICK v : v = [w EXCEPT !.pc = pc]
  OBVIOUS
<1>5. /\ v \in PassRow /\ v.pc = pc /\ v.todo = w.todo /\ v.since = w.since /\ v.auto = w.auto
      /\ v.run = r /\ v.pc \in Handling
  BY <1>1, <1>2, <1>4 DEF PassRow, Handling
<1>6. pass' = [pass EXCEPT ![p] = v]
  BY <1>4
<1>7. pass'[p] = v /\ \A q \in Passes \ {p} : pass'[q] = pass[q]
  BY <1>1, <1>6
<1>8. PassOK(v)'
  <2>1. Concerns(v) = Concerns(w)
    BY <1>5 DEF Concerns, Handling
  <2>2. \A b \in Concerns(v) : auto'[b].exists => auto'[b].next =< v.since
    BY <1>1, <1>5, <2>1 DEF PassOK
  <2>3. v.todo # {} => \E o \in Occurrences : o =< v.since
    BY <1>1, <1>5 DEF PassOK
  <2>4. /\ v.auto \in Autos \ v.todo /\ v.run \in Runs /\ run'[v.run].status # "none"
        /\ run'[v.run].auto = v.auto /\ run'[v.run].at \in Occurrences
        /\ run'[v.run].at =< v.since
    BY <1>2, <1>3, <1>5
  <2> QED
    BY <1>5, <2>2, <2>3, <2>4 DEF PassOK, Concerns
<1>9. PassInv'
  <2>1. evaluating' = (v.pc # "idle")
    BY <1>1, <1>5
  <2> QED
    BY <1>1, <1>5, <1>6, <1>8, <2>1, OnePass
<1>10. OnceInv'
  <2>1. \A q \in Passes : pass'[q].todo \subseteq pass[q].todo /\ pass'[q].since = pass[q].since
    BY <1>5, <1>7
  <2>2. \A q \in Passes : pass[q].pc \in {"awaits", "advance"} => pass'[q] = pass[q]
    BY <1>1, <1>7
  <2>3. MovesOn(r)'
    BY <1>5, <1>7 DEF MovesOn
  <2>4. \A q \in Passes : run'[r].auto \notin pass'[q].todo
    BY <1>1, <1>2, <1>3, <1>5, <1>7
  <2> QED
    BY <1>2, <2>1, <2>2, <2>3, <2>4, NewRunOnce
<1> QED
  BY <1>9, <1>10

LEMMA DispatchFacts ==
    ASSUME Inv, NEW p \in Passes, pass[p].pc = "dispatch"
    PROVE  /\ pass[p].run \in Runs /\ Stored(pass[p].run) /\ ~Committed(pass[p].run)
           /\ run[pass[p].run].auto \in Autos /\ run \in [Runs -> RunRow]
           /\ OthersKept(run, pass[p].run)
           /\ \A x \in jobs : x.pass # "none" => x.pass \in Passes \ {p}
<1>1. \A x \in jobs : x.pass # "none" => x.pass \in Passes \ {p}
  BY JobFacts DEF TurnOK
<1> QED
  BY <1>1 DEF Inv, StoreInv, PassInv, PassOK, Handling, OthersKept

LEMMA DispatchDueInv ==
    ASSUME Inv, NEW p \in Passes, DispatchDue(p)
    PROVE  Inv'
<1>1. PICK r \in Runs : r = pass[p].run
  BY DispatchFacts DEF DispatchDue
<1>2. /\ pass[p].pc = "dispatch" /\ RequestDispatch(run, r, p)
      /\ UNCHANGED <<headless, now, ready, auto, evaluating, launches, manual, crashes>>
  BY <1>1 DEF DispatchDue, counters
<1>3. PICK pc \in {"awaits", "advance"} :
          /\ pass' = [pass EXCEPT ![p].pc = pc]
          /\ pc = "awaits" <=> \E j \in jobs' : j.pass = p
  BY DEF DispatchDue
<1>4. pass \in [Passes -> PassRow]
  BY DEF Inv, PassInv
<1>5. /\ pass'[p] = [pass[p] EXCEPT !.pc = pc] /\ pass'[p].pc = pc /\ pass'[p].run = r
      /\ \A q \in Passes \ {p} : pass'[q] = pass[q]
  BY <1>1, <1>3, <1>4 DEF PassRow
<1>6. /\ ~Committed(r) /\ run \in [Runs -> RunRow] /\ run[r].status \notin {"none", "gone"}
      /\ run[r].auto \in Autos /\ OthersKept(run, r)
  BY <1>1, <1>2, DispatchFacts DEF Stored
<1>7. \A x \in jobs : x.pass # "none" => x.pass # p /\ pass'[x.pass] = pass[x.pass]
  BY <1>2, <1>5, DispatchFacts
<1>8. (\E x \in jobs' : x.pass = p) => pass'[p].pc = "awaits" /\ pass'[p].run = r
  BY <1>3, <1>5
<1>9. /\ StoreInv' /\ LaunchInv' /\ TokenInv' /\ JobInv'
      /\ \A s \in Runs \ {r} : Committed(s)' => Committed(s)
      /\ run'[r].auto = run[r].auto /\ run'[r].at = run[r].at
      /\ run' \in [Runs -> RunRow] /\ run'[r].status \notin {"none", "gone"}
      /\ OthersKept(run', r)
  BY <1>2, <1>6, <1>7, <1>8, RequestMade
<1>10. PassInv' /\ OnceInv'
  BY <1>1, <1>2, <1>3, <1>9, AfterDispatch
<1>11. Scalars'
  BY <1>2 DEF Inv, Scalars
<1> QED
  BY <1>9, <1>10, <1>11 DEF Inv

LEMMA SkipMissedInv ==
    ASSUME Inv, NEW p \in Passes, SkipMissed(p)
    PROVE  Inv'
<1>1. PICK r \in Runs : r = pass[p].run
  BY DispatchFacts DEF SkipMissed
<1>2. /\ pass[p].pc = "dispatch" /\ run' = Update(run, r, "final")
      /\ pass' = [pass EXCEPT ![p].pc = "advance"]
      /\ UNCHANGED <<headless, now, ready, auto, evaluating, launches, manual, crashes, jobs,
                     token>>
  BY <1>1 DEF SkipMissed, counters, sender
<1>3. /\ ~Committed(r) /\ run \in [Runs -> RunRow] /\ run[r].status \notin {"none", "gone"}
      /\ run[r].auto \in Autos
      /\ \A x \in jobs : x.pass # "none" => x.pass \in Passes \ {p}
  BY <1>1, <1>2, DispatchFacts DEF Stored
<1>4. "final" \in Statuses \ {"none", "gone"}
  BY DEF Statuses
<1>5. /\ run' \in [Runs -> RunRow] /\ OthersKept(run', r)
      /\ run'[r].auto = run[r].auto /\ run'[r].at = run[r].at /\ run'[r].status = "final"
  BY <1>2, <1>3, <1>4, UpdateRows DEF OthersKept
<1>6. \A x \in jobs : x.pass # "none" => pass'[x.pass] = pass[x.pass]
  <2>1. pass \in [Passes -> PassRow]
    BY DEF Inv, PassInv
  <2> QED
    BY <1>2, <1>3, <2>1
<1>7. /\ StoreInv' /\ LaunchInv' /\ TokenInv' /\ JobInv'
      /\ \A s \in Runs \ {r} : Committed(s)' => Committed(s)
  <2>1. {} \in SUBSET Job /\ jobs' = jobs \cup {} /\ token' = token
    BY <1>2
  <2> QED
    BY <1>2, <1>3, <1>5, <1>6, <2>1, NewRun
<1>8. PassInv' /\ OnceInv'
  BY <1>1, <1>2, <1>5, <1>7, AfterDispatch
<1>9. Scalars'
  BY <1>2 DEF Inv, Scalars
<1> QED
  BY <1>7, <1>8, <1>9 DEF Inv

\* A run by hand is new, and of no occurrence.
LEMMA RunNowInv ==
    ASSUME Inv, NEW a \in Autos, RunNow(a)
    PROVE  Inv'
<1>1. PICK r \in Runs : \E rows \in CreateAutomationRun(r, a, 0) : RequestDispatch(rows, r, "none")
  BY DEF RunNow
<1>2. PICK rows \in CreateAutomationRun(r, a, 0) : RequestDispatch(rows, r, "none")
  BY <1>1
<1>3. /\ Quiet /\ manual < MaxManual /\ manual' = manual + 1
      /\ UNCHANGED <<headless, now, ready, auto, evaluating, pass, launches, crashes>>
  BY DEF RunNow
<1>4. /\ rows \in [Runs -> RunRow] /\ OthersKept(rows, r) /\ rows[r].auto = a
      /\ rows[r].at = 0 /\ rows[r].status \notin {"none", "gone"} /\ run[r].status = "none"
  BY CreatedRows
<1>5. ~Committed(r)
  BY <1>4 DEF Inv, StoreInv
<1>6. \A x \in jobs : x.pass # "none" => x.pass # "none" /\ pass'[x.pass] = pass[x.pass]
  BY <1>3
<1>7. /\ StoreInv' /\ LaunchInv' /\ TokenInv' /\ JobInv'
      /\ \A s \in Runs \ {r} : Committed(s)' => Committed(s)
      /\ run'[r].at = 0 /\ OthersKept(run', r)
  BY <1>2, <1>3, <1>4, <1>5, <1>6, RequestMade
<1>8. OnceInv'
  BY <1>3, <1>7, NewRunOnce
<1>9. PassInv'
  <2>1. \A p \in Passes : pass[p] \in PassRow /\ PassOK(pass[p]) /\ pass[p].pc # "dispatch"
    BY <1>3 DEF Inv, PassInv, Quiet
  <2>2. ASSUME NEW p \in Passes PROVE PassOK(pass[p])'
    <3>1. PICK w : w = pass[p]
      OBVIOUS
    <3>2. PassOK(w) /\ w.pc # "dispatch" /\ pass'[p] = w
      BY <1>3, <2>1, <3>1
    <3>3. ASSUME w.pc \in Handling
          PROVE  /\ w.auto \in Autos \ w.todo /\ w.run \in Runs /\ run'[w.run].status # "none"
                 /\ Stored(w.run)' =>
                        run'[w.run].auto = w.auto /\ run'[w.run].at \in Occurrences
                        /\ run'[w.run].at =< w.since
      <4>1. w.run \in Runs \ {r} /\ run[w.run].status # "none"
        BY <1>4, <3>2, <3>3 DEF PassOK
      <4> QED
        BY <1>7, <3>2, <3>3, <4>1, GoneFacts DEF PassOK, OthersKept, Stored
    <3>4. PassOK(w)'
      BY <1>3, <3>2, <3>3 DEF PassOK, Concerns
    <3> QED
      BY <3>2, <3>4
  <2> QED
    BY <1>3, <2>2 DEF Inv, PassInv
<1>10. Scalars'
  BY <1>3, Numbers DEF Inv, Scalars
<1> QED
  BY <1>7, <1>8, <1>9, <1>10 DEF Inv

-----------------------------------------------------------------------------
(* The theorems.                                                           *)

LEMMA NextInv == Inv /\ [Next]_vars => Inv'
<1> SUFFICES ASSUME Inv, [Next]_vars PROVE Inv'
  OBVIOUS
<1>1. ASSUME NEW p \in Passes, StartPass(p) \/ PassStep(p) PROVE Inv'
  BY <1>1, StartPassInv, CreateRunInv, SkipMissedInv, DispatchDueInv, PrecheckThrowsInv,
     AdvanceNextRunInv DEF PassStep
<1>2. ASSUME NEW a \in Autos, RunNow(a) \/ SetEnabled(a) \/ DeleteAutomation(a) PROVE Inv'
  BY <1>2, RunNowInv, SetEnabledInv, DeleteAutomationInv
<1>3. ASSUME NEW j \in jobs, HeadlessStep(j) PROVE Inv'
  BY <1>3, PrecheckPassesInv, JobFailsInv, HeadlessReturnsInv DEF HeadlessStep
<1>4. ASSUME NEW j \in jobs, WindowStep(j) PROVE Inv'
  BY <1>4, EndMarkedInv, CreateStartsInv, CreateEndsInv, MarkDispatchedInv DEF WindowStep
<1>5. ASSUME NEW j \in jobs, LaunchAgent(j) \/ AgentDone(j) \/ MarkEnd(j) PROVE Inv'
  BY <1>5, LaunchAgentInv, AgentDoneInv, EndMarkedInv
<1>6. ASSUME NEW r \in Runs, PageMarks(r) PROVE Inv'
  BY <1>6, PageMarksInv
<1>7. CASE Tick \/ RendererReady \/ RendererGone \/ Crash
  BY <1>7, ClockInv, CrashInv
<1>8. CASE UNCHANGED vars
  <2>1. UNCHANGED <<headless, now, auto, run, sender, launches, counters>> /\ UNCHANGED pass
        /\ UNCHANGED evaluating
    BY <1>8 DEF vars
  <2>2. PassInv' /\ OnceInv'
    <3>1. UNCHANGED <<auto, run, jobs, token, launches, crashes, pass, evaluating>>
      BY <2>1 DEF sender, counters
    <3>2. \A p \in Passes : pass[p].pc = "dispatch" => Stored(pass[p].run)
      BY DispatchFacts
    <3>3. \A r \in Runs : (Committed(r)' <=> Committed(r)) /\ (Stored(r)' <=> Stored(r))
      BY <3>1 DEF Committed, Stored
    <3>4. PassesGoOn
      BY <3>1, <3>2, <3>3, DispatchFacts DEF Inv, PassInv, PassesGoOn
    <3> QED
      BY <3>1, <3>3, <3>4, RowsStay, AutosStay, PassesStayOK, OnceGoesOn DEF CommitsKept
  <2> QED
    BY <2>1, <2>2, PassMoveInv
<1> QED
  BY <1>1, <1>2, <1>3, <1>4, <1>5, <1>6, <1>7, <1>8 DEF Next

\* Every row, pass, job and token is of its type; a pass is under way exactly while
\* evaluateDueRuns holds its flag, and a token is left only of a run that is dispatching.
THEOREM AutomationTypes == Spec => []TypeOK
<1> QED
  BY InitInv, NextInv, InvTypes, PTL DEF Spec

\* However passes, manual runs, lost windows and crashes interleave, requestDispatch and
\* its handler launch an agent for a run once, and once more at most for every crash.
THEOREM LaunchedAtMostOnce == Spec => []LaunchedOnce
<1> QED
  BY InitInv, NextInv, InvTypes, PTL DEF Spec

\* pruneAutomationRuns never takes the row of a run whose agent is on its way or works,
\* unless the run was final when it was dispatched again after a crash.
THEOREM LiveRowKept == Spec => []LiveRunKept
<1> QED
  BY InitInv, NextInv, InvTypes, PTL DEF Spec

=============================================================================
