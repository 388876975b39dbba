---------------------------- MODULE TerminalLease ----------------------------
(***************************************************************************)
(* What the dispatch tables promise about terminals, and nothing else: a   *)
(* dispatch is a lease on a terminal.  A lease is granted under a fresh id *)
(* and only while no lease conflicts with it (the same handle, or the same *)
(* pane behind another handle); a lease that ended never comes back.       *)
(***************************************************************************)
EXTENDS Naturals

CONSTANTS
    Holders,            \* what a lease is taken on
    Conflict(_, _)      \* two leases that may not be held together

VARIABLES
    granted,    \* how many leases were granted so far: their ids are 1..granted
    holder,     \* id -> what it was granted on
    held        \* the ids whose lease has not ended

leaseVars == <<granted, holder, held>>

LeaseInit ==
    /\ granted = 0
    /\ holder = [i \in {} |-> {}]
    /\ held = {}

\* Grant a new lease on x.
Grant(x) ==
    /\ \A i \in held : ~Conflict(holder[i], x)
    /\ granted' = granted + 1
    /\ holder' = [i \in 1 .. granted + 1 |-> IF i = granted + 1 THEN x ELSE holder[i]]
    /\ held' = held \cup {granted + 1}

\* End some leases.
Release ==
    /\ held' \subseteq held
    /\ UNCHANGED <<granted, holder>>

LeaseNext == Release \/ \E x \in Holders : Grant(x)

LeaseSpec == LeaseInit /\ [][LeaseNext]_leaseVars

=============================================================================
