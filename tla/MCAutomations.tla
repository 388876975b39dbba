---------------------------- MODULE MCAutomations -----------------------------
(* Two automations with the same schedule, so that one can fail, be        *)
(* deleted or be awaited while the other is due.                           *)
EXTENDS Automations

CONSTANTS p1, p2

TwoOnAServer == [served \in BOOLEAN |-> IF served THEN {1, 2} ELSE {1}]
=============================================================================
