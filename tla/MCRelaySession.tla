--------------------------- MODULE MCRelaySession ----------------------------
(* Two phones under one account, so that the outbox loop has a next item;  *)
(* the other account has no demand but a call under way.                   *)
EXTENDS RelaySession

CONSTANTS a1, a2, d1, d2, c1

PhonesOfOneAccount == [d \in {d1, d2} |-> a1]
=============================================================================
