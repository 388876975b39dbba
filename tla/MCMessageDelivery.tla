-------------------------- MODULE MCMessageDelivery --------------------------
(* A coordinator that waits for reports, and a client that reads everything. *)
EXTENDS MessageDelivery

CONSTANTS coordinator, inbox

MCFilterOf == [c \in {coordinator, inbox} |->
                  IF c = inbox THEN Types ELSE {"worker_done", "escalation"}]

=============================================================================
