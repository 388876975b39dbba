---------------------------- MODULE MCTerminalHost ----------------------------
(* Two clients and a few kill requests share one session id. *)
EXTENDS TerminalHost

=============================================================================
