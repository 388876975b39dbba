------------------------------ MODULE InputPipe ------------------------------
(***************************************************************************)
(* What a session promises about its input, and nothing else: a pipe that  *)
(* gives its reader everything written so far, in order, or nothing new;   *)
(* and while it stays open it does so again and again.                     *)
(***************************************************************************)
EXTENDS Naturals, Sequences

VARIABLES
    open,       \* the session lives
    sent,       \* how many inputs were written to it
    got         \* what its reader was given

pipeVars == <<open, sent, got>>

Numbered(n) == [k \in 1 .. n |-> k]

PipeInit == open = FALSE /\ sent = 0 /\ got = << >>

\* A session may be created with its startup command already written.
Open ==
    /\ open = FALSE /\ open' = TRUE
    /\ sent' \in {0, 1}
    /\ got' \in {<< >>, Numbered(sent')}

Put ==
    /\ open = TRUE /\ open' = TRUE
    /\ sent' = sent + 1
    /\ got' \in {got, Numbered(sent')}

Get ==
    /\ open = TRUE /\ open' = TRUE
    /\ got # Numbered(sent)
    /\ got' = Numbered(sent)
    /\ sent' = sent

Close == open = TRUE /\ open' = FALSE /\ sent' = 0 /\ got' = << >>

PipeNext == Open \/ Put \/ Get \/ Close

PipeSpec == PipeInit /\ [][PipeNext]_pipeVars /\ WF_pipeVars(Get)

=============================================================================
