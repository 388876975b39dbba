------------------------- MODULE MCDispatchLifecycle -------------------------
(***************************************************************************)
(* A small instance of DispatchLifecycle: h1 and h2 are two handles of one *)
(* pane (the pane was broken out of its tab and its handle reissued), h3   *)
(* is another terminal whose pane does not resolve, other a pane nothing   *)
(* is dispatched to.                                                       *)
(***************************************************************************)
EXTENDS DispatchLifecycle, TLC

CONSTANTS h1, h2, h3, tab1, tab2, other

MCHandles  == {h1, h2, h3}
MCPaneKeys == {tab1, tab2, other}
MCLeafOf   == (tab1 :> "A") @@ (tab2 :> "A") @@ (other :> "B")
MCKeysOf   == (h1 :> {tab1}) @@ (h2 :> {tab2}) @@ (h3 :> {NoPane})

MCOverrideTo == {"ready", "completed"}
NoOverride   == {}

\* No operator tells one task id from another.
TaskSymmetry == Permutations(Tasks)

=============================================================================
