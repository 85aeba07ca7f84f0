------------------------------- MODULE MCDesktop -------------------------------
(* Two workspaces and two blips, one to a page, of two types. *)
EXTENDS DesktopProperties, TLC

CONSTANTS inbox, w1, b1, b2

\* A fresh installation with two blips, and one with a blip where w1 was left active.
SmallStart ==
  {[sortAt |-> (b1 :> 2 @@ b2 :> 1), workspaces |-> {inbox}, active |-> inbox],
   [sortAt |-> (b1 :> 1 @@ b2 :> 0), workspaces |-> {inbox, w1}, active |-> w1]}
SmallTypes == b1 :> "text" @@ b2 :> "code"
SmallFilters ==
  {[ws |-> inbox, types |-> {"code"}, valid |-> TRUE], [ws |-> All, types |-> {}, valid |-> FALSE]}
=============================================================================
