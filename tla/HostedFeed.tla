------------------------------ MODULE HostedFeed ------------------------------
(***************************************************************************)
(* What a hosted workspace promises its members, with every table,          *)
(* statement and request left out: one feed of numbered changes, and        *)
(* nothing that the feed does not announce.                                 *)
(*                                                                          *)
(* A change is appended to the feed of its workspace in the same step that  *)
(* makes it, and the number of a published blip is its place in the feed.   *)
(* CloudService implements this module as long as no request is cut short.  *)
(***************************************************************************)
EXTENDS Naturals, Sequences

CONSTANTS Workspace,  \* hosted workspaces
          Item,       \* members, join codes and blips
          Change      \* [type, actor, target, tags]: what the feed can announce

VARIABLES feed,       \* for each workspace, its changes in order
          items,      \* the members, join codes and blips it has
          numbers     \* pairs of a blip and the number it carries

vars == <<feed, items, numbers>>

\* What a change brings into being.
Made(c) ==
  CASE c.type = "workspace_created" -> {c.actor}
    [] c.type \in {"member_joined", "join_code_created", "blip_published"} -> {c.target}
    [] OTHER -> {}

Init ==
  /\ feed = [w \in Workspace |-> << >>]
  /\ items = [w \in Workspace |-> {}]
  /\ numbers = {}

Announce(w, c) ==
  /\ feed' = [feed EXCEPT ![w] = Append(@, c)]
  /\ Made(c) \cap items[w] = {}
  /\ items' = [items EXCEPT ![w] = @ \cup Made(c)]
  /\ numbers' = IF c.type = "blip_published"
                THEN numbers \cup {<<c.target, Len(feed[w]) + 1>>} ELSE numbers

Next == \E w \in Workspace, c \in Change : Announce(w, c)

Spec == Init /\ [][Next]_vars
=============================================================================
