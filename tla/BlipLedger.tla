----------------------------- MODULE BlipLedger -----------------------------
(***************************************************************************)
(* What the local blip store promises its users, with every table, clock   *)
(* and log left out: who has custody of each captured blip.                *)
(*                                                                         *)
(* A blip enters exactly one workspace when it is captured, is handed from *)
(* workspace to workspace one at a time, and leaves for good, either       *)
(* because somebody discards it or because the workspace that holds it     *)
(* limits how long it keeps things.  BlipStore implements this module.     *)
(***************************************************************************)

CONSTANTS Workspace,   \* names a workspace can have
          Blip,        \* identities a captured blip can get
          Unseen,      \* custody of a blip that was never captured
          Gone         \* custody of a blip that was removed

VARIABLES spaces,      \* the workspaces that exist
          timed,       \* those that remove their blips after a while
          custody      \* for each blip: Unseen, its workspace, or Gone

vars == <<spaces, timed, custody>>

Init ==
  /\ spaces = {}
  /\ timed = {}
  /\ custody = [b \in Blip |-> Unseen]

\* A new workspace; whether it limits the life of its blips is settled here.
Create(w, keeps) ==
  /\ w \notin spaces
  /\ spaces' = spaces \cup {w}
  /\ timed' = IF keeps THEN timed ELSE timed \cup {w}
  /\ UNCHANGED custody

Capture(b, w) ==
  /\ custody[b] = Unseen
  /\ w \in spaces
  /\ custody' = [custody EXCEPT ![b] = w]
  /\ UNCHANGED <<spaces, timed>>

Route(b, w) ==
  /\ custody[b] \in spaces
  /\ w \in spaces
  /\ custody' = [custody EXCEPT ![b] = w]
  /\ UNCHANGED <<spaces, timed>>

Discard(b) ==
  /\ custody[b] \in spaces
  /\ custody' = [custody EXCEPT ![b] = Gone]
  /\ UNCHANGED <<spaces, timed>>

\* Only workspaces with a limited life lose blips nobody discarded.
Expire(D) ==
  /\ \A b \in D : custody[b] \in timed
  /\ custody' = [b \in Blip |-> IF b \in D THEN Gone ELSE custody[b]]
  /\ UNCHANGED <<spaces, timed>>

Next ==
  \/ \E w \in Workspace, keeps \in BOOLEAN : Create(w, keeps)
  \/ \E b \in Blip, w \in Workspace : Capture(b, w) \/ Route(b, w)
  \/ \E b \in Blip : Discard(b)
  \/ \E D \in SUBSET Blip : Expire(D)

Spec == Init /\ [][Next]_vars
=============================================================================
