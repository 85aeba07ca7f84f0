-------------------------------- MODULE MCHosted -------------------------------
(* A small instance of HostedSystem for TLC. *)
EXTENDS HostedProperties, TLC

\* Members are interchangeable, and so are daemons.
Symmetry == Permutations(Member) \cup Permutations(Daemon)

\* Bound: the page gives up on a join that has no answer once no code is left that
\* could let it in.  Nothing is lost by it: such a join can only be refused.
JoinCanSucceed ==
  Unanswered \in joins =>
    \/ \E k \in Code : Redeemable(k)
    \/ pc # "idle" /\ request.change.type = "member_joined"

\* Bound: the one code invites an editor.  Nothing is lost by it: a viewer does
\* less, and an owner could only do what there is no code left for.
InvitesEditors == \A k \in Code : codes[k] # NoCode => codes[k].role = "editor"
=============================================================================
