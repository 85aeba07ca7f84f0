-------------------------------- MODULE MCCloud --------------------------------
(* Small instances of CloudService for TLC. *)
EXTENDS CloudProperties, TLC

\* Members are interchangeable, and so are blips.
Symmetry == Permutations(Member) \cup Permutations(HostedBlip)
=============================================================================
