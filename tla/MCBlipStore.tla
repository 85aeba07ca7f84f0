----------------------------- MODULE MCBlipStore -----------------------------
(* A small instance of BlipStore for TLC. *)
EXTENDS BlipStoreProperties, TLC

CONSTANTS inbox, work, b1, b2, p0, p1

MCWorkspace == {inbox, work}
MCPolicy == {p0, p1}
\* A workspace that keeps its blips for the day, readable by agents from the
\* start, one that keeps them forever, and one that is refused.
MCRequest == {[access |-> "enabled", sticky |-> "disabled", keep |-> 0],
              [access |-> "disabled", sticky |-> "disabled", keep |-> NoRetention],
              [access |-> "enabled", sticky |-> "disabled", keep |-> -2]}
BlipSymmetry == Permutations(Blip)
=============================================================================
