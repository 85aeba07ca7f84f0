-------------------------------- MODULE MCBlob --------------------------------
(* Small instances of BlobLifecycle for TLC. *)
EXTENDS BlobProperties, TLC

CONSTANTS photo, screenshot, thumb

\* Two images with the same thumbnail; the thumbnail may itself be copied to
\* the clipboard, and is too small to get another one.
MCPreview == (photo :> thumb) @@ (screenshot :> thumb) @@ (thumb :> NoRef)
Symmetry == Permutations(Proc) \cup Permutations(Blip)
=============================================================================
