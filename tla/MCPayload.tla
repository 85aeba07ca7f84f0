------------------------------ MODULE MCPayload ------------------------------
(* A small instance of PayloadAccess for TLC. *)
EXTENDS PayloadProperties, TLC

CONSTANTS rawFile, thumbFile

\* What the capture handlers store: an image with and without a thumbnail, rich
\* text longer and shorter than a preview, plain text, a list of files.
CapturedPayloads ==
  LET row(kind, inline, raw, thumb, paths) ==
        [kind |-> kind, inline |-> inline, raw |-> raw, thumb |-> thumb, paths |-> paths]
  IN {row("image", NoText, rawFile, thumbFile, << >>),
      row("html", <<" ", "a", " ", "b">>, rawFile, NoRef, << >>),
      row("text", <<"a", "b", "c">>, NoRef, NoRef, << >>),
      row("text", <<" ", " ", " ", "a">>, NoRef, NoRef, << >>),
      row("file_list", NoText, NoRef, NoRef, <<"a", "b", "c">>),
      row("unknown", NoText, rawFile, NoRef, << >>)}

Symmetry == Permutations(Workspace)
=============================================================================
