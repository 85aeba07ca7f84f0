------------------------------ MODULE MCCapture ------------------------------
(* Small instances of Capture for TLC. *)
EXTENDS CaptureProperties

CONSTANT Page \* the contents that are html

\* A text on its own and with its html, an image, files, and nothing.
Offers ==
  {[text |-> c] : c \in Text} \cup {[html |-> p, text |-> c] : p \in Page, c \in Text}
    \cup {[image |-> i] : i \in Image} \cup {[file_list |-> f, text |-> c] : f \in Other \ Page, c \in Text}
    \cup {<< >>}

\* All images have the same width and height.
SameDimensions == [i \in Image |-> "256x256"]
=============================================================================
