---------------------------- MODULE PayloadSummaries ----------------------------
(***************************************************************************)
(* What the daemon shows of a payload without giving its bytes away: the    *)
(* PayloadSummary of blip-daemon, made for a list from a projection of the  *)
(* row that SQLite computes, and for one blip from the row itself.  The     *)
(* code has two copies of every function here, one for each kind of row;    *)
(* both are the operator below, applied to Projected(p) or to p.            *)
(*                                                                          *)
(* A text is a sequence of characters, of which only Blank and the rest are *)
(* told apart.  MIME types, sizes, dimensions, policies and fallbacks are   *)
(* copied from the row as they are and left out.                            *)
(***************************************************************************)
EXTENDS Integers, Sequences, FiniteSetsExt

CONSTANTS Ref,           \* blob references
          NoRef,
          Char,          \* characters, and the names paths are made of
          NoText,        \* inline_text without a value
          PreviewChars,  \* DEFAULT_PAYLOAD_INLINE_PREVIEW_CHARS and PAYLOAD_PREVIEW_TEXT_LIMIT
          PathLimit      \* FILE_LIST_PREVIEW_PATH_LIMIT, and the paths the query names

ASSUME SummaryAssumption == PreviewChars \in Nat /\ PathLimit \in Nat
Blank == " "
Dots == "..."
ASSUME CharAssumption == Blank \in Char /\ Dots \in Char
ASSUME NullAssumption == NoRef \notin Ref /\ NoText \notin Seq(Char)

Kind == {"text", "html", "rtf", "image", "file_list", "unknown"}
Textual == {"text", "html", "rtf"}
Visibility == {"hidden", "metadata", "safe_preview"}

\* A row of blip_payloads.
PayloadRow ==
  [kind : Kind, inline : Seq(Char) \cup {NoText}, raw : Ref \cup {NoRef},
   thumb : Ref \cup {NoRef}, paths : Seq(Char)]

\* What the store takes: the text of a captured blip (insert_text_payload), bytes
\* with a file of their own (insert_blob_payload), and metadata without one
\* (insert_metadata_payload).
TextRows ==
  {p \in PayloadRow : p.kind = "text" /\ p.inline # NoText /\ p.raw = NoRef /\ p.thumb = NoRef}
BlobRows ==
  {p \in PayloadRow : /\ p.kind \in {"image", "html", "rtf", "unknown"}
                      /\ p.raw # NoRef
                      /\ p.kind \notin Textual => p.inline = NoText}
MetadataRows ==
  {p \in PayloadRow : p.kind \in {"file_list", "unknown"} /\ p.inline = NoText /\ p.raw = NoRef}

Take(s, n) == SubSeq(s, 1, IF Len(s) < n THEN Len(s) ELSE n)

\* str::trim, and truncate_chars, which marks what it cuts.
Trim(s) ==
  LET marks == {i \in DOMAIN s : s[i] # Blank}
  IN IF marks = {} THEN << >> ELSE SubSeq(s, Min(marks), Max(marks))
Truncate(s) == IF Len(s) > PreviewChars THEN Append(Take(s, PreviewChars), Dots) ELSE s

\* Mutant: the query names one path too few.
ProjectedPathShort(p) ==
  [p EXCEPT !.inline = IF @ = NoText THEN NoText ELSE Take(@, PreviewChars),
            !.paths = Take(@, PathLimit - 1)]

\* The row of get_blip_payload_summaries_for_blips: substr(inline_text, 1, n)
\* and the first paths of the metadata.
Projected(p) ==
  [p EXCEPT !.inline = IF @ = NoText THEN NoText ELSE Take(@, PreviewChars),
            !.paths = Take(@, PathLimit)]

\* Mutant: a thumbnail that is gone is not noticed.
PreviewStateUnchecked(p, redacted, present) ==
  CASE redacted -> "redacted"
    [] ~redacted /\ p.raw # NoRef /\ p.raw \notin present -> "missing_blob"
    [] OTHER ->
         CASE p.kind = "text" -> "available"
           [] p.kind \in {"html", "rtf"} ->
                IF p.inline # NoText THEN "text_fallback" ELSE "unavailable"
           [] p.kind = "image" -> IF p.thumb # NoRef THEN "available" ELSE "unavailable"
           [] p.kind = "file_list" -> "metadata_only"
           [] p.kind = "unknown" -> "unsupported"

PreviewState(p, redacted, present) ==
  CASE redacted -> "redacted"
    [] ~redacted /\ p.raw # NoRef /\ p.raw \notin present -> "missing_blob"
    [] ~redacted /\ (p.raw # NoRef => p.raw \in present)
         /\ p.thumb # NoRef /\ p.thumb \notin present -> "unavailable"
    [] OTHER ->
         CASE p.kind = "text" -> "available"
           [] p.kind \in {"html", "rtf"} ->
                IF p.inline # NoText THEN "text_fallback" ELSE "unavailable"
           [] p.kind = "image" -> IF p.thumb # NoRef THEN "available" ELSE "unavailable"
           [] p.kind = "file_list" -> "metadata_only"
           [] p.kind = "unknown" -> "unsupported"

\* An image, a list of files and an unknown payload are described by kind, MIME
\* type, size, dimensions and count, which both rows hold.
Description(p) == <<p.kind>>

PreviewText(p, redacted) ==
  CASE redacted -> <<"[redacted]">>
    [] ~redacted /\ p.kind \in Textual /\ p.inline = NoText -> NoText
    [] ~redacted /\ p.kind \in Textual /\ p.inline # NoText -> Truncate(Trim(p.inline))
    [] ~redacted /\ p.kind \notin Textual -> Description(p)

MetadataPaths(p, redacted) ==
  IF redacted \/ p.kind # "file_list" THEN << >> ELSE Take(p.paths, PathLimit)

Summary(p, redacted, present) ==
  [kind |-> p.kind,
   state |-> PreviewState(p, redacted, present),
   text |-> PreviewText(p, redacted),
   thumb |-> IF redacted THEN NoRef ELSE p.thumb,
   hasBlob |-> p.raw # NoRef,
   hasInline |-> p.inline # NoText,
   paths |-> MetadataPaths(p, redacted)]

\* apply_payload_visibility
Visible(s, visibility) ==
  IF visibility = "metadata" /\ s.kind # "text"
  THEN [s EXCEPT !.state = "metadata_only", !.text = NoText, !.thumb = NoRef]
  ELSE s

\* The payload in list_blips and search_blips, in get_blip, and by itself.
Listed(p, redacted, present, visibility) ==
  IF visibility = "hidden" THEN << >>
  ELSE <<Visible(Summary(Projected(p), redacted, present), visibility)>>
Detailed(p, redacted, present, visibility) ==
  IF visibility = "hidden" THEN << >>
  ELSE <<Visible(Summary(p, redacted, present), visibility)>>
Inspected(p, redacted, present, visibility) ==
  IF visibility = "hidden" /\ p.kind # "text" THEN << >>
  ELSE <<Visible(Summary(p, redacted, present), visibility)>>
=============================================================================
