---------------------------- MODULE PayloadProperties ----------------------------
(***************************************************************************)
(* What reading a payload promises: the properties TLC checks in MCPayload  *)
(* and TLAPS proves in PayloadProofs.                                       *)
(***************************************************************************)
EXTENDS PayloadAccess

Decisions == {"allowed", "denied", "missing_blob"}
AuditRow == [event : {"payload_preview_read", "payload_raw_exported", "agent_payload_read"},
             actor : Requester, ws : Workspace, decision : Decisions]
Outcome == {"none", "not_found", "access_denied", "unsupported_payload", "missing_blob",
            "payload_too_large", "bytes", "store_unavailable"}
Recorded == {"access_denied", "unsupported_payload", "missing_blob", "payload_too_large", "bytes"}
Moments ==
  [place : Workspace \cup {NoWorkspace}, agentAccess : [Workspace -> BOOLEAN],
   policy : [Workspace -> Policy], file : [Ref -> FileState]]

TypeOK ==
  /\ payload \in Payloads
  /\ Moment \in Moments
  /\ audit \in Seq(AuditRow)
  /\ pc \in {"idle", "answered"} \cup Lookup \cup Check \cup Access
  /\ request \in Request
  /\ outcome \in Outcome
  /\ ws \in Workspace \cup {NoWorkspace}
  /\ moments \subseteq Moments
  /\ mark \in Nat /\ requests \in Nat /\ changes \in Nat

(* What is true of a request between its steps *)

\* The rows the request in progress has written.
Written == SubSeq(audit, mark + 1, Len(audit))

\* At some moment of the request, the blip was in w, w showed its payloads so
\* far, let agents read, and let them have raw payloads.
WasIn(w) == \E m \in moments : m.place = w
WasVisible(w, enough) == \E m \in moments : m.policy[w].visibility \in enough
WasOpen(w) == \E m \in moments : m.agentAccess[w]
WasGranted(w) == \E m \in moments : m.policy[w].raw

\* The requests a check applies to.
Shown == request.requester # "agent"
Exports == request.requester = "agent" \/ request.access = "raw"
SeenAsAllowed ==
  Shown => WasVisible(ws, IF request.access = "preview" THEN {"safe_preview"}
                          ELSE {"metadata", "safe_preview"})

\* A located request passed the lookup; it passed each check it has left behind.
Located == pc \in Check \cup Access
Passed == pc \in {"stat", "read"} \/ (pc \in {"record", "answered"} /\ outcome = "bytes")
Progress ==
  /\ pc # "idle" => Moment \in moments
  /\ Located => ws \in Workspace /\ WasIn(ws)
  /\ pc = "visibility" => Shown
  /\ pc \in {"agent", "grant"} => Exports /\ SeenAsAllowed
  /\ pc = "grant" => WasOpen(ws)
  /\ Passed => /\ ws \in Workspace /\ WasIn(ws)
               /\ SeenAsAllowed
               /\ Exports => WasOpen(ws) /\ WasGranted(ws)

\* Rows are only written on the way to the answer, and say what it says.
Bookkeeping ==
  /\ mark <= Len(audit)
  /\ pc # "answered" => mark = Len(audit)
  /\ pc \in {"idle", "payload", "blip"} \cup Check \cup {"stat", "read"} => outcome = "none"
  /\ pc = "record" => outcome \in Recorded \cup {"store_unavailable"}
  /\ pc = "answered" /\ outcome # "store_unavailable" =>
       IF outcome \in Recorded
       THEN /\ Len(audit) = mark + 1 /\ ws \in Workspace /\ WasIn(ws)
            /\ audit[mark + 1] = [event |-> AccessEvent(request), actor |-> request.requester,
                                  ws |-> ws, decision |-> Decision(outcome)]
       ELSE outcome = "not_found" /\ Len(audit) = mark
  /\ pc = "answered" /\ outcome = "store_unavailable" =>
       /\ Len(audit) \in {mark, mark + 1}
       /\ Len(audit) = mark + 1 => audit[mark + 1].decision = "denied"

\* The inductive invariant.
PayloadInv == TypeOK /\ Progress /\ Bookkeeping

-----------------------------------------------------------------------------
(* The properties *)

\* "Successful, denied, and missing-blob byte reads record dedicated payload
\* audit events. Missing payloads are returned as not_found without writing a
\* payload access audit event" (site/docs/reference/daemon-api.md): one row for
\* such an answer, with its decision, its requester and a workspace the blip was
\* in, whatever happens between the checks, the read and the row.  An answer
\* that the store could not be used never comes with a row that says allowed.
AuditMatchesAnswer ==
  pc = "answered" =>
    CASE outcome \in Recorded ->
           /\ Len(Written) = 1
           /\ Written[1].decision = "allowed" <=> outcome = "bytes"
           /\ Written[1].decision = "missing_blob" <=> outcome = "missing_blob"
           /\ Written[1].actor = request.requester
           /\ \E m \in moments : m.place = Written[1].ws
      [] outcome = "not_found" -> Written = << >>
      [] outcome = "store_unavailable" ->
           \A i \in DOMAIN Written : Written[i].decision = "denied"

\* Bytes are only answered if each permission they need was given, at some
\* moment of the request, by a workspace the blip was in at some moment of it:
\* the reads are not one snapshot, but none of them is of another time or of
\* another workspace.
BytesJustified ==
  pc = "answered" /\ outcome = "bytes" =>
    \E w \in Workspace :
      /\ WasIn(w)
      /\ Shown => WasVisible(w, Visibility \ {"hidden"})
      /\ Shown /\ request.access = "preview" => WasVisible(w, {"safe_preview"})
      /\ Exports => WasOpen(w) /\ WasGranted(w)

\* The rules of daemon-api.md, in one look at the database.
Allowed(m) ==
  /\ Shown /\ request.access = "preview" => m.policy[m.place].visibility = "safe_preview"
  /\ Shown /\ request.access = "raw" => m.policy[m.place].visibility # "hidden"
  /\ Exports => m.agentAccess[m.place] /\ m.policy[m.place].raw
Expected(m) ==
  CASE m.place = NoWorkspace -> "not_found"
    [] m.place # NoWorkspace /\ ~Allowed(m) -> "access_denied"
    [] m.place # NoWorkspace /\ Allowed(m) ->
         IF BlobRef = NoRef THEN "unsupported_payload"
         ELSE CASE m.file[BlobRef] = "absent" -> "missing_blob"
                [] m.file[BlobRef] = "large" -> "payload_too_large"
                [] m.file[BlobRef] = "whole" -> "bytes"
                [] m.file[BlobRef] = "damaged" -> "store_unavailable"

\* A request that nothing disturbed, and for which the store could be used, is
\* answered as the documented rules say.
PolicyDecides ==
  pc = "answered" /\ outcome # "store_unavailable" =>
    \A m \in moments : moments = {m} => outcome = Expected(m)

Present == {r \in Ref : file[r] # "absent"}
SamePrefix(a, b) ==
  \/ a = b
  \/ /\ a # NoText /\ b # NoText
     /\ Len(a) <= Len(b)
     /\ a = SubSeq(b, 1, Len(a))

\* The list, the blip and the payload by itself describe a payload alike, though
\* the list works on a bounded projection made by SQLite: only its text may be
\* shorter, never different.
ListingAgrees ==
  \A v \in Visibility, redacted \in BOOLEAN :
    LET inList == Listed(payload, redacted, Present, v)
        inBlip == Detailed(payload, redacted, Present, v)
        alone == Inspected(payload, redacted, Present, v)
    IN /\ Len(inList) = Len(inBlip)
       /\ v # "hidden" => alone = inBlip
       /\ \A i \in DOMAIN inList :
            /\ [inList[i] EXCEPT !.text = inBlip[i].text] = inBlip[i]
            /\ SamePrefix(inList[i].text, inBlip[i].text)

\* Where the list says a preview of an image is available, a request for it that
\* nothing disturbs is not refused.
AdvertisedPreviewServed ==
  pc = "answered" /\ request = [requester |-> "desktop", access |-> "preview"]
  /\ Cardinality(moments) = 1 /\ place # NoWorkspace /\ payload.kind = "image" =>
    LET shown == Listed(payload, FALSE, Present, policy[place].visibility)
    IN \A i \in DOMAIN shown :
         shown[i].state = "available" => outcome \in {"bytes", "store_unavailable"}
=============================================================================
