---------------------------- MODULE SourceProofs ----------------------------
(***************************************************************************)
(* The source of a document, for any limits, formats, requests and bodies: *)
(* how many requests are sent, how much is written, and what can be said   *)
(* of a document that is converted or refused.                             *)
(***************************************************************************)
EXTENDS Source, TLAPS

(* Where each kind of source can be.                                       *)
Downloading == {"vet", "get", "redirected", "answered", "first", "read"}

(* A request is sent for every redirect followed, and one more.            *)
Hops ==
    /\ redirects <= MaxRedirects
    /\ sent <= redirects + 1
    /\ pc \in {"submit", "vet", "get"} => sent <= redirects

(* What was read, at each step; the whole body unless its end was not told *)
(* or a chunked one was closed.                                            *)
Amount ==
    /\ request.from = "upload" => pc \notin Downloading
    /\ request.from = "url" => pc # "sniff" /\ (got <= MaxBytes \/ got = 1)
    /\ pc \in {"submit", "vet", "get", "redirected", "answered", "first"} => got = 0
    /\ pc \in {"answered", "first", "read", "sniff", "check"} =>
           body \in BodySet /\ got <= body.size
    /\ pc = "sniff" \/ (pc = "check" /\ request.from = "upload") => got = body.size
    /\ pc \in {"read", "check"} /\ request.from = "url" /\ body.framing = "chunked" => got = 1
    /\ pc = "check" /\ request.from = "url" /\ got < body.size =>
           body.framing \in {"close", "chunked"}

(* What the second look will find of the first one.                        *)
Detection ==
    /\ pc = "check" /\ request.from = "upload" =>
           detected = sniff_format(Magic, request.mime, request.ext)
    /\ pc \in {"read", "check"} /\ request.from = "url" /\ body.first \in {"pdf", "html"} =>
           detected = body.first

(* Nothing is said of a document before the end.                           *)
Undecided == pc # "done" => result = "none"

SourceInv ==
    /\ SourceTypeOK /\ Hops /\ Amount /\ Detection /\ Undecided
    /\ ShortContentExplained /\ SniffsAgree

-----------------------------------------------------------------------------
(* A type is what one of its witnesses says, or none.                      *)
LEMMA SniffTyped ==
    ASSUME NEW magic \in {"pdf", "html", "zip", "none"}, NEW ctype \in Evidence,
           NEW ext \in Evidence
    PROVE  sniff_format(magic, ctype, ext) \in Evidence
BY DEF sniff_format, Evidence, Formats

LEMMA BytesFirst ==
    ASSUME NEW magic, NEW ctype, NEW ext, magic \in {"pdf", "html"}
    PROVE  sniff_format(magic, ctype, ext) = magic
BY DEF sniff_format

(* Bytes that tell a type tell it at every look.                           *)
LEMMA MagicStays ==
    ASSUME body \in BodySet, body.first \in {"pdf", "html"}
    PROVE  body.whole = body.first /\ Magic = body.first
BY DEF BodySet, Magic

LEMMA MagicTyped ==
    ASSUME body \in BodySet
    PROVE  /\ Magic \in {"pdf", "html", "zip", "none"}
           /\ body.whole \in {"pdf", "html", "zip", "none"}
           /\ body.first \in {"pdf", "html", "zip", "none"} /\ body.ctype \in Evidence
           /\ body.size \in Nat
BY DEF BodySet, Magic

LEMMA SourceInitial == SourceInit => SourceInv
<1> SUFFICES ASSUME SourceInit PROVE SourceInv
  OBVIOUS
<1>1. request \in RequestSet /\ request.ext \in Evidence
  BY SourceAssumption DEF SourceInit, RequestSet
<1> QED
  BY <1>1, SourceAssumption DEF SourceInit, SourceInv, SourceTypeOK, Hops, Amount, Detection,
     Downloading, Undecided, Evidence, ShortContentExplained, SniffsAgree

(* The constants and the state, one fact at a time.                        *)
LEMMA SourceFacts ==
    ASSUME SourceTypeOK
    PROVE  /\ request \in RequestSet /\ request.ext \in Evidence /\ request.mime \in Evidence
           /\ request.from \in {"upload", "url"}
           /\ sent \in Nat /\ got \in Nat /\ redirects \in Nat
           /\ MaxRedirects \in Nat /\ MaxBytes \in Nat /\ Chunk \in Nat \ {0}
           /\ \A r \in Requests : r.ext \in Evidence
           /\ \A b \in Bodies : b \in BodySet
<1>1. MaxRedirects \in Nat /\ MaxBytes \in Nat /\ Chunk \in Nat \ {0}
  BY SourceAssumption
<1>2. \A r \in RequestSet : /\ r.ext \in Evidence /\ r.mime \in Evidence
                            /\ r.from \in {"upload", "url"}
  BY DEF RequestSet
<1>3. Requests \subseteq RequestSet /\ \A b \in Bodies : b \in BodySet
  BY SourceAssumption
<1>4. redirects \in Nat
  <2>1. redirects \in 0..MaxRedirects
    BY DEF SourceTypeOK
  <2> QED
    BY <1>1, <2>1
<1> QED
  BY <1>1, <1>2, <1>3, <1>4 DEF SourceTypeOK

LEMMA BodyTyped ==
    ASSUME NEW b \in BodySet
    PROVE  /\ b.whole \in {"pdf", "html", "zip", "none"}
           /\ b.first \in {"pdf", "html", "zip", "none"}
           /\ b.ctype \in Evidence /\ b.size \in Nat
BY DEF BodySet

LEMMA SourceTyped ==
    ASSUME SourceInv, [SourceNext]_sourceVars
    PROVE  SourceTypeOK'
<1> USE SourceFacts DEF SourceInv, Go, End
<1>0. got + 1 \in Nat /\ sent + 1 \in Nat /\ (Upto \in Nat \/ body \notin BodySet)
  BY BodyTyped DEF Upto
<1>1. CASE Submitted
  BY <1>1, BodyTyped DEF Submitted, SourceTypeOK
<1>2. CASE Vetted
  BY <1>2 DEF Vetted, SourceTypeOK
<1>3. CASE Get
  <2>1. sent' \in Nat /\ UNCHANGED redirects
    <3>1. sent' \in {sent, sent + 1} /\ UNCHANGED redirects
      BY <1>3 DEF Get
    <3>2. sent \in Nat
      OBVIOUS
    <3> QED
      BY ONLY <3>1, <3>2
  <2>2. body' \in Bodies \cup {NoBody}
    BY <1>3 DEF Get, SourceTypeOK
  <2>3. /\ UNCHANGED <<request, url, got, detected>>
        /\ pc' \in {"redirected", "answered", "done"} /\ result' \in {result, "refused", "error"}
    BY <1>3 DEF Get
  <2> QED
    BY <2>1, <2>2, <2>3 DEF SourceTypeOK
<1>4. CASE Redirected
  <2>1. url' \in Evidence /\ UNCHANGED <<request, sent, body, got, detected>>
    BY <1>4 DEF Redirected, SourceTypeOK
  <2>2. redirects' \in 0..MaxRedirects
    <3>1. redirects \in 0..MaxRedirects
      BY DEF SourceTypeOK
    <3>2. redirects' = redirects \/ (redirects < MaxRedirects /\ redirects' = redirects + 1)
      BY <1>4 DEF Redirected
    <3> QED
      BY <3>1, <3>2
  <2>3. pc' \in {"get", "done"} /\ result' \in {result, "refused"}
    BY <1>4 DEF Redirected
  <2> QED
    BY <2>1, <2>2, <2>3 DEF SourceTypeOK
<1>5. CASE Answered
  BY <1>5 DEF Answered, SourceTypeOK
<1>6. CASE FirstRead
  <2>1. body \in BodySet
    BY <1>6 DEF FirstRead, Amount
  <2> DEFINE format ==
        sniff_format(IF body.size = 1 THEN body.whole ELSE body.first, body.ctype, url)
  <2>2. format \in Evidence
    BY <2>1, BodyTyped, SniffTyped DEF SourceTypeOK
  <2>3. /\ UNCHANGED <<request, url, redirects, sent, body>>
        /\ \/ pc' = "done" /\ result' = "refused" /\ UNCHANGED <<got, detected>>
           \/ pc' = "read" /\ result' = result /\ got' = 1 /\ detected' = format
    BY <1>6 DEF FirstRead
  <2> HIDE DEF format
  <2>4. /\ pc' \in {"read", "done"} /\ result' \in {result, "refused"}
        /\ got' \in Nat /\ detected' \in Evidence
    <3>1. got \in Nat /\ detected \in Evidence
      BY DEF SourceTypeOK
    <3> QED
      BY ONLY <2>2, <2>3, <3>1
  <2> QED
    BY <2>3, <2>4 DEF SourceTypeOK
<1>7. CASE Read
  <2>1. body \in BodySet
    BY <1>7 DEF Read, Amount
  <2> QED
    BY <1>0, <1>7, <2>1 DEF Read, SourceTypeOK
<1>8. CASE ReadOver \/ Cut
  BY <1>8 DEF ReadOver, Cut, SourceTypeOK
<1>9. CASE Sniffed
  <2>1. body \in BodySet
    BY <1>9 DEF Sniffed, Amount
  <2>2. sniff_format(Magic, request.mime, request.ext) \in Evidence
    BY <2>1, MagicTyped, SniffTyped
  <2> QED
    BY <1>9, <2>2 DEF Sniffed, SourceTypeOK
<1>10. CASE Checked
  BY <1>10 DEF Checked, SourceTypeOK
<1>11. CASE UNCHANGED sourceVars
  BY <1>11 DEF sourceVars, SourceTypeOK
<1> QED
  BY <1>1, <1>2, <1>3, <1>4, <1>5, <1>6, <1>7, <1>8, <1>9, <1>10, <1>11 DEF SourceNext, Settled

LEMMA HopsStep ==
    ASSUME SourceInv, [SourceNext]_sourceVars
    PROVE  Hops'
<1> USE SourceFacts DEF SourceInv, Go, End, Hops
<1>1. CASE Get
  BY <1>1 DEF Get
<1>2. CASE Redirected
  BY <1>2 DEF Redirected
<1>3. CASE Submitted \/ Vetted \/ Answered \/ FirstRead
  BY <1>3 DEF Submitted, Vetted, Answered, FirstRead
<1>4. CASE Read \/ ReadOver \/ Cut \/ Sniffed \/ Checked
  BY <1>4 DEF Read, ReadOver, Cut, Sniffed, Checked
<1>5. CASE UNCHANGED sourceVars
  BY <1>5 DEF sourceVars
<1> QED
  BY <1>1, <1>2, <1>3, <1>4, <1>5 DEF SourceNext, Settled

LEMMA AmountStep ==
    ASSUME SourceInv, [SourceNext]_sourceVars
    PROVE  Amount'
<1> USE SourceFacts DEF SourceInv, Go, End, Amount, Downloading
<1>1. CASE Submitted
  BY <1>1, BodyTyped DEF Submitted
<1>2. CASE Vetted
  BY <1>2 DEF Vetted
<1>3. CASE Get
  BY <1>3, BodyTyped DEF Get
<1>4. CASE Redirected
  BY <1>4 DEF Redirected
<1>5. CASE Answered
  BY <1>5 DEF Answered
<1>6. CASE FirstRead
  BY <1>6, BodyTyped DEF FirstRead
<1>7. CASE Read
  BY <1>7, BodyTyped DEF Read, Upto
<1>8. CASE ReadOver
  BY <1>8, BodyTyped DEF ReadOver
<1>9. CASE Cut
  BY <1>9 DEF Cut
<1>10. CASE Sniffed
  BY <1>10 DEF Sniffed
<1>11. CASE Checked
  BY <1>11 DEF Checked
<1>12. CASE UNCHANGED sourceVars
  BY <1>12 DEF sourceVars
<1> QED
  BY <1>1, <1>2, <1>3, <1>4, <1>5, <1>6, <1>7, <1>8, <1>9, <1>10, <1>11, <1>12
  DEF SourceNext, Settled

LEMMA DetectionStep ==
    ASSUME SourceInv, [SourceNext]_sourceVars
    PROVE  Detection'
<1> USE SourceFacts DEF SourceInv, Go, End, Detection
<1>1. CASE FirstRead
  <2>1. body \in BodySet /\ request.from = "url"
    BY <1>1 DEF FirstRead, Amount, Downloading
  <2>2. body.first \in {"pdf", "html"} =>
            sniff_format(IF body.size = 1 THEN body.whole ELSE body.first, body.ctype, url)
                = body.first
    BY <2>1, MagicStays, BytesFirst
  <2> QED
    BY <1>1, <2>1, <2>2 DEF FirstRead
<1>2. CASE Read
  BY <1>2 DEF Read, Amount, Downloading
<1>3. CASE ReadOver \/ Cut
  BY <1>3 DEF ReadOver, Cut, Amount, Downloading
<1>4. CASE Sniffed
  <2>1. Magic' = Magic /\ request.from = "upload"
    BY <1>4 DEF Sniffed, Magic, Amount
  <2> QED
    BY <1>4, <2>1 DEF Sniffed
<1>5. CASE Submitted \/ Vetted \/ Get \/ Redirected \/ Answered \/ Checked
  <2>1. pc' \notin {"read", "check"}
    BY <1>5 DEF Submitted, Vetted, Get, Redirected, Answered, Checked
  <2> QED
    BY <2>1
<1>6. CASE UNCHANGED sourceVars
  BY <1>6 DEF sourceVars, Magic
<1> QED
  BY <1>1, <1>2, <1>3, <1>4, <1>5, <1>6 DEF SourceNext, Settled

(* No other step accepts a document or finds its format wrong.             *)
LEMMA OthersDoNotJudge ==
    ASSUME SourceInv, [SourceNext]_sourceVars, ~Checked
    PROVE  /\ Undecided'
           /\ UNCHANGED sourceVars \/ result' \in {"none", "refused", "error"}
<1> USE DEF SourceInv, Undecided, Go, End
<1>1. CASE Submitted \/ Vetted \/ Get \/ Redirected \/ Answered
  BY <1>1 DEF Submitted, Vetted, Get, Redirected, Answered
<1>2. CASE FirstRead \/ Read \/ ReadOver \/ Cut \/ Sniffed
  BY <1>2 DEF FirstRead, Read, ReadOver, Cut, Sniffed
<1>3. CASE UNCHANGED sourceVars
  BY <1>3 DEF sourceVars
<1> QED
  BY <1>1, <1>2, <1>3 DEF SourceNext, Settled

LEMMA VerdictStep ==
    ASSUME SourceInv, Checked
    PROVE  ShortContentExplained' /\ SniffsAgree'
<1> USE SourceFacts DEF SourceInv
<1>1. /\ body \in BodySet /\ UNCHANGED <<request, body, got, detected>>
      /\ result' \in {"not allowed", "mismatch", "refused", "accepted"}
  BY DEF Checked, Amount, End
<1>2. ShortContentExplained'
  <2>1. result' = "accepted" => HashMatches
    BY DEF Checked, End
  <2>2. got < body.size => request.from = "url" /\ got # body.size
    <3>1. request.from = "upload" => got = body.size
      BY DEF Amount, Checked
    <3>2. got \in Nat /\ body.size \in Nat /\ request.from \in {"upload", "url"}
      BY <1>1, BodyTyped
    <3> QED
      BY ONLY <3>1, <3>2
  <2>3. got < body.size => body.framing = "close" \/ (body.framing = "chunked" /\ got = 1)
    BY <2>2 DEF Amount, Checked
  <2> QED
    BY ONLY <1>1, <2>1, <2>2, <2>3 DEF ShortContentExplained, HashMatches
<1>3. SniffsAgree'
  <2>1. result' \in {"not allowed", "mismatch"} /\ detected \in Allowed =>
            sniff_format(Magic, request.mime, request.ext) # detected
    BY DEF Checked, End
  <2>2. request.from = "url" /\ body.first \in {"pdf", "html"} =>
            sniff_format(Magic, request.mime, request.ext) = detected
    <3>1. body.first \in {"pdf", "html"} => Magic = body.first
      BY ONLY <1>1, MagicStays
    <3>2. request.from = "url" /\ body.first \in {"pdf", "html"} => detected = body.first
      BY DEF Detection, Checked
    <3> QED
      BY ONLY <3>1, <3>2, BytesFirst
  <2>3. request.from = "upload" => sniff_format(Magic, request.mime, request.ext) = detected
    BY DEF Detection, Checked
  <2> QED
    BY <1>1, <2>1, <2>2, <2>3 DEF SniffsAgree
<1> QED
  BY <1>2, <1>3

LEMMA SourceStep ==
    ASSUME SourceInv, [SourceNext]_sourceVars
    PROVE  SourceInv'
<1>1. SourceTypeOK' /\ Hops' /\ Amount' /\ Detection'
  BY SourceTyped, HopsStep, AmountStep, DetectionStep
<1>2. Undecided' /\ ShortContentExplained' /\ SniffsAgree'
  <2>1. CASE Checked
    BY <2>1, VerdictStep DEF Undecided, Checked, End
  <2>2. CASE ~Checked
    <3>1. CASE UNCHANGED sourceVars
      BY <3>1 DEF SourceInv, sourceVars, Undecided, ShortContentExplained, SniffsAgree
    <3>2. CASE result' \in {"none", "refused", "error"}
      BY <2>2, <3>2, OthersDoNotJudge DEF ShortContentExplained, SniffsAgree
    <3> QED
      BY <2>2, <3>1, <3>2, OthersDoNotJudge
  <2> QED
    BY <2>1, <2>2
<1> QED
  BY <1>1, <1>2 DEF SourceInv

LEMMA SourceAlways == SourceSpec => []SourceInv
BY SourceInitial, SourceStep, PTL DEF SourceSpec

-----------------------------------------------------------------------------
(* The state of a submission stays well typed.                             *)
THEOREM SourceTypeCorrect == SourceSpec => []SourceTypeOK
<1>1. SourceInv => SourceTypeOK
  BY DEF SourceInv
<1> QED
  BY <1>1, SourceAlways, PTL

(* However servers redirect, no more than MAX_REDIRECTS + 1 requests are   *)
(* sent.                                                                   *)
THEOREM RequestsAreBounded == SourceSpec => []RequestsBounded
<1>1. SourceInv => RequestsBounded
  BY SourceFacts DEF SourceInv, Hops, RequestsBounded
<1> QED
  BY <1>1, SourceAlways, PTL

(* However long a body is and however it is sent, what is written of it is *)
(* bounded by MAX_URL_BYTES, but for a first chunk.                        *)
THEOREM WritesAreBounded == SourceSpec => []WrittenBounded
<1>1. SourceInv => WrittenBounded
  BY DEF SourceInv, Amount, WrittenBounded
<1> QED
  BY <1>1, SourceAlways, PTL

(* A part of a document is taken for the whole only if the client declared *)
(* no hash and the server no length.                                       *)
THEOREM ShortContentIsExplained == SourceSpec => []ShortContentExplained
<1>1. SourceInv => ShortContentExplained
  BY DEF SourceInv
<1> QED
  BY <1>1, SourceAlways, PTL

(* The two looks at a document disagree only for a download whose first    *)
(* bytes do not tell its type.                                             *)
THEOREM SniffsDoAgree == SourceSpec => []SniffsAgree
<1>1. SourceInv => SniffsAgree
  BY DEF SourceInv
<1> QED
  BY <1>1, SourceAlways, PTL
=============================================================================
