------------------------------- MODULE Source -------------------------------
(***************************************************************************)
(* Where the bytes of a document come from: an upload, or a URL that       *)
(* fetch_url downloads (security.py), and the checks run_conversion makes  *)
(* on them before it converts them (worker.py).  All of it is one thread.  *)
(*                                                                         *)
(* A body is counted in units: the first read takes one (512 bytes or the  *)
(* first chunk), each later one up to Chunk.  A host name is only whether  *)
(* it is public, asked of the DNS at every use; a URL is the format its    *)
(* path's extension names.                                                 *)
(***************************************************************************)
EXTENDS Naturals

CONSTANTS
    Allowed,        \* ALLOWED_FORMATS
    MaxDocument,    \* MAX_DOCUMENT_SIZE, in units
    MaxBytes,       \* MAX_URL_BYTES, in units
    MaxRedirects,   \* MAX_REDIRECTS
    Chunk,          \* the size of a later read, in units
    Requests,       \* the client's requests
    Bodies          \* the documents: uploads and answers of servers

Formats  == {"pdf", "docx", "html", "txt"}
Evidence == Formats \cup {"none"}

(* A request names the source, what its metadata say of the type and hash, *)
(* and the type the path of its (metadata) source_uri names.               *)
RequestSet ==
    [from : {"upload", "url"}, ext : Evidence, mime : Evidence, sha : {"none", "right", "wrong"}]

(* A body is sent with a Content-Length, in chunks or until the connection *)
(* closes.  first and whole are what its first unit and all of it look     *)
(* like: HTML may begin with blanks, and then shows later.                 *)
BodySet ==
    {b \in [framing : {"upload", "length", "chunked", "close"}, size : Nat,
            first : {"pdf", "html", "zip", "none"}, whole : {"pdf", "html", "zip", "none"},
            ctype : Evidence] :
        \/ b.whole = b.first
        \/ b.first = "none" /\ b.whole = "html" /\ b.size > 1}

ASSUME SourceAssumption ==
    /\ Allowed \subseteq Formats
    /\ {MaxDocument, MaxBytes, MaxRedirects} \subseteq Nat /\ Chunk \in Nat \ {0}
    /\ Requests \subseteq RequestSet
    /\ \A b \in Bodies : b \in BodySet

VARIABLES
    pc,         \* what comes next
    request,    \* what the client asked for
    url,        \* the extension of current_url
    redirects,  \* the redirects followed
    sent,       \* the requests sent to servers
    body,       \* the document
    got,        \* the units read of it
    detected,   \* the format fetch_url or the first sniff found
    result      \* "accepted", or why the document is refused

sourceVars == <<pc, request, url, redirects, sent, body, got, detected, result>>

NoBody == [framing |-> "upload", size |-> 0, first |-> "none", whole |-> "none", ctype |-> "none"]

SourceTypeOK ==
    /\ pc \in {"submit", "vet", "get", "redirected", "answered", "first", "read", "sniff",
               "check", "done"}
    /\ request \in RequestSet
    /\ url \in Evidence /\ detected \in Evidence
    /\ redirects \in 0..MaxRedirects
    /\ sent \in Nat /\ got \in Nat
    /\ body \in Bodies \cup {NoBody}
    /\ result \in {"none", "accepted", "refused", "not allowed", "mismatch", "error"}

SourceInit ==
    /\ pc = "submit"
    /\ request \in Requests
    /\ url = request.ext
    /\ redirects = 0 /\ sent = 0
    /\ body = NoBody /\ got = 0
    /\ detected = "none" /\ result = "none"

-----------------------------------------------------------------------------
End(r) == pc' = "done" /\ result' = r
Go(p)  == pc' = p /\ UNCHANGED result

(* sniff_format: the bytes, then the Content-Type, then the extension;     *)
(* "none" is the ValueError.                                               *)
sniff_format(magic, ctype, ext) ==
    IF magic \in {"pdf", "html"}           THEN magic
    ELSE IF magic = "zip" /\ ext = "docx"  THEN "docx"
    ELSE IF ctype # "none"                 THEN ctype
    ELSE ext

(* What the bytes at hand look like.                                       *)
Magic == IF got = body.size THEN body.whole ELSE body.first

(* validate_url: what the DNS says of the host now.                        *)
validate_url == {"public", "blocked", "unresolved"}

-----------------------------------------------------------------------------
(* ConvertDocument refuses an upload that is too large; run_conversion one *)
(* that is empty, because its bytes are falsy.                             *)
Submitted ==
    /\ pc = "submit"
    /\ \/ request.from = "url" /\ Go("vet") /\ UNCHANGED <<body, got>>
       \/ /\ request.from = "upload"
          /\ body' \in {b \in Bodies : b.framing = "upload"}
          /\ IF body'.size > MaxDocument \/ body'.size = 0
             THEN End("refused") /\ UNCHANGED got
             ELSE Go("sniff") /\ got' = body'.size
    /\ UNCHANGED <<request, url, redirects, sent, detected>>

(* _fetch_source and fetch_url each validate the URL.                      *)
Vetted ==
    /\ pc = "vet"
    /\ \E first, second \in validate_url :
        IF first = "public" /\ second = "public" THEN Go("get") ELSE End("refused")
    /\ UNCHANGED <<request, url, redirects, sent, body, got, detected>>

(* session.get: the name is resolved once more, and a peer that is not     *)
(* public is refused before a byte is sent; then the answer comes, or an   *)
(* error of the network.                                                   *)
Get ==
    /\ pc = "get"
    /\ \/ (\E r \in {"refused", "error"} : End(r)) /\ UNCHANGED <<sent, body>>
       \/ /\ sent' = sent + 1
          /\ \/ Go("redirected") /\ UNCHANGED body
             \/ Go("answered") /\ body' \in {b \in Bodies : b.framing # "upload"}
             \/ End("refused") /\ UNCHANGED body       \* a status other than 200
             \/ End("error") /\ UNCHANGED body         \* no answer in time
    /\ UNCHANGED <<request, url, redirects, got, detected>>

(* Mutant: one redirect too many.                                          *)
RedirectedLate ==
    /\ pc = "redirected"
    /\ \/ End("refused") /\ UNCHANGED <<url, redirects>>
       \/ /\ redirects <= MaxRedirects
          /\ url' \in {r.ext : r \in Requests}
          /\ redirects' = redirects + 1
          /\ Go("get")
    /\ UNCHANGED <<request, sent, body, got, detected>>

(* Too many redirects, no Location or a URL that validate_url refuses; or  *)
(* the next hop.                                                           *)
Redirected ==
    /\ pc = "redirected"
    /\ \/ End("refused") /\ UNCHANGED <<url, redirects>>
       \/ /\ redirects < MaxRedirects
          /\ url' \in {r.ext : r \in Requests}
          /\ redirects' = redirects + 1
          /\ Go("get")
    /\ UNCHANGED <<request, sent, body, got, detected>>

(* Content-Length is compared before anything is read.                     *)
Answered ==
    /\ pc = "answered"
    /\ IF body.framing = "length" /\ body.size > MaxBytes THEN End("refused") ELSE Go("first")
    /\ UNCHANGED <<request, url, redirects, sent, body, got, detected>>

(* The first chunk decides the format, with the header of the answer and   *)
(* the URL it came from.  It is written without a look at max_bytes.       *)
FirstRead ==
    /\ pc = "first"
    /\ LET format == sniff_format(IF body.size = 1 THEN body.whole ELSE body.first, body.ctype, url)
       IN  IF body.size = 0 \/ format = "none"
           THEN End("refused") /\ UNCHANGED <<got, detected>>
           ELSE Go("read") /\ got' = 1 /\ detected' = format
    /\ UNCHANGED <<request, url, redirects, sent, body>>

(* Where the next read ends.                                               *)
Upto == IF got + Chunk < body.size THEN got + Chunk ELSE body.size

(* Mutant: what was read counts only after it is written.                  *)
ReadUnbounded ==
    /\ pc = "read"
    /\ body.framing # "chunked" /\ got < body.size
    /\ IF got > MaxBytes
       THEN End("refused") /\ UNCHANGED got
       ELSE Go("read") /\ got' = Upto
    /\ UNCHANGED <<request, url, redirects, sent, body, detected>>

Read ==
    /\ pc = "read"
    /\ body.framing # "chunked" /\ got < body.size
    /\ IF Upto > MaxBytes
       THEN End("refused") /\ UNCHANGED got
       ELSE Go("read") /\ got' = Upto
    /\ UNCHANGED <<request, url, redirects, sent, body, detected>>

(* The body ends.  Leaving the loop over the first chunk of a chunked      *)
(* answer closed its connection, so the second loop finds nothing.         *)
ReadOver ==
    /\ pc = "read"
    /\ got = body.size \/ body.framing = "chunked"
    /\ Go("check")
    /\ UNCHANGED <<request, url, redirects, sent, body, got, detected>>

(* The connection is lost, or nothing comes in time: an error, except that *)
(* a body without a length just ends where the connection is closed.       *)
Cut ==
    /\ pc \in {"first", "read"} /\ got < body.size
    /\ \/ End("error")
       \/ pc = "read" /\ body.framing = "close" /\ Go("check")
    /\ UNCHANGED <<request, url, redirects, sent, body, got, detected>>

(* Mutant: the source_uri of the metadata is forgotten.                    *)
SniffedByType ==
    /\ pc = "sniff"
    /\ detected' = sniff_format(Magic, request.mime, "none")
    /\ IF detected' = "none" THEN End("refused") ELSE Go("check")
    /\ UNCHANGED <<request, url, redirects, sent, body, got>>

(* An upload is sniffed with what its metadata say.                        *)
Sniffed ==
    /\ pc = "sniff"
    /\ detected' = sniff_format(Magic, request.mime, request.ext)
    /\ IF detected' = "none" THEN End("refused") ELSE Go("check")
    /\ UNCHANGED <<request, url, redirects, sent, body, got>>

HashMatches == request.sha = "none" \/ (request.sha = "right" /\ got = body.size)

(* Mutant: the hash is not compared.                                       *)
CheckedUnhashed ==
    /\ pc = "check"
    /\ LET format == sniff_format(Magic, request.mime, request.ext)
       IN  IF format \notin Allowed      THEN End("not allowed")
           ELSE IF format # detected     THEN End("mismatch")
           ELSE End("accepted")
    /\ UNCHANGED <<request, url, redirects, sent, body, got, detected>>

(* validate_format sniffs again, with the client's metadata and the URL it *)
(* named, and may now find nothing or something else; then the hash.       *)
Checked ==
    /\ pc = "check"
    /\ LET format == sniff_format(Magic, request.mime, request.ext)
       IN  IF format \notin Allowed      THEN End("not allowed")
           ELSE IF format # detected     THEN End("mismatch")
           ELSE IF ~HashMatches          THEN End("refused")
           ELSE End("accepted")
    /\ UNCHANGED <<request, url, redirects, sent, body, got, detected>>

Settled == pc = "done" /\ UNCHANGED sourceVars

SourceNext ==
    \/ Submitted \/ Vetted \/ Get \/ Redirected \/ Answered \/ FirstRead \/ Read \/ ReadOver
    \/ Cut \/ Sniffed \/ Checked \/ Settled

SourceSpec == SourceInit /\ [][SourceNext]_sourceVars

-----------------------------------------------------------------------------
(* At most MAX_REDIRECTS redirects are followed, so at most one request    *)
(* more is sent.                                                           *)
RequestsBounded == sent <= MaxRedirects + 1

(* "Download size is capped": no more than MAX_URL_BYTES are ever written, *)
(* declared or not; only a first chunk that is larger alone escapes.       *)
WrittenBounded == request.from = "url" => got <= MaxBytes \/ got = 1

(* When less than the document is converted, the server did not say how    *)
(* long it is, or sent it in chunks of which the first one was kept; and   *)
(* never when the client declared its hash.                                *)
ShortContentExplained ==
    result = "accepted" /\ got < body.size =>
        /\ request.sha = "none"
        /\ body.framing = "close" \/ (body.framing = "chunked" /\ got = 1)

(* A format that is allowed when it is first found is refused by the       *)
(* second look only for a download whose type the header, the URL or later *)
(* bytes tell: never for an upload, nor when the first bytes tell it.      *)
SniffsAgree ==
    result \in {"mismatch", "not allowed"} /\ detected \in Allowed =>
        /\ request.from = "url"
        /\ body.first \notin {"pdf", "html"}

(* fetch_url: "Download url to a temporary file."  What is converted is    *)
(* all the server sent, if that can be told from the answer.               *)
DownloadWhole ==
    result = "accepted" /\ request.from = "url" /\ body.framing \in {"length", "chunked"} =>
        got = body.size
=============================================================================
