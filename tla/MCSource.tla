------------------------------ MODULE MCSource ------------------------------
(***************************************************************************)
(* Instances of Source for TLC.  The types that matter are one the bytes   *)
(* tell, one they tell with the extension, and one they never tell.        *)
(***************************************************************************)
EXTENDS Source

MCRequests ==
    {r \in RequestSet : {r.ext, r.mime} \subseteq {"docx", "html", "none"}}

MCBodies ==
    {b \in [framing : {"upload", "length", "chunked", "close"}, size : 0..5,
            first : {"pdf", "html", "zip", "none"}, whole : {"pdf", "html", "zip", "none"},
            ctype : {"docx", "txt", "none"}] : b \in BodySet}
=============================================================================
