------------------------------ MODULE Listing ------------------------------
(***************************************************************************)
(* A client that pages through ListDocuments (service.py) with the tokens  *)
(* it is given, over the list_documents of either document store           *)
(* (state.py), while documents are created.  A document is its id, a       *)
(* natural number for the order of the sort; no document is ever removed.  *)
(***************************************************************************)
EXTENDS Integers, FiniteSets, Sequences, Functions

CONSTANTS
    Ids,        \* the ids of the tenant's documents
    PageSizes,  \* the page sizes the client asks for; 0 when it names none
    Repeats     \* the store is Redis, whose SCAN may return a key twice

ASSUME ListingAssumption ==
    /\ Ids \subseteq Nat /\ IsFiniteSet(Ids)
    /\ PageSizes \subseteq Int
    /\ Repeats \in BOOLEAN

VARIABLES
    store,      \* the documents created so far
    walk,       \* where the client is: at the start, between two pages, at the end
    token,      \* the page_token of its next request: an offset, or <<>> for the empty one
    old,        \* the documents that existed at the first request
    listed,     \* the documents the client was given, in order
    twice,      \* the documents the last call found twice
    dropped     \* a call found once what the call before had found twice

listingVars == <<store, walk, token, old, listed, twice, dropped>>

ListingTypeOK ==
    /\ store \subseteq Ids
    /\ walk \in {"start", "paging", "end"}
    /\ token \in Seq(Int) /\ Len(token) <= 1
    /\ old \subseteq store
    /\ listed \in Seq(Ids)
    /\ twice \subseteq store
    /\ dropped \in BOOLEAN

ListingInit ==
    /\ store \in SUBSET Ids
    /\ walk = "start"
    /\ token = <<>>
    /\ old = {}
    /\ listed = <<>>
    /\ twice = {}
    /\ dropped = FALSE

-----------------------------------------------------------------------------
(* The records a call finds, sorted by id: each once, or twice when SCAN   *)
(* repeats its key.  d ends at index Last(d).                              *)
Records(T) ==
    LET Last(d) == Cardinality({x \in store : x <= d}) + Cardinality({x \in T : x <= d})
    IN  [i \in 1..(Cardinality(store) + Cardinality(T)) |->
            CHOOSE d \in store : i <= Last(d) /\ \A x \in store : i <= Last(x) => d <= x]

(* The keys a call is given twice.                                         *)
Repeated == IF Repeats THEN SUBSET store ELSE {{}}

(* A Python index into a list of length n.                                 *)
Index(i, n) ==
    IF i >= 0          THEN IF i < n THEN i ELSE n
    ELSE IF i + n >= 0 THEN i + n
    ELSE 0

(* Mutant: one record too many.                                            *)
PageOverlapping(records, offset, size) ==
    SubSeq(records, Index(offset, Len(records)) + 1, Index(offset + size + 1, Len(records)))

(* records[offset : offset + page_size]                                    *)
Page(records, offset, size) ==
    SubSeq(records, Index(offset, Len(records)) + 1, Index(offset + size, Len(records)))

(* Mutants: a token after every page, never past the last record; one      *)
(* record is jumped over.                                                  *)
NextTokenClamped(records, offset, size) == <<Index(offset + size, Len(records))>>
NextTokenJumping(records, offset, size) ==
    IF offset + size < Len(records) THEN <<offset + size + 1>> ELSE <<>>

NextToken(records, offset, size) ==
    IF offset + size < Len(records) THEN <<offset + size>> ELSE <<>>

(* int(page_token) if page_token else 0                                    *)
Offset(page_token) == IF page_token = <<>> THEN 0 ELSE page_token[1]

(* The default page size is larger than any instance has documents.        *)
PageSize(requested) == IF requested = 0 THEN 50 ELSE requested

ListDocuments ==
    /\ walk # "end"
    /\ old' = IF walk = "start" THEN store ELSE old
    /\ \E T \in Repeated, requested \in PageSizes :
        LET records == Records(T)
            offset  == Offset(token)
            size    == PageSize(requested)
        IN  /\ twice' = T
            /\ listed' = listed \o Page(records, offset, size)
            /\ token' = NextToken(records, offset, size)
    /\ dropped' = (dropped \/ ~(twice \subseteq twice'))
    /\ walk' = IF token' = <<>> THEN "end" ELSE "paging"
    /\ UNCHANGED store

ConvertDocument ==
    /\ \E id \in Ids \ store : store' = store \cup {id}
    /\ UNCHANGED <<walk, token, old, listed, twice, dropped>>

Walked == walk = "end" /\ UNCHANGED listingVars

ListingNext == ListDocuments \/ ConvertDocument \/ Walked

(* The client keeps asking for the next page.                              *)
ListingSpec ==
    /\ ListingInit /\ [][ListingNext]_listingVars
    /\ WF_listingVars(ListDocuments)

-----------------------------------------------------------------------------
(* "Empty next_page_token means no more pages": a client that followed the *)
(* tokens to the end has seen every document that existed when it began,   *)
(* whatever was created in between.  Over Redis this takes that no key     *)
(* SCAN returned twice is returned once by the next call.                  *)
NoneSkipped == walk = "end" /\ ~dropped => old \subseteq Range(listed)

(* If nothing was created or returned twice meanwhile it has seen each of  *)
(* them once, in the order of their ids.                                   *)
QuietWalkExact ==
    walk = "end" /\ store = old /\ ~dropped /\ twice = {} =>
        Range(listed) = store /\ \A i, j \in DOMAIN listed : i < j => listed[i] < listed[j]

(* Otherwise it is shown a document again at most once for every document  *)
(* created in between and for every key returned twice.                    *)
RepetitionsBounded ==
    ~dropped =>
        Len(listed) - Cardinality(Range(listed)) <= Cardinality(store \ old) + Cardinality(twice)

(* The tokens come to an end.                                              *)
WalkEnds == <>(walk = "end")
=============================================================================
