-------------------------- MODULE DocumentLifecycle --------------------------
(***************************************************************************)
(* What the service promises to a client that polls GetDocument: the       *)
(* status of a document starts at PENDING, only moves forward, a bounded   *)
(* number of documents is RUNNING at a time, a document that was accepted  *)
(* is either converted or, when the service shuts down, refused, and every *)
(* accepted document reaches an outcome.                                   *)
(***************************************************************************)
EXTENDS Naturals, FiniteSets

CONSTANTS
    Documents,  \* the documents clients submit
    Capacity    \* how many are RUNNING at most, a positive number

VARIABLES
    status,     \* status[d], as GetDocument reports it
    stopping    \* no more documents are accepted, and those that wait may be refused

Init ==
    /\ status = [d \in Documents |-> "absent"]
    /\ stopping = FALSE

Becomes(d, s) == status' = [status EXCEPT ![d] = s]

Accept(d) ==
    /\ ~stopping
    /\ status[d] = "absent"
    /\ Becomes(d, "pending")
    /\ UNCHANGED stopping

Start(d) ==
    /\ status[d] = "pending"
    /\ Cardinality({x \in Documents : status[x] = "running"}) < Capacity
    /\ Becomes(d, "running")
    /\ UNCHANGED stopping

Finish(d) ==
    /\ status[d] = "running"
    /\ \E s \in {"completed", "failed"} : Becomes(d, s)
    /\ UNCHANGED stopping

Refuse(d) ==
    /\ stopping
    /\ status[d] = "pending"
    /\ Becomes(d, "failed")
    /\ UNCHANGED stopping

Stop == ~stopping /\ stopping' = TRUE /\ UNCHANGED status

Next == Stop \/ \E d \in Documents : Accept(d) \/ Start(d) \/ Finish(d) \/ Refuse(d)

lifecycle == <<status, stopping>>

(* A document never waits behind the others forever.                       *)
Fairness ==
    \A d \in Documents : /\ SF_lifecycle(Start(d) \/ Refuse(d))
                         /\ WF_lifecycle(Finish(d))

Spec == Init /\ [][Next]_lifecycle /\ Fairness
=============================================================================
