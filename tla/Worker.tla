------------------------------- MODULE Worker -------------------------------
(***************************************************************************)
(* The conversion pipeline of one document: run_conversion and             *)
(* record_failure (worker.py), with the calls they make on the document    *)
(* store (state.py), the object storage (storage.py) and the audit         *)
(* publisher (audit.py).                                                   *)
(*                                                                         *)
(* Every document d is converted by a coroutine of its own.  pc[d] names   *)
(* the call the coroutine is making.  An action is the return of that call *)
(* together with the code up to the next call.  A call that really         *)
(* suspends gives the event loop back (loop = Free); the others keep it    *)
(* (loop = d), so nobody else runs before the coroutine goes on.  A        *)
(* cancellation is requested at any time and delivered at the call the     *)
(* coroutine is suspended on.                                              *)
(***************************************************************************)
EXTENDS Naturals, Sequences, FiniteSets

CONSTANTS
    Docs,       \* the documents
    Free,       \* the event loop belongs to nobody
    Redis,      \* STATE_BACKEND is redis, not memory
    Nats,       \* audit events go to NATS, not to the log
    Attest,     \* ATTESTATION_ENABLED
    Outages     \* calls to Redis and NATS may fail

ASSUME WorkerAssumption ==
    /\ Free \notin Docs
    /\ {Redis, Nats, Attest, Outages} \subseteq BOOLEAN

VARIABLES
    pc,         \* pc[d]: the call run_conversion is making
    loop,       \* the coroutine that holds the event loop, or Free
    cancel,     \* cancel[d]: cancellation requested, not delivered
    exc,        \* exc[d]: the exception being handled
    rec,        \* rec[d]: the stored record, reduced to status and error code
    stray,      \* stray[d]: writes sent to Redis by a call that was given up
    file,       \* file[d][f]: what became of the upload of f
    events,     \* events[d]: the audit events handed to the publisher for d
    open        \* the connection of the audit publisher is open

workerVars == <<pc, loop, cancel, exc, rec, stray, file, events, open>>

-----------------------------------------------------------------------------
StateCalls == {"mark_running", "mark_completed", "fail_update"}
AuditCalls == {"audit", "fail_audit"}
Uploads    == {"upload", "attest"}
Handler    == {"fail_update", "fail_audit"}
Calls      == StateCalls \cup AuditCalls \cup Uploads \cup {"fetch", "convert", "reap"}

Files      == {"structured.json", "attestation.link"}
Errors     == {"invalid", "limit", "timeout", "error", "cancelled"}
Codes      == {"none", "INVALID_ARGUMENT", "RESOURCE_EXHAUSTED", "INTERNAL", "UNAVAILABLE"}
Statuses   == {"absent", "pending", "running", "completed", "failed"}
Terminal   == {"completed", "failed"}

(* An audit event is lost if it was taken over and yet never arrives: core *)
(* NATS buffers while it reconnects, and the buffer goes with a connection *)
(* that is given up.  The log loses nothing.                               *)
Publications(outcomes) == [outcome : outcomes, lost : {FALSE, Nats /\ Outages}]

Record(s)  == [status |-> s, code |-> "none"]
Failed(c)  == [status |-> "failed", code |-> c]
Records    == [status : Statuses, code : Codes]

(* The error code recorded for an exception.                               *)
Code(e) ==
    CASE e = "cancelled"           -> "UNAVAILABLE"
      [] e \in {"limit", "timeout"} -> "RESOURCE_EXHAUSTED"
      [] e = "invalid"             -> "INVALID_ARGUMENT"
      [] OTHER                     -> "INTERNAL"

WorkerTypeOK ==
    /\ pc \in [Docs -> Calls \cup {"idle", "done"}]
    /\ loop \in Docs \cup {Free}
    /\ cancel \in [Docs -> BOOLEAN]
    /\ exc \in [Docs -> Errors \cup {"none"}]
    /\ rec \in [Docs -> Records]
    /\ stray \in [Docs -> SUBSET Records]
    /\ file \in [Docs -> [Files -> {"none", "writing", "stored", "failed"}]]
    /\ events \in [Docs -> Seq(Publications({"completed", "failed"}))]
    /\ open \in BOOLEAN

WorkerInit ==
    /\ pc = [d \in Docs |-> "idle"]
    /\ loop = Free
    /\ cancel = [d \in Docs |-> FALSE]
    /\ exc = [d \in Docs |-> "none"]
    /\ rec = [d \in Docs |-> Record("absent")]
    /\ stray = [d \in Docs |-> {}]
    /\ file = [d \in Docs |-> [f \in Files |-> "none"]]
    /\ events = [d \in Docs |-> <<>>]
    /\ open = TRUE

-----------------------------------------------------------------------------
(* MemoryStateBackend and the log fallback never suspend.                  *)
Suspends(p) ==
    CASE p \in StateCalls -> Redis
      [] p \in AuditCalls -> Nats
      [] OTHER            -> TRUE

CanStep(d) == loop \in {Free, d} /\ ~cancel[d]

Call(d, p) ==
    /\ pc' = [pc EXCEPT ![d] = p]
    /\ loop' = IF Suspends(p) THEN Free ELSE d

End(d) ==
    /\ pc' = [pc EXCEPT ![d] = "done"]
    /\ loop' = Free

(* Mutant: no handler for CancelledError.                                  *)
RaiseUncaught(d, e) ==
    IF pc[d] \in Handler \/ e = "cancelled"
    THEN End(d) /\ UNCHANGED exc
    ELSE Call(d, "fail_update") /\ exc' = [exc EXCEPT ![d] = e]

(* Mutant: a handler that fails is entered again.                          *)
RaiseAgain(d, e) ==
    IF pc[d] \in Handler
    THEN Call(d, pc[d]) /\ UNCHANGED exc
    ELSE Call(d, "fail_update") /\ exc' = [exc EXCEPT ![d] = e]

(* An exception enters record_failure; inside a handler it escapes.        *)
Raise(d, e) ==
    IF pc[d] \in Handler
    THEN End(d) /\ UNCHANGED exc
    ELSE Call(d, "fail_update") /\ exc' = [exc EXCEPT ![d] = e]

(* The record that the state.update of the current call writes.            *)
Written(d) ==
    CASE pc[d] = "mark_running"   -> Record("running")
      [] pc[d] = "mark_completed" -> Record("completed")
      [] OTHER                    -> Failed(Code(exc[d]))

Event(d) == IF pc[d] = "audit" THEN "completed" ELSE "failed"

HandOver(d, outcome) ==
    \E e \in Publications({outcome}) : events' = [events EXCEPT ![d] = Append(@, e)]

Target(p) == IF p = "upload" THEN "structured.json" ELSE "attestation.link"

StartUpload(d, p) ==
    /\ Call(d, p)
    /\ file' = [file EXCEPT ![d][Target(p)] = "writing"]

(* What a call leaves behind when it ends in an exception: a write sent to *)
(* Redis may have been applied, or be applied later when the network is    *)
(* slow; an event may be on its way; an upload whose thread has not        *)
(* started is dropped.                                                     *)
Abandon(d) ==
    \/ UNCHANGED <<rec, stray, events, file>>
    \/ /\ pc[d] \in StateCalls /\ Redis
       /\ \/ rec' = [rec EXCEPT ![d] = Written(d)] /\ UNCHANGED stray
          \/ Outages /\ stray' = [stray EXCEPT ![d] = @ \cup {Written(d)}] /\ UNCHANGED rec
       /\ UNCHANGED <<events, file>>
    \/ /\ pc[d] \in AuditCalls /\ Nats /\ open
       /\ HandOver(d, Event(d))
       /\ UNCHANGED <<rec, stray, file>>
    \/ /\ pc[d] \in Uploads /\ file[d][Target(pc[d])] = "writing"
       /\ file' = [file EXCEPT ![d][Target(pc[d])] = "none"]
       /\ UNCHANGED <<rec, stray, events>>

-----------------------------------------------------------------------------
Begin(d) ==
    /\ pc[d] = "idle"
    /\ Call(d, "mark_running")

(* A source URI is fetched; content is sniffed and validated at once.      *)
MarkedRunning(d) ==
    /\ pc[d] = "mark_running" /\ CanStep(d)
    /\ rec' = [rec EXCEPT ![d] = Written(d)]
    /\ \/ \E p \in {"fetch", "convert"} : Call(d, p) /\ UNCHANGED exc
       \/ \E e \in {"invalid", "error"} : Raise(d, e)
    /\ UNCHANGED <<cancel, stray, file, events, open>>

(* The download returns or fails; format, hash and temporary file follow.  *)
Fetched(d) ==
    /\ pc[d] = "fetch" /\ CanStep(d)
    /\ \/ Call(d, "convert") /\ UNCHANGED exc
       \/ \E e \in {"invalid", "error"} : Raise(d, e)
    /\ UNCHANGED <<cancel, rec, stray, file, events, open>>

Converted(d) ==
    /\ pc[d] = "convert" /\ CanStep(d)
    /\ \/ StartUpload(d, "upload") /\ UNCHANGED exc
       \/ (\E e \in {"limit", "error", "invalid"} : Raise(d, e)) /\ UNCHANGED file
    /\ UNCHANGED <<cancel, rec, stray, events, open>>

(* MAX_PROCESSING_TIME: the subprocess is killed, then waited for.         *)
TimedOut(d) ==
    /\ pc[d] = "convert" /\ CanStep(d)
    /\ Call(d, "reap")
    /\ exc' = [exc EXCEPT ![d] = "timeout"]
    /\ UNCHANGED <<cancel, rec, stray, file, events, open>>

Reaped(d) ==
    /\ pc[d] = "reap" /\ CanStep(d)
    /\ Raise(d, exc[d])
    /\ UNCHANGED <<cancel, rec, stray, file, events, open>>

(* Mutant: the upload is started but not awaited.                          *)
UploadedUnawaited(d) ==
    /\ pc[d] = "upload" /\ CanStep(d)
    /\ \/ Attest /\ StartUpload(d, "attest") /\ UNCHANGED exc
       \/ ~Attest /\ Call(d, "audit") /\ UNCHANGED <<exc, file>>
    /\ UNCHANGED <<cancel, rec, stray, events, open>>

(* create_link may fail: with a ValueError, as invalid content, or else.   *)
Uploaded(d) ==
    /\ pc[d] = "upload" /\ CanStep(d)
    /\ file[d]["structured.json"] = "stored"
    /\ \/ Attest /\ StartUpload(d, "attest") /\ UNCHANGED exc
       \/ Attest /\ (\E e \in {"invalid", "error"} : Raise(d, e)) /\ UNCHANGED file
       \/ ~Attest /\ Call(d, "audit") /\ UNCHANGED <<exc, file>>
    /\ UNCHANGED <<cancel, rec, stray, events, open>>

Attested(d) ==
    /\ pc[d] = "attest" /\ CanStep(d)
    /\ file[d]["attestation.link"] = "stored"
    /\ Call(d, "audit")
    /\ UNCHANGED <<cancel, exc, rec, stray, file, events, open>>

UploadFailed(d) ==
    /\ pc[d] \in Uploads /\ CanStep(d)
    /\ file[d][Target(pc[d])] = "failed"
    /\ \E e \in {"invalid", "error"} : Raise(d, e)
    /\ UNCHANGED <<cancel, rec, stray, file, events, open>>

(* publish returns: the event is logged, or written or buffered by the     *)
(* client of NATS, which waits for no acknowledgement.                     *)
Publish(d) ==
    /\ Nats => open
    /\ HandOver(d, Event(d))

Audited(d) ==
    /\ pc[d] = "audit" /\ CanStep(d)
    /\ Publish(d)
    /\ Call(d, "mark_completed")
    /\ UNCHANGED <<cancel, exc, rec, stray, file, open>>

(* Mutant: the code after the update, still in the try block, may raise.   *)
MarkedCompletedRaises(d) ==
    /\ pc[d] = "mark_completed" /\ CanStep(d)
    /\ rec' = [rec EXCEPT ![d] = Written(d)]
    /\ \/ End(d) /\ UNCHANGED exc
       \/ Raise(d, "error")
    /\ UNCHANGED <<cancel, stray, file, events, open>>

MarkedCompleted(d) ==
    /\ pc[d] = "mark_completed" /\ CanStep(d)
    /\ rec' = [rec EXCEPT ![d] = Written(d)]
    /\ End(d)
    /\ UNCHANGED <<cancel, exc, stray, file, events, open>>

(* Mutant: record_failure goes on when its update fails.                   *)
FailUpdatedOrNot(d) ==
    /\ pc[d] = "fail_update" /\ CanStep(d)
    /\ rec' \in {[rec EXCEPT ![d] = Written(d)]} \cup IF Outages THEN {rec} ELSE {}
    /\ Call(d, "fail_audit")
    /\ UNCHANGED <<cancel, exc, stray, file, events, open>>

FailUpdated(d) ==
    /\ pc[d] = "fail_update" /\ CanStep(d)
    /\ rec' = [rec EXCEPT ![d] = Written(d)]
    /\ Call(d, "fail_audit")
    /\ UNCHANGED <<cancel, exc, stray, file, events, open>>

FailAudited(d) ==
    /\ pc[d] = "fail_audit" /\ CanStep(d)
    /\ Publish(d)
    /\ End(d)
    /\ UNCHANGED <<cancel, exc, rec, stray, file, open>>

(* A call to Redis or NATS raises.  Publishing on a closed connection      *)
(* always does.                                                            *)
CallFails(d) ==
    /\ CanStep(d)
    /\ \/ pc[d] \in StateCalls /\ Redis /\ Outages
       \/ pc[d] \in AuditCalls /\ Nats /\ (Outages \/ ~open)
    /\ Abandon(d)
    /\ Raise(d, "error")
    /\ UNCHANGED <<cancel, open>>

(* Mutant: only the conversion can be cancelled.                           *)
CancelDeliveredToConvert(d) ==
    /\ cancel[d] /\ loop = Free
    /\ pc[d] = "convert"
    /\ cancel' = [cancel EXCEPT ![d] = FALSE]
    /\ Call(d, "reap")
    /\ exc' = [exc EXCEPT ![d] = "cancelled"]
    /\ UNCHANGED <<rec, stray, file, events, open>>

(* The conversion kills its subprocess and waits for it before it passes   *)
(* the cancellation on, unless there is none; a second one ends the wait.  *)
CancelDelivered(d) ==
    /\ cancel[d] /\ loop = Free
    /\ pc[d] \notin {"idle", "done"}
    /\ cancel' = [cancel EXCEPT ![d] = FALSE]
    /\ \/ /\ pc[d] = "convert"
          /\ Call(d, "reap")
          /\ exc' = [exc EXCEPT ![d] = "cancelled"]
          /\ UNCHANGED <<rec, stray, file, events>>
       \/ Abandon(d) /\ Raise(d, "cancelled")
    /\ UNCHANGED open

-----------------------------------------------------------------------------
(* The thread of an upload; nothing stops it once it runs.                 *)
ThreadEnds(d, f) ==
    /\ file[d][f] = "writing"
    /\ \E r \in {"stored", "failed"} : file' = [file EXCEPT ![d][f] = r]
    /\ UNCHANGED <<pc, loop, cancel, exc, rec, stray, events, open>>

StrayLands(d) ==
    \E w \in stray[d] :
        /\ rec' = [rec EXCEPT ![d] = w]
        /\ stray' = [stray EXCEPT ![d] = @ \ {w}]
        /\ UNCHANGED <<pc, loop, cancel, exc, file, events, open>>

Outside(d) == (\E f \in Files : ThreadEnds(d, f)) \/ StrayLands(d)

(* One step of the coroutine of d after its start.                         *)
Resume(d) ==
    \/ MarkedRunning(d) \/ Fetched(d) \/ Converted(d) \/ TimedOut(d) \/ Reaped(d)
    \/ Uploaded(d) \/ Attested(d) \/ UploadFailed(d) \/ Audited(d) \/ MarkedCompleted(d)
    \/ FailUpdated(d) \/ FailAudited(d) \/ CallFails(d) \/ CancelDelivered(d)

(* The environment of the pipeline: the service creates the record and     *)
(* starts the conversion, a shutdown cancels it and closes the publisher.  *)
Start(d) ==
    /\ loop = Free
    /\ Begin(d)
    /\ rec' = [rec EXCEPT ![d] = Record("pending")]
    /\ UNCHANGED <<cancel, exc, stray, file, events, open>>

Cancel(d) ==
    /\ loop = Free /\ pc[d] \notin {"idle", "done"} /\ ~cancel[d]
    /\ cancel' = [cancel EXCEPT ![d] = TRUE]
    /\ UNCHANGED <<pc, loop, exc, rec, stray, file, events, open>>

Close ==
    /\ loop = Free /\ Nats /\ open
    /\ open' = FALSE
    /\ UNCHANGED <<pc, loop, cancel, exc, rec, stray, file, events>>

Finished ==
    /\ \A d \in Docs : pc[d] = "done"
    /\ UNCHANGED workerVars

WorkerNext ==
    \/ \E d \in Docs : Start(d) \/ Resume(d) \/ Outside(d) \/ Cancel(d)
    \/ Close
    \/ Finished

WorkerFairness ==
    \A d \in Docs : /\ WF_workerVars(Resume(d))
                    /\ \A f \in Files : WF_workerVars(ThreadEnds(d, f))

WorkerSpec == WorkerInit /\ [][WorkerNext]_workerVars /\ WorkerFairness

-----------------------------------------------------------------------------
(* The outcomes handed to the publisher for d, in order.                   *)
Outcomes(d) == [i \in DOMAIN events[d] |-> events[d][i].outcome]

(* What a client may rely on when it reads COMPLETED: the result and its   *)
(* attestation are stored, whatever fails or is cancelled, and the audit   *)
(* publisher has taken the completion over.  That it also arrives holds    *)
(* for the log, and for NATS while its connection does not fail.           *)
CompletedIsBacked ==
    \A d \in Docs : rec[d].status = "completed" =>
        /\ file[d]["structured.json"] = "stored"
        /\ Attest => file[d]["attestation.link"] = "stored"
        /\ \E i \in DOMAIN events[d] : /\ events[d][i].outcome = "completed"
                                       /\ events[d][i].lost => Nats /\ Outages

(* However a conversion ends, the store says how: COMPLETED if nothing was *)
(* raised, else FAILED with the code of the exception it handled.  Only    *)
(* for the in-memory store, whose update cannot be interrupted.            *)
OutcomeRecorded ==
    ~Redis => \A d \in Docs : pc[d] = "done" =>
        rec[d] = IF exc[d] = "none" THEN Record("completed") ELSE Failed(Code(exc[d]))

(* The audit trail never takes a failure back: a "failed" event is the     *)
(* last one, and no outcome is published twice.  What is left of such a    *)
(* trail when events are lost is such a trail again.                       *)
AuditOrder ==
    \A d \in Docs : Outcomes(d) \in
        {<<>>, <<"completed">>, <<"failed">>, <<"completed", "failed">>}

(* record_failure writes the record before it publishes: once a failure    *)
(* was published the record says FAILED, for good.  Only a write to Redis  *)
(* that was given up and lands late can contradict the trail, and only for *)
(* a failure of the service: a document that is invalid, too large or too  *)
(* slow stays FAILED whatever the store does.                              *)
AuditedFailureIsRecorded ==
    \A d \in Docs : (\E i \in DOMAIN Outcomes(d) : Outcomes(d)[i] = "failed") =>
        \/ rec[d].status = "failed"
        \/ Redis /\ Outages /\ exc[d] \in {"error", "cancelled"}

(* COMPLETED and FAILED are final for the in-memory store: a client that   *)
(* polls never sees a document leave them.                                 *)
TerminalIsFinal ==
    [][~Redis => \A d \in Docs : rec[d].status \in Terminal => rec'[d] = rec[d]]_rec

(* worker.py: "PENDING -> RUNNING -> COMPLETED/FAILED".  An outcome is     *)
(* final, whatever the store.                                              *)
OutcomeIsFinal ==
    [][\A d \in Docs : rec[d].status \in Terminal => rec'[d].status = rec[d].status]_rec

(* A conversion that began comes to an end, cancelled or not.              *)
ConversionsEnd ==
    \A d \in Docs : pc[d] # "idle" ~> pc[d] = "done"
=============================================================================
