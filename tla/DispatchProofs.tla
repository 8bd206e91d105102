--------------------------- MODULE DispatchProofs ---------------------------
(***************************************************************************)
(* The conversion pipeline and the embedded dispatcher that runs it, for   *)
(* any number of documents, any concurrency limit and any choice of        *)
(* backends.  First the pipeline in any environment (WorkerSpec): its type *)
(* correctness and what COMPLETED stands for.  Then the whole service      *)
(* (Spec): type correctness, the accounting of the semaphore, no lost      *)
(* wake-up, queued jobs that never start once they were given up, and what *)
(* COMPLETED stands for there.                                             *)
(***************************************************************************)
EXTENDS Dispatch, FiniteSetTheorems, TLAPS

(* The parts of the type invariant that the calls of a coroutine touch.    *)
ControlOK ==
    /\ pc \in [Docs -> Calls \cup {"idle", "done"}]
    /\ loop \in Docs \cup {Free}

(* A coroutine that makes a call leaves the control state well typed.      *)
LEMMA CallTyped ==
    ASSUME ControlOK, NEW d \in Docs, NEW p \in Calls, Call(d, p)
    PROVE  ControlOK'
BY DEF ControlOK, Call

(* So does a coroutine that ends.                                          *)
LEMMA EndTyped ==
    ASSUME ControlOK, NEW d \in Docs, End(d)
    PROVE  ControlOK'
BY DEF ControlOK, End

(* Raising keeps control state and exceptions well typed.                  *)
LEMMA RaiseTyped ==
    ASSUME WorkerTypeOK, NEW d \in Docs, NEW e \in Errors \cup {"none"}, Raise(d, e)
    PROVE  ControlOK' /\ exc' \in [Docs -> Errors \cup {"none"}]
<1>1. ControlOK
  BY DEF WorkerTypeOK, ControlOK
<1>2. CASE pc[d] \in Handler
  BY <1>1, <1>2, EndTyped DEF Raise, WorkerTypeOK
<1>3. CASE pc[d] \notin Handler
  <2>1. "fail_update" \in Calls
    BY DEF Calls, StateCalls
  <2>2. Call(d, "fail_update") /\ exc' = [exc EXCEPT ![d] = e]
    BY <1>3 DEF Raise
  <2> QED
    BY <1>1, <2>1, <2>2, CallTyped DEF WorkerTypeOK
<1> QED
  BY <1>2, <1>3

(* What a state.update writes is a record, what is published is an event.  *)
LEMMA WrittenTyped ==
    ASSUME NEW d \in Docs
    PROVE  Written(d) \in Records /\ Event(d) \in {"completed", "failed"}
BY DEF Written, Event, Records, Record, Failed, Code, Statuses, Codes

(* Handing over an event appends it, and its outcome, to those of its      *)
(* document.                                                               *)
LEMMA HandOverTyped ==
    ASSUME WorkerTypeOK, NEW d \in Docs, NEW o \in {"completed", "failed"}, HandOver(d, o)
    PROVE  /\ events' \in [Docs -> Seq(Publications({"completed", "failed"}))]
           /\ \A x \in Docs \ {d} : events'[x] = events[x]
           /\ \E e \in Publications({o}) : events'[d] = Append(events[d], e)
<1>1. PICK e \in Publications({o}) : events' = [events EXCEPT ![d] = Append(@, e)]
  BY DEF HandOver
<1>2. e \in Publications({"completed", "failed"})
  BY DEF Publications
<1>3. Append(events[d], e) \in Seq(Publications({"completed", "failed"}))
  BY <1>2 DEF WorkerTypeOK
<1> QED
  BY <1>1, <1>3 DEF WorkerTypeOK

LEMMA HandOverOutcome ==
    ASSUME WorkerTypeOK, NEW d \in Docs, NEW o \in {"completed", "failed"}, HandOver(d, o)
    PROVE  /\ Outcomes(d) \in Seq({"completed", "failed"})
           /\ Outcomes(d)' = Append(Outcomes(d), o)
<1> DEFINE P == Publications({"completed", "failed"})
           s == events[d]
<1>1. PICK e \in Publications({o}) : events'[d] = Append(s, e)
  BY HandOverTyped
<1>2. e \in P /\ e.outcome = o /\ \A r \in P : r.outcome \in {"completed", "failed"}
  BY DEF Publications
<1>3. s \in Seq(P)
  BY DEF WorkerTypeOK
<1> HIDE DEF P, s
<1>4. Outcomes(d) = [i \in 1..Len(s) |-> s[i].outcome]
  BY <1>3 DEF Outcomes, s
<1>5. Outcomes(d) \in Seq({"completed", "failed"}) /\ Len(Outcomes(d)) = Len(s)
  BY <1>2, <1>3, <1>4
<1>6. /\ DOMAIN Append(s, e) = 1..(Len(s) + 1)
      /\ \A i \in 1..(Len(s) + 1) : Append(s, e)[i] = IF i = Len(s) + 1 THEN e ELSE s[i]
  BY <1>2, <1>3
<1>7. Outcomes(d)' = [i \in 1..(Len(s) + 1) |-> IF i = Len(s) + 1 THEN o ELSE s[i].outcome]
  BY <1>1, <1>2, <1>6 DEF Outcomes
<1>8. Append(Outcomes(d), o)
        = [i \in 1..(Len(s) + 1) |-> IF i = Len(s) + 1 THEN o ELSE s[i].outcome]
  BY <1>4, <1>5
<1> QED
  BY <1>5, <1>7, <1>8

(* Giving up a call leaves records, strays, files and events well typed.   *)
LEMMA AbandonTyped ==
    ASSUME WorkerTypeOK, NEW d \in Docs, Abandon(d)
    PROVE  /\ rec' \in [Docs -> Records]
           /\ stray' \in [Docs -> SUBSET Records]
           /\ file' \in [Docs -> [Files -> {"none", "writing", "stored", "failed"}]]
           /\ events' \in [Docs -> Seq(Publications({"completed", "failed"}))]
<1>1. Written(d) \in Records /\ Event(d) \in {"completed", "failed"}
  BY WrittenTyped
<1>2. Target(pc[d]) \in Files
  BY DEF Target, Files
<1> DEFINE S == stray[d] \cup {Written(d)}
<1>3. S \in SUBSET Records
  BY <1>1 DEF WorkerTypeOK
<1> HIDE DEF S
<1>5. \/ UNCHANGED <<rec, stray, events, file>>
      \/ rec' = [rec EXCEPT ![d] = Written(d)] /\ UNCHANGED <<stray, events, file>>
      \/ stray' = [stray EXCEPT ![d] = S] /\ UNCHANGED <<rec, events, file>>
      \/ HandOver(d, Event(d)) /\ UNCHANGED <<rec, stray, file>>
      \/ file' = [file EXCEPT ![d][Target(pc[d])] = "none"] /\ UNCHANGED <<rec, stray, events>>
  BY DEF Abandon, S
<1>6. CASE UNCHANGED <<rec, stray, events, file>>
  BY <1>6 DEF WorkerTypeOK
<1>7. CASE rec' = [rec EXCEPT ![d] = Written(d)] /\ UNCHANGED <<stray, events, file>>
  BY <1>1, <1>7 DEF WorkerTypeOK
<1>8. CASE stray' = [stray EXCEPT ![d] = S] /\ UNCHANGED <<rec, events, file>>
  BY <1>3, <1>8 DEF WorkerTypeOK
<1>9. CASE HandOver(d, Event(d)) /\ UNCHANGED <<rec, stray, file>>
  BY <1>1, <1>9, HandOverTyped DEF WorkerTypeOK
<1>10. CASE file' = [file EXCEPT ![d][Target(pc[d])] = "none"] /\ UNCHANGED <<rec, stray, events>>
  BY <1>2, <1>10 DEF WorkerTypeOK
<1> QED
  BY <1>5, <1>6, <1>7, <1>8, <1>9, <1>10

(* Starting an upload keeps control state and files well typed.            *)
LEMMA UploadTyped ==
    ASSUME WorkerTypeOK, NEW d \in Docs, NEW p \in Uploads, StartUpload(d, p)
    PROVE  ControlOK' /\ file' \in [Docs -> [Files -> {"none", "writing", "stored", "failed"}]]
<1>1. ControlOK /\ p \in Calls
  BY DEF WorkerTypeOK, ControlOK, Calls
<1>2. Target(p) \in Files
  BY DEF Target, Files
<1> QED
  BY <1>1, <1>2, CallTyped DEF StartUpload, WorkerTypeOK

(* Publishing keeps the events well typed.                                 *)
LEMMA PublishTyped ==
    ASSUME WorkerTypeOK, NEW d \in Docs, Publish(d)
    PROVE  events' \in [Docs -> Seq(Publications({"completed", "failed"}))]
  BY WrittenTyped, HandOverTyped DEF Publish

-----------------------------------------------------------------------------
(* Every step of run_conversion and record_failure keeps the state typed.  *)
LEMMA ResumeTyped ==
    ASSUME WorkerTypeOK, NEW d \in Docs, Resume(d)
    PROVE  WorkerTypeOK'
<1>0. ControlOK
  BY DEF WorkerTypeOK, ControlOK
<1> DEFINE Control == ControlOK' /\ exc' \in [Docs -> Errors \cup {"none"}]
           Data == /\ rec' \in [Docs -> Records]
                   /\ stray' \in [Docs -> SUBSET Records]
                   /\ file' \in [Docs -> [Files -> {"none", "writing", "stored", "failed"}]]
                   /\ events' \in [Docs -> Seq(Publications({"completed", "failed"}))]
<1>a. ASSUME Control, Data, cancel' \in [Docs -> BOOLEAN], open' \in BOOLEAN
      PROVE  WorkerTypeOK'
  BY <1>a DEF WorkerTypeOK, ControlOK
<1>b. ASSUME NEW e \in Errors, Raise(d, e)
      PROVE  Control
  BY <1>b, RaiseTyped
<1>c. ASSUME NEW p \in Calls, Call(d, p), UNCHANGED exc
      PROVE  Control
  BY <1>0, <1>c, CallTyped DEF WorkerTypeOK
<1>d. {"fetch", "convert", "reap", "audit", "mark_completed", "fail_audit"} \subseteq Calls
  BY DEF Calls, StateCalls, AuditCalls
<1>e. {"invalid", "error", "limit", "cancelled"} \subseteq Errors
  BY DEF Errors
<1>f. ASSUME UNCHANGED <<rec, stray, file, events>>
      PROVE  Data
  BY <1>f DEF WorkerTypeOK
<1>g. ASSUME rec' = [rec EXCEPT ![d] = Written(d)], UNCHANGED <<stray, file, events>>
      PROVE  Data
  BY <1>g, WrittenTyped DEF WorkerTypeOK
<1>h. ASSUME Publish(d), UNCHANGED <<rec, stray, file>>
      PROVE  Data
  BY <1>h, PublishTyped DEF WorkerTypeOK
<1>i. ASSUME NEW p \in Uploads, StartUpload(d, p), UNCHANGED <<exc, rec, stray, events>>
      PROVE  Control /\ Data
  BY <1>i, UploadTyped DEF WorkerTypeOK
<1>j. ASSUME UNCHANGED <<cancel, open>>
      PROVE  cancel' \in [Docs -> BOOLEAN] /\ open' \in BOOLEAN
  BY <1>j DEF WorkerTypeOK
<1> HIDE DEF Control, Data
<1>1. CASE MarkedRunning(d)
  BY <1>1, <1>a, <1>b, <1>c, <1>d, <1>e, <1>g, <1>j DEF MarkedRunning
<1>2. CASE Fetched(d)
  BY <1>2, <1>a, <1>b, <1>c, <1>d, <1>e, <1>f, <1>j DEF Fetched
<1>3. CASE Converted(d)
  BY <1>3, <1>a, <1>b, <1>e, <1>f, <1>i, <1>j DEF Converted, Uploads
<1>4. CASE TimedOut(d)
  <2>1. Control
    BY <1>0, <1>4, <1>d, CallTyped DEF TimedOut, WorkerTypeOK, Errors, Control
  <2> QED
    BY <1>4, <2>1, <1>a, <1>f, <1>j DEF TimedOut
<1>5. CASE Reaped(d)
  <2>1. Control
    BY <1>5, RaiseTyped DEF Reaped, WorkerTypeOK, Control
  <2> QED
    BY <1>5, <2>1, <1>a, <1>f, <1>j DEF Reaped
<1>6. CASE Uploaded(d)
  BY <1>6, <1>a, <1>b, <1>c, <1>d, <1>e, <1>f, <1>i, <1>j DEF Uploaded, Uploads
<1>7. CASE Attested(d)
  BY <1>7, <1>a, <1>c, <1>d, <1>f, <1>j DEF Attested
<1>8. CASE UploadFailed(d)
  BY <1>8, <1>a, <1>b, <1>e, <1>f, <1>j DEF UploadFailed
<1>9. CASE Audited(d)
  BY <1>9, <1>a, <1>c, <1>d, <1>h, <1>j DEF Audited
<1>10. CASE MarkedCompleted(d)
  <2>1. Control
    BY <1>0, <1>10, EndTyped DEF MarkedCompleted, WorkerTypeOK, Control
  <2> QED
    BY <1>10, <2>1, <1>a, <1>g, <1>j DEF MarkedCompleted
<1>11. CASE FailUpdated(d)
  BY <1>11, <1>a, <1>c, <1>d, <1>g, <1>j DEF FailUpdated
<1>12. CASE FailAudited(d)
  <2>1. Control
    BY <1>0, <1>12, EndTyped DEF FailAudited, WorkerTypeOK, Control
  <2> QED
    BY <1>12, <2>1, <1>a, <1>h, <1>j DEF FailAudited
<1>13. CASE CallFails(d)
  <2>1. Data
    BY <1>13, AbandonTyped DEF CallFails, Data
  <2> QED
    BY <1>13, <2>1, <1>a, <1>b, <1>e, <1>j DEF CallFails
<1>14. CASE CancelDelivered(d)
  <2>1. cancel' \in [Docs -> BOOLEAN] /\ open' \in BOOLEAN
    BY <1>14 DEF CancelDelivered, WorkerTypeOK
  <2>2. CASE Call(d, "reap") /\ exc' = [exc EXCEPT ![d] = "cancelled"]
             /\ UNCHANGED <<rec, stray, file, events>>
    <3>1. Control
      BY <1>0, <2>2, <1>d, CallTyped DEF WorkerTypeOK, Errors, Control
    <3> QED
      BY <3>1, <2>1, <2>2, <1>a, <1>f
  <2>3. CASE Abandon(d) /\ Raise(d, "cancelled")
    <3>1. Data
      BY <2>3, AbandonTyped DEF Data
    <3> QED
      BY <2>1, <2>3, <3>1, <1>a, <1>b, <1>e
  <2> QED
    BY <1>14, <2>2, <2>3 DEF CancelDelivered
<1> QED
  BY <1>1, <1>2, <1>3, <1>4, <1>5, <1>6, <1>7, <1>8, <1>9, <1>10, <1>11, <1>12, <1>13, <1>14
     DEF Resume

(* So do the threads of the uploads and the late writes to Redis.          *)
LEMMA OutsideTyped ==
    ASSUME WorkerTypeOK, NEW d \in Docs, Outside(d)
    PROVE  WorkerTypeOK'
<1>1. CASE \E f \in Files : ThreadEnds(d, f)
  BY <1>1 DEF ThreadEnds, WorkerTypeOK
<1>2. CASE StrayLands(d)
  <2>1. PICK w \in stray[d] :
            /\ rec' = [rec EXCEPT ![d] = w]
            /\ stray' = [stray EXCEPT ![d] = @ \ {w}]
            /\ UNCHANGED <<pc, loop, cancel, exc, file, events, open>>
    BY <1>2 DEF StrayLands
  <2>2. w \in Records /\ stray[d] \ {w} \in SUBSET Records
    BY DEF WorkerTypeOK
  <2> QED
    BY <2>1, <2>2 DEF WorkerTypeOK
<1> QED
  BY <1>1, <1>2 DEF Outside

(* The initial state is well typed.                                        *)
LEMMA WorkerInitTyped == WorkerInit => WorkerTypeOK
BY DEF WorkerInit, WorkerTypeOK, Records, Record, Statuses, Codes

(* The pipeline keeps its state well typed, in whatever order its          *)
(* environment starts and cancels conversions and closes the publisher.    *)
THEOREM WorkerTypeCorrect == WorkerSpec => []WorkerTypeOK
<1>1. WorkerTypeOK /\ [WorkerNext]_workerVars => WorkerTypeOK'
  <2> SUFFICES ASSUME WorkerTypeOK, [WorkerNext]_workerVars
               PROVE  WorkerTypeOK'
    OBVIOUS
  <2>1. ASSUME NEW d \in Docs, Start(d)
        PROVE  WorkerTypeOK'
    BY <2>1 DEF Start, Begin, Call, WorkerTypeOK, Calls, StateCalls, Records, Record, Statuses, Codes
  <2>2. ASSUME NEW d \in Docs, Cancel(d)
        PROVE  WorkerTypeOK'
    BY <2>2 DEF Cancel, WorkerTypeOK
  <2>3. CASE Close
    BY <2>3 DEF Close, WorkerTypeOK
  <2>4. CASE UNCHANGED workerVars
    BY <2>4 DEF workerVars, WorkerTypeOK
  <2> QED
    BY <2>1, <2>2, <2>3, <2>4, ResumeTyped, OutsideTyped DEF WorkerNext, Finished
<1> QED
  BY <1>1, WorkerInitTyped, PTL DEF WorkerSpec

-----------------------------------------------------------------------------
(* Everything COMPLETED stands for: the stored files and the event, which  *)
(* only a client of NATS can lose.                                         *)
Stored(d, f) == file[d][f] = "stored"

CompletionAudited(d) ==
    \E i \in DOMAIN events[d] : /\ events[d][i].outcome = "completed"
                                /\ events[d][i].lost => Nats /\ Outages

Backed(d) ==
    /\ Stored(d, "structured.json")
    /\ Attest => Stored(d, "attestation.link")
    /\ CompletionAudited(d)

(* COMPLETED was written for d, or is on its way to the store.             *)
Claimed(d) ==
    rec[d].status = "completed" \/ \E w \in stray[d] : w.status = "completed"

(* How far the pipeline has come tells what is stored, and COMPLETED is    *)
(* claimed by its last call only.  This is inductive; CompletedIsBacked    *)
(* alone is not.                                                           *)
Progress(d) ==
    /\ pc[d] \in {"attest", "audit", "mark_completed"} => Stored(d, "structured.json")
    /\ pc[d] \in {"audit", "mark_completed"} /\ Attest => Stored(d, "attestation.link")
    /\ pc[d] = "mark_completed" => CompletionAudited(d)
    /\ Claimed(d) => Backed(d) /\ pc[d] \in {"fail_update", "fail_audit", "done"}

BackedInv == WorkerTypeOK /\ \A d \in Docs : Progress(d)

(* A step of a conversion touches the data of its own document only.       *)
LEMMA ResumeLocal ==
    ASSUME WorkerTypeOK, NEW d \in Docs, Resume(d), NEW x \in Docs \ {d}
    PROVE  /\ pc'[x] = pc[x] /\ rec'[x] = rec[x] /\ stray'[x] = stray[x]
           /\ file'[x] = file[x] /\ events'[x] = events[x]
<1> USE DEF WorkerTypeOK
<1>1. /\ pc'[x] = pc[x]
      /\ file'[x] = file[x]
  BY DEF Resume, MarkedRunning, Fetched, Converted, TimedOut, Reaped, Uploaded, Attested,
         UploadFailed, Audited, MarkedCompleted, FailUpdated, FailAudited, CallFails,
         CancelDelivered, Call, End, Raise, StartUpload, Abandon
<1>2. rec'[x] = rec[x] /\ stray'[x] = stray[x]
  BY DEF Resume, MarkedRunning, Fetched, Converted, TimedOut, Reaped, Uploaded, Attested,
         UploadFailed, Audited, MarkedCompleted, FailUpdated, FailAudited, CallFails,
         CancelDelivered, Abandon
<1>3. events'[x] = events[x]
  <2>1. events' = events \/ HandOver(d, Event(d))
    BY DEF Resume, MarkedRunning, Fetched, Converted, TimedOut, Reaped, Uploaded, Attested,
           UploadFailed, Audited, MarkedCompleted, FailUpdated, FailAudited, CallFails,
           CancelDelivered, Abandon, Publish
  <2> QED
    BY <2>1, WrittenTyped, HandOverTyped
<1> QED
  BY <1>1, <1>2, <1>3

(* A completion that was handed over stays handed over.                    *)
LEMMA AuditGrows ==
    ASSUME WorkerTypeOK, NEW d \in Docs, NEW o \in {"completed", "failed"}, HandOver(d, o)
    PROVE  /\ CompletionAudited(d) => CompletionAudited(d)'
           /\ o = "completed" => CompletionAudited(d)'
<1> DEFINE P == Publications({"completed", "failed"})
           s == events[d]
           Completion(r) == r.outcome = "completed" /\ (r.lost => Nats /\ Outages)
<1>0. PICK e \in Publications({o}) : events'[d] = Append(s, e)
  BY HandOverTyped
<1>1. s \in Seq(P) /\ e \in P /\ (o = "completed" => Completion(e))
  BY WorkerAssumption DEF WorkerTypeOK, Publications
<1> HIDE DEF P
<1>2. /\ DOMAIN Append(s, e) = 1..(Len(s) + 1)
      /\ Append(s, e)[Len(s) + 1] = e
      /\ \A i \in DOMAIN s : i \in DOMAIN Append(s, e) /\ Append(s, e)[i] = s[i]
  BY <1>1
<1>3. Len(s) + 1 \in 1..(Len(s) + 1)
  BY <1>1
<1> HIDE DEF s, Completion
<1>4. /\ (\E i \in DOMAIN s : Completion(s[i]))
           => \E i \in DOMAIN Append(s, e) : Completion(Append(s, e)[i])
      /\ o = "completed" => \E i \in DOMAIN Append(s, e) : Completion(Append(s, e)[i])
  BY <1>1, <1>2, <1>3
<1> QED
  BY <1>0, <1>4 DEF CompletionAudited, Completion, s

(* Giving up a call claims nothing but what the call would have written,   *)
(* and takes back nothing that is stored or published.                     *)
LEMMA AbandonBacked ==
    ASSUME WorkerTypeOK, NEW d \in Docs, Abandon(d)
    PROVE  /\ \A f \in Files : Stored(d, f) => Stored(d, f)'
           /\ CompletionAudited(d) => CompletionAudited(d)'
           /\ Claimed(d)' => Claimed(d) \/ pc[d] = "mark_completed"
<1>1. \A f \in Files : Stored(d, f) => Stored(d, f)'
  BY DEF Abandon, Stored, WorkerTypeOK, Target
<1>2. CompletionAudited(d) => CompletionAudited(d)'
  <2>1. CASE events' = events
    BY <2>1 DEF CompletionAudited
  <2>2. CASE HandOver(d, Event(d))
    BY <2>2, WrittenTyped, AuditGrows
  <2> QED
    BY <2>1, <2>2 DEF Abandon
<1>3. Claimed(d)' => Claimed(d) \/ pc[d] = "mark_completed"
  <2>1. Written(d).status = "completed" => pc[d] = "mark_completed"
    BY DEF Written, Record, Failed
  <2>2. /\ rec'[d] = rec[d] \/ rec'[d] = Written(d)
        /\ stray'[d] \subseteq stray[d] \cup {Written(d)}
    BY DEF Abandon, WorkerTypeOK
  <2> QED
    BY <2>1, <2>2 DEF Claimed
<1> QED
  BY <1>1, <1>2, <1>3

(* A conversion that has failed, or has ended, may claim only what is      *)
(* backed: it claimed it before, or it was about to.                       *)
LEMMA FailureBacked ==
    ASSUME NEW d \in Docs, Progress(d),
           \A f \in Files : Stored(d, f) => Stored(d, f)',
           CompletionAudited(d) => CompletionAudited(d)',
           Claimed(d)' => Claimed(d) \/ pc[d] = "mark_completed",
           pc'[d] \in {"fail_update", "fail_audit", "done"}
    PROVE  Progress(d)'
<1>1. {"structured.json", "attestation.link"} \subseteq Files
  BY DEF Files
<1>2. Claimed(d)' => Backed(d)
  BY DEF Progress, Backed
<1> QED
  BY <1>1, <1>2 DEF Progress, Backed

(* A conversion that has neither failed nor ended claims nothing, and      *)
(* claims nothing after a step that writes no COMPLETED.                   *)
LEMMA Unclaimed ==
    ASSUME NEW d \in Docs, Progress(d), pc[d] \notin {"fail_update", "fail_audit", "done"},
           stray' = stray, rec'[d].status # "completed"
    PROVE  ~Claimed(d)'
BY DEF Progress, Claimed

(* An exception leads into the handler, or ends the conversion.            *)
LEMMA Raised ==
    ASSUME WorkerTypeOK, NEW d \in Docs, NEW e, Raise(d, e)
    PROVE  pc'[d] \in {"fail_update", "fail_audit", "done"}
BY DEF Raise, Call, End, WorkerTypeOK

(* Every step of run_conversion keeps Progress.                            *)
LEMMA ResumeBacked ==
    ASSUME WorkerTypeOK, NEW d \in Docs, Progress(d), Resume(d)
    PROVE  Progress(d)'
<1>a. ASSUME UNCHANGED <<rec, stray, file, events>>
      PROVE  /\ \A f \in Files : Stored(d, f) => Stored(d, f)'
             /\ CompletionAudited(d) => CompletionAudited(d)'
             /\ Claimed(d)' => Claimed(d)
  BY <1>a DEF Stored, CompletionAudited, Claimed
<1>b. ASSUME NEW e, Raise(d, e), UNCHANGED <<rec, stray, file, events>>
      PROVE  Progress(d)'
  BY <1>b, <1>a, Raised, FailureBacked
<1>c. ASSUME NEW e, Raise(d, e), Abandon(d)
      PROVE  Progress(d)'
  BY <1>c, AbandonBacked, Raised, FailureBacked
<1>d. ASSUME NEW p, Call(d, p)
      PROVE  pc'[d] = p
  BY <1>d DEF Call, WorkerTypeOK
<1>e. ASSUME rec' = [rec EXCEPT ![d] = Written(d)]
      PROVE  rec'[d] = Written(d)
  BY <1>e DEF WorkerTypeOK
<1>1. CASE MarkedRunning(d)
  <2>1. ~Claimed(d)'
    BY <1>1, <1>e, Unclaimed DEF MarkedRunning, Written, Record
  <2>2. pc'[d] \in {"fetch", "convert", "fail_update", "fail_audit", "done"}
    BY <1>1, <1>d, Raised DEF MarkedRunning
  <2> QED
    BY <2>1, <2>2 DEF Progress
<1>2. CASE Fetched(d)
  <2>1. CASE Call(d, "convert")
    <3>1. pc'[d] = "convert"
      BY <2>1, <1>d
    <3>2. ~Claimed(d)'
      BY <1>2, <1>a DEF Fetched, Progress
    <3> QED
      BY <3>1, <3>2 DEF Progress
  <2> QED
    BY <1>2, <2>1, <1>b DEF Fetched
<1>3. CASE Converted(d)
  <2>1. CASE StartUpload(d, "upload")
    <3>1. pc'[d] = "upload"
      BY <2>1, <1>d DEF StartUpload
    <3>2. ~Claimed(d)'
      BY <1>3 DEF Converted, Progress, Claimed
    <3> QED
      BY <3>1, <3>2 DEF Progress
  <2> QED
    BY <1>3, <2>1, <1>b DEF Converted
<1>4. CASE TimedOut(d)
  <2>1. pc'[d] = "reap"
    BY <1>4, <1>d DEF TimedOut
  <2>2. ~Claimed(d)'
    BY <1>4, <1>a DEF TimedOut, Progress
  <2> QED
    BY <2>1, <2>2 DEF Progress
<1>5. CASE Reaped(d)
  BY <1>5, <1>b DEF Reaped
<1>6. CASE Uploaded(d)
  <2>1. Stored(d, "structured.json") /\ ~Claimed(d)'
    BY <1>6 DEF Uploaded, Stored, Progress, Claimed
  <2>2. CASE StartUpload(d, "attest")
    <3>1. pc'[d] = "attest"
      BY <2>2, <1>d DEF StartUpload
    <3>2. Stored(d, "structured.json")'
      BY <2>1, <2>2 DEF StartUpload, Stored, Target, WorkerTypeOK, Files
    <3> QED
      BY <3>1, <3>2, <2>1 DEF Progress
  <2>3. CASE ~Attest /\ Call(d, "audit") /\ UNCHANGED file
    <3>1. pc'[d] = "audit" /\ Stored(d, "structured.json")'
      BY <2>1, <2>3, <1>d DEF Stored
    <3> QED
      BY <3>1, <2>1, <2>3 DEF Progress
  <2> QED
    BY <1>6, <2>2, <2>3, <1>b DEF Uploaded
<1>7. CASE Attested(d)
  <2>1. pc'[d] = "audit"
    BY <1>7, <1>d DEF Attested
  <2>2. Stored(d, "structured.json")' /\ Stored(d, "attestation.link")' /\ ~Claimed(d)'
    BY <1>7 DEF Attested, Stored, Progress, Claimed
  <2> QED
    BY <2>1, <2>2 DEF Progress
<1>8. CASE UploadFailed(d)
  BY <1>8, <1>b DEF UploadFailed
<1>9. CASE Audited(d)
  <2>1. pc'[d] = "mark_completed" /\ ~Claimed(d)'
    BY <1>9, <1>d DEF Audited, Progress, Claimed
  <2>2. CompletionAudited(d)'
    BY <1>9, AuditGrows DEF Audited, Publish, Event
  <2>3. Stored(d, "structured.json")' /\ (Attest => Stored(d, "attestation.link")')
    BY <1>9 DEF Audited, Stored, Progress
  <2> QED
    BY <2>1, <2>2, <2>3 DEF Progress
<1>10. CASE MarkedCompleted(d)
  <2>1. pc[d] = "mark_completed" /\ pc'[d] = "done"
    BY <1>10 DEF MarkedCompleted, End, WorkerTypeOK
  <2>2. UNCHANGED <<file, events>>
    BY <1>10 DEF MarkedCompleted
  <2> QED
    BY <2>1, <2>2, FailureBacked DEF Stored, CompletionAudited
<1>11. CASE FailUpdated(d)
  <2>1. pc'[d] = "fail_audit" /\ pc[d] = "fail_update"
    BY <1>11, <1>d DEF FailUpdated
  <2>2. rec'[d].status # "completed" /\ UNCHANGED <<stray, file, events>>
    BY <1>11, <1>e, <2>1 DEF FailUpdated, Written, Failed
  <2>3. Claimed(d)' => Claimed(d)
    BY <2>2 DEF Claimed
  <2> QED
    BY <2>1, <2>2, <2>3, FailureBacked DEF Stored, CompletionAudited
<1>12. CASE FailAudited(d)
  <2>1. pc'[d] = "done" /\ UNCHANGED <<rec, stray, file>>
    BY <1>12 DEF FailAudited, End, WorkerTypeOK
  <2>2. CompletionAudited(d) => CompletionAudited(d)'
    BY <1>12, WrittenTyped, AuditGrows DEF FailAudited, Publish
  <2> QED
    BY <2>1, <2>2, FailureBacked DEF Stored, Claimed
<1>13. CASE CallFails(d)
  BY <1>13, <1>c DEF CallFails
<1>14. CASE CancelDelivered(d)
  <2>1. CASE Call(d, "reap") /\ pc[d] = "convert" /\ UNCHANGED <<rec, stray, file, events>>
    <3>1. pc'[d] = "reap" /\ ~Claimed(d)'
      BY <2>1, <1>a, <1>d DEF Progress
    <3> QED
      BY <3>1 DEF Progress
  <2> QED
    BY <1>14, <2>1, <1>c DEF CancelDelivered
<1> QED
  BY <1>1, <1>2, <1>3, <1>4, <1>5, <1>6, <1>7, <1>8, <1>9, <1>10, <1>11, <1>12, <1>13, <1>14
     DEF Resume

(* So do the upload threads and the late writes.                           *)
LEMMA OutsideBacked ==
    ASSUME WorkerTypeOK, NEW d \in Docs, NEW x \in Docs, Progress(x), Outside(d)
    PROVE  Progress(x)'
<1>1. CASE \E f \in Files : ThreadEnds(d, f)
  <2>1. PICK f \in Files : ThreadEnds(d, f)
    BY <1>1
  <2>2. \A g \in Files : Stored(x, g) => Stored(x, g)'
    BY <2>1 DEF ThreadEnds, Stored, WorkerTypeOK
  <2>3. {"structured.json", "attestation.link"} \subseteq Files
    BY DEF Files
  <2>4. UNCHANGED <<pc, rec, stray, events>>
    BY <2>1 DEF ThreadEnds
  <2> QED
    BY <2>2, <2>3, <2>4 DEF Progress, Claimed, Backed, CompletionAudited
<1>2. CASE StrayLands(d)
  <2>1. Claimed(x)' => Claimed(x)
    BY <1>2 DEF StrayLands, Claimed, WorkerTypeOK
  <2>2. UNCHANGED <<pc, file, events>>
    BY <1>2 DEF StrayLands
  <2> QED
    BY <2>1, <2>2 DEF Progress, Backed, Stored, CompletionAudited
<1> QED
  BY <1>1, <1>2 DEF Outside

(* What Progress says of a document depends on that document's state only. *)
LEMMA ProgressLocal ==
    ASSUME NEW x \in Docs, Progress(x), pc'[x] = pc[x], rec'[x] = rec[x],
           stray'[x] = stray[x], file'[x] = file[x], events'[x] = events[x]
    PROVE  Progress(x)'
BY DEF Progress, Claimed, Backed, Stored, CompletionAudited

(* Whatever the backends and the failures, a record that says COMPLETED    *)
(* stands for stored results and a completion that the audit publisher     *)
(* took over, and that only a failing connection to NATS can lose.         *)
THEOREM CompletionIsBacked == WorkerSpec => []CompletedIsBacked
<1>1. WorkerInit => BackedInv
  BY WorkerInitTyped DEF WorkerInit, BackedInv, Progress, Claimed, Record
<1>2. WorkerTypeOK /\ WorkerTypeOK' /\ BackedInv /\ [WorkerNext]_workerVars => BackedInv'
  <2> SUFFICES ASSUME WorkerTypeOK, WorkerTypeOK', BackedInv, [WorkerNext]_workerVars,
                      NEW x \in Docs
               PROVE  Progress(x)'
    BY DEF BackedInv
  <2>0. Progress(x)
    BY DEF BackedInv
  <2>1. ASSUME NEW d \in Docs, Start(d)
        PROVE  Progress(x)'
    <3>1. CASE x = d
      <4>1. pc[d] = "idle" /\ pc'[d] = "mark_running"
        BY <2>1 DEF Start, Begin, Call, WorkerTypeOK
      <4>2. rec'[d].status # "completed" /\ stray' = stray
        BY <2>1 DEF Start, WorkerTypeOK, Record
      <4> QED
        BY <2>0, <3>1, <4>1, <4>2, Unclaimed DEF Progress, Start
    <3>2. CASE x # d
      BY <2>0, <2>1, <3>2, ProgressLocal DEF Start, Begin, Call, WorkerTypeOK
    <3> QED
      BY <3>1, <3>2
  <2>2. ASSUME NEW d \in Docs, Resume(d)
        PROVE  Progress(x)'
    BY <2>0, <2>2, ResumeBacked, ResumeLocal, ProgressLocal
  <2>3. ASSUME NEW d \in Docs, Outside(d)
        PROVE  Progress(x)'
    BY <2>0, <2>3, OutsideBacked
  <2>4. ASSUME NEW d \in Docs, Cancel(d)
        PROVE  Progress(x)'
    BY <2>0, <2>4, ProgressLocal DEF Cancel
  <2>5. CASE Close
    BY <2>0, <2>5, ProgressLocal DEF Close
  <2>6. CASE UNCHANGED workerVars
    BY <2>0, <2>6, ProgressLocal DEF workerVars
  <2> QED
    BY <2>1, <2>2, <2>3, <2>4, <2>5, <2>6 DEF WorkerNext, Finished
<1>3. BackedInv => CompletedIsBacked
  BY DEF BackedInv, Progress, Claimed, Backed, Stored, CompletionAudited, CompletedIsBacked
<1> QED
  BY <1>1, <1>2, <1>3, WorkerTypeCorrect, PTL DEF WorkerSpec

-----------------------------------------------------------------------------
(* What is true of one document between any two steps of the loop.         *)
Job(d) ==
    /\ rpc[d] # "ok" => /\ pc[d] = "idle" /\ slot[d] = "none" /\ drain[d] = "none"
                        /\ d \notin tasks /\ d \notin queued
    /\ slot[d] = "held" <=> pc[d] \notin {"idle", "done"}
    /\ slot[d] # "none" => d \in tasks
    /\ d \in queued => pc[d] = "idle"
    /\ d \in tasks \ queued => pc[d] \notin {"idle", "done"}
    /\ drain[d] # "none" => pc[d] = "idle" /\ (d \in tasks => cancel[d])

Jobs == \A d \in Docs : Job(d)

Permits == permits + Cardinality(Slotted) = MaxConcurrent

IInv == TypeOK /\ Jobs /\ Permits /\ NoLostWakeup

-----------------------------------------------------------------------------
(* Sets of documents are finite and disjoint ones add up.                  *)
LEMMA DocSets ==
    ASSUME NEW S \in SUBSET Docs, NEW T \in SUBSET Docs, S \cap T = {}
    PROVE  /\ IsFiniteSet(S)
           /\ Cardinality(S) \in Nat
           /\ Cardinality(S \cup T) = Cardinality(S) + Cardinality(T)
<1>1. IsFiniteSet(S) /\ IsFiniteSet(T)
  BY DispatchAssumption, FS_Subset
<1>2. Cardinality(S) \in Nat /\ Cardinality(T) \in Nat
  BY <1>1, FS_CardinalityType
<1>3. Cardinality(S \cap T) = 0
  BY FS_EmptySet
<1>4. Cardinality(S \cup T) = Cardinality(S) + Cardinality(T) - Cardinality(S \cap T)
  BY <1>1, FS_Union
<1> QED
  BY <1>1, <1>2, <1>3, <1>4

(* d has left the queue or its slot, and the waiters in G were woken.      *)
Left(d, s, p, k, G) ==
    /\ slot' = [x \in Docs |-> IF x = d THEN s ELSE IF x \in G THEN "granted" ELSE slot[x]]
    /\ Cardinality(G) \in 0..k
    /\ permits' = p - Cardinality(G)
    /\ Cardinality(G) < k => Waiting' = {}
    /\ Cardinality(Slotted') = Cardinality(Slotted \ {d}) + Cardinality(G)
                                  + (IF s = "held" THEN 1 ELSE 0)

(* What leaving the semaphore does: free permits go to waiters, each       *)
(* exactly one, and a waiter is only left behind if all k were used.       *)
LEMMA LeaveEffect ==
    ASSUME TypeOK, NEW d \in Docs, NEW s \in {"none", "held"},
           NEW p \in Nat, NEW k \in Nat, k <= p, Leave(d, s, p, k)
    PROVE  \E G \in SUBSET (Waiting \ {d}) : Left(d, s, p, k, G)
<1> DEFINE W == Waiting \ {d}
<1>1. PICK G \in Grants(W, k) :
          /\ slot' = [x \in Docs |-> IF x = d THEN s ELSE IF x \in G THEN "granted" ELSE slot[x]]
          /\ permits' = p - Cardinality(G)
  BY DEF Leave
<1>2. /\ G \in SUBSET W
      /\ Cardinality(G) = IF Cardinality(W) <= k THEN Cardinality(W) ELSE k
  BY DEF Grants
<1>3. W \in SUBSET Docs /\ G \in SUBSET Docs /\ Slotted \in SUBSET Docs
  BY <1>2 DEF Waiting, Slotted
<1>4. /\ IsFiniteSet(W)
      /\ Cardinality(W) \in Nat /\ Cardinality(G) \in Nat
  BY <1>3, DispatchAssumption, FS_Subset, FS_CardinalityType
<1>5. Cardinality(G) \in 0..k
  BY <1>2, <1>4
<1>6. ASSUME Cardinality(G) < k
      PROVE  Waiting' = {}
  <2>1. Cardinality(G) = Cardinality(W)
    BY <1>2, <1>4, <1>6
  <2>2. G = W
    BY <2>1, <1>2, <1>4, FS_Subset
  <2> QED
    BY <1>1, <2>2 DEF Waiting
<1>7. Cardinality(Slotted') = Cardinality(Slotted \ {d}) + Cardinality(G)
                                + (IF s = "held" THEN 1 ELSE 0)
  <2>1. Slotted' = ((Slotted \ {d}) \cup G) \cup (IF s = "held" THEN {d} ELSE {})
    BY <1>1, <1>2 DEF Slotted, Waiting
  <2>2. (Slotted \ {d}) \cap G = {}
    BY <1>2 DEF Slotted, Waiting
  <2>3. Cardinality((Slotted \ {d}) \cup G) = Cardinality(Slotted \ {d}) + Cardinality(G)
    BY <1>3, <2>2, DocSets
  <2>4. IsFiniteSet((Slotted \ {d}) \cup G) /\ d \notin (Slotted \ {d}) \cup G
    BY <1>2, <1>3, DispatchAssumption, FS_Subset
  <2>5. CASE s = "held"
    BY <2>1, <2>3, <2>4, <2>5, FS_AddElement
  <2>6. CASE s = "none"
    BY <1>3, <1>4, <2>1, <2>3, <2>4, <2>6, FS_CardinalityType, FS_Subset, DispatchAssumption
  <2> QED
    BY <2>5, <2>6
<1> QED
  BY <1>1, <1>2, <1>5, <1>6, <1>7 DEF Left

(* The documents that hold or were granted a slot, with and without d.     *)
LEMMA SlottedCount ==
    ASSUME NEW d \in Docs
    PROVE  /\ Cardinality(Slotted) \in Nat
           /\ Cardinality(Slotted \ {d}) \in Nat
           /\ Cardinality(Slotted) = Cardinality(Slotted \ {d})
                                        + (IF d \in Slotted THEN 1 ELSE 0)
<1>1. Slotted \in SUBSET Docs
  BY DEF Slotted
<1>2. IsFiniteSet(Slotted)
  BY <1>1, DispatchAssumption, FS_Subset
<1>3. IsFiniteSet(Slotted \ {d})
  BY <1>2, FS_RemoveElement
<1>4. Cardinality(Slotted) \in Nat /\ Cardinality(Slotted \ {d}) \in Nat
  BY <1>2, <1>3, FS_CardinalityType
<1>5. Cardinality(Slotted \ {d}) =
        IF d \in Slotted THEN Cardinality(Slotted) - 1 ELSE Cardinality(Slotted)
  BY <1>2, FS_RemoveElement
<1> QED
  BY <1>4, <1>5

(* A step of a conversion moves only its own document, which is converting *)
(* before it and either still converting or done after it.                 *)
LEMMA ResumeEffect ==
    ASSUME WorkerTypeOK, NEW d \in Docs, Resume(d)
    PROVE  /\ pc[d] \notin {"idle", "done"}
           /\ pc'[d] # "idle"
           /\ \A x \in Docs \ {d} : pc'[x] = pc[x] /\ cancel'[x] = cancel[x]
<1>1. pc[d] \notin {"idle", "done"}
  BY DEF Resume, MarkedRunning, Fetched, Converted, TimedOut, Reaped, Uploaded, Attested,
         UploadFailed, Audited, MarkedCompleted, FailUpdated, FailAudited, CallFails,
         CancelDelivered, StateCalls, AuditCalls, Uploads
<1>2. \A x \in Docs \ {d} : cancel'[x] = cancel[x]
  BY DEF Resume, MarkedRunning, Fetched, Converted, TimedOut, Reaped, Uploaded, Attested,
         UploadFailed, Audited, MarkedCompleted, FailUpdated, FailAudited, CallFails,
         CancelDelivered, WorkerTypeOK
<1>3. \/ \E p \in {"fetch", "convert", "reap", "upload", "attest", "audit", "mark_completed",
                   "fail_audit"} : Call(d, p)
      \/ \E e \in Errors \cup {"none"} : Raise(d, e)
      \/ End(d)
  BY DEF Resume, MarkedRunning, Fetched, Converted, TimedOut, Reaped, Uploaded, Attested,
         UploadFailed, Audited, MarkedCompleted, FailUpdated, FailAudited, CallFails,
         CancelDelivered, StartUpload, WorkerTypeOK, Errors
<1>4. \E p \in {"fetch", "convert", "reap", "upload", "attest", "audit", "mark_completed",
                "fail_update", "fail_audit", "done"} : pc' = [pc EXCEPT ![d] = p]
  BY <1>3 DEF Call, Raise, End
<1> QED
  BY <1>1, <1>2, <1>4 DEF WorkerTypeOK

-----------------------------------------------------------------------------
(* The invariant holds initially.                                          *)
LEMMA InitIInv == Init => IInv
<1> SUFFICES ASSUME Init PROVE IInv
  OBVIOUS
<1>1. TypeOK
  BY WorkerInitTyped, DispatchAssumption DEF Init, TypeOK, DispatchTypeOK, Phases
<1>2. Jobs
  BY DEF Init, WorkerInit, Jobs, Job
<1>3. Slotted = {} /\ Waiting = {}
  BY DEF Init, Slotted, Waiting
<1> QED
  BY <1>1, <1>2, <1>3, FS_EmptySet, DispatchAssumption DEF IInv, Permits, NoLostWakeup, Init

(* Steps that leave the semaphore alone keep its part of the invariant.    *)
LEMMA SemaphoreIdle ==
    ASSUME IInv, UNCHANGED <<permits, slot>>
    PROVE  Permits' /\ NoLostWakeup'
BY DEF IInv, Permits, NoLostWakeup, Slotted, Waiting

-----------------------------------------------------------------------------
(* A request, from the call to the creation of the task.                   *)
LEMMA RequestStep ==
    ASSUME IInv, NEW d \in Docs, Request(d)
    PROVE  IInv'
<1>1. Permits' /\ NoLostWakeup'
  BY SemaphoreIdle DEF Request, Accept, Created, CreateLost
<1>2. Record("pending") \in Records
  BY DEF Record, Records, Statuses, Codes
<1>3. CASE Accept(d)
  <2>1. TypeOK'
    BY <1>3 DEF Accept, IInv, TypeOK, WorkerTypeOK, DispatchTypeOK
  <2>2. Jobs'
    BY <1>3 DEF Accept, IInv, Jobs, Job, TypeOK, DispatchTypeOK
  <2> QED
    BY <1>1, <2>1, <2>2 DEF IInv
<1>4. CASE Created(d)
  <2>1. TypeOK'
    BY <1>2, <1>4 DEF Created, IInv, TypeOK, WorkerTypeOK, DispatchTypeOK
  <2>2. Jobs'
    BY <1>4 DEF Created, IInv, Jobs, Job, TypeOK, DispatchTypeOK
  <2> QED
    BY <1>1, <2>1, <2>2 DEF IInv
<1>5. CASE CreateLost(d)
  <2>1. rec' \in [Docs -> Records] /\ stray' \in [Docs -> SUBSET Records]
    <3> DEFINE S == stray[d] \cup {Record("pending")}
    <3>1. S \in SUBSET Records
      BY <1>2 DEF IInv, TypeOK, WorkerTypeOK
    <3>2. \/ UNCHANGED <<rec, stray>>
          \/ rec' = [rec EXCEPT ![d] = Record("pending")] /\ UNCHANGED stray
          \/ stray' = [stray EXCEPT ![d] = S] /\ UNCHANGED rec
      BY <1>5 DEF CreateLost
    <3> HIDE DEF S
    <3> QED
      BY <1>2, <3>1, <3>2 DEF IInv, TypeOK, WorkerTypeOK
  <2>2. TypeOK'
    BY <1>5, <2>1 DEF CreateLost, IInv, TypeOK, WorkerTypeOK, DispatchTypeOK
  <2>3. Jobs'
    BY <1>5 DEF CreateLost, IInv, Jobs, Job, TypeOK, DispatchTypeOK
  <2> QED
    BY <1>1, <2>2, <2>3 DEF IInv
<1> QED
  BY <1>3, <1>4, <1>5 DEF Request

-----------------------------------------------------------------------------
(* Begin changes control state only: its document makes the first call.    *)
LEMMA BeginEffect ==
    ASSUME WorkerTypeOK, NEW d \in Docs, Begin(d),
           UNCHANGED <<cancel, exc, rec, stray, file, events, open>>
    PROVE  /\ WorkerTypeOK'
           /\ pc' = [pc EXCEPT ![d] = "mark_running"]
BY DEF Begin, Call, WorkerTypeOK, Calls, StateCalls

(* A task that takes a free slot, or finds none and queues up.             *)
LEMMA AcquireStep ==
    ASSUME IInv, NEW d \in Docs, Enqueue(d) \/ StartAtOnce(d)
    PROVE  IInv'
<1>1. CASE Enqueue(d)
  <2>1. TypeOK'
    BY <1>1 DEF Enqueue, Waiting, IInv, TypeOK, DispatchTypeOK, WorkerTypeOK, workerVars
  <2>2. Jobs'
    BY <1>1 DEF Enqueue, IInv, Jobs, Job, TypeOK, DispatchTypeOK, workerVars
  <2>3. Slotted' = Slotted
    BY <1>1 DEF Enqueue, Slotted, IInv, TypeOK, DispatchTypeOK
  <2>4. Permits'
    BY <1>1, <2>3 DEF Enqueue, Permits, IInv
  <2>5. NoLostWakeup'
    BY <1>1 DEF Enqueue, Locked, Waiting, NoLostWakeup, IInv, TypeOK, DispatchTypeOK
  <2> QED
    BY <2>1, <2>2, <2>4, <2>5 DEF IInv
<1>2. CASE StartAtOnce(d)
  <2>1. permits \in 1..MaxConcurrent /\ Waiting = {}
    BY <1>2, DispatchAssumption DEF StartAtOnce, Locked, Waiting, IInv, TypeOK, DispatchTypeOK
  <2>2. WorkerTypeOK' /\ pc' = [pc EXCEPT ![d] = "mark_running"]
    BY <1>2, BeginEffect DEF StartAtOnce, IInv, TypeOK
  <2>3. TypeOK'
    BY <1>2, <2>1, <2>2, DispatchAssumption DEF StartAtOnce, IInv, TypeOK, DispatchTypeOK
  <2>4. Jobs'
    BY <1>2, <2>2 DEF StartAtOnce, IInv, Jobs, Job, TypeOK, DispatchTypeOK, WorkerTypeOK
  <2>5. Permits'
    <3>1. Slotted' = Slotted \cup {d} /\ d \notin Slotted
      BY <1>2 DEF StartAtOnce, Slotted, IInv, TypeOK, DispatchTypeOK
    <3>2. IsFiniteSet(Slotted)
      BY DispatchAssumption, FS_Subset DEF Slotted
    <3>3. Cardinality(Slotted') = Cardinality(Slotted) + 1
      BY <3>1, <3>2, FS_AddElement
    <3>4. Cardinality(Slotted) \in Nat
      BY SlottedCount
    <3>5. permits' = permits - 1 /\ permits + Cardinality(Slotted) = MaxConcurrent
      BY <1>2 DEF StartAtOnce, Permits, IInv
    <3> QED
      BY <2>1, <3>3, <3>4, <3>5, DispatchAssumption DEF Permits
  <2>6. NoLostWakeup'
    BY <1>2, <2>1 DEF StartAtOnce, NoLostWakeup, Waiting, IInv, TypeOK, DispatchTypeOK
  <2> QED
    BY <2>3, <2>4, <2>5, <2>6 DEF IInv
<1> QED
  BY <1>1, <1>2

(* The accounting when d leaves the queue or its slot: e permits come back *)
(* with it, and all of them, or one of them, may go to waiters.            *)
LEMMA LeaveAccount ==
    ASSUME IInv, NEW d \in Docs, NEW s \in {"none", "held"}, NEW e \in {0, 1},
           (IF d \in Slotted THEN 1 ELSE 0) = e + (IF s = "held" THEN 1 ELSE 0),
           NEW k \in Nat, k = permits + e \/ (k = 1 /\ e = 1),
           Leave(d, s, permits + e, k)
    PROVE  /\ permits' \in 0..MaxConcurrent
           /\ Permits' /\ NoLostWakeup'
           /\ slot' \in [Docs -> {"none", "waiting", "withdrawn", "granted", "held"}]
           /\ slot'[d] = s
           /\ \A x \in Docs \ {d} :
                \/ slot'[x] = slot[x]
                \/ slot[x] = "waiting" /\ slot'[x] = "granted"
<1>1. permits \in Nat /\ permits + e \in Nat /\ k <= permits + e
  BY DispatchAssumption DEF IInv, TypeOK, DispatchTypeOK
<1>2. PICK G \in SUBSET (Waiting \ {d}) : Left(d, s, permits + e, k, G)
  BY <1>1, LeaveEffect DEF IInv
<1>3. Permits'
  <2>1. Cardinality(G) \in 0..k
    BY <1>2, Zenon DEF Left
  <2>2. permits' = permits + e - Cardinality(G)
    BY <1>1, <1>2, <2>1 DEF Left
  <2>3. Cardinality(Slotted') = Cardinality(Slotted \ {d}) + Cardinality(G)
                                  + (IF s = "held" THEN 1 ELSE 0)
    BY <1>2, Zenon DEF Left
  <2>4. /\ Cardinality(Slotted) \in Nat
        /\ Cardinality(Slotted \ {d}) \in Nat
        /\ Cardinality(Slotted) = Cardinality(Slotted \ {d}) + (IF d \in Slotted THEN 1 ELSE 0)
    BY SlottedCount
  <2>5. permits + Cardinality(Slotted) = MaxConcurrent
    BY DEF Permits, IInv
  <2>6. permits' + Cardinality(Slotted') = MaxConcurrent
    BY <1>1, <2>1, <2>2, <2>3, <2>4, <2>5
  <2> QED
    BY <2>6 DEF Permits
<1>4. permits' \in 0..MaxConcurrent
  <2>1. permits' \in Nat
    BY <1>1, <1>2 DEF Left
  <2>2. Cardinality(Slotted') \in Nat
    <3>1. IsFiniteSet(Slotted')
      BY DispatchAssumption, FS_Subset DEF Slotted
    <3> QED
      BY <3>1, FS_CardinalityType
  <2> QED
    BY <1>3, <2>1, <2>2, DispatchAssumption DEF Permits
<1>5. NoLostWakeup'
  <2> SUFFICES ASSUME permits' > 0, Waiting' # {}
               PROVE  \E x \in Docs : slot'[x] = "granted"
    BY DEF NoLostWakeup
  <2>1. Cardinality(G) = k
    BY <1>2 DEF Left
  <2>2. k = 1
    BY <1>1, <1>2, <2>1 DEF Left
  <2>3. G # {}
    BY <2>1, <2>2, FS_EmptySet
  <2> QED
    BY <1>2, <2>3 DEF Waiting, Left
<1>6. slot' \in [Docs -> {"none", "waiting", "withdrawn", "granted", "held"}]
  BY <1>2 DEF Left, IInv, TypeOK, DispatchTypeOK
<1> QED
  BY <1>2, <1>3, <1>4, <1>5, <1>6 DEF Waiting, Left

(* A queued task that wakes up with its slot, or is cancelled.             *)
LEMMA WakeStep ==
    ASSUME IInv, NEW d \in Docs, SlotTaken(d) \/ QueuedCancelled(d)
    PROVE  IInv'
<1>0. permits \in Nat
  BY DispatchAssumption DEF IInv, TypeOK, DispatchTypeOK
<1> DEFINE Accounted == /\ permits' \in 0..MaxConcurrent
                        /\ Permits' /\ NoLostWakeup'
                        /\ slot' \in [Docs -> {"none", "waiting", "withdrawn", "granted", "held"}]
                        /\ \A x \in Docs \ {d} :
                             \/ slot'[x] = slot[x]
                             \/ slot[x] = "waiting" /\ slot'[x] = "granted"
<1>1. CASE SlotTaken(d)
  <2>1. Leave(d, "held", permits + 0, permits) /\ d \in Slotted
    BY <1>0, <1>1 DEF SlotTaken, Slotted
  <2>2. Accounted /\ slot'[d] = "held"
    BY <1>0, <2>1, LeaveAccount
  <2>3. WorkerTypeOK' /\ pc' = [pc EXCEPT ![d] = "mark_running"]
    BY <1>1, BeginEffect DEF SlotTaken, IInv, TypeOK
  <2>4. TypeOK'
    BY <1>1, <2>2, <2>3 DEF SlotTaken, IInv, TypeOK, DispatchTypeOK
  <2>5. Jobs'
    BY <1>1, <2>2, <2>3 DEF SlotTaken, IInv, Jobs, Job, TypeOK, DispatchTypeOK, WorkerTypeOK
  <2> QED
    BY <2>2, <2>4, <2>5 DEF IInv
<1>2. CASE QueuedCancelled(d)
  <2>1. Accounted /\ slot'[d] = "none"
    <3>1. CASE slot[d] = "none" /\ UNCHANGED <<slot, permits>>
      BY <3>1, SemaphoreIdle DEF IInv, TypeOK, DispatchTypeOK
    <3>2. CASE slot[d] = "withdrawn" /\ Leave(d, "none", permits, permits)
      <4>1. Leave(d, "none", permits + 0, permits) /\ d \notin Slotted
        BY <1>0, <3>2 DEF Slotted
      <4> QED
        BY <1>0, <4>1, LeaveAccount
    <3>3. CASE slot[d] = "granted" /\ Leave(d, "none", permits + 1, permits + 1)
      <4>1. d \in Slotted /\ permits + 1 \in Nat
        BY <1>0, <3>3 DEF Slotted
      <4> QED
        BY <3>3, <4>1, LeaveAccount
    <3> QED
      BY <1>2, <3>1, <3>2, <3>3 DEF QueuedCancelled
  <2>2. TypeOK'
    BY <1>2, <2>1 DEF QueuedCancelled, IInv, TypeOK, DispatchTypeOK, WorkerTypeOK
  <2>3. Jobs'
    BY <1>2, <2>1 DEF QueuedCancelled, IInv, Jobs, Job, TypeOK, DispatchTypeOK, WorkerTypeOK
  <2> QED
    BY <2>1, <2>2, <2>3 DEF IInv
<1> QED
  BY <1>1, <1>2

(* A step of run_conversion; with the last one the slot is released.       *)
LEMMA ConvertStep ==
    ASSUME IInv, NEW d \in Docs, Convert(d)
    PROVE  IInv'
<1>1. WorkerTypeOK' /\ Resume(d)
  BY ResumeTyped DEF Convert, IInv, TypeOK
<1>2. /\ pc[d] \notin {"idle", "done"}
      /\ pc'[d] # "idle"
      /\ \A x \in Docs \ {d} : pc'[x] = pc[x] /\ cancel'[x] = cancel[x]
  BY <1>1, ResumeEffect DEF IInv, TypeOK
<1>3. slot[d] = "held" /\ d \in tasks
  BY <1>2 DEF IInv, Jobs, Job
<1>4. CASE pc'[d] = "done" /\ Release(d) /\ tasks' = tasks \ {d}
  <2>1. permits \in Nat /\ permits + 1 \in Nat /\ d \in Slotted
    BY <1>3, DispatchAssumption DEF IInv, TypeOK, DispatchTypeOK, Slotted
  <2>2. /\ permits' \in 0..MaxConcurrent
        /\ Permits' /\ NoLostWakeup'
        /\ slot' \in [Docs -> {"none", "waiting", "withdrawn", "granted", "held"}]
        /\ slot'[d] = "none"
        /\ \A x \in Docs \ {d} : \/ slot'[x] = slot[x]
                                 \/ slot[x] = "waiting" /\ slot'[x] = "granted"
    BY <1>4, <2>1, LeaveAccount DEF Release
  <2>3. TypeOK'
    BY <1>1, <1>4, <2>2 DEF Convert, IInv, TypeOK, DispatchTypeOK
  <2>4. Jobs'
    BY <1>2, <1>3, <1>4, <2>2 DEF Convert, IInv, Jobs, Job
  <2> QED
    BY <2>2, <2>3, <2>4 DEF IInv
<1>5. CASE pc'[d] # "done" /\ UNCHANGED <<slot, permits, tasks>>
  <2>1. Permits' /\ NoLostWakeup'
    BY <1>5, SemaphoreIdle
  <2>2. TypeOK'
    BY <1>1, <1>5 DEF Convert, IInv, TypeOK, DispatchTypeOK
  <2>3. Jobs'
    BY <1>2, <1>3, <1>5 DEF Convert, IInv, Jobs, Job
  <2> QED
    BY <2>1, <2>2, <2>3 DEF IInv
<1> QED
  BY <1>4, <1>5 DEF Convert

-----------------------------------------------------------------------------
(* Shutdown records the failure of a job that was still queued.            *)
LEMMA DrainStep ==
    ASSUME IInv, NEW d \in Docs, Drain(d)
    PROVE  IInv'
<1>1. Permits' /\ NoLostWakeup'
  BY SemaphoreIdle DEF Drain, QueuedUpdated, QueuedAudited, QueuedLost
<1>2. Failed("UNAVAILABLE") \in Records
  BY DEF Failed, Records, Statuses, Codes
<1> DEFINE S == stray[d] \cup {Failed("UNAVAILABLE")}
<1>3. S \in SUBSET Records
  BY <1>2 DEF IInv, TypeOK, WorkerTypeOK
<1>4. /\ rec' = rec \/ rec' = [rec EXCEPT ![d] = Failed("UNAVAILABLE")]
      /\ events' = events \/ HandOver(d, "failed")
      /\ stray' = stray \/ stray' = [stray EXCEPT ![d] = S]
      /\ loop' \in {loop, Free, d}
      /\ drain[d] # "none" /\ drain' \in {[drain EXCEPT ![d] = "audit"], [drain EXCEPT ![d] = "over"]}
      /\ UNCHANGED <<pc, cancel, exc, file, open, rpc, tasks, queued, permits, slot, ahead,
                     phase, awaited>>
  BY DEF Drain, Draining, QueuedUpdated, QueuedAudited, QueuedLost
<1> HIDE DEF S
<1>5. rec' \in [Docs -> Records]
  BY <1>2, <1>4 DEF IInv, TypeOK, WorkerTypeOK
<1>6. events' \in [Docs -> Seq(Publications({"completed", "failed"}))]
  BY <1>4, HandOverTyped DEF IInv, TypeOK, WorkerTypeOK
<1>7. stray' \in [Docs -> SUBSET Records]
  BY <1>3, <1>4 DEF IInv, TypeOK, WorkerTypeOK
<1>8. TypeOK'
  BY <1>4, <1>5, <1>6, <1>7 DEF IInv, TypeOK, WorkerTypeOK, DispatchTypeOK
<1>9. Jobs'
  BY <1>4 DEF IInv, Jobs, Job, TypeOK, DispatchTypeOK
<1> QED
  BY <1>1, <1>8, <1>9 DEF IInv

(* A thread ends or a late write lands.                                    *)
LEMMA OutsideStep ==
    ASSUME IInv, NEW d \in Docs, Outside(d), UNCHANGED dispatchVars
    PROVE  IInv'
<1>1. WorkerTypeOK' /\ UNCHANGED <<pc, cancel>>
  BY OutsideTyped DEF IInv, TypeOK, Outside, ThreadEnds, StrayLands
<1> QED
  BY <1>1, SemaphoreIdle DEF IInv, TypeOK, DispatchTypeOK, Jobs, Job, dispatchVars

(* serve() and shutdown() from the signal to the end of the process.       *)
LEMMA ServeStep ==
    ASSUME IInv, Serve
    PROVE  IInv'
<1>1. CASE RpcsStopped
  <2>1. cancel' \in [Docs -> BOOLEAN]
    BY <1>1 DEF RpcsStopped, CancelTasks, IInv, TypeOK, WorkerTypeOK
  <2>2. TypeOK'
    BY <1>1, <2>1 DEF RpcsStopped, IInv, TypeOK, WorkerTypeOK, DispatchTypeOK, Phases
  <2>3. Jobs'
    BY <1>1 DEF RpcsStopped, CancelTasks, IInv, Jobs, Job, TypeOK, DispatchTypeOK
  <2>4. Slotted' = Slotted
    BY <1>1 DEF RpcsStopped, Slotted
  <2>5. Permits'
    BY <1>1, <2>4 DEF RpcsStopped, Permits, IInv
  <2>6. NoLostWakeup'
    BY <1>1 DEF RpcsStopped, NoLostWakeup, Waiting, IInv
  <2> QED
    BY <2>2, <2>3, <2>5, <2>6 DEF IInv
<1>2. CASE Signal \/ QueuedFailed \/ GraceOver \/ CleanupOver \/ Closed \/ Returned \/ Exit
  <2>1. /\ UNCHANGED <<pc, loop, exc, rec, stray, file, events, rpc, tasks, queued, permits,
                       slot, ahead, drain>>
        /\ phase' \in Phases
        /\ open' \in {open, FALSE}
        /\ awaited' \subseteq awaited \cup tasks
        /\ cancel' = cancel \/ \E T \in SUBSET Docs : cancel' = CancelTasks(T)
    BY <1>2 DEF Signal, QueuedFailed, GraceOver, CleanupOver, Closed, Returned, Exit, workerVars,
                Phases, IInv, TypeOK, DispatchTypeOK
  <2>2. cancel' \in [Docs -> BOOLEAN] /\ \A d \in Docs : cancel[d] => cancel'[d]
    BY <2>1 DEF CancelTasks, IInv, TypeOK, WorkerTypeOK
  <2>3. TypeOK'
    BY <2>1, <2>2 DEF IInv, TypeOK, WorkerTypeOK, DispatchTypeOK
  <2>4. Jobs'
    BY <2>1, <2>2 DEF IInv, Jobs, Job
  <2> QED
    BY <2>1, <2>3, <2>4, SemaphoreIdle DEF IInv
<1> QED
  BY <1>1, <1>2 DEF Serve

-----------------------------------------------------------------------------
(* The invariant holds in every state of the service.                      *)
THEOREM Invariance == Spec => []IInv
<1>1. IInv /\ [Next]_vars => IInv'
  <2> SUFFICES ASSUME IInv, [Next]_vars
               PROVE  IInv'
    OBVIOUS
  <2>1. ASSUME NEW d \in Docs, Task(d)
        PROVE  IInv'
    BY <2>1, AcquireStep, WakeStep, ConvertStep DEF Task
  <2>2. CASE UNCHANGED vars
    <3>1. UNCHANGED workerVars /\ UNCHANGED dispatchVars
      BY <2>2 DEF vars
    <3>2. TypeOK' /\ Jobs'
      BY <3>1 DEF workerVars, dispatchVars, IInv, TypeOK, WorkerTypeOK, DispatchTypeOK, Jobs, Job
    <3> QED
      BY <3>1, <3>2, SemaphoreIdle DEF dispatchVars, IInv
  <2> QED
    BY <2>1, <2>2, RequestStep, DrainStep, OutsideStep, ServeStep DEF Next, Exited
<1> QED
  BY <1>1, InitIInv, PTL DEF Spec

(* The service keeps its state well typed.  In particular the semaphore    *)
(* never counts below zero or above MAX_CONCURRENT_CONVERSIONS.            *)
THEOREM TypeCorrect == Spec => []TypeOK
<1>1. IInv => TypeOK
  BY DEF IInv
<1> QED
  BY <1>1, Invariance, PTL

(* No permit is lost or invented, whatever is cancelled or released, and a *)
(* conversion runs exactly while its task holds a slot.                    *)
THEOREM SlotsAreConserved == Spec => []SlotsConserved
<1>1. IInv => SlotsConserved
  BY DEF IInv, SlotsConserved, Permits, Jobs, Job
<1> QED
  BY <1>1, Invariance, PTL

(* At most MAX_CONCURRENT_CONVERSIONS conversions run at a time.           *)
THEOREM ConcurrencyIsBounded == Spec => []ConcurrencyBounded
<1>1. IInv => ConcurrencyBounded
  <2> SUFFICES ASSUME IInv PROVE ConcurrencyBounded
    OBVIOUS
  <2> DEFINE Converting == {d \in Docs : pc[d] \notin {"idle", "done"}}
  <2>1. Converting \in SUBSET Slotted
    BY DEF IInv, Jobs, Job, Slotted
  <2>2. IsFiniteSet(Slotted)
    BY DispatchAssumption, FS_Subset DEF Slotted
  <2>3. /\ Cardinality(Converting) <= Cardinality(Slotted)
        /\ Cardinality(Converting) \in Nat /\ Cardinality(Slotted) \in Nat
    BY <2>1, <2>2, FS_Subset, FS_CardinalityType
  <2>4. permits \in Nat /\ permits + Cardinality(Slotted) = MaxConcurrent
    BY DispatchAssumption DEF IInv, TypeOK, DispatchTypeOK, Permits
  <2> QED
    BY <2>3, <2>4, DispatchAssumption DEF ConcurrencyBounded
<1> QED
  BY <1>1, Invariance, PTL

(* A permit that is free while jobs wait is always about to be passed on.  *)
THEOREM WakeupsAreNotLost == Spec => []NoLostWakeup
<1>1. IInv => NoLostWakeup
  BY DEF IInv
<1> QED
  BY <1>1, Invariance, PTL

(* Membership in _queued means that the conversion has not started.        *)
THEOREM QueuedHaveNotStarted == Spec => []QueuedMeansNotStarted
<1>1. IInv => QueuedMeansNotStarted
  BY DEF IInv, Jobs, Job, QueuedMeansNotStarted
<1> QED
  BY <1>1, Invariance, PTL

(* A job that shutdown failed while it was queued is never converted.      *)
THEOREM RefusedNeverStart == Spec => []RefusedNeverStarts
<1>1. IInv => RefusedNeverStarts
  BY DEF IInv, Jobs, Job, RefusedNeverStarts
<1> QED
  BY <1>1, Invariance, PTL

-----------------------------------------------------------------------------
(* Requests and drains write only to documents whose pipeline has not      *)
(* begun, and nothing that they write claims a completion.                 *)
LEMMA OutsidePipeline ==
    ASSUME WorkerTypeOK, Jobs, NEW d \in Docs, NEW x \in Docs, Progress(x),
           Request(d) \/ Drain(d)
    PROVE  Progress(x)'
<1>1. pc[d] = "idle"
  BY DEF Request, Accept, Created, CreateLost, Drain, Draining, QueuedUpdated, QueuedAudited,
         QueuedLost, Jobs, Job
<1>2. UNCHANGED <<pc, file>>
  BY DEF Request, Accept, Created, CreateLost, Drain, QueuedUpdated, QueuedAudited, QueuedLost
<1>3. \A w \in {Record("pending"), Failed("UNAVAILABLE")} : w.status # "completed"
  BY DEF Record, Failed
<1>4. \A y \in Docs :
          /\ rec'[y] = rec[y] \/ rec'[y] \in {Record("pending"), Failed("UNAVAILABLE")}
          /\ stray'[y] \subseteq stray[y] \cup {Record("pending"), Failed("UNAVAILABLE")}
  <2>1. \E w \in {Record("pending"), Failed("UNAVAILABLE")} :
            /\ rec' = rec \/ rec' = [rec EXCEPT ![d] = w]
            /\ stray' = stray \/ stray' = [stray EXCEPT ![d] = @ \cup {w}]
    <3>1. CASE Request(d)
      BY <3>1 DEF Request, Accept, Created, CreateLost
    <3>2. CASE Drain(d)
      BY <3>2 DEF Drain, QueuedUpdated, QueuedAudited, QueuedLost
    <3> QED
      BY <3>1, <3>2
  <2>2. PICK w \in {Record("pending"), Failed("UNAVAILABLE")} :
            /\ rec' = rec \/ rec' = [rec EXCEPT ![d] = w]
            /\ stray' = stray \/ stray' = [stray EXCEPT ![d] = @ \cup {w}]
    BY <2>1
  <2>3. ASSUME NEW y \in Docs
        PROVE  rec'[y] \in {rec[y], w} /\ stray'[y] \subseteq stray[y] \cup {w}
    BY <2>2 DEF WorkerTypeOK
  <2> QED
    BY <2>3
<1>5. \A y \in Docs \ {d} : events'[y] = events[y]
  <2>1. events' = events \/ HandOver(d, "failed")
    BY DEF Request, Accept, Created, CreateLost, Drain, QueuedUpdated, QueuedAudited, QueuedLost
  <2> QED
    BY <2>1, HandOverTyped
<1>6. Claimed(x)' => Claimed(x)
  BY <1>3, <1>4 DEF Claimed
<1>7. CASE x = d
  <2>1. ~Claimed(x) /\ pc'[x] = "idle"
    BY <1>1, <1>2, <1>7 DEF Progress
  <2> QED
    BY <1>6, <2>1 DEF Progress
<1>8. CASE x # d
  BY <1>2, <1>5, <1>6, <1>8 DEF Progress, Backed, Stored, CompletionAudited
<1> QED
  BY <1>7, <1>8

(* In the running service, too, COMPLETED stands for stored results and a  *)
(* completion handed to the publisher, through shutdown and outages.       *)
THEOREM ServiceCompletionIsBacked == Spec => []CompletedIsBacked
<1> DEFINE Backing == \A x \in Docs : Progress(x)
<1>1. Init => Backing
  BY DEF Init, WorkerInit, Progress, Claimed, Record
<1>2. IInv /\ Backing /\ [Next]_vars => Backing'
  <2> SUFFICES ASSUME IInv, Backing, [Next]_vars, NEW x \in Docs
               PROVE  Progress(x)'
    OBVIOUS
  <2>0. Progress(x) /\ WorkerTypeOK /\ Jobs
    BY DEF IInv, TypeOK
  <2>1. ASSUME NEW d \in Docs, Request(d) \/ Drain(d)
        PROVE  Progress(x)'
    BY <2>0, <2>1, OutsidePipeline
  <2>2. ASSUME NEW d \in Docs, Convert(d)
        PROVE  Progress(x)'
    BY <2>0, <2>2, ResumeBacked, ResumeLocal, ProgressLocal DEF Convert
  <2>3. ASSUME NEW d \in Docs, Enqueue(d) \/ QueuedCancelled(d)
        PROVE  Progress(x)'
    BY <2>0, <2>3, ProgressLocal DEF Enqueue, QueuedCancelled, workerVars
  <2>4. ASSUME NEW d \in Docs, StartAtOnce(d) \/ SlotTaken(d)
        PROVE  Progress(x)'
    <3>1. Begin(d) /\ UNCHANGED <<rec, stray, file, events>>
      BY <2>4 DEF StartAtOnce, SlotTaken
    <3>2. pc[d] = "idle" /\ pc' = [pc EXCEPT ![d] = "mark_running"]
      BY <3>1 DEF Begin, Call
    <3>3. CASE x = d
      <4>1. ~Claimed(x)' /\ pc'[x] = "mark_running"
        BY <2>0, <3>1, <3>2, <3>3 DEF Progress, Claimed, WorkerTypeOK
      <4> QED
        BY <4>1 DEF Progress
    <3>4. CASE x # d
      BY <2>0, <3>1, <3>2, <3>4, ProgressLocal DEF WorkerTypeOK
    <3> QED
      BY <3>3, <3>4
  <2>5. ASSUME NEW d \in Docs, Outside(d)
        PROVE  Progress(x)'
    BY <2>0, <2>5, OutsideBacked
  <2>6. CASE Serve
    BY <2>0, <2>6, ProgressLocal DEF Serve, Signal, RpcsStopped, QueuedFailed, GraceOver,
       CleanupOver, Closed, Returned, Exit, workerVars
  <2>7. CASE UNCHANGED vars
    BY <2>0, <2>7, ProgressLocal DEF vars, workerVars
  <2> QED
    BY <2>1, <2>2, <2>3, <2>4, <2>5, <2>6, <2>7 DEF Next, Task, Exited
<1>3. Backing => CompletedIsBacked
  BY DEF Progress, Claimed, Backed, Stored, CompletionAudited, CompletedIsBacked
<1> HIDE DEF Backing
<1> QED
  BY <1>1, <1>2, <1>3, Invariance, PTL DEF Spec
=============================================================================
