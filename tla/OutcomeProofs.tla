---------------------------- MODULE OutcomeProofs ----------------------------
(***************************************************************************)
(* What the service records and publishes of a conversion, for any number  *)
(* of documents, any concurrency limit and any choice of the other         *)
(* backends: with the in-memory store an outcome is recorded and final,    *)
(* and the service implements DocumentLifecycle, but for its fairness; the *)
(* audit trail has its order with any store.                               *)
(***************************************************************************)
EXTENDS DispatchProofs, SequenceTheorems

(* The record that OutcomeRecorded wants of a conversion that has ended.   *)
Outcome(d) == IF exc[d] = "none" THEN Record("completed") ELSE Failed(Code(exc[d]))

(* With the in-memory store: a coroutine keeps the loop while it updates a *)
(* record, so that nothing interrupts it; an exception is at hand exactly  *)
(* from where it was raised; and a record is terminal only from the last   *)
(* update on.                                                              *)
Settling(d) ==
    /\ stray[d] = {}
    /\ pc[d] \in StateCalls => loop = d
    /\ pc[d] \notin Handler \cup {"reap", "done"} => exc[d] = "none"
    /\ pc[d] \in Handler \cup {"reap"} => exc[d] # "none"
    /\ pc[d] \notin {"idle", "fail_audit", "done"} => rec[d].status \notin Terminal
    /\ pc[d] \in {"fail_audit", "done"} => rec[d] = Outcome(d)

(* The in-memory store never suspends its caller.                          *)
LEMMA MemoryKeepsLoop ==
    ASSUME ~Redis, NEW d \in Docs, NEW p \in StateCalls, Call(d, p)
    PROVE  loop' = d
<1>1. ~Suspends(p)
  BY DEF Suspends, StateCalls, AuditCalls
<1> QED
  BY <1>1 DEF Call

(* A conversion that raises goes into the handler, or ends in it.          *)
LEMMA RaiseSettles ==
    ASSUME WorkerTypeOK, ~Redis, NEW d \in Docs, NEW e \in Errors, Settling(d), Raise(d, e),
           pc[d] \notin {"idle", "fail_update", "done"}, stray' = stray,
           IF pc[d] = "fail_audit" THEN rec' = rec ELSE rec'[d].status \notin Terminal
    PROVE  Settling(d)'
<1>1. CASE pc[d] = "fail_audit"
  <2>1. pc'[d] = "done" /\ UNCHANGED exc
    BY <1>1 DEF Raise, End, Handler, WorkerTypeOK
  <2> QED
    BY <1>1, <2>1 DEF Settling, Outcome, Handler, StateCalls
<1>2. CASE pc[d] # "fail_audit"
  <2>1. Call(d, "fail_update") /\ exc'[d] = e
    BY <1>2 DEF Raise, Handler, WorkerTypeOK
  <2>2. pc'[d] = "fail_update" /\ loop' = d
    BY <2>1, MemoryKeepsLoop DEF Call, StateCalls, WorkerTypeOK
  <2>3. e # "none"
    BY DEF Errors
  <2> QED
    BY <1>2, <2>1, <2>2, <2>3 DEF Settling, Handler
<1> QED
  BY <1>1, <1>2

(* A conversion that goes on to its next call is still without an outcome. *)
LEMMA CallSettles ==
    ASSUME WorkerTypeOK, ~Redis, NEW d \in Docs, Settling(d),
           NEW p \in {"fetch", "convert", "upload", "attest", "audit", "mark_completed"},
              Call(d, p),
           pc[d] \notin Handler \cup {"idle", "reap", "done"},
           UNCHANGED <<exc, stray>>, rec'[d].status \notin Terminal
    PROVE  Settling(d)'
<1>1. pc'[d] = p /\ (p \in StateCalls => loop' = d)
  BY MemoryKeepsLoop DEF Call, WorkerTypeOK
<1> QED
  BY <1>1 DEF Settling, Handler

(* Every step of run_conversion keeps Settling, and none takes a terminal  *)
(* record back.                                                            *)
LEMMA ResumeSettles ==
    ASSUME WorkerTypeOK, ~Redis, NEW d \in Docs, Settling(d), Resume(d)
    PROVE  Settling(d)' /\ (rec[d].status \in Terminal => rec'[d] = rec[d])
<1>0. d # Free /\ {"invalid", "error", "limit", "cancelled", "timeout"} \subseteq Errors
  BY WorkerAssumption DEF Errors
<1> DEFINE Same == UNCHANGED <<rec, stray>>
<1>a. ASSUME NEW e \in Errors, Raise(d, e), Same, pc[d] \notin {"idle", "fail_update", "done"}
      PROVE  Settling(d)'
  BY <1>a, RaiseSettles DEF Settling
<1>b. ASSUME NEW p \in {"fetch", "convert", "upload", "attest", "audit", "mark_completed"},
             Call(d, p), Same, UNCHANGED exc, pc[d] \notin Handler \cup {"idle", "reap", "done"}
      PROVE  Settling(d)'
  BY <1>b, CallSettles DEF Settling, Handler
<1>1. CASE MarkedRunning(d)
  <2>1. pc[d] = "mark_running" /\ rec'[d] = Record("running") /\ stray' = stray
    BY <1>1 DEF MarkedRunning, Written, WorkerTypeOK
  <2>2. Record("running").status \notin Terminal
    BY DEF Record, Terminal
  <2>3. Settling(d)'
    BY <1>0, <1>1, <2>1, <2>2, CallSettles, RaiseSettles DEF MarkedRunning, Handler
  <2> QED
    BY <2>1, <2>3 DEF Settling
<1>2. CASE Fetched(d)
  BY <1>0, <1>2, <1>a, <1>b DEF Fetched, Handler
<1>3. CASE Converted(d)
  BY <1>0, <1>3, <1>a, <1>b DEF Converted, StartUpload, Handler
<1>4. CASE TimedOut(d)
  <2>1. pc[d] = "convert" /\ pc'[d] = "reap" /\ exc'[d] = "timeout" /\ Same
    BY <1>4 DEF TimedOut, Call, WorkerTypeOK
  <2> QED
    BY <2>1 DEF Settling, Handler, StateCalls
<1>5. CASE Reaped(d)
  <2>1. exc[d] \in Errors
    BY <1>5 DEF Reaped, Settling, WorkerTypeOK
  <2> QED
    BY <1>5, <2>1, <1>a DEF Reaped
<1>6. CASE Uploaded(d)
  BY <1>0, <1>6, <1>a, <1>b DEF Uploaded, StartUpload, Handler
<1>7. CASE Attested(d)
  BY <1>7, <1>b DEF Attested, Handler
<1>8. CASE UploadFailed(d)
  BY <1>0, <1>8, <1>a DEF UploadFailed, Uploads
<1>9. CASE Audited(d)
  BY <1>9, <1>b DEF Audited, Handler
<1>10. CASE MarkedCompleted(d)
  <2>1. /\ pc[d] = "mark_completed" /\ pc'[d] = "done"
        /\ rec'[d] = Record("completed") /\ UNCHANGED <<exc, stray>>
    BY <1>10 DEF MarkedCompleted, End, Written, WorkerTypeOK
  <2> QED
    BY <2>1 DEF Settling, Outcome, Handler, StateCalls
<1>11. CASE FailUpdated(d)
  <2>1. /\ pc[d] = "fail_update" /\ pc'[d] = "fail_audit"
        /\ rec'[d] = Failed(Code(exc[d])) /\ UNCHANGED <<exc, stray>>
    BY <1>11 DEF FailUpdated, Call, Written, WorkerTypeOK
  <2> QED
    BY <2>1 DEF Settling, Outcome, Handler, StateCalls
<1>12. CASE FailAudited(d)
  <2>1. pc[d] = "fail_audit" /\ pc'[d] = "done" /\ UNCHANGED <<exc, rec, stray>>
    BY <1>12 DEF FailAudited, End, WorkerTypeOK
  <2> QED
    BY <2>1 DEF Settling, Outcome, Handler, StateCalls
<1>13. CASE CallFails(d)
  <2>1. pc[d] \in AuditCalls /\ Same
    BY <1>13 DEF CallFails, Abandon
  <2> QED
    BY <1>0, <1>13, <2>1, <1>a DEF CallFails, AuditCalls
<1>14. CASE CancelDelivered(d)
  <2>1. pc[d] \notin StateCalls \cup {"idle", "done"} /\ Same
    BY <1>0, <1>14 DEF CancelDelivered, Abandon, Settling
  <2>2. CASE Raise(d, "cancelled")
    BY <1>0, <2>1, <2>2, <1>a DEF StateCalls
  <2>3. CASE Call(d, "reap") /\ exc' = [exc EXCEPT ![d] = "cancelled"] /\ pc[d] = "convert"
    <3>1. pc'[d] = "reap" /\ exc'[d] = "cancelled"
      BY <2>3 DEF Call, WorkerTypeOK
    <3> QED
      BY <2>1, <2>3, <3>1 DEF Settling, Handler, StateCalls
  <2> QED
    BY <1>14, <2>1, <2>2, <2>3 DEF CancelDelivered
<1> QED
  BY <1>1, <1>2, <1>3, <1>4, <1>5, <1>6, <1>7, <1>8, <1>9, <1>10, <1>11, <1>12, <1>13, <1>14
     DEF Resume
-----------------------------------------------------------------------------
(* Nothing is drained before the calls have stopped.                       *)
Undrained == phase \in {"serving", "stop_rpcs"} => \A d \in Docs : drain[d] = "none"

(* The same in the service, whose requests and drains write records too.   *)
Settled(d) ==
    /\ Settling(d)
    /\ rpc[d] = "creating" => loop = d
    /\ pc[d] = "idle" /\ drain[d] \in {"none", "update"} => rec[d].status \notin Terminal

(* What Settled says of x needs only what is known of x, and that whoever  *)
(* moved the loop did not take it from x.                                  *)
LEMMA SettledLocal ==
    ASSUME NEW x \in Docs, Settled(x), loop' = loop \/ loop # x,
           pc'[x] = pc[x], exc'[x] = exc[x], rec'[x] = rec[x], stray'[x] = stray[x],
           rpc'[x] = rpc[x], drain'[x] = drain[x]
    PROVE  Settled(x)'
BY DEF Settled, Settling, Outcome

(* A step of a conversion needs the loop and keeps the exceptions of the   *)
(* others.                                                                 *)
LEMMA ResumeNeedsLoop ==
    ASSUME WorkerTypeOK, NEW d \in Docs, Resume(d)
    PROVE  loop \in {Free, d} /\ \A x \in Docs \ {d} : exc'[x] = exc[x]
<1>1. loop \in {Free, d}
  BY DEF Resume, MarkedRunning, Fetched, Converted, TimedOut, Reaped, Uploaded, Attested,
         UploadFailed, Audited, MarkedCompleted, FailUpdated, FailAudited, CallFails,
         CancelDelivered, CanStep
<1>2. \A x \in Docs \ {d} : exc'[x] = exc[x]
  BY DEF Resume, MarkedRunning, Fetched, Converted, TimedOut, Reaped, Uploaded, Attested,
         UploadFailed, Audited, MarkedCompleted, FailUpdated, FailAudited, CallFails,
         CancelDelivered, Raise, WorkerTypeOK
<1> QED
  BY <1>1, <1>2

(* A request writes PENDING while the document has no task, and a drain    *)
(* FAILED once, to a document that was never converted.                    *)
LEMMA RequestSettles ==
    ASSUME IInv, ~Redis, NEW d \in Docs, Settled(d), Request(d)
    PROVE  Settled(d)' /\ rec[d].status \notin Terminal
<1>1. d # Free
  BY WorkerAssumption
<1>2. /\ pc[d] = "idle" /\ drain[d] = "none" /\ pc' = pc /\ drain' = drain
      /\ UNCHANGED exc
  BY DEF Request, Accept, Created, CreateLost, IInv, Jobs, Job
<1>3. rec[d].status \notin Terminal
  BY <1>2 DEF Settled
<1>4. UNCHANGED stray /\ rec'[d].status \notin Terminal /\ (rpc'[d] = "creating" => loop' = d)
  <2>1. CASE Accept(d)
    BY <1>3, <2>1 DEF Accept
  <2>2. CASE Created(d)
    BY <2>2 DEF Created, IInv, TypeOK, WorkerTypeOK, DispatchTypeOK, Record, Terminal
  <2>3. CASE CreateLost(d)
    BY <1>1, <2>3 DEF CreateLost, Settled
  <2> QED
    BY <2>1, <2>2, <2>3 DEF Request
<1> QED
  BY <1>2, <1>3, <1>4 DEF Settled, Settling, StateCalls, Handler

LEMMA DrainSettles ==
    ASSUME IInv, ~Redis, NEW d \in Docs, Settled(d), Drain(d)
    PROVE  Settled(d)' /\ (rec[d].status \in Terminal => rec'[d] = rec[d])
<1>1. /\ pc[d] = "idle" /\ drain'[d] \in {"audit", "over"} /\ pc' = pc
      /\ rpc[d] = "ok" /\ UNCHANGED <<exc, stray, rpc>>
  BY DEF Drain, Draining, QueuedUpdated, QueuedAudited, QueuedLost, IInv, Jobs, Job,
         TypeOK, DispatchTypeOK
<1>2. rec[d].status \in Terminal => rec'[d] = rec[d]
  BY <1>1 DEF Drain, Draining, QueuedUpdated, QueuedAudited, QueuedLost, Settled
<1> QED
  BY <1>1, <1>2 DEF Settled, Settling, StateCalls, Handler

(* Every step of the service keeps Settled, and no terminal record is      *)
(* changed.                                                                *)
LEMMA NextSettles ==
    ASSUME IInv, Undrained, ~Redis, \A d \in Docs : Settled(d), [Next]_vars, NEW x \in Docs
    PROVE  Settled(x)' /\ (rec[x].status \in Terminal => rec'[x] = rec[x])
<1>0. Settled(x) /\ WorkerTypeOK /\ Jobs /\ DispatchTypeOK /\ x # Free
  BY WorkerAssumption DEF IInv, TypeOK
<1>1. ASSUME NEW d \in Docs, Request(d)
      PROVE  Settled(x)' /\ (rec[x].status \in Terminal => rec'[x] = rec[x])
  <2>1. CASE x = d
    BY <1>1, <2>1, RequestSettles
  <2>2. CASE x # d
    BY <1>0, <1>1, <2>2, SettledLocal DEF Request, Accept, Created, CreateLost, WorkerTypeOK,
       DispatchTypeOK
  <2> QED
    BY <2>1, <2>2
<1>2. ASSUME NEW d \in Docs, Drain(d)
      PROVE  Settled(x)' /\ (rec[x].status \in Terminal => rec'[x] = rec[x])
  <2>1. CASE x = d
    BY <1>2, <2>1, DrainSettles
  <2>2. CASE x # d
    BY <1>0, <1>2, <2>2, SettledLocal DEF Drain, Draining, QueuedUpdated, QueuedAudited,
       QueuedLost, WorkerTypeOK, DispatchTypeOK
  <2> QED
    BY <2>1, <2>2
<1>3. ASSUME NEW d \in Docs, Convert(d)
      PROVE  Settled(x)' /\ (rec[x].status \in Terminal => rec'[x] = rec[x])
  <2>1. Resume(d) /\ UNCHANGED <<rpc, drain>>
    BY <1>3 DEF Convert
  <2>2. CASE x = d
    <3>1. pc[d] # "idle" /\ pc'[d] # "idle" /\ rpc[d] = "ok"
      BY <1>0, <2>1, ResumeEffect DEF Jobs, Job
    <3> QED
      BY <1>0, <2>1, <2>2, <3>1, ResumeSettles DEF Settled
  <2>3. CASE x # d
    BY <1>0, <2>1, <2>3, ResumeNeedsLoop, ResumeLocal, SettledLocal
  <2> QED
    BY <2>2, <2>3
<1>4. ASSUME NEW d \in Docs, Enqueue(d) \/ QueuedCancelled(d)
      PROVE  Settled(x)' /\ (rec[x].status \in Terminal => rec'[x] = rec[x])
  BY <1>0, <1>4, SettledLocal DEF Enqueue, QueuedCancelled, workerVars
<1>5. ASSUME NEW d \in Docs, StartAtOnce(d) \/ SlotTaken(d)
      PROVE  Settled(x)' /\ (rec[x].status \in Terminal => rec'[x] = rec[x])
  <2>1. Begin(d) /\ loop = Free /\ UNCHANGED <<exc, rec, stray, rpc, drain>>
    BY <1>5 DEF StartAtOnce, SlotTaken
  <2>2. pc[d] = "idle" /\ pc' = [pc EXCEPT ![d] = "mark_running"] /\ Call(d, "mark_running")
    BY <2>1 DEF Begin, Call
  <2>3. CASE x = d
    <3>1. drain[d] = "none" /\ rpc[d] = "ok"
      BY <1>0, <1>5 DEF StartAtOnce, SlotTaken, Jobs, Job
    <3>2. loop' = d /\ pc'[d] = "mark_running"
      BY <1>0, <2>2, MemoryKeepsLoop DEF StateCalls, WorkerTypeOK
    <3> QED
      BY <1>0, <2>1, <2>2, <2>3, <3>1, <3>2 DEF Settled, Settling, Handler
  <2>4. CASE x # d
    BY <1>0, <2>1, <2>2, <2>4, SettledLocal DEF WorkerTypeOK
  <2> QED
    BY <2>3, <2>4
<1>6. ASSUME NEW d \in Docs, Outside(d), UNCHANGED dispatchVars
      PROVE  Settled(x)' /\ (rec[x].status \in Terminal => rec'[x] = rec[x])
  <2>1. stray[d] = {}
    BY DEF Settled, Settling
  <2> QED
    BY <1>0, <1>6, <2>1, SettledLocal DEF Outside, ThreadEnds, StrayLands, dispatchVars
<1>7. CASE Serve
  <2>1. UNCHANGED <<pc, loop, exc, rec, stray, rpc>>
    BY <1>7 DEF Serve, Signal, RpcsStopped, QueuedFailed, GraceOver, CleanupOver, Closed,
       Returned, Exit,
       workerVars
  <2>2. drain' = drain \/ drain[x] = "none"
    BY <1>7 DEF Serve, Signal, RpcsStopped, QueuedFailed, GraceOver, CleanupOver, Closed,
       Returned, Exit,
       Undrained
  <2> QED
    BY <1>0, <2>1, <2>2 DEF Settled, Settling, Outcome
<1>8. CASE UNCHANGED vars
  BY <1>0, <1>8, SettledLocal DEF vars, workerVars, dispatchVars
<1> QED
  BY <1>1, <1>2, <1>3, <1>4, <1>5, <1>6, <1>7, <1>8 DEF Next, Task, Exited

(* Undrained is inductive by itself.                                       *)
LEMMA UndrainedStep ==
    ASSUME TypeOK, Undrained, [Next]_vars
    PROVE  Undrained'
<1> USE DEF Undrained
<1>1. ASSUME NEW d \in Docs, Drain(d)
      PROVE  Undrained'
  BY <1>1 DEF Drain, Draining, QueuedUpdated, QueuedAudited, QueuedLost
<1>2. CASE Serve
  BY <1>2 DEF Serve, Signal, RpcsStopped, QueuedFailed, GraceOver, CleanupOver, Closed,
     Returned, Exit
<1>3. ASSUME NEW d \in Docs, Request(d) \/ Task(d)
      PROVE  Undrained'
  BY <1>3 DEF Request, Accept, Created, CreateLost, Task, Enqueue, StartAtOnce, SlotTaken,
     QueuedCancelled, Convert
<1>4. CASE UNCHANGED dispatchVars
  BY <1>4 DEF dispatchVars
<1> QED
  BY <1>1, <1>2, <1>3, <1>4 DEF Next, Exited, vars

(* The invariant of the service with the in-memory store.                  *)
SettledInv == Undrained /\ (~Redis => \A d \in Docs : Settled(d))

LEMMA SettledAlways == Spec => []SettledInv
<1>1. Init => SettledInv
  BY DEF Init, WorkerInit, SettledInv, Undrained, Settled, Settling, StateCalls, Handler,
     Record, Terminal
<1>2. IInv /\ SettledInv /\ [Next]_vars => SettledInv'
  BY UndrainedStep, NextSettles DEF IInv, SettledInv
<1> QED
  BY <1>1, <1>2, Invariance, PTL DEF Spec

(* However a conversion ends, with the in-memory store the record says     *)
(* how, through shutdown and outages of NATS.                              *)
THEOREM OutcomesAreRecorded == Spec => []OutcomeRecorded
<1>1. SettledInv => OutcomeRecorded
  BY DEF SettledInv, Settled, Settling, Outcome, OutcomeRecorded
<1> QED
  BY <1>1, SettledAlways, PTL

(* With the in-memory store no step of the service changes a record that   *)
(* is COMPLETED or FAILED.                                                 *)
THEOREM TerminalStaysFinal == Spec => TerminalIsFinal
<1>1. IInv /\ SettledInv /\ [Next]_vars =>
        [~Redis => \A d \in Docs : rec[d].status \in Terminal => rec'[d] = rec[d]]_rec
  BY NextSettles DEF SettledInv
<1> QED
  BY <1>1, SettledAlways, Invariance, PTL DEF Spec, TerminalIsFinal
-----------------------------------------------------------------------------
(* The events of a document that is converting or has been converted: the  *)
(* call it is making tells what it has published.                          *)
Trail(d) ==
    /\ pc[d] \notin Handler \cup {"idle", "mark_completed", "done"} => Outcomes(d) = <<>>
    /\ pc[d] = "mark_completed" => Outcomes(d) = <<"completed">>
    /\ pc[d] \in Handler => Outcomes(d) \in {<<>>, <<"completed">>}
    /\ pc[d] = "done" =>
         Outcomes(d) \in {<<>>, <<"completed">>, <<"failed">>, <<"completed", "failed">>}

(* And those of one that has not been converted: only a drain publishes.   *)
Announced(d) ==
    /\ Trail(d)
    /\ pc[d] = "idle" => Outcomes(d) \in {<<>>, <<"failed">>}
    /\ pc[d] = "idle" /\ drain[d] # "over" => Outcomes(d) = <<>>

(* Nothing was handed over for a document without events, and nothing new  *)
(* is unless its events change.                                            *)
LEMMA NoOutcomes ==
    ASSUME NEW d \in Docs, events[d] = <<>>
    PROVE  Outcomes(d) = <<>>
BY DEF Outcomes

LEMMA SameOutcomes ==
    ASSUME NEW d \in Docs, events'[d] = events[d]
    PROVE  Outcomes(d)' = Outcomes(d)
BY DEF Outcomes

(* A second element is appended to a sequence of one.                      *)
LEMMA AppendSecond ==
    ASSUME NEW T, NEW x \in T, NEW y \in T
    PROVE  Append(<<x>>, y) = <<x, y>>
<1> DEFINE s == <<x>>
           t == <<x, y>>
           a == Append(s, y)
<1>1. s \in Seq(T) /\ Len(s) = 1 /\ s[1] = x
  OBVIOUS
<1>2. t \in Seq(T) /\ Len(t) = 2 /\ t[1] = x /\ t[2] = y
  OBVIOUS
<1> HIDE DEF s, t
<1>3. /\ a \in Seq(T) /\ Len(a) = Len(s) + 1
      /\ \A i \in 1..Len(s) : a[i] = s[i]
      /\ a[Len(s) + 1] = y
  BY <1>1, AppendProperties
<1> HIDE DEF a
<1>4. Len(a) = 2 /\ \A i \in 1..Len(a) : a[i] = t[i]
  BY <1>1, <1>2, <1>3
<1>5. a = t
  BY <1>2, <1>3, <1>4, SeqEqual
<1> QED
  BY <1>5 DEF a, s, t

(* The trails that one more event makes.                                   *)
LEMMA LongerTrails ==
    /\ Append(<<>>, "completed") = <<"completed">>
    /\ Append(<<>>, "failed") = <<"failed">>
    /\ Append(<<"completed">>, "failed") = <<"completed", "failed">>
<1>1. Append(<<"completed">>, "failed") = <<"completed", "failed">>
  BY AppendSecond, "completed" \in {"completed", "failed"}, "failed" \in {"completed", "failed"}
<1> QED
  BY <1>1

(* A conversion that publishes nothing in a step that does not end it, or  *)
(* that raises, has the same trail.                                        *)
LEMMA QuietTrail ==
    ASSUME NEW d \in Docs, Trail(d), events'[d] = events[d], pc[d] \notin {"idle", "done"},
           \/ pc'[d] \notin {"idle", "mark_completed"}
              /\ pc[d] \notin Handler \cup {"mark_completed"}
           \/ pc'[d] \in Handler \cup {"done"}
    PROVE  Trail(d)'
BY SameOutcomes DEF Trail, Handler

(* Every step of run_conversion keeps Trail.                               *)
LEMMA ResumeTrail ==
    ASSUME WorkerTypeOK, NEW d \in Docs, Trail(d), Resume(d)
    PROVE  Trail(d)'
<1>0. pc[d] \notin {"idle", "done"}
  BY ResumeEffect
<1>a. ASSUME NEW e, Raise(d, e)
      PROVE  pc'[d] = IF pc[d] \in Handler THEN "done" ELSE "fail_update"
  BY <1>a DEF Raise, Call, End, WorkerTypeOK
<1>b. ASSUME NEW e, Raise(d, e), UNCHANGED events
      PROVE  Trail(d)'
  BY <1>0, <1>a, <1>b, QuietTrail DEF Handler
<1>c. ASSUME NEW p, Call(d, p), UNCHANGED events, p \notin {"idle", "mark_completed"},
             pc[d] \notin Handler \cup {"mark_completed"}
      PROVE  Trail(d)'
  <2>1. pc'[d] = p
    BY <1>c DEF Call, WorkerTypeOK
  <2> QED
    BY <1>0, <1>c, <2>1, QuietTrail
<1>f. ASSUME HandOver(d, Event(d))
      PROVE  Outcomes(d)' = Append(Outcomes(d), Event(d))
  BY <1>f, WrittenTyped, HandOverOutcome
<1>d. ASSUME NEW e, Raise(d, e), pc[d] \in AuditCalls, HandOver(d, Event(d))
      PROVE  Trail(d)'
  <2>1. CASE pc[d] = "audit"
    <3>1. Outcomes(d)' = <<"completed">> /\ pc'[d] = "fail_update"
      BY <1>a, <1>d, <1>f, <2>1, LongerTrails DEF Trail, Event, Handler
    <3> QED
      BY <3>1 DEF Trail, Handler
  <2>2. CASE pc[d] = "fail_audit"
    <3>1. pc'[d] = "done" /\ Outcomes(d)' \in {<<"failed">>, <<"completed", "failed">>}
      BY <1>a, <1>d, <1>f, <2>2, LongerTrails DEF Trail, Event, Handler
    <3> QED
      BY <3>1 DEF Trail, Handler
  <2> QED
    BY <1>d, <2>1, <2>2 DEF AuditCalls
<1>e. ASSUME NEW e, Raise(d, e), Abandon(d)
      PROVE  Trail(d)'
  BY <1>b, <1>d, <1>e DEF Abandon
<1>1. CASE MarkedRunning(d)
  BY <1>1, <1>b, <1>c DEF MarkedRunning, Handler
<1>2. CASE Fetched(d)
  BY <1>2, <1>b, <1>c DEF Fetched, Handler
<1>3. CASE Converted(d)
  BY <1>3, <1>b, <1>c DEF Converted, StartUpload, Handler
<1>4. CASE TimedOut(d)
  BY <1>4, <1>c DEF TimedOut, Handler
<1>5. CASE Reaped(d)
  BY <1>5, <1>b DEF Reaped
<1>6. CASE Uploaded(d)
  BY <1>6, <1>b, <1>c DEF Uploaded, StartUpload, Handler
<1>7. CASE Attested(d)
  BY <1>7, <1>c DEF Attested, Handler
<1>8. CASE UploadFailed(d)
  BY <1>8, <1>b DEF UploadFailed
<1>9. CASE Audited(d)
  <2>1. pc[d] = "audit" /\ pc'[d] = "mark_completed" /\ Outcomes(d)' = <<"completed">>
    BY <1>9, <1>f, LongerTrails DEF Audited, Publish, Event, Call, Trail, Handler, WorkerTypeOK
  <2> QED
    BY <2>1 DEF Trail, Handler
<1>10. CASE MarkedCompleted(d)
  <2>1. pc'[d] = "done" /\ UNCHANGED events
    BY <1>10 DEF MarkedCompleted, End, WorkerTypeOK
  <2> QED
    BY <1>0, <2>1, QuietTrail
<1>11. CASE FailUpdated(d)
  <2>1. pc'[d] = "fail_audit" /\ UNCHANGED events
    BY <1>11 DEF FailUpdated, Call, WorkerTypeOK
  <2> QED
    BY <1>0, <2>1, QuietTrail DEF Handler
<1>12. CASE FailAudited(d)
  <2>1. /\ pc[d] = "fail_audit" /\ pc'[d] = "done"
        /\ Outcomes(d)' \in {<<"failed">>, <<"completed", "failed">>}
    BY <1>12, <1>f, LongerTrails DEF FailAudited, Publish, Event, End, Trail, Handler,
       WorkerTypeOK
  <2> QED
    BY <2>1 DEF Trail, Handler
<1>13. CASE CallFails(d)
  BY <1>13, <1>e DEF CallFails
<1>14. CASE CancelDelivered(d)
  BY <1>14, <1>c, <1>e DEF CancelDelivered, Handler
<1> QED
  BY <1>1, <1>2, <1>3, <1>4, <1>5, <1>6, <1>7, <1>8, <1>9, <1>10, <1>11, <1>12, <1>13, <1>14
     DEF Resume

(* A drain publishes one event, of a document that was never converted.    *)
LEMMA DrainAnnounces ==
    ASSUME IInv, NEW d \in Docs, Announced(d), Drain(d)
    PROVE  Announced(d)'
<1>1. pc[d] = "idle" /\ pc' = pc /\ Outcomes(d) = <<>>
  BY DEF Drain, Draining, QueuedUpdated, QueuedAudited, QueuedLost, IInv, Jobs, Job, Announced
<1>2. \/ events' = events
      \/ Outcomes(d)' = <<"failed">> /\ drain'[d] = "over"
  BY <1>1, LongerTrails, HandOverOutcome DEF Drain, QueuedUpdated, QueuedAudited, QueuedLost,
     IInv, TypeOK, DispatchTypeOK
<1> QED
  BY <1>1, <1>2, SameOutcomes DEF Announced, Trail, Handler

(* What Announced says of x needs only what is known of x.                 *)
LEMMA AnnouncedLocal ==
    ASSUME NEW x \in Docs, Announced(x), pc'[x] = pc[x], events'[x] = events[x],
           drain'[x] = drain[x] \/ drain[x] = "none"
    PROVE  Announced(x)'
BY SameOutcomes DEF Announced, Trail

(* Every step of the service keeps Announced.                              *)
LEMMA NextAnnounces ==
    ASSUME IInv, Undrained, [Next]_vars, NEW x \in Docs, Announced(x)
    PROVE  Announced(x)'
<1>0. WorkerTypeOK /\ Jobs /\ DispatchTypeOK
  BY DEF IInv, TypeOK
<1>1. ASSUME NEW d \in Docs, Request(d) \/ Enqueue(d) \/ QueuedCancelled(d)
      PROVE  Announced(x)'
  BY <1>1, AnnouncedLocal DEF Request, Accept, Created, CreateLost, Enqueue, QueuedCancelled,
     workerVars
<1>2. ASSUME NEW d \in Docs, Drain(d)
      PROVE  Announced(x)'
  <2>1. CASE x # d
    BY <1>0, <1>2, <2>1, AnnouncedLocal, HandOverTyped DEF Drain, Draining, QueuedUpdated,
       QueuedAudited, QueuedLost, DispatchTypeOK
  <2> QED
    BY <1>2, <2>1, DrainAnnounces
<1>3. ASSUME NEW d \in Docs, Convert(d)
      PROVE  Announced(x)'
  <2>1. Resume(d) /\ UNCHANGED drain
    BY <1>3 DEF Convert
  <2>2. CASE x = d
    BY <1>0, <2>1, <2>2, ResumeTrail, ResumeEffect DEF Announced
  <2>3. CASE x # d
    BY <1>0, <2>1, <2>3, ResumeLocal, AnnouncedLocal
  <2> QED
    BY <2>2, <2>3
<1>4. ASSUME NEW d \in Docs, StartAtOnce(d) \/ SlotTaken(d)
      PROVE  Announced(x)'
  <2>1. /\ pc[d] = "idle" /\ pc' = [pc EXCEPT ![d] = "mark_running"]
        /\ UNCHANGED <<events, drain>>
    BY <1>4 DEF StartAtOnce, SlotTaken, Begin, Call
  <2>2. CASE x = d
    <3>1. drain[d] = "none"
      BY <1>0, <1>4 DEF StartAtOnce, SlotTaken, Jobs, Job
    <3>2. Outcomes(d)' = <<>> /\ pc'[d] = "mark_running"
      BY <1>0, <2>1, <2>2, <3>1, SameOutcomes DEF Announced, WorkerTypeOK
    <3> QED
      BY <2>1, <2>2, <3>2 DEF Announced, Trail, Handler
  <2>3. CASE x # d
    BY <1>0, <2>1, <2>3, AnnouncedLocal DEF WorkerTypeOK
  <2> QED
    BY <2>2, <2>3
<1>5. ASSUME NEW d \in Docs, Outside(d), UNCHANGED dispatchVars
      PROVE  Announced(x)'
  BY <1>5, AnnouncedLocal DEF Outside, ThreadEnds, StrayLands, dispatchVars
<1>6. CASE Serve
  <2>1. UNCHANGED <<pc, events>> /\ (drain' = drain \/ drain[x] = "none")
    BY <1>6 DEF Serve, Signal, RpcsStopped, QueuedFailed, GraceOver, CleanupOver, Closed,
       Returned, Exit,
       workerVars, Undrained
  <2> QED
    BY <2>1, AnnouncedLocal
<1>7. CASE UNCHANGED vars
  BY <1>7, AnnouncedLocal DEF vars, workerVars, dispatchVars
<1> QED
  BY <1>1, <1>2, <1>3, <1>4, <1>5, <1>6, <1>7 DEF Next, Task, Exited

(* Whatever the store, the failures and the shutdown: a "failed" event is  *)
(* the last one of its document, and no outcome is published twice.        *)
THEOREM AuditIsOrdered == Spec => []AuditOrder
<1> DEFINE Inv == \A d \in Docs : Announced(d)
<1>1. Init => Inv
  BY NoOutcomes DEF Init, WorkerInit, Announced, Trail, Handler
<1>2. IInv /\ SettledInv /\ Inv /\ [Next]_vars => Inv'
  BY NextAnnounces DEF SettledInv
<1>3. IInv /\ Inv => AuditOrder
  BY DEF Announced, Trail, AuditOrder, Handler, IInv, TypeOK, WorkerTypeOK
<1> HIDE DEF Inv
<1> QED
  BY <1>1, <1>2, <1>3, SettledAlways, Invariance, PTL DEF Spec
-----------------------------------------------------------------------------
(* A failure of d was handed over to the publisher.                        *)
Said(d) == \E i \in DOMAIN Outcomes(d) : Outcomes(d)[i] = "failed"

(* The record of d says FAILED, or a write to Redis that was given up for  *)
(* the exception at hand may contradict it.                                *)
Excused(d) == Redis /\ Outages /\ exc[d] \in {"error", "cancelled"}
Failing(d) == rec[d].status = "failed" \/ Excused(d)

(* From the update that says FAILED on the record keeps it, as no write    *)
(* that may still land says otherwise.                                     *)
Kept(d) ==
    /\ pc[d] \notin Handler \cup {"reap", "done"} => exc[d] = "none"
    /\ rpc[d] \in {"none", "creating"} => stray[d] = {}
    /\ \A w \in stray[d] : w.status = "failed" \/ Excused(d) \/ rpc[d] = "aborted"
    /\ pc[d] = "fail_audit" \/ drain[d] = "audit" \/ Said(d) => Failing(d)

LEMMA Unsaid ==
    ASSUME NEW d \in Docs, Outcomes(d) \in {<<>>, <<"completed">>}
    PROVE  ~Said(d)
<1>1. \A i \in DOMAIN Outcomes(d) : Outcomes(d)[i] = "completed"
  OBVIOUS
<1> QED
  BY <1>1 DEF Said

(* What Kept says of x needs only what is known of x.                      *)
LEMMA KeptLocal ==
    ASSUME NEW x \in Docs, Kept(x), pc'[x] = pc[x], exc'[x] = exc[x], rec'[x] = rec[x],
           stray'[x] = stray[x], events'[x] = events[x], rpc'[x] = rpc[x],
           drain'[x] = drain[x] \/ drain'[x] # "audit"
    PROVE  Kept(x)'
BY SameOutcomes DEF Kept, Said, Excused, Failing

(* Every step of run_conversion keeps Kept.                                *)
LEMMA ResumeKeeps ==
    ASSUME WorkerTypeOK, NEW d \in Docs, Kept(d), Trail(d), Resume(d),
           rpc[d] = "ok", drain[d] = "none", UNCHANGED <<rpc, drain>>
    PROVE  Kept(d)'
<1>0. pc[d] \notin {"idle", "done"} /\ Trail(d)' /\ d # Free
  BY ResumeEffect, ResumeTrail, WorkerAssumption
<1>1. ASSUME pc'[d] \notin {"idle", "done"}
      PROVE  ~Said(d)'
  <2>1. (Outcomes(d) \in {<<>>, <<"completed">>})'
    BY <1>0, <1>1 DEF Trail, Handler
  <2> QED
    BY <2>1, Unsaid, PTL
<1>2. ASSUME NEW e, Raise(d, e), pc[d] \notin Handler,
             pc[d] = "reap" => e \in {exc[d], "cancelled"},
             \A w \in stray'[d] : \/ w \in stray[d]
                                  \/ Redis /\ Outages /\ e \in {"error", "cancelled"}
      PROVE  Kept(d)'
  <2>1. pc'[d] = "fail_update" /\ exc'[d] = e
    BY <1>2 DEF Raise, Call, WorkerTypeOK
  <2>2. pc[d] = "reap" \/ exc[d] = "none"
    BY <1>0, <1>2 DEF Kept
  <2> QED
    BY <1>1, <1>2, <2>1, <2>2 DEF Kept, Handler, Excused
<1>3. ASSUME NEW p, Call(d, p), p \notin Handler \cup {"idle", "reap", "done"},
             pc[d] \notin Handler \cup {"reap"}, UNCHANGED <<exc, stray>>
      PROVE  Kept(d)'
  <2>1. pc'[d] = p
    BY <1>3 DEF Call, WorkerTypeOK
  <2> QED
    BY <1>0, <1>1, <1>3, <2>1 DEF Kept, Handler, Excused
<1>4. ASSUME Call(d, "reap"), pc[d] = "convert", UNCHANGED stray
      PROVE  Kept(d)'
  <2>1. pc'[d] = "reap" /\ exc[d] = "none"
    BY <1>4 DEF Call, Kept, Handler, WorkerTypeOK
  <2> QED
    BY <1>1, <1>4, <2>1 DEF Kept, Handler, Excused
<1>5. ASSUME NEW e \in {"error", "cancelled"}, Raise(d, e), Abandon(d),
             pc[d] = "reap" => e = "cancelled"
      PROVE  Kept(d)'
  <2>1. \A w \in stray'[d] : \/ w \in stray[d]
                             \/ w = Written(d) /\ pc[d] \in StateCalls /\ Redis /\ Outages
    BY <1>5 DEF Abandon, WorkerTypeOK
  <2>2. CASE pc[d] \notin Handler
    BY <1>2, <1>5, <2>1, <2>2
  <2>3. CASE pc[d] = "fail_update"
    <3>1. pc'[d] = "done" /\ UNCHANGED <<exc, events>> /\ Written(d).status = "failed"
      BY <1>5, <2>3 DEF Raise, End, Abandon, Written, Failed, Handler, AuditCalls, Uploads,
         WorkerTypeOK
    <3>2. ~Said(d)'
      <4>1. Outcomes(d) \in {<<>>, <<"completed">>} /\ Outcomes(d)' = Outcomes(d)
        BY <2>3, <3>1, SameOutcomes DEF Trail, Handler
      <4> QED
        BY <4>1, Unsaid DEF Said
    <3> QED
      BY <2>1, <3>1, <3>2 DEF Kept, Excused
  <2>4. CASE pc[d] = "fail_audit"
    <3>1. pc'[d] = "done" /\ UNCHANGED <<exc, rec, stray>>
      BY <1>5, <2>4 DEF Raise, End, Abandon, Handler, StateCalls, Uploads, WorkerTypeOK
    <3> QED
      BY <2>4, <3>1 DEF Kept, Excused, Failing
  <2> QED
    BY <2>2, <2>3, <2>4 DEF Handler
<1>6. CASE MarkedRunning(d) \/ Fetched(d) \/ Converted(d) \/ Uploaded(d) \/ Attested(d)
           \/ UploadFailed(d) \/ Audited(d)
  BY <1>2, <1>3, <1>6 DEF MarkedRunning, Fetched, Converted, Uploaded, Attested, UploadFailed,
     Audited, StartUpload, Uploads, Handler
<1>7. CASE TimedOut(d)
  BY <1>4, <1>7 DEF TimedOut
<1>8. CASE Reaped(d)
  BY <1>2, <1>8 DEF Reaped, Handler
<1>9. CASE MarkedCompleted(d)
  <2>1. /\ pc[d] = "mark_completed" /\ pc'[d] = "done"
        /\ UNCHANGED <<exc, stray, events>>
    BY <1>9 DEF MarkedCompleted, End, WorkerTypeOK
  <2>2. ~Said(d)'
    <3>1. Outcomes(d) \in {<<>>, <<"completed">>} /\ Outcomes(d)' = Outcomes(d)
      BY <2>1, SameOutcomes DEF Trail
    <3> QED
      BY <3>1, Unsaid DEF Said
  <2> QED
    BY <2>1, <2>2 DEF Kept, Excused
<1>10. CASE FailUpdated(d)
  <2>1. /\ pc[d] = "fail_update" /\ pc'[d] = "fail_audit"
        /\ rec'[d].status = "failed" /\ UNCHANGED <<exc, stray>>
    BY <1>10 DEF FailUpdated, Call, Written, Failed, WorkerTypeOK
  <2> QED
    BY <2>1 DEF Kept, Handler, Excused, Failing
<1>11. CASE FailAudited(d)
  <2>1. /\ pc[d] = "fail_audit" /\ pc'[d] = "done" /\ UNCHANGED <<exc, rec, stray>>
    BY <1>11 DEF FailAudited, End, WorkerTypeOK
  <2> QED
    BY <2>1 DEF Kept, Excused, Failing
<1>12. CASE CallFails(d)
  BY <1>5, <1>12 DEF CallFails, StateCalls, AuditCalls
<1>13. CASE CancelDelivered(d)
  BY <1>4, <1>5, <1>13 DEF CancelDelivered
<1> QED
  BY <1>6, <1>7, <1>8, <1>9, <1>10, <1>11, <1>12, <1>13 DEF Resume

(* So does every step of the service.  A write that lands finds either a   *)
(* document of which nothing was said, or a record that it leaves FAILED.  *)
LEMMA NextKeeps ==
    ASSUME IInv, Undrained, [Next]_vars, NEW x \in Docs, Announced(x), Kept(x)
    PROVE  Kept(x)'
<1>0. /\ WorkerTypeOK /\ Jobs /\ DispatchTypeOK
      /\ pc[x] = "idle" /\ drain[x] # "over" => ~Said(x)
  BY Unsaid DEF IInv, TypeOK, Announced
<1>1. ASSUME NEW d \in Docs, Request(d)
      PROVE  Kept(x)'
  <2>1. /\ pc[d] = "idle" /\ drain[d] = "none" /\ rpc[d] # "ok"
        /\ UNCHANGED <<pc, exc, events, drain>>
    BY <1>0, <1>1 DEF Request, Accept, Created, CreateLost, Jobs, Job
  <2>2. CASE x = d
    <3>1. ~Said(x)'
      BY <1>0, <2>1, <2>2, SameOutcomes DEF Said
    <3>2. rpc'[x] # "aborted" => stray'[x] = {}
      BY <1>0, <1>1, <2>2 DEF Request, Accept, Created, CreateLost, Kept, DispatchTypeOK
    <3> QED
      BY <2>1, <2>2, <3>1, <3>2, <1>0, <1>1
         DEF Request, Accept, Created, CreateLost, Kept, DispatchTypeOK
  <2>3. CASE x # d
    BY <1>0, <1>1, <2>1, <2>3, KeptLocal DEF Request, Accept, Created, CreateLost,
       WorkerTypeOK, DispatchTypeOK
  <2> QED
    BY <2>2, <2>3
<1>2. ASSUME NEW d \in Docs, Drain(d)
      PROVE  Kept(x)'
  <2>1. CASE x = d
    <3>1. /\ pc[d] = "idle" /\ rpc[d] = "ok" /\ drain[d] \in {"update", "audit"}
          /\ UNCHANGED <<pc, exc, rpc>>
      BY <1>0, <1>2 DEF Drain, Draining, QueuedUpdated, QueuedAudited, QueuedLost, Jobs, Job
    <3>2. \A w \in stray'[d] : w \in stray[d] \/ w.status = "failed"
      BY <1>0, <1>2 DEF Drain, QueuedUpdated, QueuedAudited, QueuedLost, Failed, WorkerTypeOK
    <3>3. CASE drain[d] = "update"
      <4>1. \/ rec'[d].status = "failed"
            \/ drain'[d] = "over" /\ ~Said(d)'
        BY <1>0, <1>2, <2>1, <3>1, <3>3, SameOutcomes
           DEF Drain, Draining, QueuedUpdated, QueuedAudited, QueuedLost, Failed, Said,
               WorkerTypeOK, DispatchTypeOK
      <4> QED
        BY <2>1, <3>1, <3>2, <4>1 DEF Kept, Handler, Excused, Failing
    <3>4. CASE drain[d] = "audit"
      <4>1. rec' = rec
        BY <1>2, <3>4 DEF Drain, Draining, QueuedUpdated, QueuedAudited, QueuedLost
      <4> QED
        BY <2>1, <3>1, <3>2, <3>4, <4>1 DEF Kept, Handler, Excused, Failing
    <3> QED
      BY <3>1, <3>3, <3>4
  <2>2. CASE x # d
    BY <1>0, <1>2, <2>2, KeptLocal, HandOverTyped DEF Drain, QueuedUpdated, QueuedAudited,
       QueuedLost, WorkerTypeOK, DispatchTypeOK
  <2> QED
    BY <2>1, <2>2
<1>3. ASSUME NEW d \in Docs, Convert(d)
      PROVE  Kept(x)'
  <2>1. Resume(d) /\ UNCHANGED <<rpc, drain>>
    BY <1>3 DEF Convert
  <2>2. CASE x = d
    <3>1. rpc[d] = "ok" /\ drain[d] = "none"
      BY <1>0, <2>1, ResumeEffect DEF Jobs, Job
    <3> QED
      BY <1>0, <2>1, <2>2, <3>1, ResumeKeeps DEF Announced
  <2>3. CASE x # d
    BY <1>0, <2>1, <2>3, ResumeLocal, ResumeNeedsLoop, KeptLocal
  <2> QED
    BY <2>2, <2>3
<1>4. ASSUME NEW d \in Docs, Enqueue(d) \/ QueuedCancelled(d)
      PROVE  Kept(x)'
  BY <1>4, KeptLocal DEF Enqueue, QueuedCancelled, workerVars
<1>5. ASSUME NEW d \in Docs, StartAtOnce(d) \/ SlotTaken(d)
      PROVE  Kept(x)'
  <2>1. /\ pc[d] = "idle" /\ pc' = [pc EXCEPT ![d] = "mark_running"]
        /\ UNCHANGED <<exc, rec, stray, events, rpc, drain>>
    BY <1>5 DEF StartAtOnce, SlotTaken, Begin, Call
  <2>2. CASE x = d
    <3>1. pc'[d] = "mark_running" /\ ~Said(d)' /\ drain[d] = "none"
      BY <1>0, <1>5, <2>1, <2>2, SameOutcomes
         DEF StartAtOnce, SlotTaken, Said, Jobs, Job, WorkerTypeOK
    <3> QED
      BY <2>1, <2>2, <3>1 DEF Kept, Handler, Excused
  <2>3. CASE x # d
    BY <1>0, <2>1, <2>3, KeptLocal DEF WorkerTypeOK
  <2> QED
    BY <2>2, <2>3
<1>6. ASSUME NEW d \in Docs, Outside(d), UNCHANGED dispatchVars
      PROVE  Kept(x)'
  <2>1. CASE x = d /\ StrayLands(d)
    <3>1. PICK w \in stray[d] : /\ rec' = [rec EXCEPT ![d] = w]
                                /\ stray' = [stray EXCEPT ![d] = @ \ {w}]
                                /\ UNCHANGED <<pc, exc, events>>
      BY <2>1 DEF StrayLands
    <3>2. rec'[d] = w /\ stray'[d] \subseteq stray[d] /\ UNCHANGED <<rpc, drain>>
      BY <1>0, <1>6, <3>1 DEF dispatchVars, WorkerTypeOK
    <3>3. CASE rpc[d] = "aborted"
      <4>1. pc[d] = "idle" /\ drain[d] = "none" /\ ~Said(d)'
        BY <1>0, <2>1, <3>1, <3>3, SameOutcomes DEF Jobs, Job, Said
      <4> QED
        BY <2>1, <3>1, <3>2, <3>3, <4>1 DEF Kept
    <3>4. CASE rpc[d] # "aborted"
      BY <2>1, <3>1, <3>2, <3>4 DEF Kept, Excused, Failing
    <3> QED
      BY <3>3, <3>4
  <2>2. CASE ~(x = d /\ StrayLands(d))
    BY <1>0, <1>6, <2>2, KeptLocal DEF Outside, ThreadEnds, StrayLands, dispatchVars,
       WorkerTypeOK
  <2> QED
    BY <2>1, <2>2
<1>7. CASE Serve
  <2>1. /\ UNCHANGED <<pc, exc, rec, stray, events, rpc>>
        /\ drain'[x] = drain[x] \/ drain'[x] # "audit"
    BY <1>7 DEF Serve, Signal, RpcsStopped, QueuedFailed, GraceOver, CleanupOver, Closed,
       Returned, Exit, workerVars
  <2> QED
    BY <2>1, KeptLocal
<1>8. CASE UNCHANGED vars
  BY <1>8, KeptLocal DEF vars, workerVars, dispatchVars
<1> QED
  BY <1>1, <1>2, <1>3, <1>4, <1>5, <1>6, <1>7, <1>8 DEF Next, Task, Exited

(* A failure that was published is in the record, for good, unless a write *)
(* to Redis that was given up is what failed.                              *)
THEOREM AuditedFailuresAreRecorded == Spec => []AuditedFailureIsRecorded
<1> DEFINE Inv == \A d \in Docs : Announced(d) /\ Kept(d)
<1>1. Init => Inv
  BY NoOutcomes DEF Init, WorkerInit, Announced, Trail, Handler, Kept, Said
<1>2. IInv /\ SettledInv /\ Inv /\ [Next]_vars => Inv'
  BY NextAnnounces, NextKeeps DEF SettledInv
<1>3. Inv => AuditedFailureIsRecorded
  BY DEF Kept, Said, Failing, Excused, AuditedFailureIsRecorded
<1> HIDE DEF Inv
<1> QED
  BY <1>1, <1>2, <1>3, SettledAlways, Invariance, PTL DEF Spec
-----------------------------------------------------------------------------
(* How far the shutdown has come tells who may still be queued, drained or *)
(* creating a task.                                                        *)
Shutting(d) ==
    /\ Opened => ~cancel[d] /\ (d \in queued => d \in tasks)
    /\ ~Opened => rpc[d] # "creating" /\ (d \in queued => drain[d] # "none")
    /\ phase \notin {"serving", "stop_rpcs", "fail_queued"} => drain[d] \in {"none", "over"}

(* A task ends with its conversion, or because shutdown gave it up.        *)
Accounted(d) ==
    /\ pc[d] = "idle" /\ cancel[d] => drain[d] # "none"
    /\ rpc[d] = "ok" /\ d \notin tasks => pc[d] = "done" \/ drain[d] # "none"

ShutdownInv ==
    /\ \A d \in Docs : Shutting(d) /\ Accounted(d)
    /\ phase = "exited" => tasks = {}

LEMMA ShutdownStep ==
    ASSUME IInv, Undrained, ShutdownInv, [Next]_vars
    PROVE  ShutdownInv'
<1>0. TypeOK /\ WorkerTypeOK /\ DispatchTypeOK /\ Jobs
  BY DEF IInv, TypeOK
<1> USE DEF ShutdownInv, Shutting, Accounted, Opened
<1>1. ASSUME NEW d \in Docs, Request(d)
      PROVE  ShutdownInv'
  BY <1>0, <1>1 DEF Request, Accept, Created, CreateLost, DispatchTypeOK
<1>2. ASSUME NEW d \in Docs, Drain(d)
      PROVE  ShutdownInv'
  BY <1>0, <1>2 DEF Drain, Draining, QueuedUpdated, QueuedAudited, QueuedLost, DispatchTypeOK,
     Undrained
<1>3. ASSUME NEW d \in Docs, Convert(d)
      PROVE  ShutdownInv'
  <2>1. /\ UNCHANGED <<rpc, queued, drain, phase>>
        /\ tasks' = tasks \/ (tasks' = tasks \ {d} /\ pc'[d] = "done")
        /\ pc'[d] # "idle" /\ pc[d] # "idle" /\ pc[d] # "done"
        /\ \A x \in Docs \ {d} : pc'[x] = pc[x] /\ cancel'[x] = cancel[x]
    BY <1>0, <1>3, ResumeEffect DEF Convert
  <2>2. ~cancel[d] => ~cancel'[d]
    BY <1>0, <1>3 DEF Convert, Resume, MarkedRunning, Fetched, Converted, TimedOut, Reaped,
       Uploaded, Attested, UploadFailed, Audited, MarkedCompleted, FailUpdated, FailAudited,
       CallFails, CancelDelivered
  <2>3. d \notin queued
    BY <1>0, <2>1 DEF Jobs, Job
  <2> QED
    BY <2>1, <2>2, <2>3
<1>4. ASSUME NEW d \in Docs, Enqueue(d) \/ QueuedCancelled(d)
      PROVE  ShutdownInv'
  BY <1>0, <1>4 DEF Enqueue, QueuedCancelled, workerVars, WorkerTypeOK
<1>5. ASSUME NEW d \in Docs, StartAtOnce(d) \/ SlotTaken(d)
      PROVE  ShutdownInv'
  BY <1>0, <1>5 DEF StartAtOnce, SlotTaken, Begin, Call, WorkerTypeOK, Jobs, Job
<1>6. ASSUME NEW d \in Docs, Outside(d), UNCHANGED dispatchVars
      PROVE  ShutdownInv'
  BY <1>6 DEF Outside, ThreadEnds, StrayLands, dispatchVars
<1>7. CASE Serve
  <2>1. UNCHANGED <<pc, rpc, tasks, queued>>
    BY <1>7 DEF Serve, Signal, RpcsStopped, QueuedFailed, GraceOver, CleanupOver, Closed,
       Returned, Exit,
       workerVars
  <2>2. CASE Signal \/ QueuedFailed \/ CleanupOver \/ Closed \/ Exit
    BY <1>0, <2>1, <2>2 DEF Signal, QueuedFailed, CleanupOver, Closed, Exit, workerVars
  <2>3. CASE RpcsStopped
    BY <1>0, <2>1, <2>3 DEF RpcsStopped, CancelTasks, DispatchTypeOK, Undrained
  <2>4. CASE GraceOver \/ Returned
    <3>1. phase \notin {"serving", "stop_rpcs", "fail_queued", "exited"}
          /\ phase' \notin {"serving", "stop_rpcs", "fail_queued", "exited"} /\ drain' = drain
      BY <2>4 DEF GraceOver, Returned
    <3>2. \A d \in Docs : cancel'[d] => cancel[d] \/ d \in tasks
      BY <2>4 DEF GraceOver, Returned, CancelTasks
    <3>3. \A d \in Docs : d \in tasks /\ pc[d] = "idle" => drain[d] # "none"
      BY <1>0, <3>1 DEF Jobs, Job
    <3> QED
      BY <2>1, <3>1, <3>2, <3>3
  <2> QED
    BY <1>7, <2>2, <2>3, <2>4 DEF Serve
<1>8. CASE UNCHANGED vars
  BY <1>8 DEF vars, workerVars, dispatchVars
<1> QED
  BY <1>1, <1>2, <1>3, <1>4, <1>5, <1>6, <1>7, <1>8 DEF Next, Task, Exited
(* Whom shutdown gives up gets a FAILED record, with the in-memory store.  *)
Refused(d) == drain[d] \in {"audit", "over"} => rec[d] = Failed("UNAVAILABLE")

(* With the log as sink as well nothing comes between a conversion's event *)
(* and its end, so that it publishes its outcome and nothing else.         *)
LogTrail(d) ==
    /\ pc[d] \in AuditCalls => loop = d
    /\ pc[d] \in Handler => Outcomes(d) = <<>>
    /\ pc[d] = "done" => Outcomes(d) = <<IF exc[d] = "none" THEN "completed" ELSE "failed">>
    /\ drain[d] = "over" => Outcomes(d) = <<"failed">>

(* The log fallback never suspends its caller.                             *)
LEMMA LogKeepsLoop ==
    ASSUME ~Nats, NEW d \in Docs, NEW p \in AuditCalls, Call(d, p)
    PROVE  loop' = d
<1>1. ~Suspends(p)
  BY DEF Suspends, StateCalls, AuditCalls
<1> QED
  BY <1>1 DEF Call

(* Every step of run_conversion keeps LogTrail.                            *)
LEMMA ResumeLogs ==
    ASSUME WorkerTypeOK, ~Redis, ~Nats, NEW d \in Docs, Settling(d), Trail(d), LogTrail(d),
           Resume(d), UNCHANGED drain, drain[d] # "over"
    PROVE  LogTrail(d)'
<1>0. d # Free
  BY WorkerAssumption
<1>1. pc[d] \in AuditCalls \cup {"mark_completed", "fail_update"} =>
          Audited(d) \/ MarkedCompleted(d) \/ FailUpdated(d) \/ FailAudited(d)
  BY <1>0 DEF Resume, MarkedRunning, Fetched, Converted, TimedOut, Reaped, Uploaded, Attested,
     UploadFailed, CallFails, CancelDelivered, AuditCalls, Uploads, StateCalls, LogTrail, Settling
<1>2. CASE pc[d] \notin AuditCalls \cup {"mark_completed", "fail_update"}
  <2>1. Outcomes(d)' = <<>>
    BY <1>2, ResumeEffect DEF Resume, MarkedRunning, Fetched, Converted, TimedOut, Reaped,
       Uploaded, Attested, UploadFailed, Audited, MarkedCompleted, FailUpdated, FailAudited,
       CallFails, CancelDelivered, Abandon, AuditCalls, Trail, Handler, Outcomes
  <2>2. \/ \E p \in {"fetch", "convert", "reap", "upload", "attest", "audit"} : Call(d, p)
        \/ \E e \in Errors \cup {"none"} : Raise(d, e)
    BY <1>2 DEF Resume, MarkedRunning, Fetched, Converted, TimedOut, Reaped, Uploaded, Attested,
       UploadFailed, Audited, MarkedCompleted, FailUpdated, FailAudited, CallFails,
       CancelDelivered, StartUpload, WorkerTypeOK, Errors, AuditCalls
  <2>3. \E p \in {"fetch", "convert", "reap", "upload", "attest", "audit", "fail_update"} :
            Call(d, p)
    BY <1>2, <2>2 DEF Raise, Handler, AuditCalls
  <2>4. PICK p \in {"fetch", "convert", "reap", "upload", "attest", "audit", "fail_update"} :
            Call(d, p)
    BY <2>3
  <2>5. pc'[d] = p /\ (p \in AuditCalls => loop' = d)
    BY <2>4, LogKeepsLoop DEF Call, WorkerTypeOK
  <2> QED
    BY <2>1, <2>5 DEF LogTrail
<1>3. CASE Audited(d)
  <2>1. pc'[d] = "mark_completed"
    BY <1>3 DEF Audited, Call, WorkerTypeOK
  <2> QED
    BY <2>1 DEF LogTrail, AuditCalls, Handler
<1>4. CASE MarkedCompleted(d)
  <2>1. /\ pc'[d] = "done" /\ UNCHANGED <<exc, events>>
        /\ exc[d] = "none" /\ Outcomes(d) = <<"completed">>
    BY <1>4 DEF MarkedCompleted, End, Settling, Trail, Handler, WorkerTypeOK
  <2>2. Outcomes(d)' = <<"completed">>
    BY <2>1, SameOutcomes
  <2> QED
    BY <2>1, <2>2 DEF LogTrail, AuditCalls, Handler
<1>5. CASE FailUpdated(d)
  <2>1. pc'[d] = "fail_audit" /\ loop' = d /\ Outcomes(d)' = <<>>
    BY <1>5, LogKeepsLoop, SameOutcomes
       DEF FailUpdated, Call, LogTrail, Handler, AuditCalls, WorkerTypeOK
  <2> QED
    BY <2>1 DEF LogTrail
<1>6. CASE FailAudited(d)
  <2>1. pc[d] = "fail_audit" /\ exc[d] # "none" /\ Outcomes(d) = <<>>
    BY <1>6 DEF FailAudited, Settling, LogTrail, Handler
  <2>2. pc'[d] = "done" /\ exc' = exc /\ Outcomes(d)' = <<"failed">>
    <3>1. pc'[d] = "done" /\ exc' = exc /\ HandOver(d, "failed")
      BY <1>6, <2>1 DEF FailAudited, Publish, Event, End, WorkerTypeOK
    <3> QED
      BY <2>1, <3>1, LongerTrails, HandOverOutcome
  <2> QED
    BY <2>1, <2>2 DEF LogTrail, AuditCalls, Handler
<1> QED
  BY <1>1, <1>2, <1>3, <1>4, <1>5, <1>6

(* What LogTrail says of x needs only what is known of x, and that whoever *)
(* moved the loop did not take it from x.                                  *)
LEMMA LogTrailLocal ==
    ASSUME NEW x \in Docs, LogTrail(x), loop' = loop \/ loop # x,
           pc'[x] = pc[x], exc'[x] = exc[x], events'[x] = events[x],
           drain'[x] = drain[x] \/ drain'[x] # "over"
    PROVE  LogTrail(x)'
BY SameOutcomes DEF LogTrail

(* Every step of the service keeps Refused.                                *)
LEMMA NextRefuses ==
    ASSUME IInv, SettledInv, ~Redis, [Next]_vars, NEW x \in Docs, Refused(x)
    PROVE  Refused(x)'
<1>0. DispatchTypeOK /\ WorkerTypeOK
  BY DEF IInv, TypeOK
<1>1. rec[x].status \in Terminal => rec'[x] = rec[x]
  BY NextSettles DEF SettledInv
<1>2. Failed("UNAVAILABLE").status \in Terminal
  BY DEF Failed, Terminal
<1>3. ASSUME NEW d \in Docs, Drain(d)
      PROVE  Refused(x)'
  <2>1. CASE x # d
    BY <1>0, <1>1, <1>2, <1>3, <2>1 DEF Drain, QueuedUpdated, QueuedAudited, QueuedLost,
       DispatchTypeOK, Refused
  <2>2. CASE x = d
    BY <1>0, <1>1, <1>2, <1>3, <2>2 DEF Drain, Draining, QueuedUpdated, QueuedAudited,
       QueuedLost, DispatchTypeOK, WorkerTypeOK, Refused
  <2> QED
    BY <2>1, <2>2
<1>4. CASE drain'[x] = drain[x] \/ drain'[x] \notin {"audit", "over"}
  BY <1>1, <1>2, <1>4 DEF Refused
<1>5. ASSUME NEW d \in Docs, Request(d) \/ Task(d)
      PROVE  drain' = drain
  BY <1>5 DEF Request, Accept, Created, CreateLost, Task, Enqueue, StartAtOnce, SlotTaken,
     QueuedCancelled, Convert
<1>6. CASE Serve
  <2>1. drain' = drain \/ drain'[x] \notin {"audit", "over"}
    BY <1>6 DEF Serve, Signal, RpcsStopped, QueuedFailed, GraceOver, CleanupOver, Closed,
       Returned, Exit
  <2> QED
    BY <1>4, <2>1
<1> QED
  BY <1>3, <1>4, <1>5, <1>6 DEF Next, Exited, vars, dispatchVars

(* Every step of the service keeps LogTrail.                               *)
LEMMA NextLogs ==
    ASSUME IInv, SettledInv, ~Redis, ~Nats, [Next]_vars, NEW x \in Docs,
           Announced(x), LogTrail(x)
    PROVE  LogTrail(x)'
<1>0. /\ WorkerTypeOK /\ Jobs /\ DispatchTypeOK /\ x # Free
      /\ Settling(x) /\ Trail(x)
  BY WorkerAssumption DEF IInv, TypeOK, SettledInv, Settled, Announced
<1>1. ASSUME NEW d \in Docs, Request(d)
      PROVE  LogTrail(x)'
  <2>1. /\ UNCHANGED <<pc, exc, events, drain>>
        /\ loop \in {Free, d}
    BY <1>1 DEF Request, Accept, Created, CreateLost
  <2>2. CASE x = d
    <3>1. pc[x] = "idle"
      BY <1>0, <1>1, <2>2 DEF Request, Accept, Created, CreateLost, Jobs, Job
    <3> QED
      BY <2>1, <3>1, SameOutcomes DEF LogTrail, AuditCalls, Handler
  <2> QED
    BY <1>0, <2>1, <2>2, LogTrailLocal
<1>2. ASSUME NEW d \in Docs, Drain(d)
      PROVE  LogTrail(x)'
  <2>1. CASE x # d
    BY <1>0, <1>2, <2>1, LogTrailLocal, HandOverTyped DEF Drain, Draining, QueuedUpdated,
       QueuedAudited, QueuedLost, WorkerTypeOK, DispatchTypeOK
  <2>2. CASE x = d
    <3>1. pc[d] = "idle" /\ pc' = pc /\ Outcomes(d) = <<>>
      BY <1>2, <2>2 DEF Drain, Draining, QueuedUpdated, QueuedAudited, QueuedLost, IInv, Jobs,
         Job, Announced
    <3>2. drain'[d] = "over" => Outcomes(d)' = <<"failed">>
      BY <1>0, <1>2, <3>1, LongerTrails, HandOverOutcome DEF Drain, QueuedUpdated,
         QueuedAudited, QueuedLost, DispatchTypeOK
    <3> QED
      BY <2>2, <3>1, <3>2 DEF LogTrail, AuditCalls, Handler
  <2> QED
    BY <2>1, <2>2
<1>3. ASSUME NEW d \in Docs, Convert(d)
      PROVE  LogTrail(x)'
  <2>1. Resume(d) /\ UNCHANGED drain
    BY <1>3 DEF Convert
  <2>2. CASE x = d
    <3>1. drain[d] = "none"
      BY <1>0, <2>1, ResumeEffect DEF Jobs, Job
    <3> QED
      BY <1>0, <2>1, <2>2, <3>1, ResumeLogs
  <2>3. CASE x # d
    BY <1>0, <2>1, <2>3, ResumeNeedsLoop, ResumeLocal, LogTrailLocal
  <2> QED
    BY <2>2, <2>3
<1>4. ASSUME NEW d \in Docs, Enqueue(d) \/ QueuedCancelled(d)
      PROVE  LogTrail(x)'
  BY <1>4, LogTrailLocal DEF Enqueue, QueuedCancelled, workerVars
<1>5. ASSUME NEW d \in Docs, StartAtOnce(d) \/ SlotTaken(d)
      PROVE  LogTrail(x)'
  <2>1. /\ pc[d] = "idle" /\ pc' = [pc EXCEPT ![d] = "mark_running"]
        /\ loop = Free /\ UNCHANGED <<exc, events, drain>>
    BY <1>5 DEF StartAtOnce, SlotTaken, Begin, Call
  <2>2. CASE x = d
    BY <1>0, <2>1, <2>2, SameOutcomes DEF LogTrail, AuditCalls, Handler, WorkerTypeOK
  <2>3. CASE x # d
    BY <1>0, <2>1, <2>3, LogTrailLocal DEF WorkerTypeOK
  <2> QED
    BY <2>2, <2>3
<1>6. ASSUME NEW d \in Docs, Outside(d), UNCHANGED dispatchVars
      PROVE  LogTrail(x)'
  BY <1>6, LogTrailLocal DEF Outside, ThreadEnds, StrayLands, dispatchVars
<1>7. CASE Serve
  <2>1. /\ UNCHANGED <<pc, loop, exc, events>>
        /\ drain'[x] = drain[x] \/ drain'[x] # "over"
    BY <1>7 DEF Serve, Signal, RpcsStopped, QueuedFailed, GraceOver, CleanupOver, Closed,
       Returned, Exit,
       workerVars
  <2> QED
    BY <2>1, LogTrailLocal
<1>8. CASE UNCHANGED vars
  BY <1>8, LogTrailLocal DEF vars, workerVars, dispatchVars
<1> QED
  BY <1>1, <1>2, <1>3, <1>4, <1>5, <1>6, <1>7, <1>8 DEF Next, Task, Exited

(* When the process has ended by itself, with the in-memory store every    *)
(* document it accepted has an outcome, and with the log as sink exactly   *)
(* one event, which agrees with it.                                        *)
THEOREM ShutdownIsSettled == Spec => []ShutdownSettles
<1> DEFINE Trails == \A d \in Docs : Announced(d)
           Memory == ~Redis => \A d \in Docs : Refused(d) /\ (~Nats => LogTrail(d))
           Inv == ShutdownInv /\ Trails /\ Memory
<1>1. Init => Inv
  <2>1. Init => ShutdownInv /\ Trails
    BY NoOutcomes DEF Init, WorkerInit, Announced, Trail, Handler, ShutdownInv, Shutting,
       Accounted, Opened
  <2>2. Init => Memory
    BY DEF Init, WorkerInit, Refused, LogTrail, AuditCalls, Handler
  <2> QED
    BY <2>1, <2>2
<1>2. IInv /\ SettledInv /\ Inv /\ [Next]_vars => Inv'
  <2> SUFFICES ASSUME IInv, SettledInv, Inv, [Next]_vars
               PROVE  Inv'
    OBVIOUS
  <2>1. ShutdownInv' /\ Trails'
    BY ShutdownStep, NextAnnounces DEF SettledInv
  <2>2. ASSUME ~Redis, NEW d \in Docs
        PROVE  Refused(d)' /\ (~Nats => LogTrail(d)')
    BY <2>2, NextRefuses, NextLogs
  <2> QED
    BY <2>1, <2>2
<1>3. IInv /\ SettledInv /\ Inv => ShutdownSettles
  <2> SUFFICES ASSUME IInv, SettledInv, Inv, phase = "exited", ~Redis, NEW d \in Docs,
                      rpc[d] = "ok"
               PROVE  /\ rec[d].status \in Terminal
                      /\ ~Nats => Outcomes(d) = <<rec[d].status>>
    BY DEF ShutdownSettles
  <2>1. pc[d] = "done" \/ drain[d] = "over"
    BY DEF ShutdownInv, Shutting, Accounted
  <2>2. CASE pc[d] = "done"
    <3>1. rec[d] = Outcome(d)
      BY <2>2 DEF SettledInv, Settled, Settling
    <3> QED
      BY <2>2, <3>1 DEF Outcome, Record, Failed, Terminal, LogTrail
  <2>3. CASE drain[d] = "over"
    BY <2>3 DEF Refused, Failed, Terminal, LogTrail
  <2> QED
    BY <2>1, <2>2, <2>3
<1> HIDE DEF Inv
<1> QED
  BY <1>1, <1>2, <1>3, SettledAlways, Invariance, PTL DEF Spec
-----------------------------------------------------------------------------
(* The grace period is over.                                               *)
Late == phase \in {"cleanup", "closing", "returning", "teardown", "exited"}

(* UNAVAILABLE was written for d, or is on its way to the store.           *)
SaidUnavailable(d) ==
    rec[d].code = "UNAVAILABLE" \/ \E w \in stray[d] : w.code = "UNAVAILABLE"

(* Who is cancelled or told to come again: a job that shutdown gave up, or *)
(* a conversion that outlived the grace period.                            *)
Blamed(d) ==
    /\ pc[d] = "idle" => exc[d] = "none"
    /\ (cancel[d] \/ exc[d] = "cancelled") /\ drain[d] = "none" => Late
    /\ SaidUnavailable(d) => ~Opened /\ (drain[d] = "none" => Late)

(* Only a cancellation makes a conversion write UNAVAILABLE.               *)
LEMMA OnlyCancelled ==
    ASSUME WorkerTypeOK, NEW d \in Docs, Written(d).code = "UNAVAILABLE"
    PROVE  exc[d] = "cancelled"
BY DEF Written, Record, Failed, Code

LEMMA ResumeBlames ==
    ASSUME WorkerTypeOK, NEW d \in Docs, Resume(d)
    PROVE  /\ exc'[d] = "cancelled" => exc[d] = "cancelled" \/ cancel[d]
           /\ cancel'[d] => cancel[d]
           /\ SaidUnavailable(d)' => SaidUnavailable(d) \/ exc[d] = "cancelled"
<1>1. cancel'[d] => cancel[d]
  BY DEF Resume, MarkedRunning, Fetched, Converted, TimedOut, Reaped, Uploaded, Attested,
     UploadFailed, Audited, MarkedCompleted, FailUpdated, FailAudited, CallFails,
     CancelDelivered, WorkerTypeOK
<1>2. exc'[d] = "cancelled" => exc[d] = "cancelled" \/ cancel[d]
  <2>1. CASE CancelDelivered(d)
    BY <2>1 DEF CancelDelivered
  <2>2. CASE Reaped(d)
    BY <2>2 DEF Reaped, Raise, WorkerTypeOK
  <2>3. CASE \/ exc' = exc
             \/ exc' = [exc EXCEPT ![d] = "timeout"]
             \/ \E e \in {"invalid", "error", "limit"} : Raise(d, e)
    BY <2>3 DEF Raise, WorkerTypeOK
  <2> QED
    BY <2>1, <2>2, <2>3 DEF Resume, MarkedRunning, Fetched, Converted, TimedOut, Uploaded,
       Attested, UploadFailed, Audited, MarkedCompleted, FailUpdated, FailAudited, CallFails
<1>3. /\ rec'[d] = rec[d] \/ rec'[d] = Written(d)
      /\ stray'[d] \subseteq stray[d] \cup {Written(d)}
  BY DEF Resume, MarkedRunning, Fetched, Converted, TimedOut, Reaped, Uploaded, Attested,
     UploadFailed, Audited, MarkedCompleted, FailUpdated, FailAudited, CallFails,
     CancelDelivered, Abandon, WorkerTypeOK
<1>4. SaidUnavailable(d)' => SaidUnavailable(d) \/ exc[d] = "cancelled"
  BY <1>3, OnlyCancelled DEF SaidUnavailable
<1> QED
  BY <1>1, <1>2, <1>4

(* What Blamed says of x needs only what is known of x, and that the phase *)
(* goes on.                                                                *)
LEMMA BlamedLocal ==
    ASSUME NEW x \in Docs, Blamed(x), Late => Late', ~Opened => ~Opened',
           pc'[x] = pc[x], exc'[x] = exc[x], cancel'[x] => cancel[x],
           rec'[x] = rec[x] \/ rec'[x] \in stray[x] \/ rec'[x].code # "UNAVAILABLE",
           \A w \in stray'[x] : w \in stray[x] \/ w.code # "UNAVAILABLE",
           drain'[x] = drain[x] \/ drain[x] = "none"
    PROVE  Blamed(x)'
BY DEF Blamed, SaidUnavailable

(* Every step of the service keeps Blamed.                                 *)
LEMMA NextBlames ==
    ASSUME IInv, Undrained, [Next]_vars, NEW x \in Docs, Blamed(x)
    PROVE  Blamed(x)'
<1>0. WorkerTypeOK /\ Jobs /\ DispatchTypeOK
  BY DEF IInv, TypeOK
<1>a. ASSUME phase' = phase
      PROVE  (Late => Late') /\ (~Opened => ~Opened')
  BY <1>a DEF Late, Opened
<1>1. ASSUME NEW d \in Docs, Request(d)
      PROVE  Blamed(x)'
  <2>1. /\ UNCHANGED <<pc, exc, cancel, drain, phase>>
        /\ rec'[x] = rec[x] \/ rec'[x] = Record("pending")
        /\ \A w \in stray'[x] : w \in stray[x] \/ w = Record("pending")
    BY <1>0, <1>1 DEF Request, Accept, Created, CreateLost, WorkerTypeOK
  <2>2. Record("pending").code # "UNAVAILABLE"
    BY DEF Record
  <2> QED
    BY <1>a, <2>1, <2>2, BlamedLocal
<1>2. ASSUME NEW d \in Docs, Drain(d)
      PROVE  Blamed(x)'
  <2>1. UNCHANGED <<pc, exc, cancel, phase>>
    BY <1>2 DEF Drain, QueuedUpdated, QueuedAudited, QueuedLost
  <2>2. CASE x # d
    BY <1>0, <1>2, <1>a, <2>1, <2>2, BlamedLocal DEF Drain, QueuedUpdated, QueuedAudited,
       QueuedLost, WorkerTypeOK, DispatchTypeOK
  <2>3. CASE x = d
    <3>1. drain[d] # "none" /\ drain'[d] # "none"
      BY <1>0, <1>2 DEF Drain, Draining, QueuedUpdated, QueuedAudited, QueuedLost,
         DispatchTypeOK
    <3>2. ~Opened /\ ~Opened'
      BY <2>1, <3>1 DEF Opened, Undrained
    <3> QED
      BY <2>1, <2>3, <3>1, <3>2 DEF Blamed
  <2> QED
    BY <2>2, <2>3
<1>3. ASSUME NEW d \in Docs, Convert(d)
      PROVE  Blamed(x)'
  <2>1. Resume(d) /\ UNCHANGED <<drain, phase>>
    BY <1>3 DEF Convert
  <2>2. CASE x = d
    <3>1. drain[d] = "none" /\ pc'[d] # "idle"
      BY <1>0, <2>1, ResumeEffect DEF Jobs, Job
    <3>2. Late => ~Opened
      BY DEF Late, Opened
    <3> QED
      BY <1>0, <1>a, <2>1, <2>2, <3>1, <3>2, ResumeBlames DEF Blamed
  <2>3. CASE x # d
    BY <1>0, <1>a, <2>1, <2>3, ResumeNeedsLoop, ResumeEffect, ResumeLocal, BlamedLocal
  <2> QED
    BY <2>2, <2>3
<1>4. ASSUME NEW d \in Docs, Enqueue(d) \/ QueuedCancelled(d)
      PROVE  Blamed(x)'
  BY <1>0, <1>4, <1>a, BlamedLocal DEF Enqueue, QueuedCancelled, workerVars, WorkerTypeOK
<1>5. ASSUME NEW d \in Docs, StartAtOnce(d) \/ SlotTaken(d)
      PROVE  Blamed(x)'
  <2>1. /\ pc[d] = "idle" /\ pc' = [pc EXCEPT ![d] = "mark_running"]
        /\ UNCHANGED <<exc, cancel, rec, stray, drain, phase>>
    BY <1>5 DEF StartAtOnce, SlotTaken, Begin, Call
  <2>2. Late' = Late /\ Opened' = Opened
    BY <2>1 DEF Late, Opened
  <2> QED
    BY <1>0, <2>1, <2>2 DEF Blamed, SaidUnavailable, WorkerTypeOK
<1>6. ASSUME NEW d \in Docs, Outside(d), UNCHANGED dispatchVars
      PROVE  Blamed(x)'
  <2>1. UNCHANGED <<pc, exc, cancel, drain, phase>>
    BY <1>6 DEF Outside, ThreadEnds, StrayLands, dispatchVars
  <2>2. rec'[x] \in {rec[x]} \cup stray[x] /\ stray'[x] \subseteq stray[x]
    BY <1>0, <1>6 DEF Outside, ThreadEnds, StrayLands, WorkerTypeOK
  <2> QED
    BY <1>a, <2>1, <2>2, BlamedLocal
<1>7. CASE Serve
  <2>1. /\ UNCHANGED <<pc, exc, rec, stray>>
        /\ (Late => Late') /\ (~Opened => ~Opened')
        /\ drain'[x] = drain[x] \/ drain[x] = "none"
    BY <1>7 DEF Serve, Signal, RpcsStopped, QueuedFailed, GraceOver, CleanupOver, Closed,
       Returned, Exit,
       workerVars, Late, Opened, Undrained
  <2>2. CASE cancel'[x] => cancel[x]
    BY <2>1, <2>2, BlamedLocal
  <2>3. CASE RpcsStopped
    <3>1. cancel'[x] => cancel[x] \/ drain'[x] # "none"
      BY <2>3 DEF RpcsStopped, CancelTasks
    <3> QED
      BY <2>1, <2>2, <3>1 DEF Blamed, SaidUnavailable
  <2>4. CASE GraceOver \/ Returned
    <3>1. Late' /\ ~Opened'
      BY <2>4 DEF GraceOver, Returned, Late, Opened
    <3> QED
      BY <2>1, <3>1 DEF Blamed, SaidUnavailable
  <2> QED
    BY <1>7, <2>2, <2>3, <2>4 DEF Serve, Signal, QueuedFailed, CleanupOver, Closed, Exit,
       workerVars
<1>8. CASE UNCHANGED vars
  BY <1>8, <1>a, BlamedLocal DEF vars, workerVars, dispatchVars
<1> QED
  BY <1>1, <1>2, <1>3, <1>4, <1>5, <1>6, <1>7, <1>8 DEF Next, Task, Exited

(* A client is told to come again by a service that is shutting down, and  *)
(* for a conversion that was running only after the grace period.          *)
THEOREM UnavailableAtShutdown == Spec => []UnavailableOnlyAtShutdown
<1> DEFINE Inv == \A d \in Docs : Blamed(d)
<1>1. Init => Inv
  BY DEF Init, WorkerInit, Blamed, SaidUnavailable, Record
<1>2. IInv /\ SettledInv /\ Inv /\ [Next]_vars => Inv'
  BY NextBlames DEF SettledInv
<1>3. Inv => UnavailableOnlyAtShutdown
  BY DEF Blamed, SaidUnavailable, Late, Opened, UnavailableOnlyAtShutdown
<1> HIDE DEF Inv
<1> QED
  BY <1>1, <1>2, <1>3, SettledAlways, Invariance, PTL DEF Spec
-----------------------------------------------------------------------------
(* The calls of a conversion that has said RUNNING and not yet how it      *)
(* ended.                                                                  *)
Underway == Calls \ {"mark_running", "fail_audit"}

(* The status a client is shown at every point between its call and the    *)
(* outcome; Settled has what it is shown afterwards.                       *)
Shown(d) ==
    /\ rpc[d] # "aborted"
    /\ rpc[d] = "creating" => Opened
    /\ rpc[d] \in {"none", "creating"} => rec[d].status = "absent"
    /\ rpc[d] = "ok" /\ pc[d] = "idle" =>
           rec[d].status = IF drain[d] \in {"none", "update"} THEN "pending" ELSE "failed"
    /\ pc[d] = "mark_running" => rec[d].status = "pending"
    /\ pc[d] \in Underway => rec[d].status = "running"

ShownInv == ~Redis => \A d \in Docs : Shown(d)

(* What Shown says of x needs only what is known of x.                     *)
LEMMA ShownLocal ==
    ASSUME NEW x \in Docs, Shown(x), pc'[x] = pc[x], rec'[x] = rec[x], rpc'[x] = rpc[x],
           drain'[x] = drain[x], rpc[x] = "creating" => phase' = phase
    PROVE  Shown(x)'
BY DEF Shown, Opened

(* The status of d alone changes, to s.                                    *)
LEMMA StatusBecomes ==
    ASSUME NEW d \in Docs, NEW s, rec'[d].status = s,
           \A x \in Docs \ {d} : rec'[x] = rec[x]
    PROVE  Lifecycle!Becomes(d, s)
BY DEF Lifecycle!Becomes

LEMMA StatusStays ==
    ASSUME \A x \in Docs : rec'[x].status = rec[x].status, phase' = phase
    PROVE  UNCHANGED Lifecycle!lifecycle
BY DEF Lifecycle!lifecycle, Opened

(* The instance counts with the same Cardinality.                          *)
LEMMA SameCardinality ==
    ASSUME NEW S
    PROVE  Lifecycle!Cardinality(S) = Cardinality(S)
BY DEF Cardinality, Lifecycle!Cardinality

(* A slot is free for a document that becomes RUNNING: its own.            *)
LEMMA RunningFits ==
    ASSUME IInv, \A x \in Docs : Shown(x) /\ Settled(x), NEW d \in Docs,
           pc[d] = "mark_running"
    PROVE  Cardinality({x \in Docs : rec[x].status = "running"}) < MaxConcurrent
<1> DEFINE Running == {x \in Docs : rec[x].status = "running"}
<1>1. d \in Slotted \ Running
  BY DEF IInv, Jobs, Job, Slotted, Shown
<1>2. Running \in SUBSET (Slotted \ {d})
  <2> SUFFICES ASSUME NEW x \in Running
               PROVE  x \in Slotted \ {d}
    OBVIOUS
  <2>1. x \in Docs /\ rec[x].status = "running"
    OBVIOUS
  <2>2. pc[x] \notin {"fail_audit", "done"}
    <3>1. Outcome(x).status # "running"
      BY DEF Outcome, Record, Failed
    <3> QED
      BY <2>1, <3>1 DEF Settled, Settling
  <2>3. pc[x] # "idle"
    BY <2>1 DEF Shown, IInv, TypeOK, DispatchTypeOK
  <2> QED
    BY <1>1, <2>1, <2>2, <2>3 DEF IInv, Jobs, Job, Slotted
<1>3. IsFiniteSet(Slotted \ {d})
  BY DispatchAssumption, FS_Subset DEF Slotted
<1>4. Cardinality(Running) <= Cardinality(Slotted \ {d}) /\ Cardinality(Running) \in Nat
  BY <1>2, <1>3, FS_Subset, FS_CardinalityType
<1>5. /\ Cardinality(Slotted) \in Nat /\ Cardinality(Slotted \ {d}) \in Nat
      /\ Cardinality(Slotted) = Cardinality(Slotted \ {d}) + 1
  BY <1>1, SlottedCount
<1> QED
  BY <1>4, <1>5, DispatchAssumption DEF IInv, Permits, TypeOK, DispatchTypeOK

(* The three updates of a record are the steps of the status.              *)
LEMMA ResumeShows ==
    ASSUME WorkerTypeOK, ~Redis, NEW d \in Docs, Settling(d), Shown(d), rpc[d] = "ok",
       Resume(d),
           UNCHANGED <<rpc, drain, phase>>
    PROVE  /\ Shown(d)'
           /\ \/ rec'[d].status = rec[d].status
              \/ pc[d] = "mark_running" /\ rec'[d].status = "running"
              \/ rec[d].status = "running" /\ rec'[d].status \in Terminal
<1>0. d # Free
  BY WorkerAssumption
<1>1. CASE MarkedRunning(d)
  <2>1. pc[d] = "mark_running" /\ rec'[d].status = "running"
    BY <1>1 DEF MarkedRunning, Written, Record, WorkerTypeOK
  <2>2. pc'[d] \in {"fetch", "convert", "fail_update"}
    BY <1>1, <2>1 DEF MarkedRunning, Raise, Call, Handler, WorkerTypeOK
  <2> QED
    BY <2>1, <2>2 DEF Shown
<1>2. CASE MarkedCompleted(d) \/ FailUpdated(d)
  <2>1. /\ pc[d] \in {"mark_completed", "fail_update"}
        /\ pc'[d] \in {"done", "fail_audit"} /\ rec'[d].status \in Terminal
    BY <1>2 DEF MarkedCompleted, FailUpdated, End, Call, Written, Record, Failed, Terminal,
       WorkerTypeOK
  <2> QED
    BY <2>1 DEF Shown, Underway, Calls, StateCalls, AuditCalls, Uploads
<1>3. ASSUME pc[d] \in Underway, pc'[d] \in Underway, rec' = rec
      PROVE  Shown(d)' /\ rec'[d].status = rec[d].status
  BY <1>3 DEF Shown, Underway, Calls, StateCalls, AuditCalls, Uploads
<1>4. ASSUME NEW e, Raise(d, e), pc[d] \in Underway \ {"fail_update"}
      PROVE  pc'[d] \in Underway
  BY <1>4 DEF Raise, Call, Handler, Underway, Calls, StateCalls, WorkerTypeOK
<1>5. ASSUME NEW p \in Underway, Call(d, p)
      PROVE  pc'[d] \in Underway
  BY <1>5 DEF Call, WorkerTypeOK
<1>6. {"fetch", "convert", "reap", "upload", "attest", "audit", "mark_completed"}
        \subseteq Underway \ {"fail_update"}
  BY DEF Underway, Calls, StateCalls, AuditCalls, Uploads
<1>7. CASE Fetched(d) \/ Converted(d) \/ TimedOut(d) \/ Reaped(d) \/ Uploaded(d) \/ Attested(d)
           \/ UploadFailed(d) \/ Audited(d)
  BY <1>3, <1>4, <1>5, <1>6, <1>7 DEF Fetched, Converted, TimedOut, Reaped, Uploaded, Attested,
     UploadFailed, Audited, StartUpload, Uploads
<1>8. CASE FailAudited(d) \/ (pc[d] = "fail_audit" /\ rec' = rec /\ \E e \in Errors : Raise(d, e))
  <2>1. pc'[d] = "done" /\ rec' = rec
    BY <1>8 DEF FailAudited, Raise, End, Handler, WorkerTypeOK
  <2> QED
    BY <2>1 DEF Shown, Underway, Calls, StateCalls, AuditCalls, Uploads
<1>9. CASE CallFails(d)
  <2>1. pc[d] \in AuditCalls /\ rec' = rec /\ Raise(d, "error")
    BY <1>9 DEF CallFails, Abandon, AuditCalls, StateCalls
  <2> QED
    BY <1>3, <1>4, <1>6, <1>8, <2>1 DEF AuditCalls, Errors
<1>10. CASE CancelDelivered(d)
  <2>1. pc[d] \notin StateCalls \cup {"idle", "done"} /\ rec' = rec
    BY <1>0, <1>10 DEF CancelDelivered, Abandon, Settling
  <2>2. pc[d] = "fail_audit" \/ pc[d] \in Underway \ {"fail_update"}
    BY <2>1 DEF Underway, StateCalls, WorkerTypeOK
  <2> QED
    BY <1>3, <1>4, <1>5, <1>6, <1>8, <1>10, <2>1, <2>2 DEF CancelDelivered, Errors
<1> QED
  BY <1>1, <1>2, <1>7, <1>8, <1>9, <1>10 DEF Resume

(* The step of the service that is a step of DocumentLifecycle, or none.   *)
Mapped == Lifecycle!Next \/ UNCHANGED Lifecycle!lifecycle

(* Created accepts a document.                                             *)
LEMMA RequestShows ==
    ASSUME IInv, ~Redis, \A x \in Docs : Settled(x) /\ Shown(x), NEW d \in Docs, Request(d)
    PROVE  (\A x \in Docs : Shown(x)') /\ Mapped
<1>0. /\ d # Free /\ WorkerTypeOK /\ DispatchTypeOK /\ phase' = phase
      /\ pc[d] = "idle" /\ drain[d] = "none"
  BY WorkerAssumption DEF IInv, TypeOK, Jobs, Job, Request, Accept, Created, CreateLost
<1>1. \A x \in Docs \ {d} : Shown(x)' /\ rec'[x] = rec[x]
  BY <1>0, ShownLocal DEF Request, Accept, Created, CreateLost, WorkerTypeOK, DispatchTypeOK
<1>2. ~CreateLost(d)
  BY <1>0 DEF CreateLost, Settled
<1>3. CASE Accept(d)
  <2>1. Shown(d)' /\ rec' = rec
    BY <1>0, <1>3 DEF Accept, Shown, Opened, DispatchTypeOK, Underway, Calls, StateCalls,
       AuditCalls, Uploads
  <2> QED
    BY <1>0, <1>1, <2>1, StatusStays DEF Mapped
<1>4. CASE Created(d)
  <2>1. /\ rec[d].status = "absent" /\ Opened /\ Opened' /\ rec'[d].status = "pending"
        /\ Shown(d)'
    BY <1>0, <1>4 DEF Created, Shown, Opened, WorkerTypeOK, DispatchTypeOK, Record, Underway,
       Calls, StateCalls, AuditCalls, Uploads
  <2>2. Lifecycle!Becomes(d, "pending")
    BY <1>1, <2>1, StatusBecomes
  <2>3. Lifecycle!Accept(d)
    BY <1>0, <2>1, <2>2 DEF Lifecycle!Accept
  <2> QED
    BY <1>1, <2>1, <2>3 DEF Mapped, Lifecycle!Next
<1> QED
  BY <1>2, <1>3, <1>4 DEF Request

(* A conversion starts and finishes a document.                            *)
LEMMA ConvertShows ==
    ASSUME IInv, ~Redis, \A x \in Docs : Settled(x) /\ Shown(x), NEW d \in Docs, Convert(d)
    PROVE  (\A x \in Docs : Shown(x)') /\ Mapped
<1>0. Resume(d) /\ UNCHANGED <<rpc, drain, phase>> /\ WorkerTypeOK
  BY DEF Convert, IInv, TypeOK
<1>1. rpc[d] = "ok"
  BY <1>0, ResumeEffect DEF IInv, Jobs, Job
<1>2. \A x \in Docs \ {d} : Shown(x)' /\ rec'[x] = rec[x]
  BY <1>0, ResumeLocal, ShownLocal
<1>3. /\ Shown(d)'
      /\ \/ rec'[d].status = rec[d].status
         \/ pc[d] = "mark_running" /\ rec'[d].status = "running"
         \/ rec[d].status = "running" /\ rec'[d].status \in Terminal
  BY <1>0, <1>1, ResumeShows DEF Settled
<1>a. \A x \in Docs : Shown(x)'
  BY <1>2, <1>3
<1>4. CASE rec'[d].status = rec[d].status
  <2>1. phase' = phase /\ \A x \in Docs : rec'[x].status = rec[x].status
    BY <1>0, <1>2, <1>4
  <2> QED
    BY <1>a, <2>1, StatusStays DEF Mapped
<1>5. CASE pc[d] = "mark_running" /\ rec'[d].status = "running"
  <2>1. Lifecycle!Becomes(d, "running")
    BY <1>2, <1>5, StatusBecomes
  <2>2. rec[d].status = "pending"
    BY <1>5 DEF Shown
  <2>3. {x \in Docs : [y \in Docs |-> rec[y].status][x] = "running"}
          = {x \in Docs : rec[x].status = "running"}
    OBVIOUS
  <2>4. Lifecycle!Cardinality({x \in Docs : [y \in Docs |-> rec[y].status][x] = "running"})
          < MaxConcurrent
    BY <1>5, <2>3, RunningFits, SameCardinality
  <2>5. Lifecycle!Start(d)
    BY <1>0, <2>1, <2>2, <2>4 DEF Lifecycle!Start, Opened
  <2> QED
    BY <1>a, <2>5 DEF Mapped, Lifecycle!Next
<1>6. CASE rec[d].status = "running" /\ rec'[d].status \in Terminal
  <2>1. \E s \in {"completed", "failed"} : Lifecycle!Becomes(d, s)
    BY <1>2, <1>6, StatusBecomes DEF Terminal
  <2>2. Lifecycle!Finish(d)
    BY <1>0, <1>6, <2>1 DEF Lifecycle!Finish, Opened
  <2> QED
    BY <1>a, <2>2 DEF Mapped, Lifecycle!Next
<1> QED
  BY <1>3, <1>4, <1>5, <1>6

(* A drain refuses a document.                                             *)
LEMMA DrainShows ==
    ASSUME IInv, Undrained, ~Redis, \A x \in Docs : Settled(x) /\ Shown(x),
           NEW d \in Docs, Drain(d)
    PROVE  (\A x \in Docs : Shown(x)') /\ Mapped
<1>0. /\ WorkerTypeOK /\ DispatchTypeOK /\ phase' = phase
      /\ pc[d] = "idle" /\ drain[d] # "none" /\ rpc[d] = "ok" /\ ~Opened /\ ~Opened'
  BY DEF IInv, TypeOK, DispatchTypeOK, Jobs, Job, Undrained, Drain, Draining, QueuedUpdated,
     QueuedAudited, QueuedLost, Opened
<1>1. \A x \in Docs \ {d} : Shown(x)' /\ rec'[x] = rec[x]
  BY <1>0, ShownLocal DEF Drain, Draining, QueuedUpdated, QueuedAudited, QueuedLost,
     WorkerTypeOK,
     DispatchTypeOK
<1>2. CASE QueuedUpdated(d)
  <2>1. /\ rec[d].status = "pending" /\ rec'[d].status = "failed" /\ Shown(d)'
    BY <1>0, <1>2 DEF QueuedUpdated, Draining, Shown, WorkerTypeOK, DispatchTypeOK, Failed,
       Underway, Calls, StateCalls, AuditCalls, Uploads
  <2>2. Lifecycle!Becomes(d, "failed")
    BY <1>1, <2>1, StatusBecomes
  <2>3. Lifecycle!Refuse(d)
    BY <1>0, <2>1, <2>2 DEF Lifecycle!Refuse
  <2> QED
    BY <1>1, <2>1, <2>3 DEF Mapped, Lifecycle!Next
<1>3. CASE QueuedAudited(d) \/ QueuedLost(d)
  <2>1. /\ drain[d] = "audit" /\ drain'[d] = "over" /\ UNCHANGED <<rec, pc, rpc>>
    BY <1>0, <1>3 DEF QueuedAudited, QueuedLost, Draining, DispatchTypeOK
  <2>2. Shown(d)'
    BY <1>0, <2>1 DEF Shown
  <2> QED
    BY <1>0, <1>1, <2>1, <2>2, StatusStays DEF Mapped
<1> QED
  BY <1>2, <1>3 DEF Drain

(* Every step of the service is a step of DocumentLifecycle or changes     *)
(* nothing a client can see.                                               *)
LEMMA NextShows ==
    ASSUME IInv, SettledInv, ~Redis, \A x \in Docs : Shown(x), [Next]_vars
    PROVE  (\A x \in Docs : Shown(x)') /\ Mapped
<1>0. Undrained /\ (\A x \in Docs : Settled(x)) /\ WorkerTypeOK /\ DispatchTypeOK
  BY DEF SettledInv, IInv, TypeOK
<1>1. ASSUME NEW d \in Docs, Request(d) \/ Convert(d) \/ Drain(d)
      PROVE  (\A x \in Docs : Shown(x)') /\ Mapped
  BY <1>0, <1>1, RequestShows, ConvertShows, DrainShows
<1>2. ASSUME NEW d \in Docs, Enqueue(d) \/ QueuedCancelled(d)
      PROVE  (\A x \in Docs : Shown(x)') /\ Mapped
  <2>1. UNCHANGED <<pc, rec, rpc, drain, phase>>
    BY <1>2 DEF Enqueue, QueuedCancelled, workerVars
  <2> QED
    BY <2>1, ShownLocal, StatusStays DEF Mapped
<1>3. ASSUME NEW d \in Docs, StartAtOnce(d) \/ SlotTaken(d)
      PROVE  (\A x \in Docs : Shown(x)') /\ Mapped
  <2>1. /\ pc[d] = "idle" /\ pc' = [pc EXCEPT ![d] = "mark_running"]
        /\ UNCHANGED <<rec, rpc, drain, phase>> /\ rpc[d] = "ok" /\ drain[d] = "none"
    BY <1>3 DEF StartAtOnce, SlotTaken, Begin, Call, IInv, Jobs, Job
  <2>2. Shown(d)'
    BY <1>0, <2>1 DEF Shown, WorkerTypeOK, Underway
  <2>3. \A x \in Docs \ {d} : Shown(x)'
    BY <1>0, <2>1, ShownLocal DEF WorkerTypeOK
  <2> QED
    BY <2>1, <2>2, <2>3, StatusStays DEF Mapped
<1>4. ASSUME NEW d \in Docs, Outside(d), UNCHANGED dispatchVars
      PROVE  (\A x \in Docs : Shown(x)') /\ Mapped
  <2>1. UNCHANGED <<pc, rec, rpc, drain, phase>>
    BY <1>0, <1>4 DEF Outside, ThreadEnds, StrayLands, dispatchVars, Settled, Settling
  <2> QED
    BY <2>1, ShownLocal, StatusStays DEF Mapped
<1>5. CASE Serve
  <2>1. UNCHANGED <<pc, rec, rpc>> /\ loop = Free
    BY <1>5 DEF Serve, Signal, RpcsStopped, QueuedFailed, GraceOver, CleanupOver, Closed,
       Returned, Exit,
       workerVars
  <2>2. \A x \in Docs : drain'[x] = drain[x] \/ (drain[x] = "none" /\ drain'[x] = "update")
    BY <1>0, <1>5 DEF Serve, Signal, RpcsStopped, QueuedFailed, GraceOver, CleanupOver, Closed,
       Returned, Exit, Undrained
  <2>3. \A x \in Docs : rpc[x] # "creating"
    BY <1>0, <2>1, WorkerAssumption DEF Settled
  <2>4. \A x \in Docs : Shown(x)'
    BY <2>1, <2>2, <2>3 DEF Shown
  <2>5. Opened \/ ~Opened'
    BY <1>5 DEF Opened, Serve, Signal, RpcsStopped, QueuedFailed, GraceOver, CleanupOver,
       Closed, Returned, Exit
  <2>6. Lifecycle!Stop \/ UNCHANGED Lifecycle!lifecycle
    BY <2>1, <2>5 DEF Lifecycle!Stop, Lifecycle!lifecycle
  <2> QED
    BY <2>4, <2>6 DEF Mapped, Lifecycle!Next
<1>6. CASE UNCHANGED vars
  <2>1. UNCHANGED <<pc, rec, rpc, drain, phase>>
    BY <1>6 DEF vars, workerVars, dispatchVars
  <2> QED
    BY <2>1, ShownLocal, StatusStays DEF Mapped
<1> QED
  BY <1>1, <1>2, <1>3, <1>4, <1>5, <1>6 DEF Next, Task, Exited

(* With the in-memory store the service shows clients nothing but what     *)
(* DocumentLifecycle allows: statuses in order, at most Capacity RUNNING,  *)
(* no new document once some may be refused.  This is ImplementsLifecycle  *)
(* without its fairness.                                                   *)
THEOREM RefinesLifecycle ==
    ASSUME ~Redis
    PROVE  Spec => Lifecycle!Init /\ [][Lifecycle!Next]_(Lifecycle!lifecycle)
<1>1. Init => Lifecycle!Init
  BY DEF Init, WorkerInit, Record, Opened, Lifecycle!Init
<1>2. Init => ShownInv
  BY DEF Init, WorkerInit, ShownInv, Shown, Record, Underway, Calls, StateCalls, AuditCalls,
     Uploads
<1>3. IInv /\ SettledInv /\ ShownInv /\ [Next]_vars => ShownInv' /\ Mapped
  BY NextShows DEF ShownInv
<1>4. Mapped => [Lifecycle!Next]_(Lifecycle!lifecycle)
  BY DEF Mapped
<1> QED
  BY <1>1, <1>2, <1>3, <1>4, SettledAlways, Invariance, PTL DEF Spec
=============================================================================
