------------------------------ MODULE Dispatch ------------------------------
(***************************************************************************)
(* The embedded service: ConvertDocument (service.py), EmbeddedDispatch    *)
(* (dispatch.py) with its asyncio.Semaphore, serve() from the signal to    *)
(* the end of the process (server.py, __main__.py), and one pipeline of    *)
(* module Worker for every document.                                       *)
(*                                                                         *)
(* All of it is coroutines of one event loop, so a step of any of them     *)
(* needs the loop.  A document stands for the request that submits it, the *)
(* task that converts it and, at shutdown, the record_failure that gives   *)
(* it up while it is still queued.                                         *)
(***************************************************************************)
EXTENDS Worker

CONSTANT MaxConcurrent      \* MAX_CONCURRENT_CONVERSIONS

ASSUME DispatchAssumption ==
    /\ MaxConcurrent \in Nat \ {0}
    /\ IsFiniteSet(Docs)

VARIABLES
    rpc,        \* rpc[d]: the ConvertDocument call that submits d
    tasks,      \* _tasks: documents whose task has not ended
    queued,     \* _queued
    permits,    \* the semaphore's _value
    slot,       \* slot[d]: the task's future in the semaphore's queue, or the slot it holds
    ahead,      \* ahead[d]: the waiters in the queue when d joined it
    phase,      \* how far serve() has come
    drain,      \* drain[d]: shutdown's record_failure for a queued d
    awaited     \* the running tasks that shutdown waits for

dispatchVars == <<rpc, tasks, queued, permits, slot, ahead, phase, drain, awaited>>
vars == <<workerVars, dispatchVars>>

Phases == {"serving", "stop_rpcs", "fail_queued", "grace", "cleanup", "closing",
           "returning", "teardown", "exited"}

(* Handlers of calls still run.                                            *)
Opened == phase \in {"serving", "stop_rpcs"}

Waiting == {d \in Docs : slot[d] = "waiting"}
Slotted == {d \in Docs : slot[d] \in {"granted", "held"}}

DispatchTypeOK ==
    /\ rpc \in [Docs -> {"none", "creating", "ok", "aborted"}]
    /\ tasks \subseteq Docs
    /\ queued \subseteq Docs
    /\ permits \in 0..MaxConcurrent
    /\ slot \in [Docs -> {"none", "waiting", "withdrawn", "granted", "held"}]
    /\ ahead \in [Docs -> SUBSET Docs]
    /\ phase \in Phases
    /\ drain \in [Docs -> {"none", "update", "audit", "over"}]
    /\ awaited \subseteq Docs

TypeOK == WorkerTypeOK /\ DispatchTypeOK

Init ==
    /\ WorkerInit
    /\ rpc = [d \in Docs |-> "none"]
    /\ tasks = {}
    /\ queued = {}
    /\ permits = MaxConcurrent
    /\ slot = [d \in Docs |-> "none"]
    /\ ahead = [d \in Docs |-> {}]
    /\ phase = "serving"
    /\ drain = [d \in Docs |-> "none"]
    /\ awaited = {}

-----------------------------------------------------------------------------
(* asyncio.Semaphore                                                       *)

(* A waiter whose future was cancelled does not count.                     *)
Locked == permits = 0 \/ \E d \in Docs : slot[d] \in {"waiting", "granted"}

(* The waiters woken by k free permits, first come first served.           *)
Grants(waiting, k) ==
    {G \in SUBSET waiting :
        /\ Cardinality(G) = IF Cardinality(waiting) <= k THEN Cardinality(waiting) ELSE k
        /\ \A g \in G : ahead[g] \cap waiting \subseteq G}

(* d leaves the queue or its slot, p permits are free, and up to k waiters *)
(* are woken with one each.                                                *)
Leave(d, s, p, k) ==
    \E G \in Grants(Waiting \ {d}, k) :
        /\ slot' = [x \in Docs |-> IF x = d THEN s ELSE IF x \in G THEN "granted" ELSE slot[x]]
        /\ permits' = p - Cardinality(G)

(* release(): one waiter is woken.                                         *)
Release(d) == Leave(d, "none", permits + 1, 1)

-----------------------------------------------------------------------------
(* ConvertDocument: the record is created, then the task.  In memory both  *)
(* happen in one step of the loop.  server.stop refuses new calls only: a  *)
(* call that was under way at the signal still comes to its handler.       *)
Accept(d) ==
    /\ Opened /\ loop = Free
    /\ rpc[d] = "none"
    /\ rpc' = [rpc EXCEPT ![d] = "creating"]
    /\ loop' = IF Redis THEN Free ELSE d
    /\ UNCHANGED <<pc, cancel, exc, rec, stray, file, events, open, tasks, queued, permits,
                   slot, ahead, phase, drain, awaited>>

Created(d) ==
    /\ rpc[d] = "creating" /\ loop \in {Free, d}
    /\ rec' = [rec EXCEPT ![d] = Record("pending")]
    /\ rpc' = [rpc EXCEPT ![d] = "ok"]
    /\ tasks' = tasks \cup {d}
    /\ queued' = queued \cup {d}
    /\ loop' = Free
    /\ UNCHANGED <<pc, cancel, exc, stray, file, events, open, permits, slot, ahead, phase,
                   drain, awaited>>

(* The client goes away, Redis fails or the stopping server aborts the     *)
(* call: no task is created, whatever became of the record.                *)
CreateLost(d) ==
    /\ rpc[d] = "creating" /\ loop = Free
    /\ \/ UNCHANGED <<rec, stray>>
       \/ rec' = [rec EXCEPT ![d] = Record("pending")] /\ UNCHANGED stray
       \/ Outages /\ stray' = [stray EXCEPT ![d] = @ \cup {Record("pending")}] /\ UNCHANGED rec
    /\ rpc' = [rpc EXCEPT ![d] = "aborted"]
    /\ UNCHANGED <<pc, loop, cancel, exc, file, events, open, tasks, queued, permits,
                   slot, ahead, phase, drain, awaited>>

-----------------------------------------------------------------------------
(* _run_with_semaphore                                                     *)

Enqueue(d) ==
    /\ d \in tasks /\ slot[d] = "none" /\ pc[d] = "idle"
    /\ loop = Free /\ ~cancel[d]
    /\ Locked
    /\ slot' = [slot EXCEPT ![d] = "waiting"]
    /\ ahead' = [ahead EXCEPT ![d] = Waiting]
    /\ UNCHANGED <<workerVars, rpc, tasks, queued, permits, phase, drain, awaited>>

(* Mutants: a task that finds no slot converts all the same; the job stays *)
(* in _queued.                                                             *)
StartAtOnceUnlimited(d) ==
    /\ d \in tasks /\ slot[d] = "none" /\ pc[d] = "idle"
    /\ loop = Free /\ ~cancel[d]
    /\ queued' = queued \ {d}
    /\ Begin(d)
    /\ UNCHANGED <<cancel, exc, rec, stray, file, events, open, rpc, tasks, permits, slot,
                   ahead, phase, drain, awaited>>

StartAtOnceQueued(d) ==
    /\ d \in tasks /\ slot[d] = "none"
    /\ loop = Free /\ ~cancel[d]
    /\ ~Locked
    /\ slot' = [slot EXCEPT ![d] = "held"]
    /\ permits' = permits - 1
    /\ Begin(d)
    /\ UNCHANGED <<cancel, exc, rec, stray, file, events, open, rpc, tasks, queued, ahead,
                   phase, drain, awaited>>

StartAtOnce(d) ==
    /\ d \in tasks /\ slot[d] = "none"
    /\ loop = Free /\ ~cancel[d]
    /\ ~Locked
    /\ slot' = [slot EXCEPT ![d] = "held"]
    /\ permits' = permits - 1
    /\ queued' = queued \ {d}
    /\ Begin(d)
    /\ UNCHANGED <<cancel, exc, rec, stray, file, events, open, rpc, tasks, ahead, phase,
                   drain, awaited>>

(* The task wakes up with its slot, and wakes others while permits last.   *)
SlotTaken(d) ==
    /\ slot[d] = "granted"
    /\ loop = Free /\ ~cancel[d]
    /\ Leave(d, "held", permits, permits)
    /\ queued' = queued \ {d}
    /\ Begin(d)
    /\ UNCHANGED <<cancel, exc, rec, stray, file, events, open, rpc, tasks, ahead, phase,
                   drain, awaited>>

(* Mutant: a slot granted in the meantime is not handed back.              *)
QueuedCancelledKeeps(d) ==
    /\ d \in tasks /\ pc[d] = "idle"
    /\ loop = Free /\ cancel[d]
    /\ cancel' = [cancel EXCEPT ![d] = FALSE]
    /\ tasks' = tasks \ {d}
    /\ slot' = [slot EXCEPT ![d] = "none"]
    /\ UNCHANGED <<pc, loop, exc, rec, stray, file, events, open, rpc, queued, permits, ahead,
                   phase, drain, awaited>>

(* A queued task gets its cancellation: before its first step, or in       *)
(* acquire(), which hands back a slot granted in the meantime.             *)
QueuedCancelled(d) ==
    /\ d \in tasks /\ pc[d] = "idle"
    /\ loop = Free /\ cancel[d]
    /\ cancel' = [cancel EXCEPT ![d] = FALSE]
    /\ tasks' = tasks \ {d}
    /\ \/ slot[d] = "none" /\ UNCHANGED <<slot, permits>>
       \/ slot[d] = "withdrawn" /\ Leave(d, "none", permits, permits)
       \/ slot[d] = "granted" /\ Leave(d, "none", permits + 1, permits + 1)
    /\ UNCHANGED <<pc, loop, exc, rec, stray, file, events, open, rpc, queued, ahead, phase,
                   drain, awaited>>

(* Mutants: the slot is released twice; it is released and nobody woken.   *)
ConvertReleasedTwice(d) ==
    /\ Resume(d)
    /\ \/ /\ pc'[d] = "done"
          /\ Leave(d, "none", permits + 2, 1)
          /\ tasks' = tasks \ {d}
       \/ pc'[d] # "done" /\ UNCHANGED <<slot, permits, tasks>>
    /\ UNCHANGED <<rpc, queued, ahead, phase, drain, awaited>>

ConvertSilently(d) ==
    /\ Resume(d)
    /\ \/ /\ pc'[d] = "done"
          /\ slot' = [slot EXCEPT ![d] = "none"]
          /\ permits' = permits + 1
          /\ tasks' = tasks \ {d}
       \/ pc'[d] # "done" /\ UNCHANGED <<slot, permits, tasks>>
    /\ UNCHANGED <<rpc, queued, ahead, phase, drain, awaited>>

(* run_conversion goes on; when it ends the slot is released.              *)
Convert(d) ==
    /\ Resume(d)
    /\ \/ /\ pc'[d] = "done"
          /\ Release(d)
          /\ tasks' = tasks \ {d}
       \/ pc'[d] # "done" /\ UNCHANGED <<slot, permits, tasks>>
    /\ UNCHANGED <<rpc, queued, ahead, phase, drain, awaited>>

-----------------------------------------------------------------------------
(* serve() after the signal, and EmbeddedDispatch.shutdown                 *)

(* Mutants: nothing is cancelled; everything is.                           *)
CancelNone(T) == cancel
CancelAll(T)  == [d \in Docs |-> cancel[d] \/ d \in tasks]

CancelTasks(T) == [d \in Docs |-> cancel[d] \/ d \in T]

Signal ==
    /\ phase = "serving" /\ loop = Free
    /\ phase' = "stop_rpcs"
    /\ UNCHANGED <<workerVars, rpc, tasks, queued, permits, slot, ahead, drain, awaited>>

(* server.stop returns: every call has ended or was aborted.  The queued   *)
(* jobs are cancelled; the future of a waiting one is cancelled with it.   *)
RpcsStopped ==
    /\ phase = "stop_rpcs" /\ loop = Free
    /\ \A d \in Docs : rpc[d] # "creating"
    /\ phase' = IF tasks = {} THEN "closing" ELSE "fail_queued"
    /\ cancel' = CancelTasks(queued)
    /\ slot' = [d \in Docs |-> IF d \in queued /\ slot[d] = "waiting" THEN "withdrawn" ELSE slot[d]]
    /\ drain' = [d \in Docs |-> IF d \in queued THEN "update" ELSE "none"]
    /\ UNCHANGED <<pc, loop, exc, rec, stray, file, events, open, rpc, tasks, queued, permits,
                   ahead, awaited>>

Draining(d, s) == drain[d] = s /\ loop \in {Free, d}

QueuedUpdated(d) ==
    /\ Draining(d, "update")
    /\ rec' = [rec EXCEPT ![d] = Failed("UNAVAILABLE")]
    /\ drain' = [drain EXCEPT ![d] = "audit"]
    /\ loop' = IF Nats THEN Free ELSE d
    /\ UNCHANGED <<pc, cancel, exc, stray, file, events, open, rpc, tasks, queued, permits,
                   slot, ahead, phase, awaited>>

QueuedAudited(d) ==
    /\ Draining(d, "audit")
    /\ HandOver(d, "failed")
    /\ drain' = [drain EXCEPT ![d] = "over"]
    /\ loop' = Free
    /\ UNCHANGED <<pc, cancel, exc, rec, stray, file, open, rpc, tasks, queued, permits, slot,
                   ahead, phase, awaited>>

(* gather(return_exceptions=True): the failure is only logged.             *)
QueuedLost(d) ==
    /\ Outages /\ loop = Free
    /\ \/ /\ Redis /\ drain[d] = "update"
          /\ stray' \in {stray, [stray EXCEPT ![d] = @ \cup {Failed("UNAVAILABLE")}]}
          /\ UNCHANGED events
       \/ /\ Nats /\ drain[d] = "audit"
          /\ UNCHANGED events \/ HandOver(d, "failed")
          /\ UNCHANGED stray
    /\ drain' = [drain EXCEPT ![d] = "over"]
    /\ UNCHANGED <<pc, loop, cancel, exc, rec, file, open, rpc, tasks, queued, permits, slot,
                   ahead, phase, awaited>>

QueuedFailed ==
    /\ phase = "fail_queued" /\ loop = Free
    /\ \A d \in Docs : drain[d] \in {"none", "over"}
    /\ awaited' = {d \in tasks : drain[d] = "none"}
    /\ phase' = IF awaited' = {} THEN "closing" ELSE "grace"
    /\ UNCHANGED <<workerVars, rpc, tasks, queued, permits, slot, ahead, drain>>

(* All have ended, or SHUTDOWN_GRACE_SECONDS are over.                     *)
GraceOver ==
    /\ phase = "grace" /\ loop = Free
    /\ LET unfinished == awaited \cap tasks IN
        /\ phase' = IF unfinished = {} THEN "closing" ELSE "cleanup"
        /\ cancel' = CancelTasks(unfinished)
        /\ awaited' = unfinished
    /\ UNCHANGED <<pc, loop, exc, rec, stray, file, events, open, rpc, tasks, queued, permits,
                   slot, ahead, drain>>

(* All have ended, or CANCEL_CLEANUP_SECONDS are over.                     *)
CleanupOver ==
    /\ phase = "cleanup" /\ loop = Free
    /\ phase' = "closing"
    /\ UNCHANGED <<workerVars, rpc, tasks, queued, permits, slot, ahead, drain, awaited>>

(* The audit connection is closed; tasks that are left run on meanwhile.   *)
Closed ==
    /\ phase = "closing" /\ loop = Free
    /\ open' = FALSE
    /\ phase' = "returning"
    /\ UNCHANGED <<pc, loop, cancel, exc, rec, stray, file, events, rpc, tasks, queued,
                   permits, slot, ahead, drain, awaited>>

(* serve() returns, and asyncio.run cancels what is left.                  *)
Returned ==
    /\ phase = "returning" /\ loop = Free
    /\ cancel' = CancelTasks(tasks)
    /\ phase' = "teardown"
    /\ UNCHANGED <<pc, loop, exc, rec, stray, file, events, open, rpc, tasks, queued, permits,
                   slot, ahead, drain, awaited>>

(* asyncio.run waits for the tasks and for the threads of the executor.    *)
Exit ==
    /\ phase = "teardown" /\ loop = Free
    /\ tasks = {}
    /\ \A d \in Docs, f \in Files : file[d][f] # "writing"
    /\ phase' = "exited"
    /\ UNCHANGED <<workerVars, rpc, tasks, queued, permits, slot, ahead, drain, awaited>>

Serve ==
    \/ Signal \/ RpcsStopped \/ QueuedFailed \/ GraceOver \/ CleanupOver \/ Closed \/ Returned
    \/ Exit

-----------------------------------------------------------------------------
Request(d) == Accept(d) \/ Created(d) \/ CreateLost(d)
Task(d) == Enqueue(d) \/ StartAtOnce(d) \/ SlotTaken(d) \/ QueuedCancelled(d) \/ Convert(d)
Drain(d) == QueuedUpdated(d) \/ QueuedAudited(d) \/ QueuedLost(d)

Exited == phase = "exited" /\ UNCHANGED vars

Next ==
    \/ \E d \in Docs :
        \/ Request(d) \/ Task(d) \/ Drain(d)
        \/ Outside(d) /\ UNCHANGED dispatchVars
    \/ Serve
    \/ Exited

(* The loop runs every ready coroutine; threads and calls come to an end.  *)
(* Nothing makes a client call or a signal come.                           *)
Fairness ==
    /\ \A d \in Docs :
        /\ WF_vars(Created(d) \/ CreateLost(d))
        /\ WF_vars(Task(d))
        /\ WF_vars(Drain(d))
        /\ \A f \in Files : WF_vars(ThreadEnds(d, f) /\ UNCHANGED dispatchVars)
    /\ WF_vars(phase # "serving" /\ Serve)

Spec == Init /\ [][Next]_vars /\ Fairness

-----------------------------------------------------------------------------
(* The semaphore neither loses a permit nor invents one, whatever is       *)
(* cancelled or released while a grant is on its way, and a conversion     *)
(* runs exactly while its task holds a slot.                               *)
SlotsConserved ==
    /\ permits + Cardinality(Slotted) = MaxConcurrent
    /\ \A d \in Docs : slot[d] = "held" <=> pc[d] \notin {"idle", "done"}

(* No more than MAX_CONCURRENT_CONVERSIONS conversions run at a time.      *)
ConcurrencyBounded ==
    Cardinality({d \in Docs : pc[d] \notin {"idle", "done"}}) <= MaxConcurrent

(* A free permit beside a waiter is always about to be handed on: some     *)
(* task was granted a slot and has not yet woken up to wake the next one.  *)
NoLostWakeup ==
    permits > 0 /\ Waiting # {} => \E d \in Docs : slot[d] = "granted"

(* Membership in _queued means "has not started converting", and a task    *)
(* that was alive and is not a member has started.                         *)
QueuedMeansNotStarted ==
    \A d \in Docs : /\ d \in queued => pc[d] = "idle"
                    /\ d \in tasks \ queued => pc[d] # "idle"

(* A document that shutdown fails because it is queued is never converted  *)
(* afterwards, not even if it was granted its slot at that moment.         *)
RefusedNeverStarts ==
    \A d \in Docs : drain[d] # "none" => pc[d] = "idle"

(* When the process has ended by itself, every document it ever accepted   *)
(* has an outcome, and with the log as sink exactly one matching event.    *)
ShutdownSettles ==
    phase = "exited" /\ ~Redis => \A d \in Docs :
        rpc[d] = "ok" => /\ rec[d].status \in Terminal
                         /\ ~Nats => Outcomes(d) = <<rec[d].status>>

(* README, "Graceful shutdown": a conversion cancelled by the shutdown     *)
(* ends FAILED.  So no document is RUNNING when the process has ended by   *)
(* itself.                                                                 *)
NoneLeftRunning ==
    phase = "exited" => \A d \in Docs : rec[d].status # "running"

(* UNAVAILABLE, the code that tells a client to resubmit, is never         *)
(* recorded while the service serves, and for a conversion that was        *)
(* running it is not recorded before the grace period is over.             *)
UnavailableOnlyAtShutdown ==
    \A d \in Docs : rec[d].code = "UNAVAILABLE" =>
        /\ ~Opened
        /\ drain[d] = "none" => phase \in {"cleanup", "closing", "returning", "teardown", "exited"}

(* A signal ends the process, with any conversion in any state.            *)
ShutdownEnds == phase = "stop_rpcs" ~> phase = "exited"

(* The client's view of the service.                                       *)
Lifecycle == INSTANCE DocumentLifecycle WITH
    Documents <- Docs,
    Capacity  <- MaxConcurrent,
    status    <- [d \in Docs |-> rec[d].status],
    stopping  <- ~Opened

(* With the in-memory store the service implements the promise made to     *)
(* clients, fairness included.                                             *)
ImplementsLifecycle == Lifecycle!Spec
=============================================================================
