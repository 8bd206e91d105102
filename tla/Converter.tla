----------------------------- MODULE Converter -----------------------------
(***************************************************************************)
(* One call of convert_document (converter.py): the temporary directory,   *)
(* the thread that copies the input into it, and the Docling worker, a     *)
(* process that leads a group of its own and may start helpers.            *)
(*                                                                         *)
(* The coroutine runs on the event loop; the thread and the processes run  *)
(* beside it at any time.  The steps of the coroutine are the returns of   *)
(* its awaits.  The removal of the directory is split in two because the   *)
(* thread and the processes can act in between.                            *)
(***************************************************************************)
EXTENDS Naturals

CONSTANTS
    Helpers,        \* processes the worker may start, in its group
    MaxCancels      \* how often the task is cancelled at most

ASSUME ConverterAssumption == MaxCancels \in Nat

VARIABLES
    pc,         \* the await convert_document is at, or the step of its clean-up
    cancel,     \* a cancellation was requested and not delivered
    cancels,    \* the cancellations requested so far
    outcome,    \* what the call will return or raise
    thread,     \* the thread of shutil.copy2
    exists,     \* the temporary directory exists
    temp,       \* the files in it
    worker,     \* the leader of the process group: alive, or how it ended
    returncode, \* proc.returncode, "none" until the worker is reaped
    helpers,    \* the helpers that are alive
    holders     \* the helpers that hold the worker's stderr

converterVars == <<pc, cancel, cancels, outcome, thread, exists, temp, worker, returncode,
                   helpers, holders>>

Waits    == {"copy", "spawn", "communicate", "reap"}
Exits    == {"ok", "limit", "failed", "killed"}
Outcomes == {"result", "limit", "error", "invalid", "timeout", "cancelled"}

ConverterTypeOK ==
    /\ pc \in Waits \cup {"idle", "sweep", "rmdir", "done"}
    /\ cancel \in BOOLEAN
    /\ cancels \in 0..MaxCancels
    /\ outcome \in Outcomes \cup {"none"}
    /\ thread \in {"none", "queued", "started", "copying", "copied", "failed"}
    /\ exists \in BOOLEAN
    /\ temp \subseteq {"input", "worker.py", "output.json"}
    /\ worker \in Exits \cup {"none", "alive"}
    /\ returncode \in Exits \cup {"none"}
    /\ helpers \subseteq Helpers
    /\ holders \subseteq helpers

ConverterInit ==
    /\ pc = "idle"
    /\ cancel = FALSE
    /\ cancels = 0
    /\ outcome = "none"
    /\ thread = "none"
    /\ exists = FALSE
    /\ temp = {}
    /\ worker = "none"
    /\ returncode = "none"
    /\ helpers = {} /\ holders = {}

-----------------------------------------------------------------------------
(* Creating a file in the directory; without the directory it fails.       *)
Create(f) == temp' = IF exists THEN temp \cup {f} ELSE temp

Finish(o) == pc' = "sweep" /\ outcome' = o

At(p) == pc = p /\ ~cancel

(* mkdtemp, and shutil.copy2 handed to a thread.  Without a directory the  *)
(* call ends at once.                                                      *)
Begin ==
    /\ pc = "idle"
    /\ \/ /\ pc' = "copy"
          /\ exists' = TRUE
          /\ thread' = "queued"
          /\ UNCHANGED outcome
       \/ /\ pc' = "done" /\ outcome' = "error"
          /\ UNCHANGED <<exists, thread>>
    /\ UNCHANGED <<cancel, cancels, temp, worker, returncode, helpers, holders>>

(* The script is written and the worker started; both may fail.            *)
Copied ==
    /\ At("copy") /\ thread = "copied"
    /\ Create("worker.py")
    /\ \/ pc' = "spawn" /\ worker' = "alive" /\ UNCHANGED outcome
       \/ Finish("error") /\ UNCHANGED worker
    /\ UNCHANGED <<cancel, cancels, thread, exists, returncode, helpers, holders>>

CopyFailed ==
    /\ At("copy") /\ thread = "failed"
    /\ Finish("error")
    /\ UNCHANGED <<cancel, cancels, thread, exists, temp, worker, returncode, helpers, holders>>

(* create_subprocess_exec returns once the pipe of stderr is connected.    *)
Spawned ==
    /\ At("spawn")
    /\ pc' = "communicate"
    /\ UNCHANGED <<cancel, cancels, outcome, thread, exists, temp, worker, returncode,
                   helpers, holders>>

(* What the exit code and the output file make of the conversion.          *)
Verdicts(code) ==
    CASE code = "limit" -> {"limit"}
      [] code = "ok" /\ "output.json" \in temp -> {"result", "limit", "invalid"}
      [] OTHER -> {"error"}

(* communicate() returns when the worker was reaped and nobody holds its   *)
(* stderr any more.                                                        *)
Communicated ==
    /\ At("communicate")
    /\ returncode # "none" /\ holders = {}
    /\ \E v \in Verdicts(returncode) : Finish(v)
    /\ UNCHANGED <<cancel, cancels, thread, exists, temp, worker, returncode, helpers, holders>>

(* Mutant: the group is not killed.                                        *)
KillNobody == UNCHANGED <<worker, helpers, holders>>

Killed == worker' = IF worker = "alive" THEN "killed" ELSE worker

_kill_process_group == Killed /\ helpers' = {} /\ holders' = {}

(* Mutant: a killed worker is not waited for.                              *)
InterruptedUnreaped(o) ==
    /\ IF returncode = "none" THEN _kill_process_group ELSE UNCHANGED <<worker, helpers,
                                                                        holders>>
    /\ Finish(o)

(* Mutant: the directory is removed while the worker still runs.           *)
InterruptedUnkilled(o) == Finish(o) /\ UNCHANGED <<worker, helpers, holders>>

(* communicate() raises.  A worker that was not reaped yet is killed with  *)
(* its group and waited for.                                               *)
Interrupted(o) ==
    \/ /\ returncode = "none"
       /\ _kill_process_group
       /\ pc' = "reap" /\ outcome' = o
    \/ /\ returncode # "none"
       /\ Finish(o)
       /\ UNCHANGED <<worker, helpers, holders>>

(* MAX_PROCESSING_TIME is over.                                            *)
TimedOut ==
    /\ At("communicate")
    /\ Interrupted("timeout")
    /\ UNCHANGED <<cancel, cancels, thread, exists, temp, returncode>>

Reaped ==
    /\ At("reap") /\ returncode # "none"
    /\ Finish(outcome)
    /\ UNCHANGED <<cancel, cancels, thread, exists, temp, worker, returncode, helpers, holders>>

(* A cancellation reaches the await.  A copy that has not begun is dropped,*)
(* one that has goes on.  During the start of the process asyncio kills    *)
(* the worker itself, without its group, and waits for it.                 *)
CancelDelivered ==
    /\ cancel
    /\ cancel' = FALSE
    /\ \/ /\ pc = "copy"
          /\ Finish("cancelled")
          /\ thread' = IF thread = "queued" THEN "none" ELSE thread
          /\ UNCHANGED <<worker, helpers, holders>>
       \/ /\ pc = "spawn"
          /\ IF returncode = "none" THEN Killed ELSE UNCHANGED worker
          /\ pc' = "reap" /\ outcome' = "cancelled"
          /\ UNCHANGED <<thread, helpers, holders>>
       \/ /\ pc = "communicate"
          /\ Interrupted("cancelled")
          /\ UNCHANGED thread
       \/ /\ pc = "reap"
          /\ Finish("cancelled")
          /\ UNCHANGED <<thread, worker, helpers, holders>>
    /\ UNCHANGED <<cancels, exists, temp, returncode>>

(* rmtree: the files it finds, then the directory, errors ignored.         *)
Swept ==
    /\ pc = "sweep"
    /\ pc' = "rmdir"
    /\ temp' = {}
    /\ UNCHANGED <<cancel, cancels, outcome, thread, exists, worker, returncode, helpers,
                   holders>>

Removed ==
    /\ pc = "rmdir"
    /\ pc' = "done"
    /\ exists' = (temp # {})
    /\ UNCHANGED <<cancel, cancels, outcome, thread, temp, worker, returncode, helpers,
                   holders>>

-----------------------------------------------------------------------------
(* The thread of shutil.copy2: it is taken from the pool, creates its      *)
(* target and fills it.                                                    *)
CopyStarts ==
    /\ thread = "queued"
    /\ thread' = "started"
    /\ UNCHANGED <<pc, cancel, cancels, outcome, exists, temp, worker, returncode, helpers,
                   holders>>

CopyOpens ==
    /\ thread = "started"
    /\ Create("input")
    /\ thread' \in IF exists THEN {"copying", "failed"} ELSE {"failed"}
    /\ UNCHANGED <<pc, cancel, cancels, outcome, exists, worker, returncode, helpers, holders>>

CopyEnds ==
    /\ thread = "copying"
    /\ thread' \in {"copied", "failed"}
    /\ UNCHANGED <<pc, cancel, cancels, outcome, exists, temp, worker, returncode, helpers,
                   holders>>

(* The worker writes its output, ends, and is reaped by the loop.          *)
WorkerWrites ==
    /\ worker = "alive"
    /\ Create("output.json")
    /\ UNCHANGED <<pc, cancel, cancels, outcome, thread, exists, worker, returncode, helpers,
                   holders>>

WorkerExits ==
    /\ worker = "alive"
    /\ worker' \in {"ok", "limit", "failed"}
    /\ UNCHANGED <<pc, cancel, cancels, outcome, thread, exists, temp, returncode, helpers,
                   holders>>

ChildReaped ==
    /\ worker \in Exits /\ returncode = "none"
    /\ pc \notin {"sweep", "rmdir"}
    /\ returncode' = worker
    /\ UNCHANGED <<pc, cancel, cancels, outcome, thread, exists, temp, worker, helpers,
                   holders>>

(* A helper inherits stderr, and may let go of it before it ends.          *)
HelperStarts(h) ==
    /\ worker = "alive" /\ h \notin helpers
    /\ helpers' = helpers \cup {h}
    /\ holders' = holders \cup {h}
    /\ UNCHANGED <<pc, cancel, cancels, outcome, thread, exists, temp, worker, returncode>>

HelperRedirects(h) ==
    /\ h \in holders
    /\ holders' = holders \ {h}
    /\ UNCHANGED <<pc, cancel, cancels, outcome, thread, exists, temp, worker, returncode,
                   helpers>>

HelperEnds(h) ==
    /\ h \in helpers
    /\ helpers' = helpers \ {h}
    /\ holders' = holders \ {h}
    /\ UNCHANGED <<pc, cancel, cancels, outcome, thread, exists, temp, worker, returncode>>

(* The task is cancelled, by the end of the grace period or by asyncio.run.*)
Cancel ==
    /\ pc \in Waits /\ ~cancel
    /\ cancels < MaxCancels
    /\ cancel' = TRUE
    /\ cancels' = cancels + 1
    /\ UNCHANGED <<pc, outcome, thread, exists, temp, worker, returncode, helpers, holders>>

-----------------------------------------------------------------------------
Coroutine ==
    \/ Copied \/ CopyFailed \/ Spawned \/ Communicated \/ TimedOut \/ Reaped
    \/ CancelDelivered \/ Swept \/ Removed

Copy == CopyStarts \/ CopyOpens \/ CopyEnds

Processes ==
    \/ WorkerWrites \/ WorkerExits
    \/ \E h \in Helpers : HelperStarts(h) \/ HelperRedirects(h) \/ HelperEnds(h)

Finished == pc = "done" /\ UNCHANGED converterVars

ConverterNext == Begin \/ Coroutine \/ Copy \/ Processes \/ ChildReaped \/ Cancel \/ Finished

(* The timer fires, the loop reaps dead children and a copy ends; nothing  *)
(* makes a worker or a helper end by itself.                               *)
ConverterFairness ==
    /\ WF_converterVars(Coroutine)
    /\ WF_converterVars(Copy)
    /\ WF_converterVars(ChildReaped)

ConverterSpec == ConverterInit /\ [][ConverterNext]_converterVars /\ ConverterFairness

-----------------------------------------------------------------------------
(* "Never leave the worker running": whatever ends the call, and however   *)
(* often it is cancelled, the worker is dead when it returns.              *)
WorkerNotLeftRunning == pc = "done" => worker # "alive"

(* Nor is the worker left a zombie, after a timeout neither, unless a      *)
(* cancellation cuts the wait for the killed one short.                    *)
WorkerReaped ==
    pc = "done" /\ outcome # "cancelled" => worker = "none" \/ returncode = worker

(* A verdict on the output is given when the worker can no longer change   *)
(* it, having ended by itself, and nobody adds to its stderr.              *)
VerdictIsFinal ==
    outcome \in {"result", "limit", "invalid"} =>
        holders = {} /\ worker \in {"ok", "limit"}

(* The directory outlives the call only if the call was cancelled while    *)
(* the thread was copying: then the copy may appear during the removal.    *)
LeftoverOnlyFromCopy ==
    pc = "done" /\ exists =>
        outcome = "cancelled" /\ worker = "none" /\ temp = {"input"}

(* A call comes to an end even if the worker or a helper never does.       *)
ConversionEnds == pc # "idle" ~> pc = "done"

(* Docstring of convert_document: on timeout or cancellation the whole     *)
(* process group is killed before the coroutine exits.                     *)
GroupKilled ==
    pc = "done" /\ outcome \in {"timeout", "cancelled"} => worker # "alive" /\ helpers = {}
=============================================================================
