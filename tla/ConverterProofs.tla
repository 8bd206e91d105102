--------------------------- MODULE ConverterProofs ---------------------------
(***************************************************************************)
(* convert_document, for any number of helpers and cancellations: the      *)
(* worker is dead when the call returns and reaped unless the call was     *)
(* cancelled, a verdict is given on a worker that ended by itself and      *)
(* whose stderr nobody holds, and the temporary directory survives only a  *)
(* cancelled copy.                                                         *)
(***************************************************************************)
EXTENDS Converter, TLAPS

Ending == {"sweep", "rmdir", "done"}

(* What the await at hand says about the processes.                        *)
Processing ==
    /\ worker = "none" => helpers = {}
    /\ returncode # "none" => returncode = worker
    /\ pc \in {"idle", "copy"} => worker = "none"
    /\ pc \in {"spawn", "communicate"} => worker # "none"
    /\ pc = "reap" => worker \in Exits
    /\ pc \in Ending => worker # "alive"
    /\ pc \in Ending /\ outcome # "cancelled" => worker = "none" \/ returncode = worker

(* What the outcome says about them.                                       *)
Verdict ==
    /\ pc \in {"idle", "copy", "spawn", "communicate"} => outcome = "none"
    /\ pc = "reap" => outcome \in {"timeout", "cancelled"}
    /\ VerdictIsFinal

Leftover == outcome = "cancelled" /\ worker = "none" /\ temp = {"input"}

(* The copy has ended unless the call is at it or was cancelled at it, and *)
(* then only the copy can put a file into the directory.                   *)
Copying ==
    /\ pc = "idle" => thread = "none" /\ ~exists
    /\ pc \in {"spawn", "communicate", "reap"} => thread \in {"copied", "failed"}
    /\ pc \in Ending /\ thread \in {"queued", "started", "copying"} =>
           outcome = "cancelled" /\ worker = "none"
    /\ pc = "rmdir" => Leftover \/ temp = {}
    /\ pc = "done" /\ exists => Leftover

CInv == ConverterTypeOK /\ Processing /\ Verdict /\ Copying

-----------------------------------------------------------------------------
(* A verdict is only taken from a worker that ended by itself.             *)
LEMMA VerdictCodes ==
    ASSUME NEW c \in Exits, NEW v \in Verdicts(c)
    PROVE  /\ v \in {"result", "limit", "invalid", "error"}
           /\ v # "error" => c \in {"ok", "limit"}
  BY DEF Exits, Verdicts

(* The invariant holds of a call that has not begun.                       *)
LEMMA ConverterInitInv == ConverterInit => CInv
<1> SUFFICES ASSUME ConverterInit
             PROVE  CInv
  OBVIOUS
<1>1. ConverterTypeOK
  <2>1. 0 \in 0..MaxCancels
    BY ConverterAssumption
  <2> QED
    BY <2>1 DEF ConverterInit, ConverterTypeOK, Waits, Exits, Outcomes
<1>2. Processing /\ Verdict /\ Copying
  BY DEF ConverterInit, Processing, Verdict, Copying, VerdictIsFinal, Ending
<1> QED
  BY <1>1, <1>2 DEF CInv

(* Every step of convert_document keeps the invariant.                     *)
LEMMA CoroutineInv ==
    ASSUME CInv, Begin \/ Coroutine
    PROVE  CInv'
<1> USE DEF CInv, ConverterTypeOK, Processing, Verdict, Copying, Leftover, VerdictIsFinal,
            Ending, Waits, Exits, Outcomes
<1>1. CASE Begin
  <2>1. CASE pc' = "copy"
    BY <1>1, <2>1 DEF Begin
  <2>2. CASE pc' = "done"
    <3>1. /\ pc = "idle" /\ outcome' = "error"
          /\ UNCHANGED <<cancel, cancels, thread, exists, temp, worker, returncode, helpers,
                         holders>>
      BY <1>1, <2>2 DEF Begin
    <3> QED
      BY <2>2, <3>1
  <2> QED
    BY <1>1, <2>1, <2>2 DEF Begin
<1>2. CASE Copied
  BY <1>2 DEF Copied, At, Create, Finish
<1>3. CASE CopyFailed
  BY <1>3 DEF CopyFailed, At, Finish
<1>4. CASE Spawned
  BY <1>4 DEF Spawned, At
<1>5. CASE Communicated
  BY <1>5, VerdictCodes DEF Communicated, At, Finish
<1>6. CASE TimedOut
  BY <1>6 DEF TimedOut, At, Interrupted, Finish, _kill_process_group, Killed
<1>7. CASE Reaped
  BY <1>7 DEF Reaped, At, Finish
<1>8. CASE CancelDelivered
  BY <1>8 DEF CancelDelivered, Interrupted, Finish, _kill_process_group, Killed
<1>9. CASE Swept
  BY <1>9 DEF Swept
<1>10. CASE Removed
  BY <1>10 DEF Removed
<1> QED
  BY <1>1, <1>2, <1>3, <1>4, <1>5, <1>6, <1>7, <1>8, <1>9, <1>10 DEF Coroutine

(* So do the thread, the processes and the one who cancels.                *)
LEMMA OutsideInv ==
    ASSUME CInv, Copy \/ Processes \/ ChildReaped \/ Cancel
    PROVE  CInv'
<1> USE DEF CInv, ConverterTypeOK, Processing, Verdict, Copying, Leftover, VerdictIsFinal,
            Ending, Waits, Exits, Outcomes
<1>1. CASE CopyStarts
  BY <1>1 DEF CopyStarts
<1>2. CASE CopyOpens
  BY <1>2 DEF CopyOpens, Create
<1>3. CASE CopyEnds
  BY <1>3 DEF CopyEnds
<1>4. CASE WorkerWrites
  BY <1>4 DEF WorkerWrites, Create
<1>5. CASE WorkerExits
  BY <1>5 DEF WorkerExits
<1>6. CASE \E h \in Helpers : HelperStarts(h) \/ HelperRedirects(h) \/ HelperEnds(h)
  <2>1. PICK h \in Helpers : HelperStarts(h) \/ HelperRedirects(h) \/ HelperEnds(h)
    BY <1>6
  <2>2. CASE HelperStarts(h)
    BY <2>2 DEF HelperStarts
  <2>3. CASE HelperEnds(h)
    BY <2>3 DEF HelperEnds
  <2>4. CASE HelperRedirects(h)
    BY <2>4 DEF HelperRedirects
  <2> QED
    BY <2>1, <2>2, <2>3, <2>4
<1>7. CASE ChildReaped
  BY <1>7 DEF ChildReaped
<1>8. CASE Cancel
  <2>1. cancels' \in 0..MaxCancels /\ cancel' \in BOOLEAN
    BY <1>8, ConverterAssumption DEF Cancel
  <2> QED
    BY <1>8, <2>1 DEF Cancel
<1> QED
  BY <1>1, <1>2, <1>3, <1>4, <1>5, <1>6, <1>7, <1>8 DEF Copy, Processes

(* The invariant holds of every call of convert_document.                  *)
THEOREM ConverterInvariance == ConverterSpec => []CInv
<1>1. CInv /\ [ConverterNext]_converterVars => CInv'
  <2> SUFFICES ASSUME CInv, [ConverterNext]_converterVars
               PROVE  CInv'
    OBVIOUS
  <2>1. CASE UNCHANGED converterVars
    BY <2>1 DEF converterVars, CInv, ConverterTypeOK, Processing, Verdict, Copying, Leftover,
       VerdictIsFinal
  <2>2. CASE Begin \/ Coroutine
    BY <2>2, CoroutineInv
  <2>3. CASE Copy \/ Processes \/ ChildReaped \/ Cancel
    BY <2>3, OutsideInv
  <2> QED
    BY <2>1, <2>2, <2>3 DEF ConverterNext, Finished
<1> QED
  BY ConverterInitInv, <1>1, PTL DEF ConverterSpec

(* The state of a call stays well typed.                                   *)
THEOREM ConverterTypeCorrect == ConverterSpec => []ConverterTypeOK
<1>1. CInv => ConverterTypeOK
  BY DEF CInv, Processing, Verdict, Copying, Leftover, Ending, Outcomes,
     ConverterTypeOK
<1> QED
  BY <1>1, ConverterInvariance, PTL

(* "Never leave the worker running": not after a timeout, an error or any  *)
(* number of cancellations.                                                *)
THEOREM WorkerIsNotLeftRunning == ConverterSpec => []WorkerNotLeftRunning
<1>1. CInv => WorkerNotLeftRunning
  BY DEF CInv, Processing, Verdict, Copying, Leftover, Ending, Outcomes,
     ConverterTypeOK, WorkerNotLeftRunning
<1> QED
  BY <1>1, ConverterInvariance, PTL

(* A worker is left a zombie only by a cancelled call.                     *)
THEOREM WorkerIsReaped == ConverterSpec => []WorkerReaped
<1>1. CInv => WorkerReaped
  BY DEF CInv, Processing, Verdict, Copying, Leftover, Ending, Outcomes,
     ConverterTypeOK, WorkerReaped
<1> QED
  BY <1>1, ConverterInvariance, PTL

(* A verdict is given when the worker ended by itself and nobody holds its *)
(* stderr.                                                                 *)
THEOREM VerdictsAreFinal == ConverterSpec => []VerdictIsFinal
<1>1. CInv => VerdictIsFinal
  BY DEF CInv, Processing, Verdict, Copying, Leftover, Ending, Outcomes,
     ConverterTypeOK, VerdictIsFinal
<1> QED
  BY <1>1, ConverterInvariance, PTL

(* Only a cancelled copy can keep the temporary directory.                 *)
THEOREM LeftoversAreCopies == ConverterSpec => []LeftoverOnlyFromCopy
<1>1. CInv => LeftoverOnlyFromCopy
  BY DEF CInv, Processing, Verdict, Copying, Leftover, Ending, Outcomes,
     ConverterTypeOK, LeftoverOnlyFromCopy
<1> QED
  BY <1>1, ConverterInvariance, PTL
=============================================================================
