---------------------------- MODULE DevPkiProofs ----------------------------
(***************************************************************************)
(* ensure() of scripts/devpki.py, for any number of callers, kills and     *)
(* expiries: the output directory never shows an unfinished set, a fresh   *)
(* set is never replaced, a call returns with a valid set only, and racing *)
(* callers make no more sets than stale ones, kills and failures explain.  *)
(***************************************************************************)
EXTENDS DevPki, FiniteSetTheorems, TLAPS

Making == {"generate", "aside", "swap"}
Raised == {p \in Callers : pc[p] = "raised"}
Fresh  == out \in whole \ expired

(* Only the holder of the lock is between Lock and its return.             *)
Locked == \A p \in Callers : pc[p] \in Holding <=> lock = p

(* What the step the holder is at says about the sets.                     *)
Stage(p) ==
    /\ pc[p] \in {"generate", "aside"} => out # made /\ ~Fresh
    /\ pc[p] = "swap" => out = 0
    /\ pc[p] \in {"aside", "swap"} => made \in whole
    /\ pc[p] \in Making => made \in 1..made /\ made \notin expired
    /\ pc[p] = "generate" => made \notin whole
    /\ pc[p] = "tidy" => out \in whole

Stages == \A p \in Callers : Stage(p)

(* A set is being made or a fresh one is in place.                         *)
Supplied == Fresh \/ \E p \in Callers : pc[p] \in Making

(* Every set but the one supplied now is explained.                        *)
Explained ==
    made <= Cardinality(expired) + crashes + Cardinality(Raised) + (IF Supplied THEN 1 ELSE 0)

PkiInv == PkiTypeOK /\ Locked /\ Stages /\ NeverPartial

-----------------------------------------------------------------------------
(* A caller that goes on keeps the lock.                                   *)
LEMMA GoLocked ==
    ASSUME PkiTypeOK, Locked, NEW p \in Callers, pc[p] \in Holding,
           NEW s \in Holding, Go(p, s), lock' = lock
    PROVE  Locked' /\ pc' \in [Callers -> {"start"} \cup Holding \cup Returned]
  BY DEF PkiTypeOK, Locked, Go

(* One that returns, or is killed, leaves the lock to the next.            *)
LEMMA ReturnLocked ==
    ASSUME PkiTypeOK, Locked, NEW p \in Callers, pc[p] \in Holding,
           NEW s \in Returned \cup {"start"}, Go(p, s), lock' = Nobody
    PROVE  Locked' /\ pc' \in [Callers -> {"start"} \cup Holding \cup Returned]
<1>1. s \notin Holding
  BY DEF Returned, Holding
<1>2. \A q \in Callers : pc'[q] = IF q = p THEN s ELSE pc[q]
  BY DEF PkiTypeOK, Go
<1>3. lock = p
  BY DEF Locked
<1>4. Locked'
  BY <1>1, <1>2, <1>3, DevPkiAssumption DEF Locked
<1> QED
  BY <1>4 DEF PkiTypeOK, Go

(* A caller that does not hold the lock constrains nothing.                *)
LEMMA StagesOf ==
    ASSUME Locked', NEW p \in Callers, Stage(p)',
           \A q \in Callers \ {p} : pc'[q] \notin Holding
    PROVE  Stages'
  BY DEF Stages, Stage, Holding, Making

(* A step of the holder moves nobody else, and all others wait.            *)
LEMMA OthersWait ==
    ASSUME PkiTypeOK, Locked, NEW p \in Callers, pc[p] \in Holding,
           NEW s, pc' = [pc EXCEPT ![p] = s]
    PROVE  /\ pc'[p] = s
           /\ \A q \in Callers \ {p} : pc'[q] = pc[q] /\ pc'[q] \notin Holding
  BY DEF PkiTypeOK, Locked

(* Every step of a caller keeps the invariant.                             *)
LEMMA EnsureInv ==
    ASSUME PkiInv, NEW p \in Callers, Ensure(p) \/ Killed(p)
    PROVE  PkiInv'
<1>0. PkiTypeOK /\ Locked /\ Stages /\ NeverPartial /\ Stage(p)
  BY DEF PkiInv, Stages
<1>1. CASE Lock(p)
  <2>1. pc' = [pc EXCEPT ![p] = "sweep"] /\ lock = Nobody /\ lock' = p
    BY <1>1 DEF Lock, Go
  <2>2. PkiTypeOK'
    BY <1>0, <1>1, <2>1 DEF Lock, PkiTypeOK, Holding
  <2>3. \A q \in Callers : pc[q] \notin Holding
    BY <1>0, <2>1, DevPkiAssumption DEF Locked
  <2>4. Locked'
    BY <1>0, <2>1, <2>3 DEF PkiTypeOK, Locked, Holding
  <2>5. pc'[p] = "sweep" /\ \A q \in Callers \ {p} : pc'[q] \notin Holding
    BY <1>0, <2>1, <2>3 DEF PkiTypeOK
  <2>6. Stage(p)'
    BY <2>5 DEF Stage, Making
  <2> QED
    BY <1>0, <1>1, <2>2, <2>4, <2>5, <2>6, StagesOf DEF PkiInv, NeverPartial, Lock
<1>2. CASE Sweep(p)
  <2>1. PICK dir \in side : side' = side \ {dir}
    BY <1>2 DEF Sweep
  <2> QED
    BY <1>0, <1>2, <2>1 DEF Sweep, PkiInv, PkiTypeOK, Locked, Stages, Stage, Fresh, NeverPartial
<1>3. CASE LeftUntouched(p)
  <2>1. pc[p] \in Holding /\ Go(p, "valid") /\ lock' = Nobody
    BY <1>3 DEF LeftUntouched, Return, Go, At, Holding
  <2>2. Locked' /\ pc' \in [Callers -> {"start"} \cup Holding \cup Returned]
    BY <1>0, <2>1, ReturnLocked DEF Holding, Returned
  <2>3. pc'[p] = "valid" /\ \A q \in Callers \ {p} : pc'[q] = pc[q] /\ pc'[q] \notin Holding
    BY <1>0, <2>1, OthersWait DEF Go
  <2>4. PkiTypeOK'
    BY <1>0, <1>3, <2>1, <2>2, DevPkiAssumption DEF LeftUntouched, PkiTypeOK, Holding
  <2>5. Stage(p)'
    BY <1>0, <1>3, <2>1, <2>3 DEF LeftUntouched, At, Stage, Fresh, Making, PkiTypeOK
  <2>6. Stages'
    BY <2>2, <2>3, <2>5, StagesOf
  <2>7. NeverPartial'
    BY <1>0, <1>3 DEF LeftUntouched, At, NeverPartial, Stage, PkiTypeOK
  <2> QED
    BY <2>2, <2>4, <2>6, <2>7 DEF PkiInv
<1>4. CASE Stale(p)
  <2>1. pc[p] \in Holding /\ Go(p, "generate") /\ lock' = lock
    BY <1>4 DEF Stale, Go, At, Holding
  <2>2. Locked' /\ pc' \in [Callers -> {"start"} \cup Holding \cup Returned]
    BY <1>0, <2>1, GoLocked DEF Holding, Returned
  <2>3. pc'[p] = "generate" /\ \A q \in Callers \ {p} : pc'[q] = pc[q] /\ pc'[q] \notin Holding
    BY <1>0, <2>1, OthersWait DEF Go
  <2>4. PkiTypeOK'
    BY <1>0, <1>4, <2>1, <2>2, DevPkiAssumption DEF Stale, PkiTypeOK
  <2>5. Stage(p)'
    BY <1>0, <1>4, <2>1, <2>3 DEF Stale, At, Stage, Fresh, Making, PkiTypeOK, Valid
  <2>6. Stages'
    BY <2>2, <2>3, <2>5, StagesOf
  <2>7. NeverPartial'
    BY <1>0, <1>4 DEF Stale, At, NeverPartial, Stage, PkiTypeOK
  <2> QED
    BY <2>2, <2>4, <2>6, <2>7 DEF PkiInv
<1>5. CASE Generate(p)
  <2>1. pc[p] \in Holding /\ Go(p, "aside") /\ lock' = lock
    BY <1>5 DEF Generate, Go, At, Holding
  <2>2. Locked' /\ pc' \in [Callers -> {"start"} \cup Holding \cup Returned]
    BY <1>0, <2>1, GoLocked DEF Holding, Returned
  <2>3. pc'[p] = "aside" /\ \A q \in Callers \ {p} : pc'[q] = pc[q] /\ pc'[q] \notin Holding
    BY <1>0, <2>1, OthersWait DEF Go
  <2>4. PkiTypeOK'
    BY <1>0, <1>5, <2>1, <2>2, DevPkiAssumption DEF Generate, PkiTypeOK, Stage, Making, At
  <2>5. Stage(p)'
    BY <1>0, <1>5, <2>1, <2>3 DEF Generate, At, Stage, Fresh, Making, PkiTypeOK
  <2>6. Stages'
    BY <2>2, <2>3, <2>5, StagesOf
  <2>7. NeverPartial'
    BY <1>0, <1>5 DEF Generate, At, NeverPartial, Stage, PkiTypeOK
  <2> QED
    BY <2>2, <2>4, <2>6, <2>7 DEF PkiInv
<1>6. CASE Aside(p)
  <2>1. pc[p] \in Holding /\ Go(p, "swap") /\ lock' = lock
    BY <1>6 DEF Aside, Go, At, Holding
  <2>2. Locked' /\ pc' \in [Callers -> {"start"} \cup Holding \cup Returned]
    BY <1>0, <2>1, GoLocked DEF Holding, Returned
  <2>3. pc'[p] = "swap" /\ \A q \in Callers \ {p} : pc'[q] = pc[q] /\ pc'[q] \notin Holding
    BY <1>0, <2>1, OthersWait DEF Go
  <2>4. PkiTypeOK'
    BY <1>0, <1>6, <2>1, <2>2, DevPkiAssumption DEF Aside, PkiTypeOK
  <2>5. Stage(p)'
    BY <1>0, <1>6, <2>1, <2>3 DEF Aside, At, Stage, Fresh, Making, PkiTypeOK
  <2>6. Stages'
    BY <2>2, <2>3, <2>5, StagesOf
  <2>7. NeverPartial'
    BY <1>0, <1>6 DEF Aside, At, NeverPartial, Stage, PkiTypeOK
  <2> QED
    BY <2>2, <2>4, <2>6, <2>7 DEF PkiInv
<1>7. CASE Swap(p)
  <2>1. pc[p] \in Holding /\ Go(p, "tidy") /\ lock' = lock
    BY <1>7 DEF Swap, Go, At, Holding
  <2>2. Locked' /\ pc' \in [Callers -> {"start"} \cup Holding \cup Returned]
    BY <1>0, <2>1, GoLocked DEF Holding, Returned
  <2>3. pc'[p] = "tidy" /\ \A q \in Callers \ {p} : pc'[q] = pc[q] /\ pc'[q] \notin Holding
    BY <1>0, <2>1, OthersWait DEF Go
  <2>4. PkiTypeOK'
    BY <1>0, <1>7, <2>1, <2>2, DevPkiAssumption DEF Swap, PkiTypeOK, Stage, Making, At
  <2>5. Stage(p)'
    BY <1>0, <1>7, <2>1, <2>3 DEF Swap, At, Stage, Fresh, Making, PkiTypeOK
  <2>6. Stages'
    BY <2>2, <2>3, <2>5, StagesOf
  <2>7. NeverPartial'
    BY <1>0, <1>7 DEF Swap, At, NeverPartial, Stage, PkiTypeOK
  <2> QED
    BY <2>2, <2>4, <2>6, <2>7 DEF PkiInv
<1>8. CASE Tidy(p)
  <2>1. pc[p] \in Holding /\ Go(p, "generated") /\ lock' = Nobody
    BY <1>8 DEF Tidy, Return, Go, At, Holding
  <2>2. Locked' /\ pc' \in [Callers -> {"start"} \cup Holding \cup Returned]
    BY <1>0, <2>1, ReturnLocked DEF Holding, Returned
  <2>3. pc'[p] = "generated" /\ \A q \in Callers \ {p} : pc'[q] = pc[q] /\ pc'[q] \notin Holding
    BY <1>0, <2>1, OthersWait DEF Go
  <2>4. PkiTypeOK'
    BY <1>0, <1>8, <2>1, <2>2, DevPkiAssumption DEF Tidy, PkiTypeOK, Holding
  <2>5. Stage(p)'
    BY <1>0, <1>8, <2>1, <2>3 DEF Tidy, At, Stage, Fresh, Making, PkiTypeOK
  <2>6. Stages'
    BY <2>2, <2>3, <2>5, StagesOf
  <2>7. NeverPartial'
    BY <1>0, <1>8 DEF Tidy, At, NeverPartial, Stage, PkiTypeOK
  <2> QED
    BY <2>2, <2>4, <2>6, <2>7 DEF PkiInv
<1>9. CASE Fail(p)
  <2>1. pc[p] \in Holding /\ Go(p, "raised") /\ lock' = Nobody
    BY <1>9 DEF Fail, Return, Go, At, Holding
  <2>2. Locked' /\ pc' \in [Callers -> {"start"} \cup Holding \cup Returned]
    BY <1>0, <2>1, ReturnLocked DEF Holding, Returned
  <2>3. pc'[p] = "raised" /\ \A q \in Callers \ {p} : pc'[q] = pc[q] /\ pc'[q] \notin Holding
    BY <1>0, <2>1, OthersWait DEF Go
  <2>4. PkiTypeOK'
    BY <1>0, <1>9, <2>1, <2>2, DevPkiAssumption DEF Fail, PkiTypeOK, Holding
  <2>5. Stage(p)'
    BY <1>0, <1>9, <2>1, <2>3 DEF Fail, At, Stage, Fresh, Making, PkiTypeOK
  <2>6. Stages'
    BY <2>2, <2>3, <2>5, StagesOf
  <2>7. NeverPartial'
    BY <1>0, <1>9 DEF Fail, At, NeverPartial, Stage, PkiTypeOK
  <2> QED
    BY <2>2, <2>4, <2>6, <2>7 DEF PkiInv
<1>10. CASE Killed(p)
  <2>1. pc[p] \in Holding /\ Go(p, "start") /\ lock' = Nobody
    BY <1>10 DEF Killed, Go, At, Holding
  <2>2. Locked' /\ pc' \in [Callers -> {"start"} \cup Holding \cup Returned]
    BY <1>0, <2>1, ReturnLocked DEF Holding, Returned
  <2>3. pc'[p] = "start" /\ \A q \in Callers \ {p} : pc'[q] = pc[q] /\ pc'[q] \notin Holding
    BY <1>0, <2>1, OthersWait DEF Go
  <2>4. PkiTypeOK'
    BY <1>0, <1>10, <2>1, <2>2, DevPkiAssumption DEF Killed, PkiTypeOK, Holding
  <2>5. Stage(p)'
    BY <1>0, <1>10, <2>1, <2>3 DEF Killed, At, Stage, Fresh, Making, PkiTypeOK
  <2>6. Stages'
    BY <2>2, <2>3, <2>5, StagesOf
  <2>7. NeverPartial'
    BY <1>0, <1>10 DEF Killed, At, NeverPartial, Stage, PkiTypeOK
  <2> QED
    BY <2>2, <2>4, <2>6, <2>7 DEF PkiInv
<1> QED
  BY <1>1, <1>2, <1>3, <1>4, <1>5, <1>6, <1>7, <1>8, <1>9, <1>10 DEF Ensure

(* So does a set that becomes stale.                                       *)
LEMMA ExpireInv ==
    ASSUME PkiInv, Expire
    PROVE  PkiInv'
<1>1. PkiTypeOK'
  BY DEF PkiInv, PkiTypeOK, Expire
<1>2. Stages'
  <2> SUFFICES ASSUME NEW p \in Callers
               PROVE  Stage(p)'
    BY DEF Stages
  <2>1. Stage(p)
    BY DEF PkiInv, Stages
  <2> QED
    BY <2>1 DEF Stage, Fresh, Making, Expire
<1> QED
  BY <1>1, <1>2 DEF PkiInv, Locked, NeverPartial, Expire

(* The invariant holds before the first call.                              *)
LEMMA PkiInitInv == PkiInit => PkiInv
<1> SUFFICES ASSUME PkiInit
             PROVE  PkiInv
  OBVIOUS
<1>1. PkiTypeOK
  BY DevPkiAssumption DEF PkiInit, PkiTypeOK
<1>2. Locked
  BY DevPkiAssumption DEF PkiInit, Locked, Holding
<1>3. Stages
  BY DEF PkiInit, Stages, Stage, Making
<1> QED
  BY <1>1, <1>2, <1>3 DEF PkiInit, PkiInv, NeverPartial

(* Every step of the system keeps it.                                      *)
LEMMA PkiStepInv ==
    ASSUME PkiInv, [PkiNext]_pkiVars
    PROVE  PkiInv'
<1>1. CASE UNCHANGED pkiVars
  BY <1>1 DEF pkiVars, PkiInv, PkiTypeOK, Locked, Stages, Stage, Fresh, NeverPartial
<1> QED
  BY <1>1, EnsureInv, ExpireInv DEF PkiNext, AllReturned

(* The invariant holds whatever the callers, the kills and the expiries.   *)
THEOREM PkiInvariance == PkiSpec => []PkiInv
  BY PkiInitInv, PkiStepInv, PTL DEF PkiSpec

(* The state of the script stays well typed.                               *)
THEOREM PkiTypeCorrect == PkiSpec => []PkiTypeOK
<1>1. PkiInv => PkiTypeOK
  BY DEF PkiInv
<1> QED
  BY <1>1, PkiInvariance, PTL

(* "A set is always internally consistent": nobody finds an unfinished     *)
(* set in the output directory.                                            *)
THEOREM NeverAPartialSet == PkiSpec => []NeverPartial
<1>1. PkiInv => NeverPartial
  BY DEF PkiInv
<1> QED
  BY <1>1, PkiInvariance, PTL

(* A fresh set is never replaced, by no caller in any state.               *)
THEOREM FreshIsKept == PkiSpec => FreshKept
<1>1. PkiInv /\ [PkiNext]_pkiVars => [(out \in whole \ expired) => out' = out]_pkiVars
  <2> SUFFICES ASSUME PkiInv, PkiNext, out \in whole \ expired
               PROVE  out' = out
    OBVIOUS
  <2>1. ASSUME NEW p \in Callers, Ensure(p) \/ Killed(p)
        PROVE  out' = out
    <3>1. Stage(p) /\ out # 0
      BY DEF PkiInv, Stages, PkiTypeOK
    <3>2. ~Aside(p) /\ ~Swap(p)
      BY <3>1 DEF Stage, Fresh, Aside, Swap, At
    <3> QED
      BY <2>1, <3>2 DEF Ensure, Lock, Sweep, LeftUntouched, Stale, Generate, Tidy, Fail, Killed
  <2> QED
    BY <2>1 DEF PkiNext, Expire, AllReturned, pkiVars
<1> QED
  BY <1>1, PkiInvariance, PTL DEF PkiSpec, FreshKept

(* ensure() returns normally with a valid set only.                        *)
THEOREM ReturnsAValidSet == PkiSpec => ReturnsValid
<1> DEFINE Delivers ==
       \A p \in Callers :
           pc[p] # pc'[p] /\ pc'[p] \in {"valid", "generated"} /\ out \notin expired => Valid'
<1>1. PkiInv /\ [PkiNext]_pkiVars => [Delivers]_pkiVars
  <2> SUFFICES ASSUME PkiInv, PkiNext, NEW p \in Callers, pc[p] # pc'[p],
                      pc'[p] \in {"valid", "generated"}, out \notin expired
               PROVE  Valid'
    OBVIOUS
  <2>1. PICK q \in Callers : Ensure(q) \/ Killed(q)
    BY DEF PkiNext, Expire, AllReturned, pkiVars
  <2>2. PkiTypeOK /\ Stage(q)
    BY DEF PkiInv, Stages
  <2>3. \A s : Go(q, s) => p = q /\ pc'[p] = s
    BY <2>2 DEF Go, PkiTypeOK
  <2>4. LeftUntouched(q) \/ Tidy(q)
    BY <2>1, <2>3 DEF Ensure, Lock, Sweep, Stale, Generate, Aside, Swap, Fail, Killed, Return
  <2>5. CASE LeftUntouched(q)
    BY <2>5 DEF LeftUntouched, Valid
  <2>6. CASE Tidy(q)
    BY <2>2, <2>6 DEF Tidy, Stage, At, Valid
  <2> QED
    BY <2>4, <2>5, <2>6
<1> QED
  BY <1>1, PkiInvariance, PTL DEF PkiSpec, ReturnsValid

-----------------------------------------------------------------------------
(* The numbers of failed calls and of stale sets.                          *)
LEMMA Counts ==
    ASSUME PkiTypeOK
    PROVE  /\ IsFiniteSet(Raised) /\ Cardinality(Raised) \in Nat
           /\ IsFiniteSet(expired) /\ Cardinality(expired) \in Nat
<1>1. IsFiniteSet(1..made)
  BY FS_Interval DEF PkiTypeOK
<1>2. IsFiniteSet(expired)
  BY <1>1, FS_Subset DEF PkiTypeOK
<1>3. IsFiniteSet(Raised)
  BY FS_Subset, DevPkiAssumption DEF Raised
<1> QED
  BY <1>2, <1>3, FS_CardinalityType

(* No step but a failure changes who failed.                               *)
LEMMA SameRaised ==
    ASSUME PkiTypeOK, NEW p \in Callers, pc[p] # "raised", NEW s, s # "raised", Go(p, s)
    PROVE  Raised' = Raised
  BY DEF PkiTypeOK, Raised, Go

(* Every step keeps every set explained.                                   *)
LEMMA ExplainedKept ==
    ASSUME PkiInv, PkiInv', Explained, [PkiNext]_pkiVars
    PROVE  Explained'
<1>0. PkiTypeOK /\ PkiTypeOK' /\ Locked /\ Stages /\ Stages'
  BY DEF PkiInv
<1>1. /\ Cardinality(Raised) \in Nat /\ Cardinality(Raised') \in Nat
      /\ Cardinality(expired) \in Nat /\ Cardinality(expired') \in Nat
      /\ IsFiniteSet(Raised) /\ IsFiniteSet(expired)
      /\ made \in Nat /\ crashes \in Nat
  <2>1. Cardinality(Raised') \in Nat /\ Cardinality(expired') \in Nat
    <3>1. IsFiniteSet(1..made') /\ expired' \subseteq 1..made'
      BY <1>0, FS_Interval DEF PkiTypeOK
    <3>2. IsFiniteSet(expired') /\ IsFiniteSet(Raised')
      BY <3>1, FS_Subset, DevPkiAssumption DEF Raised
    <3> QED
      BY <3>2, FS_CardinalityType
  <2> QED
    BY <1>0, <2>1, Counts, DevPkiAssumption DEF PkiTypeOK
<1>2. ASSUME made' = made, crashes' = crashes, expired' = expired, Raised' = Raised,
             Supplied => Supplied'
      PROVE  Explained'
  BY <1>1, <1>2 DEF Explained
<1>3. ASSUME NEW p \in Callers, Ensure(p) \/ Killed(p)
      PROVE  Explained'
  <2>0. Stage(p)
    BY <1>0 DEF Stages
  <2>1. ASSUME NEW s \in Making, Go(p, s)
        PROVE  Supplied'
    BY <1>0, <2>1 DEF Supplied, Go, PkiTypeOK
  <2>2. ASSUME NEW s, pc[p] \notin Making, Go(p, s), UNCHANGED <<out, whole, expired>>
        PROVE  Supplied => Supplied'
    BY <1>0, <2>2 DEF Supplied, Go, PkiTypeOK, Fresh
  <2>3. CASE Lock(p)
    <3>1. Raised' = Raised
      BY <1>0, <2>3, SameRaised DEF Lock, At
    <3> QED
      BY <1>2, <2>2, <2>3, <3>1 DEF Lock, At, Making
  <2>4. CASE Sweep(p)
    BY <1>2, <2>4 DEF Sweep, Raised, Supplied, Fresh
  <2>5. CASE LeftUntouched(p)
    <3>1. Raised' = Raised
      BY <1>0, <2>5, SameRaised DEF LeftUntouched, At, Return
    <3> QED
      BY <1>2, <2>2, <2>5, <3>1 DEF LeftUntouched, At, Return, Making
  <2>6. CASE Stale(p)
    <3>1. Raised' = Raised
      BY <1>0, <2>6, SameRaised DEF Stale, At
    <3>2. Supplied'
      BY <2>1, <2>6 DEF Stale, Making
    <3>3. ~Supplied
      BY <1>0, <2>6 DEF Supplied, Fresh, Stale, Valid, At, Locked, Holding, Making
    <3> QED
      BY <1>1, <2>6, <3>1, <3>2, <3>3 DEF Stale, Explained
  <2>7. CASE Generate(p)
    <3>1. Raised' = Raised
      BY <1>0, <2>7, SameRaised DEF Generate, At
    <3>2. Supplied'
      BY <2>1, <2>7 DEF Generate, Making
    <3> QED
      BY <1>2, <2>7, <3>1, <3>2 DEF Generate
  <2>8. CASE Aside(p)
    <3>1. Raised' = Raised
      BY <1>0, <2>8, SameRaised DEF Aside, At
    <3>2. Supplied'
      BY <2>1, <2>8 DEF Aside, Making
    <3> QED
      BY <1>2, <2>8, <3>1, <3>2 DEF Aside
  <2>9. CASE Swap(p)
    <3>1. Raised' = Raised
      BY <1>0, <2>9, SameRaised DEF Swap, At
    <3>2. Supplied'
      BY <2>0, <2>9 DEF Swap, At, Stage, Making, Supplied, Fresh
    <3> QED
      BY <1>2, <2>9, <3>1, <3>2 DEF Swap
  <2>10. CASE Tidy(p)
    <3>1. Raised' = Raised
      BY <1>0, <2>10, SameRaised DEF Tidy, At, Return
    <3> QED
      BY <1>2, <2>2, <2>10, <3>1 DEF Tidy, At, Return, Making
  <2>11. CASE Fail(p)
    <3>1. Raised' = Raised \cup {p} /\ p \notin Raised
      BY <1>0, <2>11 DEF Fail, Return, Go, Raised, PkiTypeOK, Holding
    <3>2. Cardinality(Raised') = Cardinality(Raised) + 1
      BY <1>1, <3>1, FS_AddElement
    <3> QED
      BY <1>1, <2>11, <3>2 DEF Fail, Explained
  <2>12. CASE Killed(p)
    <3>1. Raised' = Raised
      BY <1>0, <2>12, SameRaised DEF Killed, Holding
    <3> QED
      BY <1>1, <2>12, <3>1 DEF Killed, Explained
  <2> QED
    BY <1>3, <2>3, <2>4, <2>5, <2>6, <2>7, <2>8, <2>9, <2>10, <2>11, <2>12 DEF Ensure
<1>4. CASE Expire
  <2>1. expired' = expired \cup {out} /\ out \notin expired
    BY <1>4 DEF Expire
  <2>2. Cardinality(expired') = Cardinality(expired) + 1
    BY <1>1, <2>1, FS_AddElement
  <2>3. Raised' = Raised
    BY <1>4 DEF Expire, Raised
  <2> QED
    BY <1>1, <1>4, <2>2, <2>3 DEF Expire, Explained
<1>5. CASE UNCHANGED pkiVars
  BY <1>2, <1>5 DEF pkiVars, Raised, Supplied, Fresh
<1> QED
  BY <1>3, <1>4, <1>5 DEF PkiNext, AllReturned

(* "N racing callers produce one set": another one takes a stale set, a    *)
(* kill or a failed call.                                                  *)
THEOREM RacersMakeOneSet == PkiSpec => []OneSet
<1>1. PkiInit => Explained
  <2> SUFFICES ASSUME PkiInit
               PROVE  Explained
    OBVIOUS
  <2>1. PkiTypeOK
    BY PkiInitInv DEF PkiInv
  <2>2. Cardinality(Raised) \in Nat /\ Cardinality(expired) \in Nat
    BY <2>1, Counts
  <2> QED
    BY <2>2 DEF PkiInit, Explained
<1>2. PkiInv /\ PkiInv' /\ Explained /\ [PkiNext]_pkiVars => Explained'
  BY ExplainedKept
<1>3. PkiInv /\ Explained => OneSet
  <2> SUFFICES ASSUME PkiInv, Explained
               PROVE  OneSet
    OBVIOUS
  <2>1. PkiTypeOK
    BY DEF PkiInv
  <2>2. Cardinality(Raised) \in Nat /\ Cardinality(expired) \in Nat
    BY <2>1, Counts
  <2> QED
    BY <2>1, <2>2, DevPkiAssumption DEF Explained, OneSet, Raised, PkiTypeOK
<1> QED
  BY <1>1, <1>2, <1>3, PkiInvariance, PTL DEF PkiSpec
=============================================================================
