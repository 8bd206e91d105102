------------------------------- MODULE DevPki -------------------------------
(***************************************************************************)
(* ensure() of scripts/devpki.py, called by several processes on one       *)
(* output directory: the flock, the sweep of leftovers, the new set built  *)
(* in a temporary directory and swapped in with two renames.  A process    *)
(* may be killed between any two steps; the kernel then drops its lock and *)
(* the files stay as they are.                                             *)
(*                                                                         *)
(* Sets of keys and certificates are numbered in the order they are        *)
(* begun; 0 is no set.                                                     *)
(***************************************************************************)
EXTENDS Naturals, FiniteSets

CONSTANTS
    Callers,        \* the processes
    Nobody,         \* the lock is free
    MaxCrashes,     \* how often a process is killed and started again
    MaxExpiries     \* how often the set in place becomes stale

ASSUME DevPkiAssumption ==
    /\ Nobody \notin Callers /\ IsFiniteSet(Callers)
    /\ MaxCrashes \in Nat /\ MaxExpiries \in Nat

VARIABLES
    pc,         \* pc[p]: what ensure() does next, or how it ended
    lock,       \* the process that holds the flock
    out,        \* the set in the output directory
    side,       \* the temp and aside directories beside it, with their sets
    made,       \* the sets begun so far
    whole,      \* the sets whose files are all written
    expired,    \* the sets that verify() would call stale
    crashes     \* the kills so far

pkiVars == <<pc, lock, out, side, made, whole, expired, crashes>>

Holding  == {"sweep", "generate", "aside", "swap", "tidy"}
Returned == {"valid", "generated", "raised"}

PkiTypeOK ==
    /\ pc \in [Callers -> {"start"} \cup Holding \cup Returned]
    /\ lock \in Callers \cup {Nobody}
    /\ out \in 0..made
    /\ side \subseteq {"tmp", "old"} \X (1..made)
    /\ made \in Nat
    /\ whole \subseteq 1..made
    /\ expired \subseteq whole
    /\ crashes \in 0..MaxCrashes

PkiInit ==
    /\ pc = [p \in Callers |-> "start"]
    /\ lock = Nobody
    /\ out = 0
    /\ side = {}
    /\ made = 0
    /\ whole = {}
    /\ expired = {}
    /\ crashes = 0

-----------------------------------------------------------------------------
(* verify(): no leftovers, and the set is complete and fresh.              *)
Valid == side = {} /\ out \in whole \ expired

At(p, s) == pc[p] = s
Go(p, s) == pc' = [pc EXCEPT ![p] = s]

Return(p, r) == Go(p, r) /\ lock' = Nobody

Lock(p) ==
    /\ At(p, "start") /\ lock = Nobody
    /\ lock' = p
    /\ Go(p, "sweep")
    /\ UNCHANGED <<out, side, made, whole, expired, crashes>>

(* Directories beside the output are nobody's while the lock is held.      *)
Sweep(p) ==
    /\ At(p, "sweep")
    /\ \E dir \in side : side' = side \ {dir}
    /\ UNCHANGED <<pc, lock, out, made, whole, expired, crashes>>

LeftUntouched(p) ==
    /\ At(p, "sweep") /\ side = {}
    /\ Valid
    /\ Return(p, "valid")
    /\ UNCHANGED <<out, side, made, whole, expired, crashes>>

(* Mutants: the set is not verified again under the lock; the files are    *)
(* written in place.                                                       *)
StaleUnchecked(p) ==
    /\ At(p, "sweep") /\ side = {}
    /\ made' = made + 1
    /\ side' = {<<"tmp", made'>>}
    /\ Go(p, "generate")
    /\ UNCHANGED <<lock, out, whole, expired, crashes>>

StaleInPlace(p) ==
    /\ At(p, "sweep") /\ side = {}
    /\ ~Valid
    /\ made' = made + 1
    /\ out' = made'
    /\ Go(p, "generate")
    /\ UNCHANGED <<lock, side, whole, expired, crashes>>

Stale(p) ==
    /\ At(p, "sweep") /\ side = {}
    /\ ~Valid
    /\ made' = made + 1
    /\ side' = {<<"tmp", made'>>}
    /\ Go(p, "generate")
    /\ UNCHANGED <<lock, out, whole, expired, crashes>>

Generate(p) ==
    /\ At(p, "generate")
    /\ whole' = whole \cup {made}
    /\ Go(p, "aside")
    /\ UNCHANGED <<lock, out, side, made, expired, crashes>>

Aside(p) ==
    /\ At(p, "aside")
    /\ side' = IF out # 0 THEN side \cup {<<"old", out>>} ELSE side
    /\ out' = 0
    /\ Go(p, "swap")
    /\ UNCHANGED <<lock, made, whole, expired, crashes>>

Swap(p) ==
    /\ At(p, "swap")
    /\ out' = made
    /\ side' = side \ {<<"tmp", made>>}
    /\ Go(p, "tidy")
    /\ UNCHANGED <<lock, made, whole, expired, crashes>>

(* Mutant: the old set stays beside the new one.                           *)
TidyNothing(p) ==
    /\ At(p, "tidy")
    /\ Return(p, "generated")
    /\ UNCHANGED <<out, side, made, whole, expired, crashes>>

Tidy(p) ==
    /\ At(p, "tidy")
    /\ side' = {}
    /\ Return(p, "generated")
    /\ UNCHANGED <<out, made, whole, expired, crashes>>

(* Mutant: the lock is not dropped when the generation raises.             *)
FailLocked(p) ==
    /\ pc[p] \in Holding
    /\ side' = {dir \in side : dir[1] # "tmp" \/ At(p, "sweep")}
    /\ Go(p, "raised")
    /\ UNCHANGED <<lock, out, made, whole, expired, crashes>>

(* An OSError, from a full disk say: the temp directory is removed.        *)
Fail(p) ==
    /\ pc[p] \in Holding
    /\ side' = {dir \in side : dir[1] # "tmp" \/ At(p, "sweep")}
    /\ Return(p, "raised")
    /\ UNCHANGED <<out, made, whole, expired, crashes>>

(* The process is killed and called again.                                 *)
Killed(p) ==
    /\ pc[p] \in Holding /\ crashes < MaxCrashes
    /\ crashes' = crashes + 1
    /\ Go(p, "start")
    /\ lock' = Nobody
    /\ UNCHANGED <<out, side, made, whole, expired>>

(* Less than min_valid is left, or somebody damaged the files.             *)
Expire ==
    /\ out \in whole \ expired
    /\ Cardinality(expired) < MaxExpiries
    /\ expired' = expired \cup {out}
    /\ UNCHANGED <<pc, lock, out, side, made, whole, crashes>>

-----------------------------------------------------------------------------
Ensure(p) ==
    \/ Lock(p) \/ Sweep(p) \/ LeftUntouched(p) \/ Stale(p) \/ Generate(p) \/ Aside(p)
    \/ Swap(p) \/ Tidy(p) \/ Fail(p)

AllReturned == (\A p \in Callers : pc[p] \in Returned) /\ UNCHANGED pkiVars

PkiNext == (\E p \in Callers : Ensure(p) \/ Killed(p)) \/ Expire \/ AllReturned

PkiSpec == PkiInit /\ [][PkiNext]_pkiVars /\ \A p \in Callers : WF_pkiVars(Ensure(p))

-----------------------------------------------------------------------------
(* "A set is always internally consistent": whoever looks at the output    *)
(* directory never finds a set that is still being written, not even after *)
(* a kill.                                                                 *)
NeverPartial == out # 0 => out \in whole

(* "N racing callers produce one set": another one is begun only because a *)
(* set became stale, a process was killed or a generation failed.          *)
OneSet ==
    made <= 1 + Cardinality(expired) + crashes + Cardinality({p \in Callers : pc[p] = "raised"})

(* ensure() returns normally only with a set that verify() accepts, and    *)
(* nothing left beside it, unless the set becomes stale that moment.       *)
ReturnsValid ==
    [][\A p \in Callers :
        pc[p] # pc'[p] /\ pc'[p] \in {"valid", "generated"} /\ out \notin expired => Valid']_pkiVars

(* A fresh set is left untouched, by kills and repairs of leftovers too.   *)
FreshKept == [][(out \in whole \ expired) => out' = out]_pkiVars

(* Every call returns, even if the holder of the lock is killed.           *)
CallsReturn == \A p \in Callers : <>(pc[p] \in Returned)
=============================================================================
