----------------------------- MODULE NatsProofs -----------------------------
(***************************************************************************)
(* The service over NATS, for any number of calls and whatever becomes of  *)
(* the connections: what an accepted call can rely on, how many            *)
(* connections there are, and what a shutdown leaves behind.               *)
(***************************************************************************)
EXTENDS NatsDispatch, FiniteSetTheorems, TLAPS

(* The calls that may have published.                                      *)
Reached(d) == call[d] \in {"connecting", "publishing", "ok"}

(* What a call has done when it has come so far; and what the client of    *)
(* NATS keeps belongs to a connection that may still send it.              *)
CallInv ==
    \A d \in Docs :
        /\ Reached(d) => d \in records
        /\ call[d] = "ok" => d \in jobs
        /\ d \in jobs \cup buffered => d \in records
        /\ call[d] = "publishing" => using[d] \in Docs
        /\ d \in buffered => /\ using[d] \in Docs /\ link[using[d]] \in {"up", "down"}
                             /\ call[d] \notin {"none", "creating", "connecting"}

Opened     == {c \in Docs : link[c] # "none"}
Connecting == In("connecting")

(* Before the drain a connection is kept as soon as there is one, and      *)
(* every connection was opened, or is being opened, beside all the others. *)
LinkInv ==
    /\ nc # None => link[nc] # "none"
    /\ phase \in {"serving", "stop_rpcs", "drain"} /\ Opened # {} => nc # None
    /\ Cardinality(Opened \cup Connecting) <= together

(* How far the shutdown has come tells which calls are over, and what      *)
(* became of the connection that was kept.                                 *)
ExitInv ==
    /\ phase \in {"drain", "close", "exited"} =>
           \A d \in Docs : call[d] \notin {"creating", "connecting", "publishing"}
    /\ raised => phase = "exited" /\ nc # None /\ link[nc] \in {"down", "closed"}
    /\ phase \in {"close", "exited"} /\ ~raised /\ Opened # {} =>
           \E c \in Docs : link[c] = "closed"
    /\ phase = "exited" /\ ~raised => ~audit

NatsInv == NatsTypeOK /\ CallInv /\ LinkInv /\ ExitInv

-----------------------------------------------------------------------------
(* Sets of calls are finite.                                               *)
LEMMA CallSets ==
    ASSUME NEW S \in SUBSET Docs
    PROVE  IsFiniteSet(S) /\ Cardinality(S) \in Nat
BY NatsAssumption, FS_Subset, FS_CardinalityType

LEMMA SmallerSet ==
    ASSUME NEW S \in SUBSET Docs, NEW T \in SUBSET S
    PROVE  Cardinality(T) <= Cardinality(S)
BY CallSets, FS_Subset

(* The initial state.                                                      *)
LEMMA NatsInitial == NatsInit => NatsInv
<1> SUFFICES ASSUME NatsInit PROVE NatsInv
  OBVIOUS
<1>1. Opened \cup Connecting = {}
  BY DEF NatsInit, Opened, Connecting, In
<1>2. NatsTypeOK /\ CallInv /\ ExitInv
  BY NatsAssumption DEF NatsInit, NatsTypeOK, CallInv, Reached, ExitInv
<1> QED
  BY <1>1, <1>2, FS_EmptySet DEF NatsInv, LinkInv, NatsInit, Opened

(* The steps of the calls keep the state typed and do in order what is     *)
(* promised.                                                               *)
LEMMA NatsTyped ==
    ASSUME NatsTypeOK, [NatsNext]_natsVars
    PROVE  NatsTypeOK'
<1> USE DEF NatsTypeOK
<1>1. ASSUME NEW d \in Docs, Accept(d) \/ Connected(d) \/ Published(d) \/ Fails(d)
      PROVE  NatsTypeOK'
  BY <1>1 DEF Accept, Connected, Published, Fails, Becomes, Publish
<1>2. ASSUME NEW d \in Docs, Created(d)
      PROVE  NatsTypeOK'
  <2>1. Cardinality(In("connecting")) \in Nat
    BY CallSets DEF In
  <2> QED
    BY <1>2, <2>1 DEF Created, Connect, Open, Becomes, Publish
<1>3. ASSUME NEW d \in Docs, LinkChanges(d) \/ Delivered(d)
      PROVE  NatsTypeOK'
  BY <1>3 DEF LinkChanges, Delivered
<1>4. CASE Signal \/ RpcsStopped \/ Drained \/ Closed \/ UNCHANGED natsVars
  BY <1>4 DEF Signal, RpcsStopped, Drained, Closed, natsVars
<1> QED
  BY <1>1, <1>2, <1>3, <1>4 DEF NatsNext, Exited

LEMMA CallStep ==
    ASSUME NatsInv, [NatsNext]_natsVars
    PROVE  CallInv'
<1> USE DEF NatsInv, NatsTypeOK, CallInv, Reached
<1>1. ASSUME NEW d \in Docs, Accept(d) \/ Connected(d) \/ Published(d)
      PROVE  CallInv'
  BY <1>1 DEF Accept, Connected, Published, Becomes, Publish
<1>2. ASSUME NEW d \in Docs, Created(d)
      PROVE  CallInv'
  BY <1>2 DEF Created, Connect, Open, Becomes, Publish
<1>3. ASSUME NEW d \in Docs, Fails(d)
      PROVE  CallInv'
  BY <1>3 DEF Fails, Becomes
<1>4. ASSUME NEW c \in Docs, LinkChanges(c)
      PROVE  CallInv'
  BY <1>4 DEF LinkChanges
<1>5. ASSUME NEW d \in Docs, Delivered(d)
      PROVE  CallInv'
  BY <1>5 DEF Delivered
<1>6. CASE Drained
  BY <1>6 DEF Drained, ExitInv, LinkInv
<1>7. CASE Signal \/ RpcsStopped \/ Closed \/ UNCHANGED natsVars
  BY <1>7 DEF Signal, RpcsStopped, Closed, natsVars
<1> QED
  BY <1>1, <1>2, <1>3, <1>4, <1>5, <1>6, <1>7 DEF NatsNext, Exited

(* A call opens a connection only while there is none, and counts itself.  *)
LEMMA LinkStep ==
    ASSUME NatsInv, [NatsNext]_natsVars
    PROVE  LinkInv'
<1> USE DEF NatsInv
<1>0. Opened \cup Connecting \in SUBSET Docs
  BY DEF Opened, Connecting, In
<1>a. ASSUME UNCHANGED <<nc, phase, together>>, Opened' = Opened,
             Connecting' \subseteq Connecting, nc # None => link'[nc] # "none"
      PROVE  LinkInv'
  <2>1. Cardinality(Opened' \cup Connecting') <= Cardinality(Opened \cup Connecting)
    BY <1>0, <1>a, SmallerSet
  <2>2. /\ Cardinality(Opened' \cup Connecting') \in Nat
        /\ Cardinality(Opened \cup Connecting) \in Nat
    BY <1>0, <1>a, CallSets
  <2> QED
    BY <1>a, <2>1, <2>2 DEF LinkInv, NatsTypeOK
<1>1. ASSUME NEW d \in Docs, Accept(d) \/ Published(d) \/ Fails(d) \/ Delivered(d)
      PROVE  LinkInv'
  <2>1. UNCHANGED <<nc, phase, together, link>> /\ Connecting' \subseteq Connecting
    BY <1>1 DEF Accept, Published, Fails, Delivered, Becomes, Connecting, In, NatsTypeOK
  <2> QED
    BY <2>1, <1>a DEF Opened, LinkInv
<1>2. ASSUME NEW d \in Docs, Created(d)
      PROVE  LinkInv'
  <2>1. CASE nc # None
    <3>1. UNCHANGED <<nc, phase, together, link>> /\ Connecting' \subseteq Connecting
      BY <1>2, <2>1 DEF Created, Connect, Publish, Becomes, Connecting, In, NatsTypeOK
    <3> QED
      BY <3>1, <1>a DEF Opened, LinkInv
  <2>2. CASE nc = None
    <3>1. phase \in {"serving", "stop_rpcs"} /\ Opened = {}
      BY <1>2, <2>2 DEF Created, LinkInv, ExitInv, NatsTypeOK
    <3>2. /\ UNCHANGED <<nc, phase, link>> /\ Connecting' = Connecting \cup {d}
          /\ d \notin Connecting
      BY <1>2, <2>2 DEF Created, Connect, Open, Becomes, Connecting, In, NatsTypeOK
    <3>3. Cardinality(Connecting) + 1 <= together'
      <4>1. Cardinality(Connecting) \in Nat
        BY CallSets DEF Connecting, In
      <4> QED
        BY <1>2, <2>2, <4>1 DEF Created, Connect, Open, Connecting, NatsTypeOK
    <3>4. Cardinality(Connecting') = Cardinality(Connecting) + 1
      BY <3>2, CallSets, FS_AddElement DEF Connecting, In
    <3>5. Opened' \cup Connecting' = Connecting'
      BY <3>1, <3>2 DEF Opened
    <3> QED
      BY <2>2, <3>1, <3>2, <3>3, <3>4, <3>5 DEF LinkInv, Opened
  <2> QED
    BY <2>1, <2>2
<1>3. ASSUME NEW d \in Docs, Connected(d)
      PROVE  LinkInv'
  <2>1. /\ UNCHANGED <<phase, together>> /\ nc' = d /\ link'[d] = "up"
        /\ Opened' = Opened \cup {d} /\ d \in Connecting
        /\ Connecting' \subseteq Connecting
    BY <1>3 DEF Connected, Publish, Becomes, Opened, Connecting, In, NatsTypeOK
  <2>2. Opened' \cup Connecting' \in SUBSET (Opened \cup Connecting)
    BY <2>1
  <2>3. Cardinality(Opened' \cup Connecting') <= Cardinality(Opened \cup Connecting)
    BY <1>0, <2>2, SmallerSet
  <2>4. /\ Cardinality(Opened' \cup Connecting') \in Nat
        /\ Cardinality(Opened \cup Connecting) \in Nat
    BY <1>0, <2>2, CallSets
  <2>5. nc' # None
    BY <2>1, NatsAssumption
  <2> QED
    BY <2>1, <2>3, <2>4, <2>5 DEF LinkInv, NatsTypeOK
<1>4. ASSUME NEW c \in Docs, LinkChanges(c)
      PROVE  LinkInv'
  <2>1. /\ UNCHANGED <<nc, phase, together, call>>
        /\ \A d \in Docs : link'[d] = "none" <=> link[d] = "none"
    BY <1>4 DEF LinkChanges, NatsTypeOK
  <2>2. Opened' = Opened /\ Connecting' = Connecting
    BY <2>1 DEF Opened, Connecting, In
  <2> QED
    BY <2>1, <2>2, <1>a DEF LinkInv, NatsTypeOK
<1>5. CASE Signal \/ RpcsStopped \/ Closed \/ UNCHANGED natsVars
  <2>1. UNCHANGED <<nc, together, call, link>>
        /\ (phase' \in {"serving", "stop_rpcs", "drain"}
              => phase \in {"serving", "stop_rpcs", "drain"})
    BY <1>5 DEF Signal, RpcsStopped, Closed, natsVars
  <2> QED
    BY <2>1 DEF LinkInv, Opened, Connecting, In
<1>6. CASE Drained
  <2>1. UNCHANGED <<together, call>> /\ phase' \in {"close", "exited"}
    BY <1>6 DEF Drained
  <2>2. nc' = None \/ (nc' = nc /\ link' = link)
    BY <1>6 DEF Drained
  <2>3. ASSUME NEW d \in Docs
        PROVE  link'[d] = "none" <=> link[d] = "none"
    <3>1. d # nc \/ link[d] # "none"
      BY NatsAssumption DEF LinkInv
    <3>2. CASE UNCHANGED link
      BY <3>2
    <3>3. CASE link' = [c \in Docs |-> IF c = nc THEN "closed" ELSE link[c]]
      BY <3>1, <3>3
    <3> QED
      BY <1>6, <3>2, <3>3 DEF Drained
  <2>4. Opened' = Opened /\ Connecting' = Connecting
    BY <2>1, <2>3 DEF Opened, Connecting, In
  <2> QED
    BY <2>1, <2>2, <2>4 DEF LinkInv
<1> QED
  BY <1>1, <1>2, <1>3, <1>4, <1>5, <1>6 DEF NatsNext, Exited

LEMMA ExitStep ==
    ASSUME NatsInv, [NatsNext]_natsVars
    PROVE  ExitInv'
<1> USE DEF NatsInv, NatsTypeOK, ExitInv
<1>1. ASSUME NEW d \in Docs, Accept(d) \/ Connected(d) \/ Published(d) \/ Fails(d) \/ Created(d)
      PROVE  ExitInv'
  BY <1>1 DEF Accept, Connected, Published, Fails, Created, Connect, Open, Becomes, Publish
<1>2. ASSUME NEW c \in Docs, LinkChanges(c)
      PROVE  ExitInv'
  BY <1>2 DEF LinkChanges, Opened
<1>3. ASSUME NEW d \in Docs, Delivered(d)
      PROVE  ExitInv'
  BY <1>3 DEF Delivered, Opened
<1>4. CASE RpcsStopped
  BY <1>4 DEF RpcsStopped, In, Opened
<1>5. CASE Drained
  BY <1>5 DEF Drained, LinkInv, Opened
<1>6. CASE Signal \/ Closed \/ UNCHANGED natsVars
  BY <1>6 DEF Signal, Closed, natsVars, Opened
<1> QED
  BY <1>1, <1>2, <1>3, <1>4, <1>5, <1>6 DEF NatsNext, Exited

LEMMA NatsAlways == NatsSpec => []NatsInv
<1>1. NatsInv /\ [NatsNext]_natsVars => NatsInv'
  BY NatsTyped, CallStep, LinkStep, ExitStep DEF NatsInv
<1> QED
  BY <1>1, NatsInitial, PTL DEF NatsSpec

-----------------------------------------------------------------------------
(* The service over NATS keeps its state well typed.                       *)
THEOREM NatsTypeCorrect == NatsSpec => []NatsTypeOK
<1>1. NatsInv => NatsTypeOK
  BY DEF NatsInv
<1> QED
  BY <1>1, NatsAlways, PTL

(* However many clients call, whatever is aborted, lost or late: an        *)
(* accepted document has its record and its job, and there is no job       *)
(* without a record.                                                       *)
THEOREM AcceptedAreQueued == NatsSpec => []AcceptedIsQueued
<1>1. NatsInv => AcceptedIsQueued
  BY DEF NatsInv, NatsTypeOK, CallInv, Reached, AcceptedIsQueued
<1> QED
  BY <1>1, NatsAlways, PTL

(* There are never more connections than calls were once connecting at the *)
(* same time.                                                              *)
THEOREM ConnectionsAreExplained == NatsSpec => []ConnectionsExplained
<1>1. NatsInv => ConnectionsExplained
  <2> SUFFICES ASSUME NatsInv PROVE ConnectionsExplained
    OBVIOUS
  <2>1. Opened \cup Connecting \in SUBSET Docs
    BY DEF Opened, Connecting, In
  <2>2. Cardinality(Opened) <= Cardinality(Opened \cup Connecting)
    BY <2>1, SmallerSet
  <2>3. Cardinality(Opened) \in Nat /\ Cardinality(Opened \cup Connecting) \in Nat
    BY <2>1, CallSets
  <2> QED
    BY <2>2, <2>3 DEF NatsInv, NatsTypeOK, LinkInv, ConnectionsExplained, Opened
<1> QED
  BY <1>1, NatsAlways, PTL

(* A shutdown leaves open only connections beside the one that was kept,   *)
(* and raises only when that one was lost.                                 *)
THEOREM ExitIsOrderly == NatsSpec => []OrderlyExit
<1>1. NatsInv => OrderlyExit
  <2> SUFFICES ASSUME NatsInv, phase = "exited", ~raised
               PROVE  LET open == {c \in Docs : link[c] \in {"up", "down"}}
                      IN  /\ open # {} => Cardinality(open) < together
                          /\ \A d \in buffered : using[d] \in open
    BY DEF NatsInv, ExitInv, OrderlyExit
  <2> DEFINE open == {c \in Docs : link[c] \in {"up", "down"}}
  <2>1. \A d \in buffered : using[d] \in open
    BY DEF NatsInv, NatsTypeOK, CallInv
  <2>2. ASSUME open # {}
        PROVE  Cardinality(open) < together
    <3>1. PICK c \in Docs : link[c] = "closed"
      BY <2>2 DEF NatsInv, ExitInv, Opened
    <3>2. open \cup {c} \in SUBSET (Opened \cup Connecting) /\ c \notin open
      BY <3>1 DEF Opened
    <3>3. Opened \cup Connecting \in SUBSET Docs
      BY DEF Opened, Connecting, In
    <3>4. Cardinality(open \cup {c}) = Cardinality(open) + 1
      BY <3>2, CallSets, FS_AddElement
    <3>5. Cardinality(open \cup {c}) <= Cardinality(Opened \cup Connecting)
      BY <3>2, <3>3, SmallerSet
    <3>6. Cardinality(open) \in Nat /\ Cardinality(Opened \cup Connecting) \in Nat
      BY <3>3, CallSets
    <3> QED
      BY <3>4, <3>5, <3>6 DEF NatsInv, NatsTypeOK, LinkInv
  <2> QED
    BY <2>1, <2>2
<1> QED
  BY <1>1, NatsAlways, PTL
=============================================================================
