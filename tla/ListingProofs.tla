--------------------------- MODULE ListingProofs ---------------------------
(***************************************************************************)
(* What a client that pages through ListDocuments is shown, for any        *)
(* documents, any page sizes and any repetitions of a SCAN.                *)
(***************************************************************************)
EXTENDS Listing, FiniteSetTheorems, SequenceTheorems, WellFoundedInduction, TLAPS

(* The index at which document d ends in the sorted list of S, with those  *)
(* of T twice.                                                             *)
Ends(S, T, d) == Cardinality({x \in S : x <= d}) + Cardinality({x \in T : x <= d})

(* The length of that list.                                                *)
Found(S, T) == Cardinality(S) + Cardinality(T)

(* Between two pages the client has what precedes the offset; at the end   *)
(* it has been given as much as the last call found.                       *)
Between ==
    walk = "paging" =>
        /\ Len(listed) = Offset(token)
        /\ Offset(token) < Found(store, twice)
        /\ \A d \in old : d \in Range(listed) \/ Offset(token) < Ends(store, twice, d)

Ended ==
    walk = "end" =>
        /\ Len(listed) <= Found(store, twice)
        /\ old \subseteq Range(listed)

(* As long as nothing is created or repeated it is given the sorted list.  *)
Quiet ==
    twice = {} /\ store = old =>
        /\ \A i \in DOMAIN listed : listed[i] = Records({})[i]
        /\ walk = "end" => Len(listed) = Cardinality(store)

ListingInv ==
    /\ ListingTypeOK
    /\ walk = "start" => token = <<>> /\ listed = <<>> /\ old = {} /\ twice = {} /\ ~dropped
    /\ ~dropped => Between /\ Ended /\ Quiet

-----------------------------------------------------------------------------
(* The least of a set of numbers, and the largest of a finite one.         *)
LEMMA LeastOf ==
    ASSUME NEW U \in SUBSET Nat, U # {}
    PROVE  \E x \in U : \A y \in U : x <= y
<1>1. PICK x \in U : \A y \in U : ~ (<<y, x>> \in OpToRel(<, Nat))
  BY NatLessThanWellFounded, WFMin
<1>2. \A y \in U : ~ (y < x)
  BY <1>1 DEF OpToRel
<1>3. x \in U /\ U \subseteq Nat
  OBVIOUS
<1> QED
  BY ONLY <1>2, <1>3

LEMMA UpTo ==
    ASSUME NEW U \in SUBSET Nat, NEW x \in Nat, NEW y \in Nat, x <= y
    PROVE  {z \in U : z <= x} \subseteq {z \in U : z <= y}
<1>1. \A z \in U : z <= x => z <= y
  OBVIOUS
<1> QED
  BY ONLY <1>1

LEMMA LargestOf ==
    ASSUME NEW U \in SUBSET Nat, IsFiniteSet(U), U # {}
    PROVE  \E x \in U : \A y \in U : y <= x
<1> DEFINE Below(x) == {y \in U : y <= x}
           Sizes    == {n \in Nat : \E x \in U : n = Cardinality(U) - Cardinality(Below(x))}
<1>1. ASSUME NEW x \in U
      PROVE  IsFiniteSet(Below(x)) /\ Cardinality(Below(x)) \in 0..Cardinality(U)
  BY FS_Subset, FS_CardinalityType
<1>2. Cardinality(U) \in Nat
  BY FS_CardinalityType
<1>3. PICK x \in U : \A y \in U : Cardinality(Below(y)) <= Cardinality(Below(x))
  <2> HIDE DEF Below
  <2>1. Sizes \in SUBSET Nat /\ Sizes # {}
    <3>1. PICK y \in U : TRUE
      OBVIOUS
    <3>2. Cardinality(U) - Cardinality(Below(y)) \in Nat
      BY <1>1, <1>2
    <3> QED
      BY <3>2
  <2>2. PICK n \in Sizes : \A m \in Sizes : n <= m
    BY <2>1, LeastOf
  <2>3. PICK x \in U : n = Cardinality(U) - Cardinality(Below(x))
    BY <2>2
  <2>4. ASSUME NEW y \in U
        PROVE  Cardinality(Below(y)) <= Cardinality(Below(x))
    <3>1. Cardinality(U) - Cardinality(Below(y)) \in Sizes
      BY <1>1, <1>2
    <3> QED
      BY <1>1, <1>2, <2>2, <2>3, <3>1
  <2> QED
    BY <2>4
<1>4. ASSUME NEW y \in U, ~ (y <= x)
      PROVE  FALSE
  <2>1. x \in Nat /\ y \in Nat /\ \A z \in U : z \in Nat
    OBVIOUS
  <2>2. Below(x) \in SUBSET Below(y)
    BY <1>4, <2>1, UpTo
  <2>4. y \in Below(y) /\ y \notin Below(x)
    BY <1>4, <2>1
  <2>3. Cardinality(Below(x)) <= Cardinality(Below(y)) /\ Cardinality(Below(x)) # Cardinality(Below(y))
    BY <1>1, <2>2, <2>4, FS_Subset
  <2> QED
    BY <1>1, <1>2, <1>3, <2>3
<1> QED
  BY <1>4

-----------------------------------------------------------------------------
(* The keys of a call: finitely many, and those given twice among them.    *)
Call(S, T) == S \in SUBSET Nat /\ IsFiniteSet(S) /\ T \in SUBSET S

LEMMA UpToFinite ==
    ASSUME NEW S, NEW T, Call(S, T), NEW d
    PROVE  /\ IsFiniteSet({x \in S : x <= d}) /\ IsFiniteSet({x \in T : x <= d})
           /\ IsFiniteSet(T)
           /\ Cardinality({x \in S : x <= d}) \in 0..Cardinality(S)
           /\ Cardinality({x \in T : x <= d}) \in 0..Cardinality(T)
           /\ Cardinality(S) \in Nat /\ Cardinality(T) \in Nat
           /\ Ends(S, T, d) \in 0..Found(S, T) /\ Found(S, T) \in Nat
<1> DEFINE A == {x \in S : x <= d}
           B == {x \in T : x <= d}
<1>1. A \in SUBSET S /\ B \in SUBSET T /\ T \in SUBSET S
  BY DEF Call
<1>2. IsFiniteSet(S) /\ IsFiniteSet(T) /\ IsFiniteSet(A) /\ IsFiniteSet(B)
  BY <1>1, FS_Subset DEF Call
<1>3. /\ Cardinality(A) <= Cardinality(S) /\ Cardinality(B) <= Cardinality(T)
      /\ Cardinality(S) \in Nat /\ Cardinality(T) \in Nat
      /\ Cardinality(A) \in Nat /\ Cardinality(B) \in Nat
  BY <1>1, <1>2, FS_Subset, FS_CardinalityType
<1> HIDE DEF A, B
<1>4. Cardinality(A) + Cardinality(B) \in 0..(Cardinality(S) + Cardinality(T))
  BY <1>3
<1> QED
  BY <1>2, <1>3, <1>4 DEF A, B, Ends, Found

LEMMA CallFacts ==
    ASSUME NEW S, NEW T, Call(S, T)
    PROVE  /\ S \in SUBSET Nat /\ IsFiniteSet(S) /\ T \in SUBSET S /\ IsFiniteSet(T)
           /\ Cardinality(S) \in Nat /\ Cardinality(T) \in Nat /\ Found(S, T) \in Nat
           /\ \A d : Ends(S, T, d) \in Nat
<1>1. \A d : Ends(S, T, d) \in 0..Found(S, T) /\ Found(S, T) \in Nat
  BY UpToFinite
<1>2. IsFiniteSet(T) /\ Cardinality(S) \in Nat /\ Cardinality(T) \in Nat /\ Found(S, T) \in Nat
  BY UpToFinite
<1> QED
  BY <1>1, <1>2 DEF Call

LEMMA EndsPositive ==
    ASSUME NEW S, NEW T, Call(S, T), NEW d \in S
    PROVE  Ends(S, T, d) \in 1..Found(S, T)
<1> DEFINE A == {x \in S : x <= d}
<1>1. d \in A
  BY DEF Call
<1>2. IsFiniteSet(A) /\ Cardinality(A) \in Nat /\ Cardinality({x \in T : x <= d}) \in Nat
      /\ Ends(S, T, d) \in 0..Found(S, T) /\ Found(S, T) \in Nat
  BY UpToFinite
<1>3. Cardinality(A) # 0
  BY <1>1, <1>2, FS_EmptySet
<1> HIDE DEF A
<1>4. Ends(S, T, d) = Cardinality(A) + Cardinality({x \in T : x <= d})
  BY DEF Ends, A
<1> QED
  BY <1>2, <1>3, <1>4

(* A later document ends later.                                            *)
LEMMA EndsRise ==
    ASSUME NEW S, NEW T, Call(S, T), NEW d \in S, NEW e \in S, d < e
    PROVE  Ends(S, T, d) < Ends(S, T, e)
<1> DEFINE A(x) == {y \in S : y <= x}
           B(x) == {y \in T : y <= x}
<1>1. d \in Nat /\ e \in Nat /\ S \subseteq Nat /\ T \subseteq Nat
  BY DEF Call
<1>2. A(d) \in SUBSET A(e) /\ B(d) \in SUBSET B(e)
  BY <1>1, UpTo
<1>6. e \in A(e) /\ e \notin A(d)
  BY <1>1
<1>3. ASSUME NEW x
      PROVE  /\ IsFiniteSet(A(x)) /\ IsFiniteSet(B(x))
             /\ Cardinality(A(x)) \in Nat /\ Cardinality(B(x)) \in Nat
  BY UpToFinite
<1>4. /\ Cardinality(A(d)) <= Cardinality(A(e)) /\ Cardinality(A(d)) # Cardinality(A(e))
      /\ Cardinality(B(d)) <= Cardinality(B(e))
  BY <1>2, <1>3, <1>6, FS_Subset
<1>5. \A x : Ends(S, T, x) = Cardinality(A(x)) + Cardinality(B(x))
  BY DEF Ends
<1> HIDE DEF A, B
<1> QED
  BY <1>3, <1>4, <1>5

(* With more documents and more repetitions none ends earlier.             *)
LEMMA EndsGrow ==
    ASSUME NEW S, NEW T, Call(S, T), NEW S2, NEW T2, Call(S2, T2),
           S \subseteq S2, T \subseteq T2, NEW d
    PROVE  Ends(S, T, d) <= Ends(S2, T2, d) /\ Found(S, T) <= Found(S2, T2)
<1> DEFINE A(U) == {x \in U : x <= d}
<1>1. A(S) \in SUBSET A(S2) /\ A(T) \in SUBSET A(T2)
  OBVIOUS
<1>2. /\ IsFiniteSet(A(S2)) /\ IsFiniteSet(A(T2)) /\ IsFiniteSet(S2) /\ IsFiniteSet(T2)
      /\ Cardinality(A(S)) \in Nat /\ Cardinality(A(T)) \in Nat
      /\ Cardinality(A(S2)) \in Nat /\ Cardinality(A(T2)) \in Nat
      /\ Cardinality(S) \in Nat /\ Cardinality(T) \in Nat
      /\ Cardinality(S2) \in Nat /\ Cardinality(T2) \in Nat
  BY UpToFinite DEF Call
<1>3. /\ Cardinality(A(S)) <= Cardinality(A(S2)) /\ Cardinality(A(T)) <= Cardinality(A(T2))
      /\ Cardinality(S) <= Cardinality(S2) /\ Cardinality(T) <= Cardinality(T2)
  BY <1>1, <1>2, FS_Subset
<1>4. /\ Ends(S, T, d) = Cardinality(A(S)) + Cardinality(A(T))
      /\ Ends(S2, T2, d) = Cardinality(A(S2)) + Cardinality(A(T2))
  BY DEF Ends
<1> HIDE DEF A
<1> QED
  BY <1>2, <1>3, <1>4 DEF Found

(* The last document ends where the list ends.                             *)
LEMMA LastEnds ==
    ASSUME NEW S, NEW T, Call(S, T), S # {}
    PROVE  \E d \in S : Ends(S, T, d) = Found(S, T)
<1>1. PICK d \in S : \A x \in S : x <= d
  BY LargestOf DEF Call
<1>2. {x \in S : x <= d} = S /\ {x \in T : x <= d} = T
  BY <1>1 DEF Call
<1> QED
  BY <1>2 DEF Ends, Found

-----------------------------------------------------------------------------
(* The list that a call cuts its page from: at index i the first document  *)
(* that does not end before i.                                             *)
LEMMA RecordsAre ==
    ASSUME NEW T, Call(store, T)
    PROVE  /\ Records(T) \in Seq(store) /\ Len(Records(T)) = Found(store, T)
           /\ DOMAIN Records(T) = 1..Found(store, T)
           /\ \A i \in 1..Found(store, T) :
                  /\ Records(T)[i] \in store /\ i <= Ends(store, T, Records(T)[i])
                  /\ \A x \in store : i <= Ends(store, T, x) => Records(T)[i] <= x
<1> DEFINE First(i, d) == i <= Ends(store, T, d) /\ \A x \in store : i <= Ends(store, T, x) => d <= x
<1>1. Records(T) = [i \in 1..Found(store, T) |-> CHOOSE d \in store : First(i, d)]
  BY DEF Records, Ends, Found
<1>2. Found(store, T) \in Nat
  BY UpToFinite
<1>3. ASSUME NEW i \in 1..Found(store, T)
      PROVE  \E d \in store : First(i, d)
  <2> DEFINE U == {d \in store : i <= Ends(store, T, d)}
  <2>1. store # {}
    <3> SUFFICES ASSUME store = {}
                 PROVE  FALSE
      OBVIOUS
    <3>1. T = {} /\ Found(store, T) = 0
      <4>1. T = {}
        BY CallFacts
      <4> QED
        BY <4>1, FS_EmptySet DEF Found
    <3> QED
      BY <3>1
  <2>2. PICK d \in store : Ends(store, T, d) = Found(store, T)
    BY <2>1, LastEnds
  <2>3. d \in U /\ U \in SUBSET Nat
    <3>1. i <= Ends(store, T, d) /\ store \in SUBSET Nat
      BY <1>2, <2>2, CallFacts
    <3> QED
      BY ONLY <3>1, d \in store
  <2> HIDE DEF U
  <2>4. PICK e \in U : \A x \in U : e <= x
    BY <2>3, LeastOf
  <2> QED
    BY <2>4 DEF U
<1>4. ASSUME NEW i \in 1..Found(store, T)
      PROVE  Records(T)[i] \in store /\ First(i, Records(T)[i])
  <2> HIDE DEF First
  <2> QED
    BY <1>1, <1>3
<1>5. Records(T) \in [1..Found(store, T) -> store]
  <2> HIDE DEF First
  <2> QED
    BY <1>1, <1>4
<1> QED
  BY <1>2, <1>4, <1>5

(* A document is found where it ends.                                      *)
LEMMA RecordAtEnd ==
    ASSUME NEW T, Call(store, T), NEW d \in store
    PROVE  Records(T)[Ends(store, T, d)] = d
<1> DEFINE e == Records(T)[Ends(store, T, d)]
<1>1. Ends(store, T, d) \in 1..Found(store, T)
  BY EndsPositive
<1>2. e \in store /\ Ends(store, T, d) <= Ends(store, T, e)
      /\ \A x \in store : Ends(store, T, d) <= Ends(store, T, x) => e <= x
  BY <1>1, RecordsAre
<1> HIDE DEF e
<1>3. e <= d /\ e \in Nat /\ d \in Nat /\ Ends(store, T, e) \in Nat
  BY <1>1, <1>2, CallFacts
<1>4. ~ (e < d)
  <2> SUFFICES ASSUME e < d
               PROVE  FALSE
    OBVIOUS
  <2>1. Ends(store, T, e) < Ends(store, T, d)
    BY <1>2, EndsRise
  <2> QED
    BY <1>1, <1>2, <1>3, <2>1
<1>5. e = d
  BY <1>3, <1>4
<1> QED
  BY <1>5 DEF e

(* What lies before a document ends where it does not reach.               *)
LEMMA OnesBefore ==
    ASSUME NEW T, Call(store, T), NEW i \in 1..Found(store, T),
           NEW B, B = {x \in store : x < Records(T)[i]}
    PROVE  /\ IsFiniteSet(B) /\ Cardinality(B) \in Nat /\ B \subseteq store
           /\ \A x \in B : Ends(store, T, x) < i
           /\ Ends(store, T, Records(T)[i]) =
                  Cardinality(B) + 1 + Cardinality({x \in T : x <= Records(T)[i]})
<1> DEFINE e == Records(T)[i]
<1>1. e \in store /\ \A x \in store : i <= Ends(store, T, x) => e <= x
  BY RecordsAre
<1> HIDE DEF e
<1>2. B = {x \in store : x < e}
  BY DEF e
<1>3. /\ IsFiniteSet(store) /\ store \subseteq Nat /\ e \in Nat /\ Found(store, T) \in Nat
      /\ \A x \in store : Ends(store, T, x) \in Nat
  BY <1>1, CallFacts
<1>4. B \in SUBSET store /\ IsFiniteSet(B) /\ Cardinality(B) \in Nat /\ e \notin B
  BY <1>2, <1>3, FS_Subset, FS_CardinalityType
<1>5. ASSUME NEW x \in B
      PROVE  Ends(store, T, x) < i
  <2>1. x \in store /\ x \in Nat /\ x < e
    BY <1>2, <1>3
  <2> QED
    BY <1>1, <1>3, <2>1
<1>6. {x \in store : x <= e} = B \cup {e}
  <2>1. \A x \in store : x <= e <=> x < e \/ x = e
    BY <1>3
  <2> QED
    BY <1>1, <1>2, <2>1
<1>7. Cardinality(B \cup {e}) = Cardinality(B) + 1
  BY <1>4, FS_AddElement
<1>8. Ends(store, T, e) = Cardinality(B) + 1 + Cardinality({x \in T : x <= e})
  BY <1>6, <1>7 DEF Ends
<1> QED
  BY <1>4, <1>5, <1>8 DEF e

(* Without repetitions every index has a document of its own.              *)
LEMMA RecordsIncrease ==
    ASSUME Call(store, {}), NEW i \in 1..Found(store, {}), NEW j \in 1..Found(store, {}), i < j
    PROVE  Records({})[i] < Records({})[j]
<1> DEFINE e == Records({})[i]
           f == Records({})[j]
           B == {x \in store : x < e}
<1>1. /\ e \in store /\ f \in store /\ j <= Ends(store, {}, f)
      /\ \A x \in store : i <= Ends(store, {}, x) => e <= x
  BY RecordsAre
<1>2. /\ store \subseteq Nat /\ Found(store, {}) \in Nat
      /\ \A x \in store : Ends(store, {}, x) \in 1..Found(store, {})
  BY UpToFinite, EndsPositive DEF Call
<1>3. /\ IsFiniteSet(B) /\ Cardinality(B) \in Nat /\ B \subseteq store
      /\ \A x \in B : Ends(store, {}, x) < i
      /\ Ends(store, {}, e) = Cardinality(B) + 1 + Cardinality({x \in {} : x <= e})
  BY OnesBefore
<1>4. Cardinality({x \in {} : x <= e}) = 0
  <2>1. {x \in {} : x <= e} = {}
    OBVIOUS
  <2> QED
    BY <2>1, FS_EmptySet
<1> HIDE DEF e, f
<1>5. Cardinality(B) < i
  <2>1. CASE B = {}
    BY <2>1, FS_EmptySet
  <2>2. CASE B # {}
    <3>1. PICK b \in B : \A x \in B : x <= b
      BY <1>2, <1>3, <2>2, LargestOf
    <3>2. b \in store /\ b \in Nat /\ Ends(store, {}, b) < i /\ b < e /\ e \in Nat
      BY <1>1, <1>2, <1>3, <3>1 DEF B
    <3>3. {x \in store : x <= b} = B
      <4>1. \A x \in store : x <= b => x < e
        BY <1>2, <3>2
      <4> QED
        BY <3>1, <4>1 DEF B
    <3>4. {x \in {} : x <= b} = {}
      OBVIOUS
    <3>5. Ends(store, {}, b) = Cardinality(B)
      BY <1>3, <3>3, <3>4, FS_EmptySet DEF Ends
    <3> QED
      BY <3>2, <3>5
  <2> QED
    BY <2>1, <2>2
<1> HIDE DEF B
<1>6. Ends(store, {}, e) <= i
  BY <1>3, <1>4, <1>5
<1>7. e # f
  BY <1>1, <1>2, <1>6
<1>8. e <= f
  BY <1>1, <1>2
<1> QED
  <2>1. e \in Nat /\ f \in Nat
    BY <1>1, <1>2
  <2>2. e < f
    BY <1>7, <1>8, <2>1
  <2> QED
    BY <2>2 DEF e, f

(* Up to an offset within the list there are the documents before one that *)
(* ends later, and repetitions.                                            *)
LEMMA UpToOffset ==
    ASSUME NEW T, Call(store, T), NEW o \in Nat, o < Found(store, T)
    PROVE  \E B \in SUBSET store :
               o <= Cardinality(B) + Cardinality(T) /\ \A x \in B : Ends(store, T, x) <= o
<1> DEFINE e == Records(T)[o + 1]
           B == {x \in store : x < e}
<1>1. o + 1 \in 1..Found(store, T)
  BY CallFacts
<1>2. /\ e \in store /\ o + 1 <= Ends(store, T, e)
  BY <1>1, RecordsAre
<1>3. /\ IsFiniteSet(B) /\ Cardinality(B) \in Nat /\ B \subseteq store
      /\ \A x \in B : Ends(store, T, x) < o + 1
      /\ Ends(store, T, e) = Cardinality(B) + 1 + Cardinality({x \in T : x <= e})
  BY <1>1, OnesBefore
<1> HIDE DEF e, B
<1>4. Cardinality({x \in T : x <= e}) \in 0..Cardinality(T) /\ Cardinality(T) \in Nat
  BY UpToFinite
<1>7. e \in store /\ \A x \in store : Ends(store, T, x) \in Nat
  BY <1>2, CallFacts
<1>5. o <= Cardinality(B) + Cardinality(T)
  BY <1>2, <1>3, <1>4, <1>7
<1>6. \A x \in B : Ends(store, T, x) <= o
  BY <1>3, <1>7
<1> QED
  BY <1>3, <1>5, <1>6

-----------------------------------------------------------------------------
(* The pages.                                                              *)
LEMMA IndexTyped ==
    ASSUME NEW i \in Int, NEW n \in Nat
    PROVE  Index(i, n) \in 0..n
BY DEF Index

LEMMA PageTyped ==
    ASSUME NEW T, Call(store, T), NEW offset \in Int, NEW size \in Int
    PROVE  Page(Records(T), offset, size) \in Seq(store)
<1> DEFINE n == Found(store, T)
           a == Index(offset, n)
           b == Index(offset + size, n)
<1>1. n \in Nat /\ Len(Records(T)) = n /\ \A i \in 1..n : Records(T)[i] \in store
  BY RecordsAre, CallFacts
<1> HIDE DEF n
<1>2. a \in 0..n /\ b \in 0..n
  <2>1. offset + size \in Int
    OBVIOUS
  <2> QED
    BY <1>1, <2>1, IndexTyped
<1> HIDE DEF a, b
<1>3. \A i \in (a + 1)..b : Records(T)[i] \in store
  BY <1>1, <1>2
<1>4. SubSeq(Records(T), a + 1, b) \in Seq(store)
  BY <1>1, <1>2, <1>3, SubSeqProperties
<1> QED
  BY <1>1, <1>4 DEF Page, a, b

(* Where a page ends that starts within the list, or at its end.           *)
PageEnd(T, o, size) == IF o + size < Found(store, T) THEN o + size ELSE Found(store, T)

LEMMA PageIs ==
    ASSUME NEW T, Call(store, T), NEW o \in Nat, o <= Found(store, T), NEW size \in Nat,
           NEW m, m = PageEnd(T, o, size)
    PROVE  /\ m \in o..Found(store, T)
           /\ Len(Page(Records(T), o, size)) = m - o
           /\ \A i \in 1..(m - o) : Page(Records(T), o, size)[i] = Records(T)[o + i]
<1> DEFINE n == Found(store, T)
<1>1. n \in Nat /\ Len(Records(T)) = n /\ \A i \in 1..n : Records(T)[i] \in store
  BY RecordsAre, CallFacts
<1>2. o <= n /\ m = IF o + size < n THEN o + size ELSE n
  BY DEF PageEnd
<1>3. Page(Records(T), o, size) = SubSeq(Records(T), Index(o, n) + 1, Index(o + size, n))
  BY <1>1 DEF Page
<1> HIDE DEF n
<1>4. m \in o..n
  BY <1>1, <1>2
<1>5. Index(o, n) = o /\ Index(o + size, n) = m
  BY <1>1, <1>2 DEF Index
<1>6. \A i \in (o + 1)..m : Records(T)[i] \in store
  BY <1>1, <1>4
<1>7. /\ Len(SubSeq(Records(T), o + 1, m)) = IF o + 1 <= m THEN m - (o + 1) + 1 ELSE 0
      /\ \A i \in 1..(m - (o + 1) + 1) : SubSeq(Records(T), o + 1, m)[i] = Records(T)[o + 1 + i - 1]
  BY <1>1, <1>4, <1>6, SubSeqProperties
<1>8. m \in Nat /\ m - (o + 1) + 1 = m - o /\ \A i \in Int : o + 1 + i - 1 = o + i
  BY <1>1, <1>4
<1> QED
  <2>1. Page(Records(T), o, size) = SubSeq(Records(T), o + 1, m)
    BY <1>3, <1>5
  <2>2. Len(SubSeq(Records(T), o + 1, m)) = m - o
    BY <1>4, <1>7, <1>8
  <2>3. ASSUME NEW i \in 1..(m - o)
        PROVE  SubSeq(Records(T), o + 1, m)[i] = Records(T)[o + i]
    <3>1. i \in 1..(m - (o + 1) + 1) /\ o + 1 + i - 1 = o + i
      BY <1>8
    <3> QED
      BY <1>7, <3>1
  <2> QED
    BY <1>4, <2>1, <2>2, <2>3 DEF n

-----------------------------------------------------------------------------
LEMMA ListingFacts ==
    ASSUME ListingTypeOK
    PROVE  /\ IsFiniteSet(Ids) /\ Ids \in SUBSET Nat /\ IsFiniteSet(store) /\ store \in SUBSET Nat
           /\ Call(store, twice) /\ \A T \in Repeated : Call(store, T)
           /\ Offset(token) \in Int
           /\ PageSizes \in SUBSET Int /\ \A p \in PageSizes : PageSize(p) \in Int
<1>1. IsFiniteSet(Ids) /\ Ids \in SUBSET Nat /\ PageSizes \in SUBSET Int
  BY ListingAssumption
<1>2. IsFiniteSet(store) /\ store \in SUBSET Nat /\ twice \in SUBSET store
  BY <1>1, FS_Subset DEF ListingTypeOK
<1>3. \A T \in Repeated : T \in SUBSET store
  BY DEF Repeated
<1>4. Offset(token) \in Int
  BY DEF Offset, ListingTypeOK
<1>5. \A p \in PageSizes : PageSize(p) \in Int
  BY <1>1 DEF PageSize
<1> QED
  BY <1>1, <1>2, <1>3, <1>4, <1>5 DEF Call

LEMMA ListingTyped ==
    ASSUME ListingTypeOK, [ListingNext]_listingVars
    PROVE  ListingTypeOK'
<1>1. CASE ListDocuments
  <2>1. PICK T \in Repeated, requested \in PageSizes :
          /\ twice' = T
          /\ listed' = listed \o Page(Records(T), Offset(token), PageSize(requested))
          /\ token' = NextToken(Records(T), Offset(token), PageSize(requested))
    BY <1>1 DEF ListDocuments
  <2>2. Page(Records(T), Offset(token), PageSize(requested)) \in Seq(store)
    BY ListingFacts, PageTyped
  <2>3. listed' \in Seq(Ids)
    <3>1. Page(Records(T), Offset(token), PageSize(requested)) \in Seq(Ids)
      BY <2>2 DEF ListingTypeOK
    <3> QED
      BY <2>1, <3>1, ConcatProperties DEF ListingTypeOK
  <2>4. token' \in Seq(Int) /\ Len(token') <= 1
    <3>1. Offset(token) + PageSize(requested) \in Int
      BY ListingFacts
    <3> QED
      BY <2>1, <3>1 DEF NextToken
  <2>5. twice' \subseteq store /\ store' = store /\ old' \subseteq store'
        /\ walk' \in {"paging", "end"}
    BY <1>1, <2>1 DEF ListDocuments, Repeated, ListingTypeOK
  <2>6. dropped' \in BOOLEAN
    BY <1>1 DEF ListDocuments
  <2> QED
    BY <2>3, <2>4, <2>5, <2>6 DEF ListingTypeOK
<1>2. CASE ConvertDocument
  BY <1>2 DEF ConvertDocument, ListingTypeOK
<1>3. CASE UNCHANGED listingVars
  BY <1>3 DEF listingVars, ListingTypeOK
<1> QED
  BY <1>1, <1>2, <1>3 DEF ListingNext, Walked

LEMMA ListingInitial == ListingInit => ListingInv
<1> SUFFICES ASSUME ListingInit
             PROVE  ListingInv
  OBVIOUS
<1>1. ListingTypeOK
  <2>1. <<>> \in Seq(Int) /\ <<>> \in Seq(Ids) /\ Len(<<>>) <= 1
    OBVIOUS
  <2>2. store \subseteq Ids /\ old = {} /\ twice = {} /\ token = <<>> /\ listed = <<>>
        /\ walk = "start" /\ dropped = FALSE
    BY DEF ListingInit
  <2> QED
    BY <2>1, <2>2 DEF ListingTypeOK
<1>2. Between /\ Ended /\ Quiet
  BY DEF ListingInit, Between, Ended, Quiet
<1> QED
  BY <1>1, <1>2 DEF ListingInv, ListingInit

(* A document that is created between two pages moves no other forward.    *)
LEMMA CreatedBetween ==
    ASSUME ListingInv, ConvertDocument, ~dropped'
    PROVE  Between' /\ Ended' /\ Quiet'
<1>1. PICK id \in Ids \ store : store' = store \cup {id}
  BY DEF ConvertDocument
<1>2. UNCHANGED <<walk, token, old, listed, twice, dropped>>
  BY DEF ConvertDocument
<1>3. ListingTypeOK /\ Between /\ Ended /\ old # store' /\ Offset(token)' = Offset(token)
  BY <1>1, <1>2 DEF ListingInv, ListingTypeOK, Offset
<1>4. Call(store, twice) /\ Call(store', twice)
  <2>1. store' \in SUBSET Nat /\ IsFiniteSet(store')
    BY <1>1, <1>3, ListingFacts, FS_AddElement
  <2> QED
    BY <1>1, <1>3, <2>1, ListingFacts DEF Call
<1>5. /\ Found(store, twice) <= Found(store', twice)
      /\ \A d : Ends(store, twice, d) <= Ends(store', twice, d)
      /\ Found(store, twice) \in Nat /\ Found(store', twice) \in Nat
      /\ \A d : Ends(store, twice, d) \in Nat /\ Ends(store', twice, d) \in Nat
  BY <1>1, <1>4, EndsGrow, CallFacts
<1>6. Offset(token) \in Int /\ Len(listed) \in Nat
  BY <1>3, ListingFacts DEF ListingTypeOK
<1>7. Between'
  BY <1>2, <1>3, <1>5, <1>6 DEF Between
<1>8. Ended'
  BY <1>2, <1>3, <1>5, <1>6 DEF Ended
<1>9. Quiet'
  BY <1>2, <1>3 DEF Quiet
<1> QED
  BY <1>7, <1>8, <1>9

(* A page: what the client has been given up to its end, and what of the   *)
(* first documents is still to come.                                       *)
LEMMA PageGiven ==
    ASSUME ListingInv, PageSizes \subseteq Nat, ListDocuments, ~dropped'
    PROVE  \E m \in 0..Found(store, twice') :
               /\ Call(store, twice') /\ twice \subseteq twice' /\ store' = store /\ old' \subseteq store
               /\ Len(listed) <= m /\ Len(listed') = m /\ DOMAIN listed = 1..Len(listed)
               /\ DOMAIN listed' = 1..m
               /\ \A i \in 1..Len(listed) : listed'[i] = listed[i]
               /\ \A i \in 1..m : i > Len(listed) => listed'[i] = Records(twice')[i]
               /\ \A d \in old' : d \in Range(listed') \/ m < Ends(store, twice', d)
               /\ \/ walk' = "paging" /\ m < Found(store, twice') /\ Offset(token') = m
                  \/ walk' = "end" /\ m = Found(store, twice')
<1>1. PICK T \in Repeated, requested \in PageSizes :
        /\ twice' = T
        /\ listed' = listed \o Page(Records(T), Offset(token), PageSize(requested))
        /\ token' = NextToken(Records(T), Offset(token), PageSize(requested))
  BY DEF ListDocuments
<1>2. /\ walk \in {"start", "paging"} /\ old' = (IF walk = "start" THEN store ELSE old)
      /\ ~dropped /\ twice \subseteq twice' /\ store' = store
      /\ walk' = IF token' = <<>> THEN "end" ELSE "paging"
  BY DEF ListDocuments, ListingInv, ListingTypeOK
<1> DEFINE o    == Offset(token)
           size == PageSize(requested)
           n    == Found(store, T)
           m    == PageEnd(T, o, size)
           page == Page(Records(T), o, size)
<1>3. Call(store, T) /\ Call(store, twice) /\ n \in Nat /\ Found(store, twice) \in Nat
      /\ \A d : Ends(store, T, d) \in Nat /\ Ends(store, twice, d) \in Nat
  BY ListingFacts, CallFacts DEF ListingInv
<1>4. size \in Nat
  BY DEF PageSize
<1>5. Found(store, twice) <= n /\ \A d : Ends(store, twice, d) <= Ends(store, T, d)
  BY <1>1, <1>2, <1>3, EndsGrow
<1>6. o \in Nat /\ o <= n /\ Len(listed) = o /\ listed \in Seq(Ids) /\ DOMAIN listed = 1..o
  <2>1. listed \in Seq(Ids) /\ Len(listed) \in Nat /\ DOMAIN listed = 1..Len(listed)
    BY DEF ListingInv, ListingTypeOK
  <2>2. CASE walk = "start"
    <3>1. listed = <<>> /\ o = 0
      BY <2>2 DEF ListingInv, Offset
    <3> QED
      BY <1>3, <2>1, <3>1
  <2>3. CASE walk = "paging"
    <3>1. Len(listed) = o /\ o < Found(store, twice)
      BY <1>2, <2>3 DEF ListingInv, Between
    <3> QED
      BY <1>3, <1>5, <2>1, <3>1
  <2> QED
    BY <1>2, <2>2, <2>3
<1> HIDE DEF size
<1>7. /\ m \in o..n /\ Len(page) = m - o
      /\ \A i \in 1..(m - o) : page[i] = Records(T)[o + i]
  <2>1. m = PageEnd(T, o, size) /\ o \in Nat /\ o <= Found(store, T) /\ n = Found(store, T)
    BY <1>6
  <2> HIDE DEF o, m, n
  <2>2. /\ m \in o..Found(store, T)
        /\ Len(Page(Records(T), o, size)) = m - o
        /\ \A i \in 1..(m - o) : Page(Records(T), o, size)[i] = Records(T)[o + i]
    BY ONLY <1>3, <1>4, <2>1, PageIs
  <2> QED
    BY <2>1, <2>2
<1>8. page \in Seq(Ids)
  <2>1. page \in Seq(store)
    <3> HIDE DEF o
    <3>1. o \in Int /\ size \in Int
      BY <1>4, <1>6
    <3> QED
      BY <1>3, <3>1, PageTyped
  <2> QED
    BY <2>1 DEF ListingInv, ListingTypeOK
<1>9. token' = IF o + size < n THEN <<o + size>> ELSE <<>>
  BY <1>1, <1>3, RecordsAre DEF NextToken, size
<1>10. \/ walk' = "paging" /\ m < n /\ Offset(token') = m
       \/ walk' = "end" /\ m = n
  BY <1>2, <1>4, <1>6, <1>9 DEF Offset, PageEnd
<1>11. listed' = listed \o page
  BY <1>1 DEF size
<1> HIDE DEF o, n, m, page
<1>12. /\ Len(listed') = m /\ DOMAIN listed' = 1..m
       /\ \A i \in 1..o : listed'[i] = listed[i]
       /\ \A i \in 1..m : i > o => listed'[i] = Records(T)[i]
  <2>1. /\ Len(listed') = Len(listed) + Len(page) /\ listed' \in Seq(Ids)
        /\ \A i \in 1..(Len(listed) + Len(page)) :
               listed'[i] = IF i <= Len(listed) THEN listed[i] ELSE page[i - Len(listed)]
    BY <1>6, <1>8, <1>11, ConcatProperties
  <2>2. Len(listed) + Len(page) = m /\ m \in Nat
    BY <1>3, <1>6, <1>7
  <2>3. DOMAIN listed' = 1..m
    BY <2>1, <2>2
  <2>4. \A i \in 1..o : listed'[i] = listed[i]
    BY <1>6, <1>7, <2>1, <2>2
  <2>5. ASSUME NEW i \in 1..m, i > o
        PROVE  listed'[i] = Records(T)[i]
    <3>1. i - o \in 1..(m - o) /\ o + (i - o) = i
      BY <1>6, <2>2, <2>5
    <3>2. listed'[i] = page[i - o]
      BY <1>6, <2>1, <2>2, <2>5
    <3> QED
      BY <1>7, <3>1, <3>2
  <2> QED
    BY <2>1, <2>2, <2>3, <2>4, <2>5
<1>13. old' \subseteq store
  BY <1>2 DEF ListingInv, ListingTypeOK
<1>14. ASSUME NEW d \in old', ~ (m < Ends(store, T, d))
       PROVE  d \in Range(listed')
  <2>1. Ends(store, T, d) \in 1..n /\ d \in store
    BY <1>3, <1>13, EndsPositive DEF n
  <2>2. Ends(store, T, d) \in 1..m
    BY <1>6, <1>7, <1>14, <2>1
  <2>3. CASE Ends(store, T, d) > o
    <3>1. listed'[Ends(store, T, d)] = d
      BY <1>3, <1>12, <2>1, <2>2, <2>3, RecordAtEnd
    <3> QED
      BY <1>12, <2>2, <3>1 DEF Range
  <2>4. CASE ~ (Ends(store, T, d) > o)
    <3>1. walk = "paging"
      <4> SUFFICES ASSUME walk = "start"
                   PROVE  FALSE
        BY <1>2
      <4>1. o = 0
        BY DEF ListingInv, Offset, o
      <4> QED
        BY <2>1, <2>4, <4>1
    <3>2. d \in Range(listed) \/ o < Ends(store, twice, d)
      BY <1>2, <3>1 DEF ListingInv, Between, o
    <3>3. d \in Range(listed)
      BY <1>3, <1>5, <1>6, <2>4, <3>2
    <3>4. PICK i \in 1..o : listed[i] = d
      BY <1>6, <3>3 DEF Range
    <3>5. i \in 1..m /\ listed'[i] = d
      BY <1>6, <1>7, <1>12, <3>4
    <3> QED
      BY <1>12, <3>5 DEF Range
  <2> QED
    BY <2>3, <2>4
<1>15. m \in 0..n /\ Len(listed) <= m
  BY <1>3, <1>6, <1>7
<1> QED
  <2>1. /\ m \in 0..Found(store, twice') /\ Call(store, twice')
        /\ \/ walk' = "paging" /\ m < Found(store, twice') /\ Offset(token') = m
           \/ walk' = "end" /\ m = Found(store, twice')
    BY <1>1, <1>3, <1>10, <1>15 DEF n
  <2>2. /\ \A i \in 1..Len(listed) : listed'[i] = listed[i]
        /\ \A i \in 1..m : i > Len(listed) => listed'[i] = Records(twice')[i]
        /\ DOMAIN listed = 1..Len(listed)
    BY <1>1, <1>6, <1>12
  <2>3. \A d \in old' : d \in Range(listed') \/ m < Ends(store, twice', d)
    BY <1>1, <1>14
  <2> QED
    BY <1>2, <1>12, <1>13, <1>15, <2>1, <2>2, <2>3

LEMMA PagesBetween ==
    ASSUME ListingInv, PageSizes \subseteq Nat, ListDocuments, ~dropped'
    PROVE  Between' /\ Ended' /\ Quiet'
<1>1. PICK m \in 0..Found(store, twice') :
        /\ Call(store, twice') /\ twice \subseteq twice' /\ store' = store /\ old' \subseteq store
        /\ Len(listed) <= m /\ Len(listed') = m /\ DOMAIN listed = 1..Len(listed)
        /\ DOMAIN listed' = 1..m
        /\ \A i \in 1..Len(listed) : listed'[i] = listed[i]
        /\ \A i \in 1..m : i > Len(listed) => listed'[i] = Records(twice')[i]
        /\ \A d \in old' : d \in Range(listed') \/ m < Ends(store, twice', d)
        /\ \/ walk' = "paging" /\ m < Found(store, twice') /\ Offset(token') = m
           \/ walk' = "end" /\ m = Found(store, twice')
  BY PageGiven
<1>2. Found(store, twice') \in Nat /\ m \in Nat /\ Len(listed) \in Nat
      /\ \A d \in store : Ends(store, twice', d) \in 1..Found(store, twice')
  BY <1>1, CallFacts, EndsPositive DEF ListingInv, ListingTypeOK
<1>3. Between'
  <2>1. Offset(token)' = Offset(token')
    BY DEF Offset
  <2> QED
    BY <1>1, <2>1 DEF Between
<1>4. Ended'
  <2> SUFFICES ASSUME walk' = "end"
               PROVE  Len(listed') <= Found(store', twice') /\ old' \subseteq Range(listed')
    BY DEF Ended, Range
  <2>1. m = Found(store, twice')
    BY <1>1
  <2>2. ASSUME NEW d \in old'
        PROVE  d \in Range(listed')
    BY <1>1, <1>2, <2>1
  <2> QED
    BY <1>1, <1>2, <2>1, <2>2
<1>5. Quiet'
  <2> SUFFICES ASSUME twice' = {}, store' = old'
               PROVE  /\ \A i \in DOMAIN listed' : listed'[i] = Records({})'[i]
                      /\ walk' = "end" => Len(listed') = Cardinality(store')
    BY DEF Quiet
  <2>1. Records({})' = Records({})
    BY <1>1 DEF Records
  <2>2. \A i \in 1..Len(listed) : listed[i] = Records({})[i]
    <3>1. CASE walk = "start"
      <4>1. Len(listed) = 0
        BY <3>1 DEF ListingInv
      <4> QED
        BY <4>1
    <3>2. CASE walk # "start"
      <4>1. old' = old /\ ~dropped /\ twice = {}
        BY <1>1, <3>2 DEF ListDocuments
      <4> QED
        BY <1>1, <4>1 DEF ListingInv, Quiet
    <3> QED
      BY <3>1, <3>2
  <2>3. \A i \in 1..m : listed'[i] = Records({})[i]
    BY <1>1, <1>2, <2>2
  <2>4. walk' = "end" => m = Cardinality(store)
    <3>1. Found(store, {}) = Cardinality(store)
      BY <1>1, CallFacts, FS_EmptySet DEF Found
    <3> QED
      BY <1>1, <3>1
  <2> QED
    BY <1>1, <2>1, <2>3, <2>4
<1> QED
  BY <1>3, <1>4, <1>5

LEMMA ListingStep ==
    ASSUME ListingInv, PageSizes \subseteq Nat, [ListingNext]_listingVars
    PROVE  ListingInv'
<1>1. ListingTypeOK'
  BY ListingTyped DEF ListingInv
<1>2. CASE ListDocuments
  <2>1. walk' # "start"
    BY <1>2 DEF ListDocuments
  <2> QED
    BY <1>1, <1>2, <2>1, PagesBetween DEF ListingInv
<1>3. CASE ConvertDocument
  <2>1. UNCHANGED <<walk, token, old, listed, twice, dropped>>
    BY <1>3 DEF ConvertDocument
  <2> QED
    BY <1>1, <1>3, <2>1, CreatedBetween DEF ListingInv
<1>4. CASE UNCHANGED listingVars
  <2>1. UNCHANGED <<store, walk, token, old, listed, twice, dropped>>
    BY <1>4 DEF listingVars
  <2>2. Offset(token)' = Offset(token) /\ Records({})' = Records({})
    BY <2>1 DEF Offset, Records
  <2>3. Between => Between'
    BY <2>1, <2>2 DEF Between
  <2>4. Ended => Ended'
    BY <2>1 DEF Ended
  <2>5. Quiet => Quiet'
    BY <2>1, <2>2 DEF Quiet
  <2> QED
    BY <1>1, <2>1, <2>3, <2>4, <2>5 DEF ListingInv
<1> QED
  BY <1>2, <1>3, <1>4 DEF ListingNext, Walked

LEMMA ListingAlways ==
    ASSUME PageSizes \subseteq Nat
    PROVE  ListingSpec => []ListingInv
<1>1. ListingInv /\ [ListingNext]_listingVars => ListingInv'
  BY ListingStep
<1> QED
  BY <1>1, ListingInitial, PTL DEF ListingSpec

-----------------------------------------------------------------------------
(* The state of a walk stays well typed, whatever page sizes are asked for.*)
THEOREM ListingTypeCorrect == ListingSpec => []ListingTypeOK
<1>1. ListingInit => ListingTypeOK
  BY ListingInitial DEF ListingInv
<1>2. ListingTypeOK /\ [ListingNext]_listingVars => ListingTypeOK'
  BY ListingTyped
<1> QED
  BY <1>1, <1>2, PTL DEF ListingSpec

(* A client that names no negative page size and follows the tokens to the *)
(* end has seen every document that existed when it began, unless a SCAN   *)
(* took back a repetition.                                                 *)
THEOREM NoneAreSkipped ==
    ASSUME PageSizes \subseteq Nat
    PROVE  ListingSpec => []NoneSkipped
<1>1. ListingInv => NoneSkipped
  BY DEF ListingInv, Ended, NoneSkipped
<1> QED
  BY <1>1, ListingAlways, PTL

(* When nothing is created or repeated it has seen each of them once, in   *)
(* the order of their ids.                                                 *)
THEOREM QuietWalksAreExact ==
    ASSUME PageSizes \subseteq Nat
    PROVE  ListingSpec => []QuietWalkExact
<1>1. ListingInv => QuietWalkExact
  <2> SUFFICES ASSUME ListingInv, walk = "end", store = old, ~dropped, twice = {}
               PROVE  /\ Range(listed) = store
                      /\ \A i, j \in DOMAIN listed : i < j => listed[i] < listed[j]
    BY DEF QuietWalkExact
  <2>1. /\ \A i \in DOMAIN listed : listed[i] = Records({})[i]
        /\ Len(listed) = Cardinality(store) /\ old \subseteq Range(listed)
    BY DEF ListingInv, Quiet, Ended
  <2>2. Call(store, {}) /\ DOMAIN listed = 1..Found(store, {})
    <3>1. Call(store, {}) /\ Found(store, {}) = Cardinality(store)
      BY ListingFacts, CallFacts, FS_EmptySet DEF ListingInv, Found
    <3> QED
      BY <2>1, <3>1 DEF ListingInv, ListingTypeOK
  <2>3. \A i \in DOMAIN listed : listed[i] \in store
    BY <2>1, <2>2, RecordsAre
  <2>4. \A i, j \in DOMAIN listed : i < j => listed[i] < listed[j]
    BY <2>1, <2>2, RecordsIncrease
  <2> QED
    BY <2>1, <2>3, <2>4 DEF Range
<1> QED
  BY <1>1, ListingAlways, PTL

(* However many documents are created and keys repeated, each of them      *)
(* makes one document be shown again at most.                              *)
THEOREM RepetitionsAreBounded ==
    ASSUME PageSizes \subseteq Nat
    PROVE  ListingSpec => []RepetitionsBounded
<1>1. ListingInv => RepetitionsBounded
  <2> SUFFICES ASSUME ListingInv, ~dropped
               PROVE  Len(listed) - Cardinality(Range(listed)) <=
                          Cardinality(store \ old) + Cardinality(twice)
    BY DEF RepetitionsBounded
  <2> DEFINE seen == Range(listed)
             new  == store \ old
  <2>1. /\ seen \in SUBSET Ids /\ Len(listed) \in Nat /\ old \in SUBSET store
        /\ walk \in {"start", "paging", "end"}
    BY DEF ListingInv, ListingTypeOK, Range
  <2>2. /\ IsFiniteSet(Ids) /\ IsFiniteSet(store) /\ Call(store, twice)
        /\ Cardinality(store) \in Nat /\ Cardinality(twice) \in Nat
        /\ Found(store, twice) = Cardinality(store) + Cardinality(twice)
    BY ListingFacts, CallFacts DEF ListingInv, Found
  <2>3. /\ IsFiniteSet(seen) /\ Cardinality(seen) \in Nat
        /\ IsFiniteSet(new) /\ Cardinality(new) \in Nat
    BY <2>1, <2>2, FS_Subset, FS_CardinalityType
  <2> HIDE DEF seen
  <2>4. ASSUME NEW B \in SUBSET store, B \cap old \subseteq seen
        PROVE  Cardinality(B) \in Nat /\ Cardinality(B) <= Cardinality(seen) + Cardinality(new)
    <3>1. B \in SUBSET (seen \cup new)
      BY <2>4
    <3> HIDE DEF new
    <3>2. IsFiniteSet(seen \cup new) /\ IsFiniteSet(seen \cap new)
          /\ Cardinality(seen \cup new) =
                 Cardinality(seen) + Cardinality(new) - Cardinality(seen \cap new)
      <4>1. seen \cap new \in SUBSET seen
        OBVIOUS
      <4> QED
        BY <2>3, <4>1, FS_Union, FS_Subset
    <3>3. Cardinality(B) <= Cardinality(seen \cup new) /\ IsFiniteSet(B)
      BY <3>1, <3>2, FS_Subset
    <3>4. Cardinality(B) \in Nat /\ Cardinality(seen \cap new) \in Nat
      BY <3>2, <3>3, FS_CardinalityType
    <3> QED
      BY <2>3, <3>2, <3>3, <3>4
  <2>5. CASE walk = "start"
    <3>1. Len(listed) = 0
      BY <2>5 DEF ListingInv
    <3> HIDE DEF new
    <3>2. Len(listed) - Cardinality(seen) <= Cardinality(new) + Cardinality(twice)
      BY <2>2, <2>3, <3>1
    <3> QED
      BY <3>2 DEF seen, new
  <2>6. CASE walk = "end"
    <3>1. Len(listed) <= Found(store, twice) /\ old \subseteq seen
      BY <2>6 DEF ListingInv, Ended, seen
    <3>2. Cardinality(store) <= Cardinality(seen) + Cardinality(new)
      BY <2>4, <3>1
    <3> HIDE DEF new
    <3>3. Len(listed) - Cardinality(seen) <= Cardinality(new) + Cardinality(twice)
      BY <2>1, <2>2, <2>3, <3>1, <3>2
    <3> QED
      BY <3>3 DEF seen, new
  <2>7. CASE walk = "paging"
    <3>1. /\ Len(listed) < Found(store, twice)
          /\ \A d \in old : d \in seen \/ Len(listed) < Ends(store, twice, d)
      BY <2>7 DEF ListingInv, Between, seen
    <3>2. PICK B \in SUBSET store :
            /\ Len(listed) <= Cardinality(B) + Cardinality(twice)
            /\ \A x \in B : Ends(store, twice, x) <= Len(listed)
      BY <2>1, <2>2, <3>1, UpToOffset
    <3>3. \A x \in B : Ends(store, twice, x) \in Nat
      BY <2>2, CallFacts
    <3>4. B \cap old \subseteq seen
      BY <2>1, <3>1, <3>2, <3>3
    <3>5. Cardinality(B) \in Nat /\ Cardinality(B) <= Cardinality(seen) + Cardinality(new)
      BY <2>4, <3>4
    <3> HIDE DEF new
    <3>6. Len(listed) - Cardinality(seen) <= Cardinality(new) + Cardinality(twice)
      BY <2>1, <2>2, <2>3, <3>2, <3>5
    <3> QED
      BY <3>6 DEF seen, new
  <2> QED
    BY <2>1, <2>5, <2>6, <2>7
<1> QED
  BY <1>1, ListingAlways, PTL
=============================================================================
