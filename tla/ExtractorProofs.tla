-------------------------- MODULE ExtractorProofs --------------------------
(***************************************************************************)
(* The elements of a document, for any document, any number of patterns    *)
(* and any limits: under which heading an element hangs, in what order the *)
(* elements come, what was left out and when a parser gives up.            *)
(***************************************************************************)
EXTENDS Extractor, FiniteSetTheorems, SequenceTheorems, WellFoundedInduction, TLAPS

ElementSet == [type : Types, level : Nat, parent : Nat, src : SUBSET Nat]

(* The headings of a list of elements, and how it hangs together.          *)
HeadingsIn(s) == {i \in DOMAIN s : s[i].type = "heading"}

AboveIn(s, i) ==
    {h \in HeadingsIn(s) : h < i /\ (i \in HeadingsIn(s) => s[h].level < s[i].level)}

HierarchyIn(s) ==
    \A i \in DOMAIN s :
        LET p == s[i].parent
        IN  IF p = 0 THEN AboveIn(s, i) = {}
            ELSE p \in AboveIn(s, i) /\ \A h \in AboveIn(s, i) : h <= p

LEMMA HierarchyOfList ==
    Headings = HeadingsIn(elements) /\ (HierarchyCorrect <=> HierarchyIn(elements))
BY DEF Headings, HeadingsIn, Above, AboveIn, HierarchyCorrect, HierarchyIn

LEMMA HierarchyOfNext ==
    Headings' = HeadingsIn(elements') /\ (HierarchyCorrect' <=> HierarchyIn(elements'))
BY DEF Headings, HeadingsIn, Above, AboveIn, HierarchyCorrect, HierarchyIn

(* The stack of open headings: places and levels rise, every heading is    *)
(* below one that is still open, or is open itself, and the last one is    *)
(* the current one.                                                        *)
Nested ==
    /\ \A k \in 1..Len(stack) : stack[k] \in Headings
    /\ \A j, k \in 1..Len(stack) : j < k =>
           stack[j] < stack[k] /\ elements[stack[j]].level < elements[stack[k]].level
    /\ \A h \in Headings : \E k \in 1..Len(stack) :
           h <= stack[k] /\ elements[stack[k]].level <= elements[h].level
    /\ heading = IF stack = <<>> THEN 0 ELSE stack[Len(stack)]

(* The headings there are at each stage.                                   *)
Shape ==
    /\ stage \in {"docling", "headings"} => Nested
    /\ stage = "pattern" => \A h \in Headings : elements[h].level = 1
    /\ stage = "paragraphs" => heading = 0 /\ Headings = {}

(* Where the loop is, and the section it reads.                            *)
Place ==
    /\ next \in 1..((IF stage = "docling" THEN Len(doc.items) ELSE Len(doc.lines)) + 1)
    /\ stage = "pattern" /\ ~over =>
        /\ section < next /\ part \subseteq section..(next - 1)
        /\ section = 0 => elements = <<>> /\ part = {}
    /\ over /\ elements = <<>> => stage = "paragraphs"
    /\ over => next = (IF stage = "docling" THEN Len(doc.items) ELSE Len(doc.lines)) + 1

(* Up to where the elements go.                                            *)
Bound == IF stage = "pattern" /\ section # 0 THEN section ELSE next

Ordered ==
    /\ SourceOrder
    /\ ~over => \A i \in DOMAIN elements : \A a \in elements[i].src : a < Bound

(* The items or lines the elements are taken from, and those of the        *)
(* section that is read.                                                   *)
Covered == UNION {elements[i].src : i \in DOMAIN elements}

Pending == IF stage = "pattern" /\ ~over /\ section # 0 THEN {section} \cup part ELSE {}

(* What was read is in an element, in the current section or left out.     *)
Kept ==
    /\ Covered \cup Pending = (1..(next - 1)) \ LeftOut
    /\ stage = "headings" =>
           (heading = 0 <=> \A j \in 1..(next - 1) : line(j).level = 0 \/ Spurious(j))
    /\ stage = "pattern" => (section = 0 <=> \A j \in 1..(next - 1) : ~Opens(j))
    /\ stage = "paragraphs" /\ next \in Numbers => Begins(next)

(* Every line that opens a section has its heading.                        *)
Sectioned ==
    stage = "pattern" =>
        /\ Accepted # {}
        /\ \A i \in 1..(next - 1) : Opens(i) =>
               (~over /\ i = section) \/ \E h \in Headings : elements[h].src = {i}

ExtractorInv ==
    /\ ExtractorTypeOK /\ Shape /\ HierarchyCorrect /\ Place /\ Ordered /\ Kept /\ Sectioned

-----------------------------------------------------------------------------
(* What is known of the document at work.                                  *)
LEMMA DocumentTyped ==
    ASSUME ExtractorTypeOK
    PROVE  /\ doc.items \in Seq(Items) /\ doc.lines \in Seq(Lines)
           /\ Len(doc.items) \in Nat /\ DOMAIN doc.items = 1..Len(doc.items)
           /\ Len(doc.lines) \in Nat /\ Numbers = 1..Len(doc.lines)
           /\ \A i \in 1..Len(doc.items) : doc.items[i] \in Items /\ doc.items[i].level \in Nat
           /\ \A i \in Numbers : line(i) \in Lines /\ line(i).level \in Nat
<1>1. doc \in [typed : BOOLEAN, items : Seq(Items), lines : Seq(Lines)]
  BY ExtractorAssumption DEF ExtractorTypeOK
<1>2. doc.items \in Seq(Items) /\ doc.lines \in Seq(Lines)
  BY <1>1
<1>3. /\ Len(doc.items) \in Nat /\ DOMAIN doc.items = 1..Len(doc.items)
      /\ Len(doc.lines) \in Nat /\ DOMAIN doc.lines = 1..Len(doc.lines)
  BY <1>2, LenProperties
<1>4. \A i \in 1..Len(doc.items) : doc.items[i] \in Items
  BY <1>2, ElementOfSeq
<1>5. \A i \in 1..Len(doc.lines) : doc.lines[i] \in Lines
  BY <1>2, ElementOfSeq
<1>6. /\ \A i \in Items : i.level \in Nat
      /\ \A l \in Lines : l.level \in Nat
  BY DEF Items, Lines
<1> QED
  BY <1>2, <1>3, <1>4, <1>5, <1>6 DEF Numbers, line

LEMMA ElementTyped ==
    ASSUME NEW type \in Types, NEW level \in Nat, NEW parent \in Nat, NEW src \in SUBSET Nat
    PROVE  /\ Element(type, level, parent, src) \in ElementSet
           /\ Element(type, level, parent, src).type = type
           /\ Element(type, level, parent, src).level = level
           /\ Element(type, level, parent, src).parent = parent
           /\ Element(type, level, parent, src).src = src
BY DEF Element, ElementSet

(* A list with one element more.                                           *)
LEMMA OneMore ==
    ASSUME NEW S, NEW s \in Seq(S), NEW e \in S
    PROVE  /\ Append(s, e) \in Seq(S) /\ Len(s) \in Nat /\ DOMAIN s = 1..Len(s)
           /\ Len(Append(s, e)) = Len(s) + 1 /\ DOMAIN Append(s, e) = 1..(Len(s) + 1)
           /\ \A i \in 1..Len(s) : Append(s, e)[i] = s[i]
           /\ Append(s, e)[Len(s) + 1] = e
OBVIOUS

(* Opening a heading pops the ones that are not above it; n remain.        *)
HeadingAt(n, e, level, src) ==
    /\ \A k \in (n + 1)..Len(stack) : elements[stack[k]].level >= level
    /\ n > 0 => elements[stack[n]].level < level
    /\ e.type = "heading" /\ e.level = level /\ e.src = src
    /\ e.parent = IF n = 0 THEN 0 ELSE stack[n]
    /\ elements' = Append(elements, e) /\ elements' \in Seq(ElementSet)
    /\ stack' \in Seq(Nat) /\ Len(stack') = n + 1
    /\ \A k \in 1..n : stack'[k] = stack[k]
    /\ stack'[n + 1] = Len(elements) + 1 /\ heading' = Len(elements) + 1

LEMMA HeadingAdded ==
    ASSUME ExtractorTypeOK, Nested, NEW level \in Nat, NEW src \in SUBSET Nat,
           AddHeading(level, src)
    PROVE  \E n \in 0..Len(stack), e \in ElementSet : HeadingAt(n, e, level, src)
<1>1. elements \in Seq(ElementSet) /\ stack \in Seq(Nat) /\ Len(elements) \in Nat
      /\ Len(stack) \in Nat
  BY LenProperties DEF ExtractorTypeOK, ElementSet
<1>2. PICK n \in 0..Len(stack) :
        /\ \A k \in (n + 1)..Len(stack) : elements[stack[k]].level >= level
        /\ n > 0 => elements[stack[n]].level < level
        /\ elements' = Append(elements,
               Element("heading", level, IF n = 0 THEN 0 ELSE stack[n], src))
        /\ stack' = Append(SubSeq(stack, 1, n), Len(elements) + 1)
        /\ heading' = Len(elements) + 1
  BY DEF AddHeading
<1> DEFINE parent == IF n = 0 THEN 0 ELSE stack[n]
           e      == Element("heading", level, parent, src)
<1>3. parent \in Nat
  BY <1>1, <1>2, ElementOfSeq
<1>4. /\ e \in ElementSet /\ e.type = "heading" /\ e.level = level /\ e.src = src
      /\ e.parent = parent
  <2> HIDE DEF parent
  <2> QED
    BY <1>3, ElementTyped DEF Types
<1>5. elements' \in Seq(ElementSet)
  BY <1>1, <1>2, <1>4, OneMore
<1>6. /\ SubSeq(stack, 1, n) \in Seq(Nat) /\ Len(SubSeq(stack, 1, n)) = n
      /\ \A k \in 1..n : SubSeq(stack, 1, n)[k] = stack[k]
  BY <1>1, SubSeqProperties, ElementOfSeq
<1>7. /\ stack' \in Seq(Nat) /\ Len(stack') = n + 1
      /\ \A k \in 1..n : stack'[k] = stack[k]
      /\ stack'[n + 1] = Len(elements) + 1
  BY <1>1, <1>2, <1>6, OneMore
<1> QED
  BY <1>2, <1>4, <1>5, <1>7 DEF HeadingAt

(* One element more: the ones before keep their headings and their places. *)
LEMMA HeadingsAfter ==
    ASSUME NEW s \in Seq(ElementSet), NEW e \in ElementSet
    PROVE  /\ HeadingsIn(s) \subseteq 1..Len(s)
           /\ HeadingsIn(Append(s, e)) =
                  IF e.type = "heading" THEN HeadingsIn(s) \cup {Len(s) + 1} ELSE HeadingsIn(s)
           /\ \A h \in HeadingsIn(s) :
                  Append(s, e)[h] = s[h] /\ s[h].level \in Nat /\ h \in Nat \ {0}
<1> DEFINE t == Append(s, e)
<1>1. /\ Len(s) \in Nat /\ DOMAIN s = 1..Len(s) /\ DOMAIN t = 1..(Len(s) + 1)
      /\ \A i \in 1..Len(s) : t[i] = s[i]
      /\ t[Len(s) + 1] = e
  BY OneMore
<1>2. 1..(Len(s) + 1) = (1..Len(s)) \cup {Len(s) + 1}
  BY <1>1
<1>3. \A i \in 1..Len(s) : s[i] \in ElementSet
  BY ElementOfSeq
<1>4. \A x \in ElementSet : x.level \in Nat
  BY DEF ElementSet
<1> HIDE DEF t
<1>5. HeadingsIn(s) \subseteq 1..Len(s) /\ \A h \in HeadingsIn(s) : t[h] = s[h]
  BY <1>1 DEF HeadingsIn
<1>6. HeadingsIn(t) =
          IF e.type = "heading" THEN HeadingsIn(s) \cup {Len(s) + 1} ELSE HeadingsIn(s)
  BY <1>1, <1>2 DEF HeadingsIn
<1>7. \A h \in HeadingsIn(s) : s[h].level \in Nat /\ h \in Nat \ {0}
  BY <1>1, <1>3, <1>4, <1>5
<1> QED
  BY <1>5, <1>6, <1>7 DEF t

(* An element that hangs under the last of the headings above it.          *)
LEMMA HierarchyAfter ==
    ASSUME NEW s \in Seq(ElementSet), NEW e \in ElementSet, HierarchyIn(s), NEW Over,
           Over = {h \in HeadingsIn(s) : e.type = "heading" => s[h].level < e.level},
           IF e.parent = 0 THEN Over = {} ELSE e.parent \in Over /\ \A h \in Over : h <= e.parent
    PROVE  HierarchyIn(Append(s, e))
<1> DEFINE t == Append(s, e)
<1>1. /\ Len(s) \in Nat /\ DOMAIN s = 1..Len(s) /\ DOMAIN t = 1..(Len(s) + 1)
      /\ \A i \in 1..Len(s) : t[i] = s[i]
      /\ t[Len(s) + 1] = e
  BY OneMore
<1>2. /\ HeadingsIn(s) \subseteq 1..Len(s)
      /\ HeadingsIn(t) =
             IF e.type = "heading" THEN HeadingsIn(s) \cup {Len(s) + 1} ELSE HeadingsIn(s)
      /\ \A h \in HeadingsIn(s) : t[h] = s[h]
  BY HeadingsAfter
<1> HIDE DEF t
<1>3. \A i \in 1..Len(s) : AboveIn(t, i) = AboveIn(s, i)
  BY <1>1, <1>2 DEF AboveIn
<1>4. AboveIn(t, Len(s) + 1) = Over
  BY <1>1, <1>2 DEF AboveIn
<1>5. ASSUME NEW i \in DOMAIN t
      PROVE  LET p == t[i].parent
             IN  IF p = 0 THEN AboveIn(t, i) = {}
                 ELSE p \in AboveIn(t, i) /\ \A h \in AboveIn(t, i) : h <= p
  <2>1. CASE i \in 1..Len(s)
    BY <1>1, <1>3, <2>1 DEF HierarchyIn
  <2>2. CASE i = Len(s) + 1
    BY <1>1, <1>4, <2>2
  <2> QED
    BY <1>1, <2>1, <2>2
<1> QED
  BY <1>5 DEF HierarchyIn, t

LEMMA HeadingHangs ==
    ASSUME ExtractorTypeOK, Nested, HierarchyCorrect, NEW level \in Nat,
           NEW src \in SUBSET Nat, AddHeading(level, src)
    PROVE  Nested' /\ HierarchyCorrect'
<1>1. elements \in Seq(ElementSet) /\ stack \in Seq(Nat) /\ Len(elements) \in Nat
      /\ Len(stack) \in Nat
  BY LenProperties DEF ExtractorTypeOK, ElementSet
<1>0. PICK n \in 0..Len(stack), e \in ElementSet : HeadingAt(n, e, level, src)
  BY HeadingAdded
<1>2. /\ \A k \in (n + 1)..Len(stack) : elements[stack[k]].level >= level
      /\ n > 0 => elements[stack[n]].level < level
      /\ e.type = "heading" /\ e.level = level /\ e.src = src
      /\ e.parent = IF n = 0 THEN 0 ELSE stack[n]
      /\ elements' = Append(elements, e) /\ elements' \in Seq(ElementSet)
      /\ stack' \in Seq(Nat) /\ Len(stack') = n + 1
      /\ \A k \in 1..n : stack'[k] = stack[k]
      /\ stack'[n + 1] = Len(elements) + 1 /\ heading' = Len(elements) + 1
  BY <1>0 DEF HeadingAt
<1>3. /\ Headings \subseteq 1..Len(elements)
      /\ Headings' = Headings \cup {Len(elements) + 1}
      /\ \A h \in Headings : elements'[h] = elements[h]
  BY <1>1, <1>2, HeadingsAfter, HierarchyOfList, HierarchyOfNext
<1>4. /\ \A h \in Headings : elements[h].level \in Nat /\ h \in Nat \ {0}
      /\ elements'[Len(elements) + 1] = e
  <2>1. elements'[Len(elements) + 1] = e
    BY <1>1, <1>2, OneMore
  <2> QED
    BY <1>1, <1>2, <2>1, HeadingsAfter, HierarchyOfList
<1> DEFINE Over == {h \in Headings : elements[h].level < level}
<1>5. \A k \in 1..n : stack[k] \in Over
  <2>1. ASSUME NEW k \in 1..n
        PROVE  stack[k] \in Over
    <3>1. /\ k \in 1..Len(stack) /\ n \in 1..Len(stack) /\ stack[k] \in Headings
          /\ stack[n] \in Headings /\ elements[stack[n]].level < level
      BY <1>1, <1>2 DEF Nested
    <3>2. k < n => elements[stack[k]].level < elements[stack[n]].level
      BY <3>1 DEF Nested
    <3>3. k = n \/ k < n
      BY <1>1
    <3> QED
      BY <1>4, <3>1, <3>2, <3>3
  <2> QED
    BY <2>1
<1>6. \A h \in Over : n > 0 /\ h <= stack[n]
  <2>1. ASSUME NEW h \in Over
        PROVE  n > 0 /\ h <= stack[n]
    <3>1. PICK k \in 1..Len(stack) : h <= stack[k] /\ elements[stack[k]].level <= elements[h].level
      BY DEF Nested
    <3>2. stack[k] \in Headings
      BY DEF Nested
    <3>3. elements[stack[k]].level < level
      BY <1>4, <3>1, <3>2
    <3>4. k <= n
      BY <1>1, <1>2, <1>4, <3>2, <3>3
    <3>5. k < n => stack[k] < stack[n]
      BY <1>1, <3>4 DEF Nested
    <3>6. stack[n] \in Headings
      BY <1>1, <3>4 DEF Nested
    <3> QED
      BY <1>1, <1>4, <3>1, <3>2, <3>4, <3>5, <3>6
  <2> QED
    BY <2>1
<1>7. HierarchyCorrect'
  <2>1. Over = {h \in Headings : e.type = "heading" => elements[h].level < e.level}
    BY <1>2
  <2>2. IF e.parent = 0 THEN Over = {} ELSE e.parent \in Over /\ \A h \in Over : h <= e.parent
    <3>1. CASE n = 0
      BY <1>2, <1>6, <3>1
    <3>2. CASE n > 0
      <4>1. stack[n] \in Over
        BY <1>1, <1>5, <3>2
      <4> QED
        BY <1>2, <1>4, <1>6, <3>2, <4>1
    <3> QED
      BY <3>1, <3>2
  <2> HIDE DEF Over
  <2> QED
    BY <1>1, <1>2, <2>1, <2>2, HierarchyAfter, HierarchyOfList, HierarchyOfNext
<1>8. \A k \in 1..n : /\ stack'[k] \in Headings /\ stack'[k] = stack[k]
                      /\ elements'[stack'[k]].level = elements[stack[k]].level
                      /\ elements[stack[k]].level < level /\ stack[k] <= Len(elements)
  BY <1>1, <1>2, <1>3, <1>5
<1>9. /\ stack'[n + 1] = Len(elements) + 1 /\ elements'[stack'[n + 1]].level = level
      /\ Len(elements) + 1 \in Headings'
  BY <1>2, <1>3, <1>4
<1>10. Nested'
  <2>1. \A k \in 1..Len(stack') : stack'[k] \in Headings'
    BY <1>1, <1>2, <1>3, <1>8, <1>9
  <2>2. ASSUME NEW j \in 1..Len(stack'), NEW k \in 1..Len(stack'), j < k
        PROVE  stack'[j] < stack'[k] /\ elements'[stack'[j]].level < elements'[stack'[k]].level
    <3>1. j \in 1..n /\ j \in 1..Len(stack)
      BY <1>1, <1>2, <2>2
    <3>2. CASE k \in 1..n
      <4>1. k \in 1..Len(stack)
        BY <1>1, <3>2
      <4>2. stack[j] < stack[k] /\ elements[stack[j]].level < elements[stack[k]].level
        BY <2>2, <3>1, <4>1 DEF Nested
      <4> QED
        BY <1>8, <3>1, <3>2, <4>2
    <3>3. CASE k = n + 1
      <4>1. stack[j] \in Nat /\ stack[j] <= Len(elements)
        BY <1>1, <1>8, <3>1, ElementOfSeq
      <4>2. stack'[j] < Len(elements) + 1
        BY <1>1, <1>8, <3>1, <4>1
      <4>3. elements'[stack'[j]].level < level
        BY <1>8, <3>1
      <4> QED
        BY <1>9, <3>3, <4>2, <4>3
    <3>4. k \in 1..n \/ k = n + 1
      BY <1>1, <1>2, <2>2
    <3> QED
      BY <3>2, <3>3, <3>4
  <2>3. ASSUME NEW h \in Headings'
        PROVE  \E k \in 1..Len(stack') :
                  h <= stack'[k] /\ elements'[stack'[k]].level <= elements'[h].level
    <3>1. n + 1 \in 1..Len(stack')
      BY <1>1, <1>2
    <3>2. CASE h = Len(elements) + 1
      BY <1>1, <1>9, <3>1, <3>2
    <3>3. CASE h \in Headings
      <4>1. PICK k \in 1..Len(stack) :
                h <= stack[k] /\ elements[stack[k]].level <= elements[h].level
        BY <3>3 DEF Nested
      <4>2. CASE k <= n
        <5>1. k \in 1..n /\ k \in 1..Len(stack')
          BY <1>1, <1>2, <4>2
        <5> QED
          BY <1>3, <1>8, <3>3, <4>1, <5>1
      <4>3. CASE k > n
        <5>1. elements[stack[k]].level >= level /\ stack[k] \in Headings
          BY <1>1, <1>2, <4>3 DEF Nested
        <5>2. level <= elements'[h].level /\ h <= Len(elements) + 1
          BY <1>1, <1>3, <1>4, <3>3, <4>1, <5>1
        <5> QED
          BY <1>9, <3>1, <5>2
      <4> QED
        BY <1>1, <4>2, <4>3
    <3> QED
      BY <1>3, <3>2, <3>3
  <2>4. heading' = IF stack' = <<>> THEN 0 ELSE stack'[Len(stack')]
    BY <1>1, <1>2, EmptySeq
  <2> QED
    BY <2>1, <2>2, <2>3, <2>4 DEF Nested
<1> QED
  BY <1>7, <1>10

-----------------------------------------------------------------------------
(* A set of numbers has a least one, and a bounded one a largest one.      *)
LEMMA LeastOf ==
    ASSUME NEW T \in SUBSET Nat, T # {}
    PROVE  \E x \in T : \A y \in T : x <= y
<1>1. PICK x \in T : \A y \in T : ~ (<<y, x>> \in OpToRel(<, Nat))
  BY NatLessThanWellFounded, WFMin
<1>2. \A y \in T : ~ (y < x)
  BY <1>1 DEF OpToRel
<1>3. x \in T /\ T \subseteq Nat
  OBVIOUS
<1> QED
  BY ONLY <1>2, <1>3

LEMMA LargestOf ==
    ASSUME NEW T \in SUBSET Nat, T # {}, NEW n \in Nat, \A x \in T : x <= n
    PROVE  Max(T) \in T /\ \A x \in T : x <= Max(T)
<1> DEFINE U == {m \in Nat : \A x \in T : x <= m}
<1>1. PICK m \in U : \A k \in U : m <= k
  <2>1. U \in SUBSET Nat /\ n \in U
    OBVIOUS
  <2> HIDE DEF U
  <2> QED
    BY <2>1, LeastOf
<1>2. m \in T
  <2> SUFFICES ASSUME m \notin T PROVE FALSE
    OBVIOUS
  <2>1. \A x \in T : x \in Nat /\ x < m
    BY <1>1
  <2>2. m \in Nat \ {0}
    <3>1. PICK x \in T : TRUE
      OBVIOUS
    <3>2. m \in Nat /\ x \in Nat /\ x < m
      BY <1>1, <2>1
    <3> QED
      BY ONLY <3>2
  <2>3. m - 1 \in U
    BY <2>1, <2>2
  <2> QED
    BY <1>1, <2>2, <2>3
<1>3. \E x \in T : \A y \in T : x >= y
  BY <1>1, <1>2
<1> QED
  BY <1>3 DEF Max

(* A paragraph is a run of lines, up to where the next one begins.         *)
LEMMA ParagraphRuns ==
    ASSUME ExtractorTypeOK, NEW i \in Numbers
    PROVE  /\ Max(Paragraph(i)) \in Numbers /\ i <= Max(Paragraph(i))
           /\ Paragraph(i) = i..Max(Paragraph(i))
           /\ Max(Paragraph(i)) + 1 \in Numbers => Begins(Max(Paragraph(i)) + 1)
<1>1. Len(doc.lines) \in Nat /\ Numbers = 1..Len(doc.lines)
  BY DocumentTyped
<1>2. Paragraph(i) \in SUBSET Nat /\ i \in Paragraph(i)
      /\ \A j \in Paragraph(i) : j <= Len(doc.lines)
  BY <1>1 DEF Paragraph
<1> DEFINE m == Max(Paragraph(i))
<1>3. m \in Paragraph(i) /\ \A j \in Paragraph(i) : j <= m
  BY <1>1, <1>2, LargestOf
<1>4. m \in Numbers /\ i <= m /\ \A k \in (i + 1)..m : ~Begins(k)
  BY <1>3 DEF Paragraph
<1> HIDE DEF m
<1>5. Paragraph(i) = i..m
  <2>1. \A j \in i..m : j \in Paragraph(i)
    BY <1>1, <1>4 DEF Paragraph
  <2>2. \A j \in Paragraph(i) : j \in i..m
    BY <1>1, <1>2, <1>3, <1>4 DEF Paragraph
  <2> QED
    BY <2>1, <2>2
<1>6. ASSUME m + 1 \in Numbers, ~Begins(m + 1)
      PROVE  FALSE
  <2>1. m + 1 \in Paragraph(i)
    BY <1>1, <1>4, <1>6 DEF Paragraph
  <2> QED
    BY <1>1, <1>3, <1>4, <2>1
<1> QED
  BY <1>4, <1>5, <1>6 DEF m

(* What AddContent and a saved section add.                                *)
LEMMA ContentAdded ==
    ASSUME ExtractorTypeOK, NEW type \in {"paragraph", "list_item", "table"},
           NEW src \in SUBSET Nat, AddContent(type, src)
    PROVE  \E e \in ElementSet :
            /\ e.type = type /\ e.parent = heading /\ e.src = src
            /\ elements' = Append(elements, e) /\ elements' \in Seq(ElementSet)
            /\ UNCHANGED <<stack, heading>>
<1> DEFINE e == Element(type, 0, heading, src)
<1>1. /\ e \in ElementSet /\ e.type = type /\ e.parent = heading /\ e.src = src
  BY ElementTyped DEF Types, ExtractorTypeOK
<1>2. elements \in Seq(ElementSet)
  BY DEF ExtractorTypeOK, ElementSet
<1> QED
  BY <1>1, <1>2, OneMore DEF AddContent

LEMMA SectionSaved ==
    ASSUME ExtractorTypeOK
    PROVE  /\ section = 0 => Saved = elements
           /\ section # 0 => \E h, e \in ElementSet :
                /\ h.type = "heading" /\ h.level = 1 /\ h.parent = 0 /\ h.src = {section}
                /\ e.type = "paragraph" /\ e.parent = Len(elements) + 1 /\ e.src = part
                /\ Saved = IF part = {} THEN Append(elements, h) ELSE Append(Append(elements, h), e)
           /\ Saved \in Seq(ElementSet)
<1>1. elements \in Seq(ElementSet) /\ Len(elements) \in Nat
  BY LenProperties DEF ExtractorTypeOK, ElementSet
<1>2. section \in Nat /\ part \in SUBSET Nat
  BY DEF ExtractorTypeOK
<1> DEFINE h == Element("heading", 1, 0, {section})
           e == Element("paragraph", 0, Len(elements) + 1, part)
<1>3. /\ h \in ElementSet /\ h.type = "heading" /\ h.level = 1 /\ h.parent = 0
      /\ h.src = {section}
  BY <1>2, ElementTyped DEF Types
<1>4. /\ e \in ElementSet /\ e.type = "paragraph" /\ e.parent = Len(elements) + 1
      /\ e.src = part
  BY <1>1, <1>2, ElementTyped DEF Types
<1>5. section = 0 => Saved = elements
  BY DEF Saved
<1>6. section # 0 => Saved = elements \o (<<h>> \o (IF part = {} THEN <<>> ELSE <<e>>))
  BY DEF Saved, Section
<1> HIDE DEF h, e
<1>7. <<h>> \in Seq(ElementSet) /\ <<e>> \in Seq(ElementSet)
  BY <1>3, <1>4
<1>8. Append(elements, h) = elements \o <<h>> /\ Append(elements, h) \in Seq(ElementSet)
  BY <1>1, <1>3, AppendIsConcat, OneMore
<1>9. Append(Append(elements, h), e) = elements \o (<<h>> \o <<e>>)
      /\ Append(Append(elements, h), e) \in Seq(ElementSet)
  <2>1. Append(Append(elements, h), e) = Append(elements, h) \o <<e>>
    BY <1>4, <1>8, AppendIsConcat
  <2>2. (elements \o <<h>>) \o <<e>> = elements \o (<<h>> \o <<e>>)
    BY <1>1, <1>7, ConcatAssociative
  <2> QED
    BY <1>4, <1>8, <2>1, <2>2, OneMore
<1>10. <<h>> \o <<>> = <<h>>
  BY <1>7, ConcatEmptySeq
<1>11. section # 0 =>
         Saved = IF part = {} THEN Append(elements, h) ELSE Append(Append(elements, h), e)
  BY <1>6, <1>8, <1>9, <1>10
<1> QED
  BY <1>1, <1>3, <1>4, <1>5, <1>8, <1>9, <1>11

-----------------------------------------------------------------------------
(* What the steps have in common.                                          *)
LEMMA StateTyped ==
    ASSUME ExtractorInv
    PROVE  /\ elements \in Seq(ElementSet) /\ Len(elements) \in Nat
           /\ DOMAIN elements = 1..Len(elements)
           /\ stack \in Seq(Nat) /\ next \in Nat \ {0} /\ heading \in Nat /\ section \in Nat
           /\ title \in Nat /\ preamble \in SUBSET Nat /\ part \in SUBSET Nat
           /\ doc \in Documents /\ stage \in Stages /\ over \in BOOLEAN
           /\ \A i \in DOMAIN elements : elements[i] \in ElementSet /\ elements[i].src \in SUBSET Nat
<1>1. elements \in Seq(ElementSet) /\ ExtractorTypeOK
  BY DEF ExtractorInv, ExtractorTypeOK, ElementSet
<1>2. \A i \in 1..Len(elements) : elements[i] \in ElementSet
  BY <1>1, ElementOfSeq
<1>3. \A e \in ElementSet : e.src \in SUBSET Nat
  BY DEF ElementSet
<1>4. Len(elements) \in Nat /\ DOMAIN elements = 1..Len(elements)
  BY <1>1, LenProperties
<1>5. next \in Nat \ {0}
  BY <1>1, DocumentTyped DEF ExtractorInv, Place
<1> QED
  BY <1>1, <1>2, <1>3, <1>4, <1>5 DEF ExtractorTypeOK

LEMMA NextTyped ==
    ASSUME doc' \in Documents, stage' \in Stages, over' \in BOOLEAN,
           elements' \in Seq(ElementSet), stack' \in Seq(Nat), next' \in Nat,
           heading' \in Nat, section' \in Nat, title' \in Nat,
           preamble' \in SUBSET Nat, part' \in SUBSET Nat
    PROVE  ExtractorTypeOK'
BY DEF ExtractorTypeOK, ElementSet

(* The loops over the items and over the lines are at one of them.         *)
LEMMA AtOne ==
    ASSUME ExtractorInv
    PROVE  /\ stage = "docling" /\ next <= Len(doc.items) => next \in DOMAIN doc.items
           /\ next \in DOMAIN doc.items => Item.level \in Nat
           /\ next \in Numbers => Line.level \in Nat
BY StateTyped, DocumentTyped DEF ExtractorInv, Item, Line, line

(* What a step does to the elements, whatever parser takes it: it opens a  *)
(* heading, adds content under the current one, saves a section or leaves  *)
(* them alone.                                                             *)
Opened ==
    /\ stage \in {"docling", "headings"} /\ ~over
    /\ \E level \in Nat : AddHeading(level, {next})
    /\ next' = next + 1
    /\ UNCHANGED <<doc, stage, over, preamble, section, part, title>>

Filled ==
    /\ stage # "pattern" /\ ~over
    /\ \E type \in {"paragraph", "list_item", "table"} :
        \/ /\ AddContent(type, {next})
           /\ stage # "paragraphs" /\ next' = next + 1
        \/ /\ AddContent(type, Paragraph(next)) /\ next \in Numbers
           /\ stage = "paragraphs" /\ next' = Max(Paragraph(next)) + 1
    /\ UNCHANGED <<doc, stage, over, preamble, section, part, title>>

LEMMA HeadingSteps ==
    ASSUME ExtractorInv, HeaderItem \/ (HeadingLine /\ ~Spurious(next))
    PROVE  Opened
<1>1. CASE HeaderItem
  <2>1. next \in DOMAIN doc.items
    BY <1>1, AtOne DEF HeaderItem, AtItem
  <2> QED
    BY <1>1, <2>1, AtOne DEF HeaderItem, AtItem, Opened
<1>2. CASE HeadingLine /\ ~Spurious(next)
  <2>1. Line.level \in Nat
    BY <1>2, AtOne DEF HeadingLine, AtLine
  <2> QED
    BY <1>2, <2>1 DEF HeadingLine, AtLine, Opened
<1> QED
  BY <1>1, <1>2

LEMMA ContentSteps ==
    ASSUME ExtractorInv,
           \/ ContentItem /\ Item.text = "full"
           \/ ContentLine /\ heading # 0
           \/ ParagraphLines /\ Long(Paragraph(next))
    PROVE  Filled
<1>1. CASE ContentItem /\ Item.text = "full"
  <2>1. (IF Item.label = "text" THEN "paragraph" ELSE Item.label)
            \in {"paragraph", "list_item", "table"}
    BY <1>1 DEF ContentItem, AtItem
  <2> QED
    BY <1>1, <2>1 DEF ContentItem, AtItem, Filled
<1>2. CASE ContentLine /\ heading # 0
  BY <1>2 DEF ContentLine, AtLine, Filled
<1>3. CASE ParagraphLines /\ Long(Paragraph(next))
  BY <1>3 DEF ParagraphLines, Filled
<1> QED
  BY <1>1, <1>2, <1>3

(* A parser that found nothing gives way to the next one.                  *)
LEMMA StartsAnew ==
    ASSUME NEW s \in Stages, Start(s), ExtractorInv, UNCHANGED <<doc, title>>, elements' = <<>>
    PROVE  /\ ExtractorTypeOK' /\ HierarchyCorrect' /\ Ordered'
           /\ Headings' = {} /\ Covered' = {} /\ Pending' = {} /\ Nested'
<1>1. elements' \in Seq(ElementSet) /\ Len(elements') = 0 /\ DOMAIN elements' = {}
  OBVIOUS
<1>2. stack' \in Seq(Nat) /\ Len(stack') = 0
  BY DEF Start
<1>3. ExtractorTypeOK'
  <2>1. next' \in Nat /\ heading' \in Nat /\ section' \in Nat /\ over' \in BOOLEAN
        /\ preamble' \in SUBSET Nat /\ part' \in SUBSET Nat /\ stage' \in Stages
    BY DEF Start
  <2>2. title' \in Nat /\ doc' \in Documents
    BY StateTyped
  <2> QED
    BY <1>1, <1>2, <2>1, <2>2, NextTyped
<1>4. Headings' = {} /\ Covered' = {} /\ Pending' = {}
  BY <1>1 DEF Headings, Covered, Pending, Start
<1>5. HierarchyCorrect' /\ Ordered'
  BY <1>1 DEF HierarchyCorrect, Ordered, SourceOrder
<1>6. Nested'
  BY <1>2, <1>4 DEF Nested, Start
<1> QED
  BY <1>3, <1>4, <1>5, <1>6

-----------------------------------------------------------------------------
(* The types.                                                              *)
LEMMA OpenedTyped ==
    ASSUME ExtractorInv, Opened
    PROVE  ExtractorTypeOK'
<1>1. PICK level \in Nat : AddHeading(level, {next})
  BY DEF Opened
<1>2. ExtractorTypeOK /\ Nested /\ {next} \in SUBSET Nat
  BY StateTyped DEF ExtractorInv, Shape, Opened
<1>3. elements' \in Seq(ElementSet) /\ stack' \in Seq(Nat) /\ heading' = Len(elements) + 1
  BY <1>1, <1>2, HeadingAdded DEF HeadingAt
<1> QED
  BY <1>3, StateTyped, NextTyped DEF Opened

LEMMA FilledTyped ==
    ASSUME ExtractorInv, Filled
    PROVE  /\ ExtractorTypeOK'
           /\ \E type \in {"paragraph", "list_item", "table"}, src \in SUBSET Nat :
                /\ AddContent(type, src)
                /\ src # {} /\ \A i \in src : next <= i /\ i < next'
                /\ src = IF stage = "paragraphs" THEN Paragraph(next) ELSE {next}
<1>1. PICK type \in {"paragraph", "list_item", "table"} :
        \/ /\ AddContent(type, {next})
           /\ stage # "paragraphs" /\ next' = next + 1
        \/ /\ AddContent(type, Paragraph(next)) /\ next \in Numbers
           /\ stage = "paragraphs" /\ next' = Max(Paragraph(next)) + 1
  BY DEF Filled
<1> DEFINE src == IF stage = "paragraphs" THEN Paragraph(next) ELSE {next}
<1>2. /\ src \in SUBSET Nat /\ AddContent(type, src) /\ next' \in Nat
      /\ src # {} /\ \A i \in src : next <= i /\ i < next'
  <2>1. CASE stage # "paragraphs"
    BY <1>1, <2>1, StateTyped
  <2>2. CASE stage = "paragraphs"
    <3>1. /\ Max(Paragraph(next)) \in Numbers /\ next <= Max(Paragraph(next))
          /\ Paragraph(next) = next..Max(Paragraph(next))
      BY <1>1, <2>2, ParagraphRuns DEF ExtractorInv
    <3>2. Max(Paragraph(next)) \in Nat
      BY <3>1, DocumentTyped DEF ExtractorInv
    <3> DEFINE m == Max(Paragraph(next))
    <3>3. src = next..m /\ next' = m + 1 /\ AddContent(type, src)
      BY <1>1, <2>2, <3>1
    <3> HIDE DEF m, src
    <3> QED
      BY <3>1, <3>2, <3>3, StateTyped DEF m
  <2> QED
    BY <2>1, <2>2
<1>3. elements' \in Seq(ElementSet) /\ UNCHANGED <<stack, heading>>
  BY <1>2, ContentAdded DEF ExtractorInv
<1>4. ExtractorTypeOK'
  BY <1>2, <1>3, StateTyped, NextTyped DEF Filled
<1> QED
  BY <1>2, <1>4

LEMMA ExtractorTyped ==
    ASSUME ExtractorInv, [ExtractorNext]_extractorVars
    PROVE  ExtractorTypeOK'
<1>1. CASE HeaderItem \/ (HeadingLine /\ ~Spurious(next))
  BY <1>1, HeadingSteps, OpenedTyped
<1>2. CASE \/ ContentItem /\ Item.text = "full"
           \/ ContentLine /\ heading # 0
           \/ ParagraphLines /\ Long(Paragraph(next))
  BY <1>2, ContentSteps, FilledTyped
<1>3. CASE \/ ContentItem /\ Item.text # "full"
           \/ HeadingLine /\ Spurious(next)
           \/ ContentLine /\ heading = 0
           \/ DroppedItem \/ SectionLine
  BY <1>3, StateTyped, NextTyped
  DEF ContentItem, HeadingLine, ContentLine, DroppedItem, SectionLine, AtItem, AtLine
<1>4. CASE ParagraphLines /\ ~Long(Paragraph(next))
  <2>1. Max(Paragraph(next)) \in Numbers
    BY <1>4, ParagraphRuns DEF ExtractorInv, ParagraphLines
  <2>2. next' \in Nat
    BY <1>4, <2>1, DocumentTyped DEF ExtractorInv, ParagraphLines
  <2> QED
    BY <1>4, <2>2, StateTyped, NextTyped DEF ParagraphLines
<1>5. CASE OpeningLine
  <2>1. Saved \in Seq(ElementSet)
    BY SectionSaved DEF ExtractorInv
  <2> QED
    BY <1>5, <2>1, StateTyped, NextTyped DEF OpeningLine, AtLine
<1>6. CASE DoclingOver \/ HeadingsOver
  <2>1. CASE elements = <<>>
    BY <1>6, <2>1, StartsAnew DEF DoclingOver, HeadingsOver, Stages
  <2>2. CASE elements # <<>>
    BY <1>6, <2>2, StateTyped, NextTyped DEF DoclingOver, HeadingsOver, Return
  <2> QED
    BY <2>1, <2>2
<1>7. CASE PatternOver
  <2>1. Saved \in Seq(ElementSet)
    BY SectionSaved DEF ExtractorInv
  <2>2. CASE Saved = <<>>
    BY <1>7, <2>2, StartsAnew DEF PatternOver, Stages
  <2>3. CASE Saved # <<>>
    BY <1>7, <2>1, <2>3, StateTyped, NextTyped DEF PatternOver, Return
  <2> QED
    BY <2>2, <2>3
<1>8. CASE ParagraphsOver
  BY <1>8, StateTyped, NextTyped DEF ParagraphsOver, Return
<1>9. CASE UNCHANGED extractorVars
  BY <1>9, StateTyped, NextTyped DEF extractorVars
<1> QED
  BY <1>1, <1>2, <1>3, <1>4, <1>5, <1>6, <1>7, <1>8, <1>9 DEF ExtractorNext, Extracted

-----------------------------------------------------------------------------
(* The hierarchy.                                                          *)

(* The current heading is the last one, at each stage that adds content.   *)
LEMMA CurrentIsLast ==
    ASSUME ExtractorInv, stage # "pattern"
    PROVE  IF heading = 0 THEN Headings = {}
           ELSE heading \in Headings /\ \A h \in Headings : h <= heading
<1>1. CASE stage = "paragraphs"
  BY <1>1 DEF ExtractorInv, Shape
<1>2. CASE stage \in {"docling", "headings"}
  <2>1. Nested
    BY <1>2 DEF ExtractorInv, Shape
  <2>2. Headings \subseteq Nat \ {0}
    BY StateTyped DEF Headings
  <2>3. CASE stack = <<>>
    BY <2>1, <2>3 DEF Nested
  <2>4. CASE stack # <<>>
    <3>1. Len(stack) \in Nat \ {0}
      BY <2>4, StateTyped, EmptySeq
    <3>2. heading = stack[Len(stack)] /\ heading \in Headings
      BY <2>1, <2>4, <3>1 DEF Nested
    <3>3. ASSUME NEW h \in Headings
          PROVE  h <= heading
      <4>1. PICK k \in 1..Len(stack) : h <= stack[k]
        BY <2>1 DEF Nested
      <4>2. stack[k] \in Headings /\ (k = Len(stack) \/ k < Len(stack))
        BY <2>1, <3>1 DEF Nested
      <4>3. k < Len(stack) => stack[k] < stack[Len(stack)]
        BY <2>1, <3>1 DEF Nested
      <4>4. h \in Nat /\ stack[k] \in Nat /\ heading \in Nat
        BY <2>2, <3>2, <4>2
      <4>5. stack[k] = heading \/ stack[k] < heading
        BY <3>2, <4>2, <4>3
      <4> QED
        BY ONLY <4>1, <4>4, <4>5
    <3> QED
      BY <2>2, <3>2, <3>3
  <2> QED
    BY <2>3, <2>4
<1> QED
  BY <1>1, <1>2, StateTyped DEF Stages

LEMMA OpenedHangs ==
    ASSUME ExtractorInv, Opened
    PROVE  Shape' /\ HierarchyCorrect'
<1>1. PICK level \in Nat : AddHeading(level, {next})
  BY DEF Opened
<1>2. ExtractorTypeOK /\ Nested /\ HierarchyCorrect /\ {next} \in SUBSET Nat
  BY StateTyped DEF ExtractorInv, Shape, Opened
<1>3. Nested' /\ HierarchyCorrect'
  BY <1>1, <1>2, HeadingHangs
<1> QED
  BY <1>3 DEF Shape, Opened

LEMMA FilledHangs ==
    ASSUME ExtractorInv, Filled
    PROVE  Shape' /\ HierarchyCorrect'
<1>1. PICK type \in {"paragraph", "list_item", "table"}, src \in SUBSET Nat : AddContent(type, src)
  BY FilledTyped
<1>2. PICK e \in ElementSet :
        /\ e.type = type /\ e.parent = heading /\ e.src = src
        /\ elements' = Append(elements, e) /\ elements' \in Seq(ElementSet)
        /\ UNCHANGED <<stack, heading>>
  BY <1>1, ContentAdded DEF ExtractorInv
<1>3. Headings = {h \in Headings : e.type = "heading" => elements[h].level < e.level}
  BY <1>2
<1>4. IF e.parent = 0 THEN Headings = {}
      ELSE e.parent \in Headings /\ \A h \in Headings : h <= e.parent
  BY <1>2, CurrentIsLast DEF Filled
<1>5. HierarchyCorrect'
  BY <1>2, <1>3, <1>4, StateTyped, HierarchyAfter, HierarchyOfList, HierarchyOfNext
     DEF ExtractorInv
<1>6. Headings' = Headings /\ \A h \in Headings : elements'[h] = elements[h]
  BY <1>2, StateTyped, HeadingsAfter, HierarchyOfList, HierarchyOfNext
<1>7. Nested => Nested'
  BY <1>2, <1>6 DEF Nested
<1> QED
  BY <1>2, <1>5, <1>6, <1>7 DEF Shape, Filled, ExtractorInv

(* A saved section is a heading of the first level under none, and its     *)
(* text under it.                                                          *)
LEMMA SavedHangs ==
    ASSUME ExtractorInv, stage = "pattern"
    PROVE  HierarchyIn(Saved) /\ \A h \in HeadingsIn(Saved) : Saved[h].level = 1
<1>1. /\ HierarchyIn(elements)
      /\ \A h \in HeadingsIn(elements) : elements[h].level = 1
      /\ elements \in Seq(ElementSet)
  BY HierarchyOfList, StateTyped DEF ExtractorInv, Shape
<1>2. CASE section = 0
  BY <1>1, <1>2, SectionSaved DEF ExtractorInv
<1>3. CASE section # 0
  <2>1. PICK h \in ElementSet, e \in ElementSet :
          /\ h.type = "heading" /\ h.level = 1 /\ h.parent = 0 /\ h.src = {section}
          /\ e.type = "paragraph" /\ e.parent = Len(elements) + 1 /\ e.src = part
          /\ Saved = IF part = {} THEN Append(elements, h) ELSE Append(Append(elements, h), e)
    BY <1>3, SectionSaved DEF ExtractorInv
  <2> DEFINE t == Append(elements, h)
             Over == {x \in HeadingsIn(elements) :
                        h.type = "heading" => elements[x].level < h.level}
  <2>2. /\ t \in Seq(ElementSet) /\ Len(t) = Len(elements) + 1 /\ Len(elements) \in Nat
        /\ t[Len(elements) + 1] = h /\ Append(t, e) \in Seq(ElementSet)
    BY <1>1, <2>1, OneMore
  <2>3. HierarchyIn(t)
    <3>1. Over = {}
      BY <1>1, <2>1
    <3> HIDE DEF t
    <3> QED
      BY <1>1, <2>1, <3>1, HierarchyAfter DEF t
  <2>4. /\ HeadingsIn(elements) \subseteq 1..Len(elements)
        /\ HeadingsIn(t) = HeadingsIn(elements) \cup {Len(elements) + 1}
        /\ \A x \in HeadingsIn(elements) : t[x] = elements[x]
    BY <1>1, <2>1, HeadingsAfter
  <2> HIDE DEF t, Over
  <2>5. \A x \in HeadingsIn(t) : t[x].level = 1 /\ x <= Len(elements) + 1
    BY <1>1, <2>1, <2>2, <2>4
  <2>6. HierarchyIn(Append(t, e))
    <3>1. HeadingsIn(t) = {x \in HeadingsIn(t) : e.type = "heading" => t[x].level < e.level}
      BY <2>1
    <3>2. e.parent # 0 /\ e.parent \in HeadingsIn(t) /\ \A x \in HeadingsIn(t) : x <= e.parent
      BY <2>1, <2>2, <2>4, <2>5
    <3> QED
      BY <2>2, <2>3, <3>1, <3>2, HierarchyAfter
  <2>7. HeadingsIn(Append(t, e)) = HeadingsIn(t)
        /\ \A x \in HeadingsIn(t) : Append(t, e)[x] = t[x]
    BY <2>1, <2>2, HeadingsAfter
  <2> QED
    BY <2>1, <2>3, <2>5, <2>6, <2>7 DEF t
<1> QED
  BY <1>2, <1>3

LEMMA HierarchyStep ==
    ASSUME ExtractorInv, [ExtractorNext]_extractorVars
    PROVE  Shape' /\ HierarchyCorrect'
<1>1. CASE HeaderItem \/ (HeadingLine /\ ~Spurious(next))
  BY <1>1, HeadingSteps, OpenedHangs
<1>2. CASE \/ ContentItem /\ Item.text = "full"
           \/ ContentLine /\ heading # 0
           \/ ParagraphLines /\ Long(Paragraph(next))
  BY <1>2, ContentSteps, FilledHangs
<1>3. CASE UNCHANGED <<stage, elements, stack, heading>>
  <2>1. Headings' = Headings /\ (Nested' <=> Nested) /\ (HierarchyCorrect' <=> HierarchyCorrect)
    BY <1>3 DEF Headings, Nested, HierarchyCorrect, Above
  <2> QED
    BY <1>3, <2>1 DEF Shape, ExtractorInv
<1>4. CASE stage = "pattern" /\ elements' = Saved /\ stage' = stage
  <2>1. HierarchyCorrect' /\ \A h \in Headings' : elements'[h].level = 1
    BY <1>4, SavedHangs, HierarchyOfNext
  <2> QED
    BY <1>4, <2>1 DEF Shape
<1>5. CASE /\ (DoclingOver \/ HeadingsOver) /\ elements = <<>>
  <2>1. Nested' /\ Headings' = {} /\ HierarchyCorrect' /\ heading' = 0
    BY <1>5, StartsAnew DEF DoclingOver, HeadingsOver, Stages, Start
  <2> QED
    BY <2>1 DEF Shape
<1>6. CASE PatternOver /\ Saved = <<>>
  <2>1. Nested' /\ Headings' = {} /\ HierarchyCorrect' /\ heading' = 0
    BY <1>6, StartsAnew DEF PatternOver, Stages, Start
  <2> QED
    BY <2>1 DEF Shape
<1>7. CASE (DoclingOver \/ HeadingsOver) /\ elements # <<>>
  BY <1>3, <1>7 DEF DoclingOver, HeadingsOver, Return
<1>8. CASE (PatternOver /\ Saved # <<>>) \/ OpeningLine
  BY <1>4, <1>8 DEF PatternOver, OpeningLine, AtLine, Return
<1>9. CASE \/ ContentItem /\ Item.text # "full"
           \/ HeadingLine /\ Spurious(next)
           \/ ContentLine /\ heading = 0
           \/ DroppedItem \/ SectionLine
  BY <1>3, <1>9 DEF ContentItem, HeadingLine, ContentLine, DroppedItem, SectionLine, AtItem, AtLine
<1>10. CASE (ParagraphLines /\ ~Long(Paragraph(next))) \/ ParagraphsOver \/ UNCHANGED extractorVars
  BY <1>3, <1>10 DEF ParagraphLines, ParagraphsOver, Return, extractorVars
<1> QED
  BY <1>1, <1>2, <1>5, <1>6, <1>7, <1>8, <1>9, <1>10 DEF ExtractorNext, Extracted

-----------------------------------------------------------------------------
(* What a document is does not change while it is parsed.                  *)
LongIn(d, paragraph) == MapThenSumSet(LAMBDA i : d.lines[i].words, paragraph) >= MinWords

LEMMA LongOfDocument == \A paragraph : Long(paragraph) = LongIn(doc, paragraph)
BY DEF Long, LongIn, line

LEMMA LongOfNext == \A paragraph : Long(paragraph)' = LongIn(doc', paragraph)
<1>1. (\A paragraph : Long(paragraph) = LongIn(doc, paragraph))'
  BY LongOfDocument, PTL
<1> QED
  BY <1>1

LEMMA DocumentStays ==
    ASSUME UNCHANGED doc
    PROVE  /\ Numbers' = Numbers /\ Accepted' = Accepted
           /\ \A i : /\ line(i)' = line(i)
                     /\ Spurious(i)' = Spurious(i) /\ Opens(i)' = Opens(i)
                     /\ Begins(i)' = Begins(i) /\ Paragraph(i)' = Paragraph(i)
                     /\ Long(Paragraph(i))' = Long(Paragraph(i))
<1>1. Numbers' = Numbers /\ \A i : line(i)' = line(i)
  BY DEF Numbers, line
<1>2. \A i : Spurious(i)' = Spurious(i)
  BY <1>1 DEF Spurious
<1>3. \A p : Ids(p)' = Ids(p)
  BY <1>1 DEF Ids
<1>4. Accepted' = Accepted
  BY <1>3 DEF Accepted
<1>5. \A i : Opens(i)' = Opens(i)
  BY <1>1, <1>4 DEF Opens
<1>6. \A i : Begins(i)' = Begins(i)
  BY <1>1 DEF Begins
<1>7. \A i : Paragraph(i)' = Paragraph(i)
  BY <1>1, <1>6 DEF Paragraph
<1>8. \A i : Long(Paragraph(i))' = Long(Paragraph(i))
  BY <1>7, LongOfDocument, LongOfNext
<1> QED
  BY <1>1, <1>2, <1>4, <1>5, <1>6, <1>7, <1>8

-----------------------------------------------------------------------------
(* Where the loops are.                                                    *)
LEMMA PlaceStep ==
    ASSUME ExtractorInv, [ExtractorNext]_extractorVars
    PROVE  Place'
<1>1. /\ Len(doc.items) \in Nat /\ Len(doc.lines) \in Nat /\ Numbers = 1..Len(doc.lines)
      /\ next \in Nat \ {0} /\ section \in Nat /\ stage \in Stages
  BY DocumentTyped, StateTyped DEF ExtractorInv
<1>2. Place
  BY DEF ExtractorInv
<1>3. CASE /\ UNCHANGED <<doc, stage, over>> /\ ~over /\ stage # "pattern"
           /\ next < next' /\ next' \in Nat
           /\ next' <= (IF stage = "docling" THEN Len(doc.items) ELSE Len(doc.lines)) + 1
  BY <1>1, <1>2, <1>3 DEF Place
<1>4. CASE HeaderItem \/ ContentItem \/ DroppedItem
  BY <1>1, <1>3, <1>4 DEF HeaderItem, ContentItem, DroppedItem, AtItem
<1>5. CASE HeadingLine \/ ContentLine
  BY <1>1, <1>3, <1>5 DEF HeadingLine, ContentLine, AtLine
<1>6. CASE ParagraphLines
  <2>1. next \in Numbers
    BY <1>6 DEF ParagraphLines
  <2>2. Max(Paragraph(next)) \in Numbers /\ next <= Max(Paragraph(next))
    BY <2>1, ParagraphRuns DEF ExtractorInv
  <2>3. /\ UNCHANGED <<doc, stage, over>> /\ ~over /\ stage = "paragraphs"
        /\ next' = Max(Paragraph(next)) + 1
    BY <1>6 DEF ParagraphLines
  <2> QED
    BY <1>1, <1>3, <2>2, <2>3
<1>7. CASE OpeningLine
  BY <1>1, <1>2, <1>7 DEF OpeningLine, AtLine, Place
<1>8. CASE SectionLine
  <2>1. /\ stage = "pattern" /\ ~over /\ next \in Numbers /\ next' = next + 1
        /\ UNCHANGED <<doc, stage, over, elements, section>>
        /\ part' = IF section # 0 THEN part \cup {next} ELSE part
    BY <1>8 DEF SectionLine, AtLine
  <2>2. /\ section < next /\ part \subseteq section..(next - 1)
        /\ section = 0 => elements = <<>> /\ part = {}
    BY <1>2, <2>1 DEF Place
  <2>3. section < next' /\ part' \subseteq section..(next' - 1)
    BY <1>1, <2>1, <2>2
  <2> QED
    BY <1>1, <2>1, <2>2, <2>3 DEF Place
<1>9. CASE \E s \in Stages \ {"docling"} : Start(s) /\ UNCHANGED doc /\ elements' = <<>>
  BY <1>1, <1>9 DEF Start, Place
<1>10. CASE Return /\ UNCHANGED doc /\ (stage # "paragraphs" => elements' # <<>>)
            /\ next = (IF stage = "docling" THEN Len(doc.items) ELSE Len(doc.lines)) + 1
  BY <1>1, <1>10 DEF Return, Place
<1>11. ASSUME next \notin Numbers, stage # "docling"
       PROVE  next = (IF stage = "docling" THEN Len(doc.items) ELSE Len(doc.lines)) + 1
  BY <1>1, <1>2, <1>11 DEF Place
<1>12. CASE DoclingOver
  <2>1. next = Len(doc.items) + 1 /\ stage = "docling"
    BY <1>1, <1>2, <1>12 DEF DoclingOver, Place
  <2> QED
    BY <1>9, <1>10, <1>12, <2>1 DEF DoclingOver, Stages
<1>13. CASE HeadingsOver
  BY <1>9, <1>10, <1>11, <1>13 DEF HeadingsOver, Stages
<1>14. CASE PatternOver
  BY <1>9, <1>10, <1>11, <1>14 DEF PatternOver, Stages
<1>15. CASE ParagraphsOver
  BY <1>9, <1>10, <1>11, <1>15 DEF ParagraphsOver
<1>16. CASE UNCHANGED extractorVars
  BY <1>2, <1>16 DEF extractorVars, Place
<1> QED
  BY <1>4, <1>5, <1>6, <1>7, <1>8, <1>12, <1>13, <1>14, <1>15, <1>16 DEF ExtractorNext, Extracted

-----------------------------------------------------------------------------
(* The order.                                                              *)
OrderIn(s, sections) ==
    \A i, j \in DOMAIN s : i < j =>
        \A a \in s[i].src, b \in s[j].src : a < b \/ (a = b /\ sections /\ s[j].parent = i)

LEMMA OrderOfList == SourceOrder <=> OrderIn(elements, stage = "pattern")
BY DEF SourceOrder, OrderIn

LEMMA OrderOfNext == SourceOrder' <=> OrderIn(elements', stage' = "pattern")
BY DEF SourceOrder, OrderIn

(* An element more, of what comes after the others.                        *)
LEMMA OrderAfter ==
    ASSUME NEW s \in Seq(ElementSet), NEW e \in ElementSet, NEW sections \in BOOLEAN,
           OrderIn(s, sections),
           \A i \in DOMAIN s : \A a \in s[i].src, b \in e.src :
               a < b \/ (a = b /\ sections /\ e.parent = i)
    PROVE  OrderIn(Append(s, e), sections)
<1> DEFINE t == Append(s, e)
<1>1. /\ Len(s) \in Nat /\ DOMAIN s = 1..Len(s) /\ DOMAIN t = 1..(Len(s) + 1)
      /\ \A i \in 1..Len(s) : t[i] = s[i]
      /\ t[Len(s) + 1] = e
  BY OneMore
<1> HIDE DEF t
<1>2. ASSUME NEW i \in DOMAIN t, NEW j \in DOMAIN t, i < j, NEW a \in t[i].src, NEW b \in t[j].src
      PROVE  a < b \/ (a = b /\ sections /\ t[j].parent = i)
  <2>1. i \in DOMAIN s /\ t[i] = s[i]
    BY <1>1, <1>2
  <2>2. CASE j \in DOMAIN s
    BY <1>1, <1>2, <2>1, <2>2 DEF OrderIn
  <2>3. CASE j = Len(s) + 1
    BY <1>1, <1>2, <2>1, <2>3
  <2> QED
    BY <1>1, <2>2, <2>3
<1> QED
  BY <1>2 DEF OrderIn, t

(* A step that adds one element, of items or lines that were not read yet. *)
LEMMA AddedInOrder ==
    ASSUME ExtractorInv, ~over, stage # "pattern", UNCHANGED stage, next' \in Nat, next < next',
           NEW e \in ElementSet, elements' = Append(elements, e),
           \A b \in e.src : next <= b /\ b < next'
    PROVE  Ordered'
<1>1. /\ Ordered /\ Bound = next /\ next \in Nat
      /\ elements \in Seq(ElementSet) /\ DOMAIN elements = 1..Len(elements)
      /\ \A i \in DOMAIN elements : elements[i].src \subseteq Nat
  BY StateTyped DEF ExtractorInv, Bound
<1>2. \A i \in DOMAIN elements : \A a \in elements[i].src : a \in Nat /\ a < next
  BY <1>1 DEF Ordered
<1>3. e.src \subseteq Nat
  BY DEF ElementSet
<1>4. OrderIn(elements, FALSE)
  BY <1>1, OrderOfList DEF Ordered
<1>5. \A i \in DOMAIN elements : \A a \in elements[i].src, b \in e.src : a < b
  BY <1>1, <1>2, <1>3
<1>6. OrderIn(elements', FALSE)
  BY <1>1, <1>4, <1>5, OrderAfter
<1>7. \A i \in DOMAIN elements' : \A a \in elements'[i].src : a < next'
  <2>1. /\ DOMAIN elements' = 1..(Len(elements) + 1) /\ Len(elements) \in Nat
        /\ \A i \in 1..Len(elements) : elements'[i] = elements[i]
        /\ elements'[Len(elements) + 1] = e
    BY <1>1, OneMore
  <2>2. ASSUME NEW i \in DOMAIN elements', NEW a \in elements'[i].src
        PROVE  a < next'
    <3>1. CASE i \in 1..Len(elements)
      BY <1>1, <1>2, <2>1, <2>2, <3>1
    <3>2. CASE i = Len(elements) + 1
      BY <2>1, <2>2, <3>2
    <3> QED
      BY <2>1, <3>1, <3>2
  <2> QED
    BY <2>2
<1> QED
  BY <1>6, <1>7, OrderOfNext DEF Ordered, Bound

LEMMA SavedInOrder ==
    ASSUME ExtractorInv, ~over, stage = "pattern"
    PROVE  /\ OrderIn(Saved, TRUE)
           /\ \A i \in DOMAIN Saved : \A a \in Saved[i].src : a < next
<1>1. /\ Ordered /\ Place /\ next \in Nat /\ section \in Nat /\ part \subseteq Nat
      /\ elements \in Seq(ElementSet) /\ DOMAIN elements = 1..Len(elements)
      /\ Len(elements) \in Nat
      /\ \A i \in DOMAIN elements : elements[i].src \subseteq Nat
  BY StateTyped DEF ExtractorInv
<1>2. /\ section < next /\ part \subseteq section..(next - 1)
      /\ OrderIn(elements, TRUE)
  BY <1>1, OrderOfList DEF Ordered, Place
<1>3. CASE section = 0
  <2>1. Saved = elements /\ elements = <<>>
    BY <1>1, <1>3, SectionSaved DEF Place, ExtractorInv
  <2>2. DOMAIN Saved = {}
    BY <2>1
  <2> QED
    BY <1>2, <2>1, <2>2
<1>4. CASE section # 0
  <2>1. PICK h \in ElementSet, e \in ElementSet :
          /\ h.type = "heading" /\ h.level = 1 /\ h.parent = 0 /\ h.src = {section}
          /\ e.type = "paragraph" /\ e.parent = Len(elements) + 1 /\ e.src = part
          /\ Saved = IF part = {} THEN Append(elements, h) ELSE Append(Append(elements, h), e)
    BY <1>4, SectionSaved DEF ExtractorInv
  <2>0. \A b \in e.src : b \in Nat /\ section <= b /\ b < next
    <3>1. e.src = part
      BY <2>1
    <3>2. \A b \in part : b \in section..(next - 1)
      BY <1>2
    <3>3. section \in Nat /\ next \in Nat
      BY <1>1
    <3>4. \A b \in part : b \in Nat /\ section <= b /\ b < next
      BY ONLY <3>2, <3>3
    <3> QED
      BY ONLY <3>1, <3>4
  <2> DEFINE t == Append(elements, h)
  <2>2. \A i \in DOMAIN elements : \A a \in elements[i].src : a \in Nat /\ a < section
    BY <1>1, <1>4 DEF Ordered, Bound
  <2>3. OrderIn(t, TRUE)
    <3>1. \A i \in DOMAIN elements : \A a \in elements[i].src, b \in h.src : a < b
      BY <2>1, <2>2
    <3> QED
      BY <1>1, <1>2, <2>1, <3>1, OrderAfter
  <2>4. /\ t \in Seq(ElementSet) /\ Len(t) = Len(elements) + 1
        /\ DOMAIN t = 1..(Len(elements) + 1)
        /\ \A i \in 1..Len(elements) : t[i] = elements[i]
        /\ t[Len(elements) + 1] = h
    BY <1>1, <2>1, OneMore
  <2> HIDE DEF t
  <2>5. \A i \in DOMAIN t : \A a \in t[i].src :
            a \in Nat /\ (a < section \/ (a = section /\ i = Len(elements) + 1))
    <3>1. ASSUME NEW i \in DOMAIN t, NEW a \in t[i].src
          PROVE  a \in Nat /\ (a < section \/ (a = section /\ i = Len(elements) + 1))
      <4>1. CASE i \in 1..Len(elements)
        BY <1>1, <2>2, <2>4, <3>1, <4>1
      <4>2. CASE i = Len(elements) + 1
        BY <1>1, <2>1, <2>4, <3>1, <4>2
      <4> QED
        BY <2>4, <4>1, <4>2
    <3> QED
      BY <3>1
  <2>6. OrderIn(Append(t, e), TRUE)
    <3>1. \A b \in e.src : b \in Nat /\ section <= b
      BY <2>0
    <3>2. \A i \in DOMAIN t : \A a \in t[i].src, b \in e.src :
              a < b \/ (a = b /\ TRUE /\ e.parent = i)
      BY <1>1, <2>1, <2>5, <3>1
    <3> QED
      BY <2>3, <2>4, <3>2, OrderAfter
  <2>7. \A i \in DOMAIN t : \A a \in t[i].src : a < next
    BY <1>1, <1>2, <2>5
  <2>8. \A i \in DOMAIN Append(t, e) : \A a \in Append(t, e)[i].src : a < next
    <3>1. /\ DOMAIN Append(t, e) = 1..(Len(t) + 1) /\ DOMAIN t = 1..Len(t)
          /\ \A i \in 1..Len(t) : Append(t, e)[i] = t[i]
          /\ Append(t, e)[Len(t) + 1] = e /\ Len(t) \in Nat
      BY <2>4, OneMore
    <3>2. \A a \in e.src : a < next
      BY <2>0
    <3>3. ASSUME NEW i \in 1..(Len(t) + 1)
          PROVE  \A a \in Append(t, e)[i].src : a < next
      <4>1. CASE i \in 1..Len(t)
        BY <2>7, <3>1, <4>1
      <4>2. CASE i = Len(t) + 1
        BY <3>1, <3>2, <4>2
      <4> QED
        BY <3>1, <4>1, <4>2
    <3> QED
      BY <3>1, <3>3
  <2> QED
    BY <2>1, <2>3, <2>6, <2>7, <2>8 DEF t
<1> QED
  BY <1>3, <1>4

LEMMA OrderedStep ==
    ASSUME ExtractorInv, [ExtractorNext]_extractorVars
    PROVE  Ordered'
<1>1. CASE Opened
  <2>1. PICK level \in Nat : AddHeading(level, {next})
    BY <1>1 DEF Opened
  <2>2. ExtractorTypeOK /\ Nested /\ {next} \in SUBSET Nat
    BY <1>1, StateTyped DEF ExtractorInv, Shape, Opened
  <2>3. PICK e \in ElementSet : e.src = {next} /\ elements' = Append(elements, e)
    BY <2>1, <2>2, HeadingAdded DEF HeadingAt
  <2>4. /\ ~over /\ stage # "pattern" /\ UNCHANGED stage /\ next' \in Nat /\ next < next'
        /\ \A b \in e.src : next <= b /\ b < next'
    BY <1>1, <2>3, StateTyped DEF Opened
  <2> QED
    BY <2>3, <2>4, AddedInOrder
<1>2. CASE Filled
  <2>1. PICK type \in {"paragraph", "list_item", "table"}, src \in SUBSET Nat :
          AddContent(type, src) /\ src # {} /\ \A i \in src : next <= i /\ i < next'
    BY <1>2, FilledTyped
  <2>2. PICK e \in ElementSet : e.src = src /\ elements' = Append(elements, e)
    BY <2>1, ContentAdded DEF ExtractorInv
  <2>3. next' \in Nat
    BY <1>2, FilledTyped DEF ExtractorTypeOK
  <2>4. next < next'
    <3>1. PICK i \in src : next <= i /\ i < next' /\ i \in Nat
      BY <2>1
    <3> QED
      BY <2>3, <3>1, StateTyped
  <2> QED
    BY <1>2, <2>1, <2>2, <2>3, <2>4, AddedInOrder DEF Filled
<1>3. CASE \/ HeaderItem \/ (HeadingLine /\ ~Spurious(next))
           \/ ContentItem /\ Item.text = "full"
           \/ ContentLine /\ heading # 0
           \/ ParagraphLines /\ Long(Paragraph(next))
  BY <1>1, <1>2, <1>3, HeadingSteps, ContentSteps
<1>4. CASE OpeningLine
  <2>1. ~over /\ stage = "pattern" /\ section' = next /\ elements' = Saved /\ UNCHANGED stage
    BY <1>4 DEF OpeningLine, AtLine
  <2>2. Bound' = next
    BY <2>1, StateTyped DEF Bound
  <2> QED
    BY <2>1, <2>2, SavedInOrder, OrderOfNext DEF Ordered
<1>5. CASE PatternOver
  <2>1. CASE Saved = <<>>
    BY <1>5, <2>1, StartsAnew DEF PatternOver, Stages
  <2>2. CASE Saved # <<>>
    <3>1. ~over /\ stage = "pattern" /\ over' /\ elements' = Saved /\ UNCHANGED stage
      BY <1>5, <2>2 DEF PatternOver, Return
    <3> QED
      BY <3>1, SavedInOrder, OrderOfNext DEF Ordered
  <2> QED
    BY <2>1, <2>2
<1>6. CASE UNCHANGED <<elements, stage>> /\ (over' \/ (~over /\ next <= next' /\ next' \in Nat
                                                   /\ UNCHANGED section))
  <2>1. SourceOrder'
    BY <1>6, OrderOfList, OrderOfNext DEF ExtractorInv, Ordered
  <2>2. /\ next \in Nat /\ section \in Nat
        /\ \A i \in DOMAIN elements : elements[i].src \subseteq Nat
    BY StateTyped
  <2>3. CASE over'
    BY <2>1, <2>3 DEF Ordered
  <2>4. CASE ~over /\ next <= next' /\ next' \in Nat /\ UNCHANGED section
    <3>1. Bound \in Nat /\ Bound' \in Nat /\ Bound <= Bound'
      BY <1>6, <2>2, <2>4 DEF Bound
    <3>2. \A i \in DOMAIN elements : \A a \in elements[i].src : a < Bound /\ a \in Nat
      BY <2>2, <2>4 DEF ExtractorInv, Ordered
    <3>3. \A i \in DOMAIN elements : \A a \in elements[i].src : a < Bound'
      BY <3>1, <3>2
    <3> QED
      BY <1>6, <2>1, <3>3 DEF Ordered
  <2> QED
    BY <1>6, <2>3, <2>4
<1>7. CASE (DoclingOver \/ HeadingsOver) /\ elements = <<>>
  BY <1>7, StartsAnew DEF DoclingOver, HeadingsOver, Stages
<1>8. CASE ((DoclingOver \/ HeadingsOver) /\ elements # <<>>) \/ ParagraphsOver
  BY <1>6, <1>8 DEF DoclingOver, HeadingsOver, ParagraphsOver, Return
<1>9. CASE \/ ContentItem /\ Item.text # "full"
           \/ HeadingLine /\ Spurious(next)
           \/ ContentLine /\ heading = 0
           \/ DroppedItem \/ SectionLine
  <2>1. /\ UNCHANGED <<elements, stage, section>> /\ ~over /\ next' = next + 1
    BY <1>9 DEF ContentItem, HeadingLine, ContentLine, DroppedItem, SectionLine, AtItem, AtLine
  <2>2. next <= next' /\ next' \in Nat
    BY <2>1, StateTyped
  <2> QED
    BY <1>6, <2>1, <2>2
<1>10. CASE ParagraphLines /\ ~Long(Paragraph(next))
  <2>1. /\ UNCHANGED <<elements, stage, section>> /\ ~over /\ next \in Numbers
        /\ next' = Max(Paragraph(next)) + 1
    BY <1>10 DEF ParagraphLines
  <2>2. Max(Paragraph(next)) \in Numbers /\ next <= Max(Paragraph(next))
    BY <2>1, ParagraphRuns DEF ExtractorInv
  <2>3. next <= next' /\ next' \in Nat
    <3>1. Max(Paragraph(next)) \in Nat /\ next \in Nat
      BY <2>2, StateTyped, DocumentTyped DEF ExtractorInv
    <3> QED
      BY ONLY <2>1, <2>2, <3>1
  <2> QED
    BY <1>6, <2>1, <2>3
<1>11. CASE UNCHANGED extractorVars
  BY <1>11, OrderOfList, OrderOfNext DEF extractorVars, ExtractorInv, Ordered, Bound
<1> QED
  BY <1>3, <1>4, <1>5, <1>7, <1>8, <1>9, <1>10, <1>11 DEF ExtractorNext, Extracted

-----------------------------------------------------------------------------
(* What is left out.                                                       *)
CoveredIn(s) == UNION {s[i].src : i \in DOMAIN s}

LEMMA CoveredOfList == Covered = CoveredIn(elements)
BY DEF Covered, CoveredIn

LEMMA CoveredOfNext == Covered' = CoveredIn(elements')
BY DEF Covered, CoveredIn

LEMMA CoveredAfter ==
    ASSUME NEW s \in Seq(ElementSet), NEW e \in ElementSet
    PROVE  CoveredIn(Append(s, e)) = CoveredIn(s) \cup e.src
<1> DEFINE t == Append(s, e)
<1>1. /\ Len(s) \in Nat /\ DOMAIN s = 1..Len(s) /\ DOMAIN t = 1..(Len(s) + 1)
      /\ \A i \in 1..Len(s) : t[i] = s[i]
      /\ t[Len(s) + 1] = e
  BY OneMore
<1> HIDE DEF t
<1>2. ASSUME NEW a \in CoveredIn(t)
      PROVE  a \in CoveredIn(s) \cup e.src
  <2>1. PICK i \in DOMAIN t : a \in t[i].src
    BY <1>2 DEF CoveredIn
  <2> QED
    BY <1>1, <2>1 DEF CoveredIn
<1>3. ASSUME NEW a \in CoveredIn(s)
      PROVE  a \in CoveredIn(t)
  <2>1. PICK i \in DOMAIN s : a \in s[i].src
    BY <1>3 DEF CoveredIn
  <2> QED
    BY <1>1, <2>1 DEF CoveredIn
<1>4. ASSUME NEW a \in e.src
      PROVE  a \in CoveredIn(t)
  BY <1>1, <1>4 DEF CoveredIn
<1> QED
  BY <1>2, <1>3, <1>4 DEF t

LEMMA CoveredBySaved ==
    ASSUME ExtractorInv
    PROVE  CoveredIn(Saved) = Covered \cup (IF section = 0 THEN {} ELSE {section} \cup part)
<1>1. elements \in Seq(ElementSet) /\ Covered = CoveredIn(elements)
  BY StateTyped, CoveredOfList
<1>2. CASE section = 0
  BY <1>1, <1>2, SectionSaved DEF ExtractorInv
<1>3. CASE section # 0
  <2>1. PICK h \in ElementSet, e \in ElementSet :
          /\ h.src = {section} /\ e.src = part
          /\ Saved = IF part = {} THEN Append(elements, h) ELSE Append(Append(elements, h), e)
    BY <1>3, SectionSaved DEF ExtractorInv
  <2>2. CoveredIn(Append(elements, h)) = Covered \cup {section}
        /\ Append(elements, h) \in Seq(ElementSet)
    BY <1>1, <2>1, CoveredAfter, OneMore
  <2>3. CoveredIn(Append(Append(elements, h), e)) = (Covered \cup {section}) \cup part
    BY <2>1, <2>2, CoveredAfter
  <2> QED
    BY <1>3, <2>1, <2>2, <2>3
<1> QED
  BY <1>2, <1>3

LEMMA LeftOutStays ==
    ASSUME UNCHANGED <<doc, stage>>
    PROVE  LeftOut' = LeftOut
<1>1. UNCHANGED doc
  OBVIOUS
<1>2. CASE stage = "docling"
  BY <1>2 DEF LeftOut
<1>3. CASE stage = "headings"
  BY <1>1, <1>3, DocumentStays DEF LeftOut
<1>4. CASE stage = "pattern"
  BY <1>1, <1>4, DocumentStays DEF LeftOut
<1>5. CASE stage \notin {"docling", "headings", "pattern"}
  <2>1. {j \in Numbers : Begins(j) /\ ~Long(Paragraph(j))}' =
            {j \in Numbers : Begins(j) /\ ~Long(Paragraph(j))}
    BY <1>1, DocumentStays
  <2> DEFINE Short == {j \in Numbers : Begins(j) /\ ~Long(Paragraph(j))}
  <2>2. LeftOut = UNION {Paragraph(i) : i \in Short} /\ LeftOut' = UNION {Paragraph(i)' : i \in Short'}
    BY <1>5 DEF LeftOut
  <2> HIDE DEF Short
  <2>3. Short' = Short
    BY <2>1 DEF Short
  <2> QED
    BY <1>1, <2>2, <2>3, DocumentStays
<1> QED
  BY <1>2, <1>3, <1>4, <1>5

(* Nothing was read yet.                                                   *)
LEMMA KeptAtStart ==
    ASSUME NEW s \in Stages \ {"docling"}, Start(s), ExtractorInv, UNCHANGED <<doc, title>>,
           elements' = <<>>
    PROVE  Kept'
<1>1. Covered' = {} /\ Pending' = {}
  BY StartsAnew
<1>2. next' = 1 /\ heading' = 0 /\ section' = 0 /\ 1..(next' - 1) = {}
  BY DEF Start
<1>3. 1 \in Numbers => Begins(1)
  <2>1. doc \in Documents
    BY StateTyped
  <2>2. doc.lines # <<>> => doc.lines[1].start
    BY <2>1, ExtractorAssumption
  <2>3. 1 \in Numbers => doc.lines # <<>>
    BY DEF Numbers
  <2> QED
    BY <2>2, <2>3 DEF Begins, line
<1>4. (next \in Numbers => Begins(next))'
  <2>1. Numbers' = Numbers /\ \A i : Begins(i)' = Begins(i)
    BY DocumentStays
  <2> QED
    BY <1>2, <1>3, <2>1
<1>5. (Covered \cup Pending = (1..(next - 1)) \ LeftOut)'
  BY <1>1, <1>2
<1>6. ((heading = 0 <=> \A j \in 1..(next - 1) : line(j).level = 0 \/ Spurious(j))
       /\ (section = 0 <=> \A j \in 1..(next - 1) : ~Opens(j)))'
  BY <1>2
<1> QED
  BY <1>4, <1>5, <1>6 DEF Kept

(* One item or line was read, and is kept unless it is left out.           *)
LEMMA OneRead ==
    ASSUME ExtractorInv, UNCHANGED <<doc, stage>>, next' = next + 1,
           Covered' \cup Pending' = (Covered \cup Pending) \cup ({next} \ LeftOut)
    PROVE  (Covered \cup Pending = (1..(next - 1)) \ LeftOut)'
<1>1. next \in Nat \ {0} /\ Covered \cup Pending = (1..(next - 1)) \ LeftOut
  BY StateTyped DEF ExtractorInv, Kept
<1>2. 1..next = (1..(next - 1)) \cup {next}
  BY <1>1
<1>3. next' - 1 = next
  BY <1>1
<1>4. LeftOut' = LeftOut
  BY LeftOutStays
<1> QED
  BY <1>1, <1>2, <1>3, <1>4

LEMMA OpenedCovers ==
    ASSUME ExtractorInv, Opened
    PROVE  Covered' = Covered \cup {next} /\ Pending = {} /\ Pending' = {} /\ heading' # 0
<1>1. PICK level \in Nat : AddHeading(level, {next})
  BY DEF Opened
<1>2. ExtractorTypeOK /\ Nested /\ {next} \in SUBSET Nat
  BY StateTyped DEF ExtractorInv, Shape, Opened
<1>3. PICK e \in ElementSet :
        e.src = {next} /\ elements' = Append(elements, e) /\ heading' = Len(elements) + 1
  BY <1>1, <1>2, HeadingAdded DEF HeadingAt
<1>4. Covered' = Covered \cup {next}
  BY <1>3, StateTyped, CoveredOfList, CoveredOfNext, CoveredAfter
<1>5. Pending = {} /\ Pending' = {}
  BY DEF Opened, Pending
<1>6. heading' # 0
  BY <1>3, StateTyped
<1> QED
  BY <1>4, <1>5, <1>6

LEMMA FilledCovers ==
    ASSUME ExtractorInv, Filled
    PROVE  /\ Covered' = Covered \cup (IF stage = "paragraphs" THEN Paragraph(next) ELSE {next})
           /\ Pending = {} /\ Pending' = {} /\ UNCHANGED heading
<1>1. PICK type \in {"paragraph", "list_item", "table"}, src \in SUBSET Nat :
        AddContent(type, src) /\ src = IF stage = "paragraphs" THEN Paragraph(next) ELSE {next}
  BY FilledTyped
<1>2. PICK e \in ElementSet : e.src = src /\ elements' = Append(elements, e)
  BY <1>1, ContentAdded DEF ExtractorInv
<1> QED
  BY <1>1, <1>2, StateTyped, CoveredOfList, CoveredOfNext, CoveredAfter
     DEF Filled, Pending, AddContent

(* Items: a header is kept, content if it is there.                        *)
LEMMA ItemKept ==
    ASSUME ExtractorInv, HeaderItem \/ ContentItem \/ DroppedItem
    PROVE  Kept'
<1>1. /\ stage = "docling" /\ ~over /\ UNCHANGED <<doc, stage, over, section>> /\ next' = next + 1
      /\ next <= Len(doc.items)
  BY DEF HeaderItem, ContentItem, DroppedItem, AtItem
<1>2. next \in DOMAIN doc.items
  BY <1>1, AtOne
<1>3. next \in LeftOut <=>
        /\ Item.label # "section_header"
        /\ Item.label \in {"text", "list_item", "table"} => Item.text # "full"
  BY <1>1, <1>2 DEF LeftOut, Item
<1>4. Pending = {} /\ Pending' = {}
  BY <1>1 DEF Pending
<1>5. CASE HeaderItem
  <2>1. next \notin LeftOut
    BY <1>3, <1>5 DEF HeaderItem, AtItem
  <2>2. Covered' = Covered \cup {next}
    BY <1>5, HeadingSteps, OpenedCovers
  <2> QED
    BY <1>1, <1>4, <2>1, <2>2, OneRead DEF Kept
<1>6. CASE ContentItem /\ Item.text = "full"
  <2>1. next \notin LeftOut
    BY <1>3, <1>6 DEF ContentItem, AtItem
  <2>2. Covered' = Covered \cup {next}
    BY <1>1, <1>6, ContentSteps, FilledCovers
  <2> QED
    BY <1>1, <1>4, <2>1, <2>2, OneRead DEF Kept
<1>7. CASE (ContentItem /\ Item.text # "full") \/ DroppedItem
  <2>1. next \in LeftOut
    BY <1>3, <1>7 DEF ContentItem, DroppedItem, AtItem
  <2>2. Covered' = Covered
    BY <1>7, CoveredOfList, CoveredOfNext DEF ContentItem, DroppedItem
  <2> QED
    BY <1>1, <1>4, <2>1, <2>2, OneRead DEF Kept
<1> QED
  BY <1>5, <1>6, <1>7

(* Lines of a Markdown document with headings: all from the first heading. *)
LEMMA MarkdownKept ==
    ASSUME ExtractorInv, HeadingLine \/ ContentLine
    PROVE  Kept'
<1>1. /\ stage = "headings" /\ ~over /\ UNCHANGED <<doc, stage, over, section>>
      /\ next' = next + 1 /\ next \in Numbers
  BY DEF HeadingLine, ContentLine, AtLine
<1>2. /\ next \in Nat \ {0} /\ 1..next = (1..(next - 1)) \cup {next} /\ next' - 1 = next
      /\ heading = 0 <=> \A j \in 1..(next - 1) : line(j).level = 0 \/ Spurious(j)
  BY <1>1, StateTyped DEF ExtractorInv, Kept
<1>3. next \in LeftOut <=>
        Spurious(next) \/ (heading = 0 /\ (line(next).level = 0 \/ Spurious(next)))
  BY <1>1, <1>2 DEF LeftOut
<1>4. Pending = {} /\ Pending' = {}
  BY <1>1 DEF Pending
<1>5. ASSUME heading' = 0 <=> heading = 0 /\ (line(next).level = 0 \/ Spurious(next))
      PROVE  (heading = 0 <=> \A j \in 1..(next - 1) : line(j).level = 0 \/ Spurious(j))'
  <2>1. \A j : line(j)' = line(j) /\ Spurious(j)' = Spurious(j)
    BY <1>1, DocumentStays
  <2> QED
    BY <1>2, <1>5, <2>1
<1>6. CASE HeadingLine /\ ~Spurious(next)
  <2>1. line(next).level # 0
    BY <1>6, AtOne DEF HeadingLine, Line, line, AtLine
  <2>2. Covered' = Covered \cup {next} /\ heading' # 0
    BY <1>6, HeadingSteps, OpenedCovers
  <2> QED
    BY <1>1, <1>3, <1>4, <1>5, <1>6, <2>1, <2>2, OneRead DEF Kept
<1>7. CASE HeadingLine /\ Spurious(next)
  <2>1. Covered' = Covered /\ heading' = heading
    BY <1>7, CoveredOfList, CoveredOfNext DEF HeadingLine
  <2> QED
    BY <1>1, <1>3, <1>4, <1>5, <1>7, <2>1, OneRead DEF Kept
<1>8. CASE ContentLine
  <2>1. line(next).level = 0 /\ ~Spurious(next)
    BY <1>8 DEF ContentLine, Line, line, Spurious
  <2>2. CASE heading # 0
    <3>1. Covered' = Covered \cup {next} /\ heading' = heading
      BY <1>1, <1>8, <2>2, ContentSteps, FilledCovers
    <3> QED
      BY <1>1, <1>3, <1>4, <1>5, <2>1, <2>2, <3>1, OneRead DEF Kept
  <2>3. CASE heading = 0
    <3>1. Covered' = Covered /\ heading' = heading
      BY <1>8, <2>3, CoveredOfList, CoveredOfNext DEF ContentLine
    <3> QED
      BY <1>1, <1>3, <1>4, <1>5, <2>1, <2>3, <3>1, OneRead DEF Kept
  <2> QED
    BY <2>2, <2>3
<1> QED
  BY <1>6, <1>7, <1>8

(* Lines of a numbered document: all from the first section.               *)
LEMMA NumberedKept ==
    ASSUME ExtractorInv, OpeningLine \/ SectionLine
    PROVE  Kept'
<1>1. /\ stage = "pattern" /\ ~over /\ UNCHANGED <<doc, stage, over>>
      /\ next' = next + 1 /\ next \in Numbers
  BY DEF OpeningLine, SectionLine, AtLine
<1>2. /\ next \in Nat \ {0} /\ 1..next = (1..(next - 1)) \cup {next} /\ next' - 1 = next
      /\ section = 0 <=> \A j \in 1..(next - 1) : ~Opens(j)
  BY <1>1, StateTyped DEF ExtractorInv, Kept
<1>3. next \in LeftOut <=> section = 0 /\ ~Opens(next)
  BY <1>1, <1>2 DEF LeftOut
<1>4. ASSUME section' = 0 <=> section = 0 /\ ~Opens(next)
      PROVE  (section = 0 <=> \A j \in 1..(next - 1) : ~Opens(j))'
  <2>1. \A j : Opens(j)' = Opens(j)
    BY <1>1, DocumentStays
  <2> QED
    BY <1>2, <1>4, <2>1
<1>5. CASE OpeningLine
  <2>1. Opens(next) /\ section' = next /\ part' \subseteq {next} /\ elements' = Saved
    BY <1>5 DEF OpeningLine
  <2>2. Covered' = Covered \cup Pending
    BY <1>1, <2>1, CoveredBySaved, CoveredOfNext DEF Pending
  <2>3. Pending' = {next}
    BY <1>1, <1>2, <2>1 DEF Pending
  <2> QED
    BY <1>1, <1>2, <1>3, <1>4, <2>1, <2>2, <2>3, OneRead DEF Kept
<1>6. CASE SectionLine
  <2>1. /\ ~Opens(next) /\ UNCHANGED section
        /\ part' = IF section # 0 THEN part \cup {next} ELSE part
        /\ Covered' = Covered
    BY <1>6, CoveredOfList, CoveredOfNext DEF SectionLine
  <2>2. Pending' = IF section # 0 THEN Pending \cup {next} ELSE Pending
    BY <1>1, <2>1 DEF Pending
  <2> QED
    BY <1>1, <1>3, <1>4, <2>1, <2>2, OneRead DEF Kept
<1> QED
  BY <1>5, <1>6

(* A line is in one paragraph.                                             *)
LEMMA OneParagraph ==
    ASSUME ExtractorTypeOK, NEW i \in Numbers, NEW k \in Numbers, Begins(i), Begins(k),
           NEW j \in Paragraph(i), j \in Paragraph(k)
    PROVE  i = k
<1>1. i \in Nat /\ k \in Nat /\ j \in Nat
  BY DocumentTyped DEF Paragraph
<1>2. /\ j >= i /\ \A m \in (i + 1)..j : ~Begins(m)
      /\ j >= k /\ \A m \in (k + 1)..j : ~Begins(m)
  BY DEF Paragraph
<1> QED
  BY <1>1, <1>2

(* Paragraphs: those that are long enough.                                 *)
LEMMA ProseKept ==
    ASSUME ExtractorInv, ParagraphLines
    PROVE  Kept'
<1>1. /\ stage = "paragraphs" /\ ~over /\ UNCHANGED <<doc, stage, over, section>>
      /\ next \in Numbers /\ next' = Max(Paragraph(next)) + 1 /\ Begins(next)
  BY DEF ParagraphLines, ExtractorInv, Kept
<1> DEFINE m == Max(Paragraph(next))
<1>2. /\ m \in Numbers /\ next <= m /\ Paragraph(next) = next..m
      /\ m + 1 \in Numbers => Begins(m + 1)
  BY <1>1, ParagraphRuns DEF ExtractorInv
<1>3. next' = m + 1
  BY <1>1
<1> HIDE DEF m
<1>4. m \in Nat /\ next \in Nat \ {0}
  BY <1>2, StateTyped, DocumentTyped DEF ExtractorInv
<1>5. next' - 1 = m /\ 1..m = (1..(next - 1)) \cup Paragraph(next)
  BY <1>2, <1>3, <1>4
<1>6. LeftOut = UNION {Paragraph(i) : i \in {j \in Numbers : Begins(j) /\ ~Long(Paragraph(j))}}
  BY <1>1 DEF LeftOut
<1>7. Paragraph(next) \ LeftOut = IF Long(Paragraph(next)) THEN Paragraph(next) ELSE {}
  <2>1. CASE ~Long(Paragraph(next))
    BY <1>1, <1>6, <2>1
  <2>2. CASE Long(Paragraph(next))
    <3>1. ASSUME NEW j \in Paragraph(next), j \in LeftOut
          PROVE  FALSE
      <4>1. PICK i \in Numbers : Begins(i) /\ ~Long(Paragraph(i)) /\ j \in Paragraph(i)
        BY <1>6, <3>1
      <4>2. i = next
        BY <1>1, <3>1, <4>1, OneParagraph DEF ExtractorInv
      <4> QED
        BY <2>2, <4>1, <4>2
    <3> QED
      BY <2>2, <3>1
  <2> QED
    BY <2>1, <2>2
<1>8. Pending = {} /\ Pending' = {}
  BY <1>1 DEF Pending
<1>9. Covered' = Covered \cup (Paragraph(next) \ LeftOut)
  <2>1. CASE Long(Paragraph(next))
    BY <1>1, <1>7, <2>1, ContentSteps, FilledCovers
  <2>2. CASE ~Long(Paragraph(next))
    BY <1>7, <2>2, CoveredOfList, CoveredOfNext DEF ParagraphLines
  <2> QED
    BY <2>1, <2>2
<1>10. (Covered \cup Pending = (1..(next - 1)) \ LeftOut)'
  <2>1. Covered \cup Pending = (1..(next - 1)) \ LeftOut
    BY DEF ExtractorInv, Kept
  <2>2. LeftOut' = LeftOut
    BY <1>1, LeftOutStays
  <2> QED
    BY <1>5, <1>8, <1>9, <2>1, <2>2
<1>11. (next \in Numbers => Begins(next))'
  <2>1. Numbers' = Numbers /\ \A i : Begins(i)' = Begins(i)
    BY <1>1, DocumentStays
  <2> QED
    BY <1>2, <1>3, <2>1
<1> QED
  BY <1>1, <1>10, <1>11 DEF Kept

LEMMA KeptStep ==
    ASSUME ExtractorInv, [ExtractorNext]_extractorVars
    PROVE  Kept'
<1>1. CASE UNCHANGED <<doc, stage, next, heading, section>> /\ Covered' \cup Pending' = Covered \cup Pending
  <2>1. /\ LeftOut' = LeftOut /\ Numbers' = Numbers
        /\ \A i : /\ line(i)' = line(i) /\ Spurious(i)' = Spurious(i)
                  /\ Opens(i)' = Opens(i) /\ Begins(i)' = Begins(i)
    BY <1>1, LeftOutStays, DocumentStays
  <2>2. (Covered \cup Pending = (1..(next - 1)) \ LeftOut)'
    BY <1>1, <2>1 DEF ExtractorInv, Kept
  <2>3. (stage = "headings" =>
           (heading = 0 <=> \A j \in 1..(next - 1) : line(j).level = 0 \/ Spurious(j)))'
    BY <1>1, <2>1 DEF ExtractorInv, Kept
  <2>4. (stage = "pattern" => (section = 0 <=> \A j \in 1..(next - 1) : ~Opens(j)))'
    BY <1>1, <2>1 DEF ExtractorInv, Kept
  <2>5. (stage = "paragraphs" /\ next \in Numbers => Begins(next))'
    BY <1>1, <2>1 DEF ExtractorInv, Kept
  <2> QED
    BY <2>2, <2>3, <2>4, <2>5 DEF Kept
<1>2. CASE HeaderItem \/ ContentItem \/ DroppedItem
  BY <1>2, ItemKept
<1>3. CASE HeadingLine \/ ContentLine
  BY <1>3, MarkdownKept
<1>4. CASE OpeningLine \/ SectionLine
  BY <1>4, NumberedKept
<1>5. CASE ParagraphLines
  BY <1>5, ProseKept
<1>6. CASE (DoclingOver \/ HeadingsOver) /\ elements = <<>>
  BY <1>6, KeptAtStart DEF DoclingOver, HeadingsOver, Stages
<1>7. CASE ((DoclingOver \/ HeadingsOver) /\ elements # <<>>) \/ ParagraphsOver
  <2>1. /\ UNCHANGED <<doc, stage, next, heading, section, elements>> /\ stage # "pattern"
    BY <1>7 DEF DoclingOver, HeadingsOver, ParagraphsOver, Return
  <2>2. Covered' = Covered /\ Pending = {} /\ Pending' = {}
    BY <2>1, CoveredOfList, CoveredOfNext DEF Pending
  <2> QED
    BY <1>1, <2>1, <2>2
<1>8. CASE PatternOver /\ Saved = <<>>
  BY <1>8, KeptAtStart DEF PatternOver, Stages
<1>9. CASE PatternOver /\ Saved # <<>>
  <2>1. /\ UNCHANGED <<doc, stage, next, heading, section>> /\ stage = "pattern"
        /\ over' /\ ~over /\ elements' = Saved
    BY <1>9 DEF PatternOver, Return
  <2>2. Covered' = Covered \cup Pending /\ Pending' = {}
    BY <2>1, CoveredBySaved, CoveredOfNext DEF Pending
  <2> QED
    BY <1>1, <2>1, <2>2
<1>10. CASE UNCHANGED extractorVars
  <2>1. UNCHANGED <<doc, stage, next, heading, section, elements, over, part>>
    BY <1>10 DEF extractorVars
  <2>2. Covered' = Covered /\ Pending' = Pending
    BY <2>1, CoveredOfList, CoveredOfNext DEF Pending
  <2> QED
    BY <1>1, <2>1, <2>2
<1> QED
  BY <1>2, <1>3, <1>4, <1>5, <1>6, <1>7, <1>8, <1>9, <1>10 DEF ExtractorNext, Extracted

-----------------------------------------------------------------------------
(* The sections.                                                           *)
LEMMA SavedHeadings ==
    ASSUME ExtractorInv
    PROVE  /\ \A h \in HeadingsIn(elements) : h \in HeadingsIn(Saved) /\ Saved[h] = elements[h]
           /\ section # 0 => \E h \in HeadingsIn(Saved) : Saved[h].src = {section}
<1>1. elements \in Seq(ElementSet) /\ Len(elements) \in Nat
  BY StateTyped
<1>2. CASE section = 0
  BY <1>2, SectionSaved DEF ExtractorInv
<1>3. CASE section # 0
  <2>1. PICK h \in ElementSet, e \in ElementSet :
          /\ h.type = "heading" /\ h.src = {section} /\ e.type = "paragraph"
          /\ Saved = IF part = {} THEN Append(elements, h) ELSE Append(Append(elements, h), e)
    BY <1>3, SectionSaved DEF ExtractorInv
  <2> DEFINE t == Append(elements, h)
  <2>2. /\ t \in Seq(ElementSet) /\ t[Len(elements) + 1] = h
        /\ HeadingsIn(t) = HeadingsIn(elements) \cup {Len(elements) + 1}
        /\ \A x \in HeadingsIn(elements) : t[x] = elements[x]
    BY <1>1, <2>1, OneMore, HeadingsAfter
  <2>3. Saved = IF part = {} THEN t ELSE Append(t, e)
    BY <2>1
  <2> HIDE DEF t
  <2>4. \A x \in HeadingsIn(t) : x \in HeadingsIn(Append(t, e)) /\ Append(t, e)[x] = t[x]
    BY <2>1, <2>2, HeadingsAfter
  <2>5. \A x \in HeadingsIn(t) : x \in HeadingsIn(Saved) /\ Saved[x] = t[x]
    BY <2>3, <2>4
  <2> QED
    BY <2>1, <2>2, <2>5
<1> QED
  BY <1>2, <1>3

LEMMA SectionedStep ==
    ASSUME ExtractorInv, [ExtractorNext]_extractorVars
    PROVE  Sectioned'
<1>1. CASE stage' # "pattern"
  BY <1>1 DEF Sectioned
<1>2. CASE stage' = "pattern" /\ stage # "pattern"
  <2>1. HeadingsOver /\ Accepted # {} /\ next' = 1 /\ UNCHANGED doc
    BY <1>2 DEF ExtractorNext, HeaderItem, ContentItem, DroppedItem, DoclingOver, HeadingLine,
       ContentLine, HeadingsOver, OpeningLine, SectionLine, PatternOver, ParagraphLines,
       ParagraphsOver, Extracted, AtItem, AtLine, Start, Return, extractorVars
  <2>2. Accepted' # {} /\ 1..(next' - 1) = {}
    BY <2>1, DocumentStays
  <2> QED
    BY <2>2 DEF Sectioned
<1>3. CASE stage' = "pattern" /\ stage = "pattern"
  <2>1. /\ Accepted # {} /\ next \in Nat \ {0}
        /\ \A i \in 1..(next - 1) : Opens(i) =>
               (~over /\ i = section) \/ \E h \in HeadingsIn(elements) : elements[h].src = {i}
    BY <1>3, StateTyped, HierarchyOfList DEF ExtractorInv, Sectioned
  <2>2. CASE OpeningLine
    <3>1. /\ section' = next /\ next' = next + 1 /\ elements' = Saved /\ UNCHANGED <<doc, over>>
          /\ ~over
      BY <2>2 DEF OpeningLine, AtLine
    <3>2. Accepted' = Accepted /\ \A i : Opens(i)' = Opens(i)
      BY <3>1, DocumentStays
    <3>3. next' - 1 = next /\ 1..next = (1..(next - 1)) \cup {next}
      BY <2>1, <3>1
    <3>4. \A i \in 1..(next - 1) : Opens(i) => \E h \in HeadingsIn(Saved) : Saved[h].src = {i}
      <4>1. section # 0 \/ section \notin 1..(next - 1)
        OBVIOUS
      <4> QED
        BY <2>1, <4>1, SavedHeadings
    <3> QED
      BY <2>1, <3>1, <3>2, <3>3, <3>4, HierarchyOfNext DEF Sectioned
  <2>3. CASE SectionLine
    <3>1. /\ ~Opens(next) /\ next' = next + 1 /\ UNCHANGED <<doc, over, elements, section>>
      BY <2>3 DEF SectionLine, AtLine
    <3>2. Accepted' = Accepted /\ \A i : Opens(i)' = Opens(i)
      BY <3>1, DocumentStays
    <3>3. next' - 1 = next /\ 1..next = (1..(next - 1)) \cup {next}
      BY <2>1, <3>1
    <3> QED
      BY <2>1, <3>1, <3>2, <3>3, HierarchyOfNext DEF Sectioned
  <2>4. CASE PatternOver
    <3>1. UNCHANGED <<doc, next>> /\ elements' = Saved
      BY <1>3, <2>4 DEF PatternOver, Start, Return
    <3>2. Accepted' = Accepted /\ \A i : Opens(i)' = Opens(i)
      BY <3>1, DocumentStays
    <3>3. \A i \in 1..(next - 1) : Opens(i) => \E h \in HeadingsIn(Saved) : Saved[h].src = {i}
      <4>1. section # 0 \/ section \notin 1..(next - 1)
        OBVIOUS
      <4> QED
        BY <2>1, <4>1, SavedHeadings
    <3> QED
      BY <2>1, <3>1, <3>2, <3>3, HierarchyOfNext DEF Sectioned
  <2>5. CASE UNCHANGED extractorVars
    <3>1. UNCHANGED <<doc, over, next, elements, section>>
      BY <2>5 DEF extractorVars
    <3>2. Accepted' = Accepted /\ \A i : Opens(i)' = Opens(i)
      BY <3>1, DocumentStays
    <3> QED
      BY <2>1, <3>1, <3>2, HierarchyOfNext DEF Sectioned
  <2> QED
    BY <1>3, <2>2, <2>3, <2>4, <2>5 DEF ExtractorNext, HeaderItem, ContentItem, DroppedItem,
       DoclingOver, HeadingLine, ContentLine, HeadingsOver, ParagraphLines, ParagraphsOver,
       Extracted, AtItem, AtLine
<1> QED
  BY <1>1, <1>2, <1>3

-----------------------------------------------------------------------------
LEMMA ExtractorInitial == ExtractorInit => ExtractorInv
<1> SUFFICES ASSUME ExtractorInit PROVE ExtractorInv
  OBVIOUS
<1>1. /\ doc \in Documents /\ stage \in {"docling", "headings"} /\ over = FALSE /\ next = 1
      /\ elements = <<>> /\ stack = <<>> /\ heading = 0 /\ section = 0 /\ part = {} /\ title = 0
      /\ preamble = {}
  BY DEF ExtractorInit
<1>2. elements \in Seq(ElementSet) /\ stack \in Seq(Nat) /\ DOMAIN elements = {} /\ Len(stack) = 0
  BY <1>1
<1>3. ExtractorTypeOK
  <2>1. next \in Nat /\ heading \in Nat /\ section \in Nat /\ title \in Nat
    BY <1>1
  <2>2. stage \in Stages
    BY <1>1 DEF Stages
  <2> QED
    BY <1>1, <1>2, <2>1, <2>2 DEF ExtractorTypeOK, ElementSet
<1>4. Headings = {} /\ Covered = {} /\ Pending = {}
  BY <1>1, <1>2 DEF Headings, Covered, Pending
<1>5. Shape /\ HierarchyCorrect /\ Ordered
  BY <1>1, <1>2, <1>4 DEF Shape, Nested, HierarchyCorrect, Ordered, SourceOrder
<1>6. Place /\ Sectioned
  BY <1>1, <1>3, DocumentTyped DEF Place, Sectioned
<1>7. Kept
  BY <1>1, <1>4 DEF Kept
<1> QED
  BY <1>3, <1>5, <1>6, <1>7 DEF ExtractorInv

LEMMA ExtractorStep ==
    ASSUME ExtractorInv, [ExtractorNext]_extractorVars
    PROVE  ExtractorInv'
BY ExtractorTyped, HierarchyStep, PlaceStep, OrderedStep, KeptStep, SectionedStep DEF ExtractorInv

LEMMA ExtractorAlways == ExtractorSpec => []ExtractorInv
BY ExtractorInitial, ExtractorStep, PTL DEF ExtractorSpec

(* At the end everything was read.                                         *)
LEMMA LossAtEnd == ExtractorInv => LossExplained
<1> SUFFICES ASSUME ExtractorInv, over PROVE LossExplained
  BY DEF LossExplained
<1>1. /\ Len(doc.items) \in Nat /\ DOMAIN doc.items = 1..Len(doc.items)
      /\ Len(doc.lines) \in Nat /\ Numbers = 1..Len(doc.lines)
  BY DocumentTyped DEF ExtractorInv
<1>2. 1..(next - 1) = IF stage = "docling" THEN DOMAIN doc.items ELSE Numbers
  BY <1>1 DEF ExtractorInv, Place
<1>3. Covered = (1..(next - 1)) \ LeftOut
  BY DEF ExtractorInv, Kept, Pending
<1> QED
  BY <1>2, <1>3 DEF LossExplained, Covered

(* Without an element every paragraph is among what was left out.          *)
LEMMA NothingIsLong ==
    ASSUME ExtractorInv, over, elements = <<>>, NEW i \in Numbers, Begins(i)
    PROVE  ~Long(Paragraph(i))
<1>1. stage = "paragraphs" /\ LossExplained
  BY LossAtEnd DEF ExtractorInv, Place
<1>2. UNION {elements[j].src : j \in DOMAIN elements} = {}
  <2>1. DOMAIN elements = {}
    OBVIOUS
  <2> QED
    BY <2>1
<1>3. i \in LeftOut
  BY <1>1, <1>2 DEF LossExplained
<1>4. PICK k \in Numbers : Begins(k) /\ ~Long(Paragraph(k)) /\ i \in Paragraph(k)
  BY <1>1, <1>3 DEF LeftOut
<1>5. i \in Paragraph(i)
  <2>1. i \in Nat
    BY DocumentTyped DEF ExtractorInv
  <2> QED
    BY <2>1 DEF Paragraph
<1> QED
  BY <1>4, <1>5, OneParagraph DEF ExtractorInv

(* Every id that was detected has a line, and the line a heading.          *)
LEMMA SectionsSuffice ==
    ASSUME ExtractorInv, over, stage = "pattern"
    PROVE  Cardinality(Headings) >= MinPatternMatches
<1> DEFINE p == Min(Accepted)
           place(h) == CHOOSE i : elements[h].src = {i}
           f == [h \in Headings |-> line(place(h)).ids[p]]
           T == {f[h] : h \in Headings}
<1>1. p \in Accepted
  <2>1. Accepted \in SUBSET Nat
    BY ExtractorAssumption DEF Accepted
  <2>2. Accepted # {}
    BY DEF ExtractorInv, Sectioned
  <2>3. \E x \in Accepted : \A y \in Accepted : x <= y
    BY <2>1, <2>2, LeastOf
  <2> QED
    BY <2>3 DEF Min
<1>2. Cardinality(Ids(p)) >= MinPatternMatches
  BY <1>1 DEF Accepted
<1>3. IsFiniteSet(Headings) /\ Cardinality(Headings) \in Nat
  <2>1. Len(elements) \in Nat /\ Headings \subseteq 1..Len(elements)
    BY StateTyped DEF Headings
  <2>2. IsFiniteSet(1..Len(elements))
    BY <2>1, FS_Interval
  <2> QED
    BY <2>1, <2>2, FS_Subset, FS_CardinalityType
<1>4. f \in Surjection(Headings, T)
  BY DEF Surjection
<1>5. IsFiniteSet(T) /\ Cardinality(T) <= Cardinality(Headings)
  <2> HIDE DEF f, T
  <2> QED
    BY <1>3, <1>4, FS_Surjection
<1>6. Ids(p) \subseteq T
  <2>1. ASSUME NEW id \in Ids(p)
        PROVE  id \in T
    <3>1. PICK i \in Numbers : id = line(i).ids[p] /\ id # "none"
      BY DEF Ids
    <3>2. Opens(i)
      BY <3>1 DEF Opens
    <3>3. i \in 1..(next - 1)
      BY DocumentTyped DEF ExtractorInv, Place
    <3>4. PICK h \in Headings : elements[h].src = {i}
      BY <3>2, <3>3 DEF ExtractorInv, Sectioned
    <3>5. place(h) = i
      <4>1. \A j : elements[h].src = {j} => j = i
        BY <3>4
      <4> QED
        BY <3>4, <4>1
    <3>6. f[h] = id
      BY <3>1, <3>4, <3>5
    <3> QED
      BY <3>4, <3>6
  <2> QED
    BY <2>1
<1>7. IsFiniteSet(Ids(p)) /\ Cardinality(Ids(p)) <= Cardinality(T)
      /\ Cardinality(Ids(p)) \in Nat /\ Cardinality(T) \in Nat
  <2> HIDE DEF T
  <2> QED
    BY <1>5, <1>6, FS_Subset, FS_CardinalityType
<1>8. MinPatternMatches \in Nat
  BY ExtractorAssumption
<1> QED
  BY ONLY <1>2, <1>3, <1>5, <1>7, <1>8

-----------------------------------------------------------------------------
(* The state of the extraction stays well typed.                           *)
THEOREM ExtractorTypeCorrect == ExtractorSpec => []ExtractorTypeOK
<1>1. ExtractorInv => ExtractorTypeOK
  BY DEF ExtractorInv
<1> QED
  BY <1>1, ExtractorAlways, PTL

(* However levels are skipped or repeated, and whichever parser made it,   *)
(* an element hangs under the last heading before it that is above it.     *)
THEOREM HierarchyIsCorrect == ExtractorSpec => []HierarchyCorrect
<1>1. ExtractorInv => HierarchyCorrect
  BY DEF ExtractorInv
<1> QED
  BY <1>1, ExtractorAlways, PTL

(* The elements follow the document, and no item or line is in two of them *)
(* but for the line that opens a section.                                  *)
THEOREM ElementsFollowSource == ExtractorSpec => []SourceOrder
<1>1. ExtractorInv => SourceOrder
  BY DEF ExtractorInv, Ordered
<1> QED
  BY <1>1, ExtractorAlways, PTL

(* When the extraction returns, everything is in an element that its       *)
(* parser does not leave out.                                              *)
THEOREM LossIsExplained == ExtractorSpec => []LossExplained
BY LossAtEnd, ExtractorAlways, PTL

(* A document without elements has no paragraph that is long enough, and a *)
(* numbering that was detected gives as many sections as it must have.     *)
THEOREM CascadeIsSound == ExtractorSpec => []CascadeSound
<1>1. ExtractorInv => CascadeSound
  BY NothingIsLong, SectionsSuffice DEF CascadeSound
<1> QED
  BY <1>1, ExtractorAlways, PTL
=============================================================================
