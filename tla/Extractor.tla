----------------------------- MODULE Extractor -----------------------------
(***************************************************************************)
(* extract_elements (extractor.py): the items of a Docling document, or,   *)
(* when they give nothing, the lines of its Markdown in a cascade of three *)
(* parsers, become a flat list of elements that name their parents.        *)
(*                                                                         *)
(* A step is one turn of a loop of the current parser.  An item or a line  *)
(* is what the parsers ask of it; blank lines are only the start of a      *)
(* paragraph at the line after them.  An element's id is its place in the  *)
(* list, and src is the items or lines its content is taken from.          *)
(***************************************************************************)
EXTENDS Naturals, Sequences, FiniteSetsExt

CONSTANTS
    Documents,          \* the inputs
    Patterns,           \* the number of candidate patterns
    MaxHeadingRepeats,  \* _MAX_HEADING_REPEATS
    MinPatternMatches,  \* _MIN_PATTERN_MATCHES
    MinWords            \* the words a paragraph must have

(* typed is FALSE when there is no Docling document.  A line of level 0 is *)
(* no heading; of a heading, ids, rest and words are those of its text.    *)
Items ==
    [label : {"section_header", "text", "list_item", "table", "title", "skipped", "other"},
     level : Nat, text : {"full", "blank", "broken"}]
Lines ==
    [start : BOOLEAN, level : Nat, title : {"a", "b", "none"},
     ids : [1..Patterns -> {"none", "x", "y", "z"}], rest : BOOLEAN,
     words : Nat, ends : BOOLEAN, bullet : BOOLEAN]

ASSUME ExtractorAssumption ==
    /\ {Patterns, MaxHeadingRepeats, MinPatternMatches, MinWords} \subseteq Nat
    /\ \A d \in Documents :
        /\ d \in [typed : BOOLEAN, items : Seq(Items), lines : Seq(Lines)]
        /\ d.lines # <<>> => d.lines[1].start

VARIABLES
    doc,        \* the input
    stage,      \* the parser at work; the one that worked last at the end
    over,       \* extract_elements has returned
    next,       \* the next item or line
    elements,   \* the elements so far
    stack,      \* heading_stack: the places of the open headings
    heading,    \* current_heading_id; 0 for None
    preamble,   \* the lines in discarded_content
    section,    \* the line that opened the current section; 0 for none
    part,       \* the lines of current_text
    title       \* the item the document's title is taken from; 0 for None

extractorVars ==
    <<doc, stage, over, next, elements, stack, heading, preamble, section, part, title>>

Stages == {"docling", "headings", "pattern", "paragraphs"}
Types  == {"heading", "paragraph", "list_item", "table"}

ExtractorTypeOK ==
    /\ doc \in Documents
    /\ stage \in Stages /\ over \in BOOLEAN
    /\ elements \in Seq([type : Types, level : Nat, parent : Nat, src : SUBSET Nat])
    /\ stack \in Seq(Nat)
    /\ {next, heading, section, title} \subseteq Nat
    /\ preamble \subseteq Nat /\ part \subseteq Nat

ExtractorInit ==
    /\ doc \in Documents
    /\ stage = IF doc.typed THEN "docling" ELSE "headings"
    /\ over = FALSE /\ next = 1
    /\ elements = <<>> /\ stack = <<>> /\ heading = 0
    /\ preamble = {} /\ section = 0 /\ part = {} /\ title = 0

-----------------------------------------------------------------------------
Element(type, level, parent, src) ==
    [type |-> type, level |-> level, parent |-> parent, src |-> src]

(* Mutant: a heading stays open beside another of its level.               *)
AddHeadingBeside(level, src) ==
    \E n \in 0..Len(stack) :
        /\ \A k \in (n + 1)..Len(stack) : elements[stack[k]].level > level
        /\ n > 0 => elements[stack[n]].level <= level
        /\ elements' = Append(elements,
               Element("heading", level, IF n = 0 THEN 0 ELSE stack[n], src))
        /\ stack' = Append(SubSeq(stack, 1, n), Len(elements) + 1)
        /\ heading' = Len(elements) + 1

(* Open headings are popped until one is of a smaller level; n remain.     *)
AddHeading(level, src) ==
    \E n \in 0..Len(stack) :
        /\ \A k \in (n + 1)..Len(stack) : elements[stack[k]].level >= level
        /\ n > 0 => elements[stack[n]].level < level
        /\ elements' = Append(elements,
               Element("heading", level, IF n = 0 THEN 0 ELSE stack[n], src))
        /\ stack' = Append(SubSeq(stack, 1, n), Len(elements) + 1)
        /\ heading' = Len(elements) + 1

AddContent(type, src) ==
    /\ elements' = Append(elements, Element(type, 0, heading, src))
    /\ UNCHANGED <<stack, heading>>

(* A parser starts at the first line, with locals of its own.              *)
Start(s) ==
    /\ stage' = s /\ next' = 1 /\ over' = FALSE
    /\ stack' = <<>> /\ heading' = 0
    /\ preamble' = {} /\ section' = 0 /\ part' = {}

Return == over' = TRUE /\ UNCHANGED <<stage, next, stack, heading, preamble, section, part>>

-----------------------------------------------------------------------------
(* _parse_docling_document                                                 *)
Item == doc.items[next]

AtItem(labels) ==
    /\ stage = "docling" /\ ~over
    /\ next <= Len(doc.items) /\ Item.label \in labels
    /\ next' = next + 1
    /\ UNCHANGED <<doc, stage, over, preamble, section, part>>

HeaderItem ==
    /\ AtItem({"section_header"})
    /\ AddHeading(Item.level, {next})
    /\ UNCHANGED title

(* Mutant: text before the first heading is dropped.                       *)
ContentItemHeaded ==
    /\ AtItem({"text", "list_item", "table"})
    /\ IF Item.text = "full" /\ heading # 0
       THEN AddContent(IF Item.label = "text" THEN "paragraph" ELSE Item.label, {next})
       ELSE UNCHANGED <<elements, stack, heading>>
    /\ UNCHANGED title

(* Blank text is dropped, and a table whose export is blank or raises.     *)
ContentItem ==
    /\ AtItem({"text", "list_item", "table"})
    /\ IF Item.text = "full"
       THEN AddContent(IF Item.label = "text" THEN "paragraph" ELSE Item.label, {next})
       ELSE UNCHANGED <<elements, stack, heading>>
    /\ UNCHANGED title

(* The first title that is not blank goes to the metadata; nothing else of *)
(* these items is kept, nor of a label the parser does not know.           *)
DroppedItem ==
    /\ AtItem({"title", "skipped", "other"})
    /\ title' = IF Item.label = "title" /\ title = 0 /\ Item.text = "full" THEN next ELSE title
    /\ UNCHANGED <<elements, stack, heading>>

DoclingOver ==
    /\ stage = "docling" /\ ~over /\ next > Len(doc.items)
    /\ IF elements = <<>> THEN Start("headings") ELSE Return
    /\ UNCHANGED <<doc, elements, title>>

-----------------------------------------------------------------------------
(* _parse_markdown: Markdown headings                                      *)
line(i) == doc.lines[i]
Line    == doc.lines[next]
Numbers == DOMAIN doc.lines

(* A heading whose text is repeated is taken for a page header.            *)
Spurious(i) ==
    /\ line(i).level > 0
    /\ Cardinality({j \in Numbers : line(j).level > 0 /\ line(j).title = line(i).title})
           >= MaxHeadingRepeats

AtLine(s) ==
    /\ stage = s /\ ~over
    /\ next \in Numbers
    /\ next' = next + 1
    /\ UNCHANGED <<doc, stage, over, title>>

HeadingLine ==
    /\ AtLine("headings")
    /\ Line.level > 0
    /\ IF Spurious(next)
       THEN UNCHANGED <<elements, stack, heading>>
       ELSE AddHeading(Line.level, {next})
    /\ UNCHANGED <<preamble, section, part>>

ContentLine ==
    /\ AtLine("headings")
    /\ Line.level = 0
    /\ IF heading # 0
       THEN AddContent("paragraph", {next}) /\ UNCHANGED preamble
       ELSE preamble' = preamble \cup {next} /\ UNCHANGED <<elements, stack, heading>>
    /\ UNCHANGED <<section, part>>

(* The ids that pattern p finds in the first lines of the paragraphs.      *)
Ids(p) == {line(i).ids[p] : i \in {j \in Numbers : line(j).start}} \ {"none"}

(* _detect_section_pattern: the first pattern with enough distinct ids.    *)
Accepted == {p \in 1..Patterns : Cardinality(Ids(p)) >= MinPatternMatches}

HeadingsOver ==
    /\ stage = "headings" /\ ~over /\ next \notin Numbers
    /\ IF elements # <<>> THEN Return
       ELSE IF preamble # {} /\ Accepted # {} THEN Start("pattern")
       ELSE Start("paragraphs")
    /\ UNCHANGED <<doc, elements, title>>

-----------------------------------------------------------------------------
(* _parse_with_pattern, on the lines without their heading markers         *)
Opens(i) == line(i).ids[Min(Accepted)] # "none"

(* The heading of the current section and the paragraph of its text.       *)
Section ==
    <<Element("heading", 1, 0, {section})>> \o
    (IF part = {} THEN <<>> ELSE <<Element("paragraph", 0, Len(elements) + 1, part)>>)

Saved == IF section = 0 THEN elements ELSE elements \o Section

(* Mutant: the text of a section is kept for the next one.                 *)
OpeningLineKept ==
    /\ AtLine("pattern")
    /\ Opens(next)
    /\ elements' = Saved
    /\ section' = next
    /\ part' = IF Line.rest THEN part \cup {next} ELSE part
    /\ UNCHANGED <<stack, heading, preamble>>

(* What follows the id on its line is both the heading and text.           *)
OpeningLine ==
    /\ AtLine("pattern")
    /\ Opens(next)
    /\ elements' = Saved
    /\ section' = next
    /\ part' = IF Line.rest THEN {next} ELSE {}
    /\ UNCHANGED <<stack, heading, preamble>>

SectionLine ==
    /\ AtLine("pattern")
    /\ ~Opens(next)
    /\ IF section # 0
       THEN part' = part \cup {next} /\ UNCHANGED preamble
       ELSE preamble' = preamble \cup {next} /\ UNCHANGED part
    /\ UNCHANGED <<elements, stack, heading, section>>

(* Mutant: the last section is not saved.                                  *)
PatternOverUnsaved ==
    /\ stage = "pattern" /\ ~over /\ next \notin Numbers
    /\ IF elements = <<>> THEN Start("paragraphs") ELSE Return
    /\ UNCHANGED <<doc, elements, title>>

PatternOver ==
    /\ stage = "pattern" /\ ~over /\ next \notin Numbers
    /\ elements' = Saved
    /\ IF Saved = <<>> THEN Start("paragraphs") ELSE Return
    /\ UNCHANGED <<doc, title>>

-----------------------------------------------------------------------------
(* _parse_paragraphs                                                       *)

(* A paragraph begins at i that is no continuation of a list.              *)
Begins(i) == line(i).start /\ (i > 1 => ~(line(i - 1).ends /\ line(i).bullet))

Paragraph(i) == {j \in Numbers : j >= i /\ \A k \in (i + 1)..j : ~Begins(k)}

Long(paragraph) == MapThenSumSet(LAMBDA i : line(i).words, paragraph) >= MinWords

ParagraphLines ==
    /\ stage = "paragraphs" /\ ~over
    /\ next \in Numbers
    /\ IF Long(Paragraph(next)) THEN AddContent("paragraph", Paragraph(next))
                                ELSE UNCHANGED <<elements, stack, heading>>
    /\ next' = Max(Paragraph(next)) + 1
    /\ UNCHANGED <<doc, stage, over, preamble, section, part, title>>

ParagraphsOver ==
    /\ stage = "paragraphs" /\ ~over /\ next \notin Numbers
    /\ Return
    /\ UNCHANGED <<doc, elements, title>>

Extracted == over /\ UNCHANGED extractorVars

ExtractorNext ==
    \/ HeaderItem \/ ContentItem \/ DroppedItem \/ DoclingOver
    \/ HeadingLine \/ ContentLine \/ HeadingsOver
    \/ OpeningLine \/ SectionLine \/ PatternOver
    \/ ParagraphLines \/ ParagraphsOver
    \/ Extracted

ExtractorSpec == ExtractorInit /\ [][ExtractorNext]_extractorVars

-----------------------------------------------------------------------------
Headings == {i \in DOMAIN elements : elements[i].type = "heading"}

(* The headings an element could hang under: any before content, those of  *)
(* a smaller level before a heading.                                       *)
Above(i) ==
    {h \in Headings : h < i /\ (i \in Headings => elements[h].level < elements[i].level)}

(* "SECTION_HEADER items drive hierarchy via level": whatever levels are   *)
(* skipped or repeated, and whichever parser made it, an element hangs     *)
(* under the last heading before it that is above it, and under none only  *)
(* if there is none.                                                       *)
HierarchyCorrect ==
    \A i \in DOMAIN elements :
        LET p == elements[i].parent
        IN  IF p = 0 THEN Above(i) = {} ELSE p \in Above(i) /\ \A h \in Above(i) : h <= p

(* The elements follow the document, and no item or line ends up in two of *)
(* them; only the line that opens a section may be heading and text.       *)
SourceOrder ==
    \A i, j \in DOMAIN elements : i < j =>
        \A a \in elements[i].src, b \in elements[j].src :
            a < b \/ (a = b /\ stage = "pattern" /\ elements[j].parent = i)

(* What a parser may leave out, and nothing else is left out: items that   *)
(* are blank, broken or of a label not kept, repeated headings, the lines  *)
(* before the first heading or section, and short paragraphs.              *)
LeftOut ==
    CASE stage = "docling" ->
            {i \in DOMAIN doc.items :
                /\ doc.items[i].label # "section_header"
                /\ doc.items[i].label \in {"text", "list_item", "table"} => doc.items[i].text # "full"}
      [] stage = "headings" ->
            {i \in Numbers : Spurious(i) \/ \A j \in 1..i : line(j).level = 0 \/ Spurious(j)}
      [] stage = "pattern" -> {i \in Numbers : \A j \in 1..i : ~Opens(j)}
      [] OTHER ->
            UNION {Paragraph(i) : i \in {j \in Numbers : Begins(j) /\ ~Long(Paragraph(j))}}

LossExplained ==
    over => UNION {elements[i].src : i \in DOMAIN elements} =
                (IF stage = "docling" THEN DOMAIN doc.items ELSE Numbers) \ LeftOut

(* "Fallback cascade": a document ends up without elements only if none of *)
(* its paragraphs is long enough, and a numbering that was detected splits *)
(* it in at least _MIN_PATTERN_MATCHES sections.                           *)
CascadeSound ==
    over =>
        /\ elements = <<>> => \A i \in Numbers : Begins(i) => ~Long(Paragraph(i))
        /\ stage = "pattern" => Cardinality(Headings) >= MinPatternMatches
=============================================================================
