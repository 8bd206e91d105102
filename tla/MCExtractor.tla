---------------------------- MODULE MCExtractor ----------------------------
(***************************************************************************)
(* Instances of Extractor for TLC: one family of documents for each parser *)
(* that has to decide something.                                           *)
(***************************************************************************)
EXTENDS Extractor

SeqsUpTo(S, n) == UNION {[1..k -> S] : k \in 0..n}

header(l)  == [label |-> "section_header", level |-> l, text |-> "full"]
item(l, t) == [label |-> l, level |-> 1, text |-> t]

plain == [start |-> TRUE, level |-> 0, title |-> "none", ids |-> <<"none", "none">>,
          rest |-> FALSE, words |-> 5, ends |-> FALSE, bullet |-> FALSE]
markdown(l, t) == [plain EXCEPT !.level = l, !.title = t, !.words = 2]
opening(a, b)  == [plain EXCEPT !.ids = <<a, b>>]

Typed ==
    [typed : {TRUE}, lines : {<<plain>>},
     items : SeqsUpTo({header(1), header(2), header(3), item("text", "full"), item("text", "blank"),
                       item("table", "full"), item("table", "broken"), item("title", "full"),
                       item("title", "blank"), item("other", "full")}, 4)
             \cup SeqsUpTo({header(1), header(2), header(3)}, 6)]

(* Lines that carry Markdown headings, numbers or only words.              *)
Markdown == SeqsUpTo({plain, markdown(1, "a"), markdown(2, "a"), markdown(1, "b"),
                      markdown(2, "b"), markdown(3, "none")}, 5)
Numbered == SeqsUpTo({plain, [plain EXCEPT !.start = FALSE], opening("x", "none"),
                      [opening("x", "y") EXCEPT !.rest = TRUE], opening("y", "x"),
                      opening("z", "z"), [opening("none", "z") EXCEPT !.start = FALSE]}, 5)
Prose    == SeqsUpTo({[plain EXCEPT !.start = s, !.words = w, !.ends = e, !.bullet = b] :
                        s, e, b \in BOOLEAN, w \in {2, 5}}, 3)

MCDocuments ==
    Typed \cup {d \in [typed : {FALSE}, items : {<<>>}, lines : Markdown \cup Numbered \cup Prose] :
                    d.lines # <<>> => d.lines[1].start}
=============================================================================
