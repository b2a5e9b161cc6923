--------------------------- MODULE MCSectionParser ---------------------------
(***************************************************************************)
(* An instance of SectionParser for TLC: every way in which the levels of  *)
(* up to five headings can follow each other, with ids that are all        *)
(* different or used twice, the same without a title, with text before the *)
(* first heading or not, and a list of titles.                             *)
(***************************************************************************)
EXTENDS SectionParser

CONSTANTS MaxHeadings, MaxLevel

\* Ids and blocks are numbers: the id of a heading is its position, or the id of the
\* first heading for the one that repeats it.  Every second heading has two blocks.
\* Two neighbouring headings share a name.
MCHeading(i, level, id) ==
    [level |-> level, id |-> id, name |-> <<IF i \in {2, 3} THEN "b" ELSE "a">>,
     blocks |-> IF i % 2 = 1 THEN <<2 * i - 1, 2 * i>> ELSE <<2 * i>>]

Levels == BoundedSeq(0 .. MaxLevel, MaxHeadings)

Article == <<"RFD", " ", "12", " ", "a", " ", "b">>

\* Without a title, with text before the first heading or not, every id is used once.
Outlines ==
    LET Outline(t, lead, type, levels, repeated) ==
            [doctype |-> type, title |-> t, lead |-> lead,
             headings |-> [i \in DOMAIN levels |->
                 MCHeading(i, levels[i], IF i = repeated THEN 1 ELSE i)]]
        Types == {"article", "book"}
    IN  UNION {
            {Outline(Article, FALSE, type, levels, repeated) :
                type \in Types, levels \in Levels, repeated \in {0, 2, MaxHeadings}},
            {Outline(<<>>, TRUE, type, levels, 0) : type \in Types, levels \in Levels},
            {Outline(<<>>, FALSE, type, levels, 0) :
                type \in Types, levels \in {l \in Levels : l = <<>> \/ l[1] # 0}}}

Ends == {<<"a">>, <<"a", " ", "b">>, <<"RFD", "a">>, <<"a", " ", "RFD">>, <<"a", "#">>,
         <<"a", "#", " ", "b">>, <<"a", " ", "=", " ", "b">>, <<" ", "a">>}
Starts == {<<>>, <<"RFD", " ">>, <<"RFD", " ", "12", " ">>, <<"#", " ", "RFD", " ", "12", " ">>}

\* Asciidoctor strips a title; none is the empty one.
Titles == {t \in {start \o end : start \in Starts, end \in Ends \cup {<<>>}} :
               t = <<>> \/ (Head(t) # " " /\ Last(t) # " ")}

Titled ==
    {[doctype |-> "article", title |-> t, lead |-> FALSE, headings |-> headings] :
        t \in Titles, headings \in {<<>>, <<MCHeading(1, 1, 1)>>}}

Deep ==
    [doctype |-> "book", title |-> Article, lead |-> FALSE,
     headings |-> [i \in 1 .. 8 |-> MCHeading(i, IF i < 7 THEN i - 1 ELSE i - 6, i)]]

MCDocument == Outlines \cup Titled \cup {Deep}
MCId == 1 .. 8
MCBlock == 1 .. 16
MCWord == {"a", "b", "12"}

=============================================================================
