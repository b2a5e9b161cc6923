---------------------------- MODULE SectionParser ----------------------------
(***************************************************************************)
(* The way of a document into the search index: Asciidoctor builds the     *)
(* tree of its sections, the parser script flattens the tree into a list,  *)
(* and the processor makes one search document of each section.            *)
(*                                                                         *)
(* A document is a title, whether text leads up to the first heading, and  *)
(* the headings in the order of the source, each with the blocks of text   *)
(* that follow it.  Names are sequences of atoms: a word or one of the     *)
(* strings that the title is searched for.  Not modelled: special          *)
(* sections, level offsets, anchors that are not headings, and the         *)
(* conversion of a block to text.                                          *)
(***************************************************************************)
EXTENDS Integers, Sequences, FiniteSets, SequencesExt

CONSTANTS
    Document,    \* the documents to parse
    Id,          \* the ids of headings, given in the source or generated
    Block,       \* blocks of text
    Word,        \* atoms that are words
    rfd_number   \* the number of the RFD

Atom == Word \cup {"RFD", " ", "#", "="}
Name == Seq(Atom)

Heading == [level : 0 .. 5, id : Id, name : Name, blocks : Seq(Block)]
\* Without a title the title is <<>>.  A block title above a title line, which is then
\* none, counts as lead.
DocumentType ==
    [doctype : {"article", "book"}, title : Name, lead : BOOLEAN, headings : Seq(Heading)]

\* A first line at level 0 is the title.
FirstTitleIsTaken(d) ==
    d.title = <<>> /\ ~ d.lead /\ d.headings # <<>> => d.headings[1].level # 0

ASSUME WordAssumption == Word \cap {"RFD", " ", "#", "="} = {}
ASSUME DocumentAssumption == \A d \in Document : d \in DocumentType /\ FirstTitleIsTaken(d)

VARIABLES
    doc,         \* the document
    outcome,     \* what became of it
    parsed,      \* what the parser printed
    documents    \* the search documents made of it

vars == <<doc, outcome, parsed, documents>>

Section == [section_id : Id, name : Name, content : Seq(Block), parents : Seq(Name)]
\* hierarchy_lvl0 is kept without the number, which is the same for all.
IndexDocumentType ==
    [object_id : {rfd_number} \X Id, name : Name, level : 1 .. 6, anchor : Id,
     content : Seq(Block), hierarchy_lvl0 : Name, hierarchy : Seq(Name),
     radio_level : 1 .. 5, radio : Name]

Nothing == [title |-> <<>>, sections |-> <<>>]

TypeOK ==
    /\ doc \in Document
    /\ outcome \in {"unread", "failed", "refused", "indexed"}
    /\ parsed \in [title : Name, sections : Seq(Section)]
    /\ documents \in Seq(IndexDocumentType)

Init ==
    /\ doc \in Document
    /\ outcome = "unread"
    /\ parsed = Nothing
    /\ documents = <<>>

-----------------------------------------------------------------------------
(* The tree.  The document itself is 0. *)

\* A set of positions as a sequence, in the order of the source.
InOrder(S) == CHOOSE s \in [1 .. Cardinality(S) -> S] : IsSorted(s, <)

Parent(hs, i) ==
    SelectLastInSubSeq(hs, 1, i - 1, LAMBDA h : h.level < hs[i].level)

getSections(hs, i) == InOrder({j \in DOMAIN hs : Parent(hs, j) = i})

\* The document takes in its headings itself and checks them.  When it begins with a
\* heading, that heading and the ones outside it are taken one by one, unchecked.
TopIsChecked(d) == d.title # <<>> \/ d.lead

\* A heading is one level below the section it is in.  At the top, where it is checked,
\* level 1 is expected, or in a book a part, which must have chapters.
InSequence(d, i) ==
    LET hs == d.headings
        p == Parent(hs, i)
        isPart == hs[i].level = 0
    IN  /\ p # 0 => hs[i].level = hs[p].level + 1
        /\ p = 0 /\ TopIsChecked(d) => hs[i].level = 1 \/ (isPart /\ d.doctype = "book")
        /\ isPart /\ d.doctype = "book" => getSections(hs, i) # <<>>

\* Mutant of Warned: an id may be used twice.
WarnedOfLevels(d) == \E i \in DOMAIN d.headings : ~ InSequence(d, i)

\* Whether Asciidoctor logs anything.
Warned(d) ==
    \E i \in DOMAIN d.headings :
        \/ ~ InSequence(d, i)
        \/ \E j \in 1 .. i - 1 : d.headings[j].id = d.headings[i].id

-----------------------------------------------------------------------------
(* The parser script. *)

\* Mutant of walk: one ancestor more.
walkTooFar(hs, s) ==
    LET up[curr \in 0 .. Len(hs)] ==
            [level \in Int |-> IF level = 0 \/ curr = 0 THEN <<>>
                               ELSE <<hs[curr].name>> \o up[Parent(hs, curr)][level - 1]]
    IN  up[Parent(hs, s)][hs[s].level]

\* The names of as many ancestors as the level tells, or of all of them when
\* counting down from the level of a part never meets zero.  The document has
\* no name.
walk(hs, s) ==
    LET up[curr \in 0 .. Len(hs)] ==
            [level \in Int |-> IF level = 0 \/ curr = 0 THEN <<>>
                               ELSE <<hs[curr].name>> \o up[Parent(hs, curr)][level - 1]]
    IN  up[Parent(hs, s)][hs[s].level - 1]

\* Mutant of content: the text of nested sections too.
contentOfAll(hs, s) ==
    LET all[i \in DOMAIN hs] ==
            hs[i].blocks \o FlattenSeq([k \in DOMAIN getSections(hs, i) |->
                                           all[getSections(hs, i)[k]]])
    IN  all[s]

content(hs, s) == hs[s].blocks

entry(hs, s) ==
    [section_id |-> hs[s].id, name |-> hs[s].name,
     content |-> content(hs, s), parents |-> walk(hs, s)]

\* Mutant of formatSection: the nested sections first.
formatSectionLast(hs, s) ==
    LET format[i \in DOMAIN hs] ==
            LET nested == getSections(hs, i)
            IN  Append(FlattenSeq([k \in DOMAIN nested |-> format[nested[k]]]),
                       entry(hs, i))
    IN  format[s]

\* A section, and then those nested in it.
formatSection(hs, s) ==
    LET format[i \in DOMAIN hs] ==
            LET nested == getSections(hs, i)
            IN  <<entry(hs, i)>> \o FlattenSeq([k \in DOMAIN nested |-> format[nested[k]]])
    IN  format[s]

\* Without a title a document is called after its first section.
getTitle(d) ==
    IF d.title = <<>> /\ d.headings # <<>> THEN d.headings[1].name ELSE d.title

IsSpace(atom) == atom = " "
IsText(atom) == atom # " "

trim(t) ==
    IF \E k \in DOMAIN t : IsText(t[k])
    THEN SubSeq(t, SelectInSeq(t, IsText), SelectLastInSubSeq(t, 1, Len(t), IsText))
    ELSE <<>>

afterFirstSpace(t) ==
    IF Contains(t, " ") THEN SubSeq(t, SelectInSeq(t, IsSpace) + 1, Len(t)) ELSE <<>>

\* Mutant of title: keeps the number.
titleWithNumber(d) ==
    LET remove(t, s) == ReplaceFirstSubSeq(<<>>, s, t)
    IN  trim(remove(remove(remove(getTitle(d), <<"RFD">>), <<"#", " ">>), <<"=", " ">>))

\* Removes "RFD", "# " and "= " where each comes first, and then the first word.
title(d) ==
    LET remove(t, s) == ReplaceFirstSubSeq(<<>>, s, t)
    IN  afterFirstSpace(trim(
            remove(remove(remove(getTitle(d), <<"RFD">>), <<"#", " ">>), <<"=", " ">>)))

parse(d) ==
    LET top == getSections(d.headings, 0)
    IN  [title |-> title(d),
         sections |-> FlattenSeq([k \in DOMAIN top |-> formatSection(d.headings, top[k])])]

-----------------------------------------------------------------------------
(* The processor. *)

\* The hash that names a document is the pair of what is hashed: the number has at
\* least four digits, so that up to number 9999 nothing else has the same bytes.
ObjectId(section) == <<rfd_number, section.section_id>>

\* Mutant of Radio: the section around this one.
RadioOfNearest(section) ==
    IF section.parents = <<>> THEN section.name ELSE Head(section.parents)

Radio(section) == IF section.parents = <<>> THEN section.name ELSE Last(section.parents)

\* Mutant of Level: counts from zero.
LevelFromZero(section) == Len(section.parents)

Level(section) == Len(section.parents) + 1

IndexDocument(section, t) ==
    [object_id |-> ObjectId(section), name |-> section.name,
     level |-> Level(section), anchor |-> section.section_id,
     content |-> section.content, hierarchy_lvl0 |-> t,
     hierarchy |-> <<section.name>> \o section.parents,
     radio_level |-> IF Level(section) > 5 THEN 5 ELSE Level(section),
     radio |-> Radio(section)]

\* Anything that Asciidoctor logs is an error of the parser.
parse_document ==
    /\ outcome = "unread"
    /\ IF Warned(doc)
       THEN outcome' = "refused" /\ UNCHANGED <<parsed, documents>>
       ELSE /\ outcome' = "indexed"
            /\ parsed' = parse(doc)
            /\ documents' = [i \in DOMAIN parsed'.sections |->
                                IndexDocument(parsed'.sections[i], parsed'.title)]
    /\ UNCHANGED doc

\* The script cannot be written, started, read or removed.
ParserFails ==
    /\ outcome = "unread"
    /\ outcome' = "failed"
    /\ UNCHANGED <<doc, parsed, documents>>

Next == parse_document \/ ParserFails

Spec == Init /\ [][Next]_vars

-----------------------------------------------------------------------------
(* Properties of what was indexed. *)

Indexed == outcome = "indexed"

\* Heading j is open at heading i: nothing up to i has closed it.
Encloses(j, i) ==
    /\ j < i
    /\ \A k \in j + 1 .. i : doc.headings[k].level > doc.headings[j].level

\* The headings around i, parts left out.
Enclosing(i) == {j \in 1 .. i : Encloses(j, i) /\ doc.headings[j].level > 0}

\* The same, the innermost first.
Around(i) == Reverse(InOrder(Enclosing(i)))

\* The walk over the tree finds every section once, in the order of the source,
\* however the levels rise and fall (formatSection, parse).
SectionsInDocumentOrder ==
    Indexed =>
        [i \in DOMAIN parsed.sections |-> parsed.sections[i].section_id]
            = [i \in DOMAIN doc.headings |-> doc.headings[i].id]

\* The parents of a section are the headings around it in the source, although they
\* are counted by its level and not by the tree; the parts of a book are not among
\* them (formatSection).
ParentsAreEnclosing ==
    Indexed =>
        \A i \in DOMAIN doc.headings :
            \E s \in DOMAIN parsed.sections :
                /\ parsed.sections[s].section_id = doc.headings[i].id
                /\ parsed.sections[s].parents
                       = [n \in DOMAIN Around(i) |-> doc.headings[Around(i)[n]].name]

\* All text below a heading is found under one section and no other, in order
\* (formatSection: blocks that are sections are left to their own entry).
TextIsIndexedOnce ==
    Indexed =>
        FlattenSeq([i \in DOMAIN documents |-> documents[i].content])
            = FlattenSeq([i \in DOMAIN doc.headings |-> doc.headings[i].blocks])

\* No section replaces another one in the index (IndexDocument::new: the hash is "to
\* enforce uniqueness amongst documents"; it is of the number and the id only).
DocumentsAreDistinct ==
    \A i, j \in DOMAIN documents :
        documents[i].object_id = documents[j].object_id => i = j

\* A title of the form "RFD 12 Something" is indexed as "Something", whatever words
\* it has, as long as none of them ends in "#" or "=" (parse).
TitleIsRest ==
    Indexed =>
        LET t == doc.title
            rest == SubSeq(t, 5, Len(t))
            bare == \A k \in DOMAIN rest : rest[k] \notin {"#", "="}
        IN  Len(t) > 4 /\ t[1] = "RFD" /\ t[2] = " " /\ t[3] \in Word /\ t[4] = " "
                /\ t[5] # " " /\ Last(t) # " " /\ bare
            => \A i \in DOMAIN documents : documents[i].hierarchy_lvl0 = rest

\* The outermost of a heading and those around it.
Outermost(i) == Min(Enclosing(i) \cup {i})

\* The radio entry of a search document names the section at the top of its branch, and
\* its level is counted from there: it is that of the heading if the document has a title
\* or text before the first heading, and else relative to a top that may be on any level
\* (IndexDocument::new, which sees no level but only the number of parents and the last
\* of them).
LevelsAreOfHeadings ==
    Indexed =>
        \A i \in DOMAIN doc.headings :
            LET h == doc.headings[i]
                top == doc.headings[Outermost(i)]
            IN  h.level > 0 =>
                    /\ documents[i].radio = top.name
                    /\ documents[i].level = h.level - top.level + 1
                    /\ doc.title # <<>> \/ doc.lead => documents[i].level = h.level

=============================================================================
