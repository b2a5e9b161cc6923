---------------------------- MODULE MCRfdArtifacts ----------------------------
(***************************************************************************)
(* An instance of RfdArtifacts for TLC.  The revisions are documents, and  *)
(* their sections are those that the specification of the parser finds.    *)
(***************************************************************************)
EXTENDS RfdArtifacts, TLC

CONSTANTS short, long, broken

H(level, id) == [level |-> level, id |-> id, name |-> <<id>>, blocks |-> <<>>]

\* A revision with one section, one with two others, and one with an id used twice.
Source ==
    [v \in {short, long, broken} |->
       [doctype |-> "article", title |-> <<>>, lead |-> TRUE,
        headings |-> CASE v = short -> <<H(1, "a")>>
                       [] v = long -> <<H(1, "b"), H(2, "c")>>
                       [] v = broken -> <<H(1, "a"), H(1, "a")>>]]

Parser == INSTANCE SectionParser
            WITH Document <- {Source[v] : v \in {short, long, broken}},
                 Id <- {"a", "b", "c"}, Block <- {}, Word <- {"a", "b", "c"},
                 rfd_number <- 1, doc <- Source[short], outcome <- "unread",
                 parsed <- [title |-> <<>>, sections |-> <<>>], documents <- <<>>

MCSections ==
    [v \in Revision |->
       {Parser!parse(Source[v]).sections[i].section_id :
           i \in DOMAIN Parser!parse(Source[v]).sections}]

MCParses == {v \in Revision : ~ Parser!Warned(Source[v])}

Symmetry == Permutations(Run)

=============================================================================
