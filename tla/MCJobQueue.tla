------------------------------ MODULE MCJobQueue ------------------------------
(***************************************************************************)
(* Instances of JobQueue for TLC: which RFDs there are and what users push *)
(* to the repository.                                                      *)
(***************************************************************************)
EXTENDS JobQueue

CONSTANTS r1, r2

PushOf(b, files) == [branch |-> b, files |-> files]

\* An RFD edited on its branch, and merged by a push that changes another one too.
BranchThenMerge == {PushOf(r1, <<r1>>), PushOf(Main, <<r1, r2>>)}

\* One RFD, edited on its branch and, by a push with two of its files, on the
\* default branch.
OneRfd == {PushOf(r1, <<r1>>), PushOf(Main, <<r1, r1>>)}

=============================================================================
