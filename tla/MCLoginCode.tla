------------------------------ MODULE MCLoginCode ------------------------------
(***************************************************************************)
(* Instances of LoginCode for TLC.                                         *)
(***************************************************************************)
EXTENDS LoginCode, TLC

CONSTANTS ann, bob, email, staff

\* One mapper, for the email address of ann.
EmailOfAnn ==
    email :> [who |-> {ann}, permissions |-> {}, groups |-> {staff}, max |-> 0]

Symmetry == Permutations(Login) \cup Permutations(Callback)

=============================================================================
