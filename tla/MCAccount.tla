------------------------------- MODULE MCAccount -------------------------------
(***************************************************************************)
(* Instances of Account for TLC: the mapping rules, what edits ask for and *)
(* what administrators store.                                              *)
(***************************************************************************)
EXTENDS Account, TLC

CONSTANTS ann, bob, once, email, staff, write

\* A mapper that works once, for bob, and one without a limit for the email address
\* of ann.
OnceAndEmail ==
    once :> [who |-> {bob}, permissions |-> {write}, groups |-> {}, max |-> 1]
    @@ email :> [who |-> {ann}, permissions |-> {}, groups |-> {staff}, max |-> 0]

\* One edit that adds and one that takes away.
Edits ==
    {[op |-> "remove_from_group", what |-> {staff}],
     [op |-> "add_permissions", what |-> {write}]}

Nothing == {NoRow}

Symmetry == Permutations(Login)

=============================================================================
