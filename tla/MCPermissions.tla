----------------------------- MODULE MCPermissions -----------------------------
(***************************************************************************)
(* An instance of Permissions for TLC.  Targets of all kinds are the owner *)
(* and one other user or number.                                           *)
(***************************************************************************)
EXTENDS Permissions, TLC

CONSTANTS other, g1, g2

MCBody ==
    {{One("GetRfd", other)},
     {Many("GetRfd", {owner, other})},
     {P("GetRfd", "assigned"), One("GetDiscussion", other)},
     {One("GetApiUser", owner), One("GetApiUser", other)},
     {P("GetApiUser", "self"), P("GetOAuthClient", "all"), P("CreateRfd", "plain")},
     {One("UpdateRfd", other)},
     {}}

MCTokenScope == {{}, {"rfd:content:r"}, {"rfd:content:w", "user:info:r"}, ValidScope}

MCKey == {{One("GetRfd", other)}, {P("GetRfd", "assigned"), P("GetRfd", "all")}}

Symmetry == Permutations({g1, g2})

=============================================================================
