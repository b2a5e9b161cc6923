\* One user, two groups, assignments in every form.
CONSTANTS
    owner = owner
    other = other
    g1 = g1
    g2 = g2
    Target = {owner, other}
    Group = {g1, g2}
    Body <- MCBody
    TokenScope <- MCTokenScope
    Key <- MCKey

SPECIFICATION Spec

SYMMETRY Symmetry

INVARIANTS
    TypeOK
    StoredIsGiven
    OnlySetsAreLost
    CallerIsBounded
    ScopeKeepsAssigned
