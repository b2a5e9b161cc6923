\* What a caller may do is what the user and its groups were given.
CONSTANTS
    owner = owner
    other = other
    g1 = g1
    g2 = g2
    Target = {owner, other}
    Group = {g1}
    Body <- MCBody
    TokenScope <- MCTokenScope
    Key <- MCKey

SPECIFICATION Spec

INVARIANTS
    CallerIsCombined
