SPECIFICATION Spec
CONSTANTS
    ann = ann
    bob = bob
    once = once
    email = email
    staff = staff
    write = write
    Identity = {ann, bob}
    Login = {l1, l2}
    Edit = {e1}
    Group = {staff}
    Mapper = {once, email}
    Permission = {write}
    Rule <- OnceAndEmail
    Request <- Edits
    Body <- Nothing
    Start = {once}
    MaxUsers = 1
SYMMETRY Symmetry
CHECK_DEADLOCK FALSE
INVARIANT TypeOK
INVARIANT NothingFromNowhere
PROPERTY LostOnlyToOverlap
