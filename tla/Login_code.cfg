SPECIFICATION LoginSpec
CONSTANTS
    ann = ann
    bob = bob
    email = email
    staff = staff
    Identity = {ann, bob}
    Login = {l1, l2}
    Edit = {}
    Mapper = {email}
    Group = {staff}
    Permission = {}
    Rule <- EmailOfAnn
    Request = {}
    Body = {}
    Start = {}
    MaxUsers = 0
    Attempt = {a1}
    Callback = {b1, b2}
    NoCode = NoCode
    OneCallback = TRUE
SYMMETRY Symmetry
CHECK_DEADLOCK FALSE
INVARIANT LoginTypeOK
INVARIANT TokenIsOwners
INVARIANT SentCodeIsUsable
