-------------------------- MODULE AccountOperations --------------------------
(***************************************************************************)
(* What the account operations of the API promise about the users and the  *)
(* identities linked to them when calls overlap as they like: an operation *)
(* reads its user at one moment of the call, and at a later one stores     *)
(* that user with its own change made.  What was stored before the call    *)
(* began is never lost by it; what is stored between the two moments is.   *)
(***************************************************************************)
EXTENDS Naturals, Sequences

CONSTANTS
    Identity,     \* the external identities that log in
    Login,        \* calls of register_api_user
    Edit,         \* calls of the operations that edit one user
    Request,      \* what an edit may be asked for
    Body,         \* the users that an administrator may store as a whole
    MayGive(_)    \* what the mappers may give an identity, at most

VARIABLES users, providers, logins, edits

Nobody == 0
NoRow == [permissions |-> {}, groups |-> {}]

Init ==
    /\ users = <<>>
    /\ providers = [i \in Identity |-> Nobody]
    /\ logins = [l \in Login |-> [at |-> "idle"]]
    /\ edits = [e \in Edit |-> [at |-> "idle"]]

\* The parts of what the mappers may give.
Gifts(i) == [permissions : SUBSET MayGive(i).permissions,
             groups : SUBSET MayGive(i).groups]

Given(row, gift) == [permissions |-> row.permissions \cup gift.permissions,
                     groups |-> row.groups \cup gift.groups]

\* Whether the identity is known is decided as the call begins.
CallLogin(l, i) ==
    /\ logins[l].at = "idle"
    /\ logins' = [logins EXCEPT ![l] =
          [at |-> "called", identity |-> i, found |-> providers[i], user |-> Nobody,
           copy |-> NoRow]]
    /\ UNCHANGED <<users, providers, edits>>

\* The identity was new: it gets a user, which is linked to it in a second step.
NewUser(l) ==
    /\ logins[l].at = "called"
    /\ logins[l].found = Nobody
    /\ \E gift \in Gifts(logins[l].identity) : users' = Append(users, gift)
    /\ logins' = [logins EXCEPT ![l].at = "created", ![l].user = Len(users) + 1]
    /\ UNCHANGED <<providers, edits>>

\* One login of an identity links it, and no link is ever moved.  A login that comes
\* too late fails and leaves its user behind.
Link(l) ==
    /\ logins[l].at = "created"
    /\ providers[logins[l].identity] = Nobody
    /\ providers' = [providers EXCEPT ![logins[l].identity] = logins[l].user]
    /\ logins' = [logins EXCEPT ![l].at = "done"]
    /\ UNCHANGED <<users, edits>>

\* The identity was known: its user gets what the mappers give on top of what it has.
ReadUser(l) ==
    /\ logins[l].at = "called"
    /\ logins[l].found # Nobody
    /\ \E gift \in Gifts(logins[l].identity) :
          logins' = [logins EXCEPT ![l].at = "read",
                                   ![l].copy = Given(users[logins[l].found], gift)]
    /\ UNCHANGED <<users, providers, edits>>

Grant(l) ==
    /\ logins[l].at = "read"
    /\ users' = [users EXCEPT ![logins[l].found] = logins[l].copy]
    /\ logins' = [logins EXCEPT ![l].at = "done", ![l].user = logins[l].found,
                                ![l].copy = NoRow]
    /\ UNCHANGED <<providers, edits>>

FailLogin(l) ==
    /\ logins[l].at \in {"called", "created", "read"}
    /\ logins' = [logins EXCEPT ![l].at = "failed", ![l].copy = NoRow]
    /\ UNCHANGED <<users, providers, edits>>

\* What an edit does to a user.
Done(row, r) ==
    [permissions |-> row.permissions \cup
                     (IF r.op = "add_permissions" THEN r.what ELSE {}),
     groups |-> (row.groups \cup (IF r.op = "add_to_group" THEN r.what ELSE {}))
                  \ (IF r.op = "remove_from_group" THEN r.what ELSE {})]

\* An edit reads its user as it begins.
CallEdit(e, u, r) ==
    /\ edits[e].at = "idle"
    /\ edits' = [edits EXCEPT ![e] =
          [at |-> "read", user |-> u, request |-> r, copy |-> Done(users[u], r)]]
    /\ UNCHANGED <<users, providers, logins>>

Perform(e) ==
    /\ edits[e].at = "read"
    /\ users' = [users EXCEPT ![edits[e].user] = edits[e].copy]
    /\ edits' = [edits EXCEPT ![e].at = "done", ![e].copy = NoRow]
    /\ UNCHANGED <<providers, logins>>

FailEdit(e) ==
    /\ edits[e].at = "read"
    /\ edits' = [edits EXCEPT ![e].at = "failed", ![e].copy = NoRow]
    /\ UNCHANGED <<users, providers, logins>>

\* An administrator creates a user, or stores one as a whole.
Create(row) ==
    /\ users' = Append(users, row)
    /\ UNCHANGED <<providers, logins, edits>>

Replace(u, row) ==
    /\ users' = [users EXCEPT ![u] = row]
    /\ UNCHANGED <<providers, logins, edits>>

Next ==
    \/ \E l \in Login, i \in Identity : CallLogin(l, i)
    \/ \E l \in Login : NewUser(l) \/ Link(l) \/ ReadUser(l) \/ Grant(l) \/ FailLogin(l)
    \/ \E e \in Edit, u \in DOMAIN users, r \in Request : CallEdit(e, u, r)
    \/ \E e \in Edit : Perform(e) \/ FailEdit(e)
    \/ \E row \in Body : Create(row)
    \/ \E u \in DOMAIN users, row \in Body : Replace(u, row)

accounts == <<users, providers, logins, edits>>

Spec == Init /\ [][Next]_accounts

=============================================================================
