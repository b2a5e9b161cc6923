---------------------------- MODULE AccountProofs ----------------------------
(***************************************************************************)
(* What is proved of Account, for any identities, calls, mappers, rules    *)
(* and administrators, and whether or not calls that work on one user      *)
(* overlap: the types, and that nobody has a permission or a group that    *)
(* was not given to them.                                                  *)
(***************************************************************************)
EXTENDS Account, TLAPS

-----------------------------------------------------------------------------
(* The invariant. *)

Busy == {"mappers", "mapping", "consume", "apply", "store"}

\* The users that calls refer to exist; a login has one of its own only when it
\* has created it or is done with it; a copy to store is of a user that was found.
CallInv ==
    \A l \in Login : login[l].pc # "idle" =>
        /\ login[l].found \in 0 .. Len(users)
        /\ login[l].user \in 0 .. Len(users)
        /\ login[l].pc \in Busy => login[l].user = Nobody
        /\ login[l].pc = "link" => login[l].user # Nobody
        /\ login[l].pc = "store" => login[l].found # Nobody

EditInv ==
    \A e \in Edit : edit[e].pc # "idle" => edit[e].user \in 1 .. Len(users)

Held(row) == row.permissions \cup row.groups
Gift(i) == MayGive(i).permissions \cup MayGive(i).groups
Sources(u) == FromLogin(u) \cup FromEdit(u) \cup FromBody

\* What is in the hands of a call comes from where it may come from: for a login
\* that has mapped, from its mappers; for a copy of a user, from that user's
\* sources as well.
MappedInv ==
    \A l \in Login : login[l].pc # "idle" /\ login[l].pc # "store" =>
        Held(login[l].row) \subseteq Gift(login[l].identity)

CopyInv ==
    \A l \in Login : login[l].pc = "store" =>
        Held(login[l].row) \subseteq Gift(login[l].identity) \cup Sources(login[l].found)

EditRowInv ==
    \A e \in Edit : edit[e].pc = "store" =>
        Held(edit[e].row) \subseteq Sources(edit[e].user)

StateInv == TypeOK /\ CallInv /\ EditInv
RowsInv == MappedInv /\ CopyInv /\ EditRowInv /\ NothingFromNowhere

-----------------------------------------------------------------------------
(* Types. *)

USE DEF Nobody, Idle

\* A call that has begun has all its fields.
LEMMA Begun ==
    ASSUME StateInv
    PROVE  /\ \A l \in Login : login[l].pc # "idle" => login[l] \in LoginType
           /\ \A e \in Edit : edit[e].pc # "idle" => edit[e] \in EditType
BY SMT DEF StateInv, TypeOK

\* What a rule gives has its type.
LEMMA RulesTyped ==
    ASSUME NEW m \in Mapper, NEW i
    PROVE  /\ PermissionsFor(m, i) \subseteq Permission
           /\ GroupsFor(m, i) \subseteq Group
           /\ Rule[m].max \in Nat
BY AccountAssumption, SMT DEF AccountAssumption, RuleType, PermissionsFor, GroupsFor

LEMMA InitState == Init => StateInv
<1> SUFFICES ASSUME Init PROVE StateInv
    OBVIOUS
<1>1. users = <<>> /\ users \in Seq(Row) /\ Len(users) = 0
    BY SMT DEF Init
<1> QED
    BY <1>1, AccountAssumption, SMT
    DEF Init, StateInv, TypeOK, CallInv, EditInv, Presence, Row, AccountAssumption

LEMMA EndedTyped ==
    ASSUME NEW x \in LoginType, NEW pc \in {"done", "failed"}
    PROVE  /\ Ended(x, pc) \in LoginType
           /\ Ended(x, pc).pc = pc
           /\ Ended(x, pc).identity = x.identity
           /\ Ended(x, pc).found = x.found
           /\ Ended(x, pc).user = x.user
           /\ Ended(x, pc).row = NoRow
<1>1. NothingSeen \in [Mapper -> Nat]
    BY SMT DEF NothingSeen
<1>2. NoRow \in Row
    BY SMT DEF NoRow, Row
<1>3. pc \in LoginPC
    BY SMT DEF LoginPC
<1>4. Ended(x, pc) \in LoginType
    BY <1>1, <1>2, <1>3, Zenon DEF Ended, LoginType
<1> QED
    BY <1>4, Zenon DEF Ended, LoginType

\* What StateInv says of a login that has begun.
LEMMA BegunLogin ==
    ASSUME StateInv, NEW l \in Login, login[l].pc # "idle"
    PROVE  /\ login[l] \in LoginType
           /\ login[l].found \in 0 .. Len(users)
           /\ login[l].user \in 0 .. Len(users)
           /\ login[l].pc \in Busy => login[l].user = Nobody
           /\ login[l].pc = "link" => login[l].user # Nobody
           /\ login[l].pc = "store" => login[l].found # Nobody
BY Begun DEF StateInv, CallInv

-----------------------------------------------------------------------------
(* What each step of a login changes. *)

Tables == <<users, providers, groups, mappers, activations, depleted, edit>>

\* A call is replaced by x, which is about the same identity and user found.
Becomes(l, x) ==
    /\ login' = [login EXCEPT ![l] = x]
    /\ x \in LoginType
    /\ login[l].pc # "idle" /\ x.pc # "idle"
    /\ x.identity = login[l].identity
    /\ x.found = login[l].found

\* Steps of the loop over the mappers.
Looping == {"mappers", "mapping", "consume", "apply"}

Loops(l, x) ==
    /\ Becomes(l, x)
    /\ login[l].pc \in Looping /\ x.pc \in Looping
    /\ x.user = login[l].user
    /\ Held(x.row) \subseteq Held(login[l].row) \cup Gift(login[l].identity)
    /\ UNCHANGED <<users, providers, groups, mappers, edit>>
    /\ activations' \in [Mapper -> Nat] /\ depleted' \subseteq Mapper

LEMMA GetMappingsLoops ==
    ASSUME StateInv, NEW l \in Login, GetMappings(l)
    PROVE  \E x \in LoginType : Loops(l, x)
<1> DEFINE x == [login[l] EXCEPT !.pc = "mapping",
                     !.todo = {m \in Mapper : mappers[m] = "live"} \ depleted,
                     !.seen = activations]
<1>1. login[l].pc = "mappers" /\ login[l].pc # "idle"
    BY Zenon DEF GetMappings
<1>2. login[l] \in LoginType
    BY <1>1, BegunLogin
<1>3. /\ login' = [login EXCEPT ![l] = x]
      /\ UNCHANGED <<users, providers, groups, mappers, activations, depleted, edit>>
    BY Zenon DEF GetMappings, admin, counts
<1>4. activations \in [Mapper -> Nat] /\ depleted \subseteq Mapper
    BY Zenon DEF StateInv, TypeOK
<1>5. {m \in Mapper : mappers[m] = "live"} \ depleted \in SUBSET Mapper
    BY Zenon
<1>6. x \in LoginType
    BY <1>2, <1>4, <1>5, Zenon DEF LoginType, LoginPC
<1>7. /\ x.pc = "mapping" /\ x.found = login[l].found /\ x.user = login[l].user
      /\ x.identity = login[l].identity /\ x.row = login[l].row
    BY <1>2, Zenon DEF LoginType
<1> HIDE DEF x
<1> QED
    BY <1>1, <1>3, <1>4, <1>6, <1>7, Zenon DEF Loops, Becomes, Looping

LEMMA TestRuleLoops ==
    ASSUME StateInv, NEW l \in Login, NEW m \in Mapper, TestRule(l, m)
    PROVE  \E x \in LoginType : Loops(l, x)
<1> DEFINE gives == PermissionsFor(m, login[l].identity) \cup GroupsFor(m, login[l].identity) # {}
           next == IF ~gives THEN "mapping" ELSE IF Rule[m].max = 0 THEN "apply" ELSE "consume"
           current == IF gives THEN {m} ELSE {}
           x == [login[l] EXCEPT !.todo = @ \ {m}, !.current = current, !.pc = next]
<1>1. login[l].pc = "mapping" /\ login[l].pc # "idle"
    BY Zenon DEF TestRule
<1>2. login[l] \in LoginType
    BY <1>1, BegunLogin
<1>3. /\ login' = [login EXCEPT ![l] = x]
      /\ UNCHANGED <<users, providers, groups, mappers, activations, depleted, edit>>
    BY Zenon DEF TestRule, admin, counts
<1>4. activations \in [Mapper -> Nat] /\ depleted \subseteq Mapper
    BY Zenon DEF StateInv, TypeOK
<1>5. login[l].todo \ {m} \in SUBSET Mapper /\ current \in SUBSET Mapper
    BY <1>2, Zenon DEF LoginType
<1>6. next \in {"mapping", "apply", "consume"}
    BY Zenon
<1> HIDE DEF current, next
<1>7. x \in LoginType
  <2>1. next \in LoginPC
      BY <1>6, Zenon DEF LoginPC
  <2> QED
      BY <1>2, <1>5, <2>1, Zenon DEF LoginType
<1>8. /\ x.pc = next /\ x.found = login[l].found /\ x.user = login[l].user
      /\ x.identity = login[l].identity /\ x.row = login[l].row
    BY <1>2, Zenon DEF LoginType
<1> HIDE DEF x
<1> QED
    BY <1>1, <1>3, <1>4, <1>6, <1>7, <1>8, Zenon DEF Loops, Becomes, Looping

LEMMA ConsumeActivationLoops ==
    ASSUME StateInv, NEW l \in Login, NEW m \in Mapper, ConsumeActivation(l, m)
    PROVE  \E x \in LoginType : Loops(l, x)
<1> DEFINE n == login[l].seen[m] + 1
           y == [login[l] EXCEPT !.pc = "apply"]
           z == [login[l] EXCEPT !.pc = "mapping", !.current = {}]
<1>1. login[l].pc = "consume" /\ login[l].pc # "idle"
    BY Zenon DEF ConsumeActivation
<1>2. login[l] \in LoginType
    BY <1>1, BegunLogin
<1>3. activations \in [Mapper -> Nat] /\ depleted \subseteq Mapper
    BY Zenon DEF StateInv, TypeOK
<1>4. /\ UNCHANGED <<users, providers, groups, mappers, edit>>
      /\ login' \in {[login EXCEPT ![l] = y], [login EXCEPT ![l] = z]}
      /\ \/ /\ activations' = [activations EXCEPT ![m] = n]
            /\ depleted' = IF n = Rule[m].max THEN depleted \cup {m} ELSE depleted \ {m}
         \/ UNCHANGED <<activations, depleted>>
    BY Zenon DEF ConsumeActivation, admin, counts
<1>5. activations' \in [Mapper -> Nat] /\ depleted' \subseteq Mapper
  <2>1. n \in Nat
      BY <1>2, SMT DEF LoginType
  <2> HIDE DEF n, y, z
  <2> QED
      BY <1>3, <1>4, <2>1, SMT
<1>6. y \in LoginType /\ z \in LoginType
    BY <1>2, Zenon DEF LoginType, LoginPC
<1>7. /\ y.pc = "apply" /\ y.found = login[l].found /\ y.user = login[l].user
      /\ y.identity = login[l].identity /\ y.row = login[l].row
      /\ z.pc = "mapping" /\ z.found = login[l].found /\ z.user = login[l].user
      /\ z.identity = login[l].identity /\ z.row = login[l].row
    BY <1>2, Zenon DEF LoginType
<1> HIDE DEF n, y, z
<1>8. CASE login' = [login EXCEPT ![l] = y]
    BY <1>1, <1>4, <1>5, <1>6, <1>7, <1>8, Zenon DEF Loops, Becomes, Looping
<1>9. CASE login' = [login EXCEPT ![l] = z]
    BY <1>1, <1>4, <1>5, <1>6, <1>7, <1>9, Zenon DEF Loops, Becomes, Looping
<1> QED
    BY <1>4, <1>8, <1>9, Zenon

\* What a mapper gives is part of what the mappers may give.
LEMMA RuleIsGift ==
    ASSUME NEW m \in Mapper, NEW i
    PROVE  PermissionsFor(m, i) \cup GroupsFor(m, i) \subseteq Gift(i)
<1>1. CASE ~Matches(m, i)
    BY <1>1, Zenon DEF PermissionsFor, GroupsFor
<1>2. CASE Matches(m, i)
  <2> DEFINE rules == {Rule[k] : k \in {n \in Mapper : Matches(n, i)}}
  <2>1. Rule[m] \in rules
      BY <1>2
  <2>2. /\ MayGive(i).permissions = UNION {r.permissions : r \in rules}
        /\ MayGive(i).groups = UNION {r.groups : r \in rules}
      BY Zenon DEF MayGive
  <2>3. /\ Rule[m].permissions \subseteq MayGive(i).permissions
        /\ Rule[m].groups \subseteq MayGive(i).groups
    <3> HIDE DEF rules
    <3> QED
        BY <2>1, <2>2, SMT
  <2> QED
      BY <2>3, SMT DEF PermissionsFor, GroupsFor, Gift
<1> QED
    BY <1>1, <1>2

LEMMA ApplyRuleLoops ==
    ASSUME StateInv, NEW l \in Login, NEW m \in Mapper, ApplyRule(l, m)
    PROVE  \E x \in LoginType : Loops(l, x)
<1> DEFINE permissions == PermissionsFor(m, login[l].identity)
           grps == GroupsFor(m, login[l].identity)
           x == [login[l] EXCEPT !.row.permissions = @ \cup permissions,
                                 !.row.groups = @ \cup grps,
                                 !.current = {},
                                 !.pc = "mapping"]
<1>1. login[l].pc = "apply" /\ login[l].pc # "idle"
    BY Zenon DEF ApplyRule
<1>2. login[l] \in LoginType
    BY <1>1, BegunLogin
<1>3. /\ login' = [login EXCEPT ![l] = x]
      /\ UNCHANGED <<users, providers, groups, mappers, activations, depleted, edit>>
    BY Zenon DEF ApplyRule, admin, counts
<1>4. activations \in [Mapper -> Nat] /\ depleted \subseteq Mapper
    BY Zenon DEF StateInv, TypeOK
<1>5. permissions \subseteq Permission /\ grps \subseteq Group
    BY RulesTyped, Zenon
<1>6. permissions \cup grps \subseteq Gift(login[l].identity)
    BY RuleIsGift, Zenon
<1> HIDE DEF permissions, grps
<1>7. x \in LoginType
  <2> DEFINE row == [login[l].row EXCEPT !.permissions = @ \cup permissions,
                                         !.groups = @ \cup grps]
  <2>1. login[l].row \in Row
      BY <1>2, Zenon DEF LoginType
  <2>2. row \in Row
    <3>1. /\ login[l].row.permissions \cup permissions \in SUBSET Permission
          /\ login[l].row.groups \cup grps \in SUBSET Group
        BY <1>5, <2>1, Zenon DEF Row
    <3> QED
        BY <2>1, <3>1, Zenon DEF Row
  <2>3. x = [login[l] EXCEPT !.row = row, !.current = {}, !.pc = "mapping"]
      BY <1>2, Zenon DEF LoginType
  <2> HIDE DEF row, x
  <2> QED
      BY <1>2, <2>1, <2>2, <2>3, Zenon DEF LoginType, LoginPC
<1>8. /\ x.pc = "mapping" /\ x.found = login[l].found /\ x.user = login[l].user
      /\ x.identity = login[l].identity
      /\ x.row.permissions = login[l].row.permissions \cup permissions
      /\ x.row.groups = login[l].row.groups \cup grps
    BY <1>2, Zenon DEF LoginType, Row
<1> HIDE DEF x
<1>9. Held(x.row) \subseteq Held(login[l].row) \cup Gift(login[l].identity)
    BY <1>6, <1>8, Zenon DEF Held
<1> QED
    BY <1>1, <1>3, <1>4, <1>7, <1>8, <1>9, Zenon DEF Loops, Becomes, Looping

\* A new user gets what was mapped.
Creates(l, x) ==
    /\ Becomes(l, x)
    /\ login[l].pc \in Looping /\ x.pc = "link"
    /\ x.user = Len(users) + 1
    /\ x.row = login[l].row
    /\ users' = Append(users, x.row)
    /\ UNCHANGED <<providers, groups, mappers, activations, depleted, edit>>

LEMMA CreateUserCreates ==
    ASSUME StateInv, NEW l \in Login, CreateUser(l)
    PROVE  \E x \in LoginType : Creates(l, x)
<1> DEFINE n == Len(users) + 1
           x == [login[l] EXCEPT !.pc = "link", !.user = n]
<1>1. login[l].pc = "mapping" /\ login[l].pc # "idle"
    BY Zenon DEF CreateUser, Mapped
<1>2. login[l] \in LoginType
    BY <1>1, BegunLogin
<1>3. /\ login' = [login EXCEPT ![l] = x]
      /\ users' = Append(users, login[l].row)
      /\ UNCHANGED <<providers, groups, mappers, activations, depleted, edit>>
    BY Zenon DEF CreateUser, admin, counts
<1>4. n \in Nat
    BY SMT DEF StateInv, TypeOK
<1> HIDE DEF n
<1>5. x \in LoginType
    BY <1>2, <1>4, Zenon DEF LoginType, LoginPC
<1>6. /\ x.pc = "link" /\ x.found = login[l].found /\ x.user = n
      /\ x.identity = login[l].identity /\ x.row = login[l].row
    BY <1>2, Zenon DEF LoginType
<1> HIDE DEF x
<1> QED
    BY <1>1, <1>3, <1>5, <1>6, Zenon DEF Creates, Becomes, Looping, n

\* A copy of the user that was found, with what was mapped.
Copies(l, x) ==
    /\ Becomes(l, x)
    /\ login[l].pc \in Looping /\ x.pc = "store"
    /\ x.found # Nobody
    /\ x.user = login[l].user
    /\ Held(x.row) = Held(login[l].row) \cup Held(users[x.found])
    /\ UNCHANGED Tables

LEMMA LoadUserCopies ==
    ASSUME StateInv, NEW l \in Login, LoadUser(l)
    PROVE  \E x \in LoginType : Copies(l, x)
<1> DEFINE user == users[login[l].found]
           x == [login[l] EXCEPT !.row.permissions = @ \cup user.permissions,
                                 !.row.groups = @ \cup user.groups,
                                 !.pc = "store"]
<1>1. login[l].pc = "mapping" /\ login[l].pc # "idle" /\ login[l].found # Nobody
    BY Zenon DEF LoadUser, Mapped
<1>2. /\ login[l] \in LoginType
      /\ login[l].found \in 0 .. Len(users)
    BY <1>1, BegunLogin
<1>3. /\ login' = [login EXCEPT ![l] = x]
      /\ UNCHANGED Tables
    BY Zenon DEF LoadUser, admin, counts, Tables
<1>4. user \in Row
    BY <1>1, <1>2, SMT DEF StateInv, TypeOK
<1> HIDE DEF user
<1>5. x \in LoginType
  <2> DEFINE row == [login[l].row EXCEPT !.permissions = @ \cup user.permissions,
                                         !.groups = @ \cup user.groups]
  <2>1. login[l].row \in Row
      BY <1>2, Zenon DEF LoginType
  <2>2. /\ login[l].row.permissions \cup user.permissions \in SUBSET Permission
        /\ login[l].row.groups \cup user.groups \in SUBSET Group
      BY <1>4, <2>1, Zenon DEF Row
  <2>3. row \in Row
      BY <2>1, <2>2, Zenon DEF Row
  <2>4. x = [login[l] EXCEPT !.row = row, !.pc = "store"]
      BY <1>2, Zenon DEF LoginType
  <2> HIDE DEF row, x
  <2> QED
      BY <1>2, <2>3, <2>4, Zenon DEF LoginType, LoginPC
<1>6. /\ x.pc = "store" /\ x.found = login[l].found /\ x.user = login[l].user
      /\ x.identity = login[l].identity
      /\ x.row.permissions = login[l].row.permissions \cup user.permissions
      /\ x.row.groups = login[l].row.groups \cup user.groups
    BY <1>2, Zenon DEF LoginType, Row
<1> HIDE DEF x
<1>7. Held(x.row) = Held(login[l].row) \cup Held(users[x.found])
    BY <1>6, Zenon DEF Held, user
<1> QED
    BY <1>1, <1>3, <1>5, <1>6, <1>7, Zenon DEF Copies, Becomes, Looping

\* The copy replaces the row of its user, and the login is that user's.
Stores(l, x) ==
    /\ Becomes(l, x)
    /\ login[l].pc = "store" /\ x.pc = "done"
    /\ x.user = login[l].found
    /\ x.row = NoRow
    /\ users' = [users EXCEPT ![login[l].found] = login[l].row]
    /\ UNCHANGED <<providers, groups, mappers, activations, depleted, edit>>

LEMMA StoreUserStores ==
    ASSUME StateInv, NEW l \in Login, StoreUser(l)
    PROVE  \E x \in LoginType : Stores(l, x)
<1> DEFINE y == Ended(login[l], "done")
           x == [y EXCEPT !.user = login[l].found]
<1>1. login[l].pc = "store" /\ login[l].pc # "idle"
    BY Zenon DEF StoreUser
<1>2. login[l] \in LoginType
    BY <1>1, BegunLogin
<1>3. /\ login' = [login EXCEPT ![l] = x]
      /\ users' = [users EXCEPT ![login[l].found] = login[l].row]
      /\ UNCHANGED <<providers, groups, mappers, activations, depleted, edit>>
    BY Zenon DEF StoreUser, admin, counts
<1>4. /\ y \in LoginType /\ y.pc = "done" /\ y.identity = login[l].identity
      /\ y.found = login[l].found /\ y.row = NoRow
    BY <1>2, EndedTyped
<1> HIDE DEF y
<1>5. login[l].found \in Nat
    BY <1>2, Zenon DEF LoginType
<1>6. x \in LoginType
    BY <1>4, <1>5, Zenon DEF LoginType
<1>7. /\ x.pc = "done" /\ x.found = login[l].found /\ x.user = login[l].found
      /\ x.identity = login[l].identity /\ x.row = NoRow
    BY <1>4, Zenon DEF LoginType
<1> HIDE DEF x
<1> QED
    BY <1>1, <1>3, <1>6, <1>7, Zenon DEF Stores, Becomes

\* A login returns; it may have linked its identity to its user.
Ends(l, x) ==
    /\ Becomes(l, x)
    /\ x.pc \in {"done", "failed"}
    /\ x.user = login[l].user
    /\ x.row = NoRow
    /\ \/ UNCHANGED providers
       \/ providers' = [providers EXCEPT ![login[l].identity] = login[l].user]
    /\ UNCHANGED <<users, groups, mappers, activations, depleted, edit>>

LEMMA LinkProviderEnds ==
    ASSUME StateInv, NEW l \in Login, LinkProvider(l)
    PROVE  \E x \in LoginType : Ends(l, x)
<1>1. login[l].pc = "link" /\ login[l].pc # "idle"
    BY Zenon DEF LinkProvider
<1>2. login[l] \in LoginType
    BY <1>1, BegunLogin
<1>3. PICK pc \in {"done", "failed"} :
        /\ login' = [login EXCEPT ![l] = Ended(login[l], pc)]
        /\ \/ UNCHANGED providers
           \/ providers' = [providers EXCEPT ![login[l].identity] = login[l].user]
        /\ UNCHANGED <<users, groups, mappers, activations, depleted, edit>>
    BY Zenon DEF LinkProvider, admin, counts
<1>4. Ended(login[l], pc).pc # "idle"
    BY <1>2, EndedTyped, Zenon
<1> QED
    BY <1>1, <1>2, <1>3, <1>4, EndedTyped, Zenon DEF Ends, Becomes

LEMMA FailLoginEnds ==
    ASSUME StateInv, NEW l \in Login, FailLogin(l)
    PROVE  \E x \in LoginType : Ends(l, x)
<1>1. login[l].pc # "idle"
    BY Zenon DEF FailLogin, LoggingIn
<1>2. login[l] \in LoginType
    BY <1>1, BegunLogin
<1>3. /\ login' = [login EXCEPT ![l] = Ended(login[l], "failed")]
      /\ UNCHANGED <<users, providers, groups, mappers, activations, depleted, edit>>
    BY Zenon DEF FailLogin, admin, counts
<1>4. Ended(login[l], "failed").pc # "idle"
    BY <1>2, EndedTyped, Zenon
<1> QED
    BY <1>1, <1>2, <1>3, <1>4, EndedTyped, Zenon DEF Ends, Becomes

\* A step of a login is one of these.
LEMMA LoginSteps ==
    ASSUME StateInv, NEW l \in Login, LoginStep(l)
    PROVE  \E x \in LoginType :
              Loops(l, x) \/ Creates(l, x) \/ Copies(l, x) \/ Stores(l, x) \/ Ends(l, x)
<1>1. CASE GetMappings(l)
    BY <1>1, GetMappingsLoops
<1>2. CASE \E m \in Mapper : TestRule(l, m) \/ ConsumeActivation(l, m) \/ ApplyRule(l, m)
    BY <1>2, TestRuleLoops, ConsumeActivationLoops, ApplyRuleLoops
<1>3. CASE CreateUser(l)
    BY <1>3, CreateUserCreates
<1>4. CASE LinkProvider(l)
    BY <1>4, LinkProviderEnds
<1>5. CASE LoadUser(l)
    BY <1>5, LoadUserCopies
<1>6. CASE StoreUser(l)
    BY <1>6, StoreUserStores
<1>7. CASE FailLogin(l)
    BY <1>7, FailLoginEnds
<1> QED
    BY <1>1, <1>2, <1>3, <1>4, <1>5, <1>6, <1>7 DEF LoginStep

-----------------------------------------------------------------------------
(* StateInv is inductive. *)

LEMMA BecomesState ==
    ASSUME StateInv, NEW l \in Login, NEW x \in LoginType, Becomes(l, x),
           users' \in Seq(Row), Len(users) <= Len(users'),
           providers' \in [Identity -> 0 .. Len(users')],
           UNCHANGED <<groups, mappers, edit>>,
           activations' \in [Mapper -> Nat], depleted' \subseteq Mapper,
           x.user \in 0 .. Len(users'),
           x.pc \in Busy => x.user = Nobody,
           x.pc = "link" => x.user # Nobody,
           x.pc = "store" => x.found # Nobody
    PROVE  StateInv'
<1>1. /\ login' = [login EXCEPT ![l] = x]
      /\ login[l].pc # "idle" /\ x.found = login[l].found
    BY Zenon DEF Becomes
<1>2. Len(users) \in Nat /\ Len(users') \in Nat
    BY SMT DEF StateInv, TypeOK
<1>3. login \in [Login -> LoginType \cup {Idle}]
    BY Zenon DEF StateInv, TypeOK
<1>4. TypeOK'
  <2>1. login' \in [Login -> LoginType \cup {Idle}]
      BY <1>1, <1>3, Zenon
  <2> QED
      BY <2>1, Zenon DEF StateInv, TypeOK
<1>5. CallInv'
  <2> SUFFICES ASSUME NEW k \in Login, login'[k].pc # "idle"
               PROVE  /\ login'[k].found \in 0 .. Len(users')
                      /\ login'[k].user \in 0 .. Len(users')
                      /\ login'[k].pc \in Busy => login'[k].user = Nobody
                      /\ login'[k].pc = "link" => login'[k].user # Nobody
                      /\ login'[k].pc = "store" => login'[k].found # Nobody
      BY Zenon DEF CallInv
  <2>1. CASE k = l
    <3>1. login'[k] = x
        BY <1>1, <1>3, <2>1, Zenon
    <3>2. x.found \in 0 .. Len(users')
      <4>1. login[l].found \in 0 .. Len(users)
          BY <1>1, BegunLogin
      <4> QED
          BY <1>1, <1>2, <4>1, SMT
    <3> QED
        BY <3>1, <3>2, Zenon
  <2>2. CASE k # l
    <3>1. login'[k] = login[k]
        BY <1>1, <1>3, <2>2, Zenon
    <3>2. /\ login[k].found \in 0 .. Len(users)
          /\ login[k].user \in 0 .. Len(users)
          /\ login[k].pc \in Busy => login[k].user = Nobody
          /\ login[k].pc = "link" => login[k].user # Nobody
          /\ login[k].pc = "store" => login[k].found # Nobody
        BY <3>1, BegunLogin
    <3>3. /\ login[k].found \in 0 .. Len(users')
          /\ login[k].user \in 0 .. Len(users')
        BY <1>2, <3>2, SMT
    <3> QED
        BY <3>1, <3>2, <3>3, Zenon
  <2> QED
      BY <2>1, <2>2
<1>6. EditInv'
    BY <1>2, SMT DEF StateInv, EditInv
<1> QED
    BY <1>4, <1>5, <1>6 DEF StateInv

\* Storing a row over a user, or behind the last, leaves a table of users.
LEMMA UsersTyped ==
    ASSUME users \in Seq(Row), NEW row \in Row
    PROVE  /\ Append(users, row) \in Seq(Row)
           /\ Len(Append(users, row)) = Len(users) + 1
           /\ \A u \in 1 .. Len(users) :
                 /\ [users EXCEPT ![u] = row] \in Seq(Row)
                 /\ Len([users EXCEPT ![u] = row]) = Len(users)
BY SMT

LEMMA LoginStepState ==
    ASSUME StateInv, NEW l \in Login, LoginStep(l)
    PROVE  StateInv'
<1>1. PICK x \in LoginType :
        Loops(l, x) \/ Creates(l, x) \/ Copies(l, x) \/ Stores(l, x) \/ Ends(l, x)
    BY LoginSteps
<1>2. Becomes(l, x)
    BY <1>1, Zenon DEF Loops, Creates, Copies, Stores, Ends
<1>3. /\ login[l] \in LoginType
      /\ login[l].found \in 0 .. Len(users)
      /\ login[l].user \in 0 .. Len(users)
      /\ login[l].pc \in Busy => login[l].user = Nobody
      /\ login[l].pc = "link" => login[l].user # Nobody
      /\ login[l].pc = "store" => login[l].found # Nobody
  <2>1. login[l].pc # "idle"
      BY <1>2, Zenon DEF Becomes
  <2> QED
      BY <2>1, BegunLogin
<1>4. /\ users \in Seq(Row) /\ providers \in [Identity -> 0 .. Len(users)]
      /\ activations \in [Mapper -> Nat] /\ depleted \subseteq Mapper
    BY Zenon DEF StateInv, TypeOK
<1>5. login[l].row \in Row
    BY <1>3, Zenon DEF LoginType
<1>6. Len(users) \in Nat
    BY <1>4
<1>7. Len(users) <= Len(users)
    BY <1>6
<1>8. CASE Loops(l, x)
  <2>1. /\ users' = users /\ providers' = providers /\ UNCHANGED <<groups, mappers, edit>>
        /\ activations' \in [Mapper -> Nat] /\ depleted' \subseteq Mapper
        /\ x.user = login[l].user
      BY <1>8, Zenon DEF Loops
  <2>2. login[l].user = Nobody /\ x.pc # "link" /\ x.pc # "store"
      BY <1>3, <1>8, Zenon DEF Loops, Looping, Busy
  <2> QED
      BY <1>2, <1>3, <1>4, <1>7, <2>1, <2>2, BecomesState
<1>9. CASE Creates(l, x)
  <2>1. /\ x.pc = "link" /\ x.user = Len(users) + 1 /\ x.row = login[l].row
        /\ users' = Append(users, x.row)
        /\ UNCHANGED <<providers, groups, mappers, activations, depleted, edit>>
      BY <1>9, Zenon DEF Creates
  <2>2. users' \in Seq(Row) /\ Len(users') = Len(users) + 1
      BY <1>4, <1>5, <2>1, UsersTyped
  <2>3. /\ Len(users) <= Len(users')
        /\ x.user \in 0 .. Len(users') /\ x.user # Nobody
      BY <1>6, <2>1, <2>2, SMT
  <2>4. providers' \in [Identity -> 0 .. Len(users')]
      BY <1>4, <1>6, <2>1, <2>2, SMT
  <2>5. x.pc \notin Busy /\ x.pc # "store"
      BY <2>1, Zenon DEF Busy
  <2> QED
      BY <1>2, <1>4, <2>1, <2>2, <2>3, <2>4, <2>5, BecomesState
<1>10. CASE Copies(l, x)
  <2>1. /\ users' = users /\ providers' = providers /\ UNCHANGED <<groups, mappers, edit>>
        /\ activations' = activations /\ depleted' = depleted
        /\ x.user = login[l].user /\ x.pc = "store" /\ x.found # Nobody
      BY <1>10, Zenon DEF Copies, Tables
  <2>2. login[l].user = Nobody /\ x.pc # "link"
      BY <1>3, <1>10, <2>1, Zenon DEF Copies, Looping, Busy
  <2> QED
      BY <1>2, <1>3, <1>4, <1>7, <2>1, <2>2, BecomesState
<1>11. CASE Stores(l, x)
  <2>1. /\ login[l].pc = "store" /\ x.pc = "done" /\ x.user = login[l].found
        /\ users' = [users EXCEPT ![login[l].found] = login[l].row]
        /\ UNCHANGED <<providers, groups, mappers, activations, depleted, edit>>
      BY <1>11, Zenon DEF Stores
  <2>2. login[l].found \in 1 .. Len(users)
      BY <1>3, <1>6, <2>1, SMT
  <2>3. users' \in Seq(Row) /\ Len(users') = Len(users)
      BY <1>4, <1>5, <2>1, <2>2, UsersTyped
  <2>4. x.pc \notin Busy /\ x.pc # "store" /\ x.pc # "link"
      BY <2>1, Zenon DEF Busy
  <2>5. providers' \in [Identity -> 0 .. Len(users')] /\ x.user \in 0 .. Len(users')
      BY <1>3, <1>4, <2>1, <2>3, Zenon
  <2>6. Len(users) <= Len(users')
      BY <1>7, <2>3
  <2> QED
      BY <1>2, <1>4, <2>1, <2>3, <2>4, <2>5, <2>6, BecomesState
<1>12. CASE Ends(l, x)
  <2>1. /\ x.pc \in {"done", "failed"} /\ x.user = login[l].user
        /\ users' = users /\ UNCHANGED <<groups, mappers, activations, depleted, edit>>
        /\ \/ providers' = providers
           \/ providers' = [providers EXCEPT ![login[l].identity] = login[l].user]
      BY <1>12, Zenon DEF Ends
  <2>2. x.pc \notin Busy /\ x.pc # "store" /\ x.pc # "link"
      BY <2>1, Zenon DEF Busy
  <2>3. providers' \in [Identity -> 0 .. Len(users')]
      BY <1>3, <1>4, <2>1, Zenon
  <2> QED
      BY <1>2, <1>3, <1>4, <1>7, <2>1, <2>2, <2>3, BecomesState
<1> QED
    BY <1>1, <1>8, <1>9, <1>10, <1>11, <1>12

LEMMA RegisterState ==
    ASSUME StateInv, NEW l \in Login, NEW i \in Identity, register_api_user(l, i)
    PROVE  /\ StateInv'
           /\ login[l].pc = "idle"
           /\ \E x \in LoginType :
                 /\ login' = [login EXCEPT ![l] = x]
                 /\ x.pc = "mappers" /\ x.identity = i /\ x.user = Nobody /\ x.row = NoRow
           /\ UNCHANGED Tables
<1> DEFINE x == NewLogin(i)
<1>1. /\ login[l].pc = "idle"
      /\ login' = [login EXCEPT ![l] = x]
      /\ UNCHANGED Tables
    BY Zenon DEF register_api_user, admin, counts, Tables
<1>2. /\ login \in [Login -> LoginType \cup {Idle}]
      /\ providers \in [Identity -> 0 .. Len(users)]
      /\ Len(users) \in Nat
    BY SMT DEF StateInv, TypeOK
<1>3. providers[i] \in Nat /\ providers[i] \in 0 .. Len(users) /\ 0 \in 0 .. Len(users)
    BY <1>2, SMT
<1>4. x \in LoginType
  <2>1. NothingSeen \in [Mapper -> Nat] /\ 0 \in Nat
      BY SMT DEF NothingSeen
  <2>2. NoRow \in Row
      BY SMT DEF NoRow, Row
  <2> QED
      BY <1>3, <2>1, <2>2, Zenon DEF NewLogin, LoginType, LoginPC
<1>5. /\ x.pc = "mappers" /\ x.identity = i /\ x.user = Nobody /\ x.row = NoRow
      /\ x.found = providers[i]
    BY Zenon DEF NewLogin
<1> HIDE DEF x
<1>6. TypeOK'
  <2>1. login' \in [Login -> LoginType \cup {Idle}]
      BY <1>1, <1>2, <1>4, Zenon
  <2> QED
      BY <1>1, <2>1, Zenon DEF StateInv, TypeOK, Tables
<1>7. CallInv'
  <2> SUFFICES ASSUME NEW k \in Login, login'[k].pc # "idle"
               PROVE  /\ login'[k].found \in 0 .. Len(users')
                      /\ login'[k].user \in 0 .. Len(users')
                      /\ login'[k].pc \in Busy => login'[k].user = Nobody
                      /\ login'[k].pc = "link" => login'[k].user # Nobody
                      /\ login'[k].pc = "store" => login'[k].found # Nobody
      BY Zenon DEF CallInv
  <2>1. users' = users
      BY <1>1, Zenon DEF Tables
  <2>2. CASE k = l
    <3>1. login'[k] = x
        BY <1>1, <1>2, <2>2, Zenon
    <3> QED
        BY <1>3, <1>5, <2>1, <3>1, Zenon
  <2>3. CASE k # l
    <3>1. login'[k] = login[k]
        BY <1>1, <1>2, <2>3, Zenon
    <3> QED
        BY <2>1, <3>1, BegunLogin
  <2> QED
      BY <2>2, <2>3
<1>8. EditInv'
    BY <1>1, Zenon DEF StateInv, EditInv, Tables
<1> QED
    BY <1>1, <1>4, <1>5, <1>6, <1>7, <1>8 DEF StateInv

-----------------------------------------------------------------------------
(* What administrators change. *)

LEMMA EditSteps ==
    ASSUME StateInv, NEW e \in Edit, NEW u \in DOMAIN users, NEW r \in Request,
           LoadForEdit(e, u, r)
    PROVE  /\ edit[e].pc = "idle"
           /\ \E x \in EditType :
                 /\ edit' = [edit EXCEPT ![e] = x]
                 /\ x.pc = "store" /\ x.user = u /\ x.request = r
                 /\ Held(x.row) \subseteq Held(users[u]) \cup r.what
           /\ u \in 1 .. Len(users)
           /\ UNCHANGED <<users, providers, groups, mappers, activations, depleted, login>>
<1> DEFINE row == CASE r.op = "add_permissions" ->
                          [users[u] EXCEPT !.permissions = @ \cup r.what]
                     [] r.op = "add_to_group" ->
                          [users[u] EXCEPT !.groups = @ \cup r.what]
                     [] r.op = "remove_from_group" ->
                          [users[u] EXCEPT !.groups = @ \ r.what]
           x == [pc |-> "store", user |-> u, request |-> r, row |-> row]
<1>1. /\ edit[e].pc = "idle"
      /\ edit' = [edit EXCEPT ![e] = x]
      /\ UNCHANGED <<users, providers, groups, mappers, activations, depleted, login>>
    BY Zenon DEF LoadForEdit, admin, counts
<1>2. users \in Seq(Row)
    BY Zenon DEF StateInv, TypeOK
<1>3. u \in 1 .. Len(users) /\ u \in Nat /\ users[u] \in Row
    BY <1>2, SMT
<1>4. r \in RequestType
    BY AccountAssumption, Zenon DEF AccountAssumption
<1>5. row \in Row /\ Held(row) \subseteq Held(users[u]) \cup r.what
  <2>1. CASE r.op = "add_permissions"
    <3>1. row = [users[u] EXCEPT !.permissions = @ \cup r.what]
        BY <2>1, SMT
    <3>2. r.what \subseteq Permission
        BY <1>4, <2>1, SMT DEF RequestType
    <3> HIDE DEF row
    <3>3. users[u].permissions \cup r.what \in SUBSET Permission
        BY <1>3, <3>2, Zenon DEF Row
    <3>4. /\ row \in Row /\ row.permissions = users[u].permissions \cup r.what
          /\ row.groups = users[u].groups
        BY <1>3, <3>1, <3>3, Zenon DEF Row
    <3> QED
        BY <3>4, Zenon DEF Held
  <2>2. CASE r.op = "add_to_group"
    <3>1. row = [users[u] EXCEPT !.groups = @ \cup r.what]
        BY <2>2, SMT
    <3>2. r.what \subseteq Group
        BY <1>4, <2>2, SMT DEF RequestType
    <3> HIDE DEF row
    <3>3. users[u].groups \cup r.what \in SUBSET Group
        BY <1>3, <3>2, Zenon DEF Row
    <3>4. /\ row \in Row /\ row.groups = users[u].groups \cup r.what
          /\ row.permissions = users[u].permissions
        BY <1>3, <3>1, <3>3, Zenon DEF Row
    <3> QED
        BY <3>4, Zenon DEF Held
  <2>3. CASE r.op = "remove_from_group"
    <3>1. row = [users[u] EXCEPT !.groups = @ \ r.what]
        BY <2>3, SMT
    <3> HIDE DEF row
    <3>2. users[u].groups \ r.what \in SUBSET Group
        BY <1>3, Zenon DEF Row
    <3>3. /\ row \in Row /\ row.groups = users[u].groups \ r.what
          /\ row.permissions = users[u].permissions
        BY <1>3, <3>1, <3>2, Zenon DEF Row
    <3> QED
        BY <3>3, Zenon DEF Held
  <2>4. r.op \in {"add_permissions", "add_to_group", "remove_from_group"}
      BY <1>4, SMT DEF RequestType
  <2> HIDE DEF row
  <2> QED
      BY <2>1, <2>2, <2>3, <2>4, Zenon
<1> HIDE DEF row
<1>6. x \in EditType
    BY <1>3, <1>5, Zenon DEF EditType, EditPC
<1>7. x.pc = "store" /\ x.user = u /\ x.request = r /\ x.row = row
    BY Zenon
<1> HIDE DEF x
<1> QED
    BY <1>1, <1>3, <1>5, <1>6, <1>7

LEMMA StoreEdits ==
    ASSUME StateInv, NEW e \in Edit, StoreEdit(e) \/ FailEdit(e)
    PROVE  /\ edit[e].pc = "store"
           /\ edit[e] \in EditType /\ edit[e].user \in 1 .. Len(users)
           /\ \E x \in EditType :
                 /\ edit' = [edit EXCEPT ![e] = x]
                 /\ x.pc \in {"done", "failed"} /\ x.user = edit[e].user
                 /\ x.request = edit[e].request
           /\ \/ users' = users
              \/ users' = [users EXCEPT ![edit[e].user] = edit[e].row]
           /\ UNCHANGED <<providers, groups, mappers, activations, depleted, login>>
<1>1. edit[e].pc = "store" /\ edit[e].pc # "idle"
    BY Zenon DEF StoreEdit, FailEdit
<1>2. edit[e] \in EditType /\ edit[e].user \in 1 .. Len(users)
    BY <1>1, Begun DEF StateInv, EditInv
<1>3. NoRow \in Row
    BY SMT DEF NoRow, Row
<1>4. ASSUME NEW pc \in {"done", "failed"}
      PROVE  LET x == [edit[e] EXCEPT !.pc = pc, !.row = NoRow] IN
             /\ x \in EditType
             /\ x.pc = pc /\ x.user = edit[e].user /\ x.request = edit[e].request
  <2>1. pc \in EditPC
      BY Zenon DEF EditPC
  <2> QED
      BY <1>2, <1>3, <2>1, Zenon DEF EditType
<1>5. PICK pc \in {"done", "failed"} :
        edit' = [edit EXCEPT ![e] = [edit[e] EXCEPT !.pc = pc, !.row = NoRow]]
    BY Zenon DEF StoreEdit, FailEdit
<1>6. /\ \/ users' = users
         \/ users' = [users EXCEPT ![edit[e].user] = edit[e].row]
      /\ UNCHANGED <<providers, groups, mappers, activations, depleted, login>>
    BY Zenon DEF StoreEdit, FailEdit, admin, counts
<1> QED
    BY <1>1, <1>2, <1>4, <1>5, <1>6, Zenon

\* The other steps of administrators: they store a user as a whole, or change
\* groups and mappers.
BodyStored ==
    \E row \in Body :
        \/ users' = Append(users, row)
        \/ \E u \in 1 .. Len(users) : users' = [users EXCEPT ![u] = row]

LEMMA AdminSteps ==
    ASSUME StateInv,
           \/ \E row \in Body : create_api_user(row)
           \/ \E u \in DOMAIN users, row \in Body : update_api_user(u, row)
           \/ \E g \in Group : create_group(g) \/ delete_group(g)
           \/ \E m \in Mapper : add_mapper(m) \/ remove_mapper(m)
    PROVE  /\ BodyStored \/ users' = users
           /\ groups' \in [Group -> Presence] /\ mappers' \in [Mapper -> Presence]
           /\ UNCHANGED <<providers, activations, depleted, login, edit>>
<1>1. /\ users \in Seq(Row)
      /\ groups \in [Group -> Presence] /\ mappers \in [Mapper -> Presence]
    BY Zenon DEF StateInv, TypeOK
<1>2. DOMAIN users = 1 .. Len(users)
    BY <1>1
<1>3. CASE \E row \in Body : create_api_user(row)
    BY <1>1, <1>3, Zenon DEF create_api_user, BodyStored, admin, counts
<1>4. CASE \E u \in DOMAIN users, row \in Body : update_api_user(u, row)
    BY <1>1, <1>2, <1>4, Zenon DEF update_api_user, BodyStored, admin, counts
<1>5. CASE \E g \in Group : create_group(g) \/ delete_group(g)
  <2>1. PICK g \in Group : create_group(g) \/ delete_group(g)
      BY <1>5
  <2>2. /\ \E p \in Presence : groups' = [groups EXCEPT ![g] = p]
        /\ UNCHANGED <<users, providers, mappers, activations, depleted, login, edit>>
      BY <2>1, Zenon DEF create_group, delete_group, Presence, counts
  <2> QED
      BY <1>1, <2>2, Zenon
<1>6. CASE \E m \in Mapper : add_mapper(m) \/ remove_mapper(m)
  <2>1. PICK m \in Mapper : add_mapper(m) \/ remove_mapper(m)
      BY <1>6
  <2>2. /\ \E p \in Presence : mappers' = [mappers EXCEPT ![m] = p]
        /\ UNCHANGED <<users, providers, groups, activations, depleted, login, edit>>
      BY <2>1, Zenon DEF add_mapper, remove_mapper, Presence, counts
  <2> QED
      BY <1>1, <2>2, Zenon
<1> QED
    BY <1>3, <1>4, <1>5, <1>6

\* StateInv is kept by whatever replaces the row of a user, or adds one.
LEMMA TablesState ==
    ASSUME StateInv, users' \in Seq(Row), Len(users) <= Len(users'),
           groups' \in [Group -> Presence], mappers' \in [Mapper -> Presence],
           UNCHANGED <<providers, activations, depleted, login>>,
           edit' \in [Edit -> EditType \cup {Idle}],
           \A e \in Edit : edit'[e].pc # "idle" => edit'[e].user \in 1 .. Len(users)
    PROVE  StateInv'
<1>1. Len(users) \in Nat /\ Len(users') \in Nat
    BY SMT DEF StateInv, TypeOK
<1>2. providers' \in [Identity -> 0 .. Len(users')]
    BY <1>1, SMT DEF StateInv, TypeOK
<1>3. TypeOK'
    BY <1>2, Zenon DEF StateInv, TypeOK
<1>4. \A n \in 0 .. Len(users) : n \in 0 .. Len(users')
    BY <1>1, SMT
<1>5. CallInv'
    BY <1>4, Zenon DEF StateInv, CallInv
<1>6. EditInv'
  <2>1. \A n \in 1 .. Len(users) : n \in 1 .. Len(users')
      BY <1>1, SMT
  <2> QED
      BY <2>1, Zenon DEF EditInv
<1> QED
    BY <1>3, <1>5, <1>6 DEF StateInv

LEMMA AdminStepState ==
    ASSUME StateInv, AdminStep
    PROVE  StateInv'
<1>1. /\ users \in Seq(Row) /\ edit \in [Edit -> EditType \cup {Idle}]
      /\ groups \in [Group -> Presence] /\ mappers \in [Mapper -> Presence]
      /\ \A e \in Edit : edit[e].pc # "idle" => edit[e].user \in 1 .. Len(users)
    BY Zenon DEF StateInv, TypeOK, EditInv
<1>2. Len(users) \in Nat /\ Len(users) <= Len(users) /\ DOMAIN users = 1 .. Len(users)
    BY <1>1
<1>3. CASE \E e \in Edit, u \in DOMAIN users, r \in Request : LoadForEdit(e, u, r)
  <2>1. PICK e \in Edit, u \in DOMAIN users, r \in Request : LoadForEdit(e, u, r)
      BY <1>3
  <2>2. PICK x \in EditType : edit' = [edit EXCEPT ![e] = x] /\ x.user = u
      BY <2>1, EditSteps
  <2>3. /\ edit' \in [Edit -> EditType \cup {Idle}]
        /\ \A k \in Edit : edit'[k].pc # "idle" => edit'[k].user \in 1 .. Len(users)
      BY <1>1, <1>2, <2>2, Zenon
  <2>4. UNCHANGED <<users, providers, groups, mappers, activations, depleted, login>>
      BY <2>1, EditSteps
  <2> QED
      BY <1>1, <1>2, <2>3, <2>4, TablesState
<1>4. CASE \E e \in Edit : StoreEdit(e) \/ FailEdit(e)
  <2>1. PICK e \in Edit : StoreEdit(e) \/ FailEdit(e)
      BY <1>4
  <2>2. PICK x \in EditType : edit' = [edit EXCEPT ![e] = x] /\ x.user = edit[e].user
      BY <2>1, StoreEdits
  <2>3. edit[e] \in EditType /\ edit[e].user \in 1 .. Len(users)
      BY <2>1, StoreEdits
  <2>4. /\ edit' \in [Edit -> EditType \cup {Idle}]
        /\ \A k \in Edit : edit'[k].pc # "idle" => edit'[k].user \in 1 .. Len(users)
      BY <1>1, <2>2, <2>3, Zenon
  <2>5. /\ users' = users \/ users' = [users EXCEPT ![edit[e].user] = edit[e].row]
        /\ UNCHANGED <<providers, groups, mappers, activations, depleted, login>>
      BY <2>1, StoreEdits
  <2>6. edit[e].row \in Row
      BY <2>3, Zenon DEF EditType
  <2>7. users' \in Seq(Row) /\ Len(users) <= Len(users')
      BY <1>1, <1>2, <2>3, <2>5, <2>6, UsersTyped
  <2> QED
      BY <1>1, <2>4, <2>5, <2>7, TablesState
<1>5. CASE \/ \E row \in Body : create_api_user(row)
           \/ \E u \in DOMAIN users, row \in Body : update_api_user(u, row)
           \/ \E g \in Group : create_group(g) \/ delete_group(g)
           \/ \E m \in Mapper : add_mapper(m) \/ remove_mapper(m)
  <2>1. /\ BodyStored \/ users' = users
        /\ groups' \in [Group -> Presence] /\ mappers' \in [Mapper -> Presence]
        /\ UNCHANGED <<providers, activations, depleted, login, edit>>
      BY <1>5, AdminSteps
  <2>2. users' \in Seq(Row) /\ Len(users) <= Len(users')
    <3>1. CASE BodyStored
      <4>1. PICK row \in Body :
              \/ users' = Append(users, row)
              \/ \E u \in 1 .. Len(users) : users' = [users EXCEPT ![u] = row]
          BY <3>1 DEF BodyStored
      <4>2. row \in Row
          BY AccountAssumption, Zenon DEF AccountAssumption
      <4>3. users' \in Seq(Row) /\ Len(users') \in {Len(users), Len(users) + 1}
          BY <1>1, <4>1, <4>2, UsersTyped
      <4> QED
          BY <1>2, <4>3, SMT
    <3>2. CASE users' = users
        BY <1>1, <1>2, <3>2
    <3> QED
        BY <2>1, <3>1, <3>2
  <2> QED
      BY <1>1, <2>1, <2>2, TablesState
<1> QED
    BY <1>3, <1>4, <1>5 DEF AdminStep

LEMMA StateStep ==
    ASSUME StateInv, [Next]_accountVars
    PROVE  StateInv'
<1>1. CASE \E l \in Login, i \in Identity : register_api_user(l, i)
    BY <1>1, RegisterState
<1>2. CASE \E l \in Login : LoginStep(l)
    BY <1>2, LoginStepState
<1>3. CASE AdminStep
    BY <1>3, AdminStepState
<1>4. CASE UNCHANGED accountVars
    BY <1>4, Zenon DEF accountVars, admin, counts, StateInv, TypeOK, CallInv, EditInv
<1> QED
    BY <1>1, <1>2, <1>3, <1>4 DEF Next

\* Every value keeps its type: in particular every identity is linked to a user
\* that exists (register_api_user inserts the user before the provider).
THEOREM AccountTypes == Spec => []TypeOK
<1>1. StateInv => TypeOK
    BY DEF StateInv
<1> QED
    BY InitState, StateStep, <1>1, PTL DEF Spec

-----------------------------------------------------------------------------
(* Where permissions and groups come from. *)

LEMMA InSources ==
    ASSUME NEW u, NEW g
    PROVE  g \in Sources(u) <=>
              \/ \E l \in Login : /\ login[l].pc # "idle" /\ login[l].user = u
                                  /\ g \in Gift(login[l].identity)
              \/ \E e \in Edit : /\ edit[e].pc # "idle" /\ edit[e].user = u
                                 /\ g \in edit[e].request.what
              \/ g \in FromBody
<1>1. g \in FromLogin(u) <=>
         \E l \in Login : /\ login[l].pc # "idle" /\ login[l].user = u
                          /\ g \in Gift(login[l].identity)
    BY Zenon DEF FromLogin, Gift
<1>2. g \in FromEdit(u) <=>
         \E e \in Edit : /\ edit[e].pc # "idle" /\ edit[e].user = u
                         /\ g \in edit[e].request.what
    BY Zenon DEF FromEdit
<1> QED
    BY <1>1, <1>2, Zenon DEF Sources

\* No step takes from a call the user it is for, once it has one.
CallsKept ==
    /\ \A l \in Login : login[l].pc # "idle" /\ login[l].user # Nobody =>
          /\ login'[l].pc # "idle"
          /\ login'[l].user = login[l].user
          /\ login'[l].identity = login[l].identity
    /\ \A e \in Edit : edit[e].pc # "idle" =>
          /\ edit'[e].pc # "idle"
          /\ edit'[e].user = edit[e].user
          /\ edit'[e].request = edit[e].request

\* So what a user may have only grows.
LEMMA SourcesGrow ==
    ASSUME CallsKept, NEW u, u # Nobody
    PROVE  Sources(u) \subseteq Sources(u)'
<1> SUFFICES ASSUME NEW g, g \in Sources(u)
             PROVE  g \in Sources(u)'
    BY Zenon
<1>1. g \in Sources(u)' <=>
              \/ \E l \in Login : /\ login'[l].pc # "idle" /\ login'[l].user = u
                                  /\ g \in Gift(login'[l].identity)
              \/ \E e \in Edit : /\ edit'[e].pc # "idle" /\ edit'[e].user = u
                                 /\ g \in edit'[e].request.what
              \/ g \in FromBody
  <2>1. g \in FromLogin(u)' <=>
           \E l \in Login : /\ login'[l].pc # "idle" /\ login'[l].user = u
                            /\ g \in Gift(login'[l].identity)
      BY Zenon DEF FromLogin, Gift
  <2>2. g \in FromEdit(u)' <=>
           \E e \in Edit : /\ edit'[e].pc # "idle" /\ edit'[e].user = u
                           /\ g \in edit'[e].request.what
      BY Zenon DEF FromEdit
  <2> QED
      BY <2>1, <2>2, Zenon DEF Sources, FromBody
<1>2. CASE \E l \in Login : /\ login[l].pc # "idle" /\ login[l].user = u
                            /\ g \in Gift(login[l].identity)
    BY <1>1, <1>2, Zenon DEF CallsKept
<1>3. CASE \E e \in Edit : /\ edit[e].pc # "idle" /\ edit[e].user = u
                           /\ g \in edit[e].request.what
    BY <1>1, <1>3, Zenon DEF CallsKept
<1>4. CASE g \in FromBody
    BY <1>1, <1>4
<1> QED
    BY <1>2, <1>3, <1>4, InSources, Zenon

LEMMA SourcesOfRows ==
    NothingFromNowhere <=> \A u \in DOMAIN users : Held(users[u]) \subseteq Sources(u)
BY Zenon DEF NothingFromNowhere, Held, Sources

\* A step that keeps the users of calls keeps RowsInv, if it does for the rows
\* and calls that it changes.
LEMMA RowsKept ==
    ASSUME StateInv, RowsInv, CallsKept,
           \A u \in DOMAIN users' :
              \/ u \in DOMAIN users /\ users'[u] = users[u]
              \/ Held(users'[u]) \subseteq Sources(u)',
           \A l \in Login : login'[l] = login[l] \/
              /\ login'[l].pc # "idle" /\ login'[l].pc # "store"
                    => Held(login'[l].row) \subseteq Gift(login'[l].identity)
              /\ login'[l].pc = "store"
                    => Held(login'[l].row) \subseteq
                          Gift(login'[l].identity) \cup Sources(login'[l].found),
           \A l \in Login : login'[l].pc = "store" => login'[l].found # Nobody,
           \A e \in Edit : edit'[e] = edit[e] \/
              \A u : edit'[e].pc = "store" /\ u = edit'[e].user
                    => Held(edit'[e].row) \subseteq Sources(u)'
    PROVE  RowsInv'
<1>1. MappedInv'
  <2> SUFFICES ASSUME NEW l \in Login, login'[l].pc # "idle", login'[l].pc # "store"
               PROVE  Held(login'[l].row) \subseteq Gift(login'[l].identity)
      BY Zenon DEF MappedInv
  <2>1. CASE login'[l] = login[l]
    <3>1. Held(login[l].row) \subseteq Gift(login[l].identity)
        BY <2>1, Zenon DEF RowsInv, MappedInv
    <3> QED
        BY <2>1, <3>1, Zenon
  <2> QED
      BY <2>1, Zenon
<1>2. CopyInv'
  <2> SUFFICES ASSUME NEW l \in Login, login'[l].pc = "store", NEW u, u = login'[l].found
               PROVE  Held(login'[l].row) \subseteq Gift(login'[l].identity) \cup Sources(u)'
      BY Zenon DEF CopyInv
  <2>1. Sources(u) \subseteq Sources(u)'
      BY SourcesGrow, Zenon
  <2>2. Held(login'[l].row) \subseteq Gift(login'[l].identity) \cup Sources(u)
      BY Zenon DEF RowsInv, CopyInv
  <2> QED
      BY <2>1, <2>2, Zenon
<1>3. EditRowInv'
  <2> SUFFICES ASSUME NEW e \in Edit, edit'[e].pc = "store", NEW u, u = edit'[e].user
               PROVE  Held(edit'[e].row) \subseteq Sources(u)'
      BY Zenon DEF EditRowInv
  <2>1. CASE edit'[e] = edit[e]
    <3>1. u # Nobody
      <4>1. edit[e].pc # "idle" /\ u \in 1 .. Len(users)
          BY <2>1, Zenon DEF StateInv, EditInv
      <4> QED
          BY <4>1, SMT
    <3>2. Sources(u) \subseteq Sources(u)'
        BY <3>1, SourcesGrow, Zenon
    <3> QED
        BY <2>1, <3>2, Zenon DEF RowsInv, EditRowInv
  <2> QED
      BY <2>1, Zenon
<1>4. NothingFromNowhere'
  <2>1. ASSUME NEW u \in DOMAIN users' PROVE Held(users'[u]) \subseteq Sources(u)'
    <3>1. CASE u \in DOMAIN users /\ users'[u] = users[u]
      <4>1. u # Nobody
          BY <3>1, SMT DEF StateInv, TypeOK
      <4>2. Sources(u) \subseteq Sources(u)'
          BY <4>1, SourcesGrow, Zenon
      <4>3. Held(users[u]) \subseteq Sources(u)
          BY <3>1, SourcesOfRows, Zenon DEF RowsInv
      <4> QED
          BY <3>1, <4>2, <4>3, Zenon
    <3> QED
        BY <3>1, Zenon
  <2> QED
      BY <2>1, Zenon DEF NothingFromNowhere, Held, Sources
<1> QED
    BY <1>1, <1>2, <1>3, <1>4 DEF RowsInv

\* A step of one login keeps RowsInv, if it does for the login and for the users
\* it changes.
LEMMA LoginRowsKept ==
    ASSUME StateInv, StateInv', RowsInv, NEW l \in Login, NEW x \in LoginType,
           login' = [login EXCEPT ![l] = x],
           login[l].pc # "idle" /\ login[l].user # Nobody =>
              x.pc # "idle" /\ x.user = login[l].user /\ x.identity = login[l].identity,
           edit' = edit,
           x.pc # "idle" /\ x.pc # "store" => Held(x.row) \subseteq Gift(x.identity),
           x.pc = "store" =>
              Held(x.row) \subseteq Gift(x.identity) \cup Sources(x.found),
           CallsKept => \A u \in DOMAIN users' :
              \/ u \in DOMAIN users /\ users'[u] = users[u]
              \/ Held(users'[u]) \subseteq Sources(u)'
    PROVE  RowsInv'
<1>1. /\ login \in [Login -> LoginType \cup {Idle}]
      /\ login'[l] = x
      /\ \A k \in Login : k # l => login'[k] = login[k]
    BY Zenon DEF StateInv, TypeOK
<1>2. CallsKept
    BY <1>1, Zenon DEF CallsKept
<1>3. \A k \in Login : login'[k] = login[k] \/
         /\ login'[k].pc # "idle" /\ login'[k].pc # "store"
               => Held(login'[k].row) \subseteq Gift(login'[k].identity)
         /\ login'[k].pc = "store"
               => Held(login'[k].row) \subseteq
                     Gift(login'[k].identity) \cup Sources(login'[k].found)
    BY <1>1, Zenon
<1>4. \A k \in Login : login'[k].pc = "store" => login'[k].found # Nobody
  <2>1. CallInv'
      BY DEF StateInv
  <2> QED
      BY <2>1, Zenon DEF CallInv
<1> QED
    BY <1>2, <1>3, <1>4, RowsKept, Zenon

LEMMA LoginStepRows ==
    ASSUME StateInv, RowsInv, NEW l \in Login, LoginStep(l)
    PROVE  RowsInv'
<1>1. PICK x \in LoginType :
        Loops(l, x) \/ Creates(l, x) \/ Copies(l, x) \/ Stores(l, x) \/ Ends(l, x)
    BY LoginSteps
<1>2. StateInv'
    BY LoginStepState
<1>3. /\ login' = [login EXCEPT ![l] = x]
      /\ login[l].pc # "idle" /\ x.pc # "idle"
      /\ x.identity = login[l].identity /\ x.found = login[l].found
    BY <1>1, Zenon DEF Loops, Creates, Copies, Stores, Ends, Becomes
<1>4. /\ login[l].pc \in Looping => login[l].user = Nobody
      /\ login[l].pc = "store" => login[l].user = Nobody /\ login[l].found # Nobody
      /\ login[l].found \in 0 .. Len(users)
    BY <1>3, BegunLogin, Zenon DEF Looping, Busy
<1>5. /\ login[l].pc # "store" => Held(login[l].row) \subseteq Gift(x.identity)
      /\ login[l].pc = "store" =>
            Held(login[l].row) \subseteq Gift(x.identity) \cup Sources(x.found)
    BY <1>3, Zenon DEF RowsInv, MappedInv, CopyInv
<1>6. login'[l] = x
    BY <1>3, Zenon DEF StateInv, TypeOK
<1>7. users \in Seq(Row) /\ Len(users) \in Nat /\ DOMAIN users = 1 .. Len(users)
    BY SMT DEF StateInv, TypeOK
<1>8. Held(NoRow) = {}
    BY SMT DEF Held, NoRow
<1>9. ASSUME NEW u, u = x.user, x.user # Nobody
      PROVE  Gift(x.identity) \subseteq Sources(u)'
  <2> SUFFICES ASSUME NEW g, g \in Gift(login'[l].identity) PROVE g \in FromLogin(u)'
      BY <1>6, Zenon DEF Sources
  <2>1. login'[l].pc # "idle" /\ login'[l].user = u
      BY <1>3, <1>6, <1>9, Zenon
  <2> QED
      BY <2>1, Zenon DEF FromLogin, Gift
<1>10. CASE Loops(l, x)
  <2>1. /\ users' = users /\ edit' = edit /\ x.user = login[l].user
        /\ login[l].pc \in Looping /\ x.pc \in Looping
        /\ Held(x.row) \subseteq Held(login[l].row) \cup Gift(login[l].identity)
      BY <1>10, Zenon DEF Loops
  <2>2. login[l].pc # "store" /\ x.pc # "store"
      BY <2>1, Zenon DEF Looping
  <2>3. Held(x.row) \subseteq Gift(x.identity)
      BY <1>3, <1>5, <2>1, <2>2, Zenon
  <2> QED
      BY <1>2, <1>3, <2>1, <2>2, <2>3, LoginRowsKept, Zenon
<1>11. CASE Creates(l, x)
  <2>1. /\ edit' = edit /\ login[l].pc \in Looping /\ x.pc = "link"
        /\ x.user = Len(users) + 1 /\ x.row = login[l].row
        /\ users' = Append(users, x.row)
      BY <1>11, Zenon DEF Creates
  <2>2. login[l].pc # "store" /\ x.pc # "store" /\ login[l].user = Nobody
      BY <1>4, <2>1, Zenon DEF Looping
  <2>3. Held(x.row) \subseteq Gift(x.identity)
      BY <1>5, <2>1, <2>2, Zenon
  <2>4. \A u \in DOMAIN users' :
           \/ u \in DOMAIN users /\ users'[u] = users[u]
           \/ Held(users'[u]) \subseteq Sources(u)'
    <3> SUFFICES ASSUME NEW u \in DOMAIN users', ~(u \in DOMAIN users /\ users'[u] = users[u])
                 PROVE  Held(users'[u]) \subseteq Sources(u)'
        OBVIOUS
    <3>1. u = Len(users) + 1 /\ users'[u] = x.row
        BY <1>7, <2>1, SMT
    <3>2. u # Nobody
        BY <1>7, <3>1, SMT
    <3> QED
        BY <1>9, <2>1, <2>3, <3>1, <3>2, Zenon
  <2> QED
      BY <1>2, <1>3, <2>1, <2>2, <2>3, <2>4, LoginRowsKept, Zenon
<1>12. CASE Copies(l, x)
  <2>1. /\ users' = users /\ edit' = edit /\ x.user = login[l].user
        /\ login[l].pc \in Looping /\ x.pc = "store" /\ x.found # Nobody
        /\ Held(x.row) = Held(login[l].row) \cup Held(users[x.found])
      BY <1>12, Zenon DEF Copies, Tables
  <2>2. login[l].pc # "store"
      BY <2>1, Zenon DEF Looping
  <2>3. x.found \in DOMAIN users
      BY <1>3, <1>4, <1>7, <2>1, SMT
  <2>4. Held(users[x.found]) \subseteq Sources(x.found)
      BY <2>3, SourcesOfRows, Zenon DEF RowsInv
  <2>5. Held(x.row) \subseteq Gift(x.identity) \cup Sources(x.found)
      BY <1>5, <2>1, <2>2, <2>4, Zenon
  <2> QED
      BY <1>2, <1>3, <2>1, <2>5, LoginRowsKept, Zenon
<1>13. CASE Stores(l, x)
  <2>1. /\ edit' = edit /\ login[l].pc = "store" /\ x.pc = "done"
        /\ x.user = login[l].found /\ x.row = NoRow
        /\ users' = [users EXCEPT ![login[l].found] = login[l].row]
      BY <1>13, Zenon DEF Stores
  <2>2. login[l].user = Nobody /\ login[l].found # Nobody /\ x.user # Nobody /\ x.pc # "store"
      BY <1>4, <2>1, Zenon
  <2>3. Held(x.row) \subseteq Gift(x.identity)
      BY <1>8, <2>1, Zenon
  <2>4. ASSUME CallsKept
        PROVE  \A u \in DOMAIN users' :
                 \/ u \in DOMAIN users /\ users'[u] = users[u]
                 \/ Held(users'[u]) \subseteq Sources(u)'
    <3> SUFFICES ASSUME NEW u \in DOMAIN users', ~(u \in DOMAIN users /\ users'[u] = users[u])
                 PROVE  Held(users'[u]) \subseteq Sources(u)'
        OBVIOUS
    <3>1. u = login[l].found /\ users'[u] = login[l].row
        BY <1>7, <2>1, SMT
    <3>2. u # Nobody /\ u = x.user /\ u = x.found
        BY <1>3, <2>1, <2>2, <3>1, Zenon
    <3>3. Held(users'[u]) \subseteq Gift(x.identity) \cup Sources(u)
        BY <1>5, <2>1, <3>1, <3>2, Zenon
    <3>4. Gift(x.identity) \subseteq Sources(u)'
        BY <1>9, <2>2, <3>2, Zenon
    <3>5. Sources(u) \subseteq Sources(u)'
        BY <2>4, <3>2, SourcesGrow, Zenon
    <3> QED
        BY <3>3, <3>4, <3>5, Zenon
  <2> QED
      BY <1>2, <1>3, <2>1, <2>2, <2>3, <2>4, LoginRowsKept, Zenon
<1>14. CASE Ends(l, x)
  <2>1. /\ users' = users /\ edit' = edit /\ x.user = login[l].user
        /\ x.pc \in {"done", "failed"} /\ x.row = NoRow
      BY <1>14, Zenon DEF Ends
  <2>2. x.pc # "store"
      BY <2>1, Zenon
  <2>3. Held(x.row) \subseteq Gift(x.identity)
      BY <1>8, <2>1, Zenon
  <2> QED
      BY <1>2, <1>3, <2>1, <2>2, <2>3, LoginRowsKept, Zenon
<1> QED
    BY <1>1, <1>10, <1>11, <1>12, <1>13, <1>14

LEMMA RegisterRows ==
    ASSUME StateInv, RowsInv, NEW l \in Login, NEW i \in Identity, register_api_user(l, i)
    PROVE  RowsInv'
<1>1. PICK x \in LoginType :
        /\ login' = [login EXCEPT ![l] = x]
        /\ x.pc = "mappers" /\ x.identity = i /\ x.user = Nobody /\ x.row = NoRow
    BY RegisterState, Zenon
<1>2. StateInv' /\ login[l].pc = "idle" /\ UNCHANGED Tables
    BY RegisterState, Zenon
<1>3. users' = users /\ edit' = edit
    BY <1>2, Zenon DEF Tables
<1>4. Held(x.row) = {}
    BY <1>1, SMT DEF Held, NoRow
<1>5. Held(x.row) \subseteq Gift(x.identity)
    BY <1>4, Zenon
<1> QED
    BY <1>1, <1>2, <1>3, <1>5, LoginRowsKept, Zenon

\* So does a step of an administrator, if it does for the edit and for the users
\* it changes.
LEMMA AdminRowsKept ==
    ASSUME StateInv, RowsInv, CallsKept, login' = login,
           \A u \in DOMAIN users' :
              \/ u \in DOMAIN users /\ users'[u] = users[u]
              \/ Held(users'[u]) \subseteq Sources(u)',
           \A e \in Edit : edit'[e] = edit[e] \/
              \A u : edit'[e].pc = "store" /\ u = edit'[e].user
                    => Held(edit'[e].row) \subseteq Sources(u)'
    PROVE  RowsInv'
<1>1. \A l \in Login : login'[l].pc = "store" => login'[l].found # Nobody
    BY Zenon DEF StateInv, CallInv
<1>2. \A l \in Login : login'[l] = login[l]
    BY Zenon
<1> QED
    BY <1>1, <1>2, RowsKept, Zenon

LEMMA LoadForEditRows ==
    ASSUME StateInv, RowsInv, NEW e \in Edit, NEW u \in DOMAIN users, NEW r \in Request,
           LoadForEdit(e, u, r)
    PROVE  RowsInv'
<1>1. PICK x \in EditType :
        /\ edit' = [edit EXCEPT ![e] = x]
        /\ x.pc = "store" /\ x.user = u /\ x.request = r
        /\ Held(x.row) \subseteq Held(users[u]) \cup r.what
    BY EditSteps, Zenon
<1>2. /\ edit[e].pc = "idle" /\ u \in 1 .. Len(users)
      /\ users' = users /\ login' = login
    BY EditSteps, Zenon
<1>3. /\ edit'[e] = x
      /\ \A k \in Edit : k # e => edit'[k] = edit[k]
    BY <1>1, Zenon DEF StateInv, TypeOK
<1>4. CallsKept
    BY <1>2, <1>3, Zenon DEF CallsKept
<1>5. u # Nobody
    BY <1>2, SMT
<1>6. Held(users[u]) \subseteq Sources(u)'
  <2>1. Held(users[u]) \subseteq Sources(u)
      BY SourcesOfRows, Zenon DEF RowsInv
  <2> QED
      BY <1>4, <1>5, <2>1, SourcesGrow, Zenon
<1>7. r.what \subseteq Sources(u)'
  <2> SUFFICES ASSUME NEW g \in r.what PROVE g \in FromEdit(u)'
      BY Zenon DEF Sources
  <2>1. edit'[e].pc # "idle" /\ edit'[e].user = u /\ edit'[e].request = r
      BY <1>1, <1>3, Zenon
  <2> QED
      BY <2>1, Zenon DEF FromEdit
<1>8. Held(x.row) \subseteq Sources(u)'
    BY <1>1, <1>6, <1>7, Zenon
<1>9. \A k \in Edit : edit'[k] = edit[k] \/
         \A v : edit'[k].pc = "store" /\ v = edit'[k].user
               => Held(edit'[k].row) \subseteq Sources(v)'
  <2> SUFFICES ASSUME NEW k \in Edit, edit'[k] # edit[k], NEW v, v = edit'[k].user
               PROVE  Held(edit'[k].row) \subseteq Sources(v)'
      BY Zenon
  <2>1. edit'[k] = x /\ v = u
      BY <1>1, <1>3, Zenon
  <2> QED
      BY <1>8, <2>1, Zenon
<1> QED
    BY <1>2, <1>4, <1>9, AdminRowsKept, Zenon

LEMMA StoreEditRows ==
    ASSUME StateInv, RowsInv, NEW e \in Edit, StoreEdit(e) \/ FailEdit(e)
    PROVE  RowsInv'
<1>1. PICK x \in EditType :
        /\ edit' = [edit EXCEPT ![e] = x]
        /\ x.pc \in {"done", "failed"} /\ x.user = edit[e].user
        /\ x.request = edit[e].request
    BY StoreEdits, Zenon
<1>2. /\ edit[e].pc = "store" /\ edit[e].user \in 1 .. Len(users)
      /\ \/ users' = users
         \/ users' = [users EXCEPT ![edit[e].user] = edit[e].row]
      /\ login' = login
    BY StoreEdits, Zenon
<1>3. /\ edit'[e] = x
      /\ \A k \in Edit : k # e => edit'[k] = edit[k]
    BY <1>1, Zenon DEF StateInv, TypeOK
<1>4. x.pc # "idle" /\ x.pc # "store"
    BY <1>1, Zenon
<1>5. CallsKept
    BY <1>1, <1>2, <1>3, <1>4, Zenon DEF CallsKept
<1>6. users \in Seq(Row) /\ DOMAIN users = 1 .. Len(users)
    BY SMT DEF StateInv, TypeOK
<1>7. \A u \in DOMAIN users' :
         \/ u \in DOMAIN users /\ users'[u] = users[u]
         \/ Held(users'[u]) \subseteq Sources(u)'
  <2> SUFFICES ASSUME NEW u \in DOMAIN users',
                      ~(u \in DOMAIN users /\ users'[u] = users[u])
               PROVE  Held(users'[u]) \subseteq Sources(u)'
      BY Zenon
  <2>1. u = edit[e].user /\ users'[u] = edit[e].row
      BY <1>2, <1>6, Zenon
  <2>2. u # Nobody
      BY <1>2, <2>1, SMT
  <2>3. Held(edit[e].row) \subseteq Sources(u)
      BY <1>2, <2>1, Zenon DEF RowsInv, EditRowInv
  <2> QED
      BY <1>5, <2>1, <2>2, <2>3, SourcesGrow, Zenon
<1>8. \A k \in Edit : edit'[k] = edit[k] \/
         \A u : edit'[k].pc = "store" /\ u = edit'[k].user
               => Held(edit'[k].row) \subseteq Sources(u)'
    BY <1>3, <1>4, Zenon
<1> QED
    BY <1>2, <1>5, <1>7, <1>8, AdminRowsKept, Zenon

LEMMA AdminStepRows ==
    ASSUME StateInv, RowsInv, AdminStep
    PROVE  RowsInv'
<1>1. CASE \E e \in Edit, u \in DOMAIN users, r \in Request : LoadForEdit(e, u, r)
    BY <1>1, LoadForEditRows
<1>2. CASE \E e \in Edit : StoreEdit(e) \/ FailEdit(e)
    BY <1>2, StoreEditRows
<1>3. CASE \/ \E row \in Body : create_api_user(row)
           \/ \E u \in DOMAIN users, row \in Body : update_api_user(u, row)
           \/ \E g \in Group : create_group(g) \/ delete_group(g)
           \/ \E m \in Mapper : add_mapper(m) \/ remove_mapper(m)
  <2>1. (BodyStored \/ users' = users) /\ login' = login /\ edit' = edit
      BY <1>3, AdminSteps
  <2>2. CallsKept
      BY <2>1, Zenon DEF CallsKept
  <2>3. \A row \in Body : \A u : Held(row) \subseteq Sources(u)'
      BY Zenon DEF Held, Sources, FromBody
  <2>4. users \in Seq(Row) /\ DOMAIN users = 1 .. Len(users)
      BY SMT DEF StateInv, TypeOK
  <2>5. \A u \in DOMAIN users' :
           \/ u \in DOMAIN users /\ users'[u] = users[u]
           \/ Held(users'[u]) \subseteq Sources(u)'
    <3> SUFFICES ASSUME NEW u \in DOMAIN users',
                        ~(u \in DOMAIN users /\ users'[u] = users[u])
                 PROVE  Held(users'[u]) \subseteq Sources(u)'
        BY Zenon
    <3>1. BodyStored
        BY <2>1, Zenon
    <3>2. PICK row \in Body :
            \/ users' = Append(users, row)
            \/ \E v \in 1 .. Len(users) : users' = [users EXCEPT ![v] = row]
        BY <3>1, Zenon DEF BodyStored
    <3>3. users'[u] = row
      <4>1. CASE users' = Append(users, row)
          BY <2>4, <4>1, SMT
      <4>2. CASE \E v \in 1 .. Len(users) : users' = [users EXCEPT ![v] = row]
          BY <2>4, <4>2, Zenon
      <4> QED
          BY <3>2, <4>1, <4>2, Zenon
    <3> QED
        BY <2>3, <3>3, Zenon
  <2>6. \A e \in Edit : edit'[e] = edit[e]
      BY <2>1, Zenon
  <2> QED
      BY <2>1, <2>2, <2>5, <2>6, AdminRowsKept, Zenon
<1> QED
    BY <1>1, <1>2, <1>3 DEF AdminStep

LEMMA RowsStep ==
    ASSUME StateInv, RowsInv, [Next]_accountVars
    PROVE  RowsInv'
<1>1. CASE \E l \in Login, i \in Identity : register_api_user(l, i)
    BY <1>1, RegisterRows
<1>2. CASE \E l \in Login : LoginStep(l)
    BY <1>2, LoginStepRows
<1>3. CASE AdminStep
    BY <1>3, AdminStepRows
<1>4. CASE UNCHANGED accountVars
  <2>1. users' = users /\ login' = login /\ edit' = edit
      BY <1>4, Zenon DEF accountVars
  <2>2. CallsKept
      BY <2>1, Zenon DEF CallsKept
  <2> QED
      BY <2>1, <2>2, AdminRowsKept, Zenon
<1> QED
    BY <1>1, <1>2, <1>3, <1>4 DEF Next

LEMMA InitRows == Init => RowsInv
<1> SUFFICES ASSUME Init PROVE RowsInv
    OBVIOUS
<1>1. DOMAIN users = {}
    BY SMT DEF Init
<1>2. /\ \A l \in Login : login[l].pc = "idle"
      /\ \A e \in Edit : edit[e].pc = "idle"
    BY Zenon DEF Init
<1> QED
    BY <1>1, <1>2, Zenon
    DEF RowsInv, MappedInv, CopyInv, EditRowInv, NothingFromNowhere

\* Nobody has a permission or a group that was not given to them, however many
\* calls read a user, wait for the store and write the copy back over the changes
\* of the others (register_api_user, add_api_user_to_group, update_api_user).
THEOREM GivenOnly == Spec => []NothingFromNowhere
<1>1. Init => StateInv /\ RowsInv
    BY InitState, InitRows
<1>2. StateInv /\ RowsInv /\ [Next]_accountVars => (StateInv /\ RowsInv)'
    BY StateStep, RowsStep
<1>3. StateInv /\ RowsInv => NothingFromNowhere
    BY DEF RowsInv
<1> QED
    BY <1>1, <1>2, <1>3, PTL DEF Spec

=============================================================================
