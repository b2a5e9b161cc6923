------------------------------- MODULE Account -------------------------------
(***************************************************************************)
(* Accounts of the API: users, the external identities linked to them, and *)
(* the mappers that give permissions and groups to whoever logs in.        *)
(* register_api_user ends every login; administrators edit users, groups   *)
(* and mappers meanwhile.  No operation holds a transaction: each call of  *)
(* the store is a step of its own, and an operation works on what it read. *)
(*                                                                         *)
(* A user's permissions are those that contract and expand leave alone.    *)
(* The content of an identity's user info does not change.                 *)
(***************************************************************************)
EXTENDS Naturals, Sequences, FiniteSets

CONSTANTS
    Identity,    \* pairs of a provider and the id it knows somebody by
    Login,       \* calls of register_api_user
    Edit,        \* calls of add_api_user_to_group and its like
    Mapper, Group, Permission,
    Rule,        \* Rule[m]: whom m matches, what it gives, and how often (0: no limit)
    Request,     \* what edits may be asked for
    Body,        \* the users that administrators may store as a whole
    Start,       \* the groups and mappers there are from the start
    MaxUsers     \* bound: users after which administrators create no more

RuleType == [who : SUBSET Identity, permissions : SUBSET Permission,
             groups : SUBSET Group, max : Nat]
Row == [permissions : SUBSET Permission, groups : SUBSET Group]
RequestType ==
    [op : {"add_permissions"}, what : SUBSET Permission]
        \cup [op : {"add_to_group", "remove_from_group"}, what : SUBSET Group]

ASSUME AccountAssumption ==
    /\ Rule \in [Mapper -> RuleType]
    /\ Request \subseteq RequestType
    /\ Body \subseteq Row
    /\ Start \subseteq Group \cup Mapper
    /\ MaxUsers \in Nat

VARIABLES
    users,        \* the api_user table
    providers,    \* the api_user_provider table: the user of an identity (0: none)
    groups,       \* the access_groups table: "none", "live" or "deleted"
    mappers,      \* the mapper table: "none", "live" or "deleted"
    activations,  \* its column activations
    depleted,     \* the mappers whose depleted_at is set
    login,        \* the calls of register_api_user
    edit          \* the calls that edit a user

admin == <<groups, mappers>>
counts == <<activations, depleted>>
accountVars == <<users, providers, admin, counts, login, edit>>

Nobody == 0
NoRow == [permissions |-> {}, groups |-> {}]
Presence == {"none", "live", "deleted"}
LiveGroups == {g \in Group : groups[g] = "live"}

LoginPC == {"idle", "mappers", "mapping", "consume", "apply", "link", "store",
            "done", "failed"}
EditPC == {"idle", "store", "done", "failed"}

\* A call of register_api_user: the user it found for its identity, the mappers
\* it has yet to test with the activations it read, the one it is applying (if
\* any), what it has mapped and is about to store, and the user it works on.
LoginType == [pc : LoginPC, identity : Identity, found : Nat, todo : SUBSET Mapper,
              seen : [Mapper -> Nat], current : SUBSET Mapper, row : Row,
              user : Nat]

NothingSeen == [m \in Mapper |-> 0]

NewLogin(i) == [pc |-> "mappers", identity |-> i, found |-> providers[i], todo |-> {},
                seen |-> NothingSeen, current |-> {}, row |-> NoRow,
                user |-> Nobody]

\* What is left of a call that has returned.
Ended(x, pc) == [x EXCEPT !.pc = pc, !.todo = {}, !.seen = NothingSeen,
                          !.current = {}, !.row = NoRow]

EditType == [pc : EditPC, user : Nat, request : Request, row : Row]

Idle == [pc |-> "idle"]

TypeOK ==
    /\ users \in Seq(Row)
    /\ providers \in [Identity -> 0 .. Len(users)]
    /\ groups \in [Group -> Presence]
    /\ mappers \in [Mapper -> Presence]
    /\ activations \in [Mapper -> Nat]
    /\ depleted \subseteq Mapper
    /\ login \in [Login -> LoginType \cup {Idle}]
    /\ edit \in [Edit -> EditType \cup {Idle}]

Init ==
    /\ users = <<>>
    /\ providers = [i \in Identity |-> Nobody]
    /\ groups = [g \in Group |-> IF g \in Start THEN "live" ELSE "none"]
    /\ mappers = [m \in Mapper |-> IF m \in Start THEN "live" ELSE "none"]
    /\ activations = [m \in Mapper |-> 0]
    /\ depleted = {}
    /\ login = [l \in Login |-> Idle]
    /\ edit = [e \in Edit |-> Idle]

-----------------------------------------------------------------------------
(* register_api_user. *)

LoggingIn == {l \in Login : login[l].pc \notin {"idle", "done", "failed"}}

\* The call lists the providers of the identity.  The unique index leaves at
\* most one.
register_api_user(l, i) ==
    /\ login[l].pc = "idle"
    /\ login' = [login EXCEPT ![l] = NewLogin(i)]
    /\ UNCHANGED <<users, providers, admin, counts, edit>>

\* The mappers that are neither deleted nor depleted, as they are now.
GetMappings(l) ==
    /\ login[l].pc = "mappers"
    /\ login' = [login EXCEPT
          ![l].pc = "mapping",
          ![l].todo = {m \in Mapper : mappers[m] = "live"} \ depleted,
          ![l].seen = activations]
    /\ UNCHANGED <<users, providers, admin, counts, edit>>

\* Mutant of GroupsFor: does not look at the identity.
GroupsForAnyone(m, i) == Rule[m].groups \cap LiveGroups

\* What a rule gives an identity; it names groups, of which some may exist.
Matches(m, i) == i \in Rule[m].who
PermissionsFor(m, i) == IF Matches(m, i) THEN Rule[m].permissions ELSE {}
GroupsFor(m, i) == IF Matches(m, i) THEN Rule[m].groups \cap LiveGroups ELSE {}

\* A rule that gives nothing is passed over; one without a limit is applied, and
\* an activation of one with a limit is consumed first.
TestRule(l, m) ==
    /\ login[l].pc = "mapping"
    /\ m \in login[l].todo
    /\ LET i == login[l].identity
           gives == PermissionsFor(m, i) \cup GroupsFor(m, i) # {} IN
       login' = [login EXCEPT
          ![l].todo = @ \ {m},
          ![l].current = IF gives THEN {m} ELSE {},
          ![l].pc = IF ~gives THEN "mapping"
                    ELSE IF Rule[m].max = 0 THEN "apply" ELSE "consume"]
    /\ UNCHANGED <<users, providers, admin, counts, edit>>

\* Mutant of ConsumeActivation: counts down, as if activations were what is left.
ConsumeActivationDown(l, m) ==
    /\ login[l].pc = "consume"
    /\ m \in login[l].current
    /\ activations' = [activations EXCEPT ![m] = login[l].seen[m] - 1]
    /\ login' = [login EXCEPT ![l].pc = "apply"]
    /\ UNCHANGED <<users, providers, admin, depleted, edit>>

\* One more than the activations read is written, and with it whether that is the
\* last.  Any error passes the rule over: a number above the limit violates the
\* table's CHECK, the call fails before it writes, or its answer is lost.
ConsumeActivation(l, m) ==
    /\ login[l].pc = "consume"
    /\ m \in login[l].current
    /\ LET n == login[l].seen[m] + 1
           applied == [login EXCEPT ![l].pc = "apply"]
           passedOver == [login EXCEPT ![l].pc = "mapping", ![l].current = {}]
       IN
       \/ /\ n <= Rule[m].max
          /\ activations' = [activations EXCEPT ![m] = n]
          /\ depleted' = IF n = Rule[m].max THEN depleted \cup {m} ELSE depleted \ {m}
          /\ login' \in {applied, passedOver}
       \/ login' = passedOver /\ UNCHANGED counts
    /\ UNCHANGED <<users, providers, admin, edit>>

\* The rule is evaluated once more, with the groups there are by now.
ApplyRule(l, m) ==
    /\ login[l].pc = "apply"
    /\ m \in login[l].current
    /\ LET i == login[l].identity IN
       login' = [login EXCEPT
          ![l].row.permissions = @ \cup PermissionsFor(m, i),
          ![l].row.groups = @ \cup GroupsFor(m, i),
          ![l].current = {},
          ![l].pc = "mapping"]
    /\ UNCHANGED <<users, providers, admin, counts, edit>>

Mapped(l) == login[l].pc = "mapping" /\ login[l].todo = {}

\* No provider was found: a user is created, and then a provider for it.
CreateUser(l) ==
    /\ Mapped(l)
    /\ login[l].found = Nobody
    /\ users' = Append(users, login[l].row)
    /\ login' = [login EXCEPT ![l].pc = "link", ![l].user = Len(users) + 1]
    /\ UNCHANGED <<providers, admin, counts, edit>>

\* Mutant of LinkProvider: a provider that is there already is moved.
LinkProviderMoves(l) ==
    /\ login[l].pc = "link"
    /\ providers' = [providers EXCEPT ![login[l].identity] = login[l].user]
    /\ login' = [login EXCEPT ![l] = Ended(@, "done")]
    /\ UNCHANGED <<users, admin, counts, edit>>

\* UNIQUE (provider, provider_id): when the identity has been linked since, the
\* login fails and leaves its user behind.
LinkProvider(l) ==
    /\ login[l].pc = "link"
    /\ LET i == login[l].identity IN
       IF providers[i] = Nobody
       THEN /\ providers' = [providers EXCEPT ![i] = login[l].user]
            /\ login' = [login EXCEPT ![l] = Ended(@, "done")]
       ELSE /\ login' = [login EXCEPT ![l] = Ended(@, "failed")]
            /\ UNCHANGED providers
    /\ UNCHANGED <<users, admin, counts, edit>>

\* Mutant of LoadUser: the groups of the user are replaced.
LoadUserOverwrites(l) ==
    /\ Mapped(l)
    /\ login[l].found # Nobody
    /\ login' = [login EXCEPT
          ![l].row.permissions = @ \cup users[login[l].found].permissions,
          ![l].pc = "store"]
    /\ UNCHANGED <<users, providers, admin, counts, edit>>

\* A provider was found: its user is read (after the provider's emails and names
\* are stored) and what is mapped is added to the copy.
LoadUser(l) ==
    /\ Mapped(l)
    /\ login[l].found # Nobody
    /\ LET user == users[login[l].found] IN
       login' = [login EXCEPT
          ![l].row.permissions = @ \cup user.permissions,
          ![l].row.groups = @ \cup user.groups,
          ![l].pc = "store"]
    /\ UNCHANGED <<users, providers, admin, counts, edit>>

\* The copy replaces the row.
StoreUser(l) ==
    /\ login[l].pc = "store"
    /\ users' = [users EXCEPT ![login[l].found] = login[l].row]
    /\ login' = [login EXCEPT ![l] = [Ended(@, "done") EXCEPT !.user = login[l].found]]
    /\ UNCHANGED <<providers, admin, counts, edit>>

\* A call of the store fails, or the process ends.
FailLogin(l) ==
    /\ l \in LoggingIn
    /\ login' = [login EXCEPT ![l] = Ended(@, "failed")]
    /\ UNCHANGED <<users, providers, admin, counts, edit>>

-----------------------------------------------------------------------------
(* What administrators do. *)

\* add_api_user_to_group, remove_api_user_from_group and add_permissions_to_user
\* read the user, change the copy, and store it.
LoadForEdit(e, u, r) ==
    /\ edit[e].pc = "idle"
    /\ edit' = [edit EXCEPT ![e] =
          [pc |-> "store", user |-> u, request |-> r,
           row |-> CASE r.op = "add_permissions" ->
                          [users[u] EXCEPT !.permissions = @ \cup r.what]
                     [] r.op = "add_to_group" ->
                          [users[u] EXCEPT !.groups = @ \cup r.what]
                     [] r.op = "remove_from_group" ->
                          [users[u] EXCEPT !.groups = @ \ r.what]]]
    /\ UNCHANGED <<users, providers, admin, counts, login>>

StoreEdit(e) ==
    /\ edit[e].pc = "store"
    /\ users' = [users EXCEPT ![edit[e].user] = edit[e].row]
    /\ edit' = [edit EXCEPT ![e].pc = "done", ![e].row = NoRow]
    /\ UNCHANGED <<providers, admin, counts, login>>

FailEdit(e) ==
    /\ edit[e].pc = "store"
    /\ edit' = [edit EXCEPT ![e].pc = "failed", ![e].row = NoRow]
    /\ UNCHANGED <<users, providers, admin, counts, login>>

create_api_user(row) ==
    /\ Len(users) < MaxUsers
    /\ users' = Append(users, row)
    /\ UNCHANGED <<providers, admin, counts, login, edit>>

update_api_user(u, row) ==
    /\ users' = [users EXCEPT ![u] = row]
    /\ UNCHANGED <<providers, admin, counts, login, edit>>

\* Names are unique among all groups, the deleted ones included.
create_group(g) ==
    /\ groups[g] = "none"
    /\ groups' = [groups EXCEPT ![g] = "live"]
    /\ UNCHANGED <<users, providers, mappers, counts, login, edit>>

delete_group(g) ==
    /\ groups[g] = "live"
    /\ groups' = [groups EXCEPT ![g] = "deleted"]
    /\ UNCHANGED <<users, providers, mappers, counts, login, edit>>

add_mapper(m) ==
    /\ mappers[m] = "none"
    /\ mappers' = [mappers EXCEPT ![m] = "live"]
    /\ UNCHANGED <<users, providers, groups, counts, login, edit>>

remove_mapper(m) ==
    /\ mappers[m] = "live"
    /\ mappers' = [mappers EXCEPT ![m] = "deleted"]
    /\ UNCHANGED <<users, providers, groups, counts, login, edit>>

-----------------------------------------------------------------------------
LoginStep(l) ==
    \/ GetMappings(l)
    \/ \E m \in Mapper : TestRule(l, m) \/ ConsumeActivation(l, m) \/ ApplyRule(l, m)
    \/ CreateUser(l)
    \/ LinkProvider(l)
    \/ LoadUser(l)
    \/ StoreUser(l)
    \/ FailLogin(l)

AdminStep ==
    \/ \E e \in Edit, u \in DOMAIN users, r \in Request : LoadForEdit(e, u, r)
    \/ \E e \in Edit : StoreEdit(e) \/ FailEdit(e)
    \/ \E row \in Body : create_api_user(row)
    \/ \E u \in DOMAIN users, row \in Body : update_api_user(u, row)
    \/ \E g \in Group : create_group(g) \/ delete_group(g)
    \/ \E m \in Mapper : add_mapper(m) \/ remove_mapper(m)

Next ==
    \/ \E l \in Login, i \in Identity : register_api_user(l, i)
    \/ \E l \in Login : LoginStep(l)
    \/ AdminStep

Spec == Init /\ [][Next]_accountVars

-----------------------------------------------------------------------------
(* Properties. *)

\* What the mappers give an identity, at most.
MayGive(i) ==
    LET rules == {Rule[m] : m \in {n \in Mapper : Matches(n, i)}} IN
    [permissions |-> UNION {r.permissions : r \in rules},
     groups |-> UNION {r.groups : r \in rules}]

\* Where the permissions and groups of a user may come from: the mappers that
\* match an identity that logged in as this user, the edits of this user, and the
\* users that administrators store as a whole.
FromLogin(u) ==
    UNION {MayGive(login[l].identity).permissions \cup MayGive(login[l].identity).groups
             : l \in {x \in Login : login[x].pc # "idle" /\ login[x].user = u}}

FromEdit(u) ==
    UNION {edit[e].request.what
             : e \in {x \in Edit : edit[x].pc # "idle" /\ edit[x].user = u}}

FromBody == UNION {row.permissions \cup row.groups : row \in Body}

\* Nobody has a permission or a group that was not given to them, although calls
\* that overlap write back rows that are out of date and rows of other calls are
\* left behind half done.
NothingFromNowhere ==
    \A u \in DOMAIN users :
        users[u].permissions \cup users[u].groups
            \subseteq FromLogin(u) \cup FromEdit(u) \cup FromBody

\* A call as the abstract operations know it: what it found, and, once it has read
\* its user, the copy that it is about to store.
CallOfLogin(x) ==
    IF x = Idle THEN [at |-> "idle"]
    ELSE [at |-> CASE x.pc \in {"done", "failed"} -> x.pc
                   [] x.pc = "link" -> "created"
                   [] x.pc = "store" -> "read"
                   [] OTHER -> "called",
          identity |-> x.identity, found |-> x.found, user |-> x.user,
          copy |-> IF x.pc = "store" THEN x.row ELSE NoRow]

CallOfEdit(x) ==
    IF x = Idle THEN [at |-> "idle"]
    ELSE [at |-> IF x.pc = "store" THEN "read" ELSE x.pc,
          user |-> x.user, request |-> x.request, copy |-> x.row]

Operations == INSTANCE AccountOperations WITH
    logins <- [l \in Login |-> CallOfLogin(login[l])],
    edits <- [e \in Edit |-> CallOfEdit(edit[e])]

\* However calls overlap, each one stores its user at most once, and what it stores
\* is its own change made to what the user was at one moment of the call: an update
\* is lost only to a call that had begun before it, and of two first logins of one
\* identity only one keeps its user (register_api_user, add_api_user_to_group and
\* the others, none of which holds a transaction).
LostOnlyToOverlap == Operations!Spec

=============================================================================
