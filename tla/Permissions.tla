------------------------------ MODULE Permissions ------------------------------
(***************************************************************************)
(* The permissions of one user, owner: how they are stored, what groups    *)
(* add to them, and what a request of that user may do.                    *)
(*                                                                         *)
(* Users and groups are edited by administrators; a login that maps        *)
(* permissions to a user stores them as add_permissions_to_user does.      *)
(* That these calls may overlap is the subject of Account; here each takes *)
(* effect at once, and get_caller reads the user and the groups together.  *)
(***************************************************************************)
EXTENDS Naturals

CONSTANTS
    owner,       \* the user
    Target,      \* what permissions are for: users, groups, numbers of RFDs, clients
    Group,       \* ids of groups
    Body,        \* sets of permissions that requests assign
    TokenScope,  \* the sets of scopes of tokens
    Key          \* the sets of permissions of API keys

-----------------------------------------------------------------------------
(* Permissions.  GetRfd(n) is for "one", GetRfds({m, n}) for "many" targets. *)

\* The scope of the permissions of each kind.
Scope ==
    [CreateApiUserToken |-> "user:token:w", GetApiUser |-> "user:info:r",
     GetApiUserToken |-> "user:token:r", DeleteApiUserToken |-> "user:token:w",
     CreateApiUser |-> "user:info:w", UpdateApiUser |-> "user:info:w",
     CreateUserApiProviderLinkToken |-> "user:provider:w",
     GetGroups |-> "group:r", CreateGroup |-> "group:w", UpdateGroup |-> "group:w",
     DeleteGroup |-> "group:w", ManageGroup |-> "group:w",
     AddToGroup |-> "group:membership:w", RemoveFromGroup |-> "group:membership:w",
     ManageGroupMembership |-> "group:membership:w",
     ListMappers |-> "mapper:r", CreateMapper |-> "mapper:w",
     UpdateMapper |-> "mapper:w", DeleteMapper |-> "mapper:w", ManageMapper |-> "mapper:w",
     GetRfd |-> "rfd:content:r", CreateRfd |-> "rfd:content:w",
     UpdateRfd |-> "rfd:content:w", ManageRfdVisibility |-> "rfd:visibility:w",
     GetDiscussion |-> "rfd:discussion:r", SearchRfds |-> "search",
     CreateOAuthClient |-> "oauth:client:w", GetOAuthClient |-> "oauth:client:r",
     UpdateOAuthClient |-> "oauth:client:w", DeleteOAuthClient |-> "oauth:client:w",
     CreateAccessToken |-> ""]

Kind == DOMAIN Scope

P(kind, form) == [kind |-> kind, form |-> form, of |-> {}]
One(kind, x) == [kind |-> kind, form |-> "one", of |-> {x}]
Many(kind, xs) == [kind |-> kind, form |-> "many", of |-> xs]

\* The kinds for users, the others that have sets of targets, those with single targets
\* only, and those without targets.
UserKind ==
    {"GetApiUser", "CreateApiUserToken", "GetApiUserToken", "DeleteApiUserToken",
     "UpdateApiUser"}
SetKind ==
    {"ManageGroupMembership", "ManageGroup", "ManageMapper", "GetRfd", "UpdateRfd",
     "ManageRfdVisibility", "GetDiscussion", "GetOAuthClient", "UpdateOAuthClient",
     "DeleteOAuthClient"}
SingleKind ==
    {"UpdateGroup", "AddToGroup", "RemoveFromGroup", "DeleteGroup", "UpdateMapper",
     "DeleteMapper"}
PlainKind ==
    {"CreateApiUser", "CreateUserApiProviderLinkToken", "CreateGroup", "ListMappers",
     "CreateMapper", "CreateRfd", "SearchRfds", "CreateOAuthClient", "CreateAccessToken"}

ApiPermission ==
    {One(k, x) : k \in UserKind \cup SetKind \cup SingleKind, x \in Target}
    \cup {Many(k, xs) : k \in SetKind, xs \in SUBSET Target}
    \cup {P(k, "self") : k \in UserKind}
    \cup {P(k, form) : k \in UserKind \cup SetKind, form \in {"assigned", "all"}}
    \cup {P("GetGroups", form) : form \in {"joined", "all"}}
    \cup {P(k, "plain") : k \in PlainKind}

ApiPermissions == SUBSET ApiPermission

as_scope(p) == Scope[p.kind]

\* What a scope stands for: pairs of a scope and a permission.
Entry(scope, kinds, forms) == {<<scope, P(k, form)>> : k \in kinds, form \in forms}
Inserted ==
    Entry("user:info:r", {"GetApiUser"}, {"self", "all"})
    \cup Entry("user:info:w", {"UpdateApiUser"}, {"self", "assigned", "all"})
    \cup Entry("user:provider:w", {"CreateUserApiProviderLinkToken"}, {"plain"})
    \cup Entry("user:token:r", {"GetApiUserToken"}, {"self", "assigned", "all"})
    \cup Entry("user:token:w", {"CreateApiUserToken", "DeleteApiUserToken"},
               {"self", "assigned", "all"})
    \cup Entry("group:r", {"GetGroups"}, {"joined", "all"})
    \cup Entry("group:w", {"CreateGroup"}, {"plain"})
    \cup Entry("group:w", {"ManageGroup"}, {"assigned", "all"})
    \cup Entry("group:membership:w", {"ManageGroupMembership"}, {"assigned", "all"})
    \cup Entry("mapper:r", {"ListMappers"}, {"plain"})
    \cup Entry("mapper:w", {"CreateMapper"}, {"plain"})
    \cup Entry("mapper:w", {"ManageMapper"}, {"assigned", "all"})
    \cup Entry("rfd:content:r", {"GetRfd"}, {"assigned", "all"})
    \cup Entry("rfd:content:w", {"CreateRfd"}, {"plain"})
    \cup Entry("rfd:content:w", {"UpdateRfd"}, {"assigned", "all"})
    \cup Entry("rfd:visibility:w", {"ManageRfdVisibility"}, {"assigned", "all"})
    \cup Entry("rfd:discussion:r", {"GetDiscussion"}, {"assigned", "all"})
    \cup Entry("search", {"SearchRfds"}, {"plain"})
    \cup Entry("oauth:client:r", {"GetOAuthClient"}, {"assigned", "all"})
    \cup Entry("oauth:client:w", {"CreateOAuthClient"}, {"plain"})
    \cup Entry("oauth:client:w", {"UpdateOAuthClient", "DeleteOAuthClient"},
               {"assigned", "all"})

\* The scopes that from_scope accepts.
ValidScope == {entry[1] : entry \in Inserted}

from_scope(scope) == {entry[2] : entry \in {e \in Inserted : e[1] \in scope}}

ASSUME PermissionsAssumption ==
    /\ owner \in Target
    /\ Body \subseteq ApiPermissions
    /\ Key \subseteq ApiPermissions
    /\ TokenScope \subseteq SUBSET ValidScope

VARIABLES
    stored,   \* the permissions in the row of the user
    groups,   \* the groups in the row of the user
    group,    \* the permissions in the rows of groups
    status,   \* whether a group exists
    given     \* what requests have assigned to the user since it was last stored as a whole

vars == <<stored, groups, group, status, given>>

-----------------------------------------------------------------------------
(* How permissions are stored. *)

\* The kinds that are stored as one set of targets.
Gathered ==
    {"ManageGroupMembership", "ManageGroup", "GetRfd", "UpdateRfd", "GetDiscussion",
     "GetOAuthClient", "UpdateOAuthClient", "DeleteOAuthClient"}

ContractBy(permissions, kinds) ==
    LET own == {p \in permissions : p.form = "one" /\ p.kind \in UserKind /\ p.of = {owner}}
        ones == {p \in permissions : p.form = "one" /\ p.kind \in Gathered}
    IN  (permissions \ (own \cup ones))
        \cup {P(p.kind, "self") : p \in own}
        \cup {Many(k, UNION {p.of : p \in {q \in ones : q.kind = k}}) : k \in kinds}

\* Mutant of contract: discussions are taken out and not put back.
contractWithoutDiscussions(permissions) ==
    ContractBy(permissions, Gathered \ {"GetDiscussion"})

\* Mutant of contract: adds the sets, and keeps what is in them.
contractAndKeep(permissions) == permissions \cup ContractBy(permissions, Gathered)

contract(permissions) == ContractBy(permissions, Gathered)

\* The sets that are taken apart again, and the kinds of which Assigned means what the
\* user has otherwise.
Spread == Gathered \ {"UpdateRfd"}
OfAssigned ==
    {"ManageGroupMembership", "ManageGroup", "GetRfd", "GetOAuthClient",
     "UpdateOAuthClient", "DeleteOAuthClient"}

\* owner_permissions is {} where the code passes None.
expand(permissions, owner_permissions) ==
    LET many == {p \in permissions : p.form = "many" /\ p.kind \in Spread}
        assigned == {p \in permissions : p.form = "assigned" /\ p.kind \in OfAssigned}
        self == {p \in permissions : p.form = "self" /\ p.kind \in UserKind}
    IN  (permissions \ many)
        \cup (UNION {{One(p.kind, x) : x \in p.of} : p \in many})
        \cup {One(p.kind, owner) : p \in self}
        \cup {q \in owner_permissions :
                q.form = "one" /\ \E p \in assigned : p.kind = q.kind}

-----------------------------------------------------------------------------
(* What a request may do. *)

\* The permissions of the user as get_api_user returns them.
own_permissions == expand(stored, {})

\* Mutant of get_user_group_permissions: a deleted group still counts.
GroupsEvenDeleted(own) == UNION {expand(group[g], own) : g \in groups}

get_user_group_permissions(own) ==
    UNION {expand(group[g], own) : g \in {h \in groups : status[h] = "live"}}

get_user_permissions == own_permissions \cup get_user_group_permissions(own_permissions)

\* Mutant of Restricted: Assigned means what the user itself has.
RestrictedToOwn(base) == expand(base, own_permissions) \cap get_user_permissions

\* Mutant of Restricted: the token alone decides.
RestrictedByToken(base) == expand(base, get_user_permissions)

\* The caller of a token with scopes or a key with permissions.
Restricted(base) == expand(base, get_user_permissions) \cap get_user_permissions

-----------------------------------------------------------------------------
(* What administrators do. *)

Init ==
    /\ \E body \in Body : stored = contract(body) /\ given = body
    /\ groups = {}
    /\ group = [g \in Group |-> {}]
    /\ status = [g \in Group |-> "none"]

update_api_user(body) ==
    /\ stored' = contract(body)
    /\ given' = body
    /\ UNCHANGED <<groups, group, status>>

\* Also what a login does with mapped permissions.
add_permissions_to_user(new) ==
    /\ stored' = contract(own_permissions \cup new)
    /\ given' = given \cup new
    /\ UNCHANGED <<groups, group, status>>

add_api_user_to_group(g) ==
    /\ groups' = groups \cup {g}
    /\ UNCHANGED <<stored, group, status, given>>

remove_api_user_from_group(g) ==
    /\ groups' = groups \ {g}
    /\ UNCHANGED <<stored, group, status, given>>

create_group(g, body) ==
    /\ status[g] = "none"
    /\ status' = [status EXCEPT ![g] = "live"]
    /\ group' = [group EXCEPT ![g] = body]
    /\ UNCHANGED <<stored, groups, given>>

\* The row of a deleted group is updated too, and stays deleted.
update_group(g, body) ==
    /\ status[g] # "none"
    /\ group' = [group EXCEPT ![g] = body]
    /\ UNCHANGED <<stored, groups, status, given>>

delete_group(g) ==
    /\ status[g] # "none"
    /\ status' = [status EXCEPT ![g] = "deleted"]
    /\ UNCHANGED <<stored, groups, group, given>>

Next ==
    \/ \E body \in Body : update_api_user(body) \/ add_permissions_to_user(body)
    \/ \E g \in Group :
          \/ add_api_user_to_group(g) \/ remove_api_user_from_group(g) \/ delete_group(g)
          \/ \E body \in Body : create_group(g, body) \/ update_group(g, body)

Spec == Init /\ [][Next]_vars

-----------------------------------------------------------------------------
(* Properties. *)

\* Only permissions are stored, and of the kinds that are gathered none is stored twice:
\* once for itself and once in a set (contract).
TypeOK ==
    /\ stored \in ApiPermissions
    /\ \A p \in stored : p.form = "one" =>
          p.kind \notin Gathered /\ ~ (p.kind \in UserKind /\ p.of = {owner})
    /\ groups \subseteq Group
    /\ group \in [Group -> ApiPermissions]
    /\ status \in [Group -> {"none", "live", "deleted"}]
    /\ given \in ApiPermissions

\* What a set of permissions says, in whatever form: a kind and one target, or a kind and
\* a word for targets that are not named.
GrantsOf(p) ==
    IF p.form \in {"one", "many"} THEN {p.kind} \X p.of
    ELSE {<<p.kind, IF p.form = "self" THEN owner ELSE p.form>>}
Grants(permissions) == UNION {GrantsOf(p) : p \in permissions}

\* What is stored for a user is what requests have assigned, however often it was read,
\* expanded, added to, contracted and stored again (contract, expand).
StoredIsGiven == Grants(stored) = Grants(given)

\* What the checks of the API find: they ask for one target, or for a word.
Usable(permissions) ==
    UNION {GrantsOf(p) : p \in {q \in permissions : q.form \notin {"many", "self"}}}

\* What the user and its groups have been given.
Combined ==
    Grants(given) \cup UNION {Grants(group[g]) : g \in {h \in groups : status[h] = "live"}}

\* A caller can use the permissions of the user and those of its groups, all of them and
\* no others (README: "a callers full permissions are the combined set of their directly
\* assigned permissions and their group permissions").
CallerIsCombined == Usable(get_user_permissions) = Combined

\* The same, except for the right to update, or to show, one RFD, and to manage one mapper:
\* as a set these are never taken apart (expand).
OnlySetsAreLost ==
    LET kept == Kind \ {"UpdateRfd", "ManageRfdVisibility", "ManageMapper"}
        Of(grants) == {grant \in grants : grant[1] \in kept}
    IN  Of(Usable(get_user_permissions)) = Of(Combined)

\* A caller with a token or a key has no permission that its user does not have, and with
\* a token none outside the scopes of the token (get_caller).
CallerIsBounded ==
    /\ \A scope \in TokenScope : \A p \in Restricted(from_scope(scope)) :
          p \in get_user_permissions /\ as_scope(p) \in scope
    /\ \A key \in Key : Restricted(key) \subseteq get_user_permissions

\* A token with a scope leaves its user every permission in it that is for all targets, and
\* every single RFD, group and client, whether the user or a group has it (get_caller; the
\* test test_jwt_permissions has one case).
ScopeKeepsAssigned ==
    LET single == {"ManageGroupMembership", "ManageGroup", "GetRfd", "GetOAuthClient",
                   "UpdateOAuthClient", "DeleteOAuthClient"}
    IN  \A scope \in TokenScope : \A p \in get_user_permissions :
            /\ as_scope(p) \in scope
            /\ p.form \in {"all", "self"} \/ (p.form = "one" /\ p.kind \in single)
            => p \in Restricted(from_scope(scope))

=============================================================================
