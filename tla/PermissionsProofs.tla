--------------------------- MODULE PermissionsProofs ---------------------------
(***************************************************************************)
(* Proofs about Permissions, for any targets, groups, assignments, tokens  *)
(* and keys: what is stored is what was given, and a caller is bounded by  *)
(* its user and its scopes and loses only what is listed.                  *)
(***************************************************************************)
EXTENDS Permissions, TLAPS

-----------------------------------------------------------------------------
(* Permissions and their forms. *)

\* A permission has one of the forms that the enum has.
LEMMA Forms ==
    ASSUME NEW p \in ApiPermission
    PROVE  \/ \E k \in UserKind \cup SetKind \cup SingleKind : \E x \in Target : p = One(k, x)
           \/ \E k \in SetKind : \E xs \in SUBSET Target : p = Many(k, xs)
           \/ \E k \in UserKind : p = P(k, "self")
           \/ \E k \in UserKind \cup SetKind : \E f \in {"assigned", "all"} : p = P(k, f)
           \/ \E f \in {"joined", "all"} : p = P("GetGroups", f)
           \/ \E k \in PlainKind : p = P(k, "plain")
  BY SMT DEF ApiPermission

\* What the form of a permission says of its other fields.
LEMMA Fields ==
    ASSUME NEW p \in ApiPermission
    PROVE  /\ p.of \subseteq Target
           /\ p.form = "one" => \E x \in Target : p = One(p.kind, x) /\ p.of = {x}
           /\ p.form = "many" => p.kind \in SetKind /\ p = Many(p.kind, p.of)
           /\ p.form = "self" => p.kind \in UserKind /\ p = P(p.kind, "self")
           /\ p.form = "all" =>
                p.kind \in UserKind \cup SetKind \cup {"GetGroups"} /\ p = P(p.kind, "all")
  <1>1. CASE \E k \in UserKind \cup SetKind \cup SingleKind : \E x \in Target : p = One(k, x)
    BY <1>1 DEF One
  <1>2. CASE \E k \in SetKind : \E xs \in SUBSET Target : p = Many(k, xs)
    BY <1>2 DEF Many
  <1>3. CASE \E k \in UserKind : p = P(k, "self")
    BY <1>3 DEF P
  <1>4. CASE \E k \in UserKind \cup SetKind : \E f \in {"assigned", "all"} : p = P(k, f)
    BY <1>4 DEF P
  <1>5. CASE \E f \in {"joined", "all"} : p = P("GetGroups", f)
    BY <1>5 DEF P
  <1>6. CASE \E k \in PlainKind : p = P(k, "plain")
    BY <1>6 DEF P
  <1> QED
    BY <1>1, <1>2, <1>3, <1>4, <1>5, <1>6, Forms, Zenon

\* Permissions that contract and expand make are permissions.
LEMMA Made ==
    ASSUME NEW k, NEW x \in Target, NEW xs \in SUBSET Target
    PROVE  /\ k \in UserKind \cup SetKind => One(k, x) \in ApiPermission
           /\ k \in SetKind => Many(k, xs) \in ApiPermission
           /\ k \in UserKind => P(k, "self") \in ApiPermission
  BY SMT DEF ApiPermission

\* The kinds that are gathered have sets, and are not those of users.
LEMMA Kinds ==
    /\ Gathered \subseteq SetKind
    /\ Spread \subseteq SetKind
    /\ OfAssigned \subseteq SetKind
    /\ UserKind \cap Gathered = {}
    /\ SetKind \ {"UpdateRfd", "ManageRfdVisibility", "ManageMapper"} \subseteq Spread
  BY DEF Gathered, Spread, OfAssigned, SetKind, UserKind

-----------------------------------------------------------------------------
(* What is in the result of contract and of expand. *)

OwnOne(p) == p.form = "one" /\ p.kind \in UserKind /\ p.of = {owner}
SetOne(p) == p.form = "one" /\ p.kind \in Gathered
Targets(S, k) == UNION {p.of : p \in {q \in S : SetOne(q) /\ q.kind = k}}

LEMMA InContract ==
    ASSUME NEW S, NEW q
    PROVE  q \in contract(S) <=>
             \/ q \in S /\ ~ OwnOne(q) /\ ~ SetOne(q)
             \/ \E p \in S : OwnOne(p) /\ q = P(p.kind, "self")
             \/ \E k \in Gathered : q = Many(k, Targets(S, k))
  <1> DEFINE own == {p \in S : p.form = "one" /\ p.kind \in UserKind /\ p.of = {owner}}
             ones == {p \in S : p.form = "one" /\ p.kind \in Gathered}
             of(k) == UNION {p.of : p \in {r \in ones : r.kind = k}}
  <1>1. ASSUME NEW k PROVE of(k) = Targets(S, k)
    <2>1. {r \in ones : r.kind = k} = {r \in S : SetOne(r) /\ r.kind = k}
      BY DEF SetOne
    <2> QED
      BY <2>1, Zenon DEF Targets
  <1>2. contract(S) = (S \ (own \cup ones)) \cup {P(p.kind, "self") : p \in own}
                      \cup {Many(k, of(k)) : k \in Gathered}
    BY Zenon DEF contract, ContractBy
  <1>3. \A p : (p \in own <=> p \in S /\ OwnOne(p)) /\ (p \in ones <=> p \in S /\ SetOne(p))
    BY DEF OwnOne, SetOne
  <1> HIDE DEF own, ones, of
  <1>4. q \in contract(S) <=>
          \/ q \in S /\ q \notin own /\ q \notin ones
          \/ \E p \in own : q = P(p.kind, "self")
          \/ \E k \in Gathered : q = Many(k, of(k))
    BY <1>2, Zenon
  <1> QED
    BY <1>1, <1>3, <1>4, Zenon

LEMMA InExpand ==
    ASSUME NEW S, NEW given_to_owner, NEW q
    PROVE  q \in expand(S, given_to_owner) <=>
             \/ q \in S /\ ~ (q.form = "many" /\ q.kind \in Spread)
             \/ \E p \in S : /\ p.form = "many" /\ p.kind \in Spread
                             /\ \E x \in p.of : q = One(p.kind, x)
             \/ \E p \in S : p.form = "self" /\ p.kind \in UserKind /\ q = One(p.kind, owner)
             \/ /\ q \in given_to_owner /\ q.form = "one"
                /\ \E p \in S : p.form = "assigned" /\ p.kind \in OfAssigned /\ p.kind = q.kind
  <1> DEFINE many == {p \in S : p.form = "many" /\ p.kind \in Spread}
             assigned == {p \in S : p.form = "assigned" /\ p.kind \in OfAssigned}
             self == {p \in S : p.form = "self" /\ p.kind \in UserKind}
             ones(p) == {One(p.kind, x) : x \in p.of}
             singles == UNION {ones(p) : p \in many}
             owners == {One(p.kind, owner) : p \in self}
             had == {r \in given_to_owner :
                       r.form = "one" /\ \E p \in assigned : p.kind = r.kind}
  <1>1. expand(S, given_to_owner) = (S \ many) \cup singles \cup owners \cup had
    BY Zenon DEF expand
  <1>2. \A p : /\ p \in many <=> p \in S /\ p.form = "many" /\ p.kind \in Spread
               /\ p \in assigned <=> p \in S /\ p.form = "assigned" /\ p.kind \in OfAssigned
               /\ p \in self <=> p \in S /\ p.form = "self" /\ p.kind \in UserKind
    OBVIOUS
  <1>3. q \in had <=> /\ q \in given_to_owner /\ q.form = "one"
                     /\ \E p \in assigned : p.kind = q.kind
    OBVIOUS
  <1> HIDE DEF many, assigned, self
  <1>4. q \in owners <=> \E p \in self : q = One(p.kind, owner)
    BY Zenon
  <1>5. \A p : q \in ones(p) <=> \E x \in p.of : q = One(p.kind, x)
    BY Zenon
  <1> HIDE DEF ones, owners, had
  <1>6. q \in singles <=> \E p \in many : q \in ones(p)
    BY Zenon
  <1> HIDE DEF singles
  <1>7. q \in expand(S, given_to_owner) <=>
          \/ q \in S /\ q \notin many
          \/ \E p \in many : q \in ones(p)
          \/ \E p \in self : q = One(p.kind, owner)
          \/ q \in had
    BY <1>1, <1>4, <1>6, Zenon
  <1> QED
    BY <1>2, <1>3, <1>5, <1>7, Zenon

-----------------------------------------------------------------------------
(* What permissions grant is kept by both. *)

LEMMA InGrants ==
    ASSUME NEW S, NEW g
    PROVE  g \in Grants(S) <=> \E p \in S : g \in GrantsOf(p)
  BY Zenon DEF Grants

LEMMA GrantsOfForms ==
    ASSUME NEW k, NEW x, NEW xs
    PROVE  /\ GrantsOf(One(k, x)) = {<<k, x>>}
           /\ GrantsOf(Many(k, xs)) = {k} \X xs
           /\ GrantsOf(P(k, "self")) = {<<k, owner>>}
  BY DEF GrantsOf, One, Many, P

LEMMA ContractKeepsGrants ==
    ASSUME NEW S \in ApiPermissions
    PROVE  Grants(contract(S)) = Grants(S)
  <1>1. ASSUME NEW q \in contract(S), NEW g \in GrantsOf(q)
        PROVE  \E p \in S : g \in GrantsOf(p)
    <2>1. CASE q \in S
      BY <2>1
    <2>2. CASE \E p \in S : OwnOne(p) /\ q = P(p.kind, "self")
      <3>1. PICK p \in S : OwnOne(p) /\ q = P(p.kind, "self")
        BY <2>2
      <3>2. p = One(p.kind, owner)
        BY <3>1, Fields DEF ApiPermissions, OwnOne
      <3> QED
        BY <3>1, <3>2, GrantsOfForms
    <2>3. CASE \E k \in Gathered : q = Many(k, Targets(S, k))
      <3>1. PICK k \in Gathered : q = Many(k, Targets(S, k))
        BY <2>3
      <3>2. PICK x \in Targets(S, k) : g = <<k, x>>
        BY <3>1, GrantsOfForms
      <3>3. PICK p \in S : SetOne(p) /\ p.kind = k /\ x \in p.of
        BY <3>2 DEF Targets
      <3>4. GrantsOf(p) = {p.kind} \X p.of
        BY <3>3 DEF GrantsOf, SetOne
      <3> QED
        BY <3>2, <3>3, <3>4
    <2> QED
      BY <2>1, <2>2, <2>3, InContract
  <1>2. ASSUME NEW p \in S, NEW g \in GrantsOf(p)
        PROVE  \E q \in contract(S) : g \in GrantsOf(q)
    <2>1. CASE OwnOne(p)
      <3>1. P(p.kind, "self") \in contract(S)
        BY <2>1, InContract
      <3>2. p = One(p.kind, owner)
        BY <2>1, Fields DEF ApiPermissions, OwnOne
      <3>3. GrantsOf(p) = GrantsOf(P(p.kind, "self"))
        BY <3>2, GrantsOfForms, Zenon
      <3> QED
        BY <3>1, <3>3
    <2>2. CASE SetOne(p)
      <3>1. p.kind \in Gathered /\ GrantsOf(p) = {p.kind} \X p.of
        BY <2>2 DEF GrantsOf, SetOne
      <3>2. Many(p.kind, Targets(S, p.kind)) \in contract(S)
        BY <3>1, InContract
      <3>3. p.of \subseteq Targets(S, p.kind)
        BY <2>2 DEF Targets
      <3>4. g \in {p.kind} \X Targets(S, p.kind)
        BY <3>1, <3>3
      <3> QED
        BY <3>2, <3>4, GrantsOfForms
    <2>3. CASE ~ OwnOne(p) /\ ~ SetOne(p)
      BY <2>3, InContract
    <2> QED
      BY <2>1, <2>2, <2>3
  <1>3. ASSUME NEW g PROVE g \in Grants(contract(S)) <=> g \in Grants(S)
    <2>1. /\ g \in Grants(contract(S)) <=> \E q \in contract(S) : g \in GrantsOf(q)
          /\ g \in Grants(S) <=> \E p \in S : g \in GrantsOf(p)
      BY InGrants, Zenon
    <2> QED
      BY <1>1, <1>2, <2>1, Zenon
  <1> QED
    BY <1>3, Zenon

LEMMA ExpandKeepsGrants ==
    ASSUME NEW S \in ApiPermissions
    PROVE  Grants(expand(S, {})) = Grants(S)
  <1>1. ASSUME NEW q \in expand(S, {}), NEW g \in GrantsOf(q)
        PROVE  \E p \in S : g \in GrantsOf(p)
    <2>1. CASE q \in S
      BY <2>1
    <2>2. CASE \E p \in S : p.form = "many" /\ \E x \in p.of : q = One(p.kind, x)
      <3>1. PICK p \in S : p.form = "many" /\ \E x \in p.of : q = One(p.kind, x)
        BY <2>2
      <3>2. PICK x \in p.of : q = One(p.kind, x)
        BY <3>1
      <3>3. g = <<p.kind, x>>
        <4>1. GrantsOf(q) = {<<p.kind, x>>}
          BY <3>2, GrantsOfForms, Zenon
        <4> QED
          BY <4>1
      <3>4. GrantsOf(p) = {p.kind} \X p.of
        BY <3>1 DEF GrantsOf
      <3> QED
        BY <3>3, <3>4
    <2>3. CASE \E p \in S : p.form = "self" /\ q = One(p.kind, owner)
      <3>1. PICK p \in S : p.form = "self" /\ q = One(p.kind, owner)
        BY <2>3
      <3>2. p = P(p.kind, "self")
        BY <3>1, Fields DEF ApiPermissions
      <3> QED
        BY <3>1, <3>2, GrantsOfForms
    <2> QED
      BY <2>1, <2>2, <2>3, InExpand
  <1>2. ASSUME NEW p \in S, NEW g \in GrantsOf(p)
        PROVE  \E q \in expand(S, {}) : g \in GrantsOf(q)
    <2>1. CASE p.form = "many" /\ p.kind \in Spread
      <3>1. GrantsOf(p) = {p.kind} \X p.of
        BY <2>1 DEF GrantsOf
      <3>2. PICK x \in p.of : g = <<p.kind, x>>
        BY <3>1
      <3>3. One(p.kind, x) \in expand(S, {})
        BY <2>1, InExpand
      <3> QED
        BY <3>2, <3>3, GrantsOfForms
    <2>2. CASE ~ (p.form = "many" /\ p.kind \in Spread)
      BY <2>2, InExpand
    <2> QED
      BY <2>1, <2>2
  <1>3. ASSUME NEW g PROVE g \in Grants(expand(S, {})) <=> g \in Grants(S)
    <2>1. /\ g \in Grants(expand(S, {})) <=> \E q \in expand(S, {}) : g \in GrantsOf(q)
          /\ g \in Grants(S) <=> \E p \in S : g \in GrantsOf(p)
      BY InGrants, Zenon
    <2> QED
      BY <1>1, <1>2, <2>1, Zenon
  <1> QED
    BY <1>3, Zenon

LEMMA GrantsOfUnion ==
    ASSUME NEW S, NEW T
    PROVE  Grants(S \cup T) = Grants(S) \cup Grants(T)
  BY InGrants

-----------------------------------------------------------------------------
(* Types. *)

\* What contract returns are permissions, none of them stored twice.
LEMMA ContractTypes ==
    ASSUME NEW S \in ApiPermissions
    PROVE  /\ contract(S) \in ApiPermissions
           /\ \A p \in contract(S) : p.form = "one" =>
                 p.kind \notin Gathered /\ ~ (p.kind \in UserKind /\ p.of = {owner})
  <1> SUFFICES ASSUME NEW q \in contract(S)
               PROVE  /\ q \in ApiPermission
                      /\ q.form = "one" => ~ SetOne(q) /\ ~ OwnOne(q)
    BY DEF ApiPermissions, SetOne, OwnOne
  <1>1. CASE q \in S /\ ~ OwnOne(q) /\ ~ SetOne(q)
    BY <1>1 DEF ApiPermissions
  <1>2. CASE \E p \in S : OwnOne(p) /\ q = P(p.kind, "self")
    <2>1. PICK p \in S : OwnOne(p) /\ q = P(p.kind, "self")
      BY <1>2
    <2>2. q.form = "self"
      BY <2>1 DEF P
    <2>3. q \in ApiPermission
      BY <2>1, Made, PermissionsAssumption DEF OwnOne
    <2> QED
      BY <2>2, <2>3
  <1>3. CASE \E k \in Gathered : q = Many(k, Targets(S, k))
    <2>1. PICK k \in Gathered : q = Many(k, Targets(S, k))
      BY <1>3
    <2>2. Targets(S, k) \subseteq Target
      BY Fields DEF Targets, ApiPermissions
    <2>3. q.form = "many"
      BY <2>1 DEF Many
    <2>4. q \in ApiPermission
      BY <2>1, <2>2, Made, Kinds, PermissionsAssumption
    <2> QED
      BY <2>3, <2>4
  <1> QED
    BY <1>1, <1>2, <1>3, InContract

LEMMA ExpandTypes ==
    ASSUME NEW S \in ApiPermissions, NEW U \in ApiPermissions
    PROVE  expand(S, U) \in ApiPermissions
  <1> SUFFICES ASSUME NEW q \in expand(S, U)
               PROVE  q \in ApiPermission
    BY DEF ApiPermissions
  <1>1. CASE q \in S \/ q \in U
    BY <1>1 DEF ApiPermissions
  <1>2. CASE \E p \in S : /\ p.form = "many" /\ p.kind \in Spread
                         /\ \E x \in p.of : q = One(p.kind, x)
    <2>1. PICK p \in S : /\ p.form = "many" /\ p.kind \in Spread
                         /\ \E x \in p.of : q = One(p.kind, x)
      BY <1>2
    <2>2. p.of \subseteq Target
      BY Fields DEF ApiPermissions
    <2> QED
      BY <2>1, <2>2, Made, Kinds
  <1>3. CASE \E p \in S : p.form = "self" /\ p.kind \in UserKind /\ q = One(p.kind, owner)
    BY <1>3, Made, PermissionsAssumption
  <1> QED
    BY <1>1, <1>2, <1>3, InExpand

\* The permissions of a user are well-formed, and stored in the form that contract gives
\* them, whatever is assigned and however often.
THEOREM PermissionsTypes == Spec => []TypeOK
  <1>1. Init => TypeOK
    <2> SUFFICES ASSUME Init PROVE TypeOK
      OBVIOUS
    <2>1. PICK body \in Body : stored = contract(body) /\ given = body
      BY DEF Init
    <2>2. body \in ApiPermissions
      BY PermissionsAssumption
    <2>3. group \in [Group -> ApiPermissions] /\ status \in [Group -> {"none", "live", "deleted"}]
      BY DEF Init, ApiPermissions
    <2> QED
      BY <2>1, <2>2, <2>3, ContractTypes DEF Init, TypeOK
  <1>2. TypeOK /\ [Next]_vars => TypeOK'
    <2> SUFFICES ASSUME TypeOK, [Next]_vars PROVE TypeOK'
      OBVIOUS
    <2>0. \A body \in Body : body \in ApiPermissions
      BY PermissionsAssumption
    <2>1. ASSUME NEW body \in Body, update_api_user(body) PROVE TypeOK'
      BY <2>0, <2>1, ContractTypes DEF update_api_user, TypeOK
    <2>2. ASSUME NEW body \in Body, add_permissions_to_user(body) PROVE TypeOK'
      <3>1. own_permissions \in ApiPermissions
        BY ExpandTypes DEF own_permissions, TypeOK, ApiPermissions
      <3>2. own_permissions \cup body \in ApiPermissions /\ given \cup body \in ApiPermissions
        BY <2>0, <3>1 DEF ApiPermissions, TypeOK
      <3> QED
        BY <2>2, <3>2, ContractTypes DEF add_permissions_to_user, TypeOK
    <2>3. ASSUME NEW g \in Group, add_api_user_to_group(g) PROVE TypeOK'
      BY <2>3 DEF add_api_user_to_group, TypeOK
    <2>4. ASSUME NEW g \in Group, remove_api_user_from_group(g) PROVE TypeOK'
      BY <2>4 DEF remove_api_user_from_group, TypeOK
    <2>5. ASSUME NEW g \in Group, delete_group(g) PROVE TypeOK'
      BY <2>5 DEF delete_group, TypeOK
    <2>6. ASSUME NEW g \in Group, NEW body \in Body, create_group(g, body) PROVE TypeOK'
      BY <2>0, <2>6 DEF create_group, TypeOK
    <2>7. ASSUME NEW g \in Group, NEW body \in Body, update_group(g, body) PROVE TypeOK'
      BY <2>0, <2>7 DEF update_group, TypeOK
    <2>8. CASE UNCHANGED vars
      BY <2>8 DEF vars, TypeOK
    <2> QED
      BY <2>1, <2>2, <2>3, <2>4, <2>5, <2>6, <2>7, <2>8 DEF Next
  <1> QED
    BY <1>1, <1>2, PTL DEF Spec

-----------------------------------------------------------------------------
(* Storing. *)

\* What is stored for a user is what was assigned to it: nothing gets lost and nothing is
\* added when it is read, expanded, added to, contracted and stored again.
THEOREM StoredGiven == Spec => []StoredIsGiven
  <1>1. Init => StoredIsGiven
    <2> SUFFICES ASSUME Init PROVE StoredIsGiven
      OBVIOUS
    <2>1. PICK body \in Body : stored = contract(body) /\ given = body
      BY DEF Init
    <2>2. body \in ApiPermissions
      BY PermissionsAssumption
    <2> QED
      BY <2>1, <2>2, ContractKeepsGrants DEF StoredIsGiven
  <1>2. TypeOK /\ StoredIsGiven /\ [Next]_vars => StoredIsGiven'
    <2> SUFFICES ASSUME TypeOK, StoredIsGiven, [Next]_vars PROVE StoredIsGiven'
      OBVIOUS
    <2>0. \A body \in Body : body \in ApiPermissions
      BY PermissionsAssumption
    <2>1. ASSUME NEW body \in Body, update_api_user(body) PROVE StoredIsGiven'
      BY <2>0, <2>1, ContractKeepsGrants DEF update_api_user, StoredIsGiven
    <2>2. ASSUME NEW body \in Body, add_permissions_to_user(body) PROVE StoredIsGiven'
      <3>1. stored \in ApiPermissions /\ own_permissions \in ApiPermissions
        BY ExpandTypes DEF own_permissions, TypeOK, ApiPermissions
      <3>2. Grants(own_permissions) = Grants(given)
        BY <3>1, ExpandKeepsGrants DEF own_permissions, StoredIsGiven
      <3>3. own_permissions \cup body \in ApiPermissions
        BY <2>0, <3>1 DEF ApiPermissions
      <3>4. Grants(contract(own_permissions \cup body)) = Grants(own_permissions \cup body)
        BY <3>3, ContractKeepsGrants
      <3>5. Grants(own_permissions \cup body) = Grants(given \cup body)
        <4>1. Grants(own_permissions \cup body) = Grants(own_permissions) \cup Grants(body)
          BY GrantsOfUnion, Zenon
        <4>2. Grants(given \cup body) = Grants(given) \cup Grants(body)
          BY GrantsOfUnion, Zenon
        <4> QED
          BY <3>2, <4>1, <4>2, Zenon
      <3> QED
        BY <2>2, <3>4, <3>5 DEF add_permissions_to_user, StoredIsGiven
    <2>3. CASE UNCHANGED <<stored, given>>
      BY <2>3 DEF StoredIsGiven
    <2> QED
      BY <2>1, <2>2, <2>3 DEF Next, vars, add_api_user_to_group, remove_api_user_from_group,
                              delete_group, create_group, update_group
  <1> QED
    BY <1>1, <1>2, PermissionsTypes, PTL DEF Spec

-----------------------------------------------------------------------------
(* Scopes. *)

LEMMA InEntry ==
    ASSUME NEW scope, NEW kinds, NEW forms, NEW e
    PROVE  e \in Entry(scope, kinds, forms)
             <=> \E k \in kinds, f \in forms : e = <<scope, P(k, f)>>
  BY DEF Entry

\* What a scope stands for is in that scope.
LEMMA EntryScope ==
    ASSUME NEW e \in Inserted
    PROVE  e[1] = as_scope(e[2])
  <1>1. ASSUME NEW scope, NEW forms, NEW k, NEW l, Scope[k] = scope, Scope[l] = scope,
               e \in Entry(scope, {k, l}, forms)
        PROVE  e[1] = as_scope(e[2])
    <2>1. PICK m \in {k, l}, f \in forms : e = <<scope, P(m, f)>>
      BY <1>1, InEntry
    <2> QED
      BY <1>1, <2>1 DEF as_scope, P
  <1>2. /\ Scope["GetApiUser"] = "user:info:r" /\ Scope["UpdateApiUser"] = "user:info:w"
        /\ Scope["CreateUserApiProviderLinkToken"] = "user:provider:w"
        /\ Scope["GetApiUserToken"] = "user:token:r"
        /\ Scope["CreateApiUserToken"] = "user:token:w"
        /\ Scope["DeleteApiUserToken"] = "user:token:w"
        /\ Scope["GetGroups"] = "group:r" /\ Scope["CreateGroup"] = "group:w"
        /\ Scope["ManageGroup"] = "group:w"
        /\ Scope["ManageGroupMembership"] = "group:membership:w"
        /\ Scope["ListMappers"] = "mapper:r" /\ Scope["CreateMapper"] = "mapper:w"
        /\ Scope["ManageMapper"] = "mapper:w" /\ Scope["GetRfd"] = "rfd:content:r"
        /\ Scope["CreateRfd"] = "rfd:content:w" /\ Scope["UpdateRfd"] = "rfd:content:w"
        /\ Scope["ManageRfdVisibility"] = "rfd:visibility:w"
        /\ Scope["GetDiscussion"] = "rfd:discussion:r" /\ Scope["SearchRfds"] = "search"
        /\ Scope["GetOAuthClient"] = "oauth:client:r"
        /\ Scope["CreateOAuthClient"] = "oauth:client:w"
        /\ Scope["UpdateOAuthClient"] = "oauth:client:w"
        /\ Scope["DeleteOAuthClient"] = "oauth:client:w"
    BY DEF Scope
  <1>3. \A k : {k} = {k, k}
    OBVIOUS
  <1>4. \A scope, forms, k : Scope[k] = scope /\ e \in Entry(scope, {k}, forms)
                              => e[1] = as_scope(e[2])
    BY <1>1, <1>3
  <1>5. \/ e \in Entry("user:info:r", {"GetApiUser"}, {"self", "all"})
        \/ e \in Entry("user:info:w", {"UpdateApiUser"}, {"self", "assigned", "all"})
        \/ e \in Entry("user:provider:w", {"CreateUserApiProviderLinkToken"}, {"plain"})
        \/ e \in Entry("user:token:r", {"GetApiUserToken"}, {"self", "assigned", "all"})
        \/ e \in Entry("user:token:w", {"CreateApiUserToken", "DeleteApiUserToken"}, {"self", "assigned", "all"})
        \/ e \in Entry("group:r", {"GetGroups"}, {"joined", "all"})
        \/ e \in Entry("group:w", {"CreateGroup"}, {"plain"})
        \/ e \in Entry("group:w", {"ManageGroup"}, {"assigned", "all"})
        \/ e \in Entry("group:membership:w", {"ManageGroupMembership"}, {"assigned", "all"})
        \/ e \in Entry("mapper:r", {"ListMappers"}, {"plain"})
        \/ e \in Entry("mapper:w", {"CreateMapper"}, {"plain"})
        \/ e \in Entry("mapper:w", {"ManageMapper"}, {"assigned", "all"})
        \/ e \in Entry("rfd:content:r", {"GetRfd"}, {"assigned", "all"})
        \/ e \in Entry("rfd:content:w", {"CreateRfd"}, {"plain"})
        \/ e \in Entry("rfd:content:w", {"UpdateRfd"}, {"assigned", "all"})
        \/ e \in Entry("rfd:visibility:w", {"ManageRfdVisibility"}, {"assigned", "all"})
        \/ e \in Entry("rfd:discussion:r", {"GetDiscussion"}, {"assigned", "all"})
        \/ e \in Entry("search", {"SearchRfds"}, {"plain"})
        \/ e \in Entry("oauth:client:r", {"GetOAuthClient"}, {"assigned", "all"})
        \/ e \in Entry("oauth:client:w", {"CreateOAuthClient"}, {"plain"})
        \/ e \in Entry("oauth:client:w", {"UpdateOAuthClient", "DeleteOAuthClient"}, {"assigned", "all"})
    BY Zenon DEF Inserted
  <1>6. CASE e \in Entry("user:info:r", {"GetApiUser"}, {"self", "all"})
    BY <1>6, <1>2, <1>4, Zenon
  <1>7. CASE e \in Entry("user:info:w", {"UpdateApiUser"}, {"self", "assigned", "all"})
    BY <1>7, <1>2, <1>4, Zenon
  <1>8. CASE e \in Entry("user:provider:w", {"CreateUserApiProviderLinkToken"}, {"plain"})
    BY <1>8, <1>2, <1>4, Zenon
  <1>9. CASE e \in Entry("user:token:r", {"GetApiUserToken"}, {"self", "assigned", "all"})
    BY <1>9, <1>2, <1>4, Zenon
  <1>10. CASE e \in Entry("user:token:w", {"CreateApiUserToken", "DeleteApiUserToken"}, {"self", "assigned", "all"})
    BY <1>10, <1>2, <1>1
  <1>11. CASE e \in Entry("group:r", {"GetGroups"}, {"joined", "all"})
    BY <1>11, <1>2, <1>4, Zenon
  <1>12. CASE e \in Entry("group:w", {"CreateGroup"}, {"plain"})
    BY <1>12, <1>2, <1>4, Zenon
  <1>13. CASE e \in Entry("group:w", {"ManageGroup"}, {"assigned", "all"})
    BY <1>13, <1>2, <1>4, Zenon
  <1>14. CASE e \in Entry("group:membership:w", {"ManageGroupMembership"}, {"assigned", "all"})
    BY <1>14, <1>2, <1>4, Zenon
  <1>15. CASE e \in Entry("mapper:r", {"ListMappers"}, {"plain"})
    BY <1>15, <1>2, <1>4, Zenon
  <1>16. CASE e \in Entry("mapper:w", {"CreateMapper"}, {"plain"})
    BY <1>16, <1>2, <1>4, Zenon
  <1>17. CASE e \in Entry("mapper:w", {"ManageMapper"}, {"assigned", "all"})
    BY <1>17, <1>2, <1>4, Zenon
  <1>18. CASE e \in Entry("rfd:content:r", {"GetRfd"}, {"assigned", "all"})
    BY <1>18, <1>2, <1>4, Zenon
  <1>19. CASE e \in Entry("rfd:content:w", {"CreateRfd"}, {"plain"})
    BY <1>19, <1>2, <1>4, Zenon
  <1>20. CASE e \in Entry("rfd:content:w", {"UpdateRfd"}, {"assigned", "all"})
    BY <1>20, <1>2, <1>4, Zenon
  <1>21. CASE e \in Entry("rfd:visibility:w", {"ManageRfdVisibility"}, {"assigned", "all"})
    BY <1>21, <1>2, <1>4, Zenon
  <1>22. CASE e \in Entry("rfd:discussion:r", {"GetDiscussion"}, {"assigned", "all"})
    BY <1>22, <1>2, <1>4, Zenon
  <1>23. CASE e \in Entry("search", {"SearchRfds"}, {"plain"})
    BY <1>23, <1>2, <1>4, Zenon
  <1>24. CASE e \in Entry("oauth:client:r", {"GetOAuthClient"}, {"assigned", "all"})
    BY <1>24, <1>2, <1>4, Zenon
  <1>25. CASE e \in Entry("oauth:client:w", {"CreateOAuthClient"}, {"plain"})
    BY <1>25, <1>2, <1>4, Zenon
  <1>26. CASE e \in Entry("oauth:client:w", {"UpdateOAuthClient", "DeleteOAuthClient"}, {"assigned", "all"})
    BY <1>26, <1>2, <1>1
  <1> QED
    BY <1>5, <1>6, <1>7, <1>8, <1>9, <1>10, <1>11, <1>12, <1>13, <1>14, <1>15, <1>16, <1>17, <1>18, <1>19, <1>20, <1>21, <1>22, <1>23, <1>24, <1>25, <1>26, Zenon

LEMMA InFromScope ==
    ASSUME NEW scope, NEW p
    PROVE  p \in from_scope(scope) <=> \E e \in Inserted : e[1] \in scope /\ p = e[2]
  BY DEF from_scope

\* Whatever expand makes has the kind of something it was given.
LEMMA ExpandKeepsKind ==
    ASSUME NEW S, NEW U, NEW q \in expand(S, U)
    PROVE  \E p \in S : p.kind = q.kind
  <1>1. ASSUME NEW p \in S, NEW x, q = One(p.kind, x) PROVE p.kind = q.kind
    BY <1>1 DEF One
  <1> QED
    BY <1>1, InExpand

\* No token and no key lets its holder do what the user may not do, and a token nothing
\* outside its scopes.
THEOREM CallerBounded == Spec => []CallerIsBounded
  <1>1. ASSUME NEW scope, NEW p \in expand(from_scope(scope), get_user_permissions)
        PROVE  as_scope(p) \in scope
    <2>1. PICK q \in from_scope(scope) : q.kind = p.kind
      BY ExpandKeepsKind
    <2>2. PICK e \in Inserted : e[1] \in scope /\ q = e[2]
      BY InFromScope
    <2>3. e[1] = as_scope(e[2])
      BY EntryScope
    <2> QED
      BY <2>1, <2>2, <2>3 DEF as_scope
  <1>2. CallerIsBounded
    BY <1>1 DEF CallerIsBounded, Restricted
  <1> QED
    BY <1>2, PTL

\* The scope of a kind that can be for all, or for assigned, targets stands for these, and
\* that of a kind for users stands for the user itself.
LEMMA ScopeStands ==
    ASSUME NEW k
    PROVE  /\ k \in UserKind \cup SetKind \cup {"GetGroups"} =>
                <<Scope[k], P(k, "all")>> \in Inserted
           /\ k \in UserKind => <<Scope[k], P(k, "self")>> \in Inserted
           /\ k \in OfAssigned => <<Scope[k], P(k, "assigned")>> \in Inserted
  <1>1. \A scope, kinds, forms : \A f \in forms :
          Scope[k] = scope /\ k \in kinds => <<Scope[k], P(k, f)>> \in Entry(scope, kinds, forms)
    BY InEntry, Zenon
  <1>2. CASE k = "GetApiUser"
    <2>1. Scope[k] = "user:info:r" /\ k \in {"GetApiUser"}
      BY <1>2 DEF Scope
    <2>2. Entry("user:info:r", {"GetApiUser"}, {"self", "all"}) \subseteq Inserted
      BY Zenon DEF Inserted
    <2>3. <<Scope[k], P(k, "all")>> \in Inserted /\ <<Scope[k], P(k, "self")>> \in Inserted
      BY <2>1, <2>2, <1>1, Zenon
    <2> QED
      BY <1>2, <2>3 DEF UserKind, OfAssigned
  <1>3. CASE k = "CreateApiUserToken"
    <2>1. Scope[k] = "user:token:w" /\ k \in {"CreateApiUserToken", "DeleteApiUserToken"}
      BY <1>3 DEF Scope
    <2>2. Entry("user:token:w", {"CreateApiUserToken", "DeleteApiUserToken"}, {"self", "assigned", "all"}) \subseteq Inserted
      BY Zenon DEF Inserted
    <2>3. <<Scope[k], P(k, "all")>> \in Inserted /\ <<Scope[k], P(k, "self")>> \in Inserted
      BY <2>1, <2>2, <1>1, Zenon
    <2> QED
      BY <1>3, <2>3 DEF UserKind, OfAssigned
  <1>4. CASE k = "GetApiUserToken"
    <2>1. Scope[k] = "user:token:r" /\ k \in {"GetApiUserToken"}
      BY <1>4 DEF Scope
    <2>2. Entry("user:token:r", {"GetApiUserToken"}, {"self", "assigned", "all"}) \subseteq Inserted
      BY Zenon DEF Inserted
    <2>3. <<Scope[k], P(k, "all")>> \in Inserted /\ <<Scope[k], P(k, "self")>> \in Inserted
      BY <2>1, <2>2, <1>1, Zenon
    <2> QED
      BY <1>4, <2>3 DEF UserKind, OfAssigned
  <1>5. CASE k = "DeleteApiUserToken"
    <2>1. Scope[k] = "user:token:w" /\ k \in {"CreateApiUserToken", "DeleteApiUserToken"}
      BY <1>5 DEF Scope
    <2>2. Entry("user:token:w", {"CreateApiUserToken", "DeleteApiUserToken"}, {"self", "assigned", "all"}) \subseteq Inserted
      BY Zenon DEF Inserted
    <2>3. <<Scope[k], P(k, "all")>> \in Inserted /\ <<Scope[k], P(k, "self")>> \in Inserted
      BY <2>1, <2>2, <1>1, Zenon
    <2> QED
      BY <1>5, <2>3 DEF UserKind, OfAssigned
  <1>6. CASE k = "UpdateApiUser"
    <2>1. Scope[k] = "user:info:w" /\ k \in {"UpdateApiUser"}
      BY <1>6 DEF Scope
    <2>2. Entry("user:info:w", {"UpdateApiUser"}, {"self", "assigned", "all"}) \subseteq Inserted
      BY Zenon DEF Inserted
    <2>3. <<Scope[k], P(k, "all")>> \in Inserted /\ <<Scope[k], P(k, "self")>> \in Inserted
      BY <2>1, <2>2, <1>1, Zenon
    <2> QED
      BY <1>6, <2>3 DEF UserKind, OfAssigned
  <1>7. CASE k = "ManageGroupMembership"
    <2>1. Scope[k] = "group:membership:w" /\ k \in {"ManageGroupMembership"}
      BY <1>7 DEF Scope
    <2>2. Entry("group:membership:w", {"ManageGroupMembership"}, {"assigned", "all"}) \subseteq Inserted
      BY Zenon DEF Inserted
    <2>3. <<Scope[k], P(k, "all")>> \in Inserted /\ <<Scope[k], P(k, "assigned")>> \in Inserted
      BY <2>1, <2>2, <1>1, Zenon
    <2> QED
      BY <1>7, <2>3 DEF UserKind, OfAssigned
  <1>8. CASE k = "ManageGroup"
    <2>1. Scope[k] = "group:w" /\ k \in {"ManageGroup"}
      BY <1>8 DEF Scope
    <2>2. Entry("group:w", {"ManageGroup"}, {"assigned", "all"}) \subseteq Inserted
      BY Zenon DEF Inserted
    <2>3. <<Scope[k], P(k, "all")>> \in Inserted /\ <<Scope[k], P(k, "assigned")>> \in Inserted
      BY <2>1, <2>2, <1>1, Zenon
    <2> QED
      BY <1>8, <2>3 DEF UserKind, OfAssigned
  <1>9. CASE k = "ManageMapper"
    <2>1. Scope[k] = "mapper:w" /\ k \in {"ManageMapper"}
      BY <1>9 DEF Scope
    <2>2. Entry("mapper:w", {"ManageMapper"}, {"assigned", "all"}) \subseteq Inserted
      BY Zenon DEF Inserted
    <2>3. <<Scope[k], P(k, "all")>> \in Inserted
      BY <2>1, <2>2, <1>1, Zenon
    <2> QED
      BY <1>9, <2>3 DEF UserKind, OfAssigned
  <1>10. CASE k = "GetRfd"
    <2>1. Scope[k] = "rfd:content:r" /\ k \in {"GetRfd"}
      BY <1>10 DEF Scope
    <2>2. Entry("rfd:content:r", {"GetRfd"}, {"assigned", "all"}) \subseteq Inserted
      BY Zenon DEF Inserted
    <2>3. <<Scope[k], P(k, "all")>> \in Inserted /\ <<Scope[k], P(k, "assigned")>> \in Inserted
      BY <2>1, <2>2, <1>1, Zenon
    <2> QED
      BY <1>10, <2>3 DEF UserKind, OfAssigned
  <1>11. CASE k = "UpdateRfd"
    <2>1. Scope[k] = "rfd:content:w" /\ k \in {"UpdateRfd"}
      BY <1>11 DEF Scope
    <2>2. Entry("rfd:content:w", {"UpdateRfd"}, {"assigned", "all"}) \subseteq Inserted
      BY Zenon DEF Inserted
    <2>3. <<Scope[k], P(k, "all")>> \in Inserted
      BY <2>1, <2>2, <1>1, Zenon
    <2> QED
      BY <1>11, <2>3 DEF UserKind, OfAssigned
  <1>12. CASE k = "ManageRfdVisibility"
    <2>1. Scope[k] = "rfd:visibility:w" /\ k \in {"ManageRfdVisibility"}
      BY <1>12 DEF Scope
    <2>2. Entry("rfd:visibility:w", {"ManageRfdVisibility"}, {"assigned", "all"}) \subseteq Inserted
      BY Zenon DEF Inserted
    <2>3. <<Scope[k], P(k, "all")>> \in Inserted
      BY <2>1, <2>2, <1>1, Zenon
    <2> QED
      BY <1>12, <2>3 DEF UserKind, OfAssigned
  <1>13. CASE k = "GetDiscussion"
    <2>1. Scope[k] = "rfd:discussion:r" /\ k \in {"GetDiscussion"}
      BY <1>13 DEF Scope
    <2>2. Entry("rfd:discussion:r", {"GetDiscussion"}, {"assigned", "all"}) \subseteq Inserted
      BY Zenon DEF Inserted
    <2>3. <<Scope[k], P(k, "all")>> \in Inserted
      BY <2>1, <2>2, <1>1, Zenon
    <2> QED
      BY <1>13, <2>3 DEF UserKind, OfAssigned
  <1>14. CASE k = "GetOAuthClient"
    <2>1. Scope[k] = "oauth:client:r" /\ k \in {"GetOAuthClient"}
      BY <1>14 DEF Scope
    <2>2. Entry("oauth:client:r", {"GetOAuthClient"}, {"assigned", "all"}) \subseteq Inserted
      BY Zenon DEF Inserted
    <2>3. <<Scope[k], P(k, "all")>> \in Inserted /\ <<Scope[k], P(k, "assigned")>> \in Inserted
      BY <2>1, <2>2, <1>1, Zenon
    <2> QED
      BY <1>14, <2>3 DEF UserKind, OfAssigned
  <1>15. CASE k = "UpdateOAuthClient"
    <2>1. Scope[k] = "oauth:client:w" /\ k \in {"UpdateOAuthClient", "DeleteOAuthClient"}
      BY <1>15 DEF Scope
    <2>2. Entry("oauth:client:w", {"UpdateOAuthClient", "DeleteOAuthClient"}, {"assigned", "all"}) \subseteq Inserted
      BY Zenon DEF Inserted
    <2>3. <<Scope[k], P(k, "all")>> \in Inserted /\ <<Scope[k], P(k, "assigned")>> \in Inserted
      BY <2>1, <2>2, <1>1, Zenon
    <2> QED
      BY <1>15, <2>3 DEF UserKind, OfAssigned
  <1>16. CASE k = "DeleteOAuthClient"
    <2>1. Scope[k] = "oauth:client:w" /\ k \in {"UpdateOAuthClient", "DeleteOAuthClient"}
      BY <1>16 DEF Scope
    <2>2. Entry("oauth:client:w", {"UpdateOAuthClient", "DeleteOAuthClient"}, {"assigned", "all"}) \subseteq Inserted
      BY Zenon DEF Inserted
    <2>3. <<Scope[k], P(k, "all")>> \in Inserted /\ <<Scope[k], P(k, "assigned")>> \in Inserted
      BY <2>1, <2>2, <1>1, Zenon
    <2> QED
      BY <1>16, <2>3 DEF UserKind, OfAssigned
  <1>17. CASE k = "GetGroups"
    <2>1. Scope[k] = "group:r" /\ k \in {"GetGroups"}
      BY <1>17 DEF Scope
    <2>2. Entry("group:r", {"GetGroups"}, {"joined", "all"}) \subseteq Inserted
      BY Zenon DEF Inserted
    <2>3. <<Scope[k], P(k, "all")>> \in Inserted
      BY <2>1, <2>2, <1>1, Zenon
    <2> QED
      BY <1>17, <2>3 DEF UserKind, OfAssigned
  <1> QED
    BY <1>2, <1>3, <1>4, <1>5, <1>6, <1>7, <1>8, <1>9, <1>10, <1>11, <1>12, <1>13, <1>14, <1>15, <1>16, <1>17 DEF UserKind, SetKind, OfAssigned

LEMMA UserTypes ==
    ASSUME TypeOK
    PROVE  /\ own_permissions \in ApiPermissions
           /\ get_user_permissions \in ApiPermissions
           /\ \A g \in groups : group[g] \in ApiPermissions
  <1>1. own_permissions \in ApiPermissions
    BY ExpandTypes DEF own_permissions, TypeOK, ApiPermissions
  <1>2. \A g \in groups : group[g] \in ApiPermissions
    BY DEF TypeOK
  <1>3. \A g \in groups : expand(group[g], own_permissions) \in ApiPermissions
    BY <1>1, <1>2, ExpandTypes
  <1>4. get_user_group_permissions(own_permissions) \in ApiPermissions
    BY <1>3 DEF get_user_group_permissions, ApiPermissions
  <1> QED
    BY <1>1, <1>2, <1>4 DEF get_user_permissions, ApiPermissions

\* A token with a scope leaves its user what is for all targets, what is for the user, and
\* every single target of the kinds that Assigned is expanded for.
THEOREM ScopeKeeps == Spec => []ScopeKeepsAssigned
  <1>1. TypeOK => ScopeKeepsAssigned
    <2> SUFFICES ASSUME TypeOK, NEW scope \in TokenScope, NEW p \in get_user_permissions,
                        as_scope(p) \in scope,
                        \/ p.form \in {"all", "self"}
                        \/ p.form = "one" /\ p.kind \in OfAssigned
                 PROVE  p \in expand(from_scope(scope), get_user_permissions)
      BY DEF ScopeKeepsAssigned, OfAssigned, Restricted
    <2>1. p \in ApiPermission
      BY UserTypes DEF ApiPermissions
    <2>2. \A f : <<Scope[p.kind], P(p.kind, f)>> \in Inserted => P(p.kind, f) \in from_scope(scope)
      BY InFromScope DEF as_scope
    <2>3. CASE p.form \in {"all", "self"}
      <3>1. p = P(p.kind, p.form)
        BY <2>1, <2>3, Fields
      <3>2. <<Scope[p.kind], P(p.kind, p.form)>> \in Inserted
        BY <2>1, <2>3, Fields, ScopeStands
      <3>3. p \in from_scope(scope)
        BY <2>2, <3>1, <3>2
      <3> QED
        BY <2>3, <3>3, InExpand
    <2>4. CASE p.form = "one" /\ p.kind \in OfAssigned
      <3> DEFINE a == P(p.kind, "assigned")
      <3>1. a \in from_scope(scope)
        BY <2>2, <2>4, ScopeStands
      <3>2. a.form = "assigned" /\ a.kind = p.kind
        BY DEF P
      <3> HIDE DEF a
      <3> QED
        BY <2>4, <3>1, <3>2, InExpand
    <2> QED
      BY <2>3, <2>4
  <1> QED
    BY <1>1, PermissionsTypes, PTL

-----------------------------------------------------------------------------
(* What a caller can use. *)

LEMMA InUsable ==
    ASSUME NEW S, NEW g
    PROVE  g \in Usable(S) <=> \E p \in S : p.form \notin {"many", "self"} /\ g \in GrantsOf(p)
  <1> DEFINE T == {q \in S : q.form \notin {"many", "self"}}
  <1>1. \A p : p \in T <=> p \in S /\ p.form \notin {"many", "self"}
    OBVIOUS
  <1> HIDE DEF T
  <1>2. g \in UNION {GrantsOf(p) : p \in T} <=> \E p \in T : g \in GrantsOf(p)
    BY Zenon
  <1>3. g \in UNION {GrantsOf(p) : p \in T} <=> g \in Usable(S)
    BY Zenon DEF Usable, T
  <1> QED
    BY <1>1, <1>2, <1>3, Zenon

LEMMA GrantsHaveKind ==
    ASSUME NEW p, NEW g \in GrantsOf(p)
    PROVE  g[1] = p.kind
  BY DEF GrantsOf

\* The kinds whose sets are taken apart.
Kept == Kind \ {"UpdateRfd", "ManageRfdVisibility", "ManageMapper"}

\* After expand, what is granted can be used, and nothing else that could not be used before.
LEMMA ExpandMakesUsable ==
    ASSUME NEW S \in ApiPermissions, NEW U, NEW g, g[1] \in Kept
    PROVE  /\ g \in Grants(S) => g \in Usable(expand(S, U))
           /\ g \in Usable(expand(S, U)) => g \in Grants(S) \/ g \in Usable(U)
  <1>1. ASSUME NEW p \in S, g \in GrantsOf(p)
        PROVE  \E q \in expand(S, U) : q.form \notin {"many", "self"} /\ g \in GrantsOf(q)
    <2>0. p \in ApiPermission /\ p.kind \in Kept
      BY <1>1, GrantsHaveKind DEF ApiPermissions
    <2>1. CASE p.form = "many"
      <3>1. p.kind \in Spread
        BY <2>0, <2>1, Fields, Kinds DEF Kept
      <3>2. GrantsOf(p) = {p.kind} \X p.of
        BY <2>1 DEF GrantsOf
      <3>3. PICK x \in p.of : g = <<p.kind, x>>
        BY <1>1, <3>2
      <3>4. One(p.kind, x) \in expand(S, U)
        BY <2>1, <3>1, InExpand
      <3>5. One(p.kind, x).form = "one" /\ g \in GrantsOf(One(p.kind, x))
        BY <3>3, GrantsOfForms DEF One
      <3> QED
        BY <3>4, <3>5
    <2>2. CASE p.form = "self"
      <3>1. p.kind \in UserKind /\ p = P(p.kind, "self")
        BY <2>0, <2>2, Fields
      <3>2. One(p.kind, owner) \in expand(S, U)
        BY <2>2, <3>1, InExpand
      <3>3. GrantsOf(One(p.kind, owner)) = {<<p.kind, owner>>} /\ GrantsOf(p) = {<<p.kind, owner>>}
        BY <3>1, GrantsOfForms, Zenon
      <3>4. One(p.kind, owner).form = "one"
        BY DEF One
      <3> QED
        BY <1>1, <3>2, <3>3, <3>4
    <2>3. CASE p.form \notin {"many", "self"}
      BY <1>1, <2>3, InExpand
    <2> QED
      BY <2>1, <2>2, <2>3
  <1>2. ASSUME NEW q \in expand(S, U), q.form \notin {"many", "self"}, g \in GrantsOf(q)
        PROVE  (\E p \in S : g \in GrantsOf(p)) \/ g \in Usable(U)
    <2>1. CASE q \in S
      BY <1>2, <2>1
    <2>2. CASE \E p \in S : p.form = "many" /\ \E x \in p.of : q = One(p.kind, x)
      <3>1. PICK p \in S : p.form = "many" /\ \E x \in p.of : q = One(p.kind, x)
        BY <2>2
      <3>2. PICK x \in p.of : q = One(p.kind, x)
        BY <3>1
      <3>3. GrantsOf(q) = {<<p.kind, x>>}
        BY <3>2, GrantsOfForms, Zenon
      <3>4. GrantsOf(p) = {p.kind} \X p.of
        BY <3>1 DEF GrantsOf
      <3> QED
        BY <1>2, <3>3, <3>4
    <2>3. CASE \E p \in S : p.form = "self" /\ q = One(p.kind, owner)
      <3>1. PICK p \in S : p.form = "self" /\ q = One(p.kind, owner)
        BY <2>3
      <3>2. p = P(p.kind, "self")
        BY <3>1, Fields DEF ApiPermissions
      <3>3. GrantsOf(q) = {<<p.kind, owner>>} /\ GrantsOf(p) = {<<p.kind, owner>>}
        BY <3>1, <3>2, GrantsOfForms, Zenon
      <3> QED
        BY <1>2, <3>3
    <2>4. CASE q \in U
      BY <1>2, <2>4, InUsable
    <2> QED
      BY <2>1, <2>2, <2>3, <2>4, InExpand
  <1>3. g \in Usable(expand(S, U)) <=>
          \E q \in expand(S, U) : q.form \notin {"many", "self"} /\ g \in GrantsOf(q)
    BY InUsable, Zenon
  <1>4. g \in Grants(S) <=> \E p \in S : g \in GrantsOf(p)
    BY InGrants, Zenon
  <1> QED
    BY <1>1, <1>2, <1>3, <1>4, Zenon

\* Except for single targets of three kinds, a caller can use exactly what its user and the
\* groups of the user were given.
THEOREM OnlySetsLost == Spec => []OnlySetsAreLost
  <1>1. ASSUME TypeOK, StoredIsGiven, NEW g, g[1] \in Kept
        PROVE  g \in Usable(get_user_permissions) <=> g \in Combined
    <2> DEFINE live == {h \in groups : status[h] = "live"}
    <2>1. g \in Usable(own_permissions) <=> g \in Grants(given)
      <3>1. stored \in ApiPermissions
        BY <1>1 DEF TypeOK
      <3>2. g \notin Usable({})
        BY InUsable
      <3> QED
        BY <1>1, <3>1, <3>2, ExpandMakesUsable DEF own_permissions, StoredIsGiven
    <2>2. ASSUME NEW h \in live
          PROVE  /\ g \in Grants(group[h]) => g \in Usable(expand(group[h], own_permissions))
                 /\ g \in Usable(expand(group[h], own_permissions))
                      => g \in Grants(group[h]) \/ g \in Usable(own_permissions)
      BY <1>1, UserTypes, ExpandMakesUsable
    <2>3. g \in Combined <=> g \in Grants(given) \/ \E h \in live : g \in Grants(group[h])
      <3> HIDE DEF live
      <3>1. Combined = Grants(given) \cup UNION {Grants(group[h]) : h \in live}
        BY Zenon DEF Combined, live
      <3> QED
        BY <3>1, Zenon
    <2>4. \A q : q \in get_user_permissions <=>
                  q \in own_permissions \/ \E h \in live : q \in expand(group[h], own_permissions)
      <3> HIDE DEF live
      <3>1. get_user_permissions
              = own_permissions \cup UNION {expand(group[h], own_permissions) : h \in live}
        BY Zenon DEF get_user_permissions, get_user_group_permissions, live
      <3> QED
        BY <3>1, Zenon
    <2> HIDE DEF live
    <2>5. g \in Usable(get_user_permissions) <=>
            \/ g \in Usable(own_permissions)
            \/ \E h \in live : g \in Usable(expand(group[h], own_permissions))
      <3>1. \A S : g \in Usable(S) <=>
                    \E p \in S : p.form \notin {"many", "self"} /\ g \in GrantsOf(p)
        BY InUsable, Zenon
      <3> QED
        BY <2>4, <3>1, Zenon
    <2> QED
      BY <2>1, <2>2, <2>3, <2>5, Zenon
  <1>2. TypeOK /\ StoredIsGiven => OnlySetsAreLost
    BY <1>1 DEF OnlySetsAreLost, Kept
  <1> QED
    BY <1>2, PermissionsTypes, StoredGiven, PTL

=============================================================================
