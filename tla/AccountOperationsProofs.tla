------------------------ MODULE AccountOperationsProofs ------------------------
(***************************************************************************)
(* Account implements AccountOperations, for any identities, calls,        *)
(* mappers, rules and administrators, and however calls overlap.           *)
(***************************************************************************)
EXTENDS AccountProofs

-----------------------------------------------------------------------------
(* The invariant. *)

\* While a login goes through the mappers it has in hand part of what they may give.
GiftInv ==
    \A l \in Login :
        login[l].pc \in Looping =>
            login[l].row \in Operations!Gifts(login[l].identity)

\* A call that has not begun is nothing but idle.
NotBegun ==
    /\ \A l \in Login : login[l].pc = "idle" => login[l] = Idle
    /\ \A e \in Edit : edit[e].pc = "idle" => edit[e] = Idle

HandInv == GiftInv /\ NotBegun

-----------------------------------------------------------------------------
(* Calls as the abstract operations know them. *)

LoginCalls == [l \in Login |-> CallOfLogin(login[l])]
EditCalls == [e \in Edit |-> CallOfEdit(edit[e])]

Called(at, x, user, copy) ==
    [at |-> at, identity |-> x.identity, found |-> x.found, user |-> user, copy |-> copy]

LEMMA LoginView ==
    ASSUME NEW x \in LoginType, x.pc \in LoginPC \ {"idle"}
    PROVE  /\ x.pc \in Looping => CallOfLogin(x) = Called("called", x, x.user, NoRow)
           /\ x.pc = "store" => CallOfLogin(x) = Called("read", x, x.user, x.row)
           /\ x.pc = "link" => CallOfLogin(x) = Called("created", x, x.user, NoRow)
           /\ x.pc \in {"done", "failed"} =>
                 CallOfLogin(x) = Called(x.pc, x, x.user, NoRow)
<1>1. x # Idle
    BY DEF Idle
<1>2. CASE x.pc \in Looping
  <2>1. x.pc \notin {"done", "failed"} /\ x.pc # "link" /\ x.pc # "store"
      BY <1>2, Zenon DEF Looping
  <2> QED
      BY <1>1, <1>2, <2>1, Zenon DEF CallOfLogin, Called
<1>3. CASE x.pc = "store"
  <2>1. x.pc \notin {"done", "failed"} /\ x.pc # "link" /\ x.pc \notin Looping
      BY <1>3, Zenon DEF Looping
  <2> QED
      BY <1>1, <1>3, <2>1, Zenon DEF CallOfLogin, Called
<1>4. CASE x.pc = "link"
  <2>1. x.pc \notin {"done", "failed"} /\ x.pc # "store" /\ x.pc \notin Looping
      BY <1>4, Zenon DEF Looping
  <2> QED
      BY <1>1, <1>4, <2>1, Zenon DEF CallOfLogin, Called
<1>5. CASE x.pc \in {"done", "failed"}
  <2>1. x.pc # "link" /\ x.pc # "store" /\ x.pc \notin Looping
      BY <1>5, Zenon DEF Looping
  <2> QED
      BY <1>1, <1>5, <2>1, Zenon DEF CallOfLogin, Called
<1> QED
    BY <1>2, <1>3, <1>4, <1>5, Zenon

\* Fields of a call change as the abstract operations change them.
FieldsMove(c, at, x, user, copy, at2, user2, copy2) ==
    /\ c.at = at /\ c.identity = x.identity /\ c.found = x.found
    /\ c.user = user /\ c.copy = copy
    /\ [c EXCEPT !.at = at2] = Called(at2, x, user, copy)
    /\ [c EXCEPT !.at = at2, !.user = user2] = Called(at2, x, user2, copy)
    /\ [c EXCEPT !.at = at2, !.copy = copy2] = Called(at2, x, user, copy2)
    /\ [c EXCEPT !.at = at2, !.user = user2, !.copy = copy2]
          = Called(at2, x, user2, copy2)

LEMMA CallFields ==
    ASSUME NEW at, NEW x, NEW user, NEW copy, NEW at2, NEW user2, NEW copy2, NEW c,
           c = Called(at, x, user, copy)
    PROVE  FieldsMove(c, at, x, user, copy, at2, user2, copy2)
<1> DEFINE i == x.identity
           f == x.found
           r(a, u, w) == [at |-> a, identity |-> i, found |-> f, user |-> u, copy |-> w]
<1>1. \A a, u, w : Called(a, x, u, w) = r(a, u, w)
    BY Zenon DEF Called
<1>2. c = [at |-> at, identity |-> i, found |-> f, user |-> user, copy |-> copy]
    BY <1>1
<1> HIDE DEF i, f
<1>3. c.at = at /\ c.identity = i /\ c.found = f /\ c.user = user /\ c.copy = copy
    BY <1>2, SMT
<1>4. [c EXCEPT !.at = at2] = r(at2, user, copy)
    BY <1>2, SMT
<1>5. [r(at2, user, copy) EXCEPT !.user = user2] = r(at2, user2, copy)
    BY SMT
<1>6. /\ [r(at2, user, copy) EXCEPT !.copy = copy2] = r(at2, user, copy2)
      /\ [r(at2, user2, copy) EXCEPT !.copy = copy2] = r(at2, user2, copy2)
    BY SMT
<1>7. [c EXCEPT !.at = at2, !.user = user2] = [[c EXCEPT !.at = at2] EXCEPT !.user = user2]
    BY SMT
<1>8. [c EXCEPT !.at = at2, !.copy = copy2] = [[c EXCEPT !.at = at2] EXCEPT !.copy = copy2]
    BY SMT
<1>9. [c EXCEPT !.at = at2, !.user = user2, !.copy = copy2]
         = [[[c EXCEPT !.at = at2] EXCEPT !.user = user2] EXCEPT !.copy = copy2]
    BY SMT
<1> HIDE DEF r
<1>10. /\ [c EXCEPT !.at = at2, !.user = user2] = r(at2, user2, copy)
       /\ [c EXCEPT !.at = at2, !.copy = copy2] = r(at2, user, copy2)
    BY <1>4, <1>5, <1>6, <1>7, <1>8
<1>11. [c EXCEPT !.at = at2, !.user = user2, !.copy = copy2] = r(at2, user2, copy2)
    BY <1>4, <1>5, <1>6, <1>9
<1>12. /\ c.at = at /\ c.identity = x.identity /\ c.found = x.found
       /\ c.user = user /\ c.copy = copy
       /\ [c EXCEPT !.at = at2] = Called(at2, x, user, copy)
       /\ [c EXCEPT !.at = at2, !.user = user2] = Called(at2, x, user2, copy)
       /\ [c EXCEPT !.at = at2, !.copy = copy2] = Called(at2, x, user, copy2)
       /\ [c EXCEPT !.at = at2, !.user = user2, !.copy = copy2]
             = Called(at2, x, user2, copy2)
    BY <1>1, <1>3, <1>4, <1>10, <1>11 DEF i, f
<1> QED
    BY <1>12, Zenon DEF FieldsMove

LEMMA EditView ==
    ASSUME NEW x \in EditType, x.pc \in EditPC \ {"idle"}
    PROVE  CallOfEdit(x) = [at |-> IF x.pc = "store" THEN "read" ELSE x.pc,
                            user |-> x.user, request |-> x.request, copy |-> x.row]
<1>1. x # Idle
    BY DEF Idle
<1> QED
    BY <1>1, Zenon DEF CallOfEdit

LEMMA IdleView ==
    /\ CallOfLogin(Idle) = [at |-> "idle"]
    /\ CallOfEdit(Idle) = [at |-> "idle"]
BY Zenon DEF CallOfLogin, CallOfEdit

\* One call changes, and so does what is known of it.
LEMMA LoginCallBecomes ==
    ASSUME NEW S, login \in [Login -> S], NEW l \in Login, NEW x,
           login' = [login EXCEPT ![l] = x]
    PROVE  /\ LoginCalls' = [LoginCalls EXCEPT ![l] = CallOfLogin(x)]
           /\ LoginCalls[l] = CallOfLogin(login[l])
<1>1. login'[l] = x /\ \A k \in Login : k # l => login'[k] = login[k]
    BY Zenon
<1>2. LoginCalls' = [k \in Login |-> CallOfLogin(login'[k])]
    BY Zenon DEF LoginCalls
<1>3. LoginCalls = [k \in Login |-> CallOfLogin(login[k])]
    BY Zenon DEF LoginCalls
<1> QED
    BY <1>1, <1>2, <1>3

LEMMA EditCallBecomes ==
    ASSUME NEW S, edit \in [Edit -> S], NEW e \in Edit, NEW x,
           edit' = [edit EXCEPT ![e] = x]
    PROVE  /\ EditCalls' = [EditCalls EXCEPT ![e] = CallOfEdit(x)]
           /\ EditCalls[e] = CallOfEdit(edit[e])
<1>1. edit'[e] = x /\ \A k \in Edit : k # e => edit'[k] = edit[k]
    BY Zenon
<1>2. EditCalls' = [k \in Edit |-> CallOfEdit(edit'[k])]
    BY Zenon DEF EditCalls
<1>3. EditCalls = [k \in Edit |-> CallOfEdit(edit[k])]
    BY Zenon DEF EditCalls
<1> QED
    BY <1>1, <1>2, <1>3

\* A step that changes nothing the abstract operations know.
LEMMA Unseen ==
    ASSUME UNCHANGED <<users, providers, LoginCalls, EditCalls>>
    PROVE  UNCHANGED Operations!accounts
BY Zenon DEF Operations!accounts, LoginCalls, EditCalls

-----------------------------------------------------------------------------
(* What is in the hands of a login. *)

\* What a rule gives is among the gifts, and gifts add up.
LEMMA RuleGift ==
    ASSUME NEW m \in Mapper, NEW i
    PROVE  /\ PermissionsFor(m, i) \subseteq MayGive(i).permissions
           /\ GroupsFor(m, i) \subseteq MayGive(i).groups
<1>1. CASE ~Matches(m, i)
    BY <1>1, Zenon DEF PermissionsFor, GroupsFor
<1>2. CASE Matches(m, i)
  <2> DEFINE rules == {Rule[k] : k \in {n \in Mapper : Matches(n, i)}}
  <2>1. Rule[m] \in rules
      BY <1>2
  <2>2. /\ MayGive(i).permissions = UNION {r.permissions : r \in rules}
        /\ MayGive(i).groups = UNION {r.groups : r \in rules}
      BY Zenon DEF MayGive
  <2> HIDE DEF rules
  <2>3. /\ Rule[m].permissions \subseteq MayGive(i).permissions
        /\ Rule[m].groups \subseteq MayGive(i).groups
      BY <2>1, <2>2, SMT
  <2> QED
      BY <2>3, SMT DEF PermissionsFor, GroupsFor
<1> QED
    BY <1>1, <1>2

LEMMA GiftRow ==
    ASSUME NEW row \in Row, NEW i
    PROVE  row \in Operations!Gifts(i) <=>
               /\ row.permissions \subseteq MayGive(i).permissions
               /\ row.groups \subseteq MayGive(i).groups
<1> DEFINE ps == MayGive(i).permissions
           gs == MayGive(i).groups
<1>1. Operations!Gifts(i) = [permissions : SUBSET ps, groups : SUBSET gs]
    BY Zenon DEF Operations!Gifts
<1> HIDE DEF ps, gs
<1>2. row \in [permissions : SUBSET Permission, groups : SUBSET Group]
    BY Zenon DEF Row
<1>3. row \in [permissions : SUBSET ps, groups : SUBSET gs]
         <=> row.permissions \subseteq ps /\ row.groups \subseteq gs
    BY <1>2
<1> QED
    BY <1>1, <1>3 DEF ps, gs

\* What one login does is known of that login alone, and leaves the hands of the
\* others as they are.
LEMMA OneLogin ==
    ASSUME StateInv, HandInv, NEW l \in Login, NEW x \in LoginType, Becomes(l, x),
           edit' = edit,
           x.pc \in Looping => x.row \in Operations!Gifts(x.identity)
    PROVE  /\ HandInv'
           /\ LoginCalls' = [LoginCalls EXCEPT ![l] = CallOfLogin(x)]
           /\ LoginCalls[l] = CallOfLogin(login[l])
           /\ EditCalls' = EditCalls
<1>1. /\ login' = [login EXCEPT ![l] = x] /\ x.pc # "idle"
      /\ login \in [Login -> LoginType \cup {Idle}]
    BY Zenon DEF Becomes, StateInv, TypeOK
<1>2. login'[l] = x /\ \A k \in Login : k # l => login'[k] = login[k]
    BY <1>1, Zenon
<1>3. GiftInv'
  <2>1. ASSUME NEW k \in Login, login'[k].pc \in Looping
        PROVE  login'[k].row \in Operations!Gifts(login'[k].identity)
    <3>1. CASE k = l
        BY <1>2, <2>1, <3>1, Zenon
    <3>2. CASE k # l
        BY <1>2, <2>1, <3>2, Zenon DEF HandInv, GiftInv
    <3> QED
        BY <3>1, <3>2
  <2> QED
      BY <2>1, Zenon DEF GiftInv
<1>4. NotBegun'
    BY <1>1, <1>2, Zenon DEF HandInv, NotBegun
<1>5. EditCalls' = EditCalls
    BY Zenon DEF EditCalls
<1> QED
    BY <1>1, <1>3, <1>4, <1>5, LoginCallBecomes DEF HandInv

\* A login known by a point, a user and a copy becomes known by others.
CallMoves(l, at, user, copy, at2, user2, copy2) ==
    /\ LoginCalls[l].at = at /\ LoginCalls[l].identity = login[l].identity
    /\ LoginCalls[l].found = login[l].found
    /\ LoginCalls[l].user = user /\ LoginCalls[l].copy = copy
    /\ user2 = user /\ copy2 = copy =>
          LoginCalls' = [LoginCalls EXCEPT ![l].at = at2]
    /\ copy2 = copy =>
          LoginCalls' = [LoginCalls EXCEPT ![l].at = at2, ![l].user = user2]
    /\ user2 = user =>
          LoginCalls' = [LoginCalls EXCEPT ![l].at = at2, ![l].copy = copy2]
    /\ LoginCalls' = [LoginCalls EXCEPT ![l].at = at2, ![l].user = user2,
                                        ![l].copy = copy2]

LEMMA LoginMoves ==
    ASSUME StateInv, HandInv, NEW l \in Login, NEW x \in LoginType, Becomes(l, x),
           edit' = edit,
           x.pc \in Looping => x.row \in Operations!Gifts(x.identity),
           NEW at, NEW user, NEW copy, NEW at2, NEW user2, NEW copy2,
           CallOfLogin(login[l]) = Called(at, login[l], user, copy),
           CallOfLogin(x) = Called(at2, x, user2, copy2)
    PROVE  /\ HandInv'
           /\ EditCalls' = EditCalls
           /\ CallMoves(l, at, user, copy, at2, user2, copy2)
<1>1. /\ HandInv'
      /\ LoginCalls' = [LoginCalls EXCEPT ![l] = CallOfLogin(x)]
      /\ LoginCalls[l] = CallOfLogin(login[l])
      /\ EditCalls' = EditCalls
    BY OneLogin
<1>2. CallOfLogin(x) = Called(at2, login[l], user2, copy2)
    BY Zenon DEF Becomes, Called
<1>3. PICK c : c = LoginCalls[l]
    OBVIOUS
<1>4. PICK y : y = login[l]
    OBVIOUS
<1>5. c = Called(at, y, user, copy) /\ LoginCalls' = [LoginCalls EXCEPT ![l] = Called(at2, y, user2, copy2)]
    BY <1>1, <1>2, <1>3, <1>4, Zenon
<1>6. FieldsMove(c, at, y, user, copy, at2, user2, copy2)
    BY <1>5, CallFields, Zenon
<1>7. /\ [LoginCalls EXCEPT ![l].at = at2] =
            [LoginCalls EXCEPT ![l] = [c EXCEPT !.at = at2]]
             /\ [LoginCalls EXCEPT ![l].at = at2, ![l].user = user2] =
                   [LoginCalls EXCEPT ![l] = [c EXCEPT !.at = at2, !.user = user2]]
             /\ [LoginCalls EXCEPT ![l].at = at2, ![l].copy = copy2] =
                   [LoginCalls EXCEPT ![l] = [c EXCEPT !.at = at2, !.copy = copy2]]
             /\ [LoginCalls EXCEPT ![l].at = at2, ![l].user = user2, ![l].copy = copy2] =
                   [LoginCalls EXCEPT
                      ![l] = [c EXCEPT !.at = at2, !.user = user2, !.copy = copy2]]
    BY <1>3 DEF LoginCalls
<1>8. user2 = user /\ copy2 = copy =>
         LoginCalls' = [LoginCalls EXCEPT ![l].at = at2]
    BY <1>5, <1>6, <1>7, Zenon DEF FieldsMove
<1>9. copy2 = copy =>
         LoginCalls' = [LoginCalls EXCEPT ![l].at = at2, ![l].user = user2]
    BY <1>5, <1>6, <1>7, Zenon DEF FieldsMove
<1>10. user2 = user =>
         LoginCalls' = [LoginCalls EXCEPT ![l].at = at2, ![l].copy = copy2]
    BY <1>5, <1>6, <1>7, Zenon DEF FieldsMove
<1>11. LoginCalls' = [LoginCalls EXCEPT ![l].at = at2, ![l].user = user2,
                                       ![l].copy = copy2]
    BY <1>5, <1>6, <1>7, Zenon DEF FieldsMove
<1> QED
    BY <1>1, <1>3, <1>4, <1>6, <1>8, <1>9, <1>10, <1>11, Zenon DEF FieldsMove, CallMoves

LEMMA LoopingLogin ==
    ASSUME StateInv, HandInv, NEW l \in Login, login[l].pc \in Looping
    PROVE  /\ login[l] \in LoginType
           /\ login[l].user = Nobody
           /\ login[l].row \in Row
           /\ login[l].row \in Operations!Gifts(login[l].identity)
           /\ CallOfLogin(login[l]) = Called("called", login[l], Nobody, NoRow)
<1>1. login[l].pc # "idle" /\ login[l].pc \in Busy
    BY Zenon DEF Looping, Busy
<1>2. login[l] \in LoginType /\ login[l].user = Nobody
    BY <1>1, BegunLogin
<1>3. login[l].row \in Row
    BY <1>2, Zenon DEF LoginType
<1>4. login[l].row \in Operations!Gifts(login[l].identity)
    BY Zenon DEF HandInv, GiftInv
<1>5. login[l].pc \in LoginPC \ {"idle"}
    BY <1>1, Zenon DEF Looping, LoginPC
<1>6. CallOfLogin(login[l]) = Called("called", login[l], login[l].user, NoRow)
    BY <1>2, <1>5, LoginView, Zenon
<1> QED
    BY <1>2, <1>3, <1>4, <1>6, Zenon

-----------------------------------------------------------------------------
(* Steps of logins. *)

\* The loop over the mappers is not seen.
LEMMA LoopUnseen ==
    ASSUME StateInv, HandInv, NEW l \in Login, NEW x \in LoginType,
           Loops(l, x), x.row \in Operations!Gifts(login[l].identity)
    PROVE  HandInv' /\ UNCHANGED Operations!accounts
<1>1. /\ Becomes(l, x) /\ login[l].pc \in Looping /\ x.pc \in Looping
      /\ x.user = login[l].user
      /\ users' = users /\ providers' = providers /\ edit' = edit
    BY Zenon DEF Loops
<1>2. x.identity = login[l].identity /\ x.found = login[l].found
    BY <1>1, Zenon DEF Becomes
<1>3. /\ login[l].user = Nobody
      /\ CallOfLogin(login[l]) = Called("called", login[l], Nobody, NoRow)
    BY <1>1, LoopingLogin
<1>4. x.pc \in LoginPC \ {"idle"}
    BY <1>1, Zenon DEF Looping, LoginPC
<1>5. CallOfLogin(x) = Called("called", x, x.user, NoRow)
    BY <1>1, <1>4, LoginView, Zenon
<1>6. CallOfLogin(x) = CallOfLogin(login[l])
    BY <1>1, <1>2, <1>3, <1>5, Zenon DEF Called
<1>7. /\ HandInv'
      /\ LoginCalls' = [LoginCalls EXCEPT ![l] = CallOfLogin(x)]
      /\ LoginCalls[l] = CallOfLogin(login[l])
      /\ EditCalls' = EditCalls
  <2>1. x.row \in Operations!Gifts(x.identity)
      BY <1>2, Zenon
  <2> QED
      BY <1>1, <2>1, OneLogin
<1>8. LoginCalls = [LoginCalls EXCEPT ![l] = LoginCalls[l]]
    BY DEF LoginCalls
<1>9. LoginCalls' = LoginCalls
    BY <1>6, <1>7, <1>8
<1> QED
    BY <1>1, <1>7, <1>9, Unseen

LEMMA MappersUnseen ==
    ASSUME StateInv, HandInv, NEW l \in Login,
           \/ GetMappings(l)
           \/ \E m \in Mapper : TestRule(l, m) \/ ConsumeActivation(l, m) \/ ApplyRule(l, m)
    PROVE  HandInv' /\ UNCHANGED Operations!accounts
<1>1. PICK x \in LoginType : Loops(l, x)
    BY GetMappingsLoops, TestRuleLoops, ConsumeActivationLoops, ApplyRuleLoops
<1>2. login[l].pc \in Looping /\ login' = [login EXCEPT ![l] = x]
    BY <1>1, Zenon DEF Loops, Becomes
<1>3. /\ login[l] \in LoginType /\ login[l].row \in Row
      /\ login[l].row \in Operations!Gifts(login[l].identity)
    BY <1>2, LoopingLogin
<1>4. login \in [Login -> LoginType \cup {Idle}]
    BY Zenon DEF StateInv, TypeOK
<1>5. login'[l] = x
    BY <1>2, <1>4, Zenon
<1>6. x.row \in Row
    BY Zenon DEF LoginType
<1>7. CASE GetMappings(l)
  <2>1. login'[l].row = login[l].row
      BY <1>3, <1>4, <1>7, Zenon DEF GetMappings, LoginType
  <2> QED
      BY <1>1, <1>3, <1>5, <2>1, LoopUnseen
<1>8. ASSUME NEW m \in Mapper, TestRule(l, m) \/ ConsumeActivation(l, m)
      PROVE  HandInv' /\ UNCHANGED Operations!accounts
  <2>1. login'[l].row = login[l].row
    <3>1. CASE TestRule(l, m)
        BY <1>3, <1>4, <3>1, Zenon DEF TestRule, LoginType
    <3>2. CASE ConsumeActivation(l, m)
      <4>1. \/ login' = [login EXCEPT ![l].pc = "apply"]
            \/ login' = [login EXCEPT ![l].pc = "mapping", ![l].current = {}]
          BY <3>2, Zenon DEF ConsumeActivation
      <4> QED
          BY <1>3, <1>4, <4>1, Zenon DEF LoginType
    <3> QED
        BY <1>8, <3>1, <3>2
  <2> QED
      BY <1>1, <1>3, <1>5, <2>1, LoopUnseen
<1>9. ASSUME NEW m \in Mapper, ApplyRule(l, m)
      PROVE  HandInv' /\ UNCHANGED Operations!accounts
  <2> DEFINE i == login[l].identity
  <2>1. /\ login'[l].row.permissions = login[l].row.permissions \cup PermissionsFor(m, i)
        /\ login'[l].row.groups = login[l].row.groups \cup GroupsFor(m, i)
      BY <1>3, <1>4, <1>9, Zenon DEF ApplyRule, LoginType, Row
  <2>2. /\ login[l].row.permissions \subseteq MayGive(i).permissions
        /\ login[l].row.groups \subseteq MayGive(i).groups
      BY <1>3, GiftRow
  <2>3. /\ x.row.permissions \subseteq MayGive(i).permissions
        /\ x.row.groups \subseteq MayGive(i).groups
      BY <1>5, <2>1, <2>2, RuleGift, Zenon
  <2>4. x.row \in Operations!Gifts(i)
      BY <1>6, <2>3, GiftRow
  <2> QED
      BY <1>1, <2>4, LoopUnseen
<1> QED
    BY <1>7, <1>8, <1>9

\* A first login: the new user is what was mapped.
LEMMA CreateIsNewUser ==
    ASSUME StateInv, HandInv, NEW l \in Login, CreateUser(l)
    PROVE  HandInv' /\ Operations!NewUser(l)
<1>1. PICK x \in LoginType : Creates(l, x)
    BY CreateUserCreates
<1>2. /\ Becomes(l, x) /\ login[l].pc \in Looping /\ x.pc = "link"
      /\ x.user = Len(users) + 1
      /\ users' = Append(users, login[l].row)
      /\ providers' = providers /\ edit' = edit
    BY <1>1, Zenon DEF Creates
<1>3. login[l].found = Nobody
    BY Zenon DEF CreateUser
<1>4. /\ login[l].row \in Operations!Gifts(login[l].identity)
      /\ CallOfLogin(login[l]) = Called("called", login[l], Nobody, NoRow)
    BY <1>2, LoopingLogin
<1>5. CallOfLogin(x) = Called("created", x, x.user, NoRow)
  <2>1. x.pc \in LoginPC \ {"idle"}
      BY <1>2, Zenon DEF LoginPC
  <2> QED
      BY <1>2, <2>1, LoginView, Zenon
<1>6. x.pc \notin Looping
    BY <1>2, Zenon DEF Looping
<1>7. /\ HandInv' /\ EditCalls' = EditCalls
      /\ LoginCalls[l].at = "called" /\ LoginCalls[l].identity = login[l].identity
      /\ LoginCalls[l].found = login[l].found
      /\ LoginCalls' = [LoginCalls EXCEPT ![l].at = "created", ![l].user = x.user]
  <2>1. HandInv' /\ EditCalls' = EditCalls
        /\ CallMoves(l, "called", Nobody, NoRow, "created", x.user, NoRow)
      BY <1>2, <1>4, <1>5, <1>6, LoginMoves, Zenon
  <2> QED
      BY <2>1, Zenon DEF CallMoves
<1>8. \E gift \in Operations!Gifts(LoginCalls[l].identity) : users' = Append(users, gift)
    BY <1>2, <1>4, <1>7, Zenon
<1>9. Operations!NewUser(l)
    BY <1>2, <1>3, <1>7, <1>8, Zenon
    DEF Operations!NewUser, Operations!Nobody, Nobody, LoginCalls, EditCalls
<1> QED
    BY <1>7, <1>9

\* A login of a known identity: the copy is what was mapped on top of the user as it
\* is read.
LEMMA LoadIsReadUser ==
    ASSUME StateInv, HandInv, NEW l \in Login, LoadUser(l)
    PROVE  HandInv' /\ Operations!ReadUser(l)
<1>1. PICK x \in LoginType : Copies(l, x)
    BY LoadUserCopies
<1>2. /\ Becomes(l, x) /\ login[l].pc \in Looping /\ x.pc = "store"
      /\ x.found # Nobody /\ x.user = login[l].user
      /\ users' = users /\ providers' = providers /\ edit' = edit
    BY <1>1, Zenon DEF Copies, Tables
<1>3. /\ login' = [login EXCEPT ![l] = x]
      /\ x.identity = login[l].identity /\ x.found = login[l].found
    BY <1>2, Zenon DEF Becomes
<1>4. /\ login[l] \in LoginType /\ login[l].user = Nobody /\ login[l].row \in Row
      /\ login[l].row \in Operations!Gifts(login[l].identity)
      /\ CallOfLogin(login[l]) = Called("called", login[l], Nobody, NoRow)
    BY <1>2, LoopingLogin
<1>5. login \in [Login -> LoginType \cup {Idle}]
    BY Zenon DEF StateInv, TypeOK
<1>6. login'[l] = x
    BY <1>3, <1>5, Zenon
<1>7. x.row = Operations!Given(users[login[l].found], login[l].row)
  <2> DEFINE user == users[login[l].found]
  <2>1. /\ x.row.permissions = login[l].row.permissions \cup user.permissions
        /\ x.row.groups = login[l].row.groups \cup user.groups
    <3>1. /\ login'[l].row.permissions = login[l].row.permissions \cup user.permissions
          /\ login'[l].row.groups = login[l].row.groups \cup user.groups
        BY <1>4, <1>5, Zenon DEF LoadUser, LoginType, Row
    <3> QED
        BY <1>6, <3>1, Zenon
  <2>2. x.row = [permissions |-> x.row.permissions, groups |-> x.row.groups]
    <3>1. x.row \in [permissions : SUBSET Permission, groups : SUBSET Group]
        BY Zenon DEF LoginType, Row
    <3> QED
        BY <3>1, SMT
  <2>3. /\ login[l].row.permissions \cup user.permissions
              = user.permissions \cup login[l].row.permissions
        /\ login[l].row.groups \cup user.groups = user.groups \cup login[l].row.groups
      BY Zenon
  <2> QED
      BY <2>1, <2>2, <2>3, Zenon DEF Operations!Given
<1>8. CallOfLogin(x) = Called("read", x, Nobody, x.row)
  <2>1. x.pc \in LoginPC \ {"idle"}
      BY <1>2, Zenon DEF LoginPC
  <2> QED
      BY <1>2, <1>4, <2>1, LoginView, Zenon
<1>9. x.pc \notin Looping
    BY <1>2, Zenon DEF Looping
<1>10. /\ HandInv' /\ EditCalls' = EditCalls
       /\ LoginCalls[l].at = "called" /\ LoginCalls[l].identity = login[l].identity
       /\ LoginCalls[l].found = login[l].found
       /\ LoginCalls' = [LoginCalls EXCEPT ![l].at = "read", ![l].copy = x.row]
  <2>1. HandInv' /\ EditCalls' = EditCalls
        /\ CallMoves(l, "called", Nobody, NoRow, "read", Nobody, x.row)
      BY <1>2, <1>4, <1>8, <1>9, LoginMoves, Zenon
  <2> QED
      BY <2>1, Zenon DEF CallMoves
<1>11. \E gift \in Operations!Gifts(LoginCalls[l].identity) :
          LoginCalls' = [LoginCalls EXCEPT
             ![l].at = "read",
             ![l].copy = Operations!Given(users[LoginCalls[l].found], gift)]
    BY <1>4, <1>7, <1>10, Zenon
<1>12. Operations!ReadUser(l)
    BY <1>2, <1>3, <1>10, <1>11, Zenon
    DEF Operations!ReadUser, Operations!Nobody, Nobody, LoginCalls, EditCalls
<1> QED
    BY <1>10, <1>12

\* The copy is stored over its user.
LEMMA StoreIsGrant ==
    ASSUME StateInv, HandInv, NEW l \in Login, StoreUser(l)
    PROVE  HandInv' /\ Operations!Grant(l)
<1>1. PICK x \in LoginType : Stores(l, x)
    BY StoreUserStores
<1>2. /\ Becomes(l, x) /\ login[l].pc = "store" /\ x.pc = "done"
      /\ x.user = login[l].found
      /\ users' = [users EXCEPT ![login[l].found] = login[l].row]
      /\ providers' = providers /\ edit' = edit
    BY <1>1, Zenon DEF Stores
<1>3. login[l] \in LoginType /\ login[l].pc # "idle"
    BY <1>2, BegunLogin
<1>4. CallOfLogin(login[l]) = Called("read", login[l], login[l].user, login[l].row)
  <2>1. login[l].pc \in LoginPC \ {"idle"}
      BY <1>2, Zenon DEF LoginPC
  <2> QED
      BY <1>2, <1>3, <2>1, LoginView, Zenon
<1>5. CallOfLogin(x) = Called("done", x, login[l].found, NoRow)
  <2>1. x.pc \in LoginPC \ {"idle"} /\ x.pc \in {"done", "failed"}
      BY <1>2, Zenon DEF LoginPC
  <2> QED
      BY <1>2, <2>1, LoginView, Zenon
<1>6. x.pc \notin Looping
    BY <1>2, Zenon DEF Looping
<1>7. /\ HandInv' /\ EditCalls' = EditCalls
      /\ LoginCalls[l].at = "read" /\ LoginCalls[l].found = login[l].found
      /\ LoginCalls[l].copy = login[l].row
      /\ LoginCalls' = [LoginCalls EXCEPT ![l].at = "done", ![l].user = login[l].found,
                                          ![l].copy = NoRow]
  <2>1. HandInv' /\ EditCalls' = EditCalls
        /\ CallMoves(l, "read", login[l].user, login[l].row,
                     "done", login[l].found, NoRow)
      BY <1>2, <1>4, <1>5, <1>6, LoginMoves, Zenon
  <2> QED
      BY <2>1, Zenon DEF CallMoves
<1>8. /\ users' = [users EXCEPT ![LoginCalls[l].found] = LoginCalls[l].copy]
      /\ LoginCalls' = [LoginCalls EXCEPT ![l].at = "done", ![l].user = LoginCalls[l].found,
                                          ![l].copy = NoRow]
    BY <1>2, <1>7, Zenon
<1>9. Operations!Grant(l)
    BY <1>2, <1>7, <1>8, Zenon
    DEF Operations!Grant, Operations!NoRow, NoRow, LoginCalls, EditCalls
<1> QED
    BY <1>7, <1>9

\* A login returns.
LEMMA LoginReturns ==
    ASSUME StateInv, HandInv, NEW l \in Login, l \in LoggingIn,
           NEW pc \in {"done", "failed"},
           login' = [login EXCEPT ![l] = Ended(login[l], pc)], edit' = edit
    PROVE  /\ HandInv'
           /\ EditCalls' = EditCalls
           /\ LoginCalls[l].at = IF login[l].pc = "link" THEN "created"
                                 ELSE IF login[l].pc = "store" THEN "read" ELSE "called"
           /\ LoginCalls[l].identity = login[l].identity
           /\ LoginCalls[l].user = login[l].user
           /\ LoginCalls' = [LoginCalls EXCEPT ![l].at = pc, ![l].copy = NoRow]
           /\ login[l].pc = "link" => LoginCalls' = [LoginCalls EXCEPT ![l].at = pc]
<1> DEFINE x == Ended(login[l], pc)
           at == IF login[l].pc = "link" THEN "created"
                 ELSE IF login[l].pc = "store" THEN "read" ELSE "called"
           copy == IF login[l].pc = "store" THEN login[l].row ELSE NoRow
           u == login[l].user
<1>1. login[l].pc \notin {"idle", "done", "failed"}
    BY Zenon DEF LoggingIn
<1>2. login[l] \in LoginType
    BY <1>1, BegunLogin
<1>3. /\ x \in LoginType /\ x.pc = pc /\ x.identity = login[l].identity
      /\ x.found = login[l].found /\ x.user = login[l].user
    BY <1>2, EndedTyped
<1>4. login' = [login EXCEPT ![l] = x]
    OBVIOUS
<1> HIDE DEF x
<1>5. Becomes(l, x)
    BY <1>1, <1>3, <1>4, Zenon DEF Becomes
<1>6. login[l].pc \in Looping \cup {"link", "store"}
  <2>1. login[l].pc \in LoginPC
      BY <1>2, Zenon DEF LoginType
  <2> QED
      BY <1>1, <2>1, Zenon DEF LoginPC, Looping
<1>7. CallOfLogin(login[l]) = Called(at, login[l], u, copy)
  <2>1. login[l].pc \in LoginPC \ {"idle"}
      BY <1>1, <1>2, Zenon DEF LoginType
  <2>2. CASE login[l].pc \in Looping
    <3>1. login[l].pc # "link" /\ login[l].pc # "store"
        BY <2>2, Zenon DEF Looping
    <3> QED
        BY <1>2, <2>1, <2>2, <3>1, LoginView, Zenon
  <2>3. CASE login[l].pc = "link"
      BY <1>2, <2>1, <2>3, LoginView, Zenon
  <2>4. CASE login[l].pc = "store"
      BY <1>2, <2>1, <2>4, LoginView, Zenon
  <2> QED
      BY <1>6, <2>2, <2>3, <2>4
<1>8. CallOfLogin(x) = Called(pc, x, u, NoRow)
  <2>1. x.pc \in LoginPC \ {"idle"} /\ x.pc \in {"done", "failed"}
      BY <1>3, Zenon DEF LoginPC
  <2> QED
      BY <1>3, <2>1, LoginView, Zenon
<1>9. x.pc \notin Looping
    BY <1>3, Zenon DEF Looping
<1>10. login[l].pc = "link" => copy = NoRow
    OBVIOUS
<1> HIDE DEF at, copy, u
<1>11. HandInv' /\ EditCalls' = EditCalls /\ CallMoves(l, at, u, copy, pc, u, NoRow)
    BY <1>3, <1>5, <1>7, <1>8, <1>9, LoginMoves, Zenon
<1>12. /\ LoginCalls[l].at = at /\ LoginCalls[l].identity = login[l].identity
       /\ LoginCalls[l].user = u
       /\ LoginCalls' = [LoginCalls EXCEPT ![l].at = pc, ![l].copy = NoRow]
       /\ copy = NoRow => LoginCalls' = [LoginCalls EXCEPT ![l].at = pc]
    BY <1>11, Zenon DEF CallMoves
<1> QED
    BY <1>10, <1>11, <1>12, Zenon DEF at, u

\* The provider is inserted, or another login has linked the identity first.
LEMMA LinkIsLink ==
    ASSUME StateInv, HandInv, NEW l \in Login, LinkProvider(l)
    PROVE  HandInv' /\ (Operations!Link(l) \/ Operations!FailLogin(l))
<1>1. login[l].pc = "link" /\ l \in LoggingIn
  <2>1. login[l].pc = "link"
      BY Zenon DEF LinkProvider
  <2> QED
      BY <2>1, Zenon DEF LoggingIn
<1>2. CASE providers[login[l].identity] = Nobody
  <2>1. /\ providers' = [providers EXCEPT ![login[l].identity] = login[l].user]
        /\ login' = [login EXCEPT ![l] = Ended(login[l], "done")]
        /\ users' = users /\ edit' = edit
      BY <1>2, Zenon DEF LinkProvider
  <2>2. /\ HandInv' /\ EditCalls' = EditCalls
        /\ LoginCalls[l].at = "created"
        /\ LoginCalls[l].identity = login[l].identity
        /\ LoginCalls[l].user = login[l].user
        /\ LoginCalls' = [LoginCalls EXCEPT ![l].at = "done"]
      BY <1>1, <2>1, LoginReturns
  <2>3. Operations!Link(l)
      BY <1>2, <2>1, <2>2, Zenon
      DEF Operations!Link, Operations!Nobody, Nobody, LoginCalls, EditCalls
  <2> QED
      BY <2>2, <2>3
<1>3. CASE providers[login[l].identity] # Nobody
  <2>1. /\ providers' = providers
        /\ login' = [login EXCEPT ![l] = Ended(login[l], "failed")]
        /\ users' = users /\ edit' = edit
      BY <1>3, Zenon DEF LinkProvider
  <2>2. /\ HandInv' /\ EditCalls' = EditCalls
        /\ LoginCalls[l].at = "created"
        /\ LoginCalls' = [LoginCalls EXCEPT ![l].at = "failed", ![l].copy = NoRow]
      BY <1>1, <2>1, LoginReturns
  <2>3. Operations!FailLogin(l)
      BY <2>1, <2>2, Zenon
      DEF Operations!FailLogin, Operations!NoRow, NoRow, LoginCalls, EditCalls
  <2> QED
      BY <2>2, <2>3
<1> QED
    BY <1>2, <1>3

LEMMA FailIsFailLogin ==
    ASSUME StateInv, HandInv, NEW l \in Login, FailLogin(l)
    PROVE  HandInv' /\ Operations!FailLogin(l)
<1>1. /\ l \in LoggingIn
      /\ login' = [login EXCEPT ![l] = Ended(login[l], "failed")]
      /\ users' = users /\ providers' = providers /\ edit' = edit
    BY Zenon DEF FailLogin
<1>2. /\ HandInv' /\ EditCalls' = EditCalls
      /\ LoginCalls[l].at = IF login[l].pc = "link" THEN "created"
                            ELSE IF login[l].pc = "store" THEN "read" ELSE "called"
      /\ LoginCalls' = [LoginCalls EXCEPT ![l].at = "failed", ![l].copy = NoRow]
    BY <1>1, LoginReturns
<1>3. LoginCalls[l].at \in {"called", "created", "read"}
    BY <1>2
<1>4. Operations!FailLogin(l)
    BY <1>1, <1>2, <1>3, Zenon
    DEF Operations!FailLogin, Operations!NoRow, NoRow, LoginCalls, EditCalls
<1> QED
    BY <1>2, <1>4

LEMMA LoginStepAllowed ==
    ASSUME StateInv, HandInv, NEW l \in Login, LoginStep(l)
    PROVE  HandInv' /\ [Operations!Next]_(Operations!accounts)
<1>1. CASE \/ GetMappings(l)
           \/ \E m \in Mapper : TestRule(l, m) \/ ConsumeActivation(l, m) \/ ApplyRule(l, m)
    BY <1>1, MappersUnseen
<1>2. CASE CreateUser(l)
    BY <1>2, CreateIsNewUser, Zenon DEF Operations!Next
<1>3. CASE LinkProvider(l)
    BY <1>3, LinkIsLink, Zenon DEF Operations!Next
<1>4. CASE LoadUser(l)
    BY <1>4, LoadIsReadUser, Zenon DEF Operations!Next
<1>5. CASE StoreUser(l)
    BY <1>5, StoreIsGrant, Zenon DEF Operations!Next
<1>6. CASE FailLogin(l)
    BY <1>6, FailIsFailLogin, Zenon DEF Operations!Next
<1> QED
    BY <1>1, <1>2, <1>3, <1>4, <1>5, <1>6, Zenon DEF LoginStep

\* A login begins, with the user its identity is linked to.
LEMMA RegisterIsCallLogin ==
    ASSUME StateInv, HandInv, NEW l \in Login, NEW i \in Identity,
           register_api_user(l, i)
    PROVE  HandInv' /\ Operations!CallLogin(l, i)
<1> DEFINE x == NewLogin(i)
<1>1. /\ login[l].pc = "idle"
      /\ login' = [login EXCEPT ![l] = x]
      /\ users' = users /\ providers' = providers /\ edit' = edit
    BY Zenon DEF register_api_user
<1>2. login \in [Login -> LoginType \cup {Idle}]
    BY Zenon DEF StateInv, TypeOK
<1>3. PICK y \in LoginType :
         /\ login' = [login EXCEPT ![l] = y]
         /\ y.pc = "mappers" /\ y.identity = i /\ y.user = Nobody /\ y.row = NoRow
    BY RegisterState, Zenon
<1>4. x \in LoginType
    BY <1>1, <1>2, <1>3, Zenon
<1>5. /\ x.pc = "mappers" /\ x.identity = i /\ x.found = providers[i]
      /\ x.user = Nobody /\ x.row = NoRow
    BY DEF NewLogin
<1> HIDE DEF x
<1>6. login'[l] = x /\ \A k \in Login : k # l => login'[k] = login[k]
    BY <1>1, <1>2, Zenon
<1>7. NoRow \in Operations!Gifts(i)
  <2>1. NoRow \in Row
      BY SMT DEF NoRow, Row
  <2>2. NoRow.permissions = {} /\ NoRow.groups = {}
      BY DEF NoRow
  <2>3. /\ NoRow.permissions \subseteq MayGive(i).permissions
        /\ NoRow.groups \subseteq MayGive(i).groups
      BY <2>2, Zenon
  <2> QED
      BY <2>1, <2>3, GiftRow
<1>8. HandInv'
  <2>1. GiftInv'
    <3>1. ASSUME NEW k \in Login, login'[k].pc \in Looping
          PROVE  login'[k].row \in Operations!Gifts(login'[k].identity)
      <4>1. CASE k = l
          BY <1>5, <1>6, <1>7, <4>1, Zenon
      <4>2. CASE k # l
          BY <1>6, <3>1, <4>2, Zenon DEF HandInv, GiftInv
      <4> QED
          BY <4>1, <4>2
    <3> QED
        BY <3>1, Zenon DEF GiftInv
  <2>2. NotBegun'
      BY <1>1, <1>5, <1>6, Zenon DEF HandInv, NotBegun
  <2> QED
      BY <2>1, <2>2 DEF HandInv
<1>9. Operations!CallLogin(l, i)
  <2>1. login[l] = Idle
      BY <1>1, Zenon DEF HandInv, NotBegun
  <2>2. /\ LoginCalls' = [LoginCalls EXCEPT ![l] = CallOfLogin(x)]
        /\ LoginCalls[l] = CallOfLogin(login[l])
      BY <1>1, <1>2, LoginCallBecomes
  <2>3. LoginCalls[l].at = "idle"
      BY <2>1, <2>2, IdleView
  <2>4. CallOfLogin(x) = Called("called", x, Nobody, NoRow)
    <3>1. x.pc \in LoginPC \ {"idle"} /\ x.pc \in Looping
        BY <1>5, Zenon DEF LoginPC, Looping
    <3> QED
        BY <1>4, <1>5, <3>1, LoginView, Zenon
  <2>5. LoginCalls' = [LoginCalls EXCEPT ![l] =
            [at |-> "called", identity |-> i, found |-> providers[i], user |-> Nobody,
             copy |-> NoRow]]
      BY <1>5, <2>2, <2>4, Zenon DEF Called
  <2>6. EditCalls' = EditCalls
      BY <1>1, Zenon DEF EditCalls
  <2> QED
      BY <1>1, <2>3, <2>5, <2>6, Zenon
      DEF Operations!CallLogin, Operations!Nobody, Nobody, Operations!NoRow, NoRow,
          LoginCalls, EditCalls
<1> QED
    BY <1>8, <1>9

-----------------------------------------------------------------------------
(* Steps of administrators. *)

\* An edit of a user, made on a copy of its row, is what it promises to be.
LEMMA EditDone ==
    ASSUME NEW row \in Row, NEW r \in Request
    PROVE  (CASE r.op = "add_permissions" -> [row EXCEPT !.permissions = @ \cup r.what]
              [] r.op = "add_to_group" -> [row EXCEPT !.groups = @ \cup r.what]
              [] r.op = "remove_from_group" -> [row EXCEPT !.groups = @ \ r.what])
              = Operations!Done(row, r)
<1>1. r.op \in {"add_permissions", "add_to_group", "remove_from_group"}
    BY AccountAssumption DEF AccountAssumption, RequestType
<1>2. row = [permissions |-> row.permissions, groups |-> row.groups]
    BY DEF Row
<1>3. CASE r.op = "add_permissions"
  <2>1. Operations!Done(row, r) = [permissions |-> row.permissions \cup r.what,
                                   groups |-> row.groups]
      BY <1>3 DEF Operations!Done
  <2>2. [row EXCEPT !.permissions = @ \cup r.what]
           = [permissions |-> row.permissions \cup r.what, groups |-> row.groups]
      BY <1>2, SMT
  <2> QED
      BY <1>3, <2>1, <2>2
<1>4. CASE r.op = "add_to_group"
  <2>1. Operations!Done(row, r) = [permissions |-> row.permissions,
                                   groups |-> row.groups \cup r.what]
      BY <1>4 DEF Operations!Done
  <2>2. [row EXCEPT !.groups = @ \cup r.what]
           = [permissions |-> row.permissions, groups |-> row.groups \cup r.what]
      BY <1>2, SMT
  <2> QED
      BY <1>4, <2>1, <2>2
<1>5. CASE r.op = "remove_from_group"
  <2>1. Operations!Done(row, r) = [permissions |-> row.permissions,
                                   groups |-> row.groups \ r.what]
      BY <1>5 DEF Operations!Done
  <2>2. [row EXCEPT !.groups = @ \ r.what]
           = [permissions |-> row.permissions, groups |-> row.groups \ r.what]
      BY <1>2, SMT
  <2> QED
      BY <1>5, <2>1, <2>2
<1> QED
    BY <1>1, <1>3, <1>4, <1>5

\* One edit changes: the invariant is not about the rest of it.
LEMMA OneEdit ==
    ASSUME StateInv, HandInv, NEW e \in Edit, NEW x,
           edit' = [edit EXCEPT ![e] = x], x.pc # "idle", login' = login
    PROVE  /\ HandInv'
           /\ LoginCalls' = LoginCalls
           /\ EditCalls' = [EditCalls EXCEPT ![e] = CallOfEdit(x)]
           /\ EditCalls[e] = CallOfEdit(edit[e])
<1>1. edit \in [Edit -> EditType \cup {Idle}]
    BY Zenon DEF StateInv, TypeOK
<1>2. edit'[e] = x /\ \A k \in Edit : k # e => edit'[k] = edit[k]
    BY <1>1, Zenon
<1>3. GiftInv'
  <2>1. ASSUME NEW k \in Login, login'[k].pc \in Looping
        PROVE  login'[k].row \in Operations!Gifts(login'[k].identity)
      BY <2>1, Zenon DEF HandInv, GiftInv
  <2> QED
      BY <2>1, Zenon DEF GiftInv
<1>4. NotBegun'
    BY <1>2, Zenon DEF HandInv, NotBegun
<1>5. LoginCalls' = LoginCalls
    BY Zenon DEF LoginCalls
<1> QED
    BY <1>1, <1>3, <1>4, <1>5, EditCallBecomes DEF HandInv

\* An edit begins: it has a copy of the user as it is, with the edit made.
LEMMA LoadIsCallEdit ==
    ASSUME StateInv, HandInv,
           NEW e \in Edit, NEW u \in DOMAIN users, NEW r \in Request, LoadForEdit(e, u, r)
    PROVE  HandInv' /\ Operations!CallEdit(e, u, r)
<1> DEFINE copy == Operations!Done(users[u], r)
           x == [pc |-> "store", user |-> u, request |-> r, row |-> copy]
<1>1. /\ edit[e].pc = "idle"
      /\ users' = users /\ providers' = providers /\ login' = login
    BY Zenon DEF LoadForEdit
<1>2. edit \in [Edit -> EditType \cup {Idle}] /\ users \in Seq(Row)
    BY Zenon DEF StateInv, TypeOK
<1>3. edit' = [edit EXCEPT ![e] = x]
  <2>1. users[u] \in Row
      BY <1>2
  <2> DEFINE row == CASE r.op = "add_permissions" ->
                            [users[u] EXCEPT !.permissions = @ \cup r.what]
                       [] r.op = "add_to_group" ->
                            [users[u] EXCEPT !.groups = @ \cup r.what]
                       [] r.op = "remove_from_group" ->
                            [users[u] EXCEPT !.groups = @ \ r.what]
  <2>2. edit' = [edit EXCEPT ![e] =
                    [pc |-> "store", user |-> u, request |-> r, row |-> row]]
      BY Zenon DEF LoadForEdit
  <2>3. row = copy
      BY <2>1, EditDone
  <2> HIDE DEF row, copy
  <2> QED
      BY <2>2, <2>3, Zenon
<1> HIDE DEF copy
<1>4. x.pc = "store" /\ x.user = u /\ x.request = r /\ x.row = copy
    OBVIOUS
<1> HIDE DEF x
<1>5. x \in EditType
  <2>1. PICK y \in EditType : /\ edit' = [edit EXCEPT ![e] = y]
                             /\ y.pc = "store" /\ y.user = u /\ y.request = r
                             /\ Held(y.row) \subseteq Held(users[u]) \cup r.what
      BY EditSteps, Zenon
  <2> QED
      BY <1>2, <1>3, <2>1, Zenon
<1>6. /\ HandInv'
      /\ LoginCalls' = LoginCalls
      /\ EditCalls' = [EditCalls EXCEPT ![e] = CallOfEdit(x)]
      /\ EditCalls[e] = CallOfEdit(edit[e])
  <2>1. x.pc # "idle"
      BY <1>4, Zenon
  <2> QED
      BY <1>1, <1>3, <2>1, OneEdit
<1>7. Operations!CallEdit(e, u, r)
  <2>1. edit[e] = Idle
      BY <1>1, Zenon DEF HandInv, NotBegun
  <2>2. EditCalls[e].at = "idle"
      BY <1>6, <2>1, IdleView
  <2>3. CallOfEdit(x) = [at |-> "read", user |-> u, request |-> r, copy |-> copy]
    <3>1. x.pc \in EditPC \ {"idle"}
        BY <1>4, Zenon DEF EditPC
    <3> QED
        BY <1>4, <1>5, <3>1, EditView, Zenon
  <2>4. EditCalls' = [EditCalls EXCEPT ![e] =
            [at |-> "read", user |-> u, request |-> r, copy |-> copy]]
      BY <1>6, <2>3, Zenon
  <2> QED
      BY <1>1, <1>6, <2>2, <2>4, Zenon
      DEF Operations!CallEdit, LoginCalls, EditCalls, copy
<1> QED
    BY <1>6, <1>7

\* An edit returns.
LEMMA EditReturns ==
    ASSUME StateInv, HandInv, NEW e \in Edit, edit[e].pc = "store",
           NEW pc \in {"done", "failed"},
           edit' = [edit EXCEPT ![e].pc = pc, ![e].row = NoRow], login' = login
    PROVE  /\ HandInv'
           /\ EditCalls' = [EditCalls EXCEPT ![e].at = pc, ![e].copy = NoRow]
           /\ LoginCalls' = LoginCalls
           /\ EditCalls[e].at = "read"
           /\ EditCalls[e].user = edit[e].user
           /\ EditCalls[e].copy = edit[e].row
<1> DEFINE x == [edit[e] EXCEPT !.pc = pc, !.row = NoRow]
<1>1. edit \in [Edit -> EditType \cup {Idle}]
    BY Zenon DEF StateInv, TypeOK
<1>2. edit[e] \in EditType
    BY Begun
<1>3. edit' = [edit EXCEPT ![e] = x]
    BY <1>1, Zenon
<1>4. /\ x \in EditType /\ x.pc = pc
      /\ x.user = edit[e].user /\ x.request = edit[e].request /\ x.row = NoRow
  <2>1. NoRow \in Row
      BY SMT DEF NoRow, Row
  <2>2. pc \in EditPC
      BY Zenon DEF EditPC
  <2>3. x \in EditType
      BY <1>2, <2>1, <2>2, Zenon DEF EditType
  <2> QED
      BY <1>2, <2>3, Zenon DEF EditType
<1> HIDE DEF x
<1>5. /\ HandInv'
      /\ LoginCalls' = LoginCalls
      /\ EditCalls' = [EditCalls EXCEPT ![e] = CallOfEdit(x)]
      /\ EditCalls[e] = CallOfEdit(edit[e])
  <2>1. x.pc # "idle"
      BY <1>4, Zenon
  <2> QED
      BY <1>3, <2>1, OneEdit
<1> DEFINE u == edit[e].user
           r == edit[e].request
           row == edit[e].row
<1>6. CallOfEdit(x) = [at |-> pc, user |-> u, request |-> r, copy |-> NoRow]
  <2>1. x.pc \in EditPC \ {"idle"} /\ x.pc # "store"
      BY <1>4, Zenon DEF EditPC
  <2> QED
      BY <1>4, <2>1, EditView, Zenon
<1>7. CallOfEdit(edit[e]) = [at |-> "read", user |-> u, request |-> r, copy |-> row]
  <2>1. edit[e].pc \in EditPC \ {"idle"}
      BY Zenon DEF EditPC
  <2> QED
      BY <1>2, <2>1, EditView, Zenon
<1>8. PICK c : c = EditCalls[e]
    OBVIOUS
<1>9. c = [at |-> "read", user |-> u, request |-> r, copy |-> row]
    BY <1>5, <1>7, <1>8
<1>10. [EditCalls EXCEPT ![e].at = pc, ![e].copy = NoRow]
          = [EditCalls EXCEPT ![e] = [c EXCEPT !.at = pc, !.copy = NoRow]]
    BY <1>8 DEF EditCalls
<1> HIDE DEF u, r, row
<1>11. [c EXCEPT !.at = pc, !.copy = NoRow]
          = [at |-> pc, user |-> u, request |-> r, copy |-> NoRow]
  <2>1. [c EXCEPT !.at = pc, !.copy = NoRow] = [[c EXCEPT !.at = pc] EXCEPT !.copy = NoRow]
      BY SMT
  <2>2. [c EXCEPT !.at = pc] = [at |-> pc, user |-> u, request |-> r, copy |-> row]
      BY <1>9, SMT
  <2>3. [[at |-> pc, user |-> u, request |-> r, copy |-> row] EXCEPT !.copy = NoRow]
           = [at |-> pc, user |-> u, request |-> r, copy |-> NoRow]
      BY SMT
  <2> QED
      BY <2>1, <2>2, <2>3
<1>12. c.at = "read" /\ c.user = u /\ c.copy = row
    BY <1>9, SMT
<1>13. EditCalls' = [EditCalls EXCEPT ![e].at = pc, ![e].copy = NoRow]
    BY <1>5, <1>6, <1>10, <1>11, Zenon
<1> QED
    BY <1>5, <1>8, <1>12, <1>13, Zenon DEF u, row

LEMMA StoreIsPerform ==
    ASSUME StateInv, HandInv, NEW e \in Edit, StoreEdit(e)
    PROVE  HandInv' /\ Operations!Perform(e)
<1>1. /\ edit[e].pc = "store"
      /\ edit' = [edit EXCEPT ![e].pc = "done", ![e].row = NoRow]
      /\ users' = [users EXCEPT ![edit[e].user] = edit[e].row]
      /\ login' = login /\ providers' = providers
    BY Zenon DEF StoreEdit
<1>2. /\ HandInv'
      /\ EditCalls' = [EditCalls EXCEPT ![e].at = "done", ![e].copy = NoRow]
      /\ LoginCalls' = LoginCalls
      /\ EditCalls[e].at = "read"
      /\ EditCalls[e].user = edit[e].user
      /\ EditCalls[e].copy = edit[e].row
    BY <1>1, EditReturns
<1>3. users' = [users EXCEPT ![EditCalls[e].user] = EditCalls[e].copy]
    BY <1>1, <1>2, Zenon
<1>4. Operations!Perform(e)
    BY <1>1, <1>2, <1>3, Zenon
    DEF Operations!Perform, Operations!NoRow, NoRow, LoginCalls, EditCalls
<1> QED
    BY <1>2, <1>4

LEMMA FailIsFailEdit ==
    ASSUME StateInv, HandInv, NEW e \in Edit, FailEdit(e)
    PROVE  HandInv' /\ Operations!FailEdit(e)
<1>1. /\ edit[e].pc = "store"
      /\ edit' = [edit EXCEPT ![e].pc = "failed", ![e].row = NoRow]
      /\ users' = users /\ login' = login /\ providers' = providers
    BY Zenon DEF FailEdit
<1>2. /\ HandInv'
      /\ EditCalls' = [EditCalls EXCEPT ![e].at = "failed", ![e].copy = NoRow]
      /\ LoginCalls' = LoginCalls
      /\ EditCalls[e].at = "read"
    BY <1>1, EditReturns
<1>3. Operations!FailEdit(e)
    BY <1>1, <1>2, Zenon
    DEF Operations!FailEdit, Operations!NoRow, NoRow, LoginCalls, EditCalls
<1> QED
    BY <1>2, <1>3

\* No call changes.
LEMMA NoCall ==
    ASSUME HandInv, login' = login, edit' = edit
    PROVE  HandInv' /\ UNCHANGED <<LoginCalls, EditCalls>>
<1>1. GiftInv'
  <2>1. ASSUME NEW k \in Login, login'[k].pc \in Looping
        PROVE  login'[k].row \in Operations!Gifts(login'[k].identity)
      BY <2>1, Zenon DEF HandInv, GiftInv
  <2> QED
      BY <2>1, Zenon DEF GiftInv
<1>2. NotBegun'
    BY Zenon DEF HandInv, NotBegun
<1> QED
    BY <1>1, <1>2, Zenon DEF HandInv, LoginCalls, EditCalls

LEMMA AdminStepAllowed ==
    ASSUME StateInv, HandInv, AdminStep
    PROVE  HandInv' /\ [Operations!Next]_(Operations!accounts)
<1>1. CASE \E e \in Edit, u \in DOMAIN users, r \in Request : LoadForEdit(e, u, r)
    BY <1>1, LoadIsCallEdit DEF Operations!Next
<1>2. CASE \E e \in Edit : StoreEdit(e) \/ FailEdit(e)
    BY <1>2, StoreIsPerform, FailIsFailEdit DEF Operations!Next
<1>3. ASSUME NEW row \in Body, create_api_user(row)
      PROVE  HandInv' /\ Operations!Next
  <2>1. /\ users' = Append(users, row)
        /\ providers' = providers /\ login' = login /\ edit' = edit
      BY <1>3, Zenon DEF create_api_user
  <2>2. HandInv' /\ UNCHANGED <<LoginCalls, EditCalls>>
      BY <2>1, NoCall
  <2>3. Operations!Create(row)
      BY <2>1, <2>2, Zenon DEF Operations!Create, LoginCalls, EditCalls
  <2> QED
      BY <2>2, <2>3, Zenon DEF Operations!Next
<1>4. ASSUME NEW u \in DOMAIN users, NEW row \in Body, update_api_user(u, row)
      PROVE  HandInv' /\ Operations!Next
  <2>1. /\ users' = [users EXCEPT ![u] = row]
        /\ providers' = providers /\ login' = login /\ edit' = edit
      BY <1>4, Zenon DEF update_api_user
  <2>2. HandInv' /\ UNCHANGED <<LoginCalls, EditCalls>>
      BY <2>1, NoCall
  <2>3. Operations!Replace(u, row)
      BY <2>1, <2>2, Zenon DEF Operations!Replace, LoginCalls, EditCalls
  <2> QED
      BY <2>2, <2>3, Zenon DEF Operations!Next
<1>5. CASE \/ \E g \in Group : create_group(g) \/ delete_group(g)
           \/ \E m \in Mapper : add_mapper(m) \/ remove_mapper(m)
  <2>1. users' = users /\ providers' = providers /\ login' = login /\ edit' = edit
      BY <1>5, Zenon DEF create_group, delete_group, add_mapper, remove_mapper
  <2>2. HandInv' /\ UNCHANGED <<LoginCalls, EditCalls>>
      BY <2>1, NoCall
  <2> QED
      BY <2>1, <2>2, Unseen
<1> QED
    BY <1>1, <1>2, <1>3, <1>4, <1>5, Zenon DEF AdminStep

-----------------------------------------------------------------------------
(* The refinement. *)

LEMMA StepAllowed ==
    ASSUME StateInv, HandInv, [Next]_accountVars
    PROVE  HandInv' /\ [Operations!Next]_(Operations!accounts)
<1>1. CASE \E l \in Login, i \in Identity : register_api_user(l, i)
    BY <1>1, RegisterIsCallLogin DEF Operations!Next
<1>2. CASE \E l \in Login : LoginStep(l)
    BY <1>2, LoginStepAllowed
<1>3. CASE AdminStep
    BY <1>3, AdminStepAllowed
<1>4. CASE UNCHANGED accountVars
  <2>1. users' = users /\ providers' = providers /\ login' = login /\ edit' = edit
      BY <1>4, Zenon DEF accountVars
  <2>2. HandInv' /\ UNCHANGED <<LoginCalls, EditCalls>>
      BY <2>1, NoCall
  <2> QED
      BY <2>1, <2>2, Unseen
<1> QED
    BY <1>1, <1>2, <1>3, <1>4, Zenon DEF Next

LEMMA InitAllowed == Init => HandInv /\ Operations!Init
<1> SUFFICES ASSUME Init PROVE HandInv /\ Operations!Init
    OBVIOUS
<1>1. /\ users = <<>> /\ providers = [i \in Identity |-> Nobody]
      /\ login = [l \in Login |-> Idle] /\ edit = [e \in Edit |-> Idle]
    BY Zenon DEF Init
<1>2. /\ \A l \in Login : login[l] = Idle /\ login[l].pc = "idle"
      /\ \A e \in Edit : edit[e] = Idle /\ edit[e].pc = "idle"
    BY <1>1 DEF Idle
<1>3. HandInv
    BY <1>2, Zenon DEF HandInv, GiftInv, NotBegun, Looping
<1>4. LoginCalls = [l \in Login |-> [at |-> "idle"]]
    BY <1>2, IdleView DEF LoginCalls
<1>5. EditCalls = [e \in Edit |-> [at |-> "idle"]]
    BY <1>2, IdleView DEF EditCalls
<1>6. Operations!Init
    BY <1>1, <1>4, <1>5, Zenon
    DEF Operations!Init, Operations!Nobody, Nobody, LoginCalls, EditCalls
<1> QED
    BY <1>3, <1>6

\* However many calls of register_api_user, add_api_user_to_group and the others
\* overlap, on one user or not, a call stores its user at most once, and what it
\* stores is its own change made to what the user was at one moment of the call; no
\* link of an identity is ever moved.  So an update is lost only to a call that had
\* begun before it, and never to one that begins after it.
THEOREM OnlyOverlapLoses == Spec => LostOnlyToOverlap
<1>1. Init => StateInv /\ HandInv /\ Operations!Init
    BY InitState, InitAllowed
<1>2. StateInv /\ HandInv /\ [Next]_accountVars
        => (StateInv /\ HandInv)' /\ [Operations!Next]_(Operations!accounts)
    BY StateStep, StepAllowed
<1> QED
    BY <1>1, <1>2, PTL DEF Spec, LostOnlyToOverlap, Operations!Spec

=============================================================================
