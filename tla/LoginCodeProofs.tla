--------------------------- MODULE LoginCodeProofs ---------------------------
(***************************************************************************)
(* What is proved of LoginCode, for any identities, calls, callbacks and   *)
(* attempts: the types, that a token is the user's who logged in, and that *)
(* a code which was sent to a client stays good as long as the callbacks   *)
(* of one attempt come one at a time.                                      *)
(***************************************************************************)
EXTENDS LoginCode, AccountProofs

-----------------------------------------------------------------------------
(* Links of identities. *)

\* A link that a login found or made is the link of its identity.
LinkInv ==
    \A l \in Login : login[l].pc # "idle" =>
        /\ login[l].found # Nobody => providers[login[l].identity] = login[l].found
        /\ login[l].pc = "done" => /\ login[l].user # Nobody
                                   /\ providers[login[l].identity] = login[l].user

LinksKept == \A i \in Identity : providers[i] # Nobody => providers'[i] = providers[i]

\* Calls that have begun keep their identity, and calls that are done do not change.
CallsGoOn ==
    \A l \in Login : login[l].pc # "idle" =>
        /\ login'[l].pc # "idle"
        /\ login'[l].identity = login[l].identity
        /\ login[l].pc = "done" => login'[l] = login[l]

\* What a step of a login does to links: when it is done, its user is linked.
Links(l, x) ==
    /\ Becomes(l, x)
    /\ login[l].pc # "done"
    /\ x.pc = "done" => x.user # Nobody /\ providers'[x.identity] = x.user
    /\ LinksKept

LEMMA LoopLinks ==
    ASSUME NEW l \in Login, NEW x \in LoginType,
           Loops(l, x) \/ Creates(l, x) \/ Copies(l, x)
    PROVE  Links(l, x)
<1>1. Becomes(l, x) /\ login[l].pc \in Looping /\ providers' = providers
  <2>1. CASE Loops(l, x)
      BY <2>1, Zenon DEF Loops
  <2>2. CASE Creates(l, x)
      BY <2>2, Zenon DEF Creates
  <2>3. CASE Copies(l, x)
      BY <2>3 DEF Copies, Tables
  <2> QED
      BY <2>1, <2>2, <2>3
<1>2. login[l].pc # "done"
    BY <1>1, SMT DEF Looping
<1>3. x.pc \in Looping \/ x.pc = "link" \/ x.pc = "store"
    BY Zenon DEF Loops, Creates, Copies
<1>4. x.pc # "done"
    BY <1>3 DEF Looping
<1> QED
    BY <1>1, <1>2, <1>4, Zenon DEF Links, LinksKept

LEMMA StoreUserLinks ==
    ASSUME StateInv, LinkInv, NEW l \in Login, StoreUser(l)
    PROVE  \E x \in LoginType : Links(l, x)
<1>1. PICK x \in LoginType : Stores(l, x)
    BY StoreUserStores
<1>2. /\ Becomes(l, x) /\ login[l].pc = "store" /\ x.user = login[l].found
      /\ providers' = providers
    BY <1>1, Zenon DEF Stores
<1>3. login[l].pc # "idle" /\ login[l].pc # "done"
    BY <1>2
<1>4. login[l].found # Nobody
    BY <1>2, <1>3, BegunLogin
<1>5. providers[login[l].identity] = login[l].found
    BY <1>3, <1>4, Zenon DEF LinkInv
<1>6. x.identity = login[l].identity
    BY <1>2, Zenon DEF Becomes
<1> QED
    BY <1>2, <1>3, <1>4, <1>5, <1>6, Zenon DEF Links, LinksKept

LEMMA LinkProviderLinks ==
    ASSUME StateInv, NEW l \in Login, LinkProvider(l)
    PROVE  \E x \in LoginType : Links(l, x)
<1> DEFINE i == login[l].identity
<1>1. login[l].pc = "link" /\ login[l].pc # "idle" /\ login[l].pc # "done"
    BY DEF LinkProvider
<1>2. login[l] \in LoginType /\ login[l].user # Nobody
    BY <1>1, BegunLogin
<1>3. i \in Identity
    BY <1>2, Zenon DEF LoginType
<1>4. providers \in [Identity -> 0 .. Len(users)]
    BY Zenon DEF StateInv, TypeOK
<1>5. CASE providers[i] = Nobody
  <2> DEFINE x == Ended(login[l], "done")
  <2>1. /\ x \in LoginType /\ x.pc = "done" /\ x.identity = i
        /\ x.found = login[l].found /\ x.user = login[l].user
      BY <1>2, EndedTyped
  <2>2. /\ login' = [login EXCEPT ![l] = x]
        /\ providers' = [providers EXCEPT ![i] = login[l].user]
      BY <1>5, Zenon DEF LinkProvider
  <2> HIDE DEF x
  <2>3. x.pc # "idle"
      BY <2>1
  <2>4. Becomes(l, x)
      BY <1>1, <2>1, <2>2, <2>3, Zenon DEF Becomes
  <2>5. providers'[x.identity] = x.user /\ x.user # Nobody
      BY <1>2, <1>3, <1>4, <2>1, <2>2, Zenon
  <2>6. LinksKept
      BY <1>3, <1>4, <1>5, <2>2, Zenon DEF LinksKept
  <2> QED
      BY <1>1, <2>1, <2>4, <2>5, <2>6, Zenon DEF Links
<1>6. CASE providers[i] # Nobody
  <2> DEFINE x == Ended(login[l], "failed")
  <2>1. /\ x \in LoginType /\ x.pc = "failed" /\ x.identity = i
        /\ x.found = login[l].found
      BY <1>2, EndedTyped
  <2>2. login' = [login EXCEPT ![l] = x] /\ providers' = providers
      BY <1>6, Zenon DEF LinkProvider
  <2> HIDE DEF x
  <2>3. x.pc # "idle" /\ x.pc # "done"
      BY <2>1
  <2>4. Becomes(l, x)
      BY <1>1, <2>1, <2>2, <2>3, Zenon DEF Becomes
  <2> QED
      BY <1>1, <2>1, <2>2, <2>3, <2>4, Zenon DEF Links, LinksKept
<1> QED
    BY <1>5, <1>6

LEMMA FailLoginLinks ==
    ASSUME StateInv, NEW l \in Login, FailLogin(l)
    PROVE  \E x \in LoginType : Links(l, x)
<1> DEFINE x == Ended(login[l], "failed")
<1>1. login[l].pc # "idle" /\ login[l].pc # "done"
    BY Zenon DEF FailLogin, LoggingIn
<1>2. login[l] \in LoginType
    BY <1>1, BegunLogin
<1>3. /\ x \in LoginType /\ x.pc = "failed" /\ x.identity = login[l].identity
      /\ x.found = login[l].found
    BY <1>2, EndedTyped
<1>4. login' = [login EXCEPT ![l] = x] /\ providers' = providers
    BY Zenon DEF FailLogin
<1> HIDE DEF x
<1>5. x.pc # "idle" /\ x.pc # "done"
    BY <1>3
<1>6. Becomes(l, x)
    BY <1>1, <1>3, <1>4, <1>5, Zenon DEF Becomes
<1> QED
    BY <1>1, <1>3, <1>4, <1>5, <1>6, Zenon DEF Links, LinksKept

LEMMA LoginStepLinks ==
    ASSUME StateInv, LinkInv, NEW l \in Login, LoginStep(l)
    PROVE  \E x \in LoginType : Links(l, x)
<1>1. CASE GetMappings(l)
    BY <1>1, GetMappingsLoops, LoopLinks
<1>2. CASE \E m \in Mapper : TestRule(l, m) \/ ConsumeActivation(l, m) \/ ApplyRule(l, m)
    BY <1>2, TestRuleLoops, ConsumeActivationLoops, ApplyRuleLoops, LoopLinks
<1>3. CASE CreateUser(l)
    BY <1>3, CreateUserCreates, LoopLinks
<1>4. CASE LinkProvider(l)
    BY <1>4, LinkProviderLinks
<1>5. CASE LoadUser(l)
    BY <1>5, LoadUserCopies, LoopLinks
<1>6. CASE StoreUser(l)
    BY <1>6, StoreUserLinks
<1>7. CASE FailLogin(l)
    BY <1>7, FailLoginLinks
<1> QED
    BY <1>1, <1>2, <1>3, <1>4, <1>5, <1>6, <1>7 DEF LoginStep

LEMMA LinksState ==
    ASSUME StateInv, LinkInv, NEW l \in Login, NEW x \in LoginType, Links(l, x)
    PROVE  LinkInv' /\ CallsGoOn
<1>1. /\ login' = [login EXCEPT ![l] = x]
      /\ login[l].pc # "idle" /\ x.pc # "idle" /\ login[l].pc # "done"
      /\ x.identity = login[l].identity /\ x.found = login[l].found
      /\ x.pc = "done" => x.user # Nobody /\ providers'[x.identity] = x.user
      /\ LinksKept
    BY Zenon DEF Links, Becomes
<1>2. login \in [Login -> LoginType \cup {Idle}]
    BY Zenon DEF StateInv, TypeOK
<1>3. login'[l] = x /\ \A k \in Login : k # l => login'[k] = login[k]
    BY <1>1, <1>2, Zenon
<1>4. CallsGoOn
    BY <1>1, <1>3, Zenon DEF CallsGoOn
<1>5. \A k \in Login : login[k].pc # "idle" => login[k].identity \in Identity
    BY BegunLogin, Zenon DEF LoginType
<1>6. x.found # Nobody => providers'[x.identity] = x.found
    BY <1>1, <1>5, Zenon DEF LinkInv, LinksKept
<1>7. LinkInv'
  <2> SUFFICES ASSUME NEW k \in Login, login'[k].pc # "idle"
               PROVE  /\ login'[k].found # Nobody =>
                             providers'[login'[k].identity] = login'[k].found
                      /\ login'[k].pc = "done" =>
                             /\ login'[k].user # Nobody
                             /\ providers'[login'[k].identity] = login'[k].user
      BY Zenon DEF LinkInv
  <2>1. CASE k = l
      BY <1>1, <1>3, <1>6, <2>1, Zenon
  <2>2. CASE k # l
    <3>1. login'[k] = login[k] /\ login[k].pc # "idle" /\ login[k].identity \in Identity
        BY <1>3, <1>5, <2>2
    <3>2. /\ login[k].found # Nobody => providers[login[k].identity] = login[k].found
          /\ login[k].pc = "done" => /\ login[k].user # Nobody
                                     /\ providers[login[k].identity] = login[k].user
        BY <3>1, Zenon DEF LinkInv
    <3>3. providers[login[k].identity] # Nobody =>
              providers'[login[k].identity] = providers[login[k].identity]
        BY <1>1, <3>1, Zenon DEF LinksKept
    <3> QED
        BY <3>1, <3>2, <3>3
  <2> QED
      BY <2>1, <2>2
<1> QED
    BY <1>4, <1>7

LEMMA RegisterLinks ==
    ASSUME StateInv, LinkInv, NEW l \in Login, NEW i \in Identity, register_api_user(l, i)
    PROVE  LinkInv' /\ LinksKept /\ CallsGoOn /\ login'[l].pc # "idle"
               /\ login'[l].identity = i
<1> DEFINE x == NewLogin(i)
<1>1. /\ login[l].pc = "idle" /\ login' = [login EXCEPT ![l] = x]
      /\ providers' = providers
    BY Zenon DEF register_api_user
<1>2. login \in [Login -> LoginType \cup {Idle}]
    BY Zenon DEF StateInv, TypeOK
<1>3. x.pc = "mappers" /\ x.identity = i /\ x.found = providers[i]
    BY Zenon DEF NewLogin
<1> HIDE DEF x
<1>4. x.pc # "idle" /\ x.pc # "done"
    BY <1>3
<1>5. login'[l] = x /\ \A k \in Login : k # l => login'[k] = login[k]
    BY <1>1, <1>2, Zenon
<1>6. LinkInv'
  <2> SUFFICES ASSUME NEW k \in Login, login'[k].pc # "idle"
               PROVE  /\ login'[k].found # Nobody =>
                             providers'[login'[k].identity] = login'[k].found
                      /\ login'[k].pc = "done" =>
                             /\ login'[k].user # Nobody
                             /\ providers'[login'[k].identity] = login'[k].user
      BY Zenon DEF LinkInv
  <2>1. CASE k = l
      BY <1>1, <1>3, <1>4, <1>5, <2>1, Zenon
  <2>2. CASE k # l
      BY <1>1, <1>5, <2>2, Zenon DEF LinkInv
  <2> QED
      BY <2>1, <2>2
<1> QED
    BY <1>1, <1>3, <1>4, <1>5, <1>6, Zenon DEF LinksKept, CallsGoOn

\* Administrators change neither links nor calls.
LEMMA AdminLinks ==
    ASSUME StateInv, AdminStep
    PROVE  UNCHANGED <<providers, login>>
<1>1. CASE \E e \in Edit, u \in DOMAIN users, r \in Request : LoadForEdit(e, u, r)
    BY <1>1, Zenon DEF LoadForEdit
<1>2. CASE \E e \in Edit : StoreEdit(e) \/ FailEdit(e)
    BY <1>2, Zenon DEF StoreEdit, FailEdit
<1>3. CASE \/ \E row \in Body : create_api_user(row)
           \/ \E u \in DOMAIN users, row \in Body : update_api_user(u, row)
           \/ \E g \in Group : create_group(g) \/ delete_group(g)
           \/ \E m \in Mapper : add_mapper(m) \/ remove_mapper(m)
    BY <1>3, AdminSteps
<1> QED
    BY <1>1, <1>2, <1>3 DEF AdminStep

\* What any step of the accounts keeps.
LEMMA AccountStep ==
    ASSUME StateInv, LinkInv, [Next]_accountVars
    PROVE  StateInv' /\ LinkInv' /\ LinksKept /\ CallsGoOn
<1>1. StateInv'
    BY StateStep
<1>2. CASE \E l \in Login, i \in Identity : register_api_user(l, i)
    BY <1>1, <1>2, RegisterLinks
<1>3. CASE \E l \in Login : LoginStep(l)
  <2>1. PICK l \in Login : LoginStep(l)
      BY <1>3
  <2>2. PICK x \in LoginType : Links(l, x)
      BY <2>1, LoginStepLinks
  <2>3. LinksKept
      BY <2>2, Zenon DEF Links
  <2> QED
      BY <1>1, <2>2, <2>3, LinksState
<1>4. CASE UNCHANGED <<providers, login>>
    BY <1>1, <1>4, Zenon DEF LinkInv, LinksKept, CallsGoOn
<1>5. CASE AdminStep
    BY <1>4, <1>5, AdminLinks
<1>6. CASE UNCHANGED accountVars
    BY <1>4, <1>6, Zenon DEF accountVars
<1> QED
    BY <1>2, <1>3, <1>5, <1>6 DEF Next

-----------------------------------------------------------------------------
(* Codes and tokens. *)

\* The provider named somebody to the callback.
Named(b) == callback[b].pc = "done" /\ callback[b].answer \in Identity

CodeTypes ==
    /\ attempts \in [Attempt -> AttemptType]
    /\ callback \in [Callback -> CallbackType \cup {Idle}]
    /\ exchange \in [Login -> ExchangeType \cup {Idle}]
    /\ spent \subseteq Callback

AttemptInv == \A a \in Attempt : attempts[a].code \in Callback => Named(attempts[a].code)

\* A code that was verified is one of a callback that named somebody; who is
\* registered then is whom that callback named.
ExchangeInv ==
    \A l \in Login : exchange[l].pc \in {"verified", "registering", "issued"} =>
        /\ exchange[l].code \in Callback => Named(exchange[l].code)
        /\ exchange[l].pc = "verified" => exchange[l].code \in Callback
        /\ exchange[l].pc # "verified" =>
              /\ login[l].pc # "idle"
              /\ exchange[l].code \in Callback =>
                    login[l].identity = callback[exchange[l].code].answer

Token(l) == [login |-> l, user |-> login[l].user]

TokenInv ==
    \A t \in tokens : \E l \in Login :
        t = Token(l) /\ login[l].pc = "done" /\ exchange[l].pc = "issued"

CodeInv == CodeTypes /\ AttemptInv /\ ExchangeInv /\ TokenInv
AllInv == StateInv /\ LinkInv /\ CodeInv

\* What a callback brought is not changed once it is stored.
DoneKept == \A b \in Callback : callback[b].pc = "done" => callback'[b] = callback[b]

LEMMA NamedKept ==
    ASSUME DoneKept, NEW b \in Callback, Named(b)
    PROVE  callback'[b] = callback[b] /\ Named(b)'
BY Zenon DEF DoneKept, Named

-----------------------------------------------------------------------------
(* Steps of attempts and callbacks. *)

\* What they keep: everything but attempts and callbacks, and of callbacks
\* those that are done.
AttemptKeeps ==
    /\ UNCHANGED <<users, providers, groups, mappers, activations, depleted, login, edit>>
    /\ UNCHANGED <<exchange, spent, tokens>>
    /\ attempts' \in [Attempt -> AttemptType]
    /\ callback' \in [Callback -> CallbackType \cup {Idle}]
    /\ DoneKept
    /\ AttemptInv'

LEMMA RedirectKeeps ==
    ASSUME CodeInv, NEW a \in Attempt, NEW error \in {"none", "invalid_scope"},
           authz_code_redirect(a, error) \/ Expire(a)
    PROVE  AttemptKeeps
<1>1. attempts \in [Attempt -> AttemptType] /\ callback \in [Callback -> CallbackType \cup {Idle}]
    BY Zenon DEF CodeInv, CodeTypes
<1>2. attempts[a] \in AttemptType
    BY <1>1, Zenon
<1>3. error \in Error
    BY SMT DEF Error
<1>4. PICK x \in AttemptType : attempts' = [attempts EXCEPT ![a] = x] /\ x.code = attempts[a].code
  <2>1. CASE authz_code_redirect(a, error)
    <3> DEFINE x == [attempts[a] EXCEPT !.state = "New", !.error = error]
    <3>1. attempts' = [attempts EXCEPT ![a] = x]
        BY <2>1, Zenon DEF authz_code_redirect
    <3>2. x \in AttemptType /\ x.code = attempts[a].code
        BY <1>2, <1>3, Zenon DEF AttemptType
    <3> QED
        BY <3>1, <3>2
  <2>2. CASE Expire(a)
    <3> DEFINE x == [attempts[a] EXCEPT !.expired = TRUE]
    <3>1. attempts' = [attempts EXCEPT ![a] = x]
        BY <2>2, Zenon DEF Expire
    <3>2. x \in AttemptType /\ x.code = attempts[a].code
        BY <1>2, Zenon DEF AttemptType
    <3> QED
        BY <3>1, <3>2
  <2> QED
      BY <2>1, <2>2
<1>5. /\ UNCHANGED <<users, providers, groups, mappers, activations, depleted, login, edit>>
      /\ UNCHANGED <<callback, exchange, spent, tokens>>
    BY Zenon DEF authz_code_redirect, Expire, accountVars, admin, counts
<1>6. \A c \in Attempt : attempts'[c].code = attempts[c].code
    BY <1>1, <1>4, Zenon
<1>7. AttemptInv'
    BY <1>5, <1>6, Zenon DEF CodeInv, AttemptInv, Named
<1> QED
    BY <1>1, <1>4, <1>5, <1>7, Zenon DEF AttemptKeeps, DoneKept

\* A callback that was not done gets another value, and its attempt may get
\* the code of a callback that is now done.
LEMMA CallbackKeeps ==
    ASSUME CodeInv, NEW b \in Callback, NEW x \in CallbackType \cup {Idle},
           callback[b].pc # "done",
           callback' = [callback EXCEPT ![b] = x],
           UNCHANGED <<users, providers, groups, mappers, activations, depleted, login, edit>>,
           UNCHANGED <<exchange, spent, tokens>>,
           attempts' \in [Attempt -> AttemptType],
           \A a \in Attempt : \/ attempts'[a].code = attempts[a].code
                              \/ attempts'[a].code = NoCode
                              \/ /\ attempts'[a].code = b
                                 /\ x.pc = "done" /\ x.answer \in Identity
    PROVE  AttemptKeeps
<1>1. callback \in [Callback -> CallbackType \cup {Idle}] /\ AttemptInv
    BY Zenon DEF CodeInv, CodeTypes
<1>2. callback'[b] = x /\ \A c \in Callback : c # b => callback'[c] = callback[c]
    BY <1>1, Zenon
<1>3. callback' \in [Callback -> CallbackType \cup {Idle}]
    BY <1>1, Zenon
<1>4. DoneKept
    BY <1>2, Zenon DEF DoneKept
<1>5. AttemptInv'
  <2> SUFFICES ASSUME NEW a \in Attempt, attempts'[a].code \in Callback
               PROVE  /\ callback'[attempts'[a].code].pc = "done"
                      /\ callback'[attempts'[a].code].answer \in Identity
      BY Zenon DEF AttemptInv, Named
  <2>1. CASE attempts'[a].code = attempts[a].code
    <3>1. PICK c \in Callback : c = attempts[a].code /\ c = attempts'[a].code
        BY <2>1
    <3>2. Named(c)
        BY <1>1, <3>1, Zenon DEF AttemptInv
    <3>3. Named(c)'
        BY <1>4, <3>2, NamedKept
    <3> QED
        BY <3>1, <3>3, Zenon DEF Named
  <2>2. CASE attempts'[a].code = NoCode
      BY <2>2, LoginAssumption DEF LoginAssumption
  <2>3. CASE attempts'[a].code = b /\ x.pc = "done" /\ x.answer \in Identity
      BY <1>2, <2>3, Zenon DEF Named
  <2> QED
      BY <2>1, <2>2, <2>3
<1> QED
    BY <1>3, <1>4, <1>5, Zenon DEF AttemptKeeps

LEMMA ReturnKeeps ==
    ASSUME CodeInv, NEW b \in Callback, NEW a \in Attempt, NEW answer \in Answer,
           authz_code_callback(b, a, answer)
    PROVE  AttemptKeeps
<1> DEFINE x == [pc |-> "store", attempt |-> a, answer |-> answer, sent |-> NoUrl]
<1>1. /\ callback[b] = Idle
      /\ callback' = [callback EXCEPT ![b] = x]
      /\ UNCHANGED <<users, providers, groups, mappers, activations, depleted, login, edit>>
      /\ UNCHANGED <<attempts, exchange, spent, tokens>>
    BY Zenon DEF authz_code_callback, accountVars, admin, counts
<1>2. callback[b].pc # "done"
    BY <1>1 DEF Idle
<1>3. NoUrl \in Url
    BY SMT DEF NoUrl, Url, Code, Error
<1>4. x \in CallbackType
    BY <1>3, Zenon DEF CallbackType
<1> HIDE DEF x
<1>5. attempts' \in [Attempt -> AttemptType]
    BY <1>1, Zenon DEF CodeInv, CodeTypes
<1> QED
    BY <1>1, <1>2, <1>4, <1>5, CallbackKeeps

\* What StoreAttempt does, for a change that sets a code only when the provider
\* named somebody.
Change == [state : {"RemoteAuthenticated", "Failed"}, code : Code, error : Error]

Stored(b, change) ==
    [attempts[callback[b].attempt] EXCEPT !.state = change.state, !.code = change.code,
                                          !.error = change.error]

LEMMA StoreAttemptStores ==
    ASSUME CodeInv, NEW b \in Callback, callback[b].pc = "store",
           NEW change \in Change, StoreAttempt(b, change)
    PROVE  \E a \in Attempt, row \in AttemptType, x \in CallbackType :
              /\ a = callback[b].attempt
              /\ row.state = change.state /\ row.code = change.code
              /\ x.pc = "done" /\ x.attempt = a /\ x.answer = callback[b].answer
              /\ x.sent.code \in {change.code, NoCode}
              /\ attempts' = [attempts EXCEPT ![a] = row]
              /\ callback' = [callback EXCEPT ![b] = x]
              /\ UNCHANGED <<users, providers, groups, mappers, activations, depleted,
                             login, edit>>
              /\ UNCHANGED <<exchange, spent, tokens>>
<1> DEFINE a == callback[b].attempt
           old == Loaded(attempts[a])
           row == [old EXCEPT !.state = change.state, !.code = change.code,
                              !.error = change.error]
           url == callback_url(Loaded(row))
           x == [callback[b] EXCEPT !.pc = "done", !.sent = url]
<1>1. /\ attempts' = [attempts EXCEPT ![a] = row]
      /\ callback' = [callback EXCEPT ![b] = x]
      /\ UNCHANGED <<users, providers, groups, mappers, activations, depleted, login, edit>>
      /\ UNCHANGED <<exchange, spent, tokens>>
    BY Zenon DEF StoreAttempt, accountVars, admin, counts
<1>2. /\ attempts \in [Attempt -> AttemptType]
      /\ callback[b] \in CallbackType \cup {Idle}
    BY Zenon DEF CodeInv, CodeTypes
<1>3. callback[b] # Idle
    BY DEF Idle
<1>4. callback[b] \in CallbackType /\ a \in Attempt
    BY <1>2, <1>3, Zenon DEF CallbackType
<1>5. attempts[a] \in AttemptType
    BY <1>2, <1>4, Zenon
<1>6. "none" \in Error
    BY DEF Error
<1>7. old \in AttemptType
    BY <1>5, <1>6, Zenon DEF Loaded, AttemptType
<1> HIDE DEF old
<1>8. /\ row \in AttemptType
      /\ row.state = change.state /\ row.code = change.code
    BY <1>7, Zenon DEF Change, AttemptType
<1> HIDE DEF row
<1>9. Loaded(row) \in AttemptType /\ Loaded(row).code = change.code
    BY <1>6, <1>8, Zenon DEF Loaded, AttemptType
<1>10. url \in Url /\ url.code \in {change.code, NoCode}
  <2>1. \A r \in AttemptType : callback_url(r) \in Url /\ callback_url(r).code \in {r.code, NoCode}
      BY SMT DEF callback_url, Url, Code, AttemptType
  <2> QED
      BY <1>9, <2>1, Zenon
<1> HIDE DEF url
<1>11. /\ x \in CallbackType
       /\ x.pc = "done" /\ x.attempt = a /\ x.answer = callback[b].answer /\ x.sent = url
    BY <1>4, <1>10, Zenon DEF CallbackType
<1> HIDE DEF x
<1> QED
    BY <1>1, <1>4, <1>8, <1>10, <1>11, Zenon

LEMMA StoreAttemptKeeps ==
    ASSUME CodeInv, NEW b \in Callback, callback[b].pc = "store",
           NEW change \in Change, StoreAttempt(b, change),
           change.code = NoCode \/ (change.code = b /\ callback[b].answer \in Identity)
    PROVE  AttemptKeeps
<1>1. PICK a \in Attempt, row \in AttemptType, x \in CallbackType :
              /\ a = callback[b].attempt
              /\ row.state = change.state /\ row.code = change.code
              /\ x.pc = "done" /\ x.attempt = a /\ x.answer = callback[b].answer
              /\ x.sent.code \in {change.code, NoCode}
              /\ attempts' = [attempts EXCEPT ![a] = row]
              /\ callback' = [callback EXCEPT ![b] = x]
              /\ UNCHANGED <<users, providers, groups, mappers, activations, depleted,
                             login, edit>>
              /\ UNCHANGED <<exchange, spent, tokens>>
    BY StoreAttemptStores
<1>2. attempts \in [Attempt -> AttemptType]
    BY Zenon DEF CodeInv, CodeTypes
<1>3. attempts' \in [Attempt -> AttemptType]
    BY <1>1, <1>2, Zenon
<1>4. callback[b].pc # "done"
    OBVIOUS
<1>5. \A c \in Attempt : \/ attempts'[c].code = attempts[c].code
                         \/ attempts'[c].code = NoCode
                         \/ /\ attempts'[c].code = b
                            /\ x.pc = "done" /\ x.answer \in Identity
    BY <1>1, <1>2, Zenon
<1> QED
    BY <1>1, <1>3, <1>4, <1>5, CallbackKeeps

\* What the two that store an attempt change it to.
LEMMA Changes ==
    ASSUME NEW b \in Callback
    PROVE  /\ set_login_provider_authz_code(b) =>
                 \E change \in Change :
                    /\ callback[b].pc = "store" /\ StoreAttempt(b, change)
                    /\ change.state = "RemoteAuthenticated" /\ change.code = b
                    /\ callback[b].answer \in Identity
           /\ fail_login_attempt(b) =>
                 \E change \in Change :
                    /\ callback[b].pc = "store" /\ StoreAttempt(b, change)
                    /\ change.state = "Failed" /\ change.code = NoCode
<1>1. ASSUME set_login_provider_authz_code(b)
      PROVE  \E change \in Change :
                    /\ callback[b].pc = "store" /\ StoreAttempt(b, change)
                    /\ change.state = "RemoteAuthenticated" /\ change.code = b
                    /\ callback[b].answer \in Identity
  <2> DEFINE change == [state |-> "RemoteAuthenticated", code |-> b, error |-> "none"]
  <2>1. "none" \in Error /\ b \in Code
      BY SMT DEF Error, Code
  <2>2. change \in Change /\ change.state = "RemoteAuthenticated" /\ change.code = b
      BY <2>1, Zenon DEF Change
  <2>3. /\ callback[b].pc = "store" /\ StoreAttempt(b, change)
        /\ callback[b].answer \in Identity
      BY <1>1, Zenon DEF set_login_provider_authz_code
  <2> QED
      BY <2>2, <2>3, Zenon
<1>2. ASSUME fail_login_attempt(b)
      PROVE  \E change \in Change :
                    /\ callback[b].pc = "store" /\ StoreAttempt(b, change)
                    /\ change.state = "Failed" /\ change.code = NoCode
  <2> DEFINE e == IF callback[b].answer = "access_denied"
                  THEN "access_denied" ELSE "server_error"
             change == [state |-> "Failed", code |-> NoCode, error |-> e]
  <2>1. e \in Error /\ NoCode \in Code
    <3>1. e = "access_denied" \/ e = "server_error"
        BY Zenon
    <3> QED
        BY <3>1, Zenon DEF Error, Code
  <2>2. callback[b].pc = "store" /\ StoreAttempt(b, change)
      BY <1>2, Zenon DEF fail_login_attempt
  <2> HIDE DEF e
  <2>3. change \in Change /\ change.state = "Failed" /\ change.code = NoCode
      BY <2>1, Zenon DEF Change
  <2> QED
      BY <2>2, <2>3, Zenon
<1> QED
    BY <1>1, <1>2

LEMMA FailCallbackFails ==
    ASSUME CodeInv, NEW b \in Callback, FailCallback(b)
    PROVE  \E x \in CallbackType :
              /\ callback[b].pc = "store"
              /\ x = [callback[b] EXCEPT !.pc = "failed"]
              /\ x.pc = "failed" /\ x.sent = callback[b].sent
              /\ x.attempt = callback[b].attempt
              /\ callback' = [callback EXCEPT ![b] = x]
              /\ UNCHANGED <<users, providers, groups, mappers, activations, depleted,
                             login, edit>>
              /\ UNCHANGED <<attempts, exchange, spent, tokens>>
<1> DEFINE x == [callback[b] EXCEPT !.pc = "failed"]
<1>1. /\ callback[b].pc = "store"
      /\ callback' = [callback EXCEPT ![b] = x]
      /\ UNCHANGED <<users, providers, groups, mappers, activations, depleted, login, edit>>
      /\ UNCHANGED <<attempts, exchange, spent, tokens>>
    BY Zenon DEF FailCallback, accountVars, admin, counts
<1>2. callback[b] \in CallbackType \cup {Idle}
    BY Zenon DEF CodeInv, CodeTypes
<1>3. callback[b] # Idle
    BY <1>1 DEF Idle
<1>4. callback[b] \in CallbackType
    BY <1>2, <1>3
<1>5. /\ x \in CallbackType
      /\ x.pc = "failed" /\ x.sent = callback[b].sent /\ x.attempt = callback[b].attempt
    BY <1>4, Zenon DEF CallbackType
<1> QED
    BY <1>1, <1>5, Zenon

LEMMA AttemptStepKeeps ==
    ASSUME CodeInv, AttemptStep
    PROVE  AttemptKeeps
<1>1. CASE \E a \in Attempt, error \in {"none", "invalid_scope"} :
              authz_code_redirect(a, error)
    BY <1>1, RedirectKeeps
<1>2. CASE \E a \in Attempt : Expire(a)
  <2>1. "none" \in {"none", "invalid_scope"}
      OBVIOUS
  <2> QED
      BY <1>2, <2>1, RedirectKeeps
<1>3. CASE \E b \in Callback, a \in Attempt, answer \in Answer :
              authz_code_callback(b, a, answer)
    BY <1>3, ReturnKeeps
<1>4. CASE \E b \in Callback : set_login_provider_authz_code(b) \/ fail_login_attempt(b)
    BY <1>4, Changes, StoreAttemptKeeps
<1>5. CASE \E b \in Callback : FailCallback(b)
  <2>1. PICK b \in Callback : FailCallback(b)
      BY <1>5
  <2>2. PICK x \in CallbackType :
              /\ callback[b].pc = "store"
              /\ callback' = [callback EXCEPT ![b] = x]
              /\ UNCHANGED <<users, providers, groups, mappers, activations, depleted,
                             login, edit>>
              /\ UNCHANGED <<attempts, exchange, spent, tokens>>
      BY <2>1, FailCallbackFails
  <2>3. attempts' \in [Attempt -> AttemptType] /\ callback[b].pc # "done"
      BY <2>2, Zenon DEF CodeInv, CodeTypes
  <2>4. callback[b].pc # "done"
      BY <2>2
  <2> QED
      BY <2>2, <2>3, <2>4, CallbackKeeps
<1> QED
    BY <1>1, <1>2, <1>3, <1>4, <1>5 DEF AttemptStep

-----------------------------------------------------------------------------
(* Steps of exchanges. *)

\* An exchange is replaced by y; nothing of attempts and callbacks changes.
Exchanges(l, y) ==
    /\ exchange' = [exchange EXCEPT ![l] = y]
    /\ y \in ExchangeType
    /\ UNCHANGED <<attempts, callback>>
    /\ spent' \subseteq Callback

\* The exchange as it is when it has begun.
LEMMA BegunExchange ==
    ASSUME CodeInv, NEW l \in Login, exchange[l].pc \in {"verified", "registering", "issued"}
    PROVE  /\ exchange[l] \in ExchangeType
           /\ exchange[l].code \in Callback => Named(exchange[l].code)
           /\ exchange[l].pc = "verified" => exchange[l].code \in Callback
           /\ exchange[l].pc # "verified" =>
                 /\ login[l].pc # "idle"
                 /\ exchange[l].code \in Callback =>
                       login[l].identity = callback[exchange[l].code].answer
<1>1. exchange[l] \in ExchangeType \cup {Idle}
    BY Zenon DEF CodeInv, CodeTypes
<1>2. exchange[l] # Idle
    BY DEF Idle
<1> QED
    BY <1>1, <1>2, Zenon DEF CodeInv, ExchangeInv

LEMMA ExchangeTyped ==
    ASSUME NEW x \in ExchangeType, NEW pc \in {"verified", "registering", "issued", "failed"}
    PROVE  /\ [x EXCEPT !.pc = pc] \in ExchangeType
           /\ [x EXCEPT !.pc = pc].pc = pc
           /\ [x EXCEPT !.pc = pc].code = x.code
BY Zenon DEF ExchangeType

\* A client's code is verified, or a call to the provider fails.
LEMMA ExchangeAlone ==
    ASSUME CodeInv, NEW l \in Login,
           (\E b \in Callback : authz_code_exchange(l, b)) \/ FetchFails(l)
    PROVE  \E y \in ExchangeType :
              /\ Exchanges(l, y)
              /\ exchange[l].pc # "issued"
              /\ y.pc = "failed" \/ (y.pc = "verified" /\ y.code \in Callback /\ Named(y.code))
              /\ UNCHANGED <<accountVars, tokens>>
<1>1. CASE \E b \in Callback : authz_code_exchange(l, b)
  <2>1. PICK b \in Callback : authz_code_exchange(l, b)
      BY <1>1
  <2> DEFINE y == [pc |-> "verified", code |-> b]
  <2>2. /\ exchange[l] = Idle
        /\ exchange' = [exchange EXCEPT ![l] = y]
        /\ UNCHANGED <<accountVars, attempts, callback, spent, tokens>>
      BY <2>1, Zenon DEF authz_code_exchange
  <2>3. exchange[l].pc # "issued"
      BY <2>2 DEF Idle
  <2>4. b \in Code
      BY Zenon DEF Code
  <2>5. y \in ExchangeType /\ y.pc = "verified" /\ y.code = b
      BY <2>4, Zenon DEF ExchangeType
  <2>6. Named(b)
      BY <2>1, Zenon DEF authz_code_exchange, CodeInv, AttemptInv
  <2> HIDE DEF y
  <2>7. spent \subseteq Callback
      BY Zenon DEF CodeInv, CodeTypes
  <2> QED
      BY <2>2, <2>3, <2>5, <2>6, <2>7, Zenon DEF Exchanges
<1>2. CASE FetchFails(l)
  <2> DEFINE y == [exchange[l] EXCEPT !.pc = "failed"]
  <2>1. /\ exchange[l].pc = "verified"
        /\ exchange' = [exchange EXCEPT ![l] = y]
        /\ spent' \in {spent, spent \cup {exchange[l].code}}
        /\ UNCHANGED <<accountVars, attempts, callback, tokens>>
      BY <1>2, Zenon DEF FetchFails
  <2>2. exchange[l] \in ExchangeType /\ exchange[l].code \in Callback
      BY <2>1, BegunExchange
  <2>3. y \in ExchangeType /\ y.pc = "failed"
      BY <2>2, ExchangeTyped
  <2>4. spent' \subseteq Callback
      BY <2>1, <2>2, Zenon DEF CodeInv, CodeTypes
  <2>5. exchange[l].pc # "issued"
      BY <2>1
  <2> HIDE DEF y
  <2> QED
      BY <2>1, <2>3, <2>4, <2>5, Zenon DEF Exchanges
<1> QED
    BY <1>1, <1>2

\* Registration begins, for whom the provider named.
LEMMA ExchangeRegisters ==
    ASSUME CodeInv, NEW l \in Login,
           FetchUserInfo(l) \/ \E i \in Identity : exchange_device_token(l, i)
    PROVE  \E y \in ExchangeType, i \in Identity :
              /\ Exchanges(l, y)
              /\ exchange[l].pc # "issued"
              /\ y.pc = "registering"
              /\ y.code \in Callback => Named(y.code) /\ callback[y.code].answer = i
              /\ register_api_user(l, i)
              /\ UNCHANGED tokens
<1>1. CASE FetchUserInfo(l)
  <2> DEFINE y == [exchange[l] EXCEPT !.pc = "registering"]
             i == callback[exchange[l].code].answer
  <2>1. /\ exchange[l].pc = "verified"
        /\ exchange' = [exchange EXCEPT ![l] = y]
        /\ spent' = spent \cup {exchange[l].code}
        /\ register_api_user(l, i)
        /\ UNCHANGED <<attempts, callback, tokens>>
      BY <1>1, Zenon DEF FetchUserInfo
  <2>2. /\ exchange[l] \in ExchangeType /\ exchange[l].code \in Callback
        /\ Named(exchange[l].code)
      BY <2>1, BegunExchange
  <2>3. y \in ExchangeType /\ y.pc = "registering" /\ y.code = exchange[l].code
      BY <2>2, ExchangeTyped
  <2>4. i \in Identity
      BY <2>2, Zenon DEF Named
  <2>5. spent' \subseteq Callback
      BY <2>1, <2>2, Zenon DEF CodeInv, CodeTypes
  <2>6. exchange[l].pc # "issued"
      BY <2>1
  <2> HIDE DEF y
  <2> QED
      BY <2>1, <2>2, <2>3, <2>4, <2>5, <2>6, Zenon DEF Exchanges
<1>2. CASE \E i \in Identity : exchange_device_token(l, i)
  <2>1. PICK i \in Identity : exchange_device_token(l, i)
      BY <1>2
  <2> DEFINE y == [pc |-> "registering", code |-> NoCode]
  <2>2. /\ exchange[l] = Idle
        /\ exchange' = [exchange EXCEPT ![l] = y]
        /\ register_api_user(l, i)
        /\ UNCHANGED <<attempts, callback, spent, tokens>>
      BY <2>1, Zenon DEF exchange_device_token
  <2>3. exchange[l].pc # "issued"
      BY <2>2 DEF Idle
  <2>4. y \in ExchangeType /\ y.pc = "registering" /\ y.code = NoCode
      BY Zenon DEF ExchangeType, Code
  <2> HIDE DEF y
  <2>5. y.code \notin Callback
      BY <2>4, LoginAssumption DEF LoginAssumption
  <2>6. spent \subseteq Callback
      BY Zenon DEF CodeInv, CodeTypes
  <2> QED
      BY <2>2, <2>3, <2>4, <2>5, <2>6, Zenon DEF Exchanges
<1> QED
    BY <1>1, <1>2

\* A token is recorded for the user of a registration that is done.
LEMMA ExchangeIssues ==
    ASSUME CodeInv, NEW l \in Login, register_access_token(l)
    PROVE  \E y \in ExchangeType :
              /\ Exchanges(l, y)
              /\ exchange[l].pc = "registering" /\ y.pc = "issued"
              /\ y.code = exchange[l].code
              /\ login[l].pc = "done"
              /\ tokens' = tokens \cup {Token(l)}
              /\ UNCHANGED accountVars
<1> DEFINE y == [exchange[l] EXCEPT !.pc = "issued"]
<1>1. /\ exchange[l].pc = "registering"
      /\ login[l].pc = "done"
      /\ exchange' = [exchange EXCEPT ![l] = y]
      /\ tokens' = tokens \cup {Token(l)}
      /\ UNCHANGED <<accountVars, attempts, callback, spent>>
    BY Zenon DEF register_access_token, Token
<1>2. exchange[l] \in ExchangeType
    BY <1>1, BegunExchange
<1>3. y \in ExchangeType /\ y.pc = "issued" /\ y.code = exchange[l].code
    BY <1>2, ExchangeTyped
<1>4. spent \subseteq Callback
    BY Zenon DEF CodeInv, CodeTypes
<1> HIDE DEF y
<1> QED
    BY <1>1, <1>3, <1>4, Zenon DEF Exchanges

-----------------------------------------------------------------------------
(* AllInv is inductive. *)

\* A token that was recorded is still that of its login after any step of the
\* accounts.
LEMMA TokenKept ==
    ASSUME CallsGoOn, NEW l \in Login, login[l].pc = "done"
    PROVE  login'[l].pc = "done" /\ Token(l)' = Token(l)
<1>1. login[l].pc # "idle"
    OBVIOUS
<1> QED
    BY <1>1, Zenon DEF CallsGoOn, Token

\* Steps that leave exchanges alone.
LEMMA CodesKept ==
    ASSUME CodeInv, DoneKept, CallsGoOn,
           UNCHANGED <<exchange, spent, tokens>>,
           attempts' \in [Attempt -> AttemptType],
           callback' \in [Callback -> CallbackType \cup {Idle}],
           AttemptInv'
    PROVE  CodeInv'
<1>1. CodeTypes'
    BY Zenon DEF CodeInv, CodeTypes
<1>2. ExchangeInv'
  <2> SUFFICES ASSUME NEW l \in Login,
                      exchange'[l].pc \in {"verified", "registering", "issued"}
               PROVE  /\ exchange'[l].code \in Callback =>
                           /\ callback'[exchange'[l].code].pc = "done"
                           /\ callback'[exchange'[l].code].answer \in Identity
                      /\ exchange'[l].pc = "verified" => exchange'[l].code \in Callback
                      /\ exchange'[l].pc # "verified" =>
                           /\ login'[l].pc # "idle"
                           /\ exchange'[l].code \in Callback =>
                                login'[l].identity = callback'[exchange'[l].code].answer
      BY Zenon DEF ExchangeInv, Named
  <2>1. exchange'[l] = exchange[l]
      OBVIOUS
  <2>2. exchange[l].code \in Callback =>
           /\ Named(exchange[l].code)
           /\ callback'[exchange[l].code] = callback[exchange[l].code]
    <3> SUFFICES ASSUME NEW b \in Callback, b = exchange[l].code
                 PROVE  Named(b) /\ callback'[b] = callback[b]
        OBVIOUS
    <3>1. Named(b)
        BY <2>1, BegunExchange
    <3> QED
        BY <3>1, NamedKept
  <2>3. login[l].pc # "idle" => /\ login'[l].pc # "idle"
                                /\ login'[l].identity = login[l].identity
      BY Zenon DEF CallsGoOn
  <2>4. /\ exchange[l].pc = "verified" => exchange[l].code \in Callback
        /\ exchange[l].pc # "verified" =>
              /\ login[l].pc # "idle"
              /\ exchange[l].code \in Callback =>
                    login[l].identity = callback[exchange[l].code].answer
      BY <2>1, BegunExchange
  <2> QED
      BY <2>1, <2>2, <2>3, <2>4, Zenon DEF Named
<1>3. TokenInv'
  <2> SUFFICES ASSUME NEW t \in tokens
               PROVE  \E l \in Login : t = Token(l)' /\ login'[l].pc = "done"
                                          /\ exchange'[l].pc = "issued"
      BY Zenon DEF TokenInv
  <2>1. PICK l \in Login : t = Token(l) /\ login[l].pc = "done" /\ exchange[l].pc = "issued"
      BY Zenon DEF CodeInv, TokenInv
  <2> QED
      BY <2>1, TokenKept
<1> QED
    BY <1>1, <1>2, <1>3 DEF CodeInv

\* Steps of one exchange.
LEMMA CodesExchanged ==
    ASSUME CodeInv, CallsGoOn, NEW l \in Login, NEW y \in ExchangeType, Exchanges(l, y),
           exchange[l].pc # "issued",
           y.pc \in {"verified", "registering", "issued"} =>
              /\ y.code \in Callback => Named(y.code)
              /\ y.pc = "verified" => y.code \in Callback
              /\ y.pc # "verified" =>
                    /\ login'[l].pc # "idle"
                    /\ y.code \in Callback => login'[l].identity = callback[y.code].answer,
           \/ UNCHANGED tokens
           \/ /\ tokens' = tokens \cup {Token(l)} /\ y.pc = "issued"
              /\ login[l].pc = "done"
    PROVE  CodeInv'
<1>1. /\ exchange' = [exchange EXCEPT ![l] = y]
      /\ UNCHANGED <<attempts, callback>> /\ spent' \subseteq Callback
    BY Zenon DEF Exchanges
<1>2. exchange \in [Login -> ExchangeType \cup {Idle}]
    BY Zenon DEF CodeInv, CodeTypes
<1>3. exchange'[l] = y /\ \A k \in Login : k # l => exchange'[k] = exchange[k]
    BY <1>1, <1>2, Zenon
<1>4. exchange' \in [Login -> ExchangeType \cup {Idle}]
    BY <1>1, <1>2, Zenon
<1>5. CodeTypes' /\ AttemptInv'
    BY <1>1, <1>4, Zenon DEF CodeInv, CodeTypes, AttemptInv, Named
<1>6. ExchangeInv'
  <2> SUFFICES ASSUME NEW k \in Login,
                      exchange'[k].pc \in {"verified", "registering", "issued"}
               PROVE  /\ exchange'[k].code \in Callback => Named(exchange'[k].code)
                      /\ exchange'[k].pc = "verified" => exchange'[k].code \in Callback
                      /\ exchange'[k].pc # "verified" =>
                           /\ login'[k].pc # "idle"
                           /\ exchange'[k].code \in Callback =>
                                login'[k].identity = callback[exchange'[k].code].answer
      BY <1>1, Zenon DEF ExchangeInv, Named
  <2>1. CASE k = l
      BY <1>3, <2>1
  <2>2. CASE k # l
    <3>1. exchange'[k] = exchange[k]
        BY <1>3, <2>2
    <3>2. login[k].pc # "idle" => /\ login'[k].pc # "idle"
                                  /\ login'[k].identity = login[k].identity
        BY Zenon DEF CallsGoOn
    <3> QED
        BY <3>1, <3>2, BegunExchange
  <2> QED
      BY <2>1, <2>2
<1>7. TokenInv'
  <2> SUFFICES ASSUME NEW t \in tokens'
               PROVE  \E k \in Login : t = Token(k)' /\ login'[k].pc = "done"
                                          /\ exchange'[k].pc = "issued"
      BY Zenon DEF TokenInv
  <2>1. CASE t \in tokens
    <3>1. PICK k \in Login : t = Token(k) /\ login[k].pc = "done" /\ exchange[k].pc = "issued"
        BY <2>1, Zenon DEF CodeInv, TokenInv
    <3>2. exchange'[k] = exchange[k]
        BY <1>3, <3>1
    <3> QED
        BY <3>1, <3>2, TokenKept
  <2>2. CASE t = Token(l) /\ y.pc = "issued" /\ login[l].pc = "done"
      BY <1>3, <2>2, TokenKept
  <2> QED
      BY <2>1, <2>2
<1> QED
    BY <1>5, <1>6, <1>7 DEF CodeInv

LEMMA ExchangeStepState ==
    ASSUME AllInv, ExchangeStep
    PROVE  AllInv'
<1>1. StateInv /\ LinkInv /\ CodeInv
    BY DEF AllInv
<1>2. ASSUME UNCHANGED accountVars
      PROVE  StateInv' /\ LinkInv' /\ CallsGoOn /\ UNCHANGED login
  <2>1. [Next]_accountVars
      BY <1>2
  <2> QED
      BY <1>1, <1>2, <2>1, AccountStep DEF accountVars
<1>3. CASE \E l \in Login : (\E b \in Callback : authz_code_exchange(l, b)) \/ FetchFails(l)
  <2>1. PICK l \in Login : (\E b \in Callback : authz_code_exchange(l, b)) \/ FetchFails(l)
      BY <1>3
  <2>2. PICK y \in ExchangeType :
              /\ Exchanges(l, y)
              /\ exchange[l].pc # "issued"
              /\ y.pc = "failed" \/ (y.pc = "verified" /\ y.code \in Callback /\ Named(y.code))
              /\ UNCHANGED <<accountVars, tokens>>
      BY <1>1, <2>1, ExchangeAlone
  <2>3. StateInv' /\ LinkInv' /\ CallsGoOn
      BY <1>2, <2>2
  <2>4. CodeInv'
      BY <1>1, <2>2, <2>3, CodesExchanged
  <2> QED
      BY <2>3, <2>4 DEF AllInv
<1>4. CASE \E l \in Login : FetchUserInfo(l) \/ \E i \in Identity : exchange_device_token(l, i)
  <2>1. PICK l \in Login : FetchUserInfo(l) \/ \E i \in Identity : exchange_device_token(l, i)
      BY <1>4
  <2>2. PICK y \in ExchangeType, i \in Identity :
              /\ Exchanges(l, y)
              /\ exchange[l].pc # "issued"
              /\ y.pc = "registering"
              /\ y.code \in Callback => Named(y.code) /\ callback[y.code].answer = i
              /\ register_api_user(l, i)
              /\ UNCHANGED tokens
      BY <1>1, <2>1, ExchangeRegisters
  <2>3. [Next]_accountVars
      BY <2>2, Zenon DEF Next
  <2>4. StateInv' /\ LinkInv' /\ CallsGoOn
      BY <1>1, <2>3, AccountStep
  <2>5. login'[l].pc # "idle" /\ login'[l].identity = i
      BY <1>1, <2>2, RegisterLinks
  <2>6. CodeInv'
      BY <1>1, <2>2, <2>4, <2>5, CodesExchanged
  <2> QED
      BY <2>4, <2>6 DEF AllInv
<1>5. CASE \E l \in Login : register_access_token(l)
  <2>1. PICK l \in Login : register_access_token(l)
      BY <1>5
  <2>2. PICK y \in ExchangeType :
              /\ Exchanges(l, y)
              /\ exchange[l].pc = "registering" /\ y.pc = "issued"
              /\ y.code = exchange[l].code
              /\ login[l].pc = "done"
              /\ tokens' = tokens \cup {Token(l)}
              /\ UNCHANGED accountVars
      BY <1>1, <2>1, ExchangeIssues
  <2>3. StateInv' /\ LinkInv' /\ CallsGoOn /\ UNCHANGED login
      BY <1>2, <2>2
  <2>4. /\ y.code \in Callback => Named(y.code)
        /\ login'[l].pc # "idle"
        /\ y.code \in Callback => login'[l].identity = callback[y.code].answer
      BY <1>1, <2>2, <2>3, BegunExchange
  <2>5. exchange[l].pc # "issued" /\ y.pc # "verified"
      BY <2>2
  <2>6. CodeInv'
      BY <1>1, <2>2, <2>3, <2>4, <2>5, CodesExchanged
  <2> QED
      BY <2>3, <2>6 DEF AllInv
<1> QED
    BY <1>3, <1>4, <1>5 DEF ExchangeStep

LEMMA AllStep ==
    ASSUME AllInv, [LoginNext]_loginVars
    PROVE  AllInv'
<1>1. StateInv /\ LinkInv /\ CodeInv
    BY DEF AllInv
<1>2. CASE AttemptStep
  <2>1. AttemptKeeps
      BY <1>1, <1>2, AttemptStepKeeps
  <2>2. [Next]_accountVars
      BY <2>1, Zenon DEF AttemptKeeps, accountVars, admin, counts
  <2>3. StateInv' /\ LinkInv' /\ CallsGoOn
      BY <1>1, <2>2, AccountStep
  <2>4. CodeInv'
      BY <1>1, <2>1, <2>3, CodesKept DEF AttemptKeeps
  <2> QED
      BY <2>3, <2>4 DEF AllInv
<1>3. CASE ExchangeStep
    BY <1>3, ExchangeStepState
<1>4. CASE [Next]_accountVars /\ UNCHANGED codeVars
  <2>1. StateInv' /\ LinkInv' /\ CallsGoOn
      BY <1>1, <1>4, AccountStep
  <2>2. UNCHANGED <<attempts, callback, exchange, spent, tokens>>
      BY <1>4, Zenon DEF codeVars
  <2>3. DoneKept /\ AttemptInv'
      BY <1>1, <2>2, Zenon DEF CodeInv, DoneKept, AttemptInv, Named
  <2>4. /\ attempts' \in [Attempt -> AttemptType]
        /\ callback' \in [Callback -> CallbackType \cup {Idle}]
      BY <1>1, <2>2, Zenon DEF CodeInv, CodeTypes
  <2>5. CodeInv'
      BY <1>1, <2>1, <2>2, <2>3, <2>4, CodesKept
  <2> QED
      BY <2>1, <2>5 DEF AllInv
<1>5. CASE (\E l \in Login : LoginStep(l)) /\ UNCHANGED codeVars
    BY <1>4, <1>5 DEF Next
<1>6. CASE AdminStep /\ UNCHANGED codeVars
    BY <1>4, <1>6 DEF Next
<1>7. CASE UNCHANGED loginVars
    BY <1>4, <1>7, Zenon DEF loginVars
<1> QED
    BY <1>2, <1>3, <1>5, <1>6, <1>7 DEF LoginNext

LEMMA InitAll == LoginInit => AllInv
<1> SUFFICES ASSUME LoginInit PROVE AllInv
    OBVIOUS
<1>1. Init /\ StateInv
    BY InitState DEF LoginInit
<1>2. \A l \in Login : login[l].pc = "idle"
    BY <1>1, Zenon DEF Init, Idle
<1>3. LinkInv
    BY <1>2, Zenon DEF LinkInv
<1>4. /\ attempts = [a \in Attempt |->
            [state |-> "none", code |-> NoCode, error |-> "none", expired |-> FALSE]]
      /\ callback = [b \in Callback |-> Idle]
      /\ exchange = [l \in Login |-> Idle]
      /\ spent = {} /\ tokens = {}
    BY Zenon DEF LoginInit
<1>5. [state |-> "none", code |-> NoCode, error |-> "none", expired |-> FALSE] \in AttemptType
  <2>1. NoCode \in Code /\ "none" \in Error
      BY SMT DEF Code, Error
  <2> QED
      BY <2>1, Zenon DEF AttemptType
<1>6. CodeTypes
    BY <1>4, <1>5, Zenon DEF CodeTypes
<1>7. AttemptInv
    BY <1>4, LoginAssumption, Zenon DEF AttemptInv, LoginAssumption
<1>8. \A l \in Login : exchange[l].pc = "idle"
    BY <1>4, Zenon DEF Idle
<1>9. ExchangeInv
    BY <1>8 DEF ExchangeInv
<1>10. TokenInv
    BY <1>4, Zenon DEF TokenInv
<1> QED
    BY <1>1, <1>3, <1>6, <1>7, <1>9, <1>10 DEF AllInv, CodeInv

\* Every value keeps its type, and every token is recorded for a user that exists
\* (exchange_device_token and authz_code_exchange register the token only after
\* register_api_user returned a user).
THEOREM LoginTypes == LoginSpec => []LoginTypeOK
<1>1. AllInv => LoginTypeOK
  <2> SUFFICES ASSUME AllInv PROVE LoginTypeOK
      OBVIOUS
  <2>1. StateInv /\ LinkInv /\ CodeTypes /\ TokenInv
      BY DEF AllInv, CodeInv
  <2>2. ASSUME NEW t \in tokens PROVE t \in [login : Login, user : 1 .. Len(users)]
    <3>1. PICK l \in Login : t = Token(l) /\ login[l].pc = "done"
        BY <2>1, Zenon DEF TokenInv
    <3>2. login[l].pc # "idle"
        BY <3>1
    <3>3. login[l].user \in 0 .. Len(users) /\ login[l].user # 0
      <4>1. login[l].user \in 0 .. Len(users)
          BY <2>1, <3>2, BegunLogin
      <4>2. login[l].user # Nobody
          BY <2>1, <3>1, <3>2, Zenon DEF LinkInv
      <4> QED
          BY <4>1, <4>2 DEF Nobody
    <3>4. Len(users) \in Nat
        BY <2>1, SMT DEF StateInv, TypeOK
    <3>5. login[l].user \in 1 .. Len(users)
        BY <3>3, <3>4, SMT
    <3> QED
        BY <3>1, <3>5, Zenon DEF Token
  <2>3. TypeOK
      BY <2>1 DEF StateInv
  <2> QED
      BY <2>1, <2>2, <2>3, Zenon DEF LoginTypeOK, CodeTypes
<1> QED
    BY InitAll, AllStep, <1>1, PTL DEF LoginSpec

\* Whose token it is: of the user that is linked to the identity which the provider
\* named for the code that was exchanged, or for the device flow, whatever overlaps
\* and whatever fails (the chain from authz_code_callback through
\* authz_code_exchange and register_api_user to register_access_token).
THEOREM TokensAreOwners == LoginSpec => []TokenIsOwners
<1>1. AllInv => TokenIsOwners
  <2> SUFFICES ASSUME AllInv, NEW t \in tokens
               PROVE  providers[IF exchange[t.login].code = NoCode
                                THEN login[t.login].identity
                                ELSE callback[exchange[t.login].code].answer] = t.user
      BY Zenon DEF TokenIsOwners
  <2>1. StateInv /\ LinkInv /\ CodeInv
      BY DEF AllInv
  <2>2. PICK l \in Login : t = Token(l) /\ login[l].pc = "done" /\ exchange[l].pc = "issued"
      BY <2>1, Zenon DEF CodeInv, TokenInv
  <2>3. t.login = l /\ t.user = login[l].user
      BY <2>2, Zenon DEF Token
  <2>4. providers[login[l].identity] = login[l].user
    <3>1. login[l].pc # "idle"
        BY <2>2
    <3> QED
        BY <2>1, <2>2, <3>1, Zenon DEF LinkInv
  <2>5. exchange[l].pc # "verified" /\ exchange[l] \in ExchangeType
      BY <2>1, <2>2, BegunExchange
  <2>6. exchange[l].code \in Callback =>
            login[l].identity = callback[exchange[l].code].answer
      BY <2>1, <2>2, <2>5, BegunExchange
  <2>7. exchange[l].code = NoCode \/ exchange[l].code \in Callback
      BY <2>5, Zenon DEF ExchangeType, Code
  <2> QED
      BY <2>3, <2>4, <2>6, <2>7
<1> QED
    BY InitAll, AllStep, <1>1, PTL DEF LoginSpec

-----------------------------------------------------------------------------
(* Codes that were sent to a client. *)

\* A callback under way has an attempt that is still new, and is the only one of
\* that attempt; a code that was sent is that of its attempt.
InTransit(b) == callback[b].pc = "store"
Returned(b) == callback[b].pc \in {"store", "done", "failed"}

TransitInv ==
    \A b \in Callback : InTransit(b) =>
        /\ attempts[callback[b].attempt].state = "New"
        /\ callback[b].sent.code = NoCode
        /\ \A c \in Callback :
              InTransit(c) /\ callback[c].attempt = callback[b].attempt => c = b

SentInv ==
    \A b \in Callback : Returned(b) /\ callback[b].sent.code # NoCode =>
        /\ attempts[callback[b].attempt].state = "RemoteAuthenticated"
        /\ attempts[callback[b].attempt].code = callback[b].sent.code

LEMMA BegunCallback ==
    ASSUME CodeInv, NEW b \in Callback, Returned(b)
    PROVE  callback[b] \in CallbackType /\ callback[b].attempt \in Attempt
<1>1. callback[b] \in CallbackType \cup {Idle}
    BY Zenon DEF CodeInv, CodeTypes
<1>2. callback[b] # Idle
    BY DEF Returned, Idle
<1> QED
    BY <1>1, <1>2, Zenon DEF CallbackType

LEMMA SendSteps ==
    ASSUME OneCallback, CodeInv, TransitInv, SentInv, AttemptStep
    PROVE  TransitInv' /\ SentInv'
<1>1. /\ attempts \in [Attempt -> AttemptType]
      /\ callback \in [Callback -> CallbackType \cup {Idle}]
    BY Zenon DEF CodeInv, CodeTypes
<1>2. ASSUME UNCHANGED callback,
             \A a \in Attempt : \/ attempts'[a] = attempts[a]
                                \/ attempts[a].state = "none"
                                \/ /\ attempts'[a].state = attempts[a].state
                                   /\ attempts'[a].code = attempts[a].code
      PROVE  TransitInv' /\ SentInv'
  <2>1. \A a \in Attempt : attempts[a].state \in {"New", "RemoteAuthenticated"} =>
            /\ attempts'[a].state = attempts[a].state
            /\ attempts'[a].code = attempts[a].code
      BY <1>2
  <2>2. \A b \in Callback : InTransit(b) => callback[b].attempt \in Attempt
      BY BegunCallback DEF InTransit, Returned
  <2>3. \A b \in Callback : Returned(b) => callback[b].attempt \in Attempt
      BY BegunCallback
  <2>4. TransitInv'
      BY <1>2, <2>1, <2>2 DEF TransitInv, InTransit
  <2>5. SentInv'
      BY <1>2, <2>1, <2>3 DEF SentInv, Returned
  <2> QED
      BY <2>4, <2>5
<1>3. CASE \E a \in Attempt, error \in {"none", "invalid_scope"} :
              authz_code_redirect(a, error)
  <2>1. PICK a \in Attempt, error \in {"none", "invalid_scope"} :
              authz_code_redirect(a, error)
      BY <1>3
  <2> DEFINE x == [attempts[a] EXCEPT !.state = "New", !.error = error]
  <2>2. /\ attempts[a].state = "none" /\ UNCHANGED callback
        /\ attempts' = [attempts EXCEPT ![a] = x]
      BY <2>1, Zenon DEF authz_code_redirect
  <2> HIDE DEF x
  <2>3. \A c \in Attempt : attempts'[c] = attempts[c] \/ attempts[c].state = "none"
      BY <1>1, <2>2, Zenon
  <2> QED
      BY <1>2, <2>2, <2>3
<1>4. CASE \E a \in Attempt : Expire(a)
  <2>1. PICK a \in Attempt : Expire(a)
      BY <1>4
  <2> DEFINE x == [attempts[a] EXCEPT !.expired = TRUE]
  <2>2. UNCHANGED callback /\ attempts' = [attempts EXCEPT ![a] = x]
      BY <2>1, Zenon DEF Expire
  <2>3. x.state = attempts[a].state /\ x.code = attempts[a].code
      BY <1>1, Zenon DEF AttemptType
  <2> HIDE DEF x
  <2>4. \A c \in Attempt : \/ attempts'[c] = attempts[c]
                           \/ /\ attempts'[c].state = attempts[c].state
                              /\ attempts'[c].code = attempts[c].code
      BY <1>1, <2>2, <2>3, Zenon
  <2> QED
      BY <1>2, <2>2, <2>4
<1>5. CASE \E b \in Callback, a \in Attempt, answer \in Answer :
              authz_code_callback(b, a, answer)
  <2>1. PICK b \in Callback, a \in Attempt, answer \in Answer :
              authz_code_callback(b, a, answer)
      BY <1>5
  <2> DEFINE x == [pc |-> "store", attempt |-> a, answer |-> answer, sent |-> NoUrl]
  <2>2. /\ callback[b] = Idle /\ attempts[a].state = "New" /\ MayReturn(a)
        /\ callback' = [callback EXCEPT ![b] = x]
        /\ UNCHANGED attempts
      BY <2>1, Zenon DEF authz_code_callback
  <2>3. x.pc = "store" /\ x.attempt = a /\ x.sent.code = NoCode
      BY Zenon DEF NoUrl
  <2> HIDE DEF x
  <2>4. callback'[b] = x /\ \A c \in Callback : c # b => callback'[c] = callback[c]
      BY <1>1, <2>2, Zenon
  <2>5. \A c \in Callback : callback[c].pc = "store" => callback[c].attempt # a
    <3>1. \A c \in Callback : callback[c].pc = "store" => callback[c] # Idle
        BY DEF Idle
    <3> QED
        BY <2>2, <3>1, Zenon DEF MayReturn
  <2>6. TransitInv'
      BY <2>2, <2>3, <2>4, <2>5 DEF TransitInv, InTransit
  <2>7. SentInv'
      BY <2>2, <2>3, <2>4 DEF SentInv, Returned
  <2> QED
      BY <2>6, <2>7
<1>6. CASE \E b \in Callback : set_login_provider_authz_code(b) \/ fail_login_attempt(b)
  <2>1. PICK b \in Callback : set_login_provider_authz_code(b) \/ fail_login_attempt(b)
      BY <1>6
  <2>2. PICK change \in Change :
              /\ callback[b].pc = "store" /\ StoreAttempt(b, change)
              /\ \/ change.state = "RemoteAuthenticated" /\ change.code = b
                 \/ change.state = "Failed" /\ change.code = NoCode
      BY <2>1, Changes
  <2>3. PICK a \in Attempt, row \in AttemptType, x \in CallbackType :
              /\ a = callback[b].attempt
              /\ row.state = change.state /\ row.code = change.code
              /\ x.pc = "done" /\ x.attempt = a
              /\ x.sent.code \in {change.code, NoCode}
              /\ attempts' = [attempts EXCEPT ![a] = row]
              /\ callback' = [callback EXCEPT ![b] = x]
      BY <2>2, StoreAttemptStores
  <2>4. callback'[b] = x /\ \A c \in Callback : c # b => callback'[c] = callback[c]
      BY <1>1, <2>3, Zenon
  <2>5. attempts'[a] = row /\ \A c \in Attempt : c # a => attempts'[c] = attempts[c]
      BY <1>1, <2>3, Zenon
  <2>6. InTransit(b) /\ attempts[a].state = "New"
      BY <2>2, <2>3 DEF TransitInv, InTransit
  <2>7. \A c \in Callback : InTransit(c) /\ c # b => callback[c].attempt # a
      BY <2>3, <2>6, Zenon DEF TransitInv
  <2>8. \A c \in Callback : Returned(c) /\ callback[c].sent.code # NoCode =>
              callback[c].attempt # a
      BY <2>6 DEF SentInv
  <2>9. \A c \in Callback : Returned(c) => callback[c].attempt \in Attempt
      BY BegunCallback
  <2>10. \A c \in Callback : InTransit(c) => Returned(c)
      BY DEF InTransit, Returned
  <2>11. TransitInv'
    <3> SUFFICES ASSUME NEW c \in Callback, InTransit(c)'
                 PROVE  /\ attempts'[callback'[c].attempt].state = "New"
                        /\ callback'[c].sent.code = NoCode
                        /\ \A d \in Callback :
                              InTransit(d)' /\ callback'[d].attempt = callback'[c].attempt
                                 => d = c
        BY Zenon DEF TransitInv
    <3>1. \A d \in Callback : InTransit(d)' => d # b /\ callback'[d] = callback[d] /\ InTransit(d)
        BY <2>3, <2>4 DEF InTransit
    <3>2. callback[c].attempt \in Attempt /\ callback[c].attempt # a
        BY <2>7, <2>9, <2>10, <3>1
    <3>3. /\ attempts[callback[c].attempt].state = "New"
          /\ callback[c].sent.code = NoCode
          /\ \A d \in Callback :
                InTransit(d) /\ callback[d].attempt = callback[c].attempt => d = c
        BY <3>1, Zenon DEF TransitInv
    <3>4. callback'[c] = callback[c]
        BY <3>1
    <3>5. attempts'[callback'[c].attempt] = attempts[callback[c].attempt]
        BY <2>5, <3>2, <3>4, Zenon
    <3>6. ASSUME NEW d \in Callback, InTransit(d)',
                 callback'[d].attempt = callback'[c].attempt
          PROVE  d = c
        BY <3>1, <3>3, <3>4, <3>6, Zenon
    <3> QED
        BY <3>3, <3>4, <3>5, <3>6, Zenon
  <2>12. SentInv'
    <3> SUFFICES ASSUME NEW c \in Callback, Returned(c)', callback'[c].sent.code # NoCode
                 PROVE  /\ attempts'[callback'[c].attempt].state = "RemoteAuthenticated"
                        /\ attempts'[callback'[c].attempt].code = callback'[c].sent.code
        BY Zenon DEF SentInv
    <3>1. CASE c = b
        BY <2>2, <2>3, <2>4, <2>5, <3>1
    <3>2. CASE c # b
      <4>1. callback'[c] = callback[c] /\ Returned(c)
          BY <2>4, <3>2 DEF Returned
      <4>2. callback[c].attempt \in Attempt /\ callback[c].attempt # a
          BY <2>8, <2>9, <4>1
      <4> QED
          BY <2>5, <4>1, <4>2, Zenon DEF SentInv
    <3> QED
        BY <3>1, <3>2
  <2> QED
      BY <2>11, <2>12
<1>7. CASE \E b \in Callback : FailCallback(b)
  <2>1. PICK b \in Callback : FailCallback(b)
      BY <1>7
  <2>2. PICK x \in CallbackType :
              /\ callback[b].pc = "store"
              /\ x.pc = "failed" /\ x.sent = callback[b].sent
              /\ x.attempt = callback[b].attempt
              /\ callback' = [callback EXCEPT ![b] = x]
              /\ UNCHANGED attempts
      BY <2>1, FailCallbackFails
  <2>3. callback'[b] = x /\ \A c \in Callback : c # b => callback'[c] = callback[c]
      BY <1>1, <2>2, Zenon
  <2>4. TransitInv'
      BY <2>2, <2>3 DEF TransitInv, InTransit
  <2>5. callback[b].sent.code = NoCode
      BY <2>2 DEF TransitInv, InTransit
  <2>6. SentInv'
      BY <2>2, <2>3, <2>5 DEF SentInv, Returned
  <2> QED
      BY <2>4, <2>6
<1> QED
    BY <1>3, <1>4, <1>5, <1>6, <1>7 DEF AttemptStep

LEMMA SendStep ==
    ASSUME OneCallback, AllInv, TransitInv, SentInv, [LoginNext]_loginVars
    PROVE  TransitInv' /\ SentInv'
<1>1. CodeInv
    BY DEF AllInv
<1>2. CASE AttemptStep
    BY <1>1, <1>2, SendSteps
<1>3. CASE UNCHANGED <<attempts, callback>>
    BY <1>3, Zenon DEF TransitInv, SentInv, InTransit, Returned
<1>4. CASE ExchangeStep
  <2>1. UNCHANGED <<attempts, callback>>
      BY <1>4, Zenon DEF ExchangeStep, authz_code_exchange, FetchUserInfo, FetchFails,
                         register_access_token, exchange_device_token
  <2> QED
      BY <1>3, <2>1
<1>5. CASE UNCHANGED codeVars
    BY <1>3, <1>5, Zenon DEF codeVars
<1>6. CASE UNCHANGED loginVars
    BY <1>5, <1>6, Zenon DEF loginVars
<1> QED
    BY <1>2, <1>4, <1>5, <1>6, Zenon DEF LoginNext

\* A code that a client was sent stays the code of its attempt, for any number of
\* attempts and callbacks, when the callbacks of one attempt come one at a time
\* (authz_code_callback turns away an attempt that is not new).
THEOREM SentCodes ==
    ASSUME OneCallback
    PROVE  LoginSpec => []SentCodeIsUsable
<1>1. LoginInit => TransitInv /\ SentInv
  <2> SUFFICES ASSUME LoginInit PROVE TransitInv /\ SentInv
      OBVIOUS
  <2>1. \A b \in Callback : callback[b].pc = "idle"
      BY Zenon DEF LoginInit, Idle
  <2> QED
      BY <2>1 DEF TransitInv, SentInv, InTransit, Returned
<1>2. AllInv /\ TransitInv /\ SentInv /\ [LoginNext]_loginVars
          => (AllInv /\ TransitInv /\ SentInv)'
    BY AllStep, SendStep
<1>3. AllInv /\ SentInv => SentCodeIsUsable
  <2> SUFFICES ASSUME AllInv, SentInv, NEW b \in Callback,
                      callback[b] # Idle, callback[b].sent.code # NoCode
               PROVE  /\ attempts[callback[b].attempt].state = "RemoteAuthenticated"
                      /\ attempts[callback[b].attempt].code = callback[b].sent.code
      BY Zenon DEF SentCodeIsUsable
  <2>1. callback[b] \in CallbackType
      BY Zenon DEF AllInv, CodeInv, CodeTypes
  <2>2. Returned(b)
      BY <2>1, Zenon DEF CallbackType, Returned
  <2> QED
      BY <2>2, Zenon DEF SentInv
<1> QED
    BY InitAll, <1>1, <1>2, <1>3, PTL DEF LoginSpec

=============================================================================
