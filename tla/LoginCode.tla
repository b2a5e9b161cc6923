------------------------------ MODULE LoginCode ------------------------------
(***************************************************************************)
(* The logins of the API: the authorization code flow, in which a login    *)
(* attempt goes from the redirect to a provider through the provider's     *)
(* callback to the exchange of a code for a token, and the device flow,    *)
(* which goes to the provider at once.  Both end in register_api_user of   *)
(* Account, whose steps are part of this specification.                    *)
(*                                                                         *)
(* The providers are external: they tell the API who logged in, once for   *)
(* each code they give out.  Requests that are turned away before they     *)
(* change anything (an unknown client or redirect uri, a wrong secret or   *)
(* grant type, a cookie that does not match) are left out.                 *)
(***************************************************************************)
EXTENDS Account

CONSTANTS
    Attempt,       \* the login attempts
    Callback,      \* requests that return from a provider
    NoCode,        \* not a code
    OneCallback    \* whether callbacks of one attempt come one at a time

ASSUME LoginAssumption == OneCallback \in BOOLEAN /\ NoCode \notin Callback

VARIABLES
    attempts,   \* the login_attempt table
    callback,   \* the callbacks
    exchange,   \* requests for a token; each registers the user with its Account call
    spent,      \* the codes that the providers have exchanged (external)
    tokens      \* the api_user_access_token table

codeVars == <<attempts, callback, exchange, spent, tokens>>
loginVars == <<accountVars, codeVars>>

\* A callback brings the code that the provider made for somebody, or an error.
\* The provider's code and the API's own code for an attempt are stored together:
\* both are named after the callback that brought the first.
Refusal == {"access_denied", "other"}
Answer == Identity \cup Refusal
Code == Callback \cup {NoCode}
Error == {"none", "invalid_scope", "access_denied", "server_error"}

AttemptType == [state : {"none", "New", "RemoteAuthenticated", "Failed"},
                code : Code, error : Error, expired : BOOLEAN]

\* What the client is redirected with.
Url == [code : Code, error : Error]
NoUrl == [code |-> NoCode, error |-> "none"]

CallbackType == [pc : {"store", "done", "failed"}, attempt : Attempt,
                 answer : Answer, sent : Url]
ExchangeType == [pc : {"verified", "registering", "issued", "failed"}, code : Code]

LoginTypeOK ==
    /\ TypeOK
    /\ attempts \in [Attempt -> AttemptType]
    /\ callback \in [Callback -> CallbackType \cup {Idle}]
    /\ exchange \in [Login -> ExchangeType \cup {Idle}]
    /\ spent \subseteq Callback
    /\ tokens \subseteq [login : Login, user : 1 .. Len(users)]

LoginInit ==
    /\ Init
    /\ attempts = [a \in Attempt |->
          [state |-> "none", code |-> NoCode, error |-> "none", expired |-> FALSE]]
    /\ callback = [b \in Callback |-> Idle]
    /\ exchange = [l \in Login |-> Idle]
    /\ spent = {}
    /\ tokens = {}

-----------------------------------------------------------------------------
(* The login attempt. *)

\* An attempt is stored, with an error when the scope is invalid, and the browser
\* is sent to the provider all the same.
authz_code_redirect(a, scope_error) ==
    /\ attempts[a].state = "none"
    /\ attempts' = [attempts EXCEPT ![a].state = "New", ![a].error = scope_error]
    /\ UNCHANGED <<accountVars, callback, exchange, spent, tokens>>

\* Five minutes pass.
Expire(a) ==
    /\ attempts[a].state # "none"
    /\ attempts' = [attempts EXCEPT ![a].expired = TRUE]
    /\ UNCHANGED <<accountVars, callback, exchange, spent, tokens>>

\* What the store makes of a row: it never reads the error.
Loaded(row) == [row EXCEPT !.error = "none"]

callback_url(row) == [code |-> IF row.error = "none" THEN row.code ELSE NoCode,
                      error |-> row.error]

\* Whether a callback of this attempt may come now.
MayReturn(a) ==
    OneCallback =>
        \A c \in Callback : callback[c] # Idle /\ callback[c].pc = "store"
                                => callback[c].attempt # a

\* Mutant of authz_code_callback: does not look at the state of the attempt.
AnyCallback(b, a, answer) ==
    /\ callback[b] = Idle
    /\ MayReturn(a)
    /\ attempts[a].state # "none"
    /\ callback' = [callback EXCEPT ![b] =
          [pc |-> "store", attempt |-> a, answer |-> answer, sent |-> NoUrl]]
    /\ UNCHANGED <<accountVars, attempts, exchange, spent, tokens>>

\* The callback loads its attempt, which must be new.
authz_code_callback(b, a, answer) ==
    /\ callback[b] = Idle
    /\ MayReturn(a)
    /\ attempts[a].state = "New"
    /\ callback' = [callback EXCEPT ![b] =
          [pc |-> "store", attempt |-> a, answer |-> answer, sent |-> NoUrl]]
    /\ UNCHANGED <<accountVars, attempts, exchange, spent, tokens>>

\* The attempt as it was loaded is changed and stored, and the client gets the
\* URL of what the store returns.
StoreAttempt(b, change) ==
    LET a == callback[b].attempt
        row == [Loaded(attempts[a]) EXCEPT !.state = change.state,
                                           !.code = change.code,
                                           !.error = change.error] IN
    /\ attempts' = [attempts EXCEPT ![a] = row]
    /\ callback' = [callback EXCEPT ![b].pc = "done",
                                    ![b].sent = callback_url(Loaded(row))]
    /\ UNCHANGED <<accountVars, exchange, spent, tokens>>

set_login_provider_authz_code(b) ==
    /\ callback[b].pc = "store"
    /\ callback[b].answer \in Identity
    /\ StoreAttempt(b, [state |-> "RemoteAuthenticated", code |-> b, error |-> "none"])

fail_login_attempt(b) ==
    /\ callback[b].pc = "store"
    /\ callback[b].answer \in Refusal
    /\ StoreAttempt(b, [state |-> "Failed", code |-> NoCode,
                        error |-> IF callback[b].answer = "access_denied"
                                  THEN "access_denied" ELSE "server_error"])

\* The store fails, or the process ends.
FailCallback(b) ==
    /\ callback[b].pc = "store"
    /\ callback' = [callback EXCEPT ![b].pc = "failed"]
    /\ UNCHANGED <<accountVars, attempts, exchange, spent, tokens>>

-----------------------------------------------------------------------------
(* The exchange. *)

\* A client presents the code it was redirected with.  It is looked up among the
\* authenticated attempts, and the one that has it must not have expired.
authz_code_exchange(l, code) ==
    /\ exchange[l] = Idle
    /\ \E a \in Attempt : /\ attempts[a].state = "RemoteAuthenticated"
                          /\ attempts[a].code = code
                          /\ ~attempts[a].expired
    /\ exchange' = [exchange EXCEPT ![l] = [pc |-> "verified", code |-> code]]
    /\ UNCHANGED <<accountVars, attempts, callback, spent, tokens>>

\* The provider exchanges its own code, says who that is, and registration
\* begins.
FetchUserInfo(l) ==
    /\ exchange[l].pc = "verified"
    /\ exchange[l].code \notin spent
    /\ spent' = spent \cup {exchange[l].code}
    /\ exchange' = [exchange EXCEPT ![l].pc = "registering"]
    /\ register_api_user(l, callback[exchange[l].code].answer)
    /\ UNCHANGED <<attempts, callback, tokens>>

\* A call to the provider fails: for its token, for the user, or to revoke the
\* token.
FetchFails(l) ==
    /\ exchange[l].pc = "verified"
    /\ spent' \in {spent, spent \cup {exchange[l].code}}
    /\ exchange' = [exchange EXCEPT ![l].pc = "failed"]
    /\ UNCHANGED <<accountVars, attempts, callback, tokens>>

\* The device flow asks the provider who logged in and registers them.
exchange_device_token(l, i) ==
    /\ exchange[l] = Idle
    /\ exchange' = [exchange EXCEPT ![l] = [pc |-> "registering", code |-> NoCode]]
    /\ register_api_user(l, i)
    /\ UNCHANGED <<attempts, callback, spent, tokens>>

\* Mutant of register_access_token: does not wait for the user.
EarlyToken(l) ==
    /\ exchange[l].pc = "registering"
    /\ tokens' = tokens \cup {[login |-> l, user |-> login[l].user]}
    /\ exchange' = [exchange EXCEPT ![l].pc = "issued"]
    /\ UNCHANGED <<accountVars, attempts, callback, spent>>

\* A token is recorded for the user that was registered.
register_access_token(l) ==
    /\ exchange[l].pc = "registering"
    /\ login[l].pc = "done"
    /\ tokens' = tokens \cup {[login |-> l, user |-> login[l].user]}
    /\ exchange' = [exchange EXCEPT ![l].pc = "issued"]
    /\ UNCHANGED <<accountVars, attempts, callback, spent>>

-----------------------------------------------------------------------------
AttemptStep ==
    \/ \E a \in Attempt, error \in {"none", "invalid_scope"} :
          authz_code_redirect(a, error)
    \/ \E a \in Attempt : Expire(a)
    \/ \E b \in Callback, a \in Attempt, answer \in Answer :
          authz_code_callback(b, a, answer)
    \/ \E b \in Callback : \/ set_login_provider_authz_code(b)
                           \/ fail_login_attempt(b)
                           \/ FailCallback(b)

ExchangeStep ==
    \/ \E l \in Login, b \in Callback : authz_code_exchange(l, b)
    \/ \E l \in Login : FetchUserInfo(l) \/ FetchFails(l) \/ register_access_token(l)
    \/ \E l \in Login, i \in Identity : exchange_device_token(l, i)

LoginNext ==
    \/ AttemptStep
    \/ ExchangeStep
    \/ /\ \/ \E l \in Login : LoginStep(l)
          \/ AdminStep
       /\ UNCHANGED codeVars

LoginSpec == LoginInit /\ [][LoginNext]_loginVars

-----------------------------------------------------------------------------
(* Properties. *)

\* A token is made out for the user that is linked to the identity that the
\* provider named for the very callback whose code was exchanged, however many
\* first logins of that identity overlap.
TokenIsOwners ==
    \A t \in tokens :
        LET code == exchange[t.login].code
            who == IF code = NoCode THEN login[t.login].identity
                   ELSE callback[code].answer IN
        providers[who] = t.user

\* A code that was sent to a client is the code of its attempt from then on: no
\* later callback replaces it or fails the attempt.  Holds when the callbacks of
\* one attempt come one at a time.
SentCodeIsUsable ==
    \A b \in Callback :
        callback[b] # Idle /\ callback[b].sent.code # NoCode =>
            LET row == attempts[callback[b].attempt] IN
            row.state = "RemoteAuthenticated" /\ row.code = callback[b].sent.code

\* A client learns that the user denied access (authz_code_callback_op: "When a
\* user has explicitly denied access we want to forward that error message
\* onwards to the upstream requester").
DenialIsForwarded ==
    \A b \in Callback :
        callback[b] # Idle /\ callback[b].pc = "done"
            /\ callback[b].answer = "access_denied"
            => callback[b].sent.error = "access_denied"

=============================================================================
