---------------------------- MODULE ExodusAccess ----------------------------
(***************************************************************************)
(* How the program reaches the exodus service: the keychain that holds the *)
(* operator's tokens (dal/token_store.py), the login screens and the login *)
(* command that fill it (ui/login_view.py, dal/auth.py, dal/login.py), the *)
(* request loop that uses it (dal/client.py, dal/transport.py) and the     *)
(* first-run pull that empties it when the service refuses it              *)
(* (ui/app.py _maybe_bootstrap, ingest/bootstrap.py).                      *)
(*                                                                         *)
(* One terminal and any number of command-line logins share the keychain.  *)
(* A login handler of the terminal is one step, as it touches the keychain *)
(* last; a request is one step per send, so that the keychain, the service *)
(* and the operator move between two sends of it.  A session's token is    *)
(* named by its account.                                                   *)
(***************************************************************************)
EXTENDS Integers

CONSTANTS
    Accounts,   \* accounts the operator signs in with
    Bearers,    \* tokens the operator pastes
    None,       \* no token
    MaxRetries, \* config.MAX_RETRIES
    Factors,    \* OTP rounds the service asks a new device for
    Names       \* names SCR-0 lets through in the first-run pull

Tokens == Accounts \union Bearers
Kinds == {"none", "prompt", "session"}
Faults == {"PaywallError", "RateLimitError", "TransportError"}

ASSUME AccessAssumption ==
    /\ None \notin Tokens /\ Accounts \intersect Bearers = {}
    /\ MaxRetries \in Nat /\ Factors \in Nat \ {0} /\ Names \in Nat

VARIABLES
    keychain, \* [session, bearer]: the two accounts of the keychain
    accepted, \* tokens the service authenticates
    trusted,  \* the service trusts the device's player_id
    screen,   \* [state, error]: the login view of the terminal
    typed,    \* account of the last credentials submitted in the terminal
    handles,  \* account whose login and verification handles the controller holds
    factors,  \* OTP rounds the service still wants for those handles
    call,     \* the client request in flight
    boot      \* [done, stage, stored]: the first-run pull

accessVars == <<keychain, accepted, trusted, screen, typed, handles, factors, call, boot>>

NoCall == [on |-> FALSE, by |-> "caller", kind |-> "none", attempt |-> 0, refreshed |-> FALSE,
           sends |-> 0, outcome |-> "none"]

\* access_token: the login session's token, else the pasted bearer
AccessToken == IF keychain.session # None THEN keychain.session ELSE keychain.bearer

StoreSession(a) == keychain' = [keychain EXCEPT !.session = a]
StoreBearer(t) == keychain' = [keychain EXCEPT !.bearer = t]
\* sign-out keeps the player_id, and so the service's trust in the device
ClearKeychain == keychain' = [session |-> None, bearer |-> None]

\* a session the service has just issued
Grant(a) == StoreSession(a) /\ accepted' = accepted \union {a}

Show(state, error) == screen' = [state |-> state, error |-> error]

\* the login form is drawn only while the keychain holds no token
Gate(state) == AccessToken = None /\ screen.state = state

AccessInit ==
    /\ keychain = [session |-> None, bearer |-> None]
    /\ accepted \in SUBSET Bearers
    /\ trusted \in BOOLEAN
    /\ screen = [state |-> "CREDENTIALS", error |-> FALSE]
    /\ typed = None /\ handles = None /\ factors = 0
    /\ call = NoCall
    /\ boot = [done |-> FALSE, stage |-> -1, stored |-> FALSE]

-----------------------------------------------------------------------------
\* The login screens

\* entering an OTP round sends the code at once; a failed send is shown on the round
EnterOtp(sent) == Show("OTP", ~sent)

\* a rejected or failed step of the credentials stays on the form
CredentialsFail(a) ==
    /\ Gate("CREDENTIALS")
    /\ typed' = a
    /\ Show("CREDENTIALS", TRUE)
    /\ \/ UNCHANGED <<handles, factors>>                       \* login_username failed
       \/ ~trusted /\ handles' = a /\ factors' = Factors       \* challenge_start failed
    /\ UNCHANGED <<keychain, accepted, trusted, call, boot>>

\* a device the service knows gets a session without a challenge
TrustedLogin(a) ==
    /\ Gate("CREDENTIALS") /\ trusted
    /\ typed' = a
    /\ Grant(a)
    /\ Show("FINISH", FALSE)
    /\ UNCHANGED <<trusted, handles, factors, call, boot>>

\* a slip of StartChallenge: handles of an abandoned login are kept
StartChallenge_KeepHandles(a) ==
    /\ Gate("CREDENTIALS") /\ ~trusted
    /\ typed' = a /\ handles' = (IF handles = None THEN a ELSE handles) /\ factors' = Factors
    /\ \E sent \in BOOLEAN : EnterOtp(sent)
    /\ UNCHANGED <<keychain, accepted, trusted, call, boot>>

StartChallenge(a) ==
    /\ Gate("CREDENTIALS") /\ ~trusted
    /\ typed' = a /\ handles' = a /\ factors' = Factors
    /\ \E sent \in BOOLEAN : EnterOtp(sent)
    /\ UNCHANGED <<keychain, accepted, trusted, call, boot>>

\* an explicit resend: its error view is the round's
SendOtp ==
    /\ Gate("OTP")
    /\ IF handles = None THEN Show("CREDENTIALS", TRUE) ELSE \E sent \in BOOLEAN : EnterOtp(sent)
    /\ UNCHANGED <<keychain, accepted, trusted, typed, handles, factors, call, boot>>

\* a wrong code, a lost reply, or a failed new_device_verify after the last round
OtpFails ==
    /\ Gate("OTP")
    /\ IF handles = None THEN Show("CREDENTIALS", TRUE) ELSE Show("OTP", TRUE)
    /\ \/ UNCHANGED factors
       \/ handles # None /\ factors > 0 /\ factors' = factors - 1
    /\ UNCHANGED <<keychain, accepted, trusted, typed, handles, call, boot>>

NextFactor ==
    /\ Gate("OTP") /\ handles # None /\ factors > 1
    /\ factors' = factors - 1
    /\ \E sent \in BOOLEAN : EnterOtp(sent)
    /\ UNCHANGED <<keychain, accepted, trusted, typed, handles, call, boot>>

FinishLogin ==
    /\ Gate("OTP") /\ handles # None /\ factors <= 1
    /\ Grant(handles)
    /\ trusted' = TRUE
    /\ handles' = None /\ factors' = 0
    /\ Show("FINISH", FALSE)
    /\ UNCHANGED <<typed, call, boot>>

\* "Different account", "Prefer a token?", "Use username & password": only the view
ChooseForm ==
    /\ \/ (Gate("OTP") \/ Gate("BEARER")) /\ Show("CREDENTIALS", FALSE)
       \/ Gate("CREDENTIALS") /\ Show("BEARER", FALSE)
    /\ UNCHANGED <<keychain, accepted, trusted, typed, handles, factors, call, boot>>

\* a slip of SubmitBearer: the token is stored, then tried
SubmitBearer_StoreFirst(t) ==
    /\ Gate("BEARER")
    /\ StoreBearer(t)
    /\ \/ t \in accepted /\ Show("FINISH", FALSE)
       \/ Show("BEARER", TRUE)
    /\ UNCHANGED <<accepted, trusted, typed, handles, factors, call, boot>>

\* the pasted token must authenticate a ping before it is stored
SubmitBearer(t) ==
    /\ Gate("BEARER")
    /\ \/ t \in accepted /\ StoreBearer(t) /\ Show("FINISH", FALSE)
       \/ UNCHANGED keychain /\ Show("BEARER", TRUE)   \* rejected, empty, or no connection
    /\ UNCHANGED <<accepted, trusted, typed, handles, factors, call, boot>>

\* the terminal's sign-out: the controller's, if this page ever showed the form
SignOut ==
    /\ AccessToken # None
    /\ ClearKeychain
    /\ handles' = None /\ factors' = 0
    /\ Show("CREDENTIALS", FALSE)
    /\ UNCHANGED <<accepted, trusted, typed, call, boot>>

\* a browser refresh is a new page: no controller, no view, no one-shot flag, and the
\* first-run pull of the old page is abandoned
RefreshPage ==
    /\ boot' = [boot EXCEPT !.done = FALSE, !.stage = -1]
    /\ call' = IF call.by = "boot" THEN NoCall ELSE call
    /\ handles' = None /\ factors' = 0
    /\ Show("CREDENTIALS", FALSE)
    /\ UNCHANGED <<keychain, accepted, trusted, typed>>

-----------------------------------------------------------------------------
\* The login command, and the world

\* `login`: the same rounds at a prompt; only success reaches the keychain
CommandLogin(a) ==
    /\ Grant(a)
    /\ trusted' = TRUE
    /\ UNCHANGED <<screen, typed, handles, factors, call, boot>>

\* `paste` stores the token untried
CommandPaste(t) ==
    /\ StoreBearer(t)
    /\ UNCHANGED <<accepted, trusted, screen, typed, handles, factors, call, boot>>

CommandClear ==
    /\ ClearKeychain
    /\ UNCHANGED <<accepted, trusted, screen, typed, handles, factors, call, boot>>

Expire(t) ==
    /\ t \in accepted
    /\ accepted' = accepted \ {t}
    /\ UNCHANGED <<keychain, trusted, screen, typed, handles, factors, call, boot>>

-----------------------------------------------------------------------------
\* One request of the client

Begin(by, kind) == call' = [NoCall EXCEPT !.on = TRUE, !.by = by, !.kind = kind]

\* `check` and the other callers of build_live_client; no caller in src/ but the tests
\* passes a prompt or a session refresh
StartCall(kind) ==
    /\ ~call.on /\ boot.stage = -1
    /\ Begin("caller", kind)
    /\ UNCHANGED <<keychain, accepted, trusted, screen, typed, handles, factors, boot>>

\* a call that ended is known by its outcome, to the one who awaits it
Answer(outcome) ==
    IF call.by = "boot" THEN [NoCall EXCEPT !.by = "boot", !.outcome = outcome] ELSE NoCall

\* a slip of Backoff: the bound is tested on the attempt just counted off
Backoff_Unbounded(fault) ==
    [call EXCEPT !.attempt = IF @ >= MaxRetries THEN 0 ELSE @ + 1, !.sends = @ + 1]

\* a slip of Backoff: the request whose retries are used up is begun again
Backoff_Again(fault) ==
    IF call.attempt >= MaxRetries THEN [NoCall EXCEPT !.on = TRUE, !.by = call.by, !.kind = call.kind]
    ELSE [call EXCEPT !.attempt = @ + 1, !.sends = @ + 1]

\* _maybe_backoff: raise once the retries are used up, else sleep and count
Backoff(fault) ==
    IF call.attempt >= MaxRetries THEN Answer(fault)
    ELSE [call EXCEPT !.attempt = @ + 1, !.sends = @ + 1]

\* the refresh of a 401: a prompt may store a new bearer; the session's refresh
\* route is not pinned, so it always raises
Refresh ==
    \/ /\ call.kind = "prompt"
       /\ call' = [call EXCEPT !.refreshed = TRUE, !.sends = @ + 1]
       /\ \/ UNCHANGED keychain
          \/ \E t \in Bearers : StoreBearer(t)
    \/ /\ call.kind = "session"
       /\ call' = Answer("AuthError")
       /\ UNCHANGED keychain

Rejected ==
    IF call.kind # "none" /\ ~call.refreshed
    THEN Refresh
    ELSE call' = Answer("AuthError") /\ UNCHANGED keychain

\* the transport reads the token for this send; without one nothing is sent
NoToken == AccessToken = None /\ call' = Answer("AuthError") /\ UNCHANGED keychain

\* a turn of _request's loop
Send ==
    /\ call.on
    /\ \/ NoToken
       \/ /\ AccessToken \in accepted
          /\ call' = Answer("ok")
          /\ UNCHANGED keychain
       \/ AccessToken \in Tokens \ accepted /\ Rejected
       \/ /\ AccessToken # None
          /\ \E fault \in Faults : call' = Backoff(fault)
          /\ UNCHANGED keychain
       \/ /\ AccessToken # None            \* any other status is not retried
          /\ call' = Answer("TransportError")
          /\ UNCHANGED keychain
    /\ UNCHANGED <<accepted, trusted, screen, typed, handles, factors, boot>>

-----------------------------------------------------------------------------
\* The first-run pull: the screener, a request per name, then one membership each

Stages == 0..(2 * Names)

StartBootstrap ==
    /\ AccessToken # None /\ ~boot.done /\ boot.stage = -1 /\ ~call.on
    /\ IF boot.stored
       THEN boot' = [boot EXCEPT !.done = TRUE] /\ UNCHANGED call
       ELSE boot' = [boot EXCEPT !.done = TRUE, !.stage = 0] /\ Begin("boot", "none")
    /\ UNCHANGED <<keychain, accepted, trusted, screen, typed, handles, factors>>

\* AuthError: back to the form, the keychain emptied and the one-shot flag dropped
RejectBootstrap ==
    /\ boot.stage # -1 /\ ~call.on /\ call.outcome = "AuthError"
    /\ ClearKeychain
    /\ boot' = [boot EXCEPT !.done = FALSE, !.stage = -1]
    /\ call' = NoCall
    /\ Show("CREDENTIALS", FALSE)
    /\ UNCHANGED <<accepted, trusted, typed, handles, factors>>

\* any other failure ends the pull, but a membership's is skipped
StageEnds ==
    /\ boot.stage # -1 /\ ~call.on /\ call.outcome # "AuthError"
    /\ LET kept == boot.stored \/ (boot.stage \in 1..Names /\ call.outcome = "ok")
           ends == boot.stage = 2 * Names \/ (call.outcome # "ok" /\ boot.stage <= Names)
       IN /\ boot' = [boot EXCEPT !.stored = kept, !.stage = IF ends THEN -1 ELSE @ + 1]
          /\ IF ends THEN call' = NoCall ELSE Begin("boot", "none")
    /\ UNCHANGED <<keychain, accepted, trusted, screen, typed, handles, factors>>

AccessStep == Send \/ RejectBootstrap \/ StageEnds

AccessNext ==
    \/ \E a \in Accounts :
          CredentialsFail(a) \/ TrustedLogin(a) \/ StartChallenge(a) \/ CommandLogin(a)
    \/ SendOtp \/ OtpFails \/ NextFactor \/ FinishLogin \/ ChooseForm
    \/ \E t \in Bearers : SubmitBearer(t) \/ CommandPaste(t)
    \/ SignOut \/ RefreshPage \/ CommandClear
    \/ \E t \in Tokens : Expire(t)
    \/ \E kind \in Kinds : StartCall(kind)
    \/ StartBootstrap
    \/ AccessStep

-----------------------------------------------------------------------------
AccessTypeOK ==
    /\ keychain \in [session : Accounts \union {None}, bearer : Bearers \union {None}]
    /\ accepted \subseteq Tokens /\ trusted \in BOOLEAN
    /\ screen \in [state : {"CREDENTIALS", "OTP", "BEARER", "FINISH"}, error : BOOLEAN]
    /\ typed \in Accounts \union {None} /\ handles \in Accounts \union {None}
    /\ factors \in 0..Factors
    /\ call \in [on : BOOLEAN, by : {"boot", "caller"}, kind : Kinds, attempt : 0..MaxRetries,
                 refreshed : BOOLEAN, sends : 0..(MaxRetries + 1),
                 outcome : Faults \union {"none", "ok", "AuthError"}]
    /\ boot \in [done : BOOLEAN, stage : Stages \union {-1}, stored : BOOLEAN]
    \* a request costs one counted send per try, and one more if it refreshed its token
    /\ call.on => call.sends = call.attempt + (IF call.refreshed THEN 1 ELSE 0)

(* An OTP round always belongs to the account typed last, whatever forms    *)
(* were visited and abandoned before: no code finishes another account's    *)
(* login (login_view.py submit_credentials, verify_otp).                    *)
OtpIsForTypedAccount ==
    screen.state = "OTP" => handles = typed /\ typed # None

(* A login view that shows an error leaves the session untouched            *)
(* (login_view.py: "any AuthError -> stays on the current step with error   *)
(* set, session UNTOUCHED", "a rejected token is never stored").            *)
FailureKeepsSession ==
    [][screen' # screen /\ screen'.error => keychain' = keychain]_accessVars

(* Every request ends: in a payload or in an error of the taxonomy, also    *)
(* when tokens expire and are replaced while it retries (client.py          *)
(* _request).                                                               *)
RequestEnds == call.on ~> ~call.on
=============================================================================
