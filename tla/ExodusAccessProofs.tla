------------------------- MODULE ExodusAccessProofs -------------------------
(***************************************************************************)
(* Access to the service for any accounts, tokens, retry limit, number of  *)
(* OTP rounds and size of the first-run pull: the types with the request's *)
(* count of sends, whose login an OTP round finishes, and that a failed    *)
(* login step leaves the keychain alone.                                   *)
(***************************************************************************)
EXTENDS ExodusAccess, TLAPS

(* The component on its own, whatever its callers' pace.                    *)
AccessSpec == AccessInit /\ [][AccessNext]_accessVars

States == {"CREDENTIALS", "OTP", "BEARER", "FINISH"}
CallOutcomes == Faults \union {"none", "ok", "AuthError"}
CallType == [on : BOOLEAN, by : {"boot", "caller"}, kind : Kinds, attempt : 0..MaxRetries,
             refreshed : BOOLEAN, sends : 0..(MaxRetries + 1), outcome : CallOutcomes]

\* the sends of a request under way: its tries, and the one its refresh paid for
SendsCounted(c) == c.on => c.sends = c.attempt + (IF c.refreshed THEN 1 ELSE 0)

-----------------------------------------------------------------------------
(* Types                                                                    *)

LoginTypes ==
    /\ keychain \in [session : Accounts \union {None}, bearer : Bearers \union {None}]
    /\ accepted \subseteq Tokens /\ trusted \in BOOLEAN
    /\ screen \in [state : States, error : BOOLEAN]
    /\ typed \in Accounts \union {None} /\ handles \in Accounts \union {None}
    /\ factors \in 0..Factors

RequestTypes ==
    /\ call \in CallType /\ SendsCounted(call)
    /\ boot \in [done : BOOLEAN, stage : Stages \union {-1}, stored : BOOLEAN]

LEMMA TypesAre == AccessTypeOK <=> LoginTypes /\ RequestTypes
BY DEF AccessTypeOK, LoginTypes, RequestTypes, States, CallOutcomes, CallType, SendsCounted

(* What a request is when it begins, and what a call leaves when it ends.   *)
LEMMA CallMoves ==
    /\ NoCall \in CallType /\ SendsCounted(NoCall)
    /\ \A by \in {"boot", "caller"}, kind \in Kinds :
          LET c == [NoCall EXCEPT !.on = TRUE, !.by = by, !.kind = kind]
          IN c \in CallType /\ SendsCounted(c)
    /\ \A outcome \in CallOutcomes :
          LET c == [NoCall EXCEPT !.by = "boot", !.outcome = outcome]
          IN c \in CallType /\ SendsCounted(c)
<1>1. NoCall \in CallType /\ SendsCounted(NoCall)
    BY AccessAssumption DEF NoCall, CallType, Kinds, CallOutcomes, SendsCounted
<1>2. ASSUME NEW by \in {"boot", "caller"}, NEW kind \in Kinds
      PROVE  LET c == [NoCall EXCEPT !.on = TRUE, !.by = by, !.kind = kind]
             IN c \in CallType /\ SendsCounted(c)
  <2> DEFINE c == [NoCall EXCEPT !.on = TRUE, !.by = by, !.kind = kind]
  <2>1. c \in CallType
    BY <1>1 DEF CallType
  <2>2. c.sends = NoCall.sends /\ c.attempt = NoCall.attempt /\ c.refreshed = NoCall.refreshed
    BY <1>1 DEF CallType
  <2>3. NoCall.sends = 0 /\ NoCall.attempt = 0 /\ ~NoCall.refreshed
    BY DEF NoCall
  <2> QED
    BY <2>1, <2>2, <2>3 DEF SendsCounted
<1>3. ASSUME NEW outcome \in CallOutcomes
      PROVE  LET c == [NoCall EXCEPT !.by = "boot", !.outcome = outcome]
             IN c \in CallType /\ SendsCounted(c)
  <2> DEFINE c == [NoCall EXCEPT !.by = "boot", !.outcome = outcome]
  <2>1. c \in CallType
    BY <1>1 DEF CallType
  <2>2. c.on = NoCall.on /\ ~NoCall.on
    BY <1>1 DEF CallType, NoCall
  <2> QED
    BY <2>1, <2>2 DEF SendsCounted
<1> QED
    BY <1>1, <1>2, <1>3

LEMMA AnswerType ==
    ASSUME NEW outcome \in CallOutcomes
    PROVE  Answer(outcome) \in CallType /\ SendsCounted(Answer(outcome))
BY CallMoves DEF Answer

(* One more counted send never exceeds the retries: the bound is tested     *)
(* before the attempt is counted, and a token is refreshed once.            *)
LEMMA BackoffType ==
    ASSUME call \in CallType, SendsCounted(call), call.on, NEW fault \in Faults
    PROVE  Backoff(fault) \in CallType /\ SendsCounted(Backoff(fault))
<1>1. CASE call.attempt >= MaxRetries
    BY <1>1, AnswerType DEF Backoff, CallOutcomes
<1>2. CASE ~(call.attempt >= MaxRetries)
  <2>1. Backoff(fault) = [call EXCEPT !.attempt = call.attempt + 1, !.sends = call.sends + 1]
    BY <1>2 DEF Backoff
  <2>2. call.attempt + 1 \in 0..MaxRetries /\ call.sends + 1 \in 0..(MaxRetries + 1)
    BY <1>2, AccessAssumption DEF CallType, SendsCounted
  <2>3. Backoff(fault) \in CallType
    BY <2>1, <2>2 DEF CallType
  <2> QED
    BY <2>1, <2>3 DEF CallType, SendsCounted
<1> QED
    BY <1>1, <1>2

LEMMA RefreshType ==
    ASSUME call \in CallType, SendsCounted(call), call.on, ~call.refreshed
    PROVE  LET c == [call EXCEPT !.refreshed = TRUE, !.sends = @ + 1]
           IN c \in CallType /\ SendsCounted(c)
<1> DEFINE c == [call EXCEPT !.refreshed = TRUE, !.sends = call.sends + 1]
<1>1. call.sends = call.attempt /\ call.sends + 1 \in 0..(MaxRetries + 1)
    BY AccessAssumption DEF CallType, SendsCounted
<1>2. c \in CallType
    BY <1>1 DEF CallType
<1>3. c.refreshed /\ c.sends = call.sends + 1 /\ c.attempt = call.attempt
    BY DEF CallType
<1> QED
    BY <1>1, <1>2, <1>3 DEF SendsCounted, CallType

LEMMA ShowType ==
    ASSUME NEW state \in States, NEW error \in BOOLEAN, Show(state, error)
    PROVE  screen' \in [state : States, error : BOOLEAN]
BY DEF Show

(* The login screens and commands move the keychain, the view and the       *)
(* controller's handles, each within its type.                              *)
LEMMA LoginTypeStep ==
    ASSUME LoginTypes, AccessNext
    PROVE  LoginTypes'
<1> USE AccessAssumption
<1>1. ASSUME NEW a \in Accounts, CredentialsFail(a) PROVE LoginTypes'
    BY <1>1 DEF LoginTypes, CredentialsFail, Show, States
<1>2. ASSUME NEW a \in Accounts, TrustedLogin(a) PROVE LoginTypes'
    BY <1>2 DEF LoginTypes, TrustedLogin, Grant, StoreSession, Tokens, Show, States
<1>3. ASSUME NEW a \in Accounts, StartChallenge(a) PROVE LoginTypes'
    BY <1>3 DEF LoginTypes, StartChallenge, EnterOtp, Show, States
<1>4. ASSUME NEW a \in Accounts, CommandLogin(a) PROVE LoginTypes'
    BY <1>4 DEF LoginTypes, CommandLogin, Grant, StoreSession, Tokens
<1>5. CASE SendOtp \/ ChooseForm
  <2>1. \E state \in States, error \in BOOLEAN : Show(state, error)
    BY <1>5 DEF SendOtp, ChooseForm, EnterOtp, States
  <2>2. screen' \in [state : States, error : BOOLEAN]
    BY <2>1, ShowType
  <2> QED
    BY <1>5, <2>2 DEF LoginTypes, SendOtp, ChooseForm
<1>6. CASE OtpFails \/ NextFactor
  <2>1. \E state \in States, error \in BOOLEAN : Show(state, error)
    BY <1>6 DEF OtpFails, NextFactor, EnterOtp, States
  <2>2. screen' \in [state : States, error : BOOLEAN]
    BY <2>1, ShowType
  <2>3. factors' \in 0..Factors
    <3>1. factors' = factors \/ (factors > 0 /\ factors' = factors - 1)
      <4>1. OtpFails => factors' = factors \/ (factors > 0 /\ factors' = factors - 1)
        BY DEF OtpFails
      <4>2. NextFactor => factors > 1 /\ factors' = factors - 1
        BY DEF NextFactor
      <4> QED
        BY <1>6, <4>1, <4>2 DEF LoginTypes
    <3> QED
      BY <3>1 DEF LoginTypes
  <2> QED
    BY <1>6, <2>2, <2>3 DEF LoginTypes, OtpFails, NextFactor
<1>7. CASE FinishLogin
    BY <1>7 DEF LoginTypes, FinishLogin, Grant, StoreSession, Tokens, Show, States
<1>8. ASSUME NEW t \in Bearers, SubmitBearer(t) \/ CommandPaste(t) PROVE LoginTypes'
  <2>1. keychain' = keychain \/ StoreBearer(t)
    BY <1>8 DEF SubmitBearer, CommandPaste
  <2>2. screen' \in [state : States, error : BOOLEAN]
    <3>1. UNCHANGED screen \/ \E state \in States, error \in BOOLEAN : Show(state, error)
      BY <1>8 DEF SubmitBearer, CommandPaste, States
    <3> QED
      BY <3>1, ShowType DEF LoginTypes
  <2> QED
    BY <1>8, <2>1, <2>2 DEF LoginTypes, SubmitBearer, CommandPaste, StoreBearer
<1>9. CASE SignOut \/ RefreshPage \/ CommandClear \/ RejectBootstrap
  <2>1. keychain' = keychain \/ ClearKeychain
    BY <1>9 DEF SignOut, RefreshPage, CommandClear, RejectBootstrap
  <2>2. keychain' \in [session : Accounts \union {None}, bearer : Bearers \union {None}]
    BY <2>1 DEF LoginTypes, ClearKeychain
  <2>3. UNCHANGED screen \/ Show("CREDENTIALS", FALSE)
    BY <1>9 DEF SignOut, RefreshPage, CommandClear, RejectBootstrap
  <2>4. screen' \in [state : States, error : BOOLEAN]
    BY <2>3, ShowType DEF LoginTypes, States
  <2>5. UNCHANGED <<accepted, trusted, typed>> /\ handles' \in {handles, None} /\ factors' \in {factors, 0}
    BY <1>9 DEF SignOut, RefreshPage, CommandClear, RejectBootstrap
  <2> QED
    BY <2>2, <2>4, <2>5 DEF LoginTypes
<1>10. ASSUME NEW t \in Tokens, Expire(t) PROVE LoginTypes'
    BY <1>10 DEF LoginTypes, Expire
<1>11. CASE Send
  <2>1. keychain' = keychain \/ \E t \in Bearers : StoreBearer(t)
    BY <1>11 DEF Send, NoToken, Rejected, Refresh
  <2> QED
    BY <1>11, <2>1 DEF LoginTypes, Send, StoreBearer
<1>12. CASE (\E kind \in Kinds : StartCall(kind)) \/ StartBootstrap \/ StageEnds
    BY <1>12 DEF LoginTypes, StartCall, StartBootstrap, StageEnds
<1> QED
    BY <1>1, <1>2, <1>3, <1>4, <1>5, <1>6, <1>7, <1>8, <1>9, <1>10, <1>11, <1>12
       DEF AccessNext, AccessStep

(* A turn of the request loop either ends the call or counts the send it    *)
(* paid for.                                                                *)
LEMMA SendTypeStep ==
    ASSUME call \in CallType, SendsCounted(call), Send
    PROVE  call' \in CallType /\ SendsCounted(call')
<1> USE DEF CallOutcomes
<1>1. CASE call' = Answer("AuthError") \/ call' = Answer("ok") \/ call' = Answer("TransportError")
    BY <1>1, AnswerType DEF Faults
<1>2. ASSUME NEW fault \in Faults, call' = Backoff(fault) PROVE call' \in CallType /\ SendsCounted(call')
    BY <1>2, BackoffType DEF Send
<1>3. CASE ~call.refreshed /\ call' = [call EXCEPT !.refreshed = TRUE, !.sends = @ + 1]
    BY <1>3, RefreshType DEF Send
<1> QED
    BY <1>1, <1>2, <1>3 DEF Send, NoToken, Rejected, Refresh

LEMMA RequestTypeStep ==
    ASSUME RequestTypes, AccessNext
    PROVE  RequestTypes'
<1> USE AccessAssumption
<1>1. ASSUME NEW kind \in Kinds, StartCall(kind) PROVE RequestTypes'
    BY <1>1, CallMoves DEF RequestTypes, StartCall, Begin
<1>2. CASE StartBootstrap
  <2>1. call' \in CallType /\ SendsCounted(call')
    BY <1>2, CallMoves DEF RequestTypes, StartBootstrap, Begin, Kinds
  <2> QED
    <3>1. boot' = [boot EXCEPT !.done = TRUE] \/ boot' = [boot EXCEPT !.done = TRUE, !.stage = 0]
      BY <1>2 DEF StartBootstrap
    <3>2. 0 \in Stages
      BY DEF Stages
    <3>3. boot' \in [done : BOOLEAN, stage : Stages \union {-1}, stored : BOOLEAN]
      BY <3>1, <3>2 DEF RequestTypes
    <3> QED
      BY <2>1, <3>3 DEF RequestTypes
<1>3. CASE Send
    BY <1>3, SendTypeStep DEF RequestTypes, Send
<1>4. CASE RejectBootstrap \/ RefreshPage
  <2>1. call' \in CallType /\ SendsCounted(call')
    BY <1>4, CallMoves DEF RequestTypes, RejectBootstrap, RefreshPage
  <2> QED
    BY <1>4, <2>1 DEF RequestTypes, RejectBootstrap, RefreshPage
<1>5. CASE StageEnds
  <2>1. call' \in CallType /\ SendsCounted(call')
    BY <1>5, CallMoves DEF StageEnds, Begin, Kinds
  <2>2. boot' \in [done : BOOLEAN, stage : Stages \union {-1}, stored : BOOLEAN]
    <3>1. PICK kept \in BOOLEAN, stage \in Stages \union {-1} :
              boot' = [boot EXCEPT !.stored = kept, !.stage = stage]
      <4> DEFINE kept == boot.stored \/ (boot.stage \in 1..Names /\ call.outcome = "ok")
                 ends == boot.stage = 2 * Names \/ (call.outcome # "ok" /\ boot.stage <= Names)
                 stage == IF ends THEN -1 ELSE boot.stage + 1
      <4>1. stage \in Stages \union {-1}
        BY <1>5 DEF RequestTypes, StageEnds, Stages
      <4>2. kept \in BOOLEAN
        OBVIOUS
      <4>3. boot' = [boot EXCEPT !.stored = kept, !.stage = stage]
        BY <1>5 DEF StageEnds
      <4> QED
        BY <4>1, <4>2, <4>3
    <3> QED
      BY <3>1 DEF RequestTypes
  <2> QED
    BY <2>1, <2>2 DEF RequestTypes
<1>6. CASE UNCHANGED <<call, boot>>
    BY <1>6 DEF RequestTypes, SendsCounted
<1> QED
    BY <1>1, <1>2, <1>3, <1>4, <1>5, <1>6
       DEF AccessNext, AccessStep, CredentialsFail, TrustedLogin, StartChallenge, CommandLogin, SendOtp,
           OtpFails, NextFactor, FinishLogin, ChooseForm, SubmitBearer, CommandPaste, SignOut,
           CommandClear, Expire

LEMMA AccessTypeInit == AccessInit => AccessTypeOK
<1> SUFFICES ASSUME AccessInit PROVE LoginTypes /\ RequestTypes
    BY TypesAre
<1>1. LoginTypes
    BY AccessAssumption DEF AccessInit, LoginTypes, States, Tokens
<1>2. RequestTypes
    BY CallMoves, AccessAssumption DEF AccessInit, RequestTypes
<1> QED
    BY <1>1, <1>2

LEMMA AccessTypeStep == AccessTypeOK /\ [AccessNext]_accessVars => AccessTypeOK'
<1> SUFFICES ASSUME LoginTypes, RequestTypes, [AccessNext]_accessVars
             PROVE  LoginTypes' /\ RequestTypes'
    BY TypesAre DEF AccessTypeOK, LoginTypes, RequestTypes, States, CallOutcomes, CallType, SendsCounted
<1>1. CASE AccessNext
    BY <1>1, LoginTypeStep, RequestTypeStep
<1>2. CASE UNCHANGED accessVars
    BY <1>2 DEF accessVars, LoginTypes, RequestTypes, SendsCounted
<1> QED
    BY <1>1, <1>2

(* The keychain, the login view, the request and the first-run pull keep    *)
(* their types, and a request under way has cost one send per try and one   *)
(* more if it refreshed its token: never more than MAX_RETRIES + 1 counted  *)
(* (client.py _request, _maybe_backoff).                                    *)
THEOREM AccessTypes == AccessSpec => []AccessTypeOK
BY AccessTypeInit, AccessTypeStep, PTL DEF AccessSpec

-----------------------------------------------------------------------------
(* Whose login an OTP round finishes                                        *)

LEMMA OtpInit == AccessInit => OtpIsForTypedAccount
BY DEF AccessInit, OtpIsForTypedAccount

(* The credentials are submitted on one form only, which a challenge leaves *)
(* with handles of its own; every step that drops the handles leaves the    *)
(* round.                                                                   *)
LEMMA OtpStep == OtpIsForTypedAccount /\ [AccessNext]_accessVars => OtpIsForTypedAccount'
<1> SUFFICES ASSUME OtpIsForTypedAccount, [AccessNext]_accessVars PROVE OtpIsForTypedAccount'
    OBVIOUS
<1> USE DEF OtpIsForTypedAccount, Show
<1>1. ASSUME NEW a \in Accounts, StartChallenge(a) PROVE OtpIsForTypedAccount'
    BY <1>1, AccessAssumption DEF StartChallenge, EnterOtp, Tokens
<1>2. ASSUME NEW a \in Accounts, CredentialsFail(a) \/ TrustedLogin(a) \/ CommandLogin(a)
      PROVE OtpIsForTypedAccount'
    BY <1>2 DEF CredentialsFail, TrustedLogin, CommandLogin
<1>3. CASE SendOtp \/ OtpFails \/ NextFactor
    BY <1>3 DEF SendOtp, OtpFails, NextFactor, EnterOtp, Gate
<1>4. CASE FinishLogin \/ ChooseForm \/ SignOut \/ RefreshPage \/ RejectBootstrap
    BY <1>4 DEF FinishLogin, ChooseForm, SignOut, RefreshPage, RejectBootstrap
<1>5. ASSUME NEW t \in Bearers, SubmitBearer(t) PROVE OtpIsForTypedAccount'
    BY <1>5 DEF SubmitBearer
<1>6. CASE UNCHANGED <<screen, typed, handles>>
    BY <1>6
<1> QED
    BY <1>1, <1>2, <1>3, <1>4, <1>5, <1>6
       DEF AccessNext, AccessStep, accessVars, CommandPaste, CommandClear, Expire, StartCall,
           StartBootstrap, Send, StageEnds

(* An OTP round always belongs to the account typed last, whatever forms    *)
(* were visited and abandoned, and whatever the login command, an expiry or *)
(* a rejected pull did to the keychain meanwhile (login_view.py).           *)
THEOREM OtpForTypedAccount == AccessSpec => []OtpIsForTypedAccount
BY OtpInit, OtpStep, PTL DEF AccessSpec

-----------------------------------------------------------------------------
(* A failed login step                                                      *)

(* Only a step that reached its end shows no error, and only such a step    *)
(* stores a token; what the command line stores is not shown.               *)
LEMMA FailureStep ==
    [AccessNext]_accessVars => (screen' # screen /\ screen'.error => keychain' = keychain)
<1> SUFFICES ASSUME AccessNext, screen' # screen, screen'.error PROVE keychain' = keychain
    BY DEF accessVars
<1>1. ASSUME NEW a \in Accounts, TrustedLogin(a) \/ CommandLogin(a) PROVE FALSE
    BY <1>1 DEF TrustedLogin, CommandLogin, Show
<1>2. ASSUME NEW t \in Bearers, SubmitBearer(t) \/ CommandPaste(t) PROVE keychain' = keychain
    BY <1>2 DEF SubmitBearer, CommandPaste, Show
<1>3. CASE FinishLogin \/ SignOut \/ CommandClear \/ RejectBootstrap \/ Send
    BY <1>3 DEF FinishLogin, SignOut, CommandClear, RejectBootstrap, Send, Show
<1> QED
    BY <1>1, <1>2, <1>3
       DEF AccessNext, AccessStep, CredentialsFail, StartChallenge, SendOtp, OtpFails, NextFactor,
           ChooseForm, RefreshPage, Expire, StartCall, StartBootstrap, StageEnds

(* A step whose login view shows a new error changes neither the session    *)
(* nor the pasted bearer: a rejected token is never stored, and a failed    *)
(* round never replaces the session another login left (login_view.py).     *)
THEOREM FailedLoginKeepsKeychain == AccessSpec => FailureKeepsSession
BY FailureStep, PTL DEF AccessSpec, FailureKeepsSession
=============================================================================
