------------------------------- MODULE Tokens -------------------------------
(***************************************************************************)
(* The owner's authorisation at Google (modules/integrations/              *)
(* google-calendar): the setup by a consent page with a state of one use,  *)
(* the row of auth_tokens, and the refresh of the access token that every  *)
(* call of the calendar goes through.  A grant is what Google gives for    *)
(* one consent: a refresh token and the access tokens derived from it.     *)
(* Grants are numbered by the consent they come from; 0 is none.           *)
(***************************************************************************)
EXTENDS Naturals

CONSTANTS
  Callers,           \* who may ask for an access token, concurrently
  MaxConsents,       \* bound: consent pages opened
  MaxExchanges,      \* bound: callbacks that reach the exchange
  MaxExpiries        \* bound: expiries of the access token

ASSUME TokensAssumption == {MaxConsents, MaxExchanges, MaxExpiries} \subseteq Nat

None == 0
Consents == 1 .. MaxConsents
Grants == {None} \cup Consents

VARIABLES
  consents,          \* consent pages opened so far, each with its state
  (* memory of the process *)
  pendingOAuthState, \* the one state of buildConsentUrl that is good
  exchanging,        \* states whose code is being exchanged, once per call
  caller,            \* what each caller awaits
  held,              \* the grant whose refresh token it has read and sent
  (* the row of auth_tokens *)
  refreshToken,      \* its grant
  accessToken,       \* its grant
  fresh,             \* its expiry is further off than the safety margin
  (* history *)
  exchanges,         \* exchanges per state
  expiries,
  overlapped         \* a refresh and a setup were under way at the same time

setup == <<consents, pendingOAuthState, exchanging, exchanges>>
row == <<refreshToken, accessToken, fresh>>
callers == <<caller, held>>
tokenVars == <<setup, row, callers, expiries, overlapped>>

Waits == {"idle", "refreshing", "has", "failed"}

TokensTypeOK ==
  /\ consents \in 0 .. MaxConsents
  /\ pendingOAuthState \in Grants
  /\ exchanging \in [Consents -> Nat]
  /\ exchanges \in [Consents -> Nat]
  /\ {refreshToken, accessToken} \subseteq Grants
  /\ fresh \in BOOLEAN
  /\ caller \in [Callers -> Waits]
  /\ held \in [Callers -> Grants]
  /\ expiries \in 0 .. MaxExpiries
  /\ overlapped \in BOOLEAN

TokensInit ==
  /\ consents = 0
  /\ pendingOAuthState = None
  /\ exchanging = [s \in Consents |-> 0]
  /\ exchanges = [s \in Consents |-> 0]
  /\ refreshToken = None /\ accessToken = None /\ fresh = FALSE
  /\ caller = [c \in Callers |-> "idle"]
  /\ held = [c \in Callers |-> None]
  /\ expiries = 0
  /\ overlapped = FALSE

-----------------------------------------------------------------------------
Expire ==
  /\ fresh /\ expiries < MaxExpiries
  /\ fresh' = FALSE
  /\ expiries' = expiries + 1
  /\ UNCHANGED <<setup, refreshToken, accessToken, callers, overlapped>>

-----------------------------------------------------------------------------
(* The setup.                                                              *)

Refreshing == \E c \in Callers : caller[c] = "refreshing"
Exchanging == \E s \in Consents : exchanging[s] > 0

\* GET /setup/google: a new state replaces the one that was pending.
BuildConsentUrl ==
  /\ consents < MaxConsents
  /\ consents' = consents + 1
  /\ pendingOAuthState' = consents + 1
  /\ UNCHANGED <<exchanging, exchanges, row, callers, expiries, overlapped>>

IsValidState(s) == pendingOAuthState # None /\ s = pendingOAuthState

\* Mutant: the state is cleared once the exchange has succeeded.
ConsumeStateLater == pendingOAuthState' = pendingOAuthState

\* Consumed before the exchange is awaited.
ConsumeState == pendingOAuthState' = None

\* The browser calls back, perhaps late or again (a reload): the pending state
\* is consumed and the code sent to Google, another changes nothing (400).
CompleteSetup(s) ==
  /\ IsValidState(s)
  /\ exchanges[s] < MaxExchanges
  /\ ConsumeState
  /\ exchanging' = [exchanging EXCEPT ![s] = @ + 1]
  /\ exchanges' = [exchanges EXCEPT ![s] = @ + 1]
  /\ overlapped' = (overlapped \/ Refreshing)
  /\ UNCHANGED <<consents, row, callers, expiries>>

\* Mutant, after the comment of upsert: the refresh token that is stored stays.
UpsertKeepingRefreshToken(s) ==
  /\ refreshToken' = IF refreshToken = None THEN s ELSE refreshToken
  /\ accessToken' = s
  /\ fresh' = TRUE

Upsert(s) ==
  /\ refreshToken' = s
  /\ accessToken' = s
  /\ fresh' = TRUE

ExchangeSucceeds(s) ==
  /\ exchanging[s] > 0
  /\ exchanging' = [exchanging EXCEPT ![s] = @ - 1]
  /\ Upsert(s)
  /\ UNCHANGED <<consents, pendingOAuthState, exchanges, callers, expiries, overlapped>>

\* Google refuses, is out of reach or sends no refresh token (502).
ExchangeFails(s) ==
  /\ exchanging[s] > 0
  /\ exchanging' = [exchanging EXCEPT ![s] = @ - 1]
  /\ UNCHANGED <<consents, pendingOAuthState, exchanges, row, callers, expiries, overlapped>>

-----------------------------------------------------------------------------
(* getValidAccessToken.                                                    *)

\* AuthTokenNotFoundError; a valid token; or a refresh with the stored one.
GetValidAccessToken(c) ==
  /\ caller[c] = "idle"
  /\ \/ /\ refreshToken = None
        /\ caller' = [caller EXCEPT ![c] = "failed"]
        /\ UNCHANGED <<held, overlapped>>
     \/ /\ refreshToken # None /\ fresh
        /\ caller' = [caller EXCEPT ![c] = "has"]
        /\ UNCHANGED <<held, overlapped>>
     \/ /\ refreshToken # None /\ ~fresh
        /\ caller' = [caller EXCEPT ![c] = "refreshing"]
        /\ held' = [held EXCEPT ![c] = refreshToken]
        /\ overlapped' = (overlapped \/ Exchanging)
  /\ UNCHANGED <<setup, row, expiries>>

\* updateAccessToken writes the access token and its expiry only, whatever
\* the row has become during the await.
RefreshSucceeds(c) ==
  /\ caller[c] = "refreshing"
  /\ accessToken' = held[c]
  /\ fresh' = TRUE
  /\ caller' = [caller EXCEPT ![c] = "has"]
  /\ held' = [held EXCEPT ![c] = None]
  /\ UNCHANGED <<setup, refreshToken, expiries, overlapped>>

\* The alert by mail is awaited and the error thrown.
RefreshFails(c) ==
  /\ caller[c] = "refreshing"
  /\ caller' = [caller EXCEPT ![c] = "failed"]
  /\ held' = [held EXCEPT ![c] = None]
  /\ UNCHANGED <<setup, row, expiries, overlapped>>

\* The caller has used its token, or has given up.
Release(c) ==
  /\ caller[c] \in {"has", "failed"}
  /\ caller' = [caller EXCEPT ![c] = "idle"]
  /\ UNCHANGED <<setup, row, held, expiries, overlapped>>

\* A crash ends every await and forgets the state; the row stays.
ForgetTokens ==
  /\ pendingOAuthState' = None
  /\ exchanging' = [s \in Consents |-> 0]
  /\ caller' = [c \in Callers |-> "idle"]
  /\ held' = [c \in Callers |-> None]
  /\ UNCHANGED <<consents, exchanges, row, expiries, overlapped>>

-----------------------------------------------------------------------------

SetupStep ==
  \/ BuildConsentUrl \/ Expire
  \/ \E s \in Consents :
       CompleteSetup(s) \/ ExchangeSucceeds(s) \/ ExchangeFails(s)

CallerStep(c) ==
  GetValidAccessToken(c) \/ RefreshSucceeds(c) \/ RefreshFails(c) \/ Release(c)

TokensNext == SetupStep \/ (\E c \in Callers : CallerStep(c)) \/ ForgetTokens

TokensSpec == TokensInit /\ [][TokensNext]_tokenVars

-----------------------------------------------------------------------------
(* Properties.                                                             *)

\* A state is good for one exchange, also when the browser calls back twice
\* before Google has answered, when the exchange fails and across crashes.
StateUsedOnce == \A s \in Consents : exchanges[s] <= 1

\* The stored access token belongs to the stored refresh token, unless a
\* refresh and a setup overlapped: then the later write is the refresh's,
\* and the row is of two grants until the next expiry.
MismatchNeedsOverlap == accessToken # refreshToken => overlapped

=============================================================================
