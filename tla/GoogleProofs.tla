---------------------------- MODULE GoogleProofs ----------------------------
(***************************************************************************)
(* The safety of the two modules about Google, Tokens and Brain, which     *)
(* have no variable in common.                                             *)
(*                                                                         *)
(* Tokens, for every set of callers and any number of consent pages,       *)
(* callbacks and expiries: a state that was exchanged is never pending     *)
(* again, because states are never reused; and a refresh under way sends   *)
(* the stored refresh token, unless a setup has overlapped it.             *)
(*                                                                         *)
(* Brain, for every set of events, any ceiling of the loop, any number of  *)
(* calls per answer and of crashes: as long as the message has no items, a *)
(* copy at Google has cost a mishap, but for the one on its way into the   *)
(* transaction; while its oldest item has a live event, one more may have  *)
(* been stored, and no insertion is under way.                             *)
(***************************************************************************)
EXTENDS Brain, Tokens, SequenceTheorems, TLAPS

-----------------------------------------------------------------------------
(* Tokens: the invariant.                                                  *)

\* Only a state that was issued is pending or exchanged, and not both.
StatesInv ==
  /\ consents \in 0 .. MaxConsents
  /\ pendingOAuthState \in Nat /\ pendingOAuthState <= consents
  /\ exchanging \in [Consents -> Nat]
  /\ exchanges \in [Consents -> Nat]
  /\ \A s \in Consents :
       exchanges[s] > 0 => s <= consents /\ s # pendingOAuthState
  /\ StateUsedOnce

\* The types of the row and of what its callers hold.
RowInv ==
  /\ {refreshToken, accessToken} \subseteq Grants
  /\ fresh \in BOOLEAN
  /\ caller \in [Callers -> Waits]
  /\ held \in [Callers -> Grants]
  /\ expiries \in 0 .. MaxExpiries
  /\ overlapped \in BOOLEAN

\* A refresh works for the stored grant, and alone, or it has overlapped.
GrantInv ==
  /\ \A c \in Callers :
       caller[c] = "refreshing" => held[c] = refreshToken \/ overlapped
  /\ Refreshing /\ Exchanging => overlapped
  /\ MismatchNeedsOverlap

TokensIInv == StatesInv /\ RowInv /\ GrantInv

-----------------------------------------------------------------------------
LEMMA BoundsAreNat ==
  MaxConsents \in Nat /\ MaxExchanges \in Nat /\ MaxExpiries \in Nat
  BY TokensAssumption

LEMMA StatesUnchanged ==
  ASSUME StatesInv, UNCHANGED setup  PROVE  StatesInv'
  BY DEF StatesInv, setup, StateUsedOnce

\* Fewer exchanges under way disturb nothing.
LEMMA ExchangeEnds ==
  ASSUME TokensIInv, NEW s \in Consents, exchanging[s] > 0,
         exchanging' = [exchanging EXCEPT ![s] = @ - 1],
         UNCHANGED <<consents, pendingOAuthState, exchanges>>
  PROVE  StatesInv' /\ Exchanging /\ exchanging' \in [Consents -> Nat]
<1>1. exchanging' \in [Consents -> Nat]
  BY DEF TokensIInv, StatesInv
<1>2. StatesInv'
  BY <1>1 DEF TokensIInv, StatesInv, StateUsedOnce
<1>. QED
  BY <1>1, <1>2 DEF Exchanging

-----------------------------------------------------------------------------
LEMMA TokensInitIInv == TokensInit => TokensIInv
<1>. SUFFICES ASSUME TokensInit  PROVE  TokensIInv
  OBVIOUS
<1>1. StatesInv
  BY BoundsAreNat DEF TokensInit, StatesInv, StateUsedOnce, None, Consents
<1>2. RowInv
  <2>1. expiries \in 0 .. MaxExpiries
    BY BoundsAreNat DEF TokensInit
  <2>2. {refreshToken, accessToken} \subseteq Grants
    BY DEF TokensInit, Grants
  <2>3. caller \in [Callers -> Waits] /\ held \in [Callers -> Grants]
    BY DEF TokensInit, Grants, Waits
  <2>. QED
    BY <2>1, <2>2, <2>3 DEF TokensInit, RowInv
<1>3. GrantInv
  BY DEF TokensInit, GrantInv, MismatchNeedsOverlap, Refreshing, Exchanging
<1>. QED
  BY <1>1, <1>2, <1>3 DEF TokensIInv

LEMMA ExpireStep == ASSUME TokensIInv, Expire  PROVE  TokensIInv'
<1>1. StatesInv'
  BY StatesUnchanged DEF TokensIInv, Expire
<1>2. RowInv'
  <2>1. expiries' \in 0 .. MaxExpiries
    BY BoundsAreNat DEF TokensIInv, RowInv, Expire
  <2>. QED
    BY <2>1 DEF TokensIInv, Expire, RowInv, callers
<1>3. GrantInv'
  BY DEF TokensIInv, Expire, GrantInv, MismatchNeedsOverlap, Refreshing, Exchanging,
         callers, setup
<1>. QED
  BY <1>1, <1>2, <1>3 DEF TokensIInv

LEMMA BuildConsentUrlStep == ASSUME TokensIInv, BuildConsentUrl  PROVE  TokensIInv'
<1>1. StatesInv'
  <2>1. consents' \in 0 .. MaxConsents /\ pendingOAuthState' = consents'
    BY BoundsAreNat DEF TokensIInv, StatesInv, BuildConsentUrl
  <2>2. \A s \in Consents :
          exchanges'[s] > 0 => s <= consents' /\ s # pendingOAuthState'
    BY DEF TokensIInv, StatesInv, BuildConsentUrl, Consents
  <2>. QED
    BY <2>1, <2>2 DEF TokensIInv, StatesInv, BuildConsentUrl, StateUsedOnce
<1>2. RowInv'
  BY DEF TokensIInv, BuildConsentUrl, RowInv, callers, row
<1>3. GrantInv'
  BY DEF TokensIInv, BuildConsentUrl, GrantInv, MismatchNeedsOverlap, Refreshing,
         Exchanging, callers, row
<1>. QED
  BY <1>1, <1>2, <1>3 DEF TokensIInv

LEMMA CompleteSetupStep ==
  ASSUME TokensIInv, NEW s \in Consents, CompleteSetup(s)  PROVE  TokensIInv'
<1>1. /\ pendingOAuthState = s
      /\ pendingOAuthState' = 0
      /\ consents' = consents
      /\ exchanging' = [exchanging EXCEPT ![s] = @ + 1]
      /\ exchanges' = [exchanges EXCEPT ![s] = @ + 1]
      /\ overlapped' = (overlapped \/ Refreshing)
      /\ UNCHANGED <<row, callers, expiries>>
  BY DEF CompleteSetup, IsValidState, ConsumeState, None
<1>2. StatesInv'
  <2>1. exchanges[s] = 0
    BY <1>1 DEF TokensIInv, StatesInv
  <2>2. /\ exchanging' \in [Consents -> Nat]
        /\ exchanges' \in [Consents -> Nat] /\ exchanges'[s] = 1
        /\ \A r \in Consents : r # s => exchanges'[r] = exchanges[r]
    BY <1>1, <2>1 DEF TokensIInv, StatesInv
  <2>3. \A r \in Consents : exchanges'[r] > 0 => r <= consents' /\ r # 0
    BY <1>1, <2>2 DEF TokensIInv, StatesInv, Consents
  <2>4. StateUsedOnce'
    BY <2>2 DEF TokensIInv, StatesInv, StateUsedOnce
  <2>. QED
    BY <1>1, <2>2, <2>3, <2>4 DEF TokensIInv, StatesInv
<1>3. RowInv'
  BY <1>1 DEF TokensIInv, RowInv, row, callers
<1>4. GrantInv'
  BY <1>1 DEF TokensIInv, GrantInv, MismatchNeedsOverlap, Refreshing, row, callers
<1>. QED
  BY <1>2, <1>3, <1>4 DEF TokensIInv

LEMMA ExchangeSucceedsStep ==
  ASSUME TokensIInv, NEW s \in Consents, ExchangeSucceeds(s)  PROVE  TokensIInv'
<1>1. StatesInv' /\ Exchanging
  BY ExchangeEnds DEF ExchangeSucceeds
<1>2. RowInv'
  BY DEF TokensIInv, RowInv, ExchangeSucceeds, Upsert, callers, Grants
<1>3. GrantInv'
  BY <1>1 DEF TokensIInv, GrantInv, MismatchNeedsOverlap, Refreshing,
              ExchangeSucceeds, Upsert, callers
<1>. QED
  BY <1>1, <1>2, <1>3 DEF TokensIInv

LEMMA ExchangeFailsStep ==
  ASSUME TokensIInv, NEW s \in Consents, ExchangeFails(s)  PROVE  TokensIInv'
<1>1. StatesInv' /\ Exchanging
  BY ExchangeEnds DEF ExchangeFails
<1>2. RowInv'
  BY DEF TokensIInv, RowInv, ExchangeFails, callers, row
<1>3. GrantInv'
  BY <1>1 DEF TokensIInv, GrantInv, MismatchNeedsOverlap, Refreshing,
              ExchangeFails, callers, row
<1>. QED
  BY <1>1, <1>2, <1>3 DEF TokensIInv

-----------------------------------------------------------------------------
LEMMA GetValidAccessTokenStep ==
  ASSUME TokensIInv, NEW c \in Callers, GetValidAccessToken(c)  PROVE  TokensIInv'
<1>1. StatesInv'
  BY StatesUnchanged DEF TokensIInv, GetValidAccessToken
<1>2. RowInv'
  BY DEF TokensIInv, RowInv, GetValidAccessToken, row, Waits
<1>3. GrantInv'
  <2>1. CASE caller' = [caller EXCEPT ![c] = "refreshing"]
    <3>1. /\ held' = [held EXCEPT ![c] = refreshToken]
          /\ overlapped' = (overlapped \/ Exchanging)
      BY <2>1 DEF GetValidAccessToken, TokensIInv, RowInv
    <3>. QED
      BY <2>1, <3>1 DEF TokensIInv, RowInv, GrantInv, MismatchNeedsOverlap,
           Exchanging, GetValidAccessToken, row, setup
  <2>2. CASE /\ \/ caller' = [caller EXCEPT ![c] = "failed"]
                \/ caller' = [caller EXCEPT ![c] = "has"]
             /\ UNCHANGED <<held, overlapped>>
    BY <2>2 DEF TokensIInv, RowInv, GrantInv, MismatchNeedsOverlap,
         Refreshing, Exchanging, GetValidAccessToken, row, setup
  <2>. QED
    BY <2>1, <2>2 DEF GetValidAccessToken
<1>. QED
  BY <1>1, <1>2, <1>3 DEF TokensIInv

LEMMA RefreshSucceedsStep ==
  ASSUME TokensIInv, NEW c \in Callers, RefreshSucceeds(c)  PROVE  TokensIInv'
<1>1. StatesInv'
  BY StatesUnchanged DEF TokensIInv, RefreshSucceeds
<1>2. RowInv'
  BY DEF TokensIInv, RowInv, RefreshSucceeds, Waits, Grants
<1>3. GrantInv'
  <2>1. held[c] = refreshToken \/ overlapped
    BY DEF TokensIInv, GrantInv, RefreshSucceeds
  <2>. QED
    BY <2>1 DEF TokensIInv, RowInv, GrantInv, MismatchNeedsOverlap, Refreshing,
         Exchanging, RefreshSucceeds, setup
<1>. QED
  BY <1>1, <1>2, <1>3 DEF TokensIInv

LEMMA RefreshFailsStep ==
  ASSUME TokensIInv, NEW c \in Callers, RefreshFails(c)  PROVE  TokensIInv'
<1>1. StatesInv'
  BY StatesUnchanged DEF TokensIInv, RefreshFails
<1>2. RowInv'
  BY DEF TokensIInv, RowInv, RefreshFails, row, Waits, Grants
<1>3. GrantInv'
  BY DEF TokensIInv, RowInv, GrantInv, MismatchNeedsOverlap, Refreshing, Exchanging,
         RefreshFails, row, setup
<1>. QED
  BY <1>1, <1>2, <1>3 DEF TokensIInv

LEMMA ReleaseStep ==
  ASSUME TokensIInv, NEW c \in Callers, Release(c)  PROVE  TokensIInv'
<1>1. StatesInv'
  BY StatesUnchanged DEF TokensIInv, Release
<1>2. RowInv'
  BY DEF TokensIInv, RowInv, Release, row, Waits
<1>3. GrantInv'
  BY DEF TokensIInv, RowInv, GrantInv, MismatchNeedsOverlap, Refreshing, Exchanging,
         Release, row, setup
<1>. QED
  BY <1>1, <1>2, <1>3 DEF TokensIInv

LEMMA ForgetTokensStep == ASSUME TokensIInv, ForgetTokens  PROVE  TokensIInv'
<1>1. StatesInv'
  <2>1. \A s \in Consents : s # 0
    BY DEF Consents
  <2>. QED
    BY <2>1 DEF TokensIInv, StatesInv, ForgetTokens, StateUsedOnce, None
<1>2. RowInv'
  BY DEF TokensIInv, RowInv, ForgetTokens, row, Waits, Grants
<1>3. GrantInv'
  BY DEF TokensIInv, GrantInv, MismatchNeedsOverlap, Refreshing, Exchanging,
         ForgetTokens, row
<1>. QED
  BY <1>1, <1>2, <1>3 DEF TokensIInv

-----------------------------------------------------------------------------
LEMMA TokensNextIInv == TokensIInv /\ [TokensNext]_tokenVars => TokensIInv'
<1>. SUFFICES ASSUME TokensIInv, [TokensNext]_tokenVars  PROVE  TokensIInv'
  OBVIOUS
<1>1. CASE SetupStep
  BY <1>1, BuildConsentUrlStep, ExpireStep, CompleteSetupStep,
     ExchangeSucceedsStep, ExchangeFailsStep DEF SetupStep
<1>2. CASE \E c \in Callers : CallerStep(c)
  BY <1>2, GetValidAccessTokenStep, RefreshSucceedsStep, RefreshFailsStep,
     ReleaseStep DEF CallerStep
<1>3. CASE ForgetTokens
  BY <1>3, ForgetTokensStep
<1>4. CASE UNCHANGED tokenVars
  <2>1. StatesInv'
    BY <1>4, StatesUnchanged DEF TokensIInv, tokenVars
  <2>2. RowInv'
    BY <1>4 DEF TokensIInv, RowInv, tokenVars, row, callers
  <2>3. GrantInv'
    BY <1>4 DEF TokensIInv, GrantInv, MismatchNeedsOverlap, Refreshing, Exchanging,
                tokenVars, setup, row, callers
  <2>. QED
    BY <2>1, <2>2, <2>3 DEF TokensIInv
<1>. QED
  BY <1>1, <1>2, <1>3, <1>4 DEF TokensNext

\* The inductive invariant holds in every reachable state of the setup and
\* the refreshes of the Google tokens.
THEOREM TokensInvariance == TokensSpec => []TokensIInv
  BY TokensInitIInv, TokensNextIInv, PTL DEF TokensSpec

\* The states of the setup, the row of auth_tokens and what the callers of
\* getValidAccessToken hold keep their types.
THEOREM TokensTypeCorrect == TokensSpec => []TokensTypeOK
<1>1. TokensIInv => TokensTypeOK
  BY BoundsAreNat DEF TokensIInv, StatesInv, RowInv, TokensTypeOK, Grants,
                          Consents, None
<1>. QED
  BY <1>1, TokensInvariance, PTL

\* However often the browser calls back, before Google has answered or after,
\* completeSetup exchanges a state once: consuming it before the await is
\* what the single use rests on.
THEOREM StateUsedOnceTheorem == TokensSpec => []StateUsedOnce
<1>1. TokensIInv => StateUsedOnce
  BY DEF TokensIInv, StatesInv
<1>. QED
  BY <1>1, TokensInvariance, PTL

\* Any number of concurrent refreshes leaves the row with tokens of a single
\* grant; only a setup that overlaps a refresh can mix two of them.
THEOREM MismatchTheorem == TokensSpec => []MismatchNeedsOverlap
<1>1. TokensIInv => MismatchNeedsOverlap
  BY DEF TokensIInv, GrantInv
<1>. QED
  BY <1>1, TokensInvariance, PTL

-----------------------------------------------------------------------------
(* Brain: the invariant.                                                   *)

\* What the loop awaits while it resolves a call of create_event.
Creating == pc \in {"inserting", "inserted"}

\* The calls still to be resolved, and what an insertion under way asks for.
LoopInv ==
  /\ processed \in BOOLEAN
  /\ pc \in Steps
  /\ round \in 0 .. MaxToolIterations
  /\ calls \in Seq(Calls)
  /\ told \subseteq Events
  /\ reply \in Replies
  /\ Creating => calls # <<>> /\ Asked \in Events /\ oldest \notin Events

\* The mishaps pay for the copies: for all of them before the message has an
\* item, for all but one while its oldest item has a live event.
Paid(e) ==
  /\ oldest = "none" =>
       /\ mirrored[e] = 0
       /\ \/ Copies(e) <= mishaps
          \/ arriving /\ e = Asked /\ Copies(e) <= 1 + mishaps
  /\ oldest \in Events => Copies(e) <= 1 + mishaps

CopiesInv ==
  /\ unlinked \in [Events -> Nat] /\ adopted \in [Events -> Nat]
  /\ mirrored \in [Events -> Nat]
  /\ oldest \in Events \cup {"none", "bare"}
  /\ arriving \in BOOLEAN
  /\ mishaps \in Nat
  /\ arriving => pc = "inserted" /\ unlinked[Asked] > 0
  /\ oldest \in Events => mirrored[oldest] > 0
  /\ \A e \in Events : Paid(e)

\* Success is reported once something has been stored.
ToldInv == told # {} => \E e \in Events : mirrored[e] > 0

IInv == LoopInv /\ CopiesInv /\ ToldInv /\ crashes \in Nat

-----------------------------------------------------------------------------
LEMMA CopiesUnchanged ==
  ASSUME CopiesInv,
         UNCHANGED <<unlinked, mirrored, oldest, adopted, arriving, mishaps>>,
         ~arriving \/ UNCHANGED <<pc, calls>>
  PROVE  CopiesInv'
  BY DEF CopiesInv, Paid, Copies, Asked

\* An oldest item without its event promises nothing any more.
LEMMA EventWithdrawn ==
  ASSUME CopiesInv, Withdraws,
         UNCHANGED <<unlinked, mirrored, adopted, arriving, mishaps>>,
         ~arriving \/ UNCHANGED <<pc, calls>>
  PROVE  CopiesInv' /\ oldest' \notin Events
<1>1. oldest' = "bare" /\ oldest' \notin Events /\ oldest' # "none"
  BY BrainAssumption DEF Withdraws
<1>. QED
  BY <1>1 DEF CopiesInv, Paid, Asked

LEMMA RestOfCalls ==
  ASSUME calls \in Seq(Calls), calls # <<>>
  PROVE  Tail(calls) \in Seq(Calls) /\ Asked \in Calls
  BY HeadTailProperties DEF Asked

\* Nothing is arriving but in the step that stores it.
LEMMA NothingArrives ==
  ASSUME IInv, pc # "inserted"  PROVE  ~arriving
  BY DEF IInv, CopiesInv

LEMMA InitIInv == Init => IInv
<1>. SUFFICES ASSUME Init  PROVE  IInv
  OBVIOUS
<1>1. LoopInv
  <2>1. round \in 0 .. MaxToolIterations
    BY BrainAssumption DEF Init
  <2>2. calls \in Seq(Calls)
    BY DEF Init
  <2>3. processed \in BOOLEAN /\ told \subseteq Events
    BY DEF Init
  <2>4. pc \in Steps /\ reply \in Replies /\ ~Creating
    BY DEF Init, Steps, Replies, Creating
  <2>. QED
    BY <2>1, <2>2, <2>3, <2>4 DEF LoopInv
<1>2. CopiesInv
  <2>1. /\ unlinked \in [Events -> Nat] /\ adopted \in [Events -> Nat]
        /\ mirrored \in [Events -> Nat]
    BY DEF Init
  <2>2. oldest = "none" /\ oldest \notin Events
    BY BrainAssumption DEF Init
  <2>3. \A e \in Events : Paid(e)
    <3>. SUFFICES ASSUME NEW e \in Events  PROVE  Paid(e)
      OBVIOUS
    <3>1. mishaps = 0 /\ unlinked[e] = 0 /\ adopted[e] = 0 /\ mirrored[e] = 0
      BY Zenon DEF Init
    <3>. QED
      BY <2>2, <3>1 DEF Paid, Copies
  <2>4. ~arriving /\ arriving \in BOOLEAN /\ mishaps \in Nat
    BY DEF Init
  <2>. QED
    BY <2>1, <2>2, <2>3, <2>4, Zenon DEF CopiesInv
<1>3. ToldInv /\ crashes \in Nat
  BY DEF Init, ToldInv
<1>. QED
  BY <1>1, <1>2, <1>3 DEF IInv

-----------------------------------------------------------------------------
(* The loop.                                                               *)

LEMMA BeginStep == ASSUME IInv, Begin  PROVE  IInv'
<1>1. ~arriving
  BY NothingArrives DEF Begin
<1>2. LoopInv'
  BY BrainAssumption DEF IInv, LoopInv, Begin, Steps, Creating
<1>3. CopiesInv'
  BY <1>1, CopiesUnchanged DEF IInv, Begin, store
<1>. QED
  BY <1>2, <1>3 DEF IInv, ToldInv, Begin

\* Captured once, the message has its copies for free; captured again, every
\* event has a mishap to pay for one more.
LEMMA CaptureItemsStep ==
  ASSUME IInv, NEW linked \in SUBSET Events, CaptureItems(linked)  PROVE  IInv'
<1>1. /\ pc = "off" /\ ~arriving /\ CopiesInv
      /\ mirrored' = [e \in Events |-> IF e \in linked THEN mirrored[e] + 1
                                                      ELSE mirrored[e]]
      /\ UNCHANGED <<processed, round, calls, told, unlinked, adopted, arriving>>
  BY NothingArrives DEF CaptureItems, IInv
<1>2. pc' \in {"off", "replied"} /\ reply' \in Replies /\ crashes' \in Nat
  BY <1>1 DEF CaptureItems, Enqueue, IInv, LoopInv, Replies
<1>3. LoopInv'
  BY <1>1, <1>2 DEF IInv, LoopInv, Steps, Creating
<1>4. /\ mirrored' \in [Events -> Nat]
      /\ \A e \in Events : /\ mirrored'[e] \in {mirrored[e], mirrored[e] + 1}
                            /\ e \in linked => mirrored'[e] > 0
                            /\ mirrored'[e] >= mirrored[e]
  BY <1>1 DEF CopiesInv
<1>5. CopiesInv'
  <2>1. CASE oldest = "none"
    <3>1. oldest' \in linked \cup {"bare"} /\ mishaps' = mishaps
      BY <2>1 DEF CaptureItems
    <3>2. oldest' # "none"
      BY <3>1, BrainAssumption
    <3>3. ASSUME NEW e \in Events  PROVE  Copies(e)' <= 1 + mishaps'
      BY <1>1, <1>4, <2>1, <3>1 DEF CopiesInv, Paid, Copies
    <3>4. ASSUME oldest' \in Events  PROVE  mirrored'[oldest'] > 0
      <4>1. oldest' \in linked
        BY <3>1, <3>4, BrainAssumption
      <4>2. \A e \in linked : mirrored'[e] > 0
        <5>. SUFFICES ASSUME NEW e \in linked  PROVE  mirrored'[e] > 0
          OBVIOUS
        <5>1. e \in Events /\ mirrored[e] \in Nat
          BY <1>1 DEF CopiesInv
        <5>2. mirrored'[e] = mirrored[e] + 1
          BY <1>1, <5>1
        <5>. QED
          BY <5>1, <5>2
      <4>. QED
        BY <4>1, <4>2, Zenon
    <3>. QED
      BY <1>1, <1>4, <3>1, <3>2, <3>3, <3>4 DEF CopiesInv, Paid
  <2>2. CASE oldest # "none"
    <3>1. oldest' = oldest /\ mishaps' = mishaps + 1
      BY <2>2 DEF CaptureItems
    <3>2. ASSUME NEW e \in Events, oldest \in Events
          PROVE  Copies(e)' <= 1 + mishaps'
      BY <1>1, <1>4, <3>1, <3>2 DEF CopiesInv, Paid, Copies
    <3>3. oldest' \in Events => mirrored'[oldest'] > 0
      BY <1>1, <1>4, <3>1 DEF CopiesInv
    <3>. QED
      BY <1>1, <1>4, <2>2, <3>1, <3>2, <3>3 DEF CopiesInv, Paid
  <2>. QED
    BY <2>1, <2>2
<1>6. ToldInv'
  BY <1>1, <1>4 DEF IInv, ToldInv, CopiesInv
<1>. QED
  BY <1>2, <1>3, <1>5, <1>6 DEF IInv

LEMMA ModelAnswersStep == ASSUME IInv, ModelAnswers  PROVE  IInv'
<1>1. ~arriving
  BY NothingArrives DEF ModelAnswers
<1>2. calls' \in Seq(Calls) /\ pc' \in {"replied", "calling"}
  <2>1. ASSUME NEW n \in 1 .. MaxCalls, NEW asked \in [1 .. n -> Calls]
        PROVE  asked \in Seq(Calls)
    BY BrainAssumption, n \in Nat
  <2>2. <<>> \in Seq(Calls)
    OBVIOUS
  <2>3. calls' = <<>> \/ \E n \in 1 .. MaxCalls : calls' \in [1 .. n -> Calls]
    BY DEF ModelAnswers
  <2>4. pc' \in {"replied", "calling"}
    BY DEF ModelAnswers, Enqueue
  <2>. QED
    BY <2>1, <2>2, <2>3, <2>4
<1>3. round' \in 0 .. MaxToolIterations
  <2>1. MaxToolIterations \in Nat /\ round \in 0 .. MaxToolIterations
    BY BrainAssumption DEF IInv, LoopInv
  <2>2. round' = round \/ (round < MaxToolIterations /\ round' = round + 1)
    BY DEF ModelAnswers, Counted
  <2>. QED
    BY <2>1, <2>2
<1>4. reply' \in Replies
  BY DEF IInv, LoopInv, ModelAnswers, Enqueue, Replies
<1>5. LoopInv'
  BY <1>2, <1>3, <1>4 DEF IInv, LoopInv, ModelAnswers, Steps, Creating
<1>6. CopiesInv'
  BY <1>1, CopiesUnchanged DEF IInv, ModelAnswers, store
<1>. QED
  BY <1>5, <1>6 DEF IInv, ToldInv, ModelAnswers, store

LEMMA ReturnResultsStep == ASSUME IInv, ReturnResults  PROVE  IInv'
<1>1. ~arriving
  BY NothingArrives DEF ReturnResults
<1>2. LoopInv'
  BY DEF IInv, LoopInv, ReturnResults, Enqueue, Steps, Replies, Creating
<1>3. CopiesInv'
  BY <1>1, CopiesUnchanged DEF IInv, ReturnResults, store
<1>. QED
  BY <1>2, <1>3 DEF IInv, ToldInv, ReturnResults, store

LEMMA MarkProcessedStep == ASSUME IInv, MarkProcessed  PROVE  IInv'
<1>1. ~arriving
  BY NothingArrives DEF MarkProcessed
<1>2. LoopInv'
  BY DEF IInv, LoopInv, MarkProcessed, Steps, Creating
<1>3. CopiesInv'
  BY <1>1, CopiesUnchanged DEF IInv, MarkProcessed, store
<1>. QED
  BY <1>2, <1>3 DEF IInv, ToldInv, MarkProcessed, store

-----------------------------------------------------------------------------
(* The tools.                                                              *)

LEMMA ResolveOtherStep == ASSUME IInv, ResolveOther  PROVE  IInv'
<1>1. ~arriving
  BY NothingArrives DEF ResolveOther
<1>2. LoopInv'
  BY RestOfCalls DEF IInv, LoopInv, ResolveOther, Resolved, Steps, Creating
<1>3. CopiesInv'
  <2>1. CASE Withdraws
    BY <1>1, <2>1, EventWithdrawn DEF IInv, ResolveOther
  <2>2. CASE UNCHANGED oldest
    BY <1>1, <2>2, CopiesUnchanged DEF IInv, ResolveOther
  <2>. QED
    BY <2>1, <2>2 DEF ResolveOther
<1>. QED
  BY <1>2, <1>3 DEF IInv, ToldInv, ResolveOther

LEMMA OwnerWithdrawsStep == ASSUME IInv, OwnerWithdraws  PROVE  IInv'
<1>1. CopiesInv' /\ oldest' \notin Events
  BY EventWithdrawn DEF IInv, OwnerWithdraws, loop
<1>2. LoopInv'
  BY <1>1 DEF IInv, LoopInv, OwnerWithdraws, loop, Creating, Asked
<1>. QED
  BY <1>1, <1>2 DEF IInv, ToldInv, OwnerWithdraws, loop

\* The lookup lets an insertion begin only while no item of the message, or one
\* without its event, is the oldest.
LEMMA CreateEventStep == ASSUME IInv, CreateEvent  PROVE  IInv'
<1>1. ~arriving
  BY NothingArrives DEF CreateEvent
<1>2. /\ calls # <<>> /\ Asked \in Events /\ calls \in Seq(Calls)
      /\ UNCHANGED <<processed, round, reply, store, mishaps, crashes>>
  BY DEF IInv, LoopInv, CreateEvent
<1>3. \/ /\ pc' = "calling" /\ calls' = Tail(calls)
         /\ told' = told \/ (told' = told \cup {Asked} /\ oldest \in Events)
      \/ /\ pc' = "inserting" /\ oldest \notin Events
         /\ UNCHANGED <<calls, told>>
  BY DEF CreateEvent, Resolved, ExistingBrainEvent
<1>4. LoopInv'
  <2>1. CASE pc' = "calling" /\ calls' = Tail(calls)
    BY <2>1, <1>2, <1>3, RestOfCalls DEF IInv, LoopInv, Steps, Creating
  <2>2. CASE pc' = "inserting" /\ oldest \notin Events /\ UNCHANGED <<calls, told>>
    BY <2>2, <1>2 DEF IInv, LoopInv, Steps, Creating, Asked, store
  <2>. QED
    BY <1>3, <2>1, <2>2
<1>5. CopiesInv'
  BY <1>1, <1>2, CopiesUnchanged DEF IInv, store
<1>6. ToldInv'
  BY <1>2, <1>3 DEF IInv, CopiesInv, ToldInv, store
<1>. QED
  BY <1>2, <1>4, <1>5, <1>6 DEF IInv

LEMMA GoogleInsertsStep == ASSUME IInv, GoogleInserts  PROVE  IInv'
<1>1. /\ pc = "inserting" /\ ~arriving
      /\ Asked \in Events /\ oldest \notin Events
      /\ unlinked' = [unlinked EXCEPT ![Asked] = @ + 1]
      /\ arriving' = TRUE /\ pc' = "inserted"
      /\ UNCHANGED <<processed, round, calls, told, reply, mirrored, oldest,
                     adopted, mishaps, crashes>>
  BY NothingArrives DEF IInv, LoopInv, Creating, GoogleInserts
<1>2. Asked' = Asked
  BY <1>1 DEF Asked
<1>3. LoopInv'
  BY <1>1, <1>2 DEF IInv, LoopInv, Steps, Creating
<1>4. CopiesInv'
  <2>1. /\ unlinked \in [Events -> Nat] /\ adopted \in [Events -> Nat]
        /\ mirrored \in [Events -> Nat]
        /\ mishaps \in Nat
        /\ \A e \in Events : Paid(e)
    BY <1>1 DEF IInv, CopiesInv
  <2>2. /\ unlinked' \in [Events -> Nat]
        /\ unlinked'[Asked] = unlinked[Asked] + 1
        /\ \A e \in Events : e # Asked => unlinked'[e] = unlinked[e]
    BY <1>1, <2>1
  <2>3. ASSUME NEW e \in Events  PROVE  Paid(e)'
    <3>1. /\ unlinked'[e] \in {unlinked[e], unlinked[e] + 1}
          /\ e # Asked => unlinked'[e] = unlinked[e]
          /\ oldest = "none" => mirrored[e] = 0 /\ Copies(e) <= mishaps
      BY <1>1, <2>1, <2>2 DEF Paid
    <3>. QED
      BY <1>1, <1>2, <2>1, <3>1 DEF Paid, Copies
  <2>4. unlinked'[Asked] > 0
    BY <1>1, <2>1, <2>2
  <2>. QED
    BY <1>1, <1>2, <2>1, <2>2, <2>3, <2>4 DEF IInv, CopiesInv
<1>. QED
  BY <1>1, <1>3, <1>4 DEF IInv, ToldInv

LEMMA InsertFailsStep == ASSUME IInv, InsertFails  PROVE  IInv'
<1>1. ~arriving
  BY NothingArrives DEF InsertFails
<1>2. LoopInv'
  BY RestOfCalls DEF IInv, LoopInv, InsertFails, Resolved, Steps, Creating
<1>3. CopiesInv'
  BY <1>1, CopiesUnchanged DEF IInv, InsertFails, store
<1>. QED
  BY <1>2, <1>3 DEF IInv, ToldInv, InsertFails, store

\* A copy that was arriving and will not be stored becomes a mishap.
LEMMA Forgotten ==
  ASSUME CopiesInv, arriving' = FALSE,
         UNCHANGED <<unlinked, mirrored, oldest, adopted>>,
         mishaps' \in Nat, arriving => mishaps' = mishaps + 1,
         mishaps' >= mishaps
  PROVE  CopiesInv'
<1>1. ASSUME NEW e \in Events  PROVE  Paid(e)'
  <2>1. Copies(e) \in Nat /\ mishaps \in Nat /\ Copies(e)' = Copies(e)
    BY DEF CopiesInv, Copies
  <2>2. arriving => mishaps' = mishaps + 1
    OBVIOUS
  <2>3. Paid(e)
    BY DEF CopiesInv
  <2>. QED
    BY <2>1, <2>2, <2>3 DEF Paid
<1>. QED
  BY <1>1 DEF CopiesInv

LEMMA AnswerLostStep == ASSUME IInv, AnswerLost  PROVE  IInv'
<1>1. LoopInv'
  BY RestOfCalls DEF IInv, LoopInv, AnswerLost, Resolved, Steps, Creating
<1>2. CopiesInv'
  <2>1. mishaps \in Nat /\ mishaps' = mishaps + 1
    BY DEF IInv, CopiesInv, AnswerLost
  <2>2. mishaps' \in Nat /\ mishaps' >= mishaps
    BY <2>1
  <2>3. /\ CopiesInv /\ arriving' = FALSE
        /\ UNCHANGED <<unlinked, mirrored, oldest, adopted>>
    BY DEF IInv, AnswerLost
  <2>. QED
    BY <2>1, <2>2, <2>3, Forgotten, Zenon
<1>. QED
  BY <1>1, <1>2 DEF IInv, ToldInv, AnswerLost

\* The transaction turns the copy that arrives into the one that is stored.
LEMMA StoreEventStep == ASSUME IInv, StoreEvent  PROVE  IInv'
<1>1. /\ pc = "inserted" /\ pc' = "calling" /\ calls' = Tail(calls)
      /\ arriving' = FALSE
      /\ UNCHANGED <<processed, round, reply, adopted, mishaps, crashes>>
      /\ calls # <<>> /\ Asked \in Events /\ calls \in Seq(Calls)
  BY DEF IInv, LoopInv, Creating, StoreEvent, Resolved
<1>2. Tail(calls) \in Seq(Calls)
  BY <1>1, RestOfCalls
<1>3. CASE ~arriving
  <2>1. UNCHANGED <<unlinked, mirrored, oldest, told>>
    BY <1>3 DEF StoreEvent
  <2>2. LoopInv'
    BY <1>1, <1>2, <2>1 DEF IInv, LoopInv, Steps, Creating
  <2>3. CopiesInv'
    BY <1>1, <1>3, <2>1, CopiesUnchanged DEF IInv, CopiesInv
  <2>. QED
    BY <1>1, <2>1, <2>2, <2>3 DEF IInv, ToldInv
<1>4. CASE arriving
  <2>1. /\ unlinked' = [unlinked EXCEPT ![Asked] = @ - 1]
        /\ mirrored' = [mirrored EXCEPT ![Asked] = @ + 1]
        /\ oldest' = IF oldest = "none" THEN Asked ELSE oldest
        /\ oldest \in {"none", "bare"} /\ told' \subseteq Events
    BY <1>1, <1>4 DEF StoreEvent, Links, IInv, LoopInv, CopiesInv, Creating
  <2>2. LoopInv'
    BY <1>1, <1>2, <2>1 DEF IInv, LoopInv, Steps, Creating
  <2>3. CopiesInv'
    <3>1. /\ unlinked \in [Events -> Nat] /\ adopted \in [Events -> Nat]
          /\ mirrored \in [Events -> Nat]
          /\ mishaps \in Nat /\ unlinked[Asked] > 0
          /\ \A e \in Events : Paid(e)
      BY <1>4 DEF IInv, CopiesInv
    <3>2. /\ unlinked' \in [Events -> Nat] /\ mirrored' \in [Events -> Nat]
          /\ unlinked'[Asked] = unlinked[Asked] - 1
          /\ mirrored'[Asked] = mirrored[Asked] + 1
          /\ \A e \in Events : e # Asked => /\ unlinked'[e] = unlinked[e]
                                            /\ mirrored'[e] = mirrored[e]
      BY <1>1, <2>1, <3>1
    <3>3. ASSUME NEW e \in Events, oldest = "none"
          PROVE  Copies(e)' <= 1 + mishaps
      <4>1. Copies(e) <= 1 + mishaps
        BY <3>1, <3>3 DEF Paid, Copies
      <4>2. Copies(e)' = Copies(e)
        <5>1. CASE e = Asked
          BY <1>1, <3>1, <3>2, <5>1 DEF Copies
        <5>2. CASE e # Asked
          BY <1>1, <3>2, <5>2 DEF Copies
        <5>. QED
          BY <5>1, <5>2
      <4>. QED
        BY <4>1, <4>2
    <3>4. /\ oldest' # "none" /\ oldest' \in Events \cup {"bare"}
          /\ oldest' \in Events => oldest' = Asked /\ oldest = "none"
      BY <1>1, <2>1, BrainAssumption
    <3>5. mirrored'[Asked] > 0
      BY <1>1, <3>1, <3>2
    <3>. QED
      BY <1>1, <3>1, <3>2, <3>3, <3>4, <3>5 DEF CopiesInv, Paid
  <2>4. ToldInv'
    <3>1. mirrored'[Asked] > 0
      BY <1>1, <2>1 DEF IInv, CopiesInv
    <3>. QED
      BY <1>1, <3>1 DEF ToldInv
  <2>. QED
    BY <1>1, <2>2, <2>3, <2>4 DEF IInv
<1>. QED
  BY <1>3, <1>4

-----------------------------------------------------------------------------
(* The briefing and the process.                                           *)

\* What the agenda brings is only moved; what was arriving is a mishap.
LEMMA ListTodayAndSyncStep == ASSUME IInv, ListTodayAndSync  PROVE  IInv'
<1>1. /\ adopted' = [e \in Events |-> adopted[e] + unlinked[e]]
      /\ unlinked' = [e \in Events |-> 0]
      /\ arriving' = FALSE
      /\ mishaps' = IF arriving THEN mishaps + 1 ELSE mishaps
      /\ UNCHANGED <<loop, mirrored, oldest, crashes>>
  BY DEF ListTodayAndSync
<1>2. LoopInv'
  BY <1>1 DEF IInv, LoopInv, loop, Creating, Asked
<1>3. CopiesInv'
  <2>1. /\ unlinked \in [Events -> Nat] /\ adopted \in [Events -> Nat]
        /\ mirrored \in [Events -> Nat]
        /\ mishaps \in Nat
    BY DEF IInv, CopiesInv
  <2>2. unlinked' \in [Events -> Nat] /\ adopted' \in [Events -> Nat]
        /\ mishaps' \in Nat
    BY <1>1, <2>1
  <2>3. ASSUME NEW e \in Events  PROVE  Paid(e)'
    <3>1. /\ unlinked'[e] = 0 /\ adopted'[e] = adopted[e] + unlinked[e]
          /\ unlinked[e] \in Nat /\ adopted[e] \in Nat /\ mirrored[e] \in Nat
      BY <1>1, <2>1
    <3>2. Copies(e)' = Copies(e) /\ Copies(e) \in Nat
      BY <1>1, <3>1 DEF Copies
    <3>3. Paid(e)
      BY DEF IInv, CopiesInv
    <3>. QED
      BY <1>1, <2>1, <3>2, <3>3 DEF Paid
  <2>. QED
    BY <1>1, <2>2, <2>3 DEF IInv, CopiesInv
<1>. QED
  BY <1>1, <1>2, <1>3 DEF IInv, ToldInv, loop

LEMMA CrashStep == ASSUME IInv, Crash  PROVE  IInv'
<1>1. LoopInv'
  BY BrainAssumption DEF IInv, LoopInv, Crash, Steps, Creating
<1>2. CopiesInv'
  <2>1. mishaps \in Nat /\ mishaps' = IF arriving THEN mishaps + 1 ELSE mishaps
    BY DEF IInv, CopiesInv, Crash
  <2>2. mishaps' \in Nat /\ mishaps' >= mishaps
    BY <2>1
  <2>3. arriving => mishaps' = mishaps + 1
    BY <2>1
  <2>4. /\ CopiesInv /\ arriving' = FALSE
        /\ UNCHANGED <<unlinked, mirrored, oldest, adopted>>
    BY DEF IInv, Crash
  <2>. QED
    BY <2>2, <2>3, <2>4, Forgotten, Zenon
<1>. QED
  BY <1>1, <1>2 DEF IInv, ToldInv, Crash

-----------------------------------------------------------------------------
LEMMA NextIInv == IInv /\ [Next]_vars => IInv'
<1>. SUFFICES ASSUME IInv, [Next]_vars  PROVE  IInv'
  OBVIOUS
<1>1. CASE LoopStep
  BY <1>1, BeginStep, ModelAnswersStep, ReturnResultsStep, MarkProcessedStep,
     ResolveOtherStep, CreateEventStep, GoogleInsertsStep, InsertFailsStep,
     AnswerLostStep, StoreEventStep DEF LoopStep
<1>2. CASE ListTodayAndSync \/ Crash \/ OwnerWithdraws
  BY <1>2, ListTodayAndSyncStep, CrashStep, OwnerWithdrawsStep
<1>4. CASE \E linked \in SUBSET Events : CaptureItems(linked)
  BY <1>4, CaptureItemsStep
<1>3. CASE UNCHANGED vars
  <2>1. LoopInv'
    BY <1>3 DEF IInv, LoopInv, vars, loop, store, Creating, Asked
  <2>2. CopiesInv'
    BY <1>3, CopiesUnchanged DEF IInv, vars, loop, store
  <2>. QED
    BY <1>3, <2>1, <2>2 DEF IInv, ToldInv, vars, loop, store
<1>. QED
  BY <1>1, <1>2, <1>3, <1>4 DEF Next

\* The inductive invariant of the conversation and its copies at Google.
THEOREM BrainInvariance == Spec => []IInv
  BY InitIInv, NextIInv, PTL DEF Spec

\* The loop, its calls and the counts of copies keep their types; the rounds
\* stay within the ceiling.
THEOREM BrainTypeCorrect == Spec => []TypeOK
<1>1. IInv => TypeOK
  BY DEF IInv, LoopInv, CopiesInv, TypeOK
<1>. QED
  BY <1>1, BrainInvariance, PTL

\* However the model repeats create_event and the message is replayed, each
\* copy beyond the first has cost a lost answer, a crash, an agenda read or a
\* replay that captures; or the message's oldest item has lost the event that
\* findExistingBrainEvent looks for.
THEOREM SecondCopyTheorem == Spec => []SecondCopyNeedsMishap
<1>1. IInv => SecondCopyNeedsMishap
  <2>. SUFFICES ASSUME CopiesInv, oldest # "bare", NEW e \in Events
                PROVE  Copies(e) <= 1 + mishaps
    BY DEF IInv, SecondCopyNeedsMishap
  <2>1. Copies(e) \in Nat /\ mishaps \in Nat /\ Paid(e)
    BY DEF CopiesInv, Copies
  <2>. QED
    BY <2>1 DEF CopiesInv, Paid
<1>. QED
  BY <1>1, BrainInvariance, PTL

\* create_event reports success for an event it has stored, or for another of
\* the same message: never when nothing was stored.
THEOREM FalseSuccessTheorem == Spec => []FalseSuccessOnlyBySibling
<1>1. IInv => FalseSuccessOnlyBySibling
  BY DEF IInv, ToldInv, FalseSuccessOnlyBySibling
<1>. QED
  BY <1>1, BrainInvariance, PTL

=============================================================================
