--------------------------- MODULE Clients_proofs ---------------------------
(***************************************************************************)
(* The composition that the run of the clients follows: one component at a *)
(* time moves, the phone and the browser on the same token table.  What is *)
(* proved of each component holds in it, for any instance.                 *)
(***************************************************************************)
EXTENDS MCClients, SignIn_proofs, Approvals_proofs, LiveFeed_proofs, Screens_proofs

\* What is known of the component that is followed.
ClientsInv ==
  /\ focus = "phone" => PhoneTypes /\ PhoneInv /\ ReuseInv
  /\ focus = "browser" => BrowserTypes /\ BrowserInv /\ CookieInv
  /\ focus = "approvals" => ApprovalsTypeOK
  /\ focus = "feed" => FeedTypeOK
  /\ focus = "wizard" => ScanTypeOK
  /\ focus = "screen" => ScreenInv

LEMMA ClientsStart == ClientsInit => ClientsInv
  <1> SUFFICES ASSUME ClientsInit PROVE ClientsInv
    OBVIOUS
  <1>1. TokensInit /\ MobileInit /\ WebInit /\ ApprovalsInit /\ FeedInit /\ ScanInit
    BY DEF ClientsInit
  <1>2. focus = "screen" => \E m \in Modes : ScreensInit(m)
    BY DEF ClientsInit
  <1>3. focus = "screen" => ScreenInv
    BY <1>2, ScreenStart
  <1> QED  BY <1>1, <1>3, PhoneStart, ReuseStart, BrowserStart, CookieStart, ApprovalsStart, FeedStart,
              ScanStart DEF ClientsInv

LEMMA ClientsStep == ClientsInv /\ [ClientsNext]_clientVars => ClientsInv'
  <1> SUFFICES ASSUME ClientsInv, [ClientsNext]_clientVars PROVE ClientsInv'
    OBVIOUS
  <1>f. focus' = focus
    BY DEF ClientsNext, clientVars
  <1>1. CASE focus = "phone"
    <2>1. [MobileNext]_PhoneVars
      BY <1>1 DEF ClientsNext, clientVars, PhoneVars
    <2> QED  BY <1>1, <1>f, <2>1, PhoneStep, ReuseStep DEF ClientsInv
  <1>2. CASE focus = "browser"
    <2>1. [WebNext]_BrowserVars
      BY <1>2 DEF ClientsNext, clientVars, BrowserVars
    <2> QED  BY <1>2, <1>f, <2>1, BrowserStep, CookieStep DEF ClientsInv
  <1>3. CASE focus = "approvals"
    <2>1. [ApprovalsNext]_approvalVars
      BY <1>3 DEF ClientsNext, clientVars
    <2> QED  BY <1>3, <1>f, <2>1, ApprovalsTypeStep DEF ClientsInv
  <1>4. CASE focus = "feed"
    <2>1. [FeedNext]_feedVars
      BY <1>4 DEF ClientsNext, clientVars
    <2> QED  BY <1>4, <1>f, <2>1, FeedTypeStep DEF ClientsInv
  <1>5. CASE focus = "wizard"
    <2>1. [ScanStep]_scanVars
      BY <1>5 DEF ClientsNext, clientVars
    <2> QED  BY <1>5, <1>f, <2>1, ScanTypeStep DEF ClientsInv
  <1>6. CASE focus = "screen"
    <2>1. [ScreensStep]_screenVars
      BY <1>6 DEF ClientsNext, clientVars
    <2> QED  BY <1>6, <1>f, <2>1, ScreenStep DEF ClientsInv
  <1>7. CASE focus \notin {"phone", "browser", "approvals", "feed", "wizard", "screen"}
    BY <1>7, <1>f DEF ClientsInv
  <1> QED  BY <1>1, <1>2, <1>3, <1>4, <1>5, <1>6, <1>7

LEMMA ClientsAlways == ClientsSpec => []ClientsInv
  BY ClientsStart, ClientsStep, PTL DEF ClientsSpec

\* Whichever component is followed keeps its types.
THEOREM ClientTypes == ClientsSpec => []ClientTypesOK
  <1>1. ClientsInv => ClientTypesOK
    BY ScreenMeans DEF ClientsInv, ClientTypesOK, PhoneTypes, BrowserTypes
  <1> QED  BY <1>1, ClientsAlways, PTL

\* A phone trips the reuse detection, or holds two working tokens of one login,
\* only after the token of a renewal stayed stored beyond it.
THEOREM PhoneReuseInClients == ClientsSpec => []PhoneReuseExplained
  <1>1. ClientsInv => PhoneReuseExplained
    BY ReuseMeans DEF ClientsInv, PhoneReuseExplained
  <1> QED  BY <1>1, ClientsAlways, PTL

\* The browser's refresh cookie is its only working token, unless two tabs
\* crossed or an exchange was lost.
THEOREM LiveTokenInClients == ClientsSpec => []BrowserHoldsTheLiveToken
  <1>1. ClientsInv => BrowserHoldsTheLiveToken
    BY CookieMeans DEF ClientsInv, BrowserHoldsTheLiveToken
  <1> QED  BY <1>1, ClientsAlways, PTL
=============================================================================
