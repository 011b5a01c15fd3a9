------------------------------ MODULE MCClients ------------------------------
(***************************************************************************)
(* Small instances of the client-side components, and of the server's      *)
(* tables they write, for TLC.  They do not meet: every behaviour follows  *)
(* one of them, named by focus, while the others rest.                     *)
(***************************************************************************)
EXTENDS MobileSignIn, WebSignIn, Approvals, LiveFeed, PhoneScan, Screens, TLC

CONSTANTS
  p1, p2, r1, r2, t1, t2, s1, s2, c1, c2, v1

VARIABLE focus

MCPeople == {p1, p2}
MCRequests == {r1, r2}
MCTabs == {t1, t2}
MCStudents == {s1, s2}
MCCalls == {c1, c2}
MCViewers == {v1}

clientVars == <<focus, tokenVars, mobileVars, webVars, approvalVars, feedVars,
                scanVars, screenVars>>

ClientsInit ==
  /\ focus \in {"phone", "browser", "approvals", "feed", "wizard", "screen"}
  /\ TokensInit /\ MobileInit /\ WebInit /\ ApprovalsInit /\ FeedInit /\ ScanInit
  /\ \E m \in IF focus = "screen" THEN Modes ELSE {CHOOSE m \in Modes : TRUE} :
       ScreensInit(m)

ClientsNext ==
  /\ UNCHANGED focus
  /\ \/ /\ focus = "phone" /\ MobileNext
        /\ UNCHANGED <<webVars, approvalVars, feedVars, scanVars, screenVars>>
     \/ /\ focus = "browser" /\ WebNext
        /\ UNCHANGED <<mobileVars, approvalVars, feedVars, scanVars, screenVars>>
     \/ /\ focus = "approvals" /\ ApprovalsNext
        /\ UNCHANGED <<tokenVars, mobileVars, webVars, feedVars, scanVars, screenVars>>
     \/ /\ focus = "feed" /\ FeedNext
        /\ UNCHANGED <<tokenVars, mobileVars, webVars, approvalVars, scanVars, screenVars>>
     \/ /\ focus = "wizard" /\ ScanStep
        /\ UNCHANGED <<tokenVars, mobileVars, webVars, approvalVars, feedVars, screenVars>>
     \/ /\ focus = "screen" /\ ScreensStep
        /\ UNCHANGED <<tokenVars, mobileVars, webVars, approvalVars, feedVars, scanVars>>

ClientsSpec == ClientsInit /\ [][ClientsNext]_clientVars

\* MobileReuseExplained and CookieIsTheLiveToken are about the tokens table, which
\* the phone and the browser both write.
PhoneReuseExplained == focus = "phone" => MobileReuseExplained
BrowserHoldsTheLiveToken == focus = "browser" => CookieIsTheLiveToken

\* The type invariant of the component that is followed.
ClientTypesOK ==
  /\ focus \in {"phone", "browser"} => TokensTypeOK
  /\ focus = "phone" => MobileTypeOK
  /\ focus = "browser" => WebTypeOK
  /\ focus = "approvals" => ApprovalsTypeOK
  /\ focus = "feed" => FeedTypeOK
  /\ focus = "wizard" => ScanTypeOK
  /\ focus = "screen" => ScreensTypeOK

\* The flags are never reset: once they excuse all that is said of a client's
\* tokens, only its types are left to check, and those are proved.  So it is with a
\* screen that has no loading flag and of which nothing is promised.  Of the two
\* students one applies for a leave, and both dispute.
Followed ==
  /\ focus = "phone" => ~cut \/ ~mixed
  /\ focus = "browser" => ~strangers \/ (~crossed /\ ~dropped)
  /\ focus = "screen" => mode.keeps # {} \/ mode.spin # "none"
  /\ focus = "approvals" => \E s \in Students : leave[s] = "none"

MCSymmetry == Permutations(MCTabs) \union Permutations(MCPeople)
=============================================================================
