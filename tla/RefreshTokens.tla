--------------------------- MODULE RefreshTokens ---------------------------
(***************************************************************************)
(* The refresh_tokens table of the server: one row per token ever issued,  *)
(* revoked when it is rotated, logged out or swept.  A rotation reads the  *)
(* row, then commits; nothing locks the row in between, and neither step   *)
(* waits for a client that has given up.  MobileSignIn and WebSignIn are   *)
(* the clients that present these tokens.                                  *)
(***************************************************************************)
EXTENDS Integers, Sequences, FiniteSets

CONSTANTS
  People,        \* who can log in
  NoOne,         \* for a client: nobody is signed in, no access token
  MaxRefresh,    \* bound: refresh tokens issued in one behaviour
  MaxLate        \* bound: rotations at once for clients that gave up

ASSUME PeopleAssumption == People # {} /\ NoOne \notin People
ASSUME MaxRefreshAssumption == MaxRefresh \in Nat \ {0} /\ MaxLate \in Nat

VARIABLES
  refresh,       \* the rows, in order of issue: [user, live, login]
  swept,         \* reuse of a revoked token was detected and its user's rows revoked
  late           \* the tokens the server goes on to rotate for a client that gave up

tokenVars == <<refresh, swept, late>>

NoToken == 0
Tokens == DOMAIN refresh
TokenIds == 0..MaxRefresh
RefreshRow == [user : People, live : BOOLEAN, login : 1..MaxRefresh]

\* Types of the table's variables.
TokensTypeOK ==
  /\ refresh \in Seq(RefreshRow) /\ Len(refresh) <= MaxRefresh
  /\ swept \in BOOLEAN
  /\ late \subseteq Tokens

TokensInit ==
  /\ refresh = << >>
  /\ swept = FALSE
  /\ late = {}

NextId == Len(refresh) + 1
MayIssue == NextId <= MaxRefresh
Live(t) == t \in Tokens /\ refresh[t].live

\* A login's token starts a chain that is named by its own number.
Issue(p) == refresh' = Append(refresh, [user |-> p, live |-> TRUE, login |-> NextId])

\* What a rotation reads first: the row is live, or it is reused after it was
\* revoked.  The clients present no token that was never issued.
Reused(t) == t \in Tokens /\ ~refresh[t].live

\* The old row is marked whatever became of it since it was read, and a new
\* live row is added to its chain.
Rotate(t) ==
  refresh' = Append([refresh EXCEPT ![t].live = FALSE],
                    [refresh[t] EXCEPT !.live = TRUE])

\* Reuse detection revokes every live row of the user.
Sweep(t) ==
  /\ refresh' = [s \in Tokens |-> [refresh[s] EXCEPT
                    !.live = @ /\ refresh[s].user # refresh[t].user]]
  /\ swept' = TRUE

Revoke(t) == refresh' = [s \in Tokens |-> [refresh[s] EXCEPT !.live = @ /\ s # t]]

\* A client gives up on its renewal c: a rotation that has been read is lost with
\* the connection, or the server goes on with it.
GivenUp(c) ==
  \/ UNCHANGED late
  \/ /\ c.st = "read"
     /\ MayIssue /\ Cardinality(late) < MaxLate
     /\ late' = late \union {c.tok}

LateCommit(t) ==
  /\ t \in late
  /\ MayIssue
  /\ Rotate(t)
  /\ late' = late \ {t}
  /\ UNCHANGED swept

\* Two tokens of one login that both still work.
Forked == \E s, t \in Tokens : s # t /\ Live(s) /\ Live(t)
                                /\ refresh[s].login = refresh[t].login

\* The table as chains of tokens, one for each login.
Working == [l \in 1..MaxRefresh |-> {t \in Tokens : refresh[t].live /\ refresh[t].login = l}]
Chains == INSTANCE TokenChains WITH
  Ids <- 1..MaxRefresh, issued <- Tokens,
  begun <- {refresh[t].login : t \in Tokens}, working <- Working
=============================================================================
