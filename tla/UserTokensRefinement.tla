------------------------ MODULE UserTokensRefinement ------------------------
(* UserTokens implements UserAuthorization: what a stored bundle means for  *)
(* its user.                                                                *)
EXTENDS UserTokens

\* Somebody holds the successor of user u's redeemed refresh token.
Renewing(u) ==
  \E i \in Tasks : /\ task[i].pc = "rotated"
                   /\ task[i].user = u
                   /\ task[i].bundle.rt = secret[u].rt

AuthOf(u) ==
  IF secret[u] = NoBundle          THEN "none"
  ELSE IF secret[u].rt = NoGrant     THEN "once"
  ELSE IF Redeemable(secret[u].rt)   THEN "renewable"
  ELSE IF LastAnswer(secret[u])      THEN "ended"
  ELSE IF Renewing(u)                THEN "renewing"
  ELSE "lost"

Authorization ==
  INSTANCE UserAuthorization WITH auth  <- [u \in Users |-> AuthOf(u)],
                                  Lossy <- Faults # {}

\* The store keeps every authorization through all renewals (tools/index.py
\* 88-133 and web_api/lark_oauth.py 76-124): it is lost by a fault or a
\* withdrawal only, and ended by an answer of Lark's, never by two invocations
\* getting in each other's way.
KeepsAuthorization == Authorization!Spec
=============================================================================
