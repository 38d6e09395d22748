------------------------- MODULE UserAuthorization -------------------------
(***************************************************************************)
(* What the token store promises about each user, without tokens, clocks,  *)
(* invocations or writes: the authorization a user has given at a login    *)
(* stays, through any number of renewals and whoever runs them, until Lark *)
(* ends it, the user withdraws it or a fault hits a renewal.               *)
(*                                                                         *)
(* Implemented by UserTokens (UserTokensRefinement).                       *)
(***************************************************************************)
CONSTANTS
  Users,
  Lossy   \* whether faults and withdrawals happen at all

VARIABLE auth

(***************************************************************************)
(*  none      : the user has never logged in                               *)
(*  once      : usable until the access token expires, not renewable       *)
(*  renewable : the refresh token on file can be redeemed                  *)
(*  renewing  : it has been redeemed and the answer is on its way          *)
(*  ended     : usable until the access token expires; the refresh token   *)
(*              on file bought it and is spent                             *)
(*  lost      : withdrawn, or the successor is gone; only a login helps    *)
(***************************************************************************)
State == {"none", "once", "renewable", "renewing", "ended", "lost"}

Init == auth = [u \in Users |-> "none"]

Become(u, s) == auth' = [auth EXCEPT ![u] = s]

\* A login or the end of a renewal stores a bundle, over whatever is there: a
\* renewal that Lark has ended may be stored over a login made meanwhile.
Store(u) == \E s \in {"once", "renewable", "ended"} : Become(u, s)

Redeem(u) == auth[u] = "renewable" /\ Become(u, "renewing")

Lose(u) == Lossy /\ Become(u, "lost")

Next == \E u \in Users : Store(u) \/ Redeem(u) \/ Lose(u)

Spec == Init /\ [][Next]_auth
=============================================================================
