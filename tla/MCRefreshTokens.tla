--------------------------- MODULE MCRefreshTokens ---------------------------
(* Instances of RefreshTokens for TLC.  The ids of disciplined logins are   *)
(* interchangeable, and so are the others.                                  *)
EXTENDS RefreshTokens, TLC

Sym == Permutations(SerialFamilies)
         \cup Permutations(SessionIds \ SerialFamilies)
         \cup Permutations(Users) \cup Permutations(Workers)
=============================================================================
