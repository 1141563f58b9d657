--------------------------- MODULE MCRateLimiter ---------------------------
(* The requests of a client are alike. *)
EXTENDS RateLimiter, TLC

AlikeRequests == Permutations(Req)
=============================================================================
