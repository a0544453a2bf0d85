---------------------------- MODULE MCRateLimiter ----------------------------
(***************************************************************************)
(* RateLimiter with two addresses and buckets of two tokens.               *)
(***************************************************************************)
EXTENDS RateLimiter, TLC

VisitorSymmetry == Permutations(Visitors)
=============================================================================
