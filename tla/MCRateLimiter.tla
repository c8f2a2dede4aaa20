---------------------------- MODULE MCRateLimiter ----------------------------
(* Instances of RateLimiter for TLC. *)
EXTENDS RateLimiter, TLC

Symmetric == Permutations(Bucket) \cup Permutations(Caller) \cup Permutations(Hit)
=============================================================================
