--------------------------- MODULE MCRateLimiter ----------------------------
(* Two origins; a burst of two requests, and time for a bucket to be pruned. *)
EXTENDS RateLimiter
=============================================================================
