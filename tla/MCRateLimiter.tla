------------------------------ MODULE MCRateLimiter -----------------------------
(* RateLimiter by itself, with a clock that wraps early. *)
EXTENDS RateLimiter

CONSTANTS c1, c2
===============================================================================
