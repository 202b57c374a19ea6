--------------------------- MODULE MCRateLimiter ---------------------------
(* Two connections of one host, and requests that overlap.                 *)
EXTENDS RateLimiter, TLC

CONSTANTS r1, r2, h, p1, p2

OneHost == (p1 :> h) @@ (p2 :> h)
=============================================================================
