---------------------------- MODULE MCRateLimiter ----------------------------
(* Instances of RateLimiter for TLC.                                       *)
EXTENDS RateLimiter, TLC

CONSTANT u1
OneUser == {u1}

(* The windows of config.py, 60 s and 3600 s, in half minutes, with smaller  *)
(* limits: only the keys of the global limit are lasting.                  *)
DefaultLimit == [k \in Kinds |-> IF k = "global" THEN 3 ELSE 2]
DefaultWindow == [k \in Kinds |-> IF k = "global" THEN 2 ELSE 120]
=============================================================================
