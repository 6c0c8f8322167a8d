--------------------------- MODULE MC_RateLimiter --------------------------
(* RateLimiter with a table of two counters, which one login fills: the    *)
(* next key evicts one of them.  Windows differ in length.                 *)
EXTENDS RateLimiter, TLC

SmallLimit == [r \in Rule |-> IF r = "login_ip" THEN 2 ELSE 1]
SmallWindow == [r \in Rule |-> IF r = "refresh_ip" THEN 1 ELSE 3]
Slots == Permutations(Attempt)
=============================================================================
