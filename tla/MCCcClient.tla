----------------------------- MODULE MCCcClient -----------------------------
(* Buckets of two calls and one instead of 40 and 20; callers are alike.     *)
EXTENDS CcClient, TLC

SmallBuckets == [b \in Buckets |-> IF b = "sync" THEN 2 ELSE 1]
Interchangeable == Permutations(Calls)
=============================================================================
