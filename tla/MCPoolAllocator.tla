-------------------------- MODULE MCPoolAllocator --------------------------
(* Model-checking instance of PoolAllocator: client threads are model      *)
(* values; sizes are the constructor's vector scaled down by 2^12 or so,   *)
(* keeping two small buckets, two large buckets and requests above them.   *)
EXTENDS PoolAllocator, TLC

CONSTANTS a1, a2

MCThreads == {a1, a2}
MCSizes == <<8, 16, 48, 64>>
\* 12: small; 40 and 48: both served by bucket 48; 100: above max_size.
MCRequests == {12, 40, 48, 100}
=============================================================================
