--------------------------- MODULE MCShareStack ---------------------------
(* Instances of ShareStack for TLC *)
EXTENDS ShareStack, TLC

\* Coroutines outside the pool are interchangeable
Symmetric == Permutations(Coro \ PoolCoro)
=============================================================================
