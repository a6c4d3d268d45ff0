---------------------------- MODULE MCScheduler ----------------------------
(* Instances of Scheduler for TLC *)
EXTENDS Scheduler, TLC

CONSTANT p1   \* the coroutine of a pool of one

OnePooled == <<p1>>

\* Coroutines outside the pool are interchangeable, and so are the calls
Symmetric == Permutations(Coro \ Pooled) \cup Permutations(Func)
=============================================================================
