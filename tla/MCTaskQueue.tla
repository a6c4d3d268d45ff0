---------------------------- MODULE MCTaskQueue ----------------------------
(* Instances of TaskQueue for TLC *)
EXTENDS TaskQueue, TLC

\* The posters are interchangeable, and so are the calls
Symmetric == Permutations(Poster) \cup Permutations(Func)
=============================================================================
