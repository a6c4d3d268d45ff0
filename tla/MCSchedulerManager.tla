------------------------- MODULE MCSchedulerManager -------------------------
(* Instances of SchedulerManager for TLC *)
EXTENDS SchedulerManager, TLC

\* test1.cpp's share_stack_count, with and without threads, for two schedulers
\* or none
NoneOrTwo ==
  [sheduler_num : {0, 2}, share_stack_count : {1}, create_thread : BOOLEAN]

\* None, two or three schedulers with threads
NoneTwoOrThree == [sheduler_num : {0, 2, 3}, share_stack_count : {1}, create_thread : {TRUE}]

\* The threads of the program are interchangeable
Symmetric == Permutations(Caller)
=============================================================================
