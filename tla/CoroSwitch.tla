----------------------------- MODULE CoroSwitch -----------------------------
(***************************************************************************)
(* Control transfer between the coroutines of one thread (libcoro.cpp):    *)
(* CoroEnv's current coroutine and its stack of coroutines to return to,   *)
(* and what Resume, Yield and Wait do to them.  The memory of the stacks   *)
(* the coroutines run on is abstracted away here.                          *)
(***************************************************************************)
EXTENDS Integers, SequencesExt

CONSTANTS
  Coro,     \* the coroutine objects the scheduler creates
  Sched,    \* sched_coro, the coroutine that runs RoutineFunc
  Main,     \* CoroEnv.main, the thread's original context
  NULL      \* the null pointer

ASSUME CoroAssumption ==
  /\ Sched \notin Coro
  /\ Main \notin Coro \cup {Sched}
  /\ NULL \notin Coro \cup {Sched, Main}

Context == Coro \cup {Sched, Main}

VARIABLES
  current,      \* CoroEnv.current: who runs; NULL until the first Resume
  coro_stack,   \* CoroEnv.coro_stack, its top last
  waiting       \* LibCoroCoroutine::waiting

switchVars == <<current, coro_stack, waiting>>

SwitchInit ==
  /\ current = NULL
  /\ coro_stack = <<>>
  /\ waiting = [c \in Context |-> FALSE]

\* Mutant: a coroutine that waits is kept on the stack all the same
ResumeFromKeepsWaiter(stk, flags, next, release) ==
  /\ coro_stack' = IF current # NULL /\ ~release THEN Append(stk, current) ELSE stk
  /\ current' = next
  /\ waiting' = [flags EXCEPT ![next] = FALSE]

\* Mutant: who resumes another coroutine is not kept on the stack
ResumeFromDropsCaller(stk, flags, next, release) ==
  /\ coro_stack' = stk
  /\ current' = next
  /\ waiting' = [flags EXCEPT ![next] = FALSE]

(***************************************************************************)
(* next->Resume(release) by the running coroutine, when the stack of       *)
(* coroutines is stk and the flags are flags.  The running coroutine is    *)
(* kept on the stack unless it waits or is released for good.              *)
(***************************************************************************)
ResumeFrom(stk, flags, next, release) ==
  /\ coro_stack' = IF current # NULL /\ ~flags[current] /\ ~release
                     THEN Append(stk, current)
                     ELSE stk
  /\ current' = next
  /\ waiting' = [flags EXCEPT ![next] = FALSE]

Resume(next, release) == ResumeFrom(coro_stack, waiting, next, release)

(***************************************************************************)
(* Yield pops whom to resume and falls back on the thread's main context.  *)
(***************************************************************************)
YieldFrom(flags, release) ==
  LET empty == coro_stack = <<>>
      next  == IF empty THEN Main ELSE Last(coro_stack)
      rest  == IF empty THEN coro_stack ELSE Front(coro_stack)
  IN  ResumeFrom(rest, flags, next, release)

Yield(release) == YieldFrom(waiting, release)

\* Mutant: the flag is not set before the Yield
WaitUnmarked(c) == YieldFrom(waiting, FALSE)

Wait(c) == YieldFrom([waiting EXCEPT ![c] = TRUE], FALSE)

=============================================================================
