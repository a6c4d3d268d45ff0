----------------------------- MODULE StackAlloc -----------------------------
(***************************************************************************)
(* Memory for the stacks of coroutines: coro_stack_alloc and               *)
(* coro_stack_free (coro.c), with guard pages below each stack.  mmap is   *)
(* external: it takes the lowest pages that are free and fails when there  *)
(* is no room for a second try either; mprotect does not fail.             *)
(***************************************************************************)
EXTENDS Integers, FiniteSetsExt

CONSTANTS
  WordSize,      \* sizeof (void *)
  PageSize,
  GuardPages,    \* CORO_GUARDPAGES
  DefaultSize,   \* what a size of 0 words stands for
  FirstPage,     \* bound: the pages mmap hands out
  LastPage

Page == FirstPage .. LastPage

ASSUME AllocAssumption ==
  /\ {WordSize, PageSize, DefaultSize, FirstPage, LastPage} \subseteq Nat \ {0}
  /\ GuardPages \in Nat

VARIABLES
  used,      \* the pages of stacks
  guarded    \* the pages that are mapped PROT_NONE

pageVars == <<used, guarded>>

AllocInit == used = {} /\ guarded = {}

\* struct coro_stack, in pages; sptr is 0 when nothing is allocated
NoStack == [sptr |-> 0, ssze |-> 0]

Body(s) == IF s.sptr = 0 THEN {} ELSE s.sptr .. (s.sptr + s.ssze - 1)
Guard(s) == IF s.sptr = 0 THEN {} ELSE (s.sptr - GuardPages) .. (s.sptr - 1)

\* The size of a stack of size words, in pages
PagesFor(size) ==
  ((IF size = 0 THEN DefaultSize ELSE size) * WordSize + PageSize - 1) \div PageSize

\* Mutant: the guard pages are not part of what mmap is asked for
AllocatedBare(mapped, size) ==
  LET n == PagesFor(size)
      room == {p \in Page : p .. (p + n - 1) \subseteq Page \ mapped}
  IN  [sptr |-> IF room = {} THEN 0 ELSE Min(room), ssze |-> n]

\* The struct that coro_stack_alloc fills in, where the pages mapped are taken
Allocated(mapped, size) ==
  LET n == PagesFor(size)
      room == {p \in Page : p .. (p + GuardPages + n - 1) \subseteq Page \ mapped}
  IN  [sptr |-> IF room = {} THEN 0 ELSE Min(room) + GuardPages, ssze |-> n]

\* Mutant: munmap starts above the guard pages
UnmappedBody(S) == UNION {Body(s) : s \in S}

\* What coro_stack_free gives back for the stacks of S
Unmapped(S) == UNION {Guard(s) \cup Body(s) : s \in S}

\* coro_stack_free for the stacks of S, then coro_stack_alloc for s
FreeThenAlloc(S, s) ==
  /\ used' = (used \ Unmapped(S)) \cup Body(s)
  /\ guarded' = (guarded \ Unmapped(S)) \cup Guard(s)

=============================================================================
