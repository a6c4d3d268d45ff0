----------------------------- MODULE ShareStack -----------------------------
(***************************************************************************)
(* The memory that coroutines run on (libcoro.cpp): stacks of their own or *)
(* stacks that several of them share, whose frames are copied to a save    *)
(* buffer when another coroutine needs the stack and copied back before    *)
(* their owner runs again.  The coroutines belong to a scheduler without a *)
(* thread (create_thread = false), whose Start sets the share_stack_count  *)
(* of the thread that drives it; what they do is what the scheduler's      *)
(* operations make them do.                                                *)
(*                                                                         *)
(* The frames of a coroutine are a version number that changes as it       *)
(* works.  The words of coro_init and LibCoroFunc, to which no coroutine   *)
(* ever returns, are not part of them.                                     *)
(***************************************************************************)
EXTENDS CoroSwitch, FiniteSets

CONSTANTS
  ShareCounts,  \* the share_stack_count options that Start is given
  PoolCoro,     \* the coroutines of the coroutine pool
  Version       \* bound: the versions of a coroutine's frames are 0 .. Version

Shared == UNION {1 .. n : n \in ShareCounts}
Stack == Shared \cup Coro   \* a stack of a coroutine's own is named after it

Frames == Coro \X (0 .. Version)

ASSUME ShareStackAssumption ==
  /\ ShareCounts \subseteq Nat
  /\ PoolCoro \subseteq Coro
  /\ Version \in Nat
  /\ Coro \cap Int = {}
  /\ NULL \notin Int \cup Frames

VARIABLES
  state,         \* "idle" "exec" "retired" "freed": where the scheduler has c
  stack,         \* LibCoroCoroutine::stack
  ctx_inited,
  save_buffer,   \* the frames in LibCoroCoroutine::save_buffer, or NULL
  stack_sp,      \* is LibCoroCoroutine::stack_sp set?
  coro,          \* CoroStack::coro, the coroutine that last ran on the stack
  content,       \* the frames that lie on the stack
  share_stack_count,  \* CoroEnv.share_stack_count of the scheduler's thread
  pool_size,     \* share_stack_pool.size()
  cursor,        \* share_stack_pool.cursor
  frames         \* the version that coroutine c left its frames at

poolVars == <<share_stack_count, pool_size, cursor>>
bufferVars == <<save_buffer, stack_sp, content>>
stackVars == <<stack, ctx_inited, coro, poolVars>>
vars == <<switchVars, state, bufferVars, stackVars, frames>>

Init ==
  /\ SwitchInit
  /\ state = [c \in Coro |-> "idle"]
  /\ stack = [c \in Context |-> NULL]
  /\ ctx_inited = [c \in Context |-> c = Main]
  /\ save_buffer = [c \in Coro |-> NULL]
  /\ stack_sp = [c \in Coro |-> FALSE]
  /\ coro = [s \in Stack |-> NULL]
  /\ content = [s \in Stack |-> NULL]
  /\ share_stack_count \in ShareCounts
  /\ pool_size = 0
  /\ cursor = 0
  /\ frames = [c \in Coro |-> 0]

-----------------------------------------------------------------------------
(* Resume *)

\* Mutant: the cursor stays where it is
GetCoroStackStuck(c, s) ==
  /\ \/ /\ pool_size < share_stack_count
        /\ s = pool_size + 1
        /\ pool_size' = s
     \/ /\ pool_size = share_stack_count
        /\ s = IF pool_size = 0 THEN c ELSE 1
        /\ UNCHANGED pool_size
  /\ UNCHANGED <<share_stack_count, cursor>>

\* CoroEnv::GetCoroStack hands s to coroutine c
GetCoroStack(c, s) ==
  /\ \/ /\ pool_size < share_stack_count
        /\ s = pool_size + 1
        /\ pool_size' = s
        /\ UNCHANGED cursor
     \/ /\ pool_size = share_stack_count
        /\ pool_size = 0
        /\ s = c
        /\ UNCHANGED <<pool_size, cursor>>
     \/ /\ pool_size = share_stack_count
        /\ pool_size > 0
        /\ s = (IF cursor >= pool_size THEN 0 ELSE cursor) + 1
        /\ cursor' = s
        /\ UNCHANGED pool_size
  /\ UNCHANGED share_stack_count

\* Mutant: the main context is given a stack too
AssignStackToMain(next, s) ==
  IF stack[next] = NULL
    THEN GetCoroStack(next, s) /\ stack' = [stack EXCEPT ![next] = s]
    ELSE s = stack[next] /\ UNCHANGED <<stack, poolVars>>

\* The stack s that next runs on is assigned when it runs first; the main
\* context has none
AssignStack(next, s) ==
  IF stack[next] = NULL /\ ~ctx_inited[next]
    THEN GetCoroStack(next, s) /\ stack' = [stack EXCEPT ![next] = s]
    ELSE s = stack[next] /\ UNCHANGED <<stack, poolVars>>

\* Mutant: who gives way to another coroutine of its stack is not saved
EvictedOther(s, next, owner) ==
  {c \in Coro : s \in Shared /\ c # next /\ owner[s] = c /\ c # current /\ stack_sp[c]}

\* The coroutines whose SaveStackBuffer runs when next gets stack s: the last
\* one that ran on it, and the one that gives way if it runs on s itself
Evicted(s, next, owner) ==
  {c \in Coro : /\ s \in Shared
                /\ c # next
                /\ \/ owner[s] = c /\ c # current /\ stack_sp[c]
                   \/ c = current /\ stack[c] = s}

\* Mutant: the save buffer stays when its frames are restored
BuffersKept(s, next, owner, buffer) ==
  [c \in Coro |-> IF c \in Evicted(s, next, owner) THEN content[s] ELSE buffer[c]]

\* The save buffers when next got stack s
Buffers(s, next, owner, buffer) ==
  [c \in Coro |-> IF c = next THEN NULL
                  ELSE IF c \in Evicted(s, next, owner) THEN content[s]
                  ELSE buffer[c]]

\* What Resume does to the stacks when next runs from now on: its frames come
\* back from its buffer, or lie on the stack already, or are new
SwitchStack(next, owner, buffer) ==
  \E s \in Stack \cup {NULL} :
    /\ AssignStack(next, s)
    /\ LET restores == next \in Coro /\ buffer[next] # NULL
           first    == ~ctx_inited[next]
       IN  /\ content' = IF restores THEN [content EXCEPT ![s] = buffer[next]]
                         ELSE IF first THEN [content EXCEPT ![s] = <<next, frames[next]>>]
                         ELSE content
           /\ stack_sp' = [c \in Coro |->
                IF c = next /\ restores THEN FALSE
                ELSE stack_sp[c] \/ (c = current /\ stack[c] \in Shared)]
    /\ save_buffer' = Buffers(s, next, owner, buffer)
    /\ coro' = IF s = NULL THEN owner ELSE [owner EXCEPT ![s] = next]
    /\ ctx_inited' = [ctx_inited EXCEPT ![next] = TRUE]

-----------------------------------------------------------------------------
(* What the scheduler and its functions do *)

Retired == {c \in Coro : state[c] = "retired"}

\* What CoroGC leaves: the retired coroutines are deleted with their buffers,
\* and their stacks forget whom they belonged to
Collected == [c \in Coro |-> IF c \in Retired THEN "freed" ELSE state[c]]
BufferKept == [c \in Coro |-> IF c \in Retired THEN NULL ELSE save_buffer[c]]

\* Mutant: a deleted coroutine still owns its stack
OwnerStale == coro

Owner == [s \in Stack |-> IF coro[s] \in Retired THEN NULL ELSE coro[s]]

\* Routine of the thread that drives the scheduler begins with CoroGC
Routine ==
  /\ current \in {Main, NULL}
  /\ Retired # {}
  /\ state' = Collected
  /\ coro' = Owner
  /\ save_buffer' = BufferKept
  /\ UNCHANGED <<switchVars, stack, ctx_inited, stack_sp, content, poolVars, frames>>

\* StartCoro collects, and hands a new coroutine, or an idle one of the pool,
\* its function
StartCoro(c) ==
  /\ state[c] = "idle"
  /\ state' = [Collected EXCEPT ![c] = "exec"]
  /\ Resume(c, FALSE)
  /\ SwitchStack(c, Owner, BufferKept)
  /\ UNCHANGED frames

\* Wakeup(c): whoever runs resumes a coroutine that waits
Wakeup(c) ==
  /\ waiting[c]
  /\ Resume(c, FALSE)
  /\ SwitchStack(c, coro, save_buffer)
  /\ UNCHANGED <<state, frames>>

\* The running coroutine waits: CoroSleep, Join
WaitCoro ==
  /\ current \in Coro
  /\ Wait(current)
  /\ SwitchStack(current', coro, save_buffer)
  /\ UNCHANGED <<state, frames>>

\* CoroDone: the joiner runs next, or whom Yield finds
CoroDone ==
  /\ current \in Coro
  /\ state' = [state EXCEPT ![current] =
                 IF current \in PoolCoro THEN "idle" ELSE "retired"]
  /\ \/ \E c \in Coro : waiting[c] /\ Resume(c, TRUE)
     \/ Yield(TRUE)
  /\ SwitchStack(current', coro, save_buffer)
  /\ UNCHANGED frames

\* The running coroutine calls and returns: its frames change
Work ==
  /\ current \in Coro
  /\ \E v \in 0 .. Version :
       /\ v # frames[current]
       /\ frames' = [frames EXCEPT ![current] = v]
       /\ content' = [content EXCEPT ![stack[current]] = <<current, v>>]
  /\ UNCHANGED <<switchVars, state, save_buffer, stack_sp, stackVars>>

Next ==
  \/ Routine
  \/ \E c \in Coro : StartCoro(c) \/ Wakeup(c)
  \/ WaitCoro
  \/ CoroDone
  \/ Work

Spec == Init /\ [][Next]_vars

-----------------------------------------------------------------------------
(* Properties *)

(* Type invariant of the stacks and the save buffers.                      *)
TypeOK ==
  /\ current \in Coro \cup {Main, NULL}
  /\ coro_stack \in Seq(Coro \cup {Main})
  /\ waiting \in [Context -> BOOLEAN]
  /\ state \in [Coro -> {"idle", "exec", "retired", "freed"}]
  /\ stack \in [Context -> Stack \cup {NULL}]
  /\ stack[Main] = NULL
  /\ ctx_inited \in [Context -> BOOLEAN]
  /\ save_buffer \in [Coro -> Frames \cup {NULL}]
  /\ stack_sp \in [Coro -> BOOLEAN]
  /\ coro \in [Stack -> Coro \cup {NULL}]
  /\ content \in [Stack -> Frames \cup {NULL}]
  /\ share_stack_count \in ShareCounts
  /\ pool_size \in 0 .. share_stack_count
  /\ cursor \in 0 .. share_stack_count
  /\ frames \in [Coro -> 0 .. Version]

(* A coroutine that runs finds its own frames on its stack, as it left     *)
(* them, whatever ran there in between (Resume, swapCoroFunc).             *)
FramesIntact ==
  \A c \in Coro : current = c =>
    stack[c] # NULL /\ content[stack[c]] = <<c, frames[c]>> /\ coro[stack[c]] = c

(* The frames of a coroutine that was started and is not deleted are in    *)
(* exactly one place: on its stack, if it ran there last, else in its save *)
(* buffer.  So no eviction is skipped and no buffer outlives its use.      *)
FramesKept ==
  \A c \in Coro : ctx_inited[c] /\ state[c] # "freed" =>
    IF coro[stack[c]] = c
      THEN content[stack[c]] = <<c, frames[c]>> /\ save_buffer[c] = NULL
      ELSE save_buffer[c] = <<c, frames[c]>>

(* No stack keeps a pointer to a deleted coroutine, whose SaveStackBuffer  *)
(* the next Resume would call (~LibCoroCoroutine).                         *)
OwnersLive ==
  \A s \in Stack : coro[s] # NULL => state[coro[s]] # "freed" /\ stack[coro[s]] = s

Users(s) == {c \in Coro : stack[c] = s}

(* The shared stacks are handed out evenly: of any two, one has at most    *)
(* one coroutine more than the other (GetCoroStack).                       *)
StacksSpread ==
  \A s, t \in 1 .. share_stack_count : Cardinality(Users(s)) <= Cardinality(Users(t)) + 1

=============================================================================
