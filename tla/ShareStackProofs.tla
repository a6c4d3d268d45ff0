-------------------------- MODULE ShareStackProofs --------------------------
(***************************************************************************)
(* Coroutines that share stacks find their frames again, and the stacks    *)
(* are handed out evenly, for any number of coroutines and any             *)
(* share_stack_count.                                                      *)
(***************************************************************************)
EXTENDS ShareStack, SeqLemmas, FiniteSetTheorems

USE CoroAssumption, ShareStackAssumption

\* Who runs or can be yielded to executes its function and does not wait
ControlInv ==
  /\ IsInjective(coro_stack)
  /\ current \notin Range(coro_stack)
  /\ \A c \in Coro :
       c \in Range(coro_stack) \cup {current} => state[c] = "exec" /\ ~waiting[c]
  /\ \A c \in Coro : waiting[c] => state[c] = "exec"
  /\ ~waiting[Main]
  /\ current = NULL => coro_stack = <<>>

\* A coroutine has a stack from its first run on, and never another
AssignInv ==
  /\ ctx_inited[Main]
  /\ \A c \in Coro :
       /\ ctx_inited[c] <=> stack[c] # NULL
       /\ state[c] # "idle" => ctx_inited[c]
       /\ stack[c] \in Coro => stack[c] = c

(***************************************************************************)
(* Where the frames are when the stacks belong to owner, the saved frames  *)
(* are in buffer, and the coroutines that are not deleted are live.  A     *)
(* coroutine that does not run and still owns a shared stack has its       *)
(* stack_sp set, so that SaveStackBuffer does save it.                     *)
(***************************************************************************)
Mem(owner, buffer, live) ==
  /\ \A s \in Stack : owner[s] # NULL => owner[s] \in live /\ stack[owner[s]] = s
  /\ \A c \in live : ctx_inited[c] =>
       IF owner[stack[c]] = c
         THEN content[stack[c]] = <<c, frames[c]>> /\ buffer[c] = NULL
         ELSE buffer[c] = <<c, frames[c]>>
  /\ \A c \in live : ctx_inited[c] /\ owner[stack[c]] = c /\ stack[c] \in Shared /\ c # current
                       => stack_sp[c]
  /\ \A c \in Coro : ~ctx_inited[c] => buffer[c] = NULL
  /\ current \in Coro => owner[stack[current]] = current

Live == {c \in Coro : state[c] # "freed"}

MemInv == Mem(coro, save_buffer, Live)

\* The stacks are dealt out in turn; of those before the cursor each has one
\* coroutine more than those behind it
SpreadInv ==
  LET n == share_stack_count
  IN  /\ \A s \in 1 .. n : IsFiniteSet(Users(s))
      /\ pool_size < n =>
           /\ cursor = 0
           /\ \A s \in 1 .. n : Cardinality(Users(s)) = IF s <= pool_size THEN 1 ELSE 0
      /\ pool_size = n =>
           \E q \in Nat : \A s \in 1 .. n :
             Cardinality(Users(s)) = IF s <= cursor THEN q + 1 ELSE q

Inv == TypeOK /\ ControlInv /\ AssignInv /\ MemInv


\* No stack is mistaken for another's, nor for a context or a null pointer.
LEMMA StackNames ==
  /\ Shared \subseteq Nat
  /\ Shared \cap Coro = {}
  /\ NULL \notin Stack
  /\ Main \notin Coro
  /\ \A n \in ShareCounts : 1 .. n \subseteq Shared
<1>1. Shared \subseteq Nat
  BY DEF Shared
<1>2. \A n \in ShareCounts : 1 .. n \subseteq Shared
  BY DEF Shared
<1>3. Shared \cap Coro = {} /\ NULL \notin Shared
  <2>1. \A x \in Shared : x \in Int
    BY <1>1
  <2> QED BY <2>1, Zenon
<1>4. NULL \notin Coro /\ Main \notin Coro
  OBVIOUS
<1> QED BY <1>1, <1>2, <1>3, <1>4 DEF Stack

-----------------------------------------------------------------------------
(* Who runs and who waits *)

\* A coroutine that neither runs nor is on the stack is resumed.
LEMMA ResumeControl ==
  ASSUME TypeOK, ControlInv, NEW next \in Coro, NEW release \in BOOLEAN,
         next \notin Range(coro_stack) \cup {current},
         Resume(next, release),
         release => current \in Coro,
         state'[next] = "exec",
         \A c \in Coro : c # next /\ state[c] = "exec" /\ ~(release /\ c = current)
                           => state'[c] = "exec"
  PROVE  /\ ControlInv'
         /\ current' = next
         /\ coro_stack' \in Seq(Coro \cup {Main})
         /\ waiting' \in [Context -> BOOLEAN]
<1> DEFINE keeps == current # NULL /\ ~release
<1>1. /\ current' = next
      /\ waiting' = [waiting EXCEPT ![next] = FALSE]
      /\ coro_stack' = IF keeps THEN Append(coro_stack, current) ELSE coro_stack
  <2>1. current # NULL => ~waiting[current]
    BY DEF TypeOK, ControlInv
  <2> QED BY <2>1 DEF Resume, ResumeFrom
<1>2. waiting \in [Context -> BOOLEAN] /\ next \in Context /\ Main \in Context /\ Coro \subseteq Context
  BY DEF TypeOK, Context
<1>3. /\ coro_stack' \in Seq(Coro \cup {Main})
      /\ IsInjective(coro_stack')
      /\ Range(coro_stack') \subseteq Range(coro_stack) \cup {current}
      /\ release => current \notin Range(coro_stack')
  <2>1. coro_stack \in Seq(Coro \cup {Main}) /\ IsInjective(coro_stack) /\ current \notin Range(coro_stack)
    BY DEF TypeOK, ControlInv
  <2>2. CASE keeps
    <3>1. current \in Coro \cup {Main}
      BY <2>2 DEF TypeOK
    <3>2. coro_stack' = Append(coro_stack, current) /\ ~release
      BY <1>1, <2>2
    <3> QED BY <2>1, <3>1, <3>2, RangeAppend, InjectiveAppend
  <2>3. CASE ~keeps
    BY <1>1, <2>1, <2>3
  <2> QED BY <2>2, <2>3
<1>4. ASSUME NEW c \in Coro, c \in Range(coro_stack') \cup {next}
      PROVE  state'[c] = "exec" /\ ~waiting'[c]
  <2>1. CASE c = next
    BY <1>1, <1>2, <2>1
  <2>2. CASE c # next
    <3>1. c \in Range(coro_stack) \cup {current} /\ ~(release /\ c = current)
      BY <1>3, <1>4, <2>2
    <3>2. state[c] = "exec" /\ ~waiting[c]
      BY <3>1 DEF ControlInv
    <3> QED BY <1>1, <1>2, <2>2, <3>1, <3>2
  <2> QED BY <2>1, <2>2
<1>5. ASSUME NEW c \in Coro, waiting'[c] PROVE state'[c] = "exec"
  <2>1. c # next /\ waiting[c]
    BY <1>1, <1>2, <1>5
  <2>2. state[c] = "exec" /\ c # current
    BY <2>1 DEF ControlInv
  <2> QED BY <2>1, <2>2
<1>6. ~waiting'[Main] /\ next \notin Range(coro_stack') /\ next # NULL
  BY <1>1, <1>2, <1>3 DEF ControlInv
<1>7. waiting' \in [Context -> BOOLEAN]
  BY <1>1, <1>2
<1> QED BY <1>1, <1>3, <1>4, <1>5, <1>6, <1>7 DEF ControlInv

\* The running coroutine, which waits from now on or is done, yields.
LEMMA YieldControl ==
  ASSUME TypeOK, ControlInv, current \in Coro, NEW release \in BOOLEAN,
         NEW flags \in [Context -> BOOLEAN],
         \A c \in Context : c # current => flags[c] = waiting[c],
         release \/ flags[current],
         YieldFrom(flags, release),
         flags[current] => state'[current] = "exec",
         \A c \in Coro : c # current => state'[c] = state[c]
  PROVE  /\ ControlInv'
         /\ current' \in Coro \cup {Main}
         /\ current' # current
         /\ current' \in Coro => state'[current'] = "exec"
         /\ coro_stack' \in Seq(Coro \cup {Main})
         /\ waiting' \in [Context -> BOOLEAN]
<1> DEFINE empty == coro_stack = <<>>
<1>1. coro_stack \in Seq(Coro \cup {Main}) /\ IsInjective(coro_stack) /\ current \notin Range(coro_stack)
  BY DEF TypeOK, ControlInv
<1>2. /\ current' = IF empty THEN Main ELSE Last(coro_stack)
      /\ coro_stack' = IF empty THEN coro_stack ELSE Front(coro_stack)
      /\ waiting' = [flags EXCEPT ![current'] = FALSE]
  BY DEF YieldFrom, ResumeFrom
<1>3. /\ coro_stack' \in Seq(Coro \cup {Main})
      /\ IsInjective(coro_stack')
      /\ Range(coro_stack') \subseteq Range(coro_stack)
      /\ current' \notin Range(coro_stack')
      /\ current' \in Coro \cup {Main}
      /\ current' \in Coro => current' \in Range(coro_stack)
  <2>1. CASE empty
    BY <1>1, <1>2, <2>1, RangeEmpty
  <2>2. CASE ~empty
    <3>1. current' = Last(coro_stack) /\ coro_stack' = Front(coro_stack)
      BY <1>2, <2>2
    <3> QED BY <1>1, <2>2, <3>1, FrontLast, InjectiveFront
  <2> QED BY <2>1, <2>2
<1>4. current' # current
  BY <1>1, <1>3
<1>5. Main \in Context /\ Coro \subseteq Context
  BY DEF Context
<1>6. ASSUME NEW c \in Coro, c \in Range(coro_stack') \cup {current'}
      PROVE  state'[c] = "exec" /\ ~waiting'[c]
  <2>1. c \in Range(coro_stack) /\ c # current
    BY <1>1, <1>3, <1>6
  <2>2. state[c] = "exec" /\ ~waiting[c]
    BY <2>1 DEF ControlInv
  <2> QED BY <1>2, <1>5, <2>1, <2>2
<1>7. ASSUME NEW c \in Coro, waiting'[c] PROVE state'[c] = "exec"
  <2>1. flags[c]
    BY <1>2, <1>5, <1>7
  <2>2. CASE c = current
    BY <2>1, <2>2
  <2>3. CASE c # current
    BY <1>5, <2>1, <2>3 DEF ControlInv
  <2> QED BY <2>2, <2>3
<1>8. ~waiting'[Main]
  <2>1. ~flags[Main]
    BY <1>5 DEF ControlInv
  <2> QED BY <1>2, <1>5, <2>1
<1>9. waiting' \in [Context -> BOOLEAN]
  BY <1>2
<1>10. current' # NULL
  BY <1>3
<1>11. current' \in Coro => state'[current'] = "exec"
  BY <1>6
<1> QED BY <1>3, <1>4, <1>6, <1>7, <1>8, <1>9, <1>10, <1>11 DEF ControlInv

-----------------------------------------------------------------------------
(* Where the frames go *)

\* GetCoroStack hands out a shared stack, or one of the coroutine's own.
LEMMA StackAssigned ==
  ASSUME TypeOK, AssignInv, NEW next \in Coro \cup {Main}, NEW s, AssignStack(next, s)
  PROVE  /\ next = Main => s = NULL
         /\ next \in Coro => s \in Stack
         /\ stack[next] # NULL => s = stack[next]
         /\ next \in Coro /\ s \in Coro => s = next
         /\ stack' \in [Context -> Stack \cup {NULL}]
         /\ \A c \in Context : stack'[c] = IF c = next THEN s ELSE stack[c]
         /\ share_stack_count' = share_stack_count
         /\ pool_size' \in 0 .. share_stack_count
         /\ cursor' \in 0 .. share_stack_count
<1> DEFINE n == share_stack_count
<1>1. /\ n \in Nat /\ 1 .. n \subseteq Shared
      /\ pool_size \in 0 .. n /\ cursor \in 0 .. n
      /\ Main \in Context /\ Coro \subseteq Context /\ stack \in [Context -> Stack \cup {NULL}]
  BY StackNames DEF TypeOK, Context
<1>2. CASE stack[next] = NULL /\ ~ctx_inited[next]
  <2>1. GetCoroStack(next, s) /\ stack' = [stack EXCEPT ![next] = s]
    BY <1>2 DEF AssignStack
  <2>2. next \in Coro
    BY <1>2 DEF AssignInv
  <2>3. /\ s \in 1 .. n \/ s = next
        /\ n' = n /\ pool_size' \in 0 .. n /\ cursor' \in 0 .. n
    <3>1. CASE pool_size < n /\ s = pool_size + 1 /\ pool_size' = s /\ cursor' = cursor
      BY <1>1, <2>1, <3>1 DEF GetCoroStack
    <3>2. CASE pool_size = n /\ s = next /\ pool_size' = pool_size /\ cursor' = cursor
      BY <1>1, <2>1, <3>2 DEF GetCoroStack
    <3>3. CASE /\ pool_size = n /\ pool_size > 0
               /\ s = (IF cursor >= pool_size THEN 0 ELSE cursor) + 1
               /\ cursor' = s /\ pool_size' = pool_size
      BY <1>1, <2>1, <3>3 DEF GetCoroStack
    <3> QED BY <2>1, <3>1, <3>2, <3>3 DEF GetCoroStack
  <2>4. s \in Stack /\ (s \in Coro => s = next)
    BY <1>1, <2>2, <2>3, StackNames DEF Stack
  <2>5. /\ stack' \in [Context -> Stack \cup {NULL}]
        /\ \A c \in Context : stack'[c] = IF c = next THEN s ELSE stack[c]
    BY <1>1, <2>1, <2>2, <2>4
  <2> QED BY <1>2, <2>2, <2>3, <2>4, <2>5, StackNames
<1>3. CASE ~(stack[next] = NULL /\ ~ctx_inited[next])
  <2>1. s = stack[next] /\ UNCHANGED <<stack, poolVars>>
    BY <1>3 DEF AssignStack
  <2>2. next = Main => s = NULL
    BY <2>1 DEF TypeOK
  <2>3. next \in Coro => s # NULL /\ (s \in Coro => s = next)
    BY <1>3, <2>1 DEF AssignInv
  <2>4. next \in Coro => s \in Stack
    BY <1>1, <2>1, <2>3
  <2> QED BY <1>1, <2>1, <2>2, <2>3, <2>4 DEF poolVars
<1> QED BY <1>2, <1>3

\* Whose frames SwitchStack moves: when next gets the stack s of another
\* coroutine, that one's frames go to its buffer, and nobody else's do.
LEMMA Saved ==
  ASSUME TypeOK, AssignInv, NEW owner, NEW buffer, NEW live, Mem(owner, buffer, live),
         NEW next \in Coro \cup {Main}, NEW s \in Stack \cup {NULL},
         next \in Coro /\ s \in Coro => s = next,
         NEW c \in live, c \in Coro, c # next, ctx_inited[c]
  PROVE  Buffers(s, next, owner, buffer)[c]
           = IF stack[c] = s THEN <<c, frames[c]>> ELSE buffer[c]
<1> DEFINE evicted == c \in Evicted(s, next, owner)
<1>1. /\ evicted <=> /\ s \in Shared
                     /\ \/ owner[s] = c /\ c # current /\ stack_sp[c]
                        \/ c = current /\ stack[c] = s
      /\ Buffers(s, next, owner, buffer)[c] = IF evicted THEN content[s] ELSE buffer[c]
  BY DEF Evicted, Buffers
<1>2. /\ stack[c] \in Stack
      /\ stack[c] \in Coro => stack[c] = c
      /\ s \in Shared => s \in Stack /\ s # NULL
      /\ next = Main \/ next \in Coro
  BY StackNames DEF TypeOK, AssignInv, Context, Stack
<1>3. IF owner[stack[c]] = c
        THEN content[stack[c]] = <<c, frames[c]>> /\ buffer[c] = NULL
        ELSE buffer[c] = <<c, frames[c]>>
  BY DEF Mem
<1>4. s \in Stack /\ owner[s] = c => stack[c] = s
  BY StackNames DEF Mem, TypeOK
<1>5. CASE stack[c] # s
  BY <1>1, <1>2, <1>4, <1>5
<1>6. CASE stack[c] = s /\ owner[s] # c
  <2>1. c # current
    BY <1>6 DEF Mem
  <2> QED BY <1>1, <1>3, <1>6, <2>1
<1>7. CASE stack[c] = s /\ owner[s] = c
  <2>1. s \in Shared
    BY <1>2, <1>7, StackNames DEF Stack
  <2>2. c = current \/ stack_sp[c]
    BY <1>7, <2>1 DEF Mem
  <2> QED BY <1>1, <1>3, <1>7, <2>1, <2>2
<1> QED BY <1>5, <1>6, <1>7

\* When next runs, the frames of everybody who is not deleted are where Mem
\* says: on their stacks, or saved.
LEMMA SwitchMem ==
  ASSUME TypeOK, AssignInv, NEW owner \in [Stack -> Coro \cup {NULL}],
         NEW buffer \in [Coro -> Frames \cup {NULL}], NEW live \in SUBSET Coro,
         Mem(owner, buffer, live),
         NEW next \in Coro \cup {Main}, next \in Coro => next \in live,
         SwitchStack(next, owner, buffer),
         current' = next, UNCHANGED frames,
         live = Live',
         \A c \in Coro : c # next /\ state'[c] # "idle" => state[c] # "idle"
  PROVE  /\ MemInv'
         /\ AssignInv'
         /\ stack' \in [Context -> Stack \cup {NULL}]
         /\ stack'[Main] = NULL
         /\ ctx_inited' \in [Context -> BOOLEAN]
         /\ save_buffer' \in [Coro -> Frames \cup {NULL}]
         /\ stack_sp' \in [Coro -> BOOLEAN]
         /\ coro' \in [Stack -> Coro \cup {NULL}]
         /\ content' \in [Stack -> Frames \cup {NULL}]
         /\ share_stack_count' = share_stack_count
         /\ pool_size' \in 0 .. share_stack_count
         /\ cursor' \in 0 .. share_stack_count
<1> DEFINE restores == next \in Coro /\ buffer[next] # NULL
           first    == ~ctx_inited[next]
<1>1. PICK s \in Stack \cup {NULL} :
        /\ AssignStack(next, s)
        /\ content' = IF restores THEN [content EXCEPT ![s] = buffer[next]]
                      ELSE IF first THEN [content EXCEPT ![s] = <<next, frames[next]>>]
                      ELSE content
        /\ stack_sp' = [c \in Coro |->
             IF c = next /\ restores THEN FALSE
             ELSE stack_sp[c] \/ (c = current /\ stack[c] \in Shared)]
        /\ save_buffer' = Buffers(s, next, owner, buffer)
        /\ coro' = IF s = NULL THEN owner ELSE [owner EXCEPT ![s] = next]
        /\ ctx_inited' = [ctx_inited EXCEPT ![next] = TRUE]
  BY DEF SwitchStack
<1>2. /\ next = Main => s = NULL
      /\ next \in Coro => s \in Stack /\ s # NULL
      /\ stack[next] # NULL => s = stack[next]
      /\ next \in Coro /\ s \in Coro => s = next
      /\ stack' \in [Context -> Stack \cup {NULL}]
      /\ \A c \in Context : stack'[c] = IF c = next THEN s ELSE stack[c]
      /\ share_stack_count' = share_stack_count
      /\ pool_size' \in 0 .. share_stack_count
      /\ cursor' \in 0 .. share_stack_count
  BY <1>1, StackAssigned, StackNames
<1>3. /\ Main \in Context /\ Coro \subseteq Context /\ Main \notin Coro /\ NULL \notin Stack
      /\ NULL \notin Coro /\ next \in Context
  BY StackNames DEF Context
<1>4. /\ ctx_inited' \in [Context -> BOOLEAN]
      /\ ctx_inited[Main] /\ ctx_inited'[next]
      /\ \A c \in Context : c # next => ctx_inited'[c] = ctx_inited[c]
      /\ ctx_inited'[Main]
  BY <1>1, <1>3 DEF TypeOK, AssignInv
<1>5. /\ coro' \in [Stack -> Coro \cup {NULL}]
      /\ \A t \in Stack : coro'[t] = IF t = s THEN next ELSE owner[t]
  BY <1>1, <1>2, <1>3
<1>6. /\ content' \in [Stack -> Frames \cup {NULL}]
      /\ \A t \in Stack : t # s => content'[t] = content[t]
      /\ next \in Coro => content'[s] = IF restores THEN buffer[next]
                                        ELSE IF first THEN <<next, frames[next]>>
                                        ELSE content[s]
  <2>1. content \in [Stack -> Frames \cup {NULL}] /\ (first => next \in Coro)
    BY <1>4 DEF TypeOK
  <2>2. next \in Coro => buffer[next] \in Frames \cup {NULL} /\ <<next, frames[next]>> \in Frames
    BY DEF TypeOK, Frames
  <2> HIDE DEF first
  <2>3. CASE restores
    BY <1>1, <1>2, <2>1, <2>2, <2>3
  <2>4. CASE ~restores /\ first
    BY <1>1, <1>2, <2>1, <2>2, <2>4
  <2>5. CASE ~restores /\ ~first
    BY <1>1, <2>1, <2>5
  <2> QED BY <2>3, <2>4, <2>5
<1>7. next \in Coro => content'[s] = <<next, frames[next]>>
  <2>1. SUFFICES ASSUME next \in Coro PROVE content'[s] = <<next, frames[next]>>
    OBVIOUS
  <2>2. next \in live /\ NULL \notin Frames /\ <<next, frames[next]>> \in Frames
    BY <2>1 DEF TypeOK, Frames
  <2>3. CASE first
    <3>1. buffer[next] = NULL
      BY <2>1, <2>3 DEF Mem
    <3> QED BY <1>6, <2>1, <2>3, <3>1
  <2>4. CASE ~first
    <3>1. stack[next] = s
      BY <1>2, <2>1, <2>4 DEF AssignInv
    <3>2. IF owner[s] = next
            THEN content[s] = <<next, frames[next]>> /\ buffer[next] = NULL
            ELSE buffer[next] = <<next, frames[next]>>
      BY <2>2, <2>4, <3>1 DEF Mem
    <3> QED BY <1>6, <2>1, <2>2, <2>4, <3>2
  <2> QED BY <2>3, <2>4
<1> HIDE DEF restores, first
<1>8. stack_sp' \in [Coro -> BOOLEAN]
      /\ \A c \in Coro : c # next => stack_sp'[c] = (stack_sp[c] \/ (c = current /\ stack[c] \in Shared))
  <2>1. stack_sp \in [Coro -> BOOLEAN]
    BY DEF TypeOK
  <2>2. \A c \in Coro : stack_sp'[c] \in BOOLEAN
    BY <1>1, <2>1
  <2>3. stack_sp' = [c \in Coro |-> stack_sp'[c]]
    BY <1>1
  <2>4. stack_sp' \in [Coro -> BOOLEAN]
    BY <2>2, <2>3
  <2> QED BY <1>1, <2>4
<1>9. save_buffer' \in [Coro -> Frames \cup {NULL}]
  <2>1. \A c \in Coro : Buffers(s, next, owner, buffer)[c] \in Frames \cup {NULL}
    <3>1. s \in Shared => content[s] \in Frames \cup {NULL}
      BY DEF TypeOK, Stack
    <3> QED BY <3>1 DEF Buffers, Evicted
  <2>2. save_buffer' = [c \in Coro |-> save_buffer'[c]]
    BY <1>1 DEF Buffers
  <2> QED BY <1>1, <2>1, <2>2
<1>10. AssignInv'
  <2>1. ASSUME NEW c \in Coro
        PROVE  /\ ctx_inited'[c] <=> stack'[c] # NULL
               /\ state'[c] # "idle" => ctx_inited'[c]
               /\ stack'[c] \in Coro => stack'[c] = c
    <3>1. CASE c = next
      BY <1>2, <1>3, <1>4, <3>1
    <3>2. CASE c # next
      <4>1. stack'[c] = stack[c] /\ ctx_inited'[c] = ctx_inited[c]
        BY <1>2, <1>3, <1>4, <3>2
      <4> QED BY <3>2, <4>1 DEF AssignInv
    <3> QED BY <3>1, <3>2
  <2> QED BY <1>4, <2>1 DEF AssignInv
<1>11. \A t \in Stack : coro'[t] # NULL => coro'[t] \in live /\ stack'[coro'[t]] = t
  <2>1. SUFFICES ASSUME NEW t \in Stack, coro'[t] # NULL
                 PROVE  coro'[t] \in live /\ stack'[coro'[t]] = t
    OBVIOUS
  <2>2. CASE t = s
    <3>1. next \in Coro /\ coro'[t] = next
      BY <1>2, <1>3, <1>5, <2>2
    <3> QED BY <1>2, <1>3, <2>2, <3>1
  <2>3. CASE t # s
    <3>1. owner[t] \in live /\ stack[owner[t]] = t /\ coro'[t] = owner[t]
      BY <1>5, <2>1, <2>3 DEF Mem
    <3>2. owner[t] # next
      BY <1>2, <1>3, <2>3, <3>1
    <3> QED BY <1>2, <1>3, <3>1, <3>2
  <2> QED BY <2>2, <2>3
<1>12. ASSUME NEW c \in live, ctx_inited'[c], c # next
       PROVE  /\ c \in Coro /\ ctx_inited[c] /\ stack'[c] = stack[c] /\ stack[c] \in Stack
              /\ save_buffer'[c] = IF stack[c] = s THEN <<c, frames[c]>> ELSE buffer[c]
  <2>1. c \in Coro /\ ctx_inited[c] /\ stack'[c] = stack[c]
    BY <1>2, <1>3, <1>4, <1>12
  <2>2. stack[c] \in Stack
    BY <1>3, <2>1 DEF TypeOK, AssignInv
  <2> QED BY <1>1, <1>2, <1>12, <2>1, <2>2, Saved
<1>13. ASSUME NEW c \in live, ctx_inited'[c]
       PROVE  IF coro'[stack'[c]] = c
                THEN content'[stack'[c]] = <<c, frames[c]>> /\ save_buffer'[c] = NULL
                ELSE save_buffer'[c] = <<c, frames[c]>>
  <2>1. CASE c = next
    <3>1. stack'[c] = s /\ s \in Stack /\ coro'[s] = c
      BY <1>2, <1>3, <1>5, <2>1
    <3>2. save_buffer'[c] = NULL
      BY <1>1, <2>1 DEF Buffers
    <3> QED BY <1>7, <2>1, <3>1, <3>2
  <2>2. CASE c # next /\ stack[c] = s
    BY <1>5, <1>12, <1>13, <2>2
  <2>3. CASE c # next /\ stack[c] # s
    <3>1. /\ stack'[c] = stack[c] /\ save_buffer'[c] = buffer[c]
          /\ coro'[stack[c]] = owner[stack[c]] /\ content'[stack[c]] = content[stack[c]]
      BY <1>5, <1>6, <1>12, <1>13, <2>3
    <3>2. IF owner[stack[c]] = c
            THEN content[stack[c]] = <<c, frames[c]>> /\ buffer[c] = NULL
            ELSE buffer[c] = <<c, frames[c]>>
      BY <1>12, <1>13, <2>3 DEF Mem
    <3> QED BY <3>1, <3>2
  <2> QED BY <2>1, <2>2, <2>3
<1>14. ASSUME NEW c \in live, ctx_inited'[c], coro'[stack'[c]] = c, stack'[c] \in Shared, c # next
       PROVE  stack_sp'[c]
  <2>1. c \in Coro /\ ctx_inited[c] /\ stack'[c] = stack[c] /\ stack[c] \in Stack
    BY <1>12, <1>14
  <2>2. stack[c] \in Shared /\ coro'[stack[c]] = c /\ c # next
    BY <1>14, <2>1
  <2>3. owner[stack[c]] = c
    BY <1>5, <2>1, <2>2
  <2>4. c = current \/ stack_sp[c]
    BY <2>1, <2>2, <2>3 DEF Mem
  <2> QED BY <1>8, <2>1, <2>2, <2>4
<1>15. ASSUME NEW c \in Coro, ~ctx_inited'[c] PROVE save_buffer'[c] = NULL
  <2>1. c # next /\ ~ctx_inited[c]
    BY <1>3, <1>4, <1>15
  <2>2. buffer[c] = NULL /\ stack[c] = NULL
    BY <2>1 DEF Mem, AssignInv
  <2>3. c \notin Evicted(s, next, owner)
    <3>1. SUFFICES ASSUME s \in Shared, owner[s] = c \/ stack[c] = s PROVE FALSE
      BY DEF Evicted
    <3>2. s \in Stack /\ s # NULL /\ c # NULL
      BY <1>3, <3>1 DEF Stack
    <3>3. owner[s] = c => stack[c] = s
      BY <3>2 DEF Mem
    <3> QED BY <2>2, <3>1, <3>2, <3>3
  <2> QED BY <1>1, <2>1, <2>2, <2>3 DEF Buffers
<1>16. next \in Coro => coro'[stack'[next]] = next
  BY <1>2, <1>3, <1>5
<1>17. MemInv'
  <2>1. frames' = frames
    OBVIOUS
  <2> QED BY <1>11, <1>13, <1>14, <1>15, <1>16, <2>1 DEF MemInv, Mem
<1>18. stack'[Main] = NULL
  BY <1>2, <1>3 DEF TypeOK
<1> QED BY <1>2, <1>4, <1>5, <1>6, <1>8, <1>9, <1>10, <1>17, <1>18

\* CoroGC takes the retired coroutines out of Mem, and moves no frames.
LEMMA CollectMem ==
  ASSUME Inv
  PROVE  /\ Mem(Owner, BufferKept, {c \in Coro : Collected[c] # "freed"})
         /\ Owner \in [Stack -> Coro \cup {NULL}]
         /\ BufferKept \in [Coro -> Frames \cup {NULL}]
         /\ Collected \in [Coro -> {"idle", "exec", "retired", "freed"}]
         /\ \A c \in Coro : Collected[c] = IF state[c] = "retired" THEN "freed" ELSE state[c]
<1> DEFINE live == {c \in Coro : Collected[c] # "freed"}
<1>1. /\ Owner \in [Stack -> Coro \cup {NULL}]
      /\ \A s \in Stack : Owner[s] = IF coro[s] \in Retired THEN NULL ELSE coro[s]
  BY DEF Owner, Inv, TypeOK
<1>2. /\ BufferKept \in [Coro -> Frames \cup {NULL}]
      /\ \A c \in Coro : BufferKept[c] = IF c \in Retired THEN NULL ELSE save_buffer[c]
  BY DEF BufferKept, Inv, TypeOK
<1>3. /\ Collected \in [Coro -> {"idle", "exec", "retired", "freed"}]
      /\ \A c \in Coro : Collected[c] = IF state[c] = "retired" THEN "freed" ELSE state[c]
  BY DEF Collected, Retired, Inv, TypeOK
<1>4. live = Live \ Retired
  BY <1>3 DEF Live, Retired
<1>5. NULL \notin Retired /\ Retired \subseteq Coro
  BY DEF Retired
<1>6. \A c \in Coro : ctx_inited[c] => stack[c] \in Stack
  BY DEF Inv, TypeOK, AssignInv, Context
<1>7. Mem(coro, save_buffer, Live) /\ (current \in Coro => state[current] = "exec")
  BY DEF Inv, MemInv, ControlInv
<1>8. live \subseteq Coro
  OBVIOUS
<1> HIDE DEF live
<1>9. \A s \in Stack : Owner[s] # NULL => Owner[s] \in live /\ stack[Owner[s]] = s
  BY <1>1, <1>4, <1>7 DEF Mem
<1>10. ASSUME NEW c \in live, ctx_inited[c]
       PROVE  /\ stack[c] \in Stack /\ c \in Live /\ BufferKept[c] = save_buffer[c]
              /\ Owner[stack[c]] = c <=> coro[stack[c]] = c
  BY <1>1, <1>2, <1>4, <1>5, <1>6, <1>8, <1>10
<1>11. \A c \in live : ctx_inited[c] =>
         IF Owner[stack[c]] = c
           THEN content[stack[c]] = <<c, frames[c]>> /\ BufferKept[c] = NULL
           ELSE BufferKept[c] = <<c, frames[c]>>
  BY <1>7, <1>10 DEF Mem
<1>12. \A c \in live : ctx_inited[c] /\ Owner[stack[c]] = c /\ stack[c] \in Shared /\ c # current
                         => stack_sp[c]
  BY <1>7, <1>10 DEF Mem
<1>13. \A c \in Coro : ~ctx_inited[c] => BufferKept[c] = NULL
  BY <1>2, <1>7 DEF Mem
<1>14. current \in Coro => Owner[stack[current]] = current
  <2>1. SUFFICES ASSUME current \in Coro PROVE Owner[stack[current]] = current
    OBVIOUS
  <2>2. current \notin Retired /\ state[current] # "idle" /\ current \in Context
    BY <1>7, <2>1 DEF Retired, Context
  <2>3. stack[current] \in Stack
    BY <1>6, <2>1, <2>2 DEF Inv, AssignInv
  <2> QED BY <1>1, <1>7, <2>1, <2>2, <2>3 DEF Mem
<1>15. Mem(Owner, BufferKept, live)
  BY <1>9, <1>11, <1>12, <1>13, <1>14 DEF Mem
<1> QED BY <1>1, <1>2, <1>3, <1>15 DEF live

\* What a switch that does not collect knows of the memory.
LEMMA KeptMem ==
  ASSUME Inv
  PROVE  /\ Mem(coro, save_buffer, Live)
         /\ coro \in [Stack -> Coro \cup {NULL}]
         /\ save_buffer \in [Coro -> Frames \cup {NULL}]
BY DEF Inv, MemInv, TypeOK

-----------------------------------------------------------------------------
(* The steps *)

LEMMA RoutineStep ==
  ASSUME Inv, Routine
  PROVE  Inv'
<1>1. /\ Mem(Owner, BufferKept, {c \in Coro : Collected[c] # "freed"})
      /\ Owner \in [Stack -> Coro \cup {NULL}]
      /\ BufferKept \in [Coro -> Frames \cup {NULL}]
      /\ Collected \in [Coro -> {"idle", "exec", "retired", "freed"}]
      /\ \A c \in Coro : Collected[c] = IF state[c] = "retired" THEN "freed" ELSE state[c]
  BY CollectMem
<1>2. /\ state' = Collected /\ coro' = Owner /\ save_buffer' = BufferKept
      /\ UNCHANGED <<switchVars, stack, ctx_inited, stack_sp, content, poolVars, frames>>
  BY DEF Routine
<1>3. TypeOK'
  BY <1>1, <1>2 DEF Inv, TypeOK, switchVars, poolVars
<1>4. ControlInv'
  <2>1. \A c \in Coro : state[c] = "exec" => state'[c] = "exec"
    BY <1>1, <1>2
  <2> QED BY <1>2, <2>1 DEF Inv, ControlInv, switchVars
<1>5. AssignInv'
  BY <1>1, <1>2 DEF Inv, AssignInv
<1>6. MemInv'
  <2>1. Live' = {c \in Coro : Collected[c] # "freed"}
    BY <1>2 DEF Live
  <2>2. Mem(Owner, BufferKept, Live')
    BY <1>1, <2>1
  <2> QED BY <1>2, <2>2 DEF MemInv, Mem, switchVars
<1> QED BY <1>3, <1>4, <1>5, <1>6 DEF Inv

\* The frames of the running coroutine change on its own stack.
LEMMA WorkStep ==
  ASSUME Inv, Work
  PROVE  Inv'
<1>1. PICK v \in 0 .. Version :
        /\ frames' = [frames EXCEPT ![current] = v]
        /\ content' = [content EXCEPT ![stack[current]] = <<current, v>>]
  BY DEF Work
<1>2. /\ current \in Coro
      /\ UNCHANGED <<switchVars, state, save_buffer, stack_sp, stackVars>>
  BY DEF Work
<1>3. /\ state[current] = "exec" /\ current \in Live /\ ctx_inited[current]
      /\ stack[current] \in Stack /\ coro[stack[current]] = current
  BY <1>2 DEF Inv, TypeOK, ControlInv, AssignInv, MemInv, Mem, Live, Context
<1>4. /\ frames' \in [Coro -> 0 .. Version] /\ frames'[current] = v
      /\ \A c \in Coro : c # current => frames'[c] = frames[c]
      /\ content' \in [Stack -> Frames \cup {NULL}]
      /\ content'[stack[current]] = <<current, v>>
      /\ \A s \in Stack : s # stack[current] => content'[s] = content[s]
  BY <1>1, <1>2, <1>3 DEF Inv, TypeOK, Frames
<1>5. TypeOK'
  BY <1>2, <1>4 DEF Inv, TypeOK, switchVars, stackVars, poolVars
<1>6. ControlInv' /\ AssignInv'
  BY <1>2 DEF Inv, ControlInv, AssignInv, switchVars, stackVars
<1>7. Live' = Live /\ Live \subseteq Coro
  BY <1>2 DEF Live
<1>8. ASSUME NEW c \in Live, ctx_inited[c]
      PROVE  IF coro[stack[c]] = c
               THEN content'[stack[c]] = <<c, frames'[c]>> /\ save_buffer[c] = NULL
               ELSE save_buffer[c] = <<c, frames'[c]>>
  <2>1. IF coro[stack[c]] = c
          THEN content[stack[c]] = <<c, frames[c]>> /\ save_buffer[c] = NULL
          ELSE save_buffer[c] = <<c, frames[c]>>
    BY <1>8 DEF Inv, MemInv, Mem
  <2>2. CASE c = current
    BY <1>3, <1>4, <2>1, <2>2
  <2>3. CASE c # current
    <3>1. stack[c] \in Stack /\ c \in Coro /\ frames'[c] = frames[c]
      BY <1>4, <1>7, <1>8, <2>3 DEF Inv, TypeOK, AssignInv, Context
    <3>2. coro[stack[c]] = c => stack[c] # stack[current]
      BY <1>3, <2>3
    <3> QED BY <1>4, <2>1, <3>1, <3>2
  <2> QED BY <2>2, <2>3
<1>9. MemInv'
  BY <1>2, <1>7, <1>8 DEF Inv, MemInv, Mem, switchVars, stackVars
<1> QED BY <1>5, <1>6, <1>9 DEF Inv

\* A step that switches to next keeps Inv if the control does.
LEMMA SwitchStep ==
  ASSUME Inv, NEW owner \in [Stack -> Coro \cup {NULL}],
         NEW buffer \in [Coro -> Frames \cup {NULL}], NEW live \in SUBSET Coro,
         Mem(owner, buffer, live),
         NEW next \in Coro \cup {Main}, next \in Coro => next \in live,
         SwitchStack(next, owner, buffer),
         current' = next, UNCHANGED frames,
         live = Live',
         \A c \in Coro : c # next /\ state'[c] # "idle" => state[c] # "idle",
         ControlInv',
         state' \in [Coro -> {"idle", "exec", "retired", "freed"}],
         coro_stack' \in Seq(Coro \cup {Main}),
         waiting' \in [Context -> BOOLEAN]
  PROVE  Inv'
<1>1. TypeOK /\ AssignInv
  BY DEF Inv
<1>2. /\ MemInv'
      /\ AssignInv'
      /\ stack' \in [Context -> Stack \cup {NULL}]
      /\ stack'[Main] = NULL
      /\ ctx_inited' \in [Context -> BOOLEAN]
      /\ save_buffer' \in [Coro -> Frames \cup {NULL}]
      /\ stack_sp' \in [Coro -> BOOLEAN]
      /\ coro' \in [Stack -> Coro \cup {NULL}]
      /\ content' \in [Stack -> Frames \cup {NULL}]
      /\ share_stack_count' = share_stack_count
      /\ pool_size' \in 0 .. share_stack_count
      /\ cursor' \in 0 .. share_stack_count
  BY <1>1, SwitchMem
<1>3. TypeOK'
  BY <1>1, <1>2 DEF TypeOK
<1> QED BY <1>2, <1>3 DEF Inv

LEMMA StartCoroStep ==
  ASSUME Inv, NEW c \in Coro, StartCoro(c)
  PROVE  Inv'
<1>1. PICK owner, buffer, live :
        owner = Owner /\ buffer = BufferKept /\ live = {d \in Coro : Collected[d] # "freed"}
  OBVIOUS
<1>2. /\ Mem(Owner, BufferKept, live)
      /\ owner \in [Stack -> Coro \cup {NULL}]
      /\ buffer \in [Coro -> Frames \cup {NULL}]
      /\ Collected \in [Coro -> {"idle", "exec", "retired", "freed"}]
      /\ \A d \in Coro : Collected[d] = IF state[d] = "retired" THEN "freed" ELSE state[d]
  BY <1>1, CollectMem
<1>3. Mem(owner, buffer, live)
  BY <1>1, <1>2 DEF Mem
<1>4. /\ state[c] = "idle"
      /\ state' = [Collected EXCEPT ![c] = "exec"]
      /\ Resume(c, FALSE)
      /\ SwitchStack(c, Owner, BufferKept)
      /\ UNCHANGED frames
  BY DEF StartCoro
<1>5. SwitchStack(c, owner, buffer)
  BY <1>1, <1>4 DEF SwitchStack, Buffers, Evicted
<1>6. /\ state' \in [Coro -> {"idle", "exec", "retired", "freed"}]
      /\ state'[c] = "exec"
      /\ \A d \in Coro : d # c => state'[d] = Collected[d]
  BY <1>2, <1>4
<1>7. \A d \in Coro : d # c /\ state[d] = "exec" /\ ~(FALSE /\ d = current) => state'[d] = "exec"
  BY <1>2, <1>6
<1>8. c \notin Range(coro_stack) \cup {current}
  BY <1>4 DEF Inv, ControlInv
<1>9. /\ ControlInv'
      /\ current' = c
      /\ coro_stack' \in Seq(Coro \cup {Main})
      /\ waiting' \in [Context -> BOOLEAN]
  <2>1. TypeOK /\ ControlInv
    BY DEF Inv
  <2> QED BY <1>4, <1>6, <1>7, <1>8, <2>1, ResumeControl
<1>10. live \in SUBSET Coro /\ c \in live /\ live = Live'
  BY <1>1, <1>2, <1>4, <1>6 DEF Live
<1>11. \A d \in Coro : d # c /\ state'[d] # "idle" => state[d] # "idle"
  BY <1>2, <1>6
<1> QED BY <1>2, <1>3, <1>4, <1>5, <1>6, <1>9, <1>10, <1>11, SwitchStep

LEMMA WakeupStep ==
  ASSUME Inv, NEW c \in Coro, Wakeup(c)
  PROVE  Inv'
<1>1. PICK owner, buffer, live : owner = coro /\ buffer = save_buffer /\ live = Live
  OBVIOUS
<1>2. /\ Mem(owner, buffer, live)
      /\ owner \in [Stack -> Coro \cup {NULL}]
      /\ buffer \in [Coro -> Frames \cup {NULL}]
  BY <1>1, KeptMem DEF Mem
<1>3. /\ waiting[c]
      /\ Resume(c, FALSE)
      /\ SwitchStack(c, coro, save_buffer)
      /\ state' = state /\ UNCHANGED frames
  BY DEF Wakeup
<1>4. SwitchStack(c, owner, buffer)
  BY <1>1, <1>3 DEF SwitchStack, Buffers, Evicted
<1>5. TypeOK /\ ControlInv
  BY DEF Inv
<1>6. c \notin Range(coro_stack) \cup {current} /\ state'[c] = "exec"
  BY <1>3, <1>5 DEF ControlInv
<1>7. \A d \in Coro : d # c /\ state[d] = "exec" /\ ~(FALSE /\ d = current) => state'[d] = "exec"
  BY <1>3
<1>8. /\ ControlInv'
      /\ current' = c
      /\ coro_stack' \in Seq(Coro \cup {Main})
      /\ waiting' \in [Context -> BOOLEAN]
  BY <1>3, <1>5, <1>6, <1>7, ResumeControl
<1>9. live \in SUBSET Coro /\ c \in live /\ live = Live'
  BY <1>1, <1>3, <1>6 DEF Live
<1>10. /\ state' \in [Coro -> {"idle", "exec", "retired", "freed"}]
       /\ \A d \in Coro : d # c /\ state'[d] # "idle" => state[d] # "idle"
  BY <1>3, <1>5 DEF TypeOK
<1> QED BY <1>2, <1>3, <1>4, <1>8, <1>9, <1>10, SwitchStep

\* After a Yield, when the control is right.
LEMMA YieldStep ==
  ASSUME Inv, UNCHANGED frames,
         SwitchStack(current', coro, save_buffer),
         ControlInv',
         current' \in Coro \cup {Main},
         state' \in [Coro -> {"idle", "exec", "retired", "freed"}],
         current' \in Coro => state'[current'] = "exec",
         Live' = Live,
         \A c \in Coro : state'[c] # "idle" => state[c] # "idle",
         coro_stack' \in Seq(Coro \cup {Main}),
         waiting' \in [Context -> BOOLEAN]
  PROVE  Inv'
<1>1. PICK owner, buffer, live, next :
        owner = coro /\ buffer = save_buffer /\ live = Live /\ next = current'
  OBVIOUS
<1>2. /\ Mem(owner, buffer, live)
      /\ owner \in [Stack -> Coro \cup {NULL}]
      /\ buffer \in [Coro -> Frames \cup {NULL}]
  BY <1>1, KeptMem DEF Mem
<1>3. SwitchStack(next, owner, buffer)
  <2>1. SwitchStack(next, coro, save_buffer)
    <3>1. PICK s \in Stack \cup {NULL} :
            /\ AssignStack(current', s)
            /\ LET restores == next \in Coro /\ save_buffer[next] # NULL
                   first    == ~ctx_inited[next]
               IN  /\ content' = IF restores THEN [content EXCEPT ![s] = save_buffer[next]]
                                 ELSE IF first THEN [content EXCEPT ![s] = <<next, frames[next]>>]
                                 ELSE content
                   /\ stack_sp' = [c \in Coro |->
                        IF c = next /\ restores THEN FALSE
                        ELSE stack_sp[c] \/ (c = current /\ stack[c] \in Shared)]
            /\ save_buffer' = Buffers(s, current', coro, save_buffer)
            /\ coro' = IF s = NULL THEN coro ELSE [coro EXCEPT ![s] = next]
            /\ ctx_inited' = [ctx_inited EXCEPT ![next] = TRUE]
      BY <1>1 DEF SwitchStack
    <3>2. AssignStack(next, s)
      BY <1>1, <3>1 DEF AssignStack, GetCoroStack
    <3>3. save_buffer' = Buffers(s, next, coro, save_buffer)
      BY <1>1, <3>1 DEF Buffers, Evicted
    <3> QED BY ONLY <3>1, <3>2, <3>3 DEF SwitchStack
  <2>2. owner = coro /\ buffer = save_buffer
    BY <1>1
  <2> QED BY ONLY <2>1, <2>2, Zenon
<1>4. next \in Coro \cup {Main} /\ current' = next
  BY <1>1
<1>5. /\ live \in SUBSET Coro /\ live = Live'
      /\ next \in Coro => next \in live
  BY <1>1 DEF Live
<1>6. \A c \in Coro : c # next /\ state'[c] # "idle" => state[c] # "idle"
  OBVIOUS
<1> QED BY <1>2, <1>3, <1>4, <1>5, <1>6, SwitchStep

LEMMA WaitStep ==
  ASSUME Inv, WaitCoro
  PROVE  Inv' /\ current' \in Coro \cup {Main}
<1>1. PICK flags : flags = [waiting EXCEPT ![current] = TRUE]
  OBVIOUS
<1>2. /\ current \in Coro
      /\ YieldFrom(flags, FALSE)
      /\ SwitchStack(current', coro, save_buffer)
      /\ state' = state /\ UNCHANGED frames
  BY <1>1 DEF WaitCoro, Wait, YieldFrom, ResumeFrom
<1>3. TypeOK /\ ControlInv
  BY DEF Inv
<1>4. /\ flags \in [Context -> BOOLEAN]
      /\ flags[current]
      /\ \A c \in Context : c # current => flags[c] = waiting[c]
  BY <1>1, <1>2, <1>3 DEF TypeOK, Context
<1>5. state'[current] = "exec" /\ \A c \in Coro : c # current => state'[c] = state[c]
  BY <1>2, <1>3 DEF ControlInv
<1>6. /\ ControlInv'
      /\ current' \in Coro \cup {Main}
      /\ current' \in Coro => state'[current'] = "exec"
      /\ coro_stack' \in Seq(Coro \cup {Main})
      /\ waiting' \in [Context -> BOOLEAN]
  BY <1>2, <1>3, <1>4, <1>5, YieldControl
<1>7. /\ state' \in [Coro -> {"idle", "exec", "retired", "freed"}]
      /\ Live' = Live
      /\ \A c \in Coro : state'[c] # "idle" => state[c] # "idle"
  BY <1>2, <1>3 DEF TypeOK, Live
<1> QED BY <1>2, <1>6, <1>7, YieldStep

LEMMA CoroDoneStep ==
  ASSUME Inv, CoroDone
  PROVE  Inv' /\ current' \in Coro \cup {Main}
<1>1. /\ current \in Coro
      /\ state' = [state EXCEPT ![current] =
                     IF current \in PoolCoro THEN "idle" ELSE "retired"]
      /\ \/ \E c \in Coro : waiting[c] /\ Resume(c, TRUE)
         \/ Yield(TRUE)
      /\ SwitchStack(current', coro, save_buffer)
      /\ UNCHANGED frames
  BY DEF CoroDone
<1>2. TypeOK /\ ControlInv
  BY DEF Inv
<1>3. /\ state[current] = "exec" /\ ~waiting[current]
      /\ state' \in [Coro -> {"idle", "exec", "retired", "freed"}]
      /\ state'[current] \in {"idle", "retired"}
      /\ \A c \in Coro : c # current => state'[c] = state[c]
  BY <1>1, <1>2 DEF TypeOK, ControlInv
<1>4. Live' = Live
  BY <1>1, <1>3 DEF Live
<1>5. \A c \in Coro : state'[c] # "idle" => state[c] # "idle"
  BY <1>3
<1>6. /\ ControlInv'
      /\ current' \in Coro \cup {Main}
      /\ current' \in Coro => state'[current'] = "exec"
      /\ coro_stack' \in Seq(Coro \cup {Main})
      /\ waiting' \in [Context -> BOOLEAN]
  <2>1. CASE \E c \in Coro : waiting[c] /\ Resume(c, TRUE)
    <3>1. PICK c \in Coro : waiting[c] /\ Resume(c, TRUE)
      BY <2>1
    <3>2. c \notin Range(coro_stack) \cup {current} /\ state'[c] = "exec"
      BY <1>2, <1>3, <3>1 DEF ControlInv
    <3>3. \A d \in Coro : d # c /\ state[d] = "exec" /\ ~(TRUE /\ d = current) => state'[d] = "exec"
      BY <1>3
    <3>4. TRUE => current \in Coro
      BY <1>1
    <3>5. /\ ControlInv'
          /\ current' = c
          /\ coro_stack' \in Seq(Coro \cup {Main})
          /\ waiting' \in [Context -> BOOLEAN]
      BY <1>2, <3>1, <3>2, <3>3, <3>4, ResumeControl
    <3> QED BY <3>2, <3>5
  <2>2. CASE Yield(TRUE)
    <3>1. PICK flags : flags = waiting
      OBVIOUS
    <3>2. YieldFrom(flags, TRUE)
      BY <2>2, <3>1 DEF Yield, YieldFrom, ResumeFrom
    <3>3. /\ flags \in [Context -> BOOLEAN]
          /\ ~flags[current]
          /\ \A c \in Context : c # current => flags[c] = waiting[c]
      BY <1>2, <1>3, <3>1 DEF TypeOK
    <3> QED BY <1>1, <1>2, <1>3, <3>2, <3>3, YieldControl
  <2> QED BY <1>1, <2>1, <2>2
<1> QED BY <1>1, <1>3, <1>4, <1>5, <1>6, YieldStep

(* Whatever coroutines run, wait and finish, and however many stacks they  *)
(* share: Inv, who runs, who has which stack and whose frames lie where,   *)
(* holds in every reachable state.                                         *)
THEOREM Inductive == Spec => []Inv
<1>1. Init => Inv
  <2>1. SUFFICES ASSUME Init PROVE Inv
    OBVIOUS
  <2>2. TypeOK
    BY <2>1, StackNames DEF Init, SwitchInit, TypeOK, Context
  <2>3. ControlInv
    <3>1. Range(<<>>) = {} /\ IsInjective(<<>>)
      BY RangeEmpty DEF IsInjective
    <3> QED BY <2>1, <3>1 DEF Init, SwitchInit, ControlInv, Context
  <2>4. AssignInv
    BY <2>1, StackNames DEF Init, AssignInv, Context
  <2>5. MemInv
    <3>1. \A c \in Coro : ~ctx_inited[c] /\ save_buffer[c] = NULL
      BY <2>1 DEF Init, Context
    <3>2. \A s \in Stack : coro[s] = NULL
      BY <2>1 DEF Init
    <3>3. current \notin Coro /\ Live \subseteq Coro
      BY <2>1 DEF Init, SwitchInit, Live
    <3> QED BY <3>1, <3>2, <3>3 DEF MemInv, Mem
  <2> QED BY <2>2, <2>3, <2>4, <2>5 DEF Inv
<1>2. Inv /\ [Next]_vars => Inv'
  <2>1. SUFFICES ASSUME Inv, [Next]_vars PROVE Inv'
    OBVIOUS
  <2>2. CASE UNCHANGED vars
    BY <2>1, <2>2 DEF vars, switchVars, bufferVars, stackVars, poolVars, Inv, TypeOK, ControlInv,
                      AssignInv, MemInv, Mem, Live
  <2>3. CASE Next
    BY <2>1, <2>3, RoutineStep, StartCoroStep, WakeupStep, WaitStep, CoroDoneStep, WorkStep DEF Next
  <2> QED BY <2>1, <2>2, <2>3
<1> QED BY <1>1, <1>2, PTL DEF Spec

-----------------------------------------------------------------------------
(* What follows *)

(* Every reachable state is type-correct; the cursor and the size of the   *)
(* pool of shared stacks stay within share_stack_count (GetCoroStack).     *)
THEOREM TypeCorrect == Spec => []TypeOK
<1>1. Inv => TypeOK
  BY DEF Inv
<1> QED BY <1>1, Inductive, PTL

(* No stack keeps a pointer to a coroutine that CoroGC deleted, for any    *)
(* number of coroutines and of stacks (~LibCoroCoroutine).                 *)
THEOREM OwnersCorrect == Spec => []OwnersLive
<1>1. Inv => OwnersLive
  BY DEF Inv, MemInv, Mem, Live, OwnersLive
<1> QED BY <1>1, Inductive, PTL

(* The frames of every coroutine that was started and is not deleted are   *)
(* on its stack or in its save buffer, as it left them, and not in both    *)
(* (Resume, SaveStackBuffer).                                              *)
THEOREM FramesSaved == Spec => []FramesKept
<1>1. Inv => FramesKept
  BY DEF Inv, MemInv, Mem, Live, FramesKept
<1> QED BY <1>1, Inductive, PTL

(* Whoever runs finds its own frames on its stack, whatever ran there in   *)
(* between (Resume, swapCoroFunc).                                         *)
THEOREM FramesFound == Spec => []FramesIntact
<1>1. Inv => FramesIntact
  <2>1. SUFFICES ASSUME Inv, NEW c \in Coro, current = c
                 PROVE  stack[c] # NULL /\ content[stack[c]] = <<c, frames[c]>> /\ coro[stack[c]] = c
    BY DEF FramesIntact
  <2>2. state[c] = "exec"
    BY <2>1 DEF Inv, ControlInv
  <2>3. c \in Live /\ ctx_inited[c] /\ stack[c] # NULL
    BY <2>1, <2>2 DEF Inv, AssignInv, Live
  <2>4. coro[stack[c]] = c
    BY <2>1 DEF Inv, MemInv, Mem
  <2> QED BY <2>1, <2>3, <2>4 DEF Inv, MemInv, Mem
<1> QED BY <1>1, Inductive, PTL

-----------------------------------------------------------------------------
(* How the shared stacks are dealt out *)

\* Who is given a stack adds one to its users.
LEMMA SpreadAssign ==
  ASSUME TypeOK, AssignInv, SpreadInv, NEW next \in Coro \cup {Main}, NEW s, AssignStack(next, s)
  PROVE  SpreadInv'
<1> DEFINE n == share_stack_count
           card(t) == Cardinality(Users(t))
<1>1. n \in Nat /\ pool_size \in 0 .. n /\ cursor \in 0 .. n
  BY DEF TypeOK
<1>2. CASE stack[next] = NULL /\ ~ctx_inited[next]
  <2>1. GetCoroStack(next, s) /\ stack' = [stack EXCEPT ![next] = s] /\ n' = n
    BY <1>2 DEF AssignStack, GetCoroStack
  <2>2. next \in Coro /\ next \in Context /\ Coro \subseteq Context
    BY <1>2 DEF AssignInv, Context
  <2>3. ASSUME NEW t \in 1 .. n
        PROVE  /\ IsFiniteSet(Users(t)')
               /\ Cardinality(Users(t)') = IF t = s THEN card(t) + 1 ELSE card(t)
    <3>1. IsFiniteSet(Users(t)) /\ t # NULL
      BY <2>3 DEF SpreadInv
    <3>2. next \notin Users(t)
      BY <1>2, <3>1 DEF Users
    <3>3. Users(t)' = IF t = s THEN Users(t) \cup {next} ELSE Users(t)
      BY <1>2, <2>1, <2>2, <3>1 DEF Users, TypeOK
    <3>4. /\ IsFiniteSet(Users(t) \cup {next})
          /\ Cardinality(Users(t) \cup {next}) = card(t) + 1
      BY <3>1, <3>2, FS_AddElement
    <3> QED BY <3>1, <3>3, <3>4
  <2> HIDE DEF card
  <2>4. CASE pool_size < n /\ s = pool_size + 1 /\ pool_size' = s /\ cursor' = cursor
    <3>1. cursor = 0 /\ \A t \in 1 .. n : card(t) = IF t <= pool_size THEN 1 ELSE 0
      BY <2>4 DEF SpreadInv, card
    <3>2. \A t \in 1 .. n : Cardinality(Users(t)') = IF t <= pool_size' THEN 1 ELSE 0
      BY <1>1, <2>3, <2>4, <3>1
    <3>3. pool_size' = n =>
            \E q \in Nat : \A t \in 1 .. n : Cardinality(Users(t)') = IF t <= cursor' THEN q + 1 ELSE q
      <4>1. SUFFICES ASSUME pool_size' = n
                     PROVE  \A t \in 1 .. n : Cardinality(Users(t)') = IF t <= cursor' THEN 1 + 1 ELSE 1
        BY SMT
      <4> QED BY <1>1, <2>4, <3>1, <3>2, <4>1
    <3> QED BY <2>1, <2>3, <2>4, <3>1, <3>2, <3>3 DEF SpreadInv
  <2>5. CASE pool_size = n /\ pool_size = 0 /\ pool_size' = pool_size
    <3>1. \A t \in 1 .. n : FALSE
      BY <2>5
    <3>2. \A t \in 1 .. n : Cardinality(Users(t)') = IF t <= cursor' THEN 0 + 1 ELSE 0
      BY <3>1
    <3>3. \E q \in Nat : \A t \in 1 .. n : Cardinality(Users(t)') = IF t <= cursor' THEN q + 1 ELSE q
      BY <3>2
    <3> QED BY <2>1, <2>3, <2>5, <3>3 DEF SpreadInv
  <2>6. CASE /\ pool_size = n /\ pool_size > 0
             /\ s = (IF cursor >= pool_size THEN 0 ELSE cursor) + 1
             /\ cursor' = s /\ pool_size' = pool_size
    <3>1. PICK q \in Nat : \A t \in 1 .. n : card(t) = IF t <= cursor THEN q + 1 ELSE q
      BY <2>6 DEF SpreadInv, card
    <3>2. \E r \in Nat : \A t \in 1 .. n : Cardinality(Users(t)') = IF t <= cursor' THEN r + 1 ELSE r
      <4>1. CASE cursor < n
        <5>1. \A t \in 1 .. n : Cardinality(Users(t)') = IF t <= cursor' THEN q + 1 ELSE q
          BY <1>1, <2>3, <2>6, <3>1, <4>1
        <5> QED BY <5>1
      <4>2. CASE cursor = n
        <5>1. \A t \in 1 .. n : Cardinality(Users(t)') = IF t <= cursor' THEN (q + 1) + 1 ELSE q + 1
          BY <1>1, <2>3, <2>6, <3>1, <4>2
        <5>2. q + 1 \in Nat
          OBVIOUS
        <5> QED BY <5>1, <5>2
      <4>3. cursor < n \/ cursor = n
        BY <1>1
      <4> QED BY <4>1, <4>2, <4>3
    <3>3. ~(pool_size' < n')
      BY <1>1, <2>1, <2>6
    <3> QED BY <2>1, <2>3, <3>2, <3>3 DEF SpreadInv
  <2> QED BY <2>1, <2>4, <2>5, <2>6 DEF GetCoroStack
<1>3. CASE ~(stack[next] = NULL /\ ~ctx_inited[next])
  BY <1>3 DEF AssignStack, poolVars, SpreadInv, Users
<1> QED BY <1>2, <1>3

(* The shared stacks are dealt out in turn: of any two stacks one never    *)
(* has two coroutines more than the other (GetCoroStack).                  *)
THEOREM SpreadCorrect == Spec => []StacksSpread
<1>1. Init => SpreadInv
  <2>1. SUFFICES ASSUME Init PROVE SpreadInv
    OBVIOUS
  <2>2. ASSUME NEW s \in 1 .. share_stack_count PROVE Users(s) = {}
    BY <2>1, <2>2 DEF Init, Users, Context
  <2>3. ASSUME NEW s \in 1 .. share_stack_count PROVE IsFiniteSet(Users(s)) /\ Cardinality(Users(s)) = 0
    BY <2>2, <2>3, FS_EmptySet
  <2>4. pool_size = 0 /\ cursor = 0 /\ share_stack_count \in Nat
    BY <2>1 DEF Init
  <2>5. \A s \in 1 .. share_stack_count : Cardinality(Users(s)) = IF s <= 0 THEN 0 + 1 ELSE 0
    BY <2>3
  <2>6. \A s \in 1 .. share_stack_count : Cardinality(Users(s)) = IF s <= 0 THEN 1 ELSE 0
    BY <2>3
  <2>7. \E q \in Nat : \A s \in 1 .. share_stack_count :
          Cardinality(Users(s)) = IF s <= cursor THEN q + 1 ELSE q
    BY <2>4, <2>5
  <2> QED BY <2>3, <2>4, <2>6, <2>7 DEF SpreadInv
<1>2. Inv /\ SpreadInv /\ [Next]_vars => SpreadInv'
  <2>1. SUFFICES ASSUME Inv, SpreadInv, [Next]_vars PROVE SpreadInv'
    OBVIOUS
  <2>2. CASE UNCHANGED <<stack, poolVars>>
    BY <2>1, <2>2 DEF SpreadInv, Users, poolVars
  <2>3. ASSUME NEW next \in Coro \cup {Main}, NEW s, AssignStack(next, s) PROVE SpreadInv'
    BY <2>1, <2>3, SpreadAssign DEF Inv
  <2>4. CASE \E c \in Coro : StartCoro(c) \/ Wakeup(c)
    <3>1. PICK c \in Coro : StartCoro(c) \/ Wakeup(c)
      BY <2>4
    <3>2. PICK s : AssignStack(c, s)
      BY <3>1 DEF StartCoro, Wakeup, SwitchStack
    <3> QED BY <2>3, <3>2
  <2>5. CASE WaitCoro \/ CoroDone
    <3>1. PICK next : next = current'
      OBVIOUS
    <3>2. next \in Coro \cup {Main}
      BY <2>1, <2>5, <3>1, WaitStep, CoroDoneStep
    <3>3. PICK s : AssignStack(current', s)
      BY <2>5 DEF WaitCoro, CoroDone, SwitchStack
    <3>4. AssignStack(next, s)
      BY <3>1, <3>3 DEF AssignStack, GetCoroStack
    <3> QED BY <2>3, <3>2, <3>4
  <2>6. CASE Routine \/ Work \/ UNCHANGED vars
    BY <2>2, <2>6 DEF Routine, Work, vars, stackVars
  <2> QED BY <2>1, <2>4, <2>5, <2>6 DEF Next
<1>3. Inv /\ SpreadInv => StacksSpread
  <2>1. SUFFICES ASSUME Inv, SpreadInv, NEW s \in 1 .. share_stack_count, NEW t \in 1 .. share_stack_count
                 PROVE  Cardinality(Users(s)) <= Cardinality(Users(t)) + 1
    BY DEF StacksSpread
  <2>2. pool_size \in 0 .. share_stack_count /\ share_stack_count \in Nat /\ cursor \in Nat
    BY <2>1 DEF Inv, TypeOK
  <2>3. CASE pool_size < share_stack_count
    BY <2>1, <2>2, <2>3 DEF SpreadInv
  <2>4. CASE pool_size = share_stack_count
    <3>1. PICK q \in Nat : \A u \in 1 .. share_stack_count :
            Cardinality(Users(u)) = IF u <= cursor THEN q + 1 ELSE q
      BY <2>1, <2>4 DEF SpreadInv
    <3> QED BY <2>1, <2>2, <3>1
  <2> QED BY <2>2, <2>3, <2>4
<1> QED BY <1>1, <1>2, <1>3, Inductive, PTL DEF Spec

=============================================================================
