--------------------------- MODULE EmbeddedProofs ---------------------------
(***************************************************************************)
(* The program that drives a scheduler without a thread gives each         *)
(* coroutine its turn, leaves its loop when all calls are done and gives   *)
(* back all memory, for any number of tests and coroutines, any clock and  *)
(* any sizes of stacks and pages.                                          *)
(***************************************************************************)
EXTENDS EmbeddedScheduler, SchedulerProofs, WellFoundedInduction

USE CoroAssumption, SchedulerAssumption, EmbeddedAssumption, AllocAssumption

-----------------------------------------------------------------------------
(* The coroutine stack: k entries of the driver's earlier turns, on which  *)
(* lie main and those that run on its behalf                               *)

Fresh(stk, k) == {stk[i] : i \in k + 1 .. Len(stk)}

Turns(stk, cur, k) ==
  /\ k \in 0 .. Len(stk)
  /\ stk # <<>> => k > 0
  /\ \A i \in 1 .. k : stk[i] = Sched
  /\ \A i, j \in k + 1 .. Len(stk) : stk[i] = stk[j] => i = j
  /\ cur \notin Fresh(stk, k)
  /\ cur = Main => k = Len(stk)
  /\ cur # Main /\ stk # <<>> => k < Len(stk) /\ stk[k + 1] = Main

Ready == {c \in Executing : ~waiting[c]}

TurnInv ==
  /\ current = NULL => coro_stack = <<>>
  /\ current # NULL => current \in Ready
  /\ \E k \in 0 .. Len(coro_stack) :
       Turns(coro_stack, current, k) /\ Fresh(coro_stack, k) \subseteq Ready
  /\ coro_stack = <<>> => current \in {NULL, Sched} /\ exec_table = {}

\* Who sleeps or joins executes and waits, for one thing only
PendingInv ==
  /\ TimersOnce
  /\ \A e \in Func \cup Context : Sleeps(e) => e \in exec_table /\ waiting[e] /\ ~Joins(e)
  /\ \A x, y \in Coro : join_table[x] # NULL =>
       /\ x \in exec_table
       /\ join_table[x] \in exec_table /\ waiting[join_table[x]]
       /\ join_table[y] = join_table[x] => y = x
  /\ ~waiting[Sched] /\ ~waiting[Main]

\* There is no pool; who is not deleted executes or is retired
TableInv ==
  /\ IsFiniteSet(exec_table)
  /\ coro_pool = <<>>
  /\ IsInjective(deleting_coros)
  /\ Range(deleting_coros) \cap exec_table = {}
  /\ {c \in Coro : mem[c] = "live"} = exec_table \cup Range(deleting_coros)

\* Calls start at once, in a coroutine
StartedInv ==
  /\ direct = NULL
  /\ coro_queue = <<>>
  /\ \A f \in Func : \/ life[f] \in {"unused", "done"}
                     \/ life[f] = "running" /\ \E c \in exec_table : func[c] = f

\* How far main and the driver are
PhaseInv ==
  /\ rpc = "run" <=> mpc = "start"
  /\ dpc = "unborn" <=> mpc = "start"
  /\ mpc \in {"start", "first", "burst"} => burst > 0
  /\ coro_stack = <<>> => mpc \in {"start", "first"}
  /\ route_running <=> mpc \notin {"drain", "end"}
  /\ ~route_running => exec_table = {}
  /\ dpc \in {"retired", "freed"} => ~route_running
  /\ mpc \in {"start", "end"} => deleting_coros = <<>>
  /\ mpc = "end" => dpc = "freed"

PlaceTypes ==
  /\ mpc \in {"start", "first", "resume", "usleep", "burst", "check", "drain", "end"}
  /\ burst \in 0 .. Burst
  /\ route_running \in BOOLEAN
  /\ dpc \in {"unborn", "loop", "routine", "yield", "retired", "freed"}
  /\ at \in [Func -> {"unused", "sleep", "start", "join", "return", "done"}]

ControlInv ==
  TypeOK /\ PlaceTypes /\ TurnInv /\ PendingInv /\ TableInv /\ StartedInv /\ PhaseInv

-----------------------------------------------------------------------------
(* The memory of the stacks *)

Area(s) == Body(s) \cup Guard(s)

Owner == Coro \cup {Sched}

\* The stacks st lie apart from each other, and u and g are their pages.
Layout(st, u, g) ==
  /\ st \in [Owner -> [sptr : {0} \cup Page, ssze : Nat]]
  /\ \A c \in Owner : Area(st[c]) \subseteq Page
  /\ \A c, d \in Owner : c # d => Area(st[c]) \cap Area(st[d]) = {}
  /\ u = UNION {Body(st[c]) : c \in Owner}
  /\ g = UNION {Guard(st[c]) : c \in Owner}

Alive == exec_table \cup Range(deleting_coros) \cup
         (IF dpc \in {"unborn", "freed"} THEN {} ELSE {Sched})

MemoryInv ==
  /\ Layout(stack, used, guarded)
  /\ crashed \in BOOLEAN
  /\ \A c \in Owner : /\ stack[c].sptr # 0 => c \in Alive
                      /\ ~crashed /\ c \in Alive => stack[c].sptr # 0

-----------------------------------------------------------------------------
(* Turns of the coroutine stack *)

\* Whoever runs resumes new and is kept on the stack.
LEMMA TurnsPush ==
  ASSUME NEW stk \in Seq(Context), NEW cur \in Context, NEW new \in Context, NEW k,
         Turns(stk, cur, k), stk # <<>>,
         new # Main, new # cur, new \notin Fresh(stk, k)
  PROVE  /\ Turns(Append(stk, cur), new, k)
         /\ Fresh(Append(stk, cur), k) = Fresh(stk, k) \cup {cur}
         /\ k \in 0 .. Len(Append(stk, cur))
         /\ Append(stk, cur) # <<>>
<1> DEFINE n == Len(stk)
           t == Append(stk, cur)
<1>1. /\ t \in Seq(Context)
      /\ Len(t) = n + 1
      /\ \A i \in 1 .. n : t[i] = stk[i]
      /\ t[n + 1] = cur
  BY RangeAppend
<1>2. n \in Nat /\ k \in 0 .. n /\ k \in Nat /\ k > 0 /\ (k < n \/ cur = Main)
  BY RangeSeq DEF Turns
<1> HIDE DEF t
<1>3. t # <<>>
  <2>1. Len(t) # 0
    BY <1>1, <1>2
  <2> QED BY <2>1, Len(<<>>) = 0
<1>4. Fresh(t, k) = Fresh(stk, k) \cup {cur}
  <2>1. \A i \in k + 1 .. n + 1 : i \in k + 1 .. n \/ i = n + 1
    BY <1>2
  <2>2. \A i \in k + 1 .. n : i \in k + 1 .. n + 1 /\ t[i] = stk[i]
    BY <1>1, <1>2
  <2>3. n + 1 \in k + 1 .. n + 1
    BY <1>2
  <2>4. Fresh(t, k) = {t[i] : i \in k + 1 .. n + 1} /\ Fresh(stk, k) = {stk[i] : i \in k + 1 .. n}
    BY <1>1 DEF Fresh
  <2> QED BY <1>1, <2>1, <2>2, <2>3, <2>4
<1>5. \A i \in 1 .. k : t[i] = Sched
  <2>1. \A i \in 1 .. k : stk[i] = Sched
    BY DEF Turns
  <2>2. \A i \in 1 .. k : i \in 1 .. n
    BY <1>2
  <2> QED BY <1>1, <2>1, <2>2
<1>6. ASSUME NEW i \in k + 1 .. n + 1, NEW j \in k + 1 .. n + 1, t[i] = t[j] PROVE i = j
  <2>1. \A l \in k + 1 .. n : stk[l] # cur /\ t[l] = stk[l]
    BY <1>1, <1>2 DEF Turns, Fresh
  <2>2. (i \in k + 1 .. n \/ i = n + 1) /\ (j \in k + 1 .. n \/ j = n + 1)
    BY <1>2
  <2> QED BY <1>1, <1>6, <2>1, <2>2 DEF Turns
<1>7. k < n + 1 /\ t[k + 1] = Main
  <2>1. CASE cur = Main
    <3>1. k = n
      BY <2>1 DEF Turns
    <3> QED BY <1>1, <1>2, <2>1, <3>1
  <2>2. CASE cur # Main
    <3>1. k < n
      BY <1>2, <2>2
    <3>2. stk # <<>>
      BY <1>2, <3>1, Len(<<>>) = 0
    <3>3. stk[k + 1] = Main
      BY <2>2, <3>2 DEF Turns
    <3>4. k + 1 \in 1 .. n
      BY <1>2, <3>1
    <3> QED BY <1>1, <1>2, <3>1, <3>3, <3>4
  <2> QED BY <2>1, <2>2
<1>8. Turns(t, new, k)
  BY <1>1, <1>2, <1>4, <1>5, <1>6, <1>7 DEF Turns
<1> QED BY <1>1, <1>2, <1>3, <1>4, <1>8 DEF t

\* Whoever runs gives way to the top of the stack for good, or until it is
\* resumed.
LEMMA TurnsPop ==
  ASSUME NEW stk \in Seq(Context), NEW cur \in Context, NEW k,
         Turns(stk, cur, k), cur # Main, stk # <<>>
  PROVE  /\ Turns(Front(stk), Last(stk), k)
         /\ Last(stk) \in Fresh(stk, k)
         /\ Fresh(Front(stk), k) = Fresh(stk, k) \ {Last(stk)}
         /\ k \in 0 .. Len(Front(stk))
         /\ Len(Front(stk)) = Len(stk) - 1
         /\ Front(stk) # <<>>
         /\ Last(stk) = Main => k = Len(Front(stk))
<1> DEFINE n == Len(stk)
           t == Front(stk)
<1>1. /\ Last(stk) = stk[n]
      /\ t \in Seq(Context)
      /\ Len(t) = n - 1
      /\ \A i \in 1 .. n - 1 : t[i] = stk[i]
      /\ n \in Nat \ {0}
  BY FrontLast
<1>2. k \in 0 .. n /\ k < n /\ stk[k + 1] = Main /\ k \in Nat /\ k > 0
  BY <1>1 DEF Turns
<1>3. \A i, j \in k + 1 .. n : stk[i] = stk[j] => i = j
  BY DEF Turns
<1> HIDE DEF t, n
<1>4. stk[n] \in Fresh(stk, k)
  <2>1. n \in k + 1 .. n
    BY <1>1, <1>2
  <2> QED BY <2>1 DEF Fresh, n
<1>5. Fresh(t, k) = Fresh(stk, k) \ {stk[n]}
  <2>1. \A i \in k + 1 .. n : i \in k + 1 .. n - 1 \/ i = n
    BY <1>1, <1>2
  <2>2. \A i \in k + 1 .. n - 1 : i \in k + 1 .. n /\ t[i] = stk[i] /\ i # n /\ n \in k + 1 .. n
    BY <1>1, <1>2
  <2>3. Fresh(t, k) = {t[i] : i \in k + 1 .. n - 1} /\ Fresh(stk, k) = {stk[i] : i \in k + 1 .. n}
    BY <1>1 DEF Fresh, n
  <2>4. ASSUME NEW x \in Fresh(t, k) PROVE x \in Fresh(stk, k) \ {stk[n]}
    <3>1. PICK i \in k + 1 .. n - 1 : x = t[i]
      BY <2>3, <2>4
    <3> QED BY <1>3, <2>2, <2>3, <3>1
  <2>5. ASSUME NEW x \in Fresh(stk, k), x # stk[n] PROVE x \in Fresh(t, k)
    <3>1. PICK i \in k + 1 .. n : x = stk[i]
      BY <2>3, <2>5
    <3>2. i \in k + 1 .. n - 1
      BY <2>1, <2>5, <3>1
    <3> QED BY <2>2, <2>3, <3>1, <3>2
  <2> QED BY <2>4, <2>5
<1>6. \A i \in 1 .. k : t[i] = Sched
  <2>1. \A i \in 1 .. k : stk[i] = Sched
    BY DEF Turns
  <2>2. \A i \in 1 .. k : i \in 1 .. n - 1
    BY <1>1, <1>2
  <2> QED BY <1>1, <2>1, <2>2
<1>7. \A i, j \in k + 1 .. n - 1 : t[i] = t[j] => i = j
  <2>1. \A i \in k + 1 .. n - 1 : i \in k + 1 .. n /\ t[i] = stk[i]
    BY <1>1, <1>2
  <2> QED BY <1>3, <2>1
<1>8. stk[n] = Main => k = n - 1
  BY <1>1, <1>2, <1>3
<1>9. stk[n] # Main => k < n - 1 /\ t[k + 1] = Main
  <2>1. stk[n] # Main => k + 1 # n
    BY <1>2
  <2> QED BY <1>1, <1>2, <2>1
<1>10. t # <<>>
  <2>1. Len(t) # 0
    BY <1>1, <1>2
  <2> QED BY <2>1, Len(<<>>) = 0
<1>11. Turns(t, stk[n], k)
  BY <1>1, <1>2, <1>5, <1>6, <1>7, <1>8, <1>9 DEF Turns
<1>12. k \in 0 .. Len(t)
  BY <1>1, <1>2
<1> QED BY <1>1, <1>4, <1>5, <1>8, <1>10, <1>11, <1>12 DEF t, n

\* The driver yields: what it leaves on the stack is never popped again, if
\* main is next.
LEMMA TurnsYield ==
  ASSUME NEW stk \in Seq(Context), NEW k, Turns(stk, Sched, k), NEW new,
         NEW rest \in Seq(Context),
         IF stk = <<>> THEN new = Main /\ rest = <<>>
                       ELSE new = Last(stk) /\ rest = Front(stk)
  PROVE  /\ \E l \in 0 .. Len(Append(rest, Sched)) :
              /\ Turns(Append(rest, Sched), new, l)
              /\ Fresh(Append(rest, Sched), l) \subseteq (Fresh(stk, k) \cup {Sched}) \ {new}
         /\ Append(rest, Sched) # <<>>
         /\ new \in Fresh(stk, k) \cup {Main}
<1> DEFINE t == Append(rest, Sched)
           n == Len(rest)
<1>0. Sched \in Context /\ Main # Sched /\ Main \in Context
  BY DEF Context
<1>1. /\ t \in Seq(Context)
      /\ Len(t) = n + 1
      /\ \A i \in 1 .. n : t[i] = rest[i]
      /\ t[n + 1] = Sched
      /\ n \in Nat
  BY <1>0, RangeAppend
<1> HIDE DEF t, n
<1>2. t # <<>>
  <2>1. Len(t) # 0
    BY <1>1
  <2> QED BY <2>1, Len(<<>>) = 0
<1>3. new \in Fresh(stk, k) \cup {Main}
  BY <1>0, TurnsPop
<1>4. CASE new = Main
  <2>1. \A i \in 1 .. n : rest[i] = Sched
    <3>1. CASE stk = <<>>
      <4>1. n = 0
        BY <3>1, Len(<<>>) = 0 DEF n
      <4> QED BY <4>1
    <3>2. CASE stk # <<>>
      <4>1. Turns(rest, new, k) /\ k = n
        BY <1>0, <1>4, <3>2, TurnsPop DEF n
      <4> QED BY <4>1 DEF Turns
    <3> QED BY <3>1, <3>2
  <2>2. \A i \in 1 .. n + 1 : t[i] = Sched
    <3>1. \A i \in 1 .. n + 1 : i \in 1 .. n \/ i = n + 1
      BY <1>1
    <3> QED BY <1>1, <2>1, <3>1
  <2>3. Fresh(t, n + 1) = {}
    <3>1. \A i \in (n + 1) + 1 .. n + 1 : FALSE
      BY <1>1
    <3> QED BY <1>1, <3>1 DEF Fresh
  <2>4. n + 1 \in 0 .. Len(t) /\ n + 1 > 0
    BY <1>1
  <2>5. \A i \in (n + 1) + 1 .. n + 1 : FALSE
    BY <1>1
  <2>6. Turns(t, new, n + 1)
    BY <1>1, <1>4, <2>2, <2>3, <2>4, <2>5 DEF Turns
  <2> QED BY <1>2, <1>3, <2>3, <2>4, <2>6 DEF t
<1>5. CASE new # Main
  <2>1. /\ stk # <<>>
        /\ Turns(rest, new, k)
        /\ new \in Fresh(stk, k)
        /\ Fresh(rest, k) = Fresh(stk, k) \ {new}
        /\ rest # <<>>
    BY <1>0, <1>5, TurnsPop
  <2>2. Sched \notin Fresh(stk, k) /\ new # Sched
    BY <2>1 DEF Turns
  <2>3. new \in Context
    BY <2>1, FrontLast
  <2>4. k \in 0 .. n /\ k < n /\ rest[k + 1] = Main /\ k \in Nat
    BY <1>1, <1>5, <2>1 DEF Turns, n
  <2>5. Fresh(t, k) = Fresh(rest, k) \cup {Sched}
    <3>1. \A i \in k + 1 .. n + 1 : i \in k + 1 .. n \/ i = n + 1
      BY <1>1, <2>4
    <3>2. \A i \in k + 1 .. n : i \in k + 1 .. n + 1 /\ t[i] = rest[i]
      BY <1>1, <2>4
    <3>3. n + 1 \in k + 1 .. n + 1
      BY <1>1, <2>4
    <3>4. Fresh(t, k) = {t[i] : i \in k + 1 .. n + 1} /\ Fresh(rest, k) = {rest[i] : i \in k + 1 .. n}
      BY <1>1 DEF Fresh, n
    <3> QED BY <1>1, <3>1, <3>2, <3>3, <3>4
  <2>6. \A i \in 1 .. k : t[i] = Sched
    <3>1. \A i \in 1 .. k : rest[i] = Sched
      BY <2>1 DEF Turns
    <3>2. \A i \in 1 .. k : i \in 1 .. n
      BY <1>1, <2>4
    <3> QED BY <1>1, <3>1, <3>2
  <2>7. ASSUME NEW i \in k + 1 .. n + 1, NEW j \in k + 1 .. n + 1, t[i] = t[j] PROVE i = j
    <3>1. \A l \in k + 1 .. n : rest[l] # Sched /\ t[l] = rest[l]
      <4>1. \A l \in k + 1 .. n : l \in 1 .. n
        BY <1>1, <2>4
      <4>2. \A l \in k + 1 .. n : rest[l] \in Fresh(rest, k)
        BY DEF Fresh, n
      <4> QED BY <1>1, <2>1, <2>2, <4>1, <4>2
    <3>2. (i \in k + 1 .. n \/ i = n + 1) /\ (j \in k + 1 .. n \/ j = n + 1)
      BY <1>1, <2>4
    <3>3. \A l, m \in k + 1 .. n : rest[l] = rest[m] => l = m
      BY <2>1 DEF Turns, n
    <3> QED BY <1>1, <2>7, <3>1, <3>2, <3>3
  <2>8. k < n + 1 /\ t[k + 1] = Main
    <3>1. k + 1 \in 1 .. n
      BY <1>1, <2>4
    <3> QED BY <1>1, <2>4, <3>1
  <2>9. new \notin Fresh(t, k)
    BY <2>1, <2>2, <2>5
  <2>10. k \in 0 .. Len(t) /\ k > 0
    BY <1>1, <2>1, <2>4 DEF Turns
  <2>11. Turns(t, new, k)
    BY <1>1, <1>5, <2>6, <2>7, <2>8, <2>9, <2>10 DEF Turns
  <2> QED BY <1>2, <1>3, <2>1, <2>2, <2>5, <2>10, <2>11 DEF t
<1> QED BY <1>4, <1>5

\* Whoever runs is done and is replaced by new.
LEMMA TurnsReplace ==
  ASSUME NEW stk, NEW cur, NEW new, NEW k, Turns(stk, cur, k),
         cur # Main, new # Main, new \notin Fresh(stk, k)
  PROVE  Turns(stk, new, k)
BY DEF Turns

-----------------------------------------------------------------------------
(* What the switches make of it *)

LEMMA Names ==
  /\ Main \in Context /\ Sched \in Context /\ Coro \subseteq Context
  /\ Main # Sched /\ Main \notin Coro /\ Sched \notin Coro /\ NULL \notin Context
  /\ Func \cap Context = {} /\ NULL \notin Func
BY DEF Context

LEMMA ReadyNames ==
  ASSUME TypeOK
  PROVE  Executing \subseteq Context /\ Ready \subseteq Executing
BY DEF TypeOK, Executing, Ready, Context

\* Whoever runs resumes next, which was not ready, or was not yet main's turn.
LEMMA ResumeTurn ==
  ASSUME TypeOK, TurnInv, NEW next \in Context, next # Main, next # current,
         next \notin Ready \/ current = Main,
         coro_stack # <<>>, current # NULL,
         Resume(next, FALSE),
         Executing \subseteq Executing', next \in Executing'
  PROVE  /\ TurnInv' /\ coro_stack' # <<>>
         /\ current' = next
         /\ waiting' = [waiting EXCEPT ![next] = FALSE]
<1>1. /\ current' = next
      /\ waiting' = [waiting EXCEPT ![next] = FALSE]
      /\ coro_stack' = Append(coro_stack, current)
  BY DEF Resume, ResumeFrom, TurnInv, Ready
<1>2. current \in Context /\ current \in Ready /\ coro_stack \in Seq(Context)
  BY ReadyNames DEF TypeOK, TurnInv
<1>3. PICK k \in 0 .. Len(coro_stack) :
        Turns(coro_stack, current, k) /\ Fresh(coro_stack, k) \subseteq Ready
  BY DEF TurnInv
<1>4. next \notin Fresh(coro_stack, k)
  <2>1. ASSUME current = Main PROVE Fresh(coro_stack, k) = {}
    <3>1. k = Len(coro_stack) /\ Len(coro_stack) \in Nat
      BY <1>2, <1>3, <2>1, RangeSeq DEF Turns
    <3>2. \A i \in k + 1 .. Len(coro_stack) : FALSE
      BY <3>1
    <3> QED BY <3>2 DEF Fresh
  <2> QED BY <1>3, <2>1
<1>5. /\ Turns(coro_stack', next, k)
      /\ Fresh(coro_stack', k) = Fresh(coro_stack, k) \cup {current}
      /\ k \in 0 .. Len(coro_stack')
      /\ coro_stack' # <<>>
  BY <1>1, <1>2, <1>3, <1>4, TurnsPush
<1>6. Ready \cup {next} \subseteq Ready'
  <2>1. \A c \in Context : c # next => waiting'[c] = waiting[c]
    BY <1>1 DEF TypeOK
  <2>2. ~waiting'[next]
    BY <1>1 DEF TypeOK
  <2> QED BY <2>1, <2>2, ReadyNames DEF Ready
<1>7. Fresh(coro_stack', k) \subseteq Ready'
  BY <1>2, <1>3, <1>5, <1>6
<1>8. current' # NULL /\ current' \in Ready'
  BY <1>1, <1>6, Names
<1>9. \E l \in 0 .. Len(coro_stack') : Turns(coro_stack', current', l) /\ Fresh(coro_stack', l) \subseteq Ready'
  BY <1>1, <1>5, <1>7
<1> QED BY <1>1, <1>5, <1>8, <1>9 DEF TurnInv, Turns, Fresh

\* Whoever runs waits, or is done, and the top of the stack goes on.
LEMMA YieldTurn ==
  ASSUME TypeOK, TurnInv, coro_stack # <<>>, current # Main, current # NULL,
         NEW flags \in [Context -> BOOLEAN], NEW release \in BOOLEAN,
         \A c \in Context : c # current => flags[c] = waiting[c],
         release \/ flags[current],
         YieldFrom(flags, release),
         Executing \ {current} \subseteq Executing'
  PROVE  /\ TurnInv'
         /\ current' \in Ready \ {current}
         /\ waiting' \in [Context -> BOOLEAN]
         /\ \A c \in Context : c # current => waiting'[c] = waiting[c]
         /\ waiting'[current] = flags[current]
         /\ coro_stack' # <<>>
<1>1. /\ current' = Last(coro_stack)
      /\ coro_stack' = Front(coro_stack)
      /\ waiting' = [flags EXCEPT ![current'] = FALSE]
  BY DEF YieldFrom, ResumeFrom
<1>2. current \in Context /\ coro_stack \in Seq(Context)
  BY ReadyNames DEF TypeOK, TurnInv
<1>3. PICK k \in 0 .. Len(coro_stack) :
        Turns(coro_stack, current, k) /\ Fresh(coro_stack, k) \subseteq Ready
  BY DEF TurnInv
<1>4. /\ Turns(coro_stack', current', k)
      /\ current' \in Fresh(coro_stack, k)
      /\ Fresh(coro_stack', k) = Fresh(coro_stack, k) \ {current'}
      /\ k \in 0 .. Len(coro_stack')
      /\ coro_stack' # <<>>
  BY <1>1, <1>2, <1>3, TurnsPop
<1>5. current \notin Fresh(coro_stack, k)
  BY <1>3 DEF Turns
<1>6. current' \in Ready \ {current} /\ current' \in Context
  BY <1>3, <1>4, <1>5, ReadyNames
<1>7. /\ waiting' \in [Context -> BOOLEAN]
      /\ \A c \in Context : c # current => waiting'[c] = waiting[c]
      /\ waiting'[current] = flags[current]
  <2>1. ~waiting[current']
    BY <1>6 DEF Ready
  <2> QED BY <1>1, <1>2, <1>6, <2>1
<1>8. Ready \ {current} \subseteq Ready'
  BY <1>7, ReadyNames DEF Ready
<1>9. Fresh(coro_stack', k) \subseteq Ready' /\ current' \in Ready' /\ current' # NULL
  BY <1>3, <1>4, <1>5, <1>6, <1>8, Names
<1>10. \E l \in 0 .. Len(coro_stack') : Turns(coro_stack', current', l) /\ Fresh(coro_stack', l) \subseteq Ready'
  BY <1>4, <1>9
<1> QED BY <1>4, <1>6, <1>7, <1>9, <1>10 DEF TurnInv, Turns, Fresh

\* Whoever runs is done, and resumes its joiner.
LEMMA ReplaceTurn ==
  ASSUME TypeOK, TurnInv, coro_stack # <<>>, current # Main, current # NULL,
         NEW next \in Context, next # Main, waiting[next],
         Resume(next, TRUE),
         Executing \ {current} \subseteq Executing', next \in Executing'
  PROVE  /\ TurnInv'
         /\ current' = next
         /\ waiting' = [waiting EXCEPT ![next] = FALSE]
<1>1. /\ current' = next
      /\ waiting' = [waiting EXCEPT ![next] = FALSE]
      /\ coro_stack' = coro_stack
  BY DEF Resume, ResumeFrom
<1>2. PICK k \in 0 .. Len(coro_stack) :
        Turns(coro_stack, current, k) /\ Fresh(coro_stack, k) \subseteq Ready
  BY DEF TurnInv
<1>3. next \notin Fresh(coro_stack, k) /\ current \notin Fresh(coro_stack, k)
  BY <1>2 DEF Ready, Turns
<1>4. Turns(coro_stack, next, k)
  BY <1>2, <1>3, TurnsReplace
<1>5. (Ready \ {current}) \cup {next} \subseteq Ready'
  <2>1. \A c \in Context : c # next => waiting'[c] = waiting[c]
    BY <1>1 DEF TypeOK
  <2>2. ~waiting'[next]
    BY <1>1 DEF TypeOK
  <2> QED BY <2>1, <2>2, ReadyNames DEF Ready
<1>6. Fresh(coro_stack, k) \subseteq Ready' /\ current' \in Ready' /\ current' # NULL
  BY <1>1, <1>2, <1>3, <1>5, Names
<1>7. \E l \in 0 .. Len(coro_stack') : Turns(coro_stack', current', l) /\ Fresh(coro_stack', l) \subseteq Ready'
  BY <1>1, <1>2, <1>4, <1>6
<1> QED BY <1>1, <1>6, <1>7 DEF TurnInv, Turns, Fresh

\* The driver's own Yield.
LEMMA DriverTurn ==
  ASSUME TypeOK, TurnInv, current = Sched, Yield(FALSE), Executing \subseteq Executing'
  PROVE  /\ TurnInv' /\ current' \in Ready \cup {Main}
         /\ ~waiting[Main] => waiting' = waiting
         /\ coro_stack' # <<>>
<1> DEFINE rest == IF coro_stack = <<>> THEN coro_stack ELSE Front(coro_stack)
           new == IF coro_stack = <<>> THEN Main ELSE Last(coro_stack)
<1>1. current # NULL /\ current \in Ready /\ ~waiting[current] /\ coro_stack \in Seq(Context)
  BY Names DEF TurnInv, Ready, TypeOK
<1>2. /\ current' = new
      /\ coro_stack' = Append(rest, Sched)
      /\ waiting' = [waiting EXCEPT ![new] = FALSE]
  BY <1>1 DEF Yield, YieldFrom, ResumeFrom
<1>3. PICK k \in 0 .. Len(coro_stack) :
        Turns(coro_stack, Sched, k) /\ Fresh(coro_stack, k) \subseteq Ready
  BY DEF TurnInv
<1>4. rest \in Seq(Context)
  BY <1>1, FrontLast
<1>5. IF coro_stack = <<>> THEN new = Main /\ rest = <<>>
                           ELSE new = Last(coro_stack) /\ rest = Front(coro_stack)
  OBVIOUS
<1> HIDE DEF rest, new
<1>6. /\ \E l \in 0 .. Len(Append(rest, Sched)) :
           /\ Turns(Append(rest, Sched), new, l)
           /\ Fresh(Append(rest, Sched), l) \subseteq (Fresh(coro_stack, k) \cup {Sched}) \ {new}
      /\ Append(rest, Sched) # <<>>
      /\ new \in Fresh(coro_stack, k) \cup {Main}
  <2>1. coro_stack \in Seq(Context) /\ Turns(coro_stack, Sched, k)
    BY <1>1, <1>3
  <2> QED BY ONLY <1>4, <1>5, <2>1, TurnsYield
<1>7. new \in Ready \cup {Main} /\ new \in Context
  BY <1>3, <1>6, ReadyNames, Names
<1>8. Ready \cup {new} \subseteq Ready'
  <2>1. \A c \in Context : c # new => waiting'[c] = waiting[c]
    BY <1>2 DEF TypeOK
  <2>2. ~waiting'[new]
    BY <1>2, <1>7 DEF TypeOK
  <2>3. new \in Executing'
    BY <1>7, ReadyNames DEF Executing
  <2> QED BY <2>1, <2>2, <2>3, ReadyNames DEF Ready
<1>9. \E l \in 0 .. Len(coro_stack') : Turns(coro_stack', current', l) /\ Fresh(coro_stack', l) \subseteq Ready'
  BY <1>1, <1>2, <1>3, <1>6, <1>8
<1>10. current' # NULL /\ current' \in Ready' /\ coro_stack' # <<>>
  BY <1>2, <1>6, <1>7, <1>8, Names
<1>11. TurnInv'
  BY <1>9, <1>10 DEF TurnInv, Turns, Fresh
<1>12. ~waiting[Main] => waiting' = waiting
  <2>1. ~waiting[Main] => ~waiting[new]
    BY <1>7 DEF Ready
  <2> QED BY <1>2, <1>7, <2>1 DEF TypeOK
<1> QED BY <1>2, <1>7, <1>10, <1>11, <1>12

-----------------------------------------------------------------------------
(* The operations of the scheduler *)

\* Who runs is a coroutine that executes, the driver or main.
LEMMA Current ==
  ASSUME ControlInv, current # NULL
  PROVE  /\ current \in Context /\ current \in Ready
         /\ current \in Coro => current \in exec_table
         /\ current = Sched => dpc \in {"loop", "routine", "yield"}
         /\ ~waiting[current] /\ ~Sleeps(current) /\ ~Joins(current)
         /\ current # Sched \/ exec_table # {} => coro_stack # <<>>
         /\ mpc # "start" /\ rpc # "run"
<1>1. /\ current \in Ready
      /\ coro_stack = <<>> => current = Sched /\ exec_table = {}
      /\ mpc # "start" /\ rpc # "run"
  BY DEF ControlInv, TurnInv, PhaseInv, TypeOK
<1>2. current \in Context /\ ~waiting[current] /\ current \in Executing
  BY <1>1, ReadyNames DEF ControlInv, Ready
<1>3. /\ current \in Coro => current \in exec_table
      /\ current = Sched => dpc \in {"loop", "routine", "yield"}
  <2>1. exec_table \subseteq Coro
    BY DEF ControlInv, TypeOK
  <2> QED BY <1>2, <2>1, Names DEF Executing
<1>4. ~Sleeps(current)
  BY <1>2 DEF ControlInv, PendingInv
<1>5. ~Joins(current)
  <2>1. ASSUME NEW x \in Coro, join_table[x] = current PROVE FALSE
    BY <1>2, <2>1 DEF ControlInv, PendingInv
  <2> QED BY <2>1 DEF Joins
<1> QED BY <1>1, <1>2, <1>3, <1>4, <1>5

\* Scheduler::StartCoro
LEMMA StartKept ==
  ASSUME ControlInv, NEW f \in Func, StartCoro(f), current # NULL, coro_stack # <<>>,
         UNCHANGED <<join_table, coro_queue, coro_time_queue, direct, dpc>>
  PROVE  /\ TurnInv' /\ PendingInv' /\ TableInv' /\ StartedInv' /\ coro_stack' # <<>>
         /\ \E c \in Coro : /\ c \notin exec_table \cup Range(deleting_coros)
                            /\ exec_table' = exec_table \cup {c}
                            /\ deleting_coros' = <<>>
                            /\ current' = c
<1> USE DEF ControlInv
<1>1. PICK c \in Coro :
        /\ Available(c)
        /\ mem' = [Collected EXCEPT ![c] = "live"]
        /\ deleting_coros' = <<>>
        /\ coro_pool' = IF coro_pool = <<>> THEN coro_pool ELSE Tail(coro_pool)
        /\ func' = [func EXCEPT ![c] = f]
        /\ exec_table' = exec_table \cup {c}
        /\ exec_coro_num' = exec_coro_num + 1
        /\ life' = [life EXCEPT ![f] = "running"]
        /\ Resume(c, FALSE)
  BY DEF StartCoro
<1>2. c \notin exec_table \cup Range(deleting_coros) /\ exec_table \subseteq Coro
  BY <1>1 DEF Available, TableInv, TypeOK
<1>3. c \notin Executing
  BY <1>2, Names DEF Executing
<1>4. Executing \subseteq Executing' /\ c \in Executing'
  BY <1>1 DEF Executing
<1>5. /\ TurnInv' /\ coro_stack' # <<>>
      /\ current' = c
      /\ waiting' = [waiting EXCEPT ![c] = FALSE]
  <2>1. c \in Context /\ c # Main /\ c \notin Ready /\ c # current
    BY <1>3, Names, ReadyNames, Current
  <2> QED BY <1>1, <1>4, <2>1, ResumeTurn
<1>6. PendingInv'
  <2>1. \A e \in Context : e # c => waiting'[e] = waiting[e]
    BY <1>5 DEF TypeOK
  <2>2. \A e \in Func \cup Context : Sleeps(e)' <=> Sleeps(e)
    BY DEF Sleeps
  <2>3. \A e : Joins(e)' <=> Joins(e)
    BY DEF Joins
  <2>4. TimersOnce'
    BY TimerSame DEF PendingInv
  <2>5. ASSUME NEW e \in Func \cup Context, Sleeps(e)'
        PROVE  e \in exec_table' /\ waiting'[e] /\ ~Joins(e)'
    <3>1. e \in exec_table /\ waiting[e] /\ ~Joins(e)
      BY <2>2, <2>5 DEF PendingInv
    <3> QED BY <1>1, <1>2, <2>1, <2>3, <3>1, Names
  <2>6. ASSUME NEW x \in Coro, NEW y \in Coro, join_table'[x] # NULL
        PROVE  /\ x \in exec_table'
               /\ join_table'[x] \in exec_table' /\ waiting'[join_table'[x]]
               /\ join_table'[y] = join_table'[x] => y = x
    <3>1. /\ x \in exec_table
          /\ join_table[x] \in exec_table /\ waiting[join_table[x]]
          /\ join_table[y] = join_table[x] => y = x
      BY <2>6 DEF PendingInv
    <3> QED BY <1>1, <1>2, <2>1, <3>1, Names
  <2>7. ~waiting'[Sched] /\ ~waiting'[Main]
    BY <2>1, Names DEF PendingInv
  <2> QED BY <2>4, <2>5, <2>6, <2>7 DEF PendingInv
<1>7. TableInv'
  <2>1. IsFiniteSet(exec_table')
    BY <1>1, FS_AddElement DEF TableInv
  <2>2. coro_pool' = <<>>
    BY <1>1 DEF TableInv
  <2>3. IsInjective(deleting_coros') /\ Range(deleting_coros') = {}
    BY <1>1, RangeEmpty DEF IsInjective
  <2>4. \A d \in Coro : mem'[d] = IF d = c THEN "live"
                                  ELSE IF d \in Range(deleting_coros) THEN "freed" ELSE mem[d]
    BY <1>1 DEF Collected
  <2>5. {d \in Coro : mem'[d] = "live"} = exec_table \cup {c}
    BY <1>2, <2>4 DEF TableInv
  <2> QED BY <1>1, <2>1, <2>2, <2>3, <2>5 DEF TableInv
<1>8. StartedInv'
  <2>1. direct' = NULL /\ coro_queue' = <<>>
    BY DEF StartedInv
  <2>2. ASSUME NEW g \in Func
        PROVE  \/ life'[g] \in {"unused", "done"}
               \/ life'[g] = "running" /\ \E d \in exec_table' : func'[d] = g
    <3>1. CASE g = f
      BY <1>1, <3>1 DEF TypeOK
    <3>2. CASE g # f
      <4>1. life'[g] = life[g]
        BY <1>1, <3>2 DEF TypeOK
      <4>2. \A d \in exec_table : func'[d] = func[d]
        BY <1>1, <1>2 DEF TypeOK
      <4> QED BY <1>1, <4>1, <4>2 DEF StartedInv
    <3> QED BY <3>1, <3>2
  <2> QED BY <2>1, <2>2 DEF StartedInv
<1> QED BY <1>1, <1>2, <1>5, <1>6, <1>7, <1>8

\* CoroSleep
LEMMA SleepKept ==
  ASSUME ControlInv, NEW d \in Delay, current \in Coro, CoroSleep(d), UNCHANGED dpc
  PROVE  /\ TurnInv' /\ PendingInv' /\ TableInv' /\ StartedInv'
         /\ UNCHANGED <<exec_table, deleting_coros>>
         /\ current \in exec_table /\ coro_stack' # <<>>
<1> USE DEF ControlInv
<1>1. PICK flags : flags = [waiting EXCEPT ![current] = TRUE]
  OBVIOUS
<1>2. /\ AddTimeCoroTask(current, d)
      /\ YieldFrom(flags, FALSE)
      /\ UNCHANGED <<coroVars, join_table, coro_queue, life, direct>>
  BY <1>1 DEF CoroSleep, Wait, YieldFrom, ResumeFrom
<1>3. /\ current \in Context /\ current \in exec_table
      /\ ~waiting[current] /\ ~Sleeps(current) /\ ~Joins(current)
      /\ coro_stack # <<>> /\ current # Main /\ current # NULL /\ current # Sched
  BY Current, Names
<1>4. /\ flags \in [Context -> BOOLEAN] /\ flags[current]
      /\ \A c \in Context : c # current => flags[c] = waiting[c]
  BY <1>1, <1>3 DEF TypeOK
<1>5. Executing \ {current} \subseteq Executing'
  BY <1>2 DEF Executing, coroVars
<1>6. /\ TurnInv' /\ coro_stack' # <<>>
      /\ \A c \in Context : c # current => waiting'[c] = waiting[c]
      /\ waiting'[current] = flags[current]
  BY <1>2, <1>3, <1>4, <1>5, YieldTurn
<1>7. /\ TimersOnce'
      /\ \A e : Sleeps(e)' <=> Sleeps(e) \/ e = current
  BY <1>2, <1>3, TimerAdd DEF PendingInv
<1>8. PendingInv'
  <2>1. \A e : Joins(e)' <=> Joins(e)
    BY <1>2 DEF Joins
  <2>2. ASSUME NEW e \in Func \cup Context, Sleeps(e)'
        PROVE  e \in exec_table' /\ waiting'[e] /\ ~Joins(e)'
    <3>1. CASE e = current
      BY <1>2, <1>3, <1>4, <1>6, <2>1, <3>1 DEF coroVars
    <3>2. CASE e # current
      <4>1. Sleeps(e)
        BY <1>7, <2>2, <3>2
      <4>2. e \in exec_table /\ waiting[e] /\ ~Joins(e)
        BY <4>1 DEF PendingInv
      <4>3. e \in Context
        BY <4>2, Names DEF TypeOK
      <4> QED BY <1>2, <1>6, <2>1, <3>2, <4>2, <4>3 DEF coroVars
    <3> QED BY <3>1, <3>2
  <2>3. ASSUME NEW x \in Coro, NEW y \in Coro, join_table'[x] # NULL
        PROVE  /\ x \in exec_table'
               /\ join_table'[x] \in exec_table' /\ waiting'[join_table'[x]]
               /\ join_table'[y] = join_table'[x] => y = x
    <3>1. /\ x \in exec_table
          /\ join_table[x] \in exec_table /\ waiting[join_table[x]]
          /\ join_table[y] = join_table[x] => y = x
      BY <1>2, <2>3 DEF PendingInv
    <3>2. join_table[x] \in Context /\ join_table[x] # current
      BY <1>3, <3>1, Names DEF TypeOK
    <3> QED BY <1>2, <1>6, <3>1, <3>2 DEF coroVars
  <2>4. ~waiting'[Sched] /\ ~waiting'[Main]
    BY <1>3, <1>6, Names DEF PendingInv
  <2> QED BY <1>7, <2>2, <2>3, <2>4 DEF PendingInv
<1>9. TableInv' /\ StartedInv'
  BY <1>2 DEF TableInv, StartedInv, coroVars
<1> QED BY <1>2, <1>3, <1>6, <1>8, <1>9 DEF coroVars

\* Join
LEMMA JoinKept ==
  ASSUME ControlInv, NEW x0 \in Coro, current \in Coro, Join(x0), UNCHANGED dpc
  PROVE  /\ TurnInv' /\ PendingInv' /\ TableInv' /\ StartedInv'
         /\ UNCHANGED <<exec_table, deleting_coros>>
         /\ current \in exec_table /\ coro_stack' # <<>>
<1> USE DEF ControlInv
<1>1. PICK flags : flags = [waiting EXCEPT ![current] = TRUE]
  OBVIOUS
<1>2. /\ x0 \in exec_table /\ join_table[x0] = NULL
      /\ join_table' = [join_table EXCEPT ![x0] = current]
      /\ YieldFrom(flags, FALSE)
      /\ UNCHANGED <<coroVars, coro_time_queue, coro_queue, life, direct>>
  BY <1>1 DEF Join, Wait, YieldFrom, ResumeFrom
<1>3. /\ current \in Context /\ current \in exec_table
      /\ ~waiting[current] /\ ~Sleeps(current) /\ ~Joins(current)
      /\ coro_stack # <<>> /\ current # Main /\ current # NULL /\ current # Sched
  BY Current, Names
<1>4. /\ flags \in [Context -> BOOLEAN] /\ flags[current]
      /\ \A c \in Context : c # current => flags[c] = waiting[c]
  BY <1>1, <1>3 DEF TypeOK
<1>5. Executing \ {current} \subseteq Executing'
  BY <1>2 DEF Executing, coroVars
<1>6. /\ TurnInv' /\ coro_stack' # <<>>
      /\ \A c \in Context : c # current => waiting'[c] = waiting[c]
      /\ waiting'[current] = flags[current]
  BY <1>2, <1>3, <1>4, <1>5, YieldTurn
<1>7. /\ join_table'[x0] = current
      /\ \A x \in Coro : x # x0 => join_table'[x] = join_table[x] /\ join_table[x] # current
  BY <1>2, <1>3 DEF TypeOK, Joins
<1>8. PendingInv'
  <2>1. \A e : Joins(e)' => Joins(e) \/ e = current
    BY <1>7 DEF Joins
  <2>2. TimersOnce' /\ \A e : Sleeps(e)' <=> Sleeps(e)
    BY <1>2, TimerSame DEF PendingInv
  <2>3. ASSUME NEW e \in Func \cup Context, Sleeps(e)'
        PROVE  e \in exec_table' /\ waiting'[e] /\ ~Joins(e)'
    <3>1. e # current /\ e \in exec_table /\ waiting[e] /\ ~Joins(e)
      BY <1>3, <2>2, <2>3 DEF PendingInv
    <3>2. e \in Context
      BY <3>1, Names DEF TypeOK
    <3> QED BY <1>2, <1>6, <2>1, <3>1, <3>2 DEF coroVars
  <2>4. ASSUME NEW x \in Coro, NEW y \in Coro, join_table'[x] # NULL
        PROVE  /\ x \in exec_table'
               /\ join_table'[x] \in exec_table' /\ waiting'[join_table'[x]]
               /\ join_table'[y] = join_table'[x] => y = x
    <3>1. CASE x = x0
      <4>1. join_table'[x] = current /\ waiting'[current] /\ current \in exec_table'
        BY <1>2, <1>3, <1>4, <1>6, <1>7, <3>1 DEF coroVars
      <4>2. join_table'[y] = current => y = x
        BY <1>7, <3>1
      <4>3. x \in exec_table'
        BY <1>2, <3>1 DEF coroVars
      <4> QED BY <4>1, <4>2, <4>3
    <3>2. CASE x # x0
      <4>1. join_table[x] # NULL /\ join_table'[x] = join_table[x] /\ join_table[x] # current
        BY <1>7, <2>4, <3>2
      <4>2. /\ x \in exec_table
            /\ join_table[x] \in exec_table /\ waiting[join_table[x]]
            /\ join_table[y] = join_table[x] => y = x
        BY <4>1 DEF PendingInv
      <4>3. join_table[x] \in Context
        BY <4>2, Names DEF TypeOK
      <4>4. join_table'[y] = join_table[x] => y = x
        BY <1>7, <4>1, <4>2
      <4> QED BY <1>2, <1>6, <4>1, <4>2, <4>3, <4>4 DEF coroVars
    <3> QED BY <3>1, <3>2
  <2>5. ~waiting'[Sched] /\ ~waiting'[Main]
    BY <1>3, <1>6, Names DEF PendingInv
  <2> QED BY <2>2, <2>3, <2>4, <2>5 DEF PendingInv
<1>9. TableInv' /\ StartedInv'
  BY <1>2 DEF TableInv, StartedInv, coroVars
<1> QED BY <1>2, <1>3, <1>6, <1>8, <1>9 DEF coroVars

\* CoroDone
LEMMA DoneKept ==
  ASSUME ControlInv, current \in Coro, CoroDone(current), UNCHANGED dpc
  PROVE  /\ TurnInv' /\ PendingInv' /\ TableInv' /\ StartedInv'
         /\ exec_table' = exec_table \ {current}
         /\ current \in exec_table
         /\ deleting_coros' = Append(deleting_coros, current)
         /\ coro_stack' # <<>>
<1> USE DEF ControlInv
<1>1. PICK joiner : joiner = join_table[current]
  OBVIOUS
<1>2. /\ exec_table' = exec_table \ {current}
      /\ deleting_coros' = Append(deleting_coros, current)
      /\ UNCHANGED <<coro_pool, mem, func, coro_queue, coro_time_queue, direct>>
      /\ life' = [life EXCEPT ![func[current]] = "done"]
      /\ \/ /\ joiner # NULL
            /\ join_table' = [join_table EXCEPT ![current] = NULL]
            /\ Resume(joiner, TRUE)
         \/ joiner = NULL /\ UNCHANGED join_table /\ YieldFrom(waiting, TRUE)
  <2>1. Pooled = {}
    BY RangeEmpty DEF Pooled
  <2>2. /\ exec_table' = exec_table \ {current} /\ Retire(current) /\ WakeJoiner(current)
        /\ UNCHANGED <<mem, func, coro_queue, coro_time_queue, direct>>
        /\ life' = [life EXCEPT ![func[current]] = "done"]
    BY DEF CoroDone
  <2>3. deleting_coros' = Append(deleting_coros, current) /\ UNCHANGED coro_pool
    BY <2>1, <2>2 DEF Retire
  <2> QED BY <1>1, <2>2, <2>3 DEF WakeJoiner, Resume, ResumeFrom, Yield, YieldFrom
<1>3. /\ current \in Context /\ current \in exec_table
      /\ ~waiting[current] /\ ~Sleeps(current) /\ ~Joins(current)
      /\ coro_stack # <<>> /\ current # Main /\ current # NULL /\ current # Sched
  BY Current, Names
<1>4. Executing \ {current} \subseteq Executing'
  BY <1>2, Names DEF Executing
<1>5. \A x \in Coro : join_table[x] # current
  BY <1>3 DEF Joins
<1>6. ASSUME joiner # NULL
      PROVE  /\ joiner \in exec_table /\ waiting[joiner] /\ joiner \in Context
             /\ joiner # Main /\ joiner # Sched /\ ~Sleeps(joiner) /\ joiner # current
             /\ \A x \in Coro : join_table[x] = joiner => x = current
  <2>1. joiner \in exec_table /\ waiting[joiner]
        /\ \A x \in Coro : join_table[x] = joiner => x = current
    BY <1>1, <1>6 DEF PendingInv
  <2>2. joiner \in Coro /\ joiner \in Context
    BY <2>1, Names DEF TypeOK
  <2>3. Joins(joiner)
    BY <1>1 DEF Joins
  <2>4. ~Sleeps(joiner)
    BY <2>2, <2>3 DEF PendingInv
  <2> QED BY <1>3, <2>1, <2>2, <2>4, Names
<1>7. /\ TurnInv'
      /\ \A c \in Context : c # joiner => waiting'[c] = waiting[c]
      /\ joiner = NULL => waiting'[current] = waiting[current]
      /\ \A c \in Context : c = joiner => ~waiting'[c]
      /\ coro_stack' # <<>>
  <2>1. CASE joiner # NULL
    <3>1. joiner \in Executing'
      BY <1>2, <1>6, <2>1 DEF Executing
    <3>2. Resume(joiner, TRUE)
      BY <1>2, <2>1
    <3>3. TurnInv' /\ waiting' = [waiting EXCEPT ![joiner] = FALSE]
      BY <1>3, <1>4, <1>6, <2>1, <3>1, <3>2, ReplaceTurn
    <3>4. coro_stack' = coro_stack
      BY <3>2 DEF Resume, ResumeFrom
    <3> QED BY <1>3, <1>6, <2>1, <3>3, <3>4 DEF TypeOK
  <2>2. CASE joiner = NULL
    <3>1. YieldFrom(waiting, TRUE) /\ waiting \in [Context -> BOOLEAN]
      BY <1>2, <2>2 DEF TypeOK
    <3>2. /\ TurnInv' /\ coro_stack' # <<>>
          /\ \A c \in Context : c # current => waiting'[c] = waiting[c]
          /\ waiting'[current] = waiting[current]
      BY <1>3, <1>4, <3>1, YieldTurn
    <3> QED BY <1>3, <2>2, <3>2, Names
  <2> QED BY <2>1, <2>2
<1>8. /\ TimersOnce'
      /\ \A e : Sleeps(e)' <=> Sleeps(e)
  BY <1>2, TimerSame DEF PendingInv
<1>9. PendingInv'
  <2>1. \A x \in Coro : join_table'[x] # NULL =>
          x # current /\ join_table'[x] = join_table[x] /\ join_table[x] # joiner
    <3>1. CASE joiner # NULL
      BY <1>2, <1>6, <3>1 DEF TypeOK
    <3>2. CASE joiner = NULL
      BY <1>1, <1>2, <3>2
    <3> QED BY <3>1, <3>2
  <2>2. ASSUME NEW e \in Func \cup Context, Sleeps(e)'
        PROVE  e \in exec_table' /\ waiting'[e] /\ ~Joins(e)'
    <3>1. Sleeps(e) /\ e \in exec_table /\ waiting[e] /\ ~Joins(e)
      BY <1>8, <2>2 DEF PendingInv
    <3>2. e \in Context /\ e # NULL
      BY <3>1, Names DEF TypeOK
    <3>3. e # joiner
      BY <1>6, <3>1, <3>2
    <3>4. ~Joins(e)'
      BY <2>1, <3>1, <3>2 DEF Joins
    <3>5. e # current
      BY <1>3, <3>1
    <3> QED BY <1>2, <1>7, <3>1, <3>2, <3>3, <3>4, <3>5
  <2>3. ASSUME NEW x \in Coro, NEW y \in Coro, join_table'[x] # NULL
        PROVE  /\ x \in exec_table'
               /\ join_table'[x] \in exec_table' /\ waiting'[join_table'[x]]
               /\ join_table'[y] = join_table'[x] => y = x
    <3>1. x # current /\ join_table'[x] = join_table[x] /\ join_table[x] # joiner
      BY <2>1, <2>3
    <3>2. /\ x \in exec_table
          /\ join_table[x] \in exec_table /\ waiting[join_table[x]]
          /\ join_table[y] = join_table[x] => y = x
      BY <2>3, <3>1 DEF PendingInv
    <3>3. join_table[x] \in Context /\ join_table[x] # current
      BY <1>5, <3>2, Names DEF TypeOK
    <3>4. join_table'[y] = join_table[x] => join_table[y] = join_table[x]
      BY <2>1, <2>3, <3>1
    <3>5. x \in exec_table' /\ join_table'[x] \in exec_table'
      BY <1>2, <3>1, <3>2, <3>3
    <3>6. waiting'[join_table'[x]]
      BY <1>7, <3>1, <3>2, <3>3
    <3> QED BY <3>1, <3>2, <3>4, <3>5, <3>6
  <2>4. ~waiting'[Sched] /\ ~waiting'[Main]
    BY <1>7, Names DEF PendingInv
  <2> QED BY <1>8, <2>2, <2>3, <2>4 DEF PendingInv
<1>10. TableInv'
  <2>1. IsFiniteSet(exec_table')
    BY <1>2, FS_Subset DEF TableInv
  <2>2. /\ deleting_coros \in Seq(Coro) /\ IsInjective(deleting_coros)
        /\ current \notin Range(deleting_coros)
    BY <1>3 DEF TableInv, TypeOK
  <2>3. /\ IsInjective(deleting_coros')
        /\ Range(deleting_coros') = Range(deleting_coros) \cup {current}
    BY <1>2, <2>2, InjectiveAppend, RangeAppend
  <2>4. {c \in Coro : mem'[c] = "live"} = exec_table \cup Range(deleting_coros)
    BY <1>2 DEF TableInv
  <2>5. coro_pool' = <<>>
    BY <1>2 DEF TableInv
  <2>6. Range(deleting_coros') \cap exec_table' = {}
    BY <1>2, <2>3 DEF TableInv
  <2>7. {c \in Coro : mem'[c] = "live"} = exec_table' \cup Range(deleting_coros')
    BY <1>2, <1>3, <2>3, <2>4
  <2> QED BY <2>1, <2>3, <2>5, <2>6, <2>7 DEF TableInv
<1>11. StartedInv'
  <2>1. direct' = NULL /\ coro_queue' = <<>>
    BY <1>2 DEF StartedInv
  <2>2. ASSUME NEW g \in Func
        PROVE  \/ life'[g] \in {"unused", "done"}
               \/ life'[g] = "running" /\ \E d \in exec_table' : func'[d] = g
    <3>1. CASE g = func[current]
      BY <1>2, <3>1 DEF TypeOK
    <3>2. CASE g # func[current]
      <4>1. life'[g] = life[g]
        BY <1>2, <3>2 DEF TypeOK
      <4>2. ASSUME NEW d \in exec_table, func[d] = g PROVE d \in exec_table' /\ func'[d] = g
        BY <1>2, <3>2, <4>2
      <4> QED BY <4>1, <4>2 DEF StartedInv
    <3> QED BY <3>1, <3>2
  <2> QED BY <2>1, <2>2 DEF StartedInv
<1> QED BY <1>2, <1>3, <1>7, <1>9, <1>10, <1>11

\* CheckTimeQueue wakes a sleeper
LEMMA WakeKept ==
  ASSUME ControlInv, InvokeDue, UNCHANGED dpc
  PROVE  /\ TurnInv' /\ PendingInv' /\ TableInv' /\ StartedInv'
         /\ UNCHANGED <<exec_table, deleting_coros, rpc>>
         /\ exec_table # {} /\ coro_stack' # <<>>
<1> USE DEF ControlInv
<1> DEFINE e == Head(coro_time_queue[due])
<1>1. /\ current = Sched /\ coro_time_queue[due] # <<>>
      /\ coro_time_queue' = [coro_time_queue EXCEPT ![due] = Tail(@)]
      /\ UNCHANGED <<join_table, coro_queue, create_coro, routineVars, now>>
      /\ \/ e \in Func
         \/ Resume(e, FALSE) /\ UNCHANGED <<coroVars, life, direct>>
  BY DEF InvokeDue, InRoutine
<1>2. /\ TimersOnce' /\ Sleeps(e)
      /\ \A x : Sleeps(x)' <=> Sleeps(x) /\ x # e
  BY <1>1, TimerPop DEF PendingInv
<1>3. e \in Func \cup Context
  <2>1. coro_time_queue[due] \in Seq(Func \cup Coro \cup {Sched})
    BY DEF TypeOK
  <2> QED BY <1>1, <2>1, HeadTail, Names
<1> HIDE DEF e
<1>4. e \in exec_table /\ waiting[e] /\ ~Joins(e)
  BY <1>2, <1>3 DEF PendingInv
<1>5. e \in Coro /\ e \in Context /\ e # Main /\ e # Sched /\ e # NULL /\ e \notin Func
  BY <1>4, Names DEF TypeOK
<1>6. Resume(e, FALSE) /\ UNCHANGED <<coroVars, life, direct>>
  BY <1>1, <1>5
<1>7. coro_stack # <<>> /\ current # NULL
  BY <1>1, <1>4, Current, Names
<1>8. Executing \subseteq Executing' /\ e \in Executing'
  BY <1>4, <1>6 DEF Executing, coroVars
<1>9. e \notin Ready
  BY <1>4 DEF Ready
<1>10. TurnInv' /\ waiting' = [waiting EXCEPT ![e] = FALSE]
  BY <1>1, <1>5, <1>6, <1>7, <1>8, <1>9, ResumeTurn
<1>11. coro_stack' # <<>>
  <2>1. coro_stack' = Append(coro_stack, Sched)
    BY <1>1, <1>6, <1>7, Current DEF Resume, ResumeFrom
  <2>2. coro_stack \in Seq(Context) /\ Sched \in Context
    BY Names DEF TypeOK
  <2>3. Len(coro_stack') # 0
    BY <2>1, <2>2, RangeAppend, RangeSeq
  <2> QED BY <2>3, Len(<<>>) = 0
<1>12. PendingInv'
  <2>1. \A c \in Context : c # e => waiting'[c] = waiting[c]
    BY <1>10 DEF TypeOK
  <2>2. \A x : Joins(x)' <=> Joins(x)
    BY <1>1 DEF Joins
  <2>3. ASSUME NEW x \in Func \cup Context, Sleeps(x)'
        PROVE  x \in exec_table' /\ waiting'[x] /\ ~Joins(x)'
    <3>1. x # e /\ x \in exec_table /\ waiting[x] /\ ~Joins(x)
      BY <1>2, <2>3 DEF PendingInv
    <3>2. x \in Context
      BY <3>1, Names DEF TypeOK
    <3> QED BY <1>6, <2>1, <2>2, <3>1, <3>2 DEF coroVars
  <2>4. ASSUME NEW x \in Coro, NEW y \in Coro, join_table'[x] # NULL
        PROVE  /\ x \in exec_table'
               /\ join_table'[x] \in exec_table' /\ waiting'[join_table'[x]]
               /\ join_table'[y] = join_table'[x] => y = x
    <3>1. /\ x \in exec_table
          /\ join_table[x] \in exec_table /\ waiting[join_table[x]]
          /\ join_table[y] = join_table[x] => y = x
      BY <1>1, <2>4 DEF PendingInv
    <3>2. join_table[x] # e /\ join_table[x] \in Context
      BY <1>4, <3>1, Names DEF Joins, TypeOK
    <3> QED BY <1>1, <1>6, <2>1, <3>1, <3>2 DEF coroVars
  <2>5. ~waiting'[Sched] /\ ~waiting'[Main]
    BY <1>5, <2>1, Names DEF PendingInv
  <2> QED BY <1>2, <2>3, <2>4, <2>5 DEF PendingInv
<1>13. TableInv' /\ StartedInv'
  BY <1>1, <1>6 DEF TableInv, StartedInv, coroVars
<1> QED BY <1>1, <1>4, <1>6, <1>10, <1>11, <1>12, <1>13 DEF coroVars, routineVars

\* CoroGC, and steps that touch neither the coroutines nor the calls, and wake
\* nobody
LEMMA QuietKept ==
  ASSUME ControlInv,
         UNCHANGED <<switchVars, func, exec_table, coro_pool, join_table, coro_queue, life,
                     direct>>,
         TimersOnce', \A e : Sleeps(e)' => Sleeps(e),
         Executing \subseteq Executing',
         \/ UNCHANGED <<mem, deleting_coros>>
         \/ mem' = Collected /\ deleting_coros' = <<>>
  PROVE  TurnInv' /\ PendingInv' /\ TableInv' /\ StartedInv'
<1> USE DEF ControlInv, switchVars
<1>1. TurnInv'
  <2>1. Ready \subseteq Ready'
    BY DEF Ready
  <2>2. PICK k \in 0 .. Len(coro_stack) :
          Turns(coro_stack, current, k) /\ Fresh(coro_stack, k) \subseteq Ready
    BY DEF TurnInv
  <2>3. \E l \in 0 .. Len(coro_stack') : Turns(coro_stack', current', l) /\ Fresh(coro_stack', l) \subseteq Ready'
    BY <2>1, <2>2
  <2> QED BY <2>1, <2>3 DEF TurnInv, Turns, Fresh
<1>2. PendingInv'
  <2>1. \A e : Joins(e)' <=> Joins(e)
    BY DEF Joins
  <2> QED BY <2>1 DEF PendingInv
<1>3. TableInv'
  <2>1. CASE UNCHANGED <<mem, deleting_coros>>
    BY <2>1 DEF TableInv
  <2>2. CASE mem' = Collected /\ deleting_coros' = <<>>
    <3>1. IsInjective(deleting_coros') /\ Range(deleting_coros') = {}
      BY <2>2, RangeEmpty DEF IsInjective
    <3>2. \A c \in Coro : mem'[c] = IF c \in Range(deleting_coros) THEN "freed" ELSE mem[c]
      BY <2>2 DEF Collected
    <3>3. exec_table \subseteq Coro
      BY DEF TypeOK
    <3>4. {c \in Coro : mem'[c] = "live"} = exec_table
      BY <3>2, <3>3 DEF TableInv
    <3> QED BY <3>1, <3>4 DEF TableInv
  <2> QED BY <2>1, <2>2
<1>4. StartedInv'
  BY DEF StartedInv
<1> QED BY <1>1, <1>2, <1>3, <1>4

\* ... or leave the time queue alone, too
LEMMA StillKept ==
  ASSUME ControlInv,
         UNCHANGED <<switchVars, func, exec_table, coro_pool, join_table, coro_queue,
                     coro_time_queue, life, direct>>,
         Executing \subseteq Executing',
         \/ UNCHANGED <<mem, deleting_coros>>
         \/ mem' = Collected /\ deleting_coros' = <<>>
  PROVE  TurnInv' /\ PendingInv' /\ TableInv' /\ StartedInv'
<1>1. TimersOnce' /\ \A e : Sleeps(e)' => Sleeps(e)
  BY TimerSame DEF ControlInv, PendingInv
<1> QED BY <1>1, QuietKept

\* CheckTimeQueue's erase: no call is in the bucket
LEMMA EraseKept ==
  ASSUME ControlInv, EraseBucket, UNCHANGED dpc
  PROVE  TurnInv' /\ PendingInv' /\ TableInv' /\ StartedInv'
<1> DEFINE gone == Range(coro_time_queue[due])
<1>1. /\ TypeOK /\ TimersOnce
      /\ \A e \in Func \cup Context : Sleeps(e) => e \in exec_table
      /\ due \in Time /\ exec_table \subseteq Coro
      /\ life \in [Func -> {"unused", "queued", "running", "done", "lost"}]
  BY DEF ControlInv, PendingInv, TypeOK
<1>2. /\ UNCHANGED <<switchVars, func, exec_table, coro_pool, join_table, coro_queue, direct,
                     mem, deleting_coros>>
      /\ coro_time_queue' = [coro_time_queue EXCEPT ![due] = <<>>]
      /\ life' = [f \in Func |-> IF f \in gone THEN "lost" ELSE life[f]]
  BY DEF EraseBucket, coroVars
<1> HIDE DEF gone
<1>3. \A f \in Func : f \notin gone
  <2>1. ASSUME NEW f \in Func, f \in gone PROVE Sleeps(f)
    <3>1. \E i \in DOMAIN coro_time_queue[due] : coro_time_queue[due][i] = f
      BY <2>1 DEF gone, Range
    <3> QED BY <1>1, <3>1 DEF Sleeps
  <2> QED BY <1>1, <2>1, Names
<1>4. life' = life
  BY <1>1, <1>2, <1>3
<1>5. TimersOnce' /\ \A e : Sleeps(e)' => Sleeps(e)
  BY <1>1, <1>2, TimerErase
<1>6. Executing \subseteq Executing'
  BY <1>2 DEF Executing
<1> QED BY <1>2, <1>4, <1>5, <1>6, QuietKept

-----------------------------------------------------------------------------
(* One lemma per part of the program *)

\* What the steps that only switch leave alone
LEMMA SwitchKept ==
  ASSUME ControlInv, TurnInv',
         UNCHANGED <<coroVars, join_table, coro_queue, coro_time_queue, life, direct>>,
         \A c \in Context : c # Sched => waiting'[c] = waiting[c],
         ~waiting'[Sched]
  PROVE  PendingInv' /\ TableInv' /\ StartedInv'
<1> USE DEF ControlInv, coroVars
<1>1. PendingInv'
  <2>1. TimersOnce' /\ \A e : Sleeps(e)' <=> Sleeps(e)
    BY TimerSame DEF PendingInv
  <2>2. \A e : Joins(e)' <=> Joins(e)
    BY DEF Joins
  <2>3. \A c \in exec_table : c \in Context /\ c # Sched
    BY Names DEF TypeOK
  <2>4. Main \in Context /\ Main # Sched
    BY Names
  <2> QED BY <2>1, <2>2, <2>3, <2>4 DEF PendingInv
<1>2. TableInv' /\ StartedInv'
  BY DEF TableInv, StartedInv
<1> QED BY <1>1, <1>2

LEMMA DriverKept == ControlInv /\ Driver => ControlInv'
<1> SUFFICES ASSUME ControlInv, Driver PROVE ControlInv'
  OBVIOUS
<1> USE DEF mainVars, coroVars, queueVars, routineVars, switchVars, postVars, vars
<1>0. /\ TypeOK /\ PlaceTypes /\ TurnInv /\ PendingInv /\ TableInv /\ StartedInv /\ PhaseInv
      /\ current \in Context \cup {NULL} /\ coro_stack \in Seq(Context)
      /\ waiting \in [Context -> BOOLEAN]
  BY DEF ControlInv, TypeOK
<1>1. CASE current = Sched /\ dpc = "loop" /\ route_running /\ dpc' = "routine"
           /\ UNCHANGED <<vars, mainVars, at>>
  <2>1. TypeOK' /\ PlaceTypes' /\ PhaseInv'
    BY <1>0, <1>1 DEF TypeOK, PlaceTypes, PhaseInv
  <2>2. Executing \subseteq Executing'
    BY <1>1 DEF Executing
  <2>3. TurnInv' /\ PendingInv' /\ TableInv' /\ StartedInv'
    BY <1>1, <2>2, StillKept
  <2> QED BY <2>1, <2>3 DEF ControlInv
<1>2. CASE current = Sched /\ dpc = "loop" /\ ~route_running /\ dpc' = "retired"
           /\ Yield(TRUE) /\ UNCHANGED <<coroVars, queueVars, routineVars, mainVars, at>>
  <2>1. /\ current \in Context /\ current # NULL /\ current # Main /\ ~waiting[Sched]
        /\ rpc # "run" /\ mpc # "start" /\ coro_stack # <<>>
    BY <1>0, <1>2, Names, Current DEF PhaseInv, PendingInv
  <2>2. YieldFrom(waiting, TRUE)
    BY <1>2 DEF Yield
  <2>3. current' \in Context /\ coro_stack' \in Seq(Context) /\ waiting' \in [Context -> BOOLEAN]
    BY <1>0, <2>2, YieldType
  <2>4. TypeOK'
    BY <1>0, <1>2, <2>1, <2>3, Names DEF TypeOK
  <2>5. Executing \ {current} \subseteq Executing'
    BY <1>2 DEF Executing
  <2>6. /\ TurnInv' /\ current' \in Ready \ {current}
        /\ \A c \in Context : c # current => waiting'[c] = waiting[c]
        /\ waiting'[current] = waiting[current]
    BY <1>0, <2>1, <2>2, <2>5, YieldTurn
  <2>7. PendingInv' /\ TableInv' /\ StartedInv'
    BY <1>2, <2>1, <2>6, SwitchKept
  <2>8. PlaceTypes'
    BY <1>0, <1>2 DEF PlaceTypes
  <2>9. coro_stack' # <<>>
    BY <1>0, <2>1, <2>2, <2>5, YieldTurn
  <2>10. PhaseInv'
    BY <1>0, <1>2, <2>1, <2>9 DEF PhaseInv
  <2> QED BY <2>4, <2>6, <2>7, <2>8, <2>10 DEF ControlInv
<1>3. CASE DriverRoutine
  <2>1. Routine /\ UNCHANGED <<mainVars, dpc, at>>
    BY <1>3 DEF DriverRoutine, Routine
  <2>2. TypeOK'
    BY <1>0, <2>1, TypeRoutine
  <2>3. PlaceTypes'
    BY <1>0, <2>1 DEF PlaceTypes
  <2>4. Executing \subseteq Executing' \/ InvokeDue
    BY <1>3 DEF DriverRoutine, RoutineBegin, QueueEmpty, LookUpBucket, OpenBucket, LeaveBucket,
                EraseBucket, Executing
  <2>5. TurnInv' /\ PendingInv' /\ TableInv' /\ StartedInv'
    <3>1. CASE InvokeDue
      BY <2>1, <3>1, WakeKept
    <3>2. CASE RoutineBegin
      BY <2>1, <3>2, StillKept DEF RoutineBegin, Executing
    <3>3. CASE QueueEmpty \/ LookUpBucket \/ OpenBucket \/ LeaveBucket
      BY <2>1, <3>3, StillKept DEF QueueEmpty, LookUpBucket, OpenBucket, LeaveBucket, Executing
    <3>4. CASE EraseBucket
      BY <2>1, <3>4, EraseKept
    <3> QED BY <1>3, <3>1, <3>2, <3>3, <3>4 DEF DriverRoutine
  <2>6. PhaseInv'
    <3>1. CASE InvokeDue
      BY <1>0, <2>1, <3>1, WakeKept DEF PhaseInv
    <3>2. CASE \/ RoutineBegin \/ QueueEmpty \/ LookUpBucket \/ OpenBucket \/ LeaveBucket
               \/ EraseBucket
      <4>1. /\ rpc # "run" /\ rpc' # "run"
            /\ UNCHANGED <<coro_stack, exec_table>>
            /\ UNCHANGED deleting_coros \/ deleting_coros' = <<>>
        BY <3>2 DEF RoutineBegin, QueueEmpty, LookUpBucket, OpenBucket, LeaveBucket, EraseBucket,
                    InRoutine
      <4> QED BY <1>0, <2>1, <4>1 DEF PhaseInv
    <3> QED BY <1>3, <3>1, <3>2 DEF DriverRoutine
  <2> QED BY <2>2, <2>3, <2>5, <2>6 DEF ControlInv
<1>4. CASE DriverRoutineEnds
  <2>1. (NoTimers \/ NothingDue) /\ dpc = "routine" /\ dpc' = "yield" /\ UNCHANGED <<mainVars, at>>
    BY <1>4 DEF DriverRoutineEnds
  <2>2. TypeOK'
    BY <1>0, <2>1, TypeRoutine DEF Routine
  <2>3. PlaceTypes' /\ PhaseInv'
    BY <1>0, <2>1 DEF PlaceTypes, PhaseInv, NoTimers, NothingDue, InRoutine
  <2>4. Executing \subseteq Executing'
    BY <2>1 DEF Executing, NoTimers, NothingDue
  <2>5. TurnInv' /\ PendingInv' /\ TableInv' /\ StartedInv'
    BY <2>1, <2>4, StillKept DEF NoTimers, NothingDue
  <2> QED BY <2>2, <2>3, <2>5 DEF ControlInv
<1>5. CASE DriverYield
  <2>1. /\ current = Sched /\ dpc = "yield" /\ dpc' = "loop" /\ Yield(FALSE)
        /\ UNCHANGED <<coroVars, queueVars, routineVars, mainVars, at>>
    BY <1>5 DEF DriverYield
  <2>2. /\ ~waiting[Sched] /\ ~waiting[Main] /\ rpc # "run"
    BY <1>0, <2>1, Names, Current DEF PendingInv
  <2>3. current' \in Context /\ coro_stack' \in Seq(Context) /\ waiting' \in [Context -> BOOLEAN]
    BY <1>0, <2>1, YieldType DEF Yield
  <2>4. TypeOK'
    BY <1>0, <2>1, <2>2, <2>3, Names DEF TypeOK
  <2>5. Executing \subseteq Executing'
    BY <2>1 DEF Executing
  <2>6. TurnInv' /\ waiting' = waiting
    BY <1>0, <2>1, <2>2, <2>5, DriverTurn
  <2>7. PendingInv' /\ TableInv' /\ StartedInv'
    BY <2>1, <2>2, <2>6, SwitchKept
  <2>8. PlaceTypes'
    BY <1>0, <2>1 DEF PlaceTypes
  <2>9. coro_stack' # <<>>
    BY <1>0, <2>1, DriverTurn, <2>5
  <2>10. PhaseInv'
    BY <1>0, <2>1, <2>9 DEF PhaseInv
  <2> QED BY <2>4, <2>6, <2>7, <2>8, <2>10 DEF ControlInv
<1> QED
  BY <1>1, <1>2, <1>3, <1>4, <1>5 DEF Driver, DriverLoop

LEMMA TestsKept == ControlInv /\ Tests => ControlInv'
<1> SUFFICES ASSUME ControlInv, Tests PROVE ControlInv'
  OBVIOUS
<1> USE DEF mainVars
<1>0. /\ TypeOK /\ PlaceTypes /\ TurnInv /\ PendingInv /\ TableInv /\ StartedInv /\ PhaseInv
  BY DEF ControlInv
<1>1. PICK f \in Func : TestSleep(f) \/ TestStart(f) \/ TestJoin(f) \/ TestReturn(f)
  BY DEF Tests
<1>2. f[2] \in {"test", "sub"} /\ Sub(f) \in Func
  BY DEF TestCalls, Sub
<1>3. current \in Coro /\ UNCHANGED <<mainVars, dpc>> /\ rpc' = rpc
  BY <1>1 DEF TestSleep, TestStart, TestJoin, TestReturn, Goto, CoroSleep, CallStartCoro, Join,
              CoroDone, routineVars
<1>4. current # NULL /\ current \in exec_table /\ coro_stack # <<>> /\ rpc # "run" /\ mpc # "start"
  BY <1>3, Names, Current
<1>5. PlaceTypes'
  <2>1. at' \in [Func -> {"unused", "sleep", "start", "join", "return", "done"}]
    BY <1>0, <1>1, <1>2 DEF TestSleep, TestStart, TestJoin, TestReturn, Goto, PlaceTypes
  <2> QED BY <1>0, <1>3, <2>1 DEF PlaceTypes
<1>6. TypeOK'
  <2>1. CASE TestSleep(f)
    BY <1>0, <2>1, TypeFunction DEF TestSleep, Function
  <2>2. CASE TestStart(f)
    BY <1>0, <1>2, <2>2, TypeFunction DEF TestStart, Function
  <2>3. CASE TestJoin(f)
    BY <1>0, <2>3, TypeFunction DEF TestJoin, Function
  <2>4. CASE TestReturn(f)
    BY <1>0, <1>3, <2>4, TypeFunction DEF TestReturn, Function
  <2> QED BY <1>1, <2>1, <2>2, <2>3, <2>4
<1>7. /\ TurnInv' /\ PendingInv' /\ TableInv' /\ StartedInv' /\ coro_stack' # <<>>
      /\ exec_table' = {} \/ route_running
  <2>0. route_running
    BY <1>0, <1>4 DEF PhaseInv
  <2>1. CASE TestSleep(f)
    BY <1>3, <2>0, <2>1, SleepKept DEF TestSleep
  <2>2. CASE TestStart(f)
    <3>1. /\ StartCoro(Sub(f))
          /\ UNCHANGED <<join_table, coro_queue, coro_time_queue, direct, dpc>>
      BY <1>3, <2>2 DEF TestStart, CallStartCoro
    <3> QED BY <1>2, <1>4, <2>0, <3>1, StartKept
  <2>3. CASE TestJoin(f)
    BY <1>3, <2>0, <2>3, JoinKept DEF TestJoin
  <2>4. CASE TestReturn(f)
    BY <1>3, <2>0, <2>4, DoneKept DEF TestReturn
  <2> QED BY <1>1, <2>1, <2>2, <2>3, <2>4
<1>8. PhaseInv'
  BY <1>0, <1>3, <1>4, <1>7 DEF PhaseInv, PlaceTypes
<1> QED BY <1>5, <1>6, <1>7, <1>8 DEF ControlInv

\* Main resumes the driver.
LEMMA MainResumes ==
  ASSUME ControlInv, current = Main, dpc \in {"loop", "routine", "yield"}, Resume(Sched, FALSE),
         UNCHANGED <<coroVars, queueVars, routineVars, dpc>>
  PROVE  TypeOK' /\ TurnInv' /\ PendingInv' /\ TableInv' /\ StartedInv' /\ coro_stack' # <<>>
<1> USE DEF coroVars, queueVars, routineVars, postVars
<1>1. TypeOK /\ TurnInv /\ ~waiting[Sched] /\ waiting \in [Context -> BOOLEAN]
  BY DEF ControlInv, PendingInv, TypeOK
<1>2. current # NULL /\ coro_stack # <<>> /\ rpc # "run"
  BY Names, Current
<1>3. Executing \subseteq Executing' /\ Sched \in Executing'
  BY DEF Executing
<1>4. /\ TurnInv' /\ coro_stack' # <<>>
      /\ current' = Sched
      /\ waiting' = [waiting EXCEPT ![Sched] = FALSE]
  BY <1>1, <1>2, <1>3, Names, ResumeTurn
<1>5. TypeOK'
  <2>1. /\ current' \in Context /\ coro_stack' \in Seq(Context)
        /\ waiting' \in [Context -> BOOLEAN]
    BY <1>1, Names, ResumeType DEF Resume, TypeOK
  <2> QED BY <1>1, <1>2, <1>4, <2>1, Names DEF TypeOK
<1>6. PendingInv' /\ TableInv' /\ StartedInv'
  <2>1. (\A c \in Context : c # Sched => waiting'[c] = waiting[c]) /\ ~waiting'[Sched]
    BY <1>1, <1>4, Names
  <2> QED BY <1>4, <2>1, SwitchKept
<1> QED BY <1>4, <1>5, <1>6

\* What main counts
LEMMA Counted ==
  ASSUME TypeOK, TableInv
  PROVE  /\ Cardinality(exec_table) \in Nat /\ Len(deleting_coros) \in Nat
         /\ Cardinality(exec_table) = 0 <=> exec_table = {}
         /\ Len(deleting_coros) = 0 => deleting_coros = <<>>
<1>1. IsFiniteSet(exec_table) /\ deleting_coros \in Seq(Coro)
  BY DEF TypeOK, TableInv
<1>2. Cardinality(exec_table) \in Nat /\ (Cardinality(exec_table) = 0 <=> exec_table = {})
  BY <1>1, FS_CardinalityType, FS_EmptySet
<1>3. Len(deleting_coros) \in Nat /\ (Len(deleting_coros) = 0 => deleting_coros = <<>>)
  BY <1>1, HeadTail, RangeSeq
<1> QED BY <1>2, <1>3

LEMMA MainKept == ControlInv /\ MainProgram => ControlInv'
<1> SUFFICES ASSUME ControlInv, MainProgram PROVE ControlInv'
  OBVIOUS
<1> USE DEF mainVars, coroVars, queueVars, routineVars, switchVars, postVars, vars
<1>0. /\ TypeOK /\ PlaceTypes /\ TurnInv /\ PendingInv /\ TableInv /\ StartedInv /\ PhaseInv
  BY DEF ControlInv
<1>1. CASE MainStart
  <2>1. /\ mpc = "start" /\ mpc' = "first" /\ rpc' = "begin" /\ dpc' = "loop"
        /\ Resume(Sched, FALSE)
        /\ UNCHANGED <<coroVars, queueVars, due, burst, route_running, at>>
    BY <1>1 DEF MainStart
  <2>2. /\ current = NULL /\ coro_stack = <<>> /\ exec_table = {} /\ dpc = "unborn" /\ burst > 0
        /\ route_running
    BY <1>0, <2>1 DEF TypeOK, TurnInv, PhaseInv
  <2>3. /\ current' = Sched /\ coro_stack' = <<>>
        /\ waiting' = [waiting EXCEPT ![Sched] = FALSE]
    BY <2>1, <2>2 DEF Resume, ResumeFrom
  <2>4. /\ waiting' \in [Context -> BOOLEAN] /\ coro_stack' \in Seq(Context)
        /\ ~waiting'[Sched] /\ \A c \in Context : c # Sched => waiting'[c] = waiting[c]
    BY <1>0, <2>3, Names DEF TypeOK
  <2>5. TypeOK'
    BY <1>0, <2>1, <2>3, <2>4, Names DEF TypeOK
  <2>6. TurnInv'
    <3>1. Sched \in Ready'
      BY <2>1, <2>4 DEF Ready, Executing
    <3>2. Len(coro_stack') = 0
      BY <2>3, Len(<<>>) = 0
    <3>3. 0 \in 0 .. Len(coro_stack') /\ \A i \in 0 + 1 .. Len(coro_stack') : FALSE
      BY <3>2
    <3>4. Fresh(coro_stack', 0) = {} /\ \A i \in 1 .. 0 : FALSE
      BY <3>3 DEF Fresh
    <3>5. Turns(coro_stack', Sched, 0)
      BY <2>3, <3>2, <3>3, <3>4, Names DEF Turns
    <3>6. \E l \in 0 .. Len(coro_stack') : Turns(coro_stack', current', l) /\ Fresh(coro_stack', l) \subseteq Ready'
      BY <2>3, <3>3, <3>4, <3>5
    <3> QED BY <2>1, <2>2, <2>3, <3>1, <3>6, Names DEF TurnInv, Turns, Fresh
  <2>7. PendingInv' /\ TableInv' /\ StartedInv'
    BY <2>1, <2>4, <2>6, SwitchKept
  <2>8. PlaceTypes' /\ PhaseInv'
    BY <1>0, <2>1, <2>2 DEF PlaceTypes, PhaseInv
  <2> QED BY <2>5, <2>6, <2>7, <2>8 DEF ControlInv
<1>2. ASSUME NEW f \in Func, MainStartTest(f) PROVE ControlInv'
  <2>1. /\ current = Main /\ mpc \in {"first", "burst"}
        /\ burst' = burst - 1
        /\ mpc' = IF burst > 1 THEN mpc ELSE IF mpc = "first" THEN "resume" ELSE "check"
        /\ at' = [at EXCEPT ![f] = "sleep"]
        /\ StartCoro(f)
        /\ UNCHANGED <<join_table, coro_queue, coro_time_queue, create_coro, routineVars, direct,
                       now, postVars, route_running, dpc>>
    BY <1>2 DEF MainStartTest, InMain
  <2>2. current # NULL /\ coro_stack # <<>> /\ rpc # "run"
    BY <2>1, Names, Current
  <2>3. TypeOK'
    BY <1>0, <2>1, <2>2, Names, StartCoroType DEF TypeOK
  <2>4. /\ TurnInv' /\ PendingInv' /\ TableInv' /\ StartedInv' /\ coro_stack' # <<>>
        /\ deleting_coros' = <<>>
    BY <2>1, <2>2, StartKept
  <2>5. burst \in Nat /\ burst > 0 /\ burst <= Burst /\ Burst \in Nat
    BY <1>0, <2>1 DEF PlaceTypes, PhaseInv
  <2>6. /\ burst' \in 0 .. Burst
        /\ mpc' \in {"first", "burst"} => burst' > 0
        /\ mpc' \in {"first", "burst", "resume", "check"}
    BY <2>1, <2>5
  <2>7. PlaceTypes'
    BY <1>0, <2>1, <2>6 DEF PlaceTypes
  <2>8. PhaseInv'
    BY <1>0, <2>1, <2>2, <2>4, <2>6 DEF PhaseInv
  <2> QED BY <2>3, <2>4, <2>7, <2>8 DEF ControlInv
<1>3. CASE MainResume
  <2>1. /\ current = Main /\ mpc = "resume" /\ mpc' = "usleep" /\ Resume(Sched, FALSE)
        /\ UNCHANGED <<coroVars, queueVars, routineVars, burst, route_running, dpc, at>>
    BY <1>3 DEF MainResume, InMain
  <2>2. dpc \in {"loop", "routine", "yield"}
    BY <1>0, <2>1 DEF PlaceTypes, PhaseInv
  <2>3. TypeOK' /\ TurnInv' /\ PendingInv' /\ TableInv' /\ StartedInv' /\ coro_stack' # <<>>
    BY <2>1, <2>2, MainResumes
  <2>4. PlaceTypes' /\ PhaseInv'
    BY <1>0, <2>1, <2>3 DEF PlaceTypes, PhaseInv
  <2> QED BY <2>3, <2>4 DEF ControlInv
<1>4. CASE MainSleep
  <2>1. /\ current = Main /\ mpc = "usleep" /\ now < MaxTime /\ now' = now + 1
        /\ \/ mpc' = "check" /\ UNCHANGED burst
           \/ mpc' = "burst" /\ burst' = Burst
        /\ UNCHANGED <<switchVars, coroVars, join_table, coro_queue, coro_time_queue, create_coro,
                       life, routineVars, direct, postVars, route_running, dpc, at>>
    BY <1>4 DEF MainSleep, InMain
  <2>2. TypeOK'
    <3>1. now \in 0 .. MaxTime /\ MaxTime \in Nat
      BY <1>0 DEF TypeOK, Time
    <3>2. now' \in Time
      BY <2>1, <3>1 DEF Time
    <3> QED BY <1>0, <2>1, <3>2 DEF TypeOK
  <2>3. Executing \subseteq Executing'
    BY <2>1 DEF Executing
  <2>4. TurnInv' /\ PendingInv' /\ TableInv' /\ StartedInv'
    BY <2>1, <2>3, StillKept
  <2>5. PlaceTypes' /\ PhaseInv'
    BY <1>0, <2>1 DEF PlaceTypes, PhaseInv
  <2> QED BY <2>2, <2>4, <2>5 DEF ControlInv
<1>5. CASE MainCheck
  <2>1. /\ current = Main /\ mpc = "check"
        /\ \/ /\ GetCoroNum = 1 /\ route_running' = FALSE /\ mpc' = "drain"
              /\ Resume(Sched, FALSE)
           \/ mpc' = "resume" /\ UNCHANGED <<switchVars, route_running>>
        /\ UNCHANGED <<coroVars, queueVars, routineVars, burst, dpc, at>>
    BY <1>5 DEF MainCheck, InMain
  <2>2. dpc \in {"loop", "routine", "yield"}
    BY <1>0, <2>1 DEF PlaceTypes, PhaseInv
  <2>3. CASE mpc' = "resume"
    <3>1. TypeOK' /\ Executing \subseteq Executing'
      BY <1>0, <2>1, <2>3 DEF TypeOK, Executing
    <3>2. TurnInv' /\ PendingInv' /\ TableInv' /\ StartedInv'
      BY <2>1, <2>3, <3>1, StillKept
    <3>3. PlaceTypes' /\ PhaseInv'
      BY <1>0, <2>1, <2>3 DEF PlaceTypes, PhaseInv
    <3> QED BY <3>1, <3>2, <3>3 DEF ControlInv
  <2>4. CASE mpc' = "drain"
    <3>1. TypeOK' /\ TurnInv' /\ PendingInv' /\ TableInv' /\ StartedInv' /\ coro_stack' # <<>>
      BY <2>1, <2>2, <2>4, MainResumes
    <3>2. exec_table = {}
      <4>1. GetCoroNum = 1 /\ DriverNum = 1
        BY <2>1, <2>2, <2>4 DEF DriverNum
      <4>2. Cardinality(exec_table) = 0
        BY <1>0, <4>1, Counted DEF GetCoroNum
      <4> QED BY <1>0, <4>2, Counted
    <3>3. PlaceTypes' /\ PhaseInv'
      BY <1>0, <2>1, <2>4, <3>1, <3>2 DEF PlaceTypes, PhaseInv
    <3> QED BY <3>1, <3>3 DEF ControlInv
  <2> QED BY <2>1, <2>3, <2>4
<1>6. CASE MainDrain
  <2>1. /\ current = Main /\ mpc = "drain"
        /\ mem' = Collected /\ deleting_coros' = <<>>
        /\ dpc' = IF dpc = "retired" THEN "freed" ELSE dpc
        /\ UNCHANGED <<switchVars, func, exec_table, exec_coro_num, coro_pool, queueVars,
                       routineVars, mainVars, at>>
    BY <1>6 DEF MainDrain, InMain
  <2>2. TypeOK'
    BY <1>0, <2>1 DEF TypeOK, Collected
  <2>3. Executing \subseteq Executing'
    BY <2>1 DEF Executing
  <2>4. TurnInv' /\ PendingInv' /\ TableInv' /\ StartedInv'
    BY <2>1, <2>3, StillKept
  <2>5. PlaceTypes' /\ PhaseInv'
    BY <1>0, <2>1 DEF PlaceTypes, PhaseInv
  <2> QED BY <2>2, <2>4, <2>5 DEF ControlInv
<1>7. CASE MainEnd
  <2>1. /\ current = Main /\ mpc = "drain" /\ GetCoroNum = 0 /\ mpc' = "end"
        /\ UNCHANGED <<vars, burst, route_running, dpc, at>>
    BY <1>7 DEF MainEnd, InMain
  <2>2. TypeOK' /\ Executing \subseteq Executing'
    BY <1>0, <2>1 DEF TypeOK, Executing
  <2>3. TurnInv' /\ PendingInv' /\ TableInv' /\ StartedInv'
    BY <2>1, <2>2, StillKept
  <2>4. dpc = "freed" /\ deleting_coros = <<>>
    <3>1. DriverNum = 0 /\ Len(deleting_coros) = 0
      BY <1>0, <2>1, Counted DEF GetCoroNum, DriverNum
    <3> QED BY <1>0, <2>1, <3>1, Counted DEF DriverNum, PhaseInv
  <2>5. PlaceTypes' /\ PhaseInv'
    BY <1>0, <2>1, <2>4 DEF PlaceTypes, PhaseInv
  <2> QED BY <2>2, <2>3, <2>5 DEF ControlInv
<1> QED BY <1>1, <1>2, <1>3, <1>4, <1>5, <1>6, <1>7 DEF MainProgram

LEMMA ControlStart == EmbeddedInit => ControlInv
<1> SUFFICES ASSUME EmbeddedInit PROVE ControlInv
  OBVIOUS
<1>1. TypeOK
  BY TypeInit DEF EmbeddedInit
<1>2. /\ Init /\ mpc = "start" /\ burst = 1 /\ route_running = TRUE /\ dpc = "unborn"
      /\ at = [f \in Func |-> "unused"]
  BY DEF EmbeddedInit
<1>3. PlaceTypes
  BY <1>2 DEF PlaceTypes
<1>4. TurnInv
  <2>1. current = NULL /\ coro_stack = <<>> /\ Len(coro_stack) = 0 /\ exec_table = {}
    BY <1>2, Len(<<>>) = 0 DEF Init, SwitchInit
  <2>2. 0 \in 0 .. Len(coro_stack) /\ \A i \in 0 + 1 .. Len(coro_stack) : FALSE
    BY <2>1
  <2>3. Fresh(coro_stack, 0) = {} /\ \A i \in 1 .. 0 : FALSE
    BY <2>2 DEF Fresh
  <2>4. Turns(coro_stack, current, 0)
    BY <2>1, <2>2, <2>3, Names DEF Turns
  <2> QED BY <2>1, <2>2, <2>3, <2>4 DEF TurnInv
<1>5. PendingInv
  <2>1. \A t \in Time : DOMAIN coro_time_queue[t] = {}
    BY <1>2 DEF Init
  <2>2. TimersOnce /\ \A e : ~Sleeps(e)
    BY <2>1 DEF TimersOnce, Sleeps
  <2>3. ~waiting[Sched] /\ ~waiting[Main] /\ \A x \in Coro : join_table[x] = NULL
    BY <1>2, Names DEF Init, SwitchInit
  <2> QED BY <2>2, <2>3 DEF PendingInv
<1>6. TableInv
  <2>1. deleting_coros = <<>> /\ exec_table = {} /\ coro_pool = <<>>
        /\ \A c \in Coro : mem[c] = "unborn"
    BY <1>2 DEF Init
  <2> QED BY <2>1, FS_EmptySet, RangeEmpty DEF TableInv, IsInjective
<1>7. StartedInv /\ PhaseInv
  BY <1>2 DEF Init, SwitchInit, StartedInv, PhaseInv
<1> QED BY <1>1, <1>3, <1>4, <1>5, <1>6, <1>7 DEF ControlInv

LEMMA ControlNext == ControlInv /\ [EmbeddedNext]_allVars => ControlInv'
<1> SUFFICES ASSUME ControlInv, [EmbeddedNext]_allVars PROVE ControlInv'
  OBVIOUS
<1>0. /\ TypeOK /\ PlaceTypes /\ TurnInv /\ PendingInv /\ TableInv /\ StartedInv /\ PhaseInv
  BY DEF ControlInv
<1>1. CASE MainProgram \/ Driver \/ Tests
  BY <1>1, MainKept, DriverKept, TestsKept
<1>2. CASE TickEarly \/ UNCHANGED allVars
  <2>1. /\ now' \in Time
        /\ UNCHANGED <<switchVars, coroVars, join_table, coro_queue, coro_time_queue, create_coro,
                       life, routineVars, direct, postVars, mainVars, dpc, at>>
    <3>1. now \in 0 .. MaxTime /\ MaxTime \in Nat
      BY <1>0 DEF TypeOK, Time
    <3>2. CASE TickEarly
      <4>1. now' \in Time
        BY <3>1, <3>2 DEF TickEarly, Tick, Time
      <4> QED BY <3>2, <4>1 DEF TickEarly, Tick
    <3>3. CASE UNCHANGED allVars
      BY <3>1, <3>3 DEF Time, allVars, vars
    <3> QED BY <1>2, <3>2, <3>3
  <2> USE DEF switchVars, coroVars, routineVars, postVars, mainVars
  <2>2. TypeOK' /\ Executing \subseteq Executing'
    BY <1>0, <2>1 DEF TypeOK, Executing
  <2>3. TurnInv' /\ PendingInv' /\ TableInv' /\ StartedInv'
    BY <2>1, <2>2, StillKept
  <2>4. PlaceTypes' /\ PhaseInv'
    BY <1>0, <2>1 DEF PlaceTypes, PhaseInv
  <2> QED BY <2>2, <2>3, <2>4 DEF ControlInv
<1> QED BY <1>1, <1>2 DEF EmbeddedNext, Thread

-----------------------------------------------------------------------------
(* The memory of the stacks *)

\* A set of numbers has a least one.
LEMMA LeastIn ==
  ASSUME NEW S \in SUBSET Nat, S # {}
  PROVE  Min(S) \in S
<1> DEFINE R == OpToRel(<, Nat)
<1>1. \A x, y \in Nat : <<y, x>> \in R <=> y < x
  BY DEF OpToRel
<1>2. IsWellFoundedOn(R, Nat)
  BY NatLessThanWellFounded
<1> HIDE DEF R
<1>3. PICK x \in S : \A y \in S : ~ (<<y, x>> \in R)
  BY <1>2, WFMin
<1>4. ASSUME NEW y \in S PROVE x =< y
  <2>1. x \in Nat /\ y \in Nat /\ ~ (<<y, x>> \in R)
    BY <1>3
  <2>2. ~ (y < x)
    BY <1>1, <2>1
  <2> QED BY <2>1, <2>2
<1> QED BY <1>4 DEF Min

\* A stack has at least one page.
LEMMA SomePages == PagesFor(MaxStackSize) \in Nat \ {0}
<1> DEFINE words == IF MaxStackSize = 0 THEN DefaultSize ELSE MaxStackSize
<1>1. words \in Nat \ {0} /\ WordSize \in Nat \ {0} /\ PageSize \in Nat \ {0}
  OBVIOUS
<1>2. PagesFor(MaxStackSize) = (words * WordSize + PageSize - 1) \div PageSize
  BY DEF PagesFor
<1> HIDE DEF words
<1>3. words * WordSize \in Nat \ {0}
  BY <1>1
<1>4. PICK bytes \in Nat \ {0} : bytes = words * WordSize
  BY <1>3
<1>5. (bytes + PageSize - 1) \div PageSize \in Nat \ {0}
  BY <1>1
<1> QED BY <1>2, <1>4, <1>5

\* What coro_stack_alloc returns
LEMMA NewStack ==
  ASSUME NEW mapped, NEW s, s = Allocated(mapped, MaxStackSize)
  PROVE  /\ s \in [sptr : {0} \cup Page, ssze : Nat]
         /\ Area(s) \subseteq Page \ mapped
         /\ s.sptr = 0 <=> s.sptr + s.ssze - 1 \notin Page
<1> DEFINE n == PagesFor(MaxStackSize)
           room == {p \in Page : p .. (p + GuardPages + n - 1) \subseteq Page \ mapped}
<1>1. n \in Nat \ {0} /\ n < FirstPage /\ GuardPages \in Nat /\ FirstPage \in Nat \ {0}
      /\ LastPage \in Nat
  BY SomePages
<1>2. s = [sptr |-> IF room = {} THEN 0 ELSE Min(room) + GuardPages, ssze |-> n]
  BY DEF Allocated
<1>3. s.ssze = n /\ s.sptr = IF room = {} THEN 0 ELSE Min(room) + GuardPages
  BY <1>2
<1>4. CASE room = {}
  <2>1. s.sptr = 0
    BY <1>3, <1>4
  <2>2. 0 + n - 1 \notin Page
    BY <1>1 DEF Page
  <2> QED BY <1>1, <1>2, <1>3, <2>1, <2>2 DEF Area, Body, Guard
<1>5. CASE room # {}
  <2>1. room \subseteq Nat
    BY <1>1 DEF Page
  <2>2. PICK p \in room : p = Min(room)
    BY <1>5, <2>1, LeastIn
  <2>3. p \in Page /\ p \in Nat \ {0} /\ p .. (p + GuardPages + n - 1) \subseteq Page \ mapped
    BY <1>1, <2>2 DEF Page
  <2> HIDE DEF room, n
  <2>4. s.sptr = p + GuardPages
    BY <1>3, <1>5, <2>2
  <2>5. p + GuardPages \in p .. (p + GuardPages + n - 1)
        /\ p + GuardPages + n - 1 \in p .. (p + GuardPages + n - 1)
    BY <1>1, <2>3
  <2>6. s.sptr \in Page /\ s.sptr # 0 /\ s.sptr + s.ssze - 1 \in Page
    BY <1>1, <1>3, <2>3, <2>4, <2>5
  <2>7. Area(s) \subseteq p .. (p + GuardPages + n - 1)
    <3>1. Body(s) = (p + GuardPages) .. (p + GuardPages + n - 1)
      BY <1>3, <2>4, <2>6 DEF Body
    <3>2. Guard(s) = (s.sptr - GuardPages) .. (s.sptr - 1)
      BY <2>6 DEF Guard
    <3>3. \A q \in Body(s) : q \in p .. (p + GuardPages + n - 1)
      BY <1>1, <2>3, <3>1
    <3>4. \A q \in Guard(s) : q \in p .. (p + GuardPages + n - 1)
      BY <1>1, <2>3, <2>4, <3>2
    <3> QED BY <3>3, <3>4 DEF Area
  <2>8. s \in [sptr : {0} \cup Page, ssze : Nat]
    BY <1>1, <1>2, <1>3, <2>6
  <2> QED BY <2>3, <2>6, <2>7, <2>8
<1> QED BY <1>4, <1>5

\* coro_stack_free, for the stacks of the coroutines D
LEMMA LayoutFree ==
  ASSUME NEW st, NEW u, NEW g, Layout(st, u, g), NEW D \in SUBSET Owner,
         NEW gone, gone = Unmapped({st[x] : x \in D}),
         NEW left, left = [x \in Owner |-> IF x \in D THEN NoStack ELSE st[x]]
  PROVE  Layout(left, u \ gone, g \ gone)
<1>1. /\ NoStack \in [sptr : {0} \cup Page, ssze : Nat]
      /\ Body(NoStack) = {} /\ Guard(NoStack) = {} /\ Area(NoStack) = {}
  BY DEF NoStack, Body, Guard, Area
<1>2. \A x \in Owner : left[x] = IF x \in D THEN NoStack ELSE st[x]
  OBVIOUS
<1>3. left \in [Owner -> [sptr : {0} \cup Page, ssze : Nat]]
  BY <1>1 DEF Layout
<1>4. \A x \in Owner : Area(left[x]) \subseteq Area(st[x])
  BY <1>1, <1>2
<1>5. \A x \in D : \A p \in Area(st[x]) : p \in gone
  BY DEF Unmapped, Area
<1>6. \A p \in gone : \E x \in D : p \in Area(st[x])
  BY DEF Unmapped, Area
<1>7. ASSUME NEW x \in Owner \ D PROVE Area(st[x]) \cap gone = {}
  BY <1>6 DEF Layout
<1>8. u \ gone = UNION {Body(left[x]) : x \in Owner}
  <2>1. ASSUME NEW p \in u \ gone PROVE \E x \in Owner : p \in Body(left[x])
    <3>1. PICK x \in Owner : p \in Body(st[x])
      BY DEF Layout
    <3>2. x \notin D
      BY <1>5, <3>1 DEF Area
    <3> QED BY <1>2, <3>1, <3>2
  <2>2. ASSUME NEW x \in Owner, NEW p \in Body(left[x]) PROVE p \in u \ gone
    <3>1. x \notin D /\ p \in Body(st[x]) /\ p \in Area(st[x])
      BY <1>1, <1>2 DEF Area
    <3>2. p \in u
      BY <3>1 DEF Layout
    <3> QED BY <1>7, <3>1, <3>2
  <2>3. \A p : p \in UNION {Body(left[x]) : x \in Owner} <=> \E x \in Owner : p \in Body(left[x])
    OBVIOUS
  <2> QED BY ONLY <2>1, <2>2, <2>3
<1>9. g \ gone = UNION {Guard(left[x]) : x \in Owner}
  <2>1. ASSUME NEW p \in g \ gone PROVE \E x \in Owner : p \in Guard(left[x])
    <3>1. PICK x \in Owner : p \in Guard(st[x])
      BY DEF Layout
    <3>2. x \notin D
      BY <1>5, <3>1 DEF Area
    <3> QED BY <1>2, <3>1, <3>2
  <2>2. ASSUME NEW x \in Owner, NEW p \in Guard(left[x]) PROVE p \in g \ gone
    <3>1. x \notin D /\ p \in Guard(st[x]) /\ p \in Area(st[x])
      BY <1>1, <1>2 DEF Area
    <3>2. p \in g
      BY <3>1 DEF Layout
    <3> QED BY <1>7, <3>1, <3>2
  <2>3. \A p : p \in UNION {Guard(left[x]) : x \in Owner} <=> \E x \in Owner : p \in Guard(left[x])
    OBVIOUS
  <2> QED BY ONLY <2>1, <2>2, <2>3
<1>10. /\ \A x \in Owner : Area(left[x]) \subseteq Page
       /\ \A x, y \in Owner : x # y => Area(left[x]) \cap Area(left[y]) = {}
  BY <1>4 DEF Layout
<1> QED BY <1>3, <1>8, <1>9, <1>10 DEF Layout

\* coro_stack_alloc, for coroutine c, on pages that nobody has
LEMMA LayoutAlloc ==
  ASSUME NEW st, NEW u, NEW g, Layout(st, u, g), NEW c \in Owner, st[c].sptr = 0,
         NEW s \in [sptr : {0} \cup Page, ssze : Nat], Area(s) \subseteq Page \ (u \cup g),
         NEW next, next = [st EXCEPT ![c] = s]
  PROVE  Layout(next, u \cup Body(s), g \cup Guard(s))
<1>1. st \in [Owner -> [sptr : {0} \cup Page, ssze : Nat]]
  BY DEF Layout
<1>2. /\ next \in [Owner -> [sptr : {0} \cup Page, ssze : Nat]]
      /\ next[c] = s
      /\ \A x \in Owner : x # c => next[x] = st[x]
  BY <1>1
<1>3. Body(st[c]) = {} /\ Guard(st[c]) = {}
  BY DEF Body, Guard
<1>4. ASSUME NEW x \in Owner PROVE Area(st[x]) \subseteq u \cup g
  BY DEF Layout, Area
<1>5. \A x \in Owner : Area(next[x]) \subseteq Page
  BY <1>2 DEF Layout
<1>6. ASSUME NEW x \in Owner, NEW y \in Owner, x # y PROVE Area(next[x]) \cap Area(next[y]) = {}
  <2>1. CASE x = c
    BY <1>2, <1>4, <1>6, <2>1
  <2>2. CASE y = c
    BY <1>2, <1>4, <1>6, <2>2
  <2>3. CASE x # c /\ y # c
    BY <1>2, <1>6, <2>3 DEF Layout
  <2> QED BY <2>1, <2>2, <2>3
<1>7. u \cup Body(s) = UNION {Body(next[x]) : x \in Owner}
  <2>1. u = UNION {Body(st[x]) : x \in Owner}
    BY DEF Layout
  <2> QED BY <1>2, <1>3, <2>1
<1>8. g \cup Guard(s) = UNION {Guard(next[x]) : x \in Owner}
  <2>1. g = UNION {Guard(st[x]) : x \in Owner}
    BY DEF Layout
  <2> QED BY <1>2, <1>3, <2>1
<1> QED BY <1>2, <1>5, <1>6, <1>7, <1>8 DEF Layout

\* What both do to the coroutines
LEMMA MemoryFree ==
  ASSUME MemoryInv, FreeStacks, Deleting \subseteq Owner, Deleting \subseteq Alive,
         Alive' = Alive \ Deleting
  PROVE  MemoryInv'
<1>1. PICK gone : gone = Unmapped({stack[x] : x \in Deleting})
  OBVIOUS
<1>2. DOMAIN stack = Owner /\ Layout(stack, used, guarded)
  BY DEF MemoryInv, Layout
<1>3. /\ stack' = [x \in Owner |-> IF x \in Deleting THEN NoStack ELSE stack[x]]
      /\ used' = used \ gone /\ guarded' = guarded \ gone /\ crashed' = crashed
  <2>1. Body(NoStack) = {} /\ Guard(NoStack) = {}
    BY DEF NoStack, Body, Guard
  <2> QED BY <1>1, <1>2, <2>1 DEF FreeStacks, FreeThenAlloc, CollectStacks
<1>4. Layout(stack', used', guarded')
  <2>1. Layout(stack, used, guarded) /\ Deleting \in SUBSET Owner
    BY <1>2
  <2>2. PICK left : left = [x \in Owner |-> IF x \in Deleting THEN NoStack ELSE stack[x]]
    OBVIOUS
  <2>3. Layout(left, used \ gone, guarded \ gone)
    BY ONLY <1>1, <2>1, <2>2, LayoutFree
  <2> QED BY ONLY <1>3, <2>2, <2>3
<1>5. \A x \in Owner : /\ stack'[x].sptr # 0 => x \in Alive'
                       /\ ~crashed' /\ x \in Alive' => stack'[x].sptr # 0
  BY <1>3 DEF MemoryInv, NoStack
<1> QED BY <1>3, <1>4, <1>5 DEF MemoryInv, Layout

LEMMA MemoryAlloc ==
  ASSUME MemoryInv, ~crashed, Deleting \subseteq Owner, Deleting \subseteq Alive,
         NEW c \in Owner, c \notin Alive, AllocStack(c),
         Alive' = (Alive \ Deleting) \cup {c}
  PROVE  MemoryInv'
<1>1. PICK gone : gone = Unmapped({stack[x] : x \in Deleting})
  OBVIOUS
<1>2. PICK left : left = [x \in Owner |-> IF x \in Deleting THEN NoStack ELSE stack[x]]
  OBVIOUS
<1>3. PICK s : s = Allocated((used \cup guarded) \ gone, MaxStackSize)
  OBVIOUS
<1>4. DOMAIN stack = Owner /\ Layout(stack, used, guarded) /\ stack[c].sptr = 0
  BY DEF MemoryInv, Layout
<1>5. /\ stack' = [left EXCEPT ![c] = s]
      /\ used' = (used \ gone) \cup Body(s) /\ guarded' = (guarded \ gone) \cup Guard(s)
      /\ crashed' = (s.sptr + s.ssze - 1 \notin Page)
  BY <1>1, <1>2, <1>3, <1>4 DEF AllocStack, FreeThenAlloc, CollectStacks
<1>6. Layout(left, used \ gone, guarded \ gone)
  <2>1. Layout(stack, used, guarded) /\ Deleting \in SUBSET Owner
    BY <1>4
  <2> QED BY ONLY <1>1, <1>2, <2>1, LayoutFree
<1>7. /\ s \in [sptr : {0} \cup Page, ssze : Nat]
      /\ Area(s) \subseteq Page \ ((used \ gone) \cup (guarded \ gone))
      /\ s.sptr = 0 <=> s.sptr + s.ssze - 1 \notin Page
  <2>1. (used \cup guarded) \ gone = (used \ gone) \cup (guarded \ gone)
    OBVIOUS
  <2> QED BY <1>3, <2>1, NewStack
<1>8. left[c].sptr = 0
  BY <1>2, <1>4
<1>9. Layout(stack', used', guarded')
  BY <1>5, <1>6, <1>7, <1>8, LayoutAlloc
<1>10. \A x \in Owner : stack'[x] = IF x = c THEN s ELSE IF x \in Deleting THEN NoStack ELSE stack[x]
  BY <1>2, <1>5
<1>11. crashed' \in BOOLEAN /\ (~crashed' => s.sptr # 0)
  BY <1>5, <1>7
<1>12. \A x \in Owner : /\ stack'[x].sptr # 0 => x \in Alive'
                        /\ ~crashed' /\ x \in Alive' => stack'[x].sptr # 0
  BY <1>10, <1>11 DEF MemoryInv, NoStack
<1> QED BY <1>9, <1>11, <1>12 DEF MemoryInv, Layout

LEMMA MemorySame ==
  ASSUME MemoryInv, UNCHANGED memVars, Alive' = Alive
  PROVE  MemoryInv'
BY DEF MemoryInv, Layout, memVars, pageVars

\* StartCoro deletes what is retired and gives the new coroutine a stack.
LEMMA MemoryStart ==
  ASSUME ControlInv, MemoryInv, ~crashed, NEW f \in Func, StartCoro(f), AllocStack(current'),
         current # NULL, coro_stack # <<>>, route_running,
         UNCHANGED <<join_table, coro_queue, coro_time_queue, direct, dpc>>
  PROVE  MemoryInv'
<1>1. PICK c \in Coro : /\ c \notin exec_table \cup Range(deleting_coros)
                        /\ exec_table' = exec_table \cup {c}
                        /\ deleting_coros' = <<>>
                        /\ current' = c
  BY StartKept
<1>2. AllocStack(c)
  BY <1>1
<1>3. /\ deleting_coros \in Seq(Coro) /\ exec_table \subseteq Coro
      /\ Range(deleting_coros) \cap exec_table = {} /\ dpc \in {"loop", "routine", "yield"}
  <2>1. mpc # "start" /\ dpc # "unborn"
    BY Current DEF ControlInv, PhaseInv
  <2> QED BY <2>1 DEF ControlInv, TypeOK, TableInv, PlaceTypes, PhaseInv
<1>4. Range(deleting_coros) \subseteq Coro
  BY <1>3, RangeSeq
<1>5. Deleting = Range(deleting_coros) /\ Deleting \subseteq Owner /\ Deleting \subseteq Alive
  BY <1>3, <1>4 DEF Deleting, Owner, Alive
<1>6. c \in Owner /\ c \notin Alive
  BY <1>1, Names DEF Owner, Alive
<1>7. Alive' = (Alive \ Deleting) \cup {c}
  <2>1. Alive' = exec_table \cup {c} \cup {Sched}
    BY <1>1, <1>3, RangeEmpty DEF Alive
  <2>2. Alive = exec_table \cup Range(deleting_coros) \cup {Sched}
    BY <1>3 DEF Alive
  <2> QED BY <1>3, <1>4, <1>5, <2>1, <2>2, Names
<1> QED BY <1>2, <1>5, <1>6, <1>7, MemoryAlloc

LEMMA MemoryNext == ControlInv /\ MemoryInv /\ [EmbeddedNext]_allVars => MemoryInv'
<1> SUFFICES ASSUME ControlInv, MemoryInv, [EmbeddedNext]_allVars PROVE MemoryInv'
  OBVIOUS
<1> USE DEF mainVars, coroVars, queueVars, routineVars, postVars, vars
<1>0. /\ deleting_coros \in Seq(Coro) /\ exec_table \subseteq Coro
      /\ Range(deleting_coros) \cap exec_table = {}
      /\ Range(deleting_coros) \subseteq Coro
  BY RangeSeq DEF ControlInv, TypeOK, TableInv
<1>1. Deleting \subseteq Owner /\ Deleting \subseteq Alive
  BY <1>0 DEF Deleting, Owner, Alive
<1>2. CASE ~crashed /\ MainProgram
  <2>1. CASE MainStart
    <3>1. /\ mpc = "start" /\ dpc' = "loop" /\ AllocStack(Sched)
          /\ UNCHANGED <<exec_table, deleting_coros>>
      BY <2>1 DEF MainStart
    <3>2. /\ deleting_coros = <<>> /\ dpc = "unborn" /\ exec_table = {}
      BY <3>1 DEF ControlInv, TypeOK, TurnInv, PhaseInv
    <3>3. Alive = {} /\ Alive' = {Sched}
      BY <3>1, <3>2, RangeEmpty DEF Alive
    <3>4. Sched \in Owner /\ Sched \notin Alive /\ Alive' = (Alive \ Deleting) \cup {Sched}
      BY <3>3 DEF Owner
    <3> QED BY <1>1, <1>2, <3>1, <3>4, MemoryAlloc
  <2>2. ASSUME NEW f \in Func, MainStartTest(f) PROVE MemoryInv'
    <3>1. /\ current = Main /\ mpc \in {"first", "burst"} /\ StartCoro(f) /\ AllocStack(current')
          /\ UNCHANGED <<join_table, coro_queue, coro_time_queue, direct, dpc>>
      BY <2>2 DEF MainStartTest, InMain
    <3>2. current # NULL /\ coro_stack # <<>> /\ route_running
      BY <3>1, Names, Current DEF ControlInv, PhaseInv
    <3> QED BY <1>2, <3>1, <3>2, MemoryStart
  <2>3. CASE MainResume \/ MainSleep \/ MainCheck \/ MainEnd
    <3>1. UNCHANGED <<memVars, exec_table, deleting_coros, dpc>>
      BY <2>3 DEF MainResume, MainSleep, MainCheck, MainEnd
    <3>2. Alive' = Alive
      BY <3>1 DEF Alive
    <3> QED BY <3>1, <3>2, MemorySame
  <2>4. CASE MainDrain
    <3>1. /\ deleting_coros' = <<>> /\ dpc' = (IF dpc = "retired" THEN "freed" ELSE dpc)
          /\ UNCHANGED exec_table /\ FreeStacks
      BY <2>4 DEF MainDrain
    <3>2. Alive' = Alive \ Deleting
      <4>1. Range(deleting_coros') = {}
        BY <3>1, RangeEmpty
      <4> QED BY <1>0, <3>1, <4>1, Names DEF Alive, Deleting
    <3> QED BY <1>1, <3>1, <3>2, MemoryFree
  <2> QED BY <1>2, <2>1, <2>2, <2>3, <2>4 DEF MainProgram
<1>3. CASE ~crashed /\ Driver
  <2>1. CASE DriverLoop
    <3>1. UNCHANGED <<memVars, exec_table, deleting_coros>> /\ dpc = "loop"
          /\ dpc' \in {"routine", "retired"}
      BY <2>1 DEF DriverLoop
    <3>2. Alive' = Alive
      BY <3>1 DEF Alive
    <3> QED BY <3>1, <3>2, MemorySame
  <2>2. CASE DriverRoutine
    <3>1. dpc = "routine" /\ UNCHANGED dpc
      BY <2>2 DEF DriverRoutine
    <3>2. CASE RoutineBegin /\ FreeStacks
      <4>1. deleting_coros' = <<>> /\ UNCHANGED exec_table
        BY <3>2 DEF RoutineBegin
      <4>2. Range(deleting_coros') = {} /\ Deleting = Range(deleting_coros)
        BY <3>1, <4>1, RangeEmpty DEF Deleting
      <4>3. Alive' = Alive \ Deleting
        BY <1>0, <3>1, <4>1, <4>2, Names DEF Alive
      <4> QED BY <1>1, <3>2, <4>3, MemoryFree
    <3>3. CASE /\ QueueEmpty \/ LookUpBucket \/ OpenBucket \/ InvokeDue \/ LeaveBucket
                  \/ EraseBucket
               /\ UNCHANGED memVars
      <4>1. UNCHANGED <<exec_table, deleting_coros>>
        BY <3>1, <3>3, WakeKept
           DEF QueueEmpty, LookUpBucket, OpenBucket, LeaveBucket, EraseBucket
      <4>2. Alive' = Alive
        BY <3>1, <4>1 DEF Alive
      <4> QED BY <3>3, <4>2, MemorySame
    <3> QED BY <2>2, <3>2, <3>3 DEF DriverRoutine
  <2>3. CASE DriverRoutineEnds \/ DriverYield
    <3>1. UNCHANGED <<memVars, exec_table, deleting_coros>>
          /\ dpc \in {"routine", "yield"} /\ dpc' \in {"yield", "loop"}
      BY <2>3 DEF DriverRoutineEnds, DriverYield, NoTimers, NothingDue
    <3>2. Alive' = Alive
      BY <3>1 DEF Alive
    <3> QED BY <3>1, <3>2, MemorySame
  <2> QED BY <1>3, <2>1, <2>2, <2>3 DEF Driver
<1>4. CASE ~crashed /\ Tests
  <2>1. PICK f \in Func : TestSleep(f) \/ TestStart(f) \/ TestJoin(f) \/ TestReturn(f)
    BY <1>4 DEF Tests
  <2>2. current \in Coro
    BY <2>1 DEF TestSleep, TestStart, TestJoin, TestReturn, Goto
  <2>3. CASE TestStart(f)
    <3>1. /\ StartCoro(Sub(f)) /\ AllocStack(current')
          /\ UNCHANGED <<join_table, coro_queue, coro_time_queue, direct, dpc>>
      BY <2>3 DEF TestStart, CallStartCoro
    <3>2. current # NULL /\ coro_stack # <<>> /\ current \in exec_table
      BY <2>2, Names, Current
    <3>3. route_running
      BY <3>2 DEF ControlInv, PhaseInv
    <3>4. Sub(f) \in Func
      BY DEF Sub, TestCalls
    <3> QED BY <1>4, <3>1, <3>2, <3>3, <3>4, MemoryStart
  <2>4. CASE TestSleep(f) \/ TestJoin(f)
    <3>1. UNCHANGED <<exec_table, deleting_coros, dpc, memVars>>
      BY <2>2, <2>4, SleepKept, JoinKept DEF TestSleep, TestJoin
    <3>2. Alive' = Alive
      BY <3>1 DEF Alive
    <3> QED BY <3>1, <3>2, MemorySame
  <2>5. CASE TestReturn(f)
    <3>1. UNCHANGED <<dpc, memVars>> /\ CoroDone(current)
      BY <2>5 DEF TestReturn
    <3>2. /\ exec_table' = exec_table \ {current} /\ current \in exec_table
          /\ deleting_coros' = Append(deleting_coros, current)
      BY <2>2, <3>1, DoneKept
    <3>3. Range(deleting_coros') = Range(deleting_coros) \cup {current}
      BY <1>0, <2>2, <3>2, RangeAppend
    <3>4. Alive' = Alive
      BY <3>1, <3>2, <3>3 DEF Alive
    <3> QED BY <3>1, <3>4, MemorySame
  <2> QED BY <2>1, <2>3, <2>4, <2>5
<1>5. CASE TickEarly \/ UNCHANGED allVars
  <2>1. UNCHANGED <<exec_table, deleting_coros, dpc, memVars>>
    BY <1>5 DEF TickEarly, Tick, allVars
  <2>2. Alive' = Alive
    BY <2>1 DEF Alive
  <2> QED BY <2>1, <2>2, MemorySame
<1> QED BY <1>2, <1>3, <1>4, <1>5 DEF EmbeddedNext, Thread

LEMMA MemoryStartsEmpty == EmbeddedInit => MemoryInv
<1> SUFFICES ASSUME EmbeddedInit PROVE MemoryInv
  OBVIOUS
<1>1. /\ stack = [c \in Owner |-> NoStack] /\ used = {} /\ guarded = {} /\ crashed = FALSE
      /\ exec_table = {} /\ deleting_coros = <<>> /\ dpc = "unborn"
  BY DEF EmbeddedInit, Init, AllocInit, Owner
<1>2. /\ NoStack \in [sptr : {0} \cup Page, ssze : Nat] /\ NoStack.sptr = 0
      /\ Body(NoStack) = {} /\ Guard(NoStack) = {}
  BY DEF NoStack, Body, Guard
<1>3. Layout(stack, used, guarded)
  BY <1>1, <1>2 DEF Layout, Area
<1>4. Alive = {}
  BY <1>1, RangeEmpty DEF Alive
<1> QED BY <1>1, <1>2, <1>3, <1>4 DEF MemoryInv

-----------------------------------------------------------------------------
(* What the invariant says in the words of the properties *)

LEMMA TypesFollow == ControlInv /\ MemoryInv => EmbeddedTypeOK
<1> SUFFICES ASSUME ControlInv, MemoryInv PROVE EmbeddedTypeOK
  OBVIOUS
<1>1. TypeOK /\ PlaceTypes
  BY DEF ControlInv
<1>2. /\ stack \in [Owner -> [sptr : {0} \cup Page, ssze : Nat]]
      /\ \A c \in Owner : Body(stack[c]) \subseteq Page /\ Guard(stack[c]) \subseteq Page
      /\ used = UNION {Body(stack[c]) : c \in Owner}
      /\ guarded = UNION {Guard(stack[c]) : c \in Owner}
  BY DEF MemoryInv, Layout, Area
<1>3. used \subseteq Page /\ guarded \subseteq Page
  BY <1>2
<1>4. \A c \in DOMAIN stack : stack[c].sptr \in {0} \cup Page
  BY <1>2
<1> QED BY <1>1, <1>3, <1>4 DEF EmbeddedTypeOK, PlaceTypes

\* What lies above the k entries of earlier turns
LEMMA FreshPart ==
  ASSUME NEW stk \in Seq(Context), NEW cur, NEW k, Turns(stk, cur, k),
         NEW part \in Seq(Context), Len(part) = Len(stk) - k,
         \A i \in 1 .. Len(stk) - k : part[i] = stk[k + i]
  PROVE  /\ IsInjective(part)
         /\ Range(part) = Fresh(stk, k)
         /\ k < Len(stk) => part # <<>> /\ part[1] = stk[k + 1]
         /\ k = Len(stk) => part = <<>>
<1> DEFINE n == Len(stk)
<1>1. n \in Nat /\ k \in 0 .. n
  BY RangeSeq DEF Turns
<1>2. /\ Len(part) = n - k
      /\ \A i \in 1 .. n - k : part[i] = stk[k + i]
  OBVIOUS
<1>3. DOMAIN part = 1 .. n - k /\ Range(part) = {part[i] : i \in 1 .. n - k}
  <2>1. DOMAIN part = 1 .. Len(part) /\ Range(part) = {part[i] : i \in 1 .. Len(part)}
    BY RangeSeq
  <2>2. 1 .. Len(part) = 1 .. n - k
    BY <1>2
  <2> HIDE DEF n
  <2> QED BY <2>1, <2>2
<1>4. \A i, j \in k + 1 .. n : stk[i] = stk[j] => i = j
  BY DEF Turns
<1> HIDE DEF n
<1>5. \A i \in 1 .. n - k : k + i \in k + 1 .. n /\ (k + i) - k = i
  BY <1>1
<1>6. IsInjective(part)
  <2>1. ASSUME NEW i \in 1 .. n - k, NEW j \in 1 .. n - k, part[i] = part[j] PROVE i = j
    <3>1. k + i \in k + 1 .. n /\ k + j \in k + 1 .. n
      BY <1>5
    <3>2. stk[k + i] = stk[k + j]
      BY <1>2, <2>1
    <3>3. k + i = k + j
      BY <1>4, <3>1, <3>2 DEF n
    <3> QED BY <1>1, <3>3
  <2> QED BY <1>3, <2>1 DEF IsInjective
<1>7. Range(part) = Fresh(stk, k)
  <2>1. \A i \in 1 .. n - k : part[i] \in Fresh(stk, k)
    BY <1>2, <1>5 DEF Fresh, n
  <2>2. \A j \in k + 1 .. n : j - k \in 1 .. n - k /\ k + (j - k) = j
    BY <1>1
  <2>3. \A j \in k + 1 .. n : stk[j] \in Range(part)
    BY <1>2, <1>3, <2>2
  <2>4. Fresh(stk, k) = {stk[j] : j \in k + 1 .. n}
    BY DEF Fresh, n
  <2>5. \A p \in Fresh(stk, k) : p \in Range(part)
    BY <2>3, <2>4
  <2>6. \A p \in Range(part) : p \in Fresh(stk, k)
    BY <1>3, <2>1
  <2> QED BY <2>5, <2>6
<1>8. k < n => part # <<>> /\ part[1] = stk[k + 1]
  <2>1. ASSUME k < n PROVE Len(part) # 0 /\ 1 \in 1 .. n - k
    BY <1>1, <1>2, <2>1
  <2> QED BY <1>2, <2>1, Len(<<>>) = 0
<1>9. k = n => part = <<>>
  <2>1. ASSUME k = n PROVE Len(part) = 0
    BY <1>1, <1>2, <2>1
  <2> QED BY <1>2, <2>1, HeadTail
<1> QED BY <1>2, <1>6, <1>7, <1>8, <1>9 DEF n

LEMMA StaleFollows == ControlInv => StaleBelowMain
<1> SUFFICES ASSUME ControlInv PROVE StaleBelowMain
  OBVIOUS
<1>1. /\ coro_stack \in Seq(Context) /\ TypeOK
  BY DEF ControlInv, TypeOK
<1>2. PICK k \in 0 .. Len(coro_stack) :
        Turns(coro_stack, current, k) /\ Fresh(coro_stack, k) \subseteq Ready
  BY DEF ControlInv, TurnInv
<1>3. PICK fresh : fresh = SubSeq(coro_stack, k + 1, Len(coro_stack))
  OBVIOUS
<1>4. /\ fresh \in Seq(Context)
      /\ Len(fresh) = Len(coro_stack) - k
      /\ \A i \in 1 .. Len(coro_stack) - k : fresh[i] = coro_stack[k + i]
  <2>1. Len(coro_stack) \in Nat /\ k \in Nat /\ k <= Len(coro_stack)
    BY <1>1, <1>2, RangeSeq
  <2>2. Len(fresh) = Len(coro_stack) - k
    BY <1>1, <1>3, <2>1
  <2>3. \A i \in 1 .. Len(coro_stack) - k : fresh[i] = coro_stack[k + i]
    BY <1>1, <1>3, <2>1
  <2>4. fresh \in Seq(Context)
    BY <1>1, <1>3, <2>1
  <2> QED BY <2>2, <2>3, <2>4
<1>5. /\ IsInjective(fresh) /\ Range(fresh) = Fresh(coro_stack, k)
      /\ k < Len(coro_stack) => fresh # <<>> /\ fresh[1] = coro_stack[k + 1]
      /\ k = Len(coro_stack) => fresh = <<>>
  BY <1>1, <1>2, <1>4, FreshPart
<1>6. \A i \in 1 .. k : coro_stack[i] = Sched
  BY <1>2 DEF Turns
<1>7. current = Main => fresh = <<>>
  BY <1>2, <1>5 DEF Turns
<1>8. current \notin {Main, NULL} /\ coro_stack # <<>> => fresh # <<>> /\ fresh[1] = Main
  BY <1>2, <1>5 DEF Turns
<1>9. Range(fresh) \subseteq Executing \ {current} /\ \A c \in Range(fresh) : ~waiting[c]
  BY <1>2, <1>5 DEF Turns, Ready
<1> QED BY <1>3, <1>5, <1>6, <1>7, <1>8, <1>9 DEF StaleBelowMain

LEMMA OwnFollows == ControlInv /\ MemoryInv => OwnStacks
<1> SUFFICES ASSUME ControlInv, MemoryInv, ~crashed PROVE OwnStacks
  BY DEF OwnStacks
<1> DEFINE owners == {c \in DOMAIN stack : stack[c].sptr # 0}
<1>1. /\ DOMAIN stack = Owner
      /\ \A c, d \in Owner : c # d => Area(stack[c]) \cap Area(stack[d]) = {}
      /\ used = UNION {Body(stack[c]) : c \in Owner}
      /\ guarded = UNION {Guard(stack[c]) : c \in Owner}
      /\ \A c \in Owner : c \in Alive => stack[c].sptr # 0
  BY DEF MemoryInv, Layout
<1>2. Executing \ {Main} \subseteq owners
  <2>1. Executing \ {Main} \subseteq Owner /\ Executing \ {Main} \subseteq Alive
    BY DEF ControlInv, TypeOK, Executing, Owner, Alive
  <2> QED BY <1>1, <2>1
<1>3. \A c, d \in owners : c # d => Body(stack[c]) \cap (Body(stack[d]) \cup Guard(stack[d])) = {}
  BY <1>1 DEF Area
<1>4. \A c \in Owner : c \notin owners => Body(stack[c]) = {} /\ Guard(stack[c]) = {}
  BY <1>1 DEF Body, Guard
<1>5. used = UNION {Body(stack[c]) : c \in owners}
  BY <1>1, <1>4
<1>6. guarded = UNION {Guard(stack[c]) : c \in owners}
  BY <1>1, <1>4
<1> QED BY <1>2, <1>3, <1>5, <1>6 DEF OwnStacks

LEMMA CleanFollows == ControlInv /\ MemoryInv => EndsClean
<1> SUFFICES ASSUME ControlInv, MemoryInv PROVE EndsClean
  OBVIOUS
<1>1. ASSUME ~route_running, NEW f \in Func PROVE life[f] \in {"unused", "done"}
  BY <1>1 DEF ControlInv, PhaseInv, StartedInv
<1>2. ASSUME mpc = "end"
      PROVE  /\ exec_table = {} /\ deleting_coros = <<>> /\ dpc = "freed"
             /\ used = {} /\ guarded = {}
             /\ \A c \in Coro : mem[c] # "live"
  <2>1. exec_table = {} /\ deleting_coros = <<>> /\ dpc = "freed"
    BY <1>2 DEF ControlInv, PhaseInv
  <2>2. Range(deleting_coros) = {}
    BY <2>1, RangeEmpty
  <2>3. Alive = {} /\ {c \in Coro : mem[c] = "live"} = {}
    BY <2>1, <2>2 DEF Alive, ControlInv, TableInv
  <2>4. \A c \in Owner : Body(stack[c]) = {} /\ Guard(stack[c]) = {}
    BY <2>3 DEF MemoryInv, Body, Guard
  <2>5. used = {} /\ guarded = {}
    BY <2>4 DEF MemoryInv, Layout
  <2> QED BY <2>1, <2>3, <2>5
<1> QED BY <1>1, <1>2 DEF EndsClean

-----------------------------------------------------------------------------
(* The inductive invariant: whose turn it is, what is pending, what the    *)
(* tables count, how far main and the driver are, and whose memory is      *)
(* whose hold together in every state of the program.                      *)
THEOREM EmbeddedInductive == EmbeddedSpec => [](ControlInv /\ MemoryInv)
<1>1. EmbeddedInit => ControlInv /\ MemoryInv
  BY ControlStart, MemoryStartsEmpty
<1>2. ControlInv /\ MemoryInv /\ [EmbeddedNext]_allVars => (ControlInv /\ MemoryInv)'
  BY ControlNext, MemoryNext
<1> QED BY <1>1, <1>2, PTL DEF EmbeddedSpec

(* Type correctness of the program that embeds a scheduler.                *)
THEOREM EmbeddedTypes == EmbeddedSpec => []EmbeddedTypeOK
BY EmbeddedInductive, TypesFollow, PTL

(* What the driver's Yields leave on the coroutine stack stays below main, *)
(* and every Yield goes to somebody who executes and waits for nothing     *)
(* (Yield, Resume, CoroDone).                                              *)
THEOREM StaleCorrect == EmbeddedSpec => []StaleBelowMain
BY EmbeddedInductive, StaleFollows, PTL

(* Whoever executes has a stack and guard pages of its own, whatever the   *)
(* sizes and however mmap runs out, and what nobody owns is unmapped       *)
(* (coro_stack_alloc, coro_stack_free, CoroGC).                            *)
THEOREM StacksCorrect == EmbeddedSpec => []OwnStacks
BY EmbeddedInductive, OwnFollows, PTL

(* Main stops the driver when every call is done, and ends with every      *)
(* coroutine deleted and every page given back (GetCoroNum).               *)
THEOREM CleanCorrect == EmbeddedSpec => []EndsClean
BY EmbeddedInductive, CleanFollows, PTL

=============================================================================
