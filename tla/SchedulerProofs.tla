--------------------------- MODULE SchedulerProofs ---------------------------
(* Theorems about Scheduler, for every number of coroutines, calls and       *)
(* milliseconds: its types, the inductive invariant IndInv, which each       *)
(* action keeps unless it makes Run return, and what follows from it of      *)
(* every scheduler, or of one whose functions do not block on sched_coro.    *)
EXTENDS Scheduler, SeqLemmas, FiniteSetTheorems, TLAPS

USE CoroAssumption, SchedulerAssumption

-----------------------------------------------------------------------------
(* Types                                                                     *)

\* Control transfer keeps the types of the coroutine environment
LEMMA ResumeType ==
  ASSUME NEW stk \in Seq(Context), NEW flags \in [Context -> BOOLEAN],
         NEW next \in Context, NEW release,
         current \in Context \cup {NULL},
         ResumeFrom(stk, flags, next, release)
  PROVE  /\ current' \in Context
         /\ coro_stack' \in Seq(Context)
         /\ waiting' \in [Context -> BOOLEAN]
BY DEF ResumeFrom

LEMMA YieldType ==
  ASSUME coro_stack \in Seq(Context), NEW flags \in [Context -> BOOLEAN],
         NEW release,
         current \in Context \cup {NULL},
         YieldFrom(flags, release)
  PROVE  /\ current' \in Context
         /\ coro_stack' \in Seq(Context)
         /\ waiting' \in [Context -> BOOLEAN]
<1>1. CASE coro_stack = <<>>
  BY <1>1, ResumeType DEF YieldFrom, Context
<1>2. CASE coro_stack # <<>>
  <2>1. Last(coro_stack) \in Context /\ Front(coro_stack) \in Seq(Context)
    BY <1>2, FrontLast
  <2> QED
    BY <1>2, <2>1, ResumeType DEF YieldFrom
<1> QED
  BY <1>1, <1>2

LEMMA StartCoroType ==
  ASSUME TypeOK, NEW f \in Func, StartCoro(f)
  PROVE  /\ current' \in Context
         /\ coro_stack' \in Seq(Context)
         /\ waiting' \in [Context -> BOOLEAN]
         /\ mem' \in [Coro -> {"unborn", "live", "freed"}]
         /\ func' \in [Coro -> Func \cup {NULL}]
         /\ exec_table' \in SUBSET Coro
         /\ exec_coro_num' \in Int
         /\ deleting_coros' \in Seq(Coro)
         /\ coro_pool' \in Seq(Coro)
         /\ life' \in [Func -> {"unused", "queued", "running", "done", "lost"}]
<1>1. PICK c \in Coro :
        /\ mem' = [Collected EXCEPT ![c] = "live"]
        /\ deleting_coros' = <<>>
        /\ coro_pool' = IF coro_pool = <<>> THEN coro_pool ELSE Tail(coro_pool)
        /\ func' = [func EXCEPT ![c] = f]
        /\ exec_table' = exec_table \cup {c}
        /\ exec_coro_num' = exec_coro_num + 1
        /\ life' = [life EXCEPT ![f] = "running"]
        /\ Resume(c, FALSE)
  BY DEF StartCoro
<1>2. Collected \in [Coro -> {"unborn", "live", "freed"}]
  BY DEF Collected, TypeOK
<1>3. coro_pool' \in Seq(Coro)
  BY <1>1, HeadTail DEF TypeOK
<1>4. /\ current' \in Context
      /\ coro_stack' \in Seq(Context)
      /\ waiting' \in [Context -> BOOLEAN]
  BY <1>1, ResumeType DEF Resume, TypeOK, Context
<1> QED
  BY <1>1, <1>2, <1>3, <1>4 DEF TypeOK

LEMMA AddTimeCoroTaskType ==
  ASSUME TypeOK, NEW entry \in Func \cup Coro \cup {Sched}, NEW delay \in Delay \cup {0},
         AddTimeCoroTask(entry, delay)
  PROVE  coro_time_queue' \in [Time -> Seq(Func \cup Coro \cup {Sched})]
<1> DEFINE E == Func \cup Coro \cup {Sched}
<1>1. coro_time_queue \in [Time -> Seq(E)] /\ now + delay \in Time
  BY DEF TypeOK, AddTimeCoroTask
<1>2. Append(coro_time_queue[now + delay], entry) \in Seq(E)
  BY <1>1, RangeAppend
<1> HIDE DEF E
<1> QED
  BY <1>1, <1>2 DEF AddTimeCoroTask, E

LEMMA TypeInit == Init => TypeOK
BY DEF Init, SwitchInit, TypeOK, Context, Time, Idle

LEMMA TypeRoutine == TypeOK /\ Routine => TypeOK'
<1> SUFFICES ASSUME TypeOK, Routine PROVE TypeOK'
  OBVIOUS
<1> USE DEF InRoutine, switchVars, coroVars, routineVars, postVars
<1>1. CASE RoutineBegin
  BY <1>1 DEF RoutineBegin, Collected, TypeOK
<1>2. CASE TakeTask
  <2>1. coro_queue # <<>> /\ coro_queue \in Seq(Func) /\ Invoke(Head(coro_queue))
    BY <1>2 DEF TakeTask, TypeOK
  <2>2. Head(coro_queue) \in Func /\ Tail(coro_queue) \in Seq(Func)
    BY <2>1, HeadTail
  <2>3. CASE StartCoro(Head(coro_queue)) /\ UNCHANGED direct
    BY <1>2, <2>2, <2>3, StartCoroType DEF TakeTask, TypeOK, Context
  <2>4. CASE ~create_coro[Head(coro_queue)]
    BY <1>2, <2>1, <2>2, <2>4 DEF TakeTask, Invoke, TypeOK
  <2> QED
    BY <2>1, <2>3, <2>4 DEF Invoke
<1>3. CASE QueueEmpty
  BY <1>3 DEF QueueEmpty, TypeOK
<1>4. CASE NoTimers \/ NothingDue
  BY <1>4 DEF NoTimers, NothingDue, TypeOK
<1>5. CASE LookUpBucket \/ OpenBucket
  BY <1>5 DEF LookUpBucket, OpenBucket, TypeOK
<1>6. CASE InvokeDue
  <2> DEFINE E == Func \cup Coro \cup {Sched}
             q == coro_time_queue[due]
  <2>1. q # <<>> /\ q \in Seq(E)
    BY <1>6 DEF InvokeDue, TypeOK
  <2>2. Head(q) \in E /\ Tail(q) \in Seq(E)
    BY <2>1, HeadTail
  <2>3. coro_time_queue' \in [Time -> Seq(E)]
    BY <1>6, <2>2 DEF InvokeDue, TypeOK
  <2>4. \/ Head(q) \in Func /\ Invoke(Head(q))
        \/ /\ Head(q) \in Context
           /\ Resume(Head(q), FALSE)
           /\ UNCHANGED <<coroVars, life, direct>>
    BY <1>6 DEF InvokeDue
  <2> HIDE DEF E, q
  <2>5. CASE Head(q) \in Func /\ StartCoro(Head(q)) /\ UNCHANGED direct
    BY <1>6, <2>3, <2>5, StartCoroType DEF InvokeDue, TypeOK, Context, E
  <2>6. CASE Head(q) \in Func /\ Invoke(Head(q)) /\ ~create_coro[Head(q)]
    BY <1>6, <2>3, <2>6 DEF InvokeDue, Invoke, TypeOK, E
  <2>7. CASE /\ Head(q) \in Context
             /\ Resume(Head(q), FALSE)
             /\ UNCHANGED <<coroVars, life, direct>>
    <3>1. /\ current' \in Context
          /\ coro_stack' \in Seq(Context)
          /\ waiting' \in [Context -> BOOLEAN]
      BY <2>7, ResumeType DEF Resume, TypeOK
    <3> QED
      BY <1>6, <2>3, <2>7, <3>1 DEF InvokeDue, TypeOK, Context, E
  <2> QED
    BY <2>4, <2>5, <2>6, <2>7 DEF Invoke
<1>7. CASE LeaveBucket
  BY <1>7 DEF LeaveBucket, TypeOK
<1>8. CASE EraseBucket
  <2>1. coro_time_queue' \in [Time -> Seq(Func \cup Coro \cup {Sched})]
    <3>1. <<>> \in Seq(Func \cup Coro \cup {Sched})
      OBVIOUS
    <3>2. coro_time_queue' = [coro_time_queue EXCEPT ![due] = <<>>]
      BY <1>8 DEF EraseBucket
    <3> QED
      BY <3>1, <3>2 DEF TypeOK
  <2>2. life' \in [Func -> {"unused", "queued", "running", "done", "lost"}]
    BY <1>8 DEF EraseBucket, TypeOK
  <2>3. posting' = Idle \/ posting' \in [at : {"find", "add", "freed"}, call : Func, ts : Time]
    <3>1. posting' = posting \/ (posting' = [posting EXCEPT !.at = "freed"] /\ posting # Idle)
      BY <1>8 DEF EraseBucket, Idle
    <3> QED
      BY <3>1 DEF TypeOK
  <2> QED
    BY <1>8, <2>1, <2>2, <2>3 DEF EraseBucket, TypeOK
<1> QED
  BY <1>1, <1>2, <1>3, <1>4, <1>5, <1>6, <1>7, <1>8 DEF Routine

LEMMA TypeFunction == TypeOK /\ Function => TypeOK'
<1> SUFFICES ASSUME TypeOK, Function PROVE TypeOK'
  OBVIOUS
<1> USE DEF switchVars, coroVars, routineVars, postVars
<1>0. InFunction \/ MayBlock => current \in Coro \cup {Sched}
  BY DEF InFunction, MayBlock
<1>1. ASSUME NEW f \in Func, CallStartCoro(f) PROVE TypeOK'
  BY <1>0, <1>1, StartCoroType DEF CallStartCoro, TypeOK, Context
<1>2. ASSUME NEW f \in Func, NEW d \in Delay, NEW create \in CreateChoice,
             CallStartCoroAfter(f, d, create)
      PROVE  TypeOK'
  BY <1>2, AddTimeCoroTaskType DEF CallStartCoroAfter, TypeOK
<1>3. ASSUME NEW d \in Delay, CoroSleep(d) PROVE TypeOK'
  <2>1. coro_time_queue' \in [Time -> Seq(Func \cup Coro \cup {Sched})]
    BY <1>0, <1>3, AddTimeCoroTaskType DEF CoroSleep
  <2>2. /\ current' \in Context
        /\ coro_stack' \in Seq(Context)
        /\ waiting' \in [Context -> BOOLEAN]
    BY <1>3, YieldType DEF CoroSleep, Wait, TypeOK
  <2> QED
    BY <1>0, <1>3, <2>1, <2>2 DEF CoroSleep, TypeOK, Context
<1>4. ASSUME NEW c \in Coro, Join(c) PROVE TypeOK'
  <2>1. /\ current' \in Context
        /\ coro_stack' \in Seq(Context)
        /\ waiting' \in [Context -> BOOLEAN]
    BY <1>4, YieldType DEF Join, Wait, TypeOK
  <2> QED
    BY <1>0, <1>4, <2>1 DEF Join, TypeOK, Context
<1>5. ASSUME NEW c \in Coro, CoroDone(c) PROVE TypeOK'
  <2>1. /\ current' \in Context
        /\ coro_stack' \in Seq(Context)
        /\ waiting' \in [Context -> BOOLEAN]
        /\ join_table' \in [Coro -> Coro \cup {Sched, NULL}]
    <3>1. CASE join_table[c] # NULL /\ Resume(join_table[c], TRUE)
               /\ join_table' = [join_table EXCEPT ![c] = NULL]
      BY <3>1, ResumeType DEF Resume, TypeOK, Context
    <3>2. CASE UNCHANGED join_table /\ Yield(TRUE)
      BY <3>2, YieldType DEF Yield, TypeOK
    <3> QED
      BY <1>5, <3>1, <3>2 DEF CoroDone, WakeJoiner
  <2>2. deleting_coros' \in Seq(Coro) /\ coro_pool' \in Seq(Coro)
    <3>1. Retire(c)
      BY <1>5 DEF CoroDone
    <3>2. Append(coro_pool, c) \in Seq(Coro) /\ Append(deleting_coros, c) \in Seq(Coro)
      BY RangeAppend DEF TypeOK
    <3>3. deleting_coros \in Seq(Coro) /\ coro_pool \in Seq(Coro)
      BY DEF TypeOK
    <3> QED
      BY <3>1, <3>2, <3>3 DEF Retire
  <2>3. exec_coro_num' \in Int /\ exec_table' \in SUBSET Coro
    BY <1>5 DEF CoroDone, TypeOK
  <2>4. current # NULL /\ current' # NULL
    BY <1>5, <2>1 DEF CoroDone, Context
  <2> QED
    BY <1>5, <2>1, <2>2, <2>3, <2>4 DEF CoroDone, TypeOK, Context
<1>6. CASE DirectReturn
  BY <1>6 DEF DirectReturn, TypeOK
<1> QED
  BY <1>1, <1>2, <1>3, <1>4, <1>5, <1>6 DEF Function

LEMMA TypePushCoroTask ==
  ASSUME TypeOK, NEW f \in Func, NEW create \in BOOLEAN, NEW delay \in Delay \cup {0},
         PushCoroTask(f, create, delay)
  PROVE  TypeOK'
<1> USE DEF switchVars, coroVars, routineVars, postVars
<1>1. CASE posting' = [at |-> "find", call |-> f, ts |-> now + delay] /\ UNCHANGED coro_queue
           /\ now + delay \in Time
  BY <1>1 DEF PushCoroTask, TypeOK
<1>2. CASE coro_queue' = Append(coro_queue, f) /\ UNCHANGED posting
  BY <1>2 DEF PushCoroTask, TypeOK
<1> QED
  BY <1>1, <1>2 DEF PushCoroTask

\* The thread that posts
LEMMA PostingType ==
  ASSUME TypeOK, posting.at # "idle"
  PROVE  posting \in [at : {"find", "add", "freed"}, call : Func, ts : Time] /\ posting # Idle
BY DEF TypeOK, Idle

LEMMA TypePost ==
  ASSUME TypeOK, Post
  PROVE  TypeOK'
<1> USE DEF switchVars, coroVars, routineVars
<1>1. posting \in [at : {"find", "add", "freed"}, call : Func, ts : Time]
  BY PostingType DEF Post, FindBucket, AddCall, AddFreed, Posting
<1>2. CASE FindBucket
  BY <1>1, <1>2 DEF FindBucket, TypeOK
<1>3. CASE AddCall
  <2> DEFINE E == Func \cup Coro \cup {Sched}
             q == coro_time_queue[posting.ts]
  <2>1. Append(q, posting.call) \in Seq(E)
    BY <1>1 DEF TypeOK
  <2>2. coro_time_queue' = [coro_time_queue EXCEPT ![posting.ts] = Append(q, posting.call)]
    BY <1>3 DEF AddCall
  <2>3. coro_time_queue' \in [Time -> Seq(E)]
    BY <1>1, <2>1, <2>2 DEF TypeOK
  <2> QED
    BY <1>1, <1>3, <2>3 DEF AddCall, TypeOK
<1>4. CASE AddFreed
  BY <1>1, <1>4 DEF AddFreed, TypeOK
<1> QED
  BY <1>2, <1>3, <1>4 DEF Post

LEMMA TypeNext == TypeOK /\ [Next]_vars => TypeOK'
<1> SUFFICES ASSUME TypeOK, [Next]_vars PROVE TypeOK'
  OBVIOUS
<1>1. CASE Run
  <2>1. /\ current' \in Context
        /\ coro_stack' \in Seq(Context)
        /\ waiting' \in [Context -> BOOLEAN]
    BY <1>1, ResumeType DEF Run, Resume, TypeOK, Context
  <2> QED
    BY <1>1, <2>1 DEF Run, TypeOK, Context, postVars
<1>2. CASE Routine
  BY <1>2, TypeRoutine
<1>3. CASE Function
  BY <1>3, TypeFunction
<1>4. CASE Foreign
  BY <1>4, TypePushCoroTask, TypePost DEF Foreign, ForeignStartCoro, ForeignStartCoroAfter
<1>5. CASE Tick
  BY <1>5 DEF Tick, TypeOK, Time, switchVars, coroVars, routineVars, postVars
<1>6. CASE UNCHANGED vars
  BY <1>6 DEF vars, TypeOK, switchVars, coroVars, routineVars, postVars
<1> QED
  BY <1>1, <1>2, <1>3, <1>4, <1>5, <1>6 DEF Next

(* Every variable keeps its type, and nobody is current exactly until Run    *)
(* has switched to sched_coro, for every scheduler.                          *)
THEOREM TypeCorrect == Spec => []TypeOK
BY TypeInit, TypeNext, PTL DEF Spec

-----------------------------------------------------------------------------
(* The coroutine stack                                                       *)

\* Whoever runs resumes new and is kept on the stack
LEMMA ShapePush ==
  ASSUME NEW stk \in Seq(Context), NEW cur \in Context, NEW new \in Context,
         Shape(stk, cur), new # Sched, new # cur, new \notin Range(stk)
  PROVE  /\ Shape(Append(stk, cur), new)
         /\ Append(stk, cur) \in Seq(Context)
         /\ Range(Append(stk, cur)) \cup {new} = Range(stk) \cup {cur, new}
<1> DEFINE t == Append(stk, cur)
<1>1. /\ t \in Seq(Context)
      /\ Len(t) = Len(stk) + 1
      /\ \A i \in 1 .. Len(stk) : t[i] = stk[i]
      /\ t[Len(stk) + 1] = cur
      /\ Range(t) = Range(stk) \cup {cur}
  BY RangeAppend
<1>2. IsInjective(t)
  BY InjectiveAppend DEF Shape
<1>3. Len(stk) \in Nat /\ (stk # <<>> => Len(stk) > 0) /\ (stk = <<>> => Len(stk) = 0)
  BY SMT
<1> HIDE DEF t
<1>4. t[1] = Sched
  <2>1. CASE cur = Sched
    <3>1. Len(stk) = 0
      BY <1>3, <2>1 DEF Shape
    <3> QED
      BY <1>1, <2>1, <3>1
  <2>2. CASE cur # Sched
    <3>1. stk[1] = Sched /\ 1 \in 1 .. Len(stk)
      BY <1>3, <2>2 DEF Shape
    <3> QED
      BY <1>1, <3>1
  <2> QED
    BY <2>1, <2>2
<1>5. t # <<>>
  <2>1. cur \in Range(t)
    BY <1>1
  <2> QED
    BY <2>1, RangeEmpty
<1>6. Shape(t, new)
  BY <1>1, <1>2, <1>4, <1>5 DEF Shape
<1> QED
  BY <1>1, <1>6 DEF t

\* Whoever runs gives way to the top of the stack
LEMMA ShapePop ==
  ASSUME NEW stk \in Seq(Context), NEW cur \in Context, Shape(stk, cur), cur # Sched
  PROVE  /\ stk # <<>>
         /\ Shape(Front(stk), Last(stk))
         /\ Last(stk) \in Range(stk)
         /\ Range(Front(stk)) \cup {Last(stk)} = Range(stk)
<1> DEFINE t == Front(stk)
           n == Len(stk)
<1>1. stk # <<>> /\ stk[1] = Sched /\ IsInjective(stk)
  BY DEF Shape
<1>2. /\ t \in Seq(Context)
      /\ Len(t) = n - 1
      /\ \A i \in 1 .. n - 1 : t[i] = stk[i]
      /\ Last(stk) = stk[n]
      /\ n \in Nat \ {0}
  BY <1>1, FrontLast
<1>3. /\ IsInjective(t)
      /\ Last(stk) \in Range(stk)
      /\ Range(t) = Range(stk) \ {Last(stk)}
  BY <1>1, InjectiveFront
<1>4. \A i, j \in 1 .. n : stk[i] = stk[j] => i = j
  BY <1>1, RangeSeq DEF IsInjective
<1>5. (t = <<>>) <=> n = 1
  <2>1. (t = <<>>) <=> Len(t) = 0
    <3> HIDE DEF t, n
    <3> QED
      BY <1>2, SMT
  <2> HIDE DEF t, n
  <2> QED
    BY <1>2, <2>1
<1> HIDE DEF t, n
<1>6. CASE n = 1
  <2>1. Last(stk) = Sched
    BY <1>1, <1>2, <1>6
  <2> QED
    BY <1>1, <1>3, <1>5, <1>6, <2>1 DEF Shape, t
<1>7. CASE n # 1
  <2>1. 1 \in 1 .. n - 1 /\ 1 \in 1 .. n /\ n \in 1 .. n
    BY <1>2, <1>7
  <2>2. t[1] = Sched
    BY <1>1, <1>2, <2>1
  <2>3. Last(stk) # Sched
    BY <1>1, <1>2, <1>4, <1>7, <2>1
  <2> QED
    BY <1>1, <1>3, <1>5, <1>7, <2>2, <2>3 DEF Shape, t
<1> QED
  BY <1>6, <1>7

\* Whoever runs is replaced by new
LEMMA ShapeReplace ==
  ASSUME NEW stk \in Seq(Context), NEW cur \in Context, NEW new \in Context,
         Shape(stk, cur), cur # Sched, new # Sched, new \notin Range(stk)
  PROVE  Shape(stk, new)
BY DEF Shape

-----------------------------------------------------------------------------
(* The time queue                                                            *)

\* What a new entry changes
LEMMA TimerInsert ==
  ASSUME TypeOK, TimersOnce, NEW entry \in Func \cup Coro \cup {Sched}, NEW k \in Time,
         coro_time_queue' = [coro_time_queue EXCEPT ![k] = Append(@, entry)], ~Sleeps(entry)
  PROVE  /\ TimersOnce'
         /\ \A e : Sleeps(e)' <=> Sleeps(e) \/ e = entry
<1> DEFINE E == Func \cup Coro \cup {Sched}
           q == coro_time_queue
           s == q[k]
<1>1. /\ k \in Time
      /\ q \in [Time -> Seq(E)]
      /\ q' = [q EXCEPT ![k] = Append(s, entry)]
  BY DEF TypeOK
<1>2. /\ Append(s, entry) \in Seq(E)
      /\ Len(Append(s, entry)) = Len(s) + 1
      /\ \A i \in 1 .. Len(s) : Append(s, entry)[i] = s[i]
      /\ Append(s, entry)[Len(s) + 1] = entry
  BY <1>1, RangeAppend
<1>3. /\ Len(s) \in Nat
      /\ DOMAIN s = 1 .. Len(s)
      /\ DOMAIN Append(s, entry) = 1 .. Len(s) + 1
  BY <1>1, <1>2, RangeSeq
<1>4. /\ q'[k] = Append(s, entry)
      /\ \A t \in Time : t # k => q'[t] = q[t]
  BY <1>1
<1> HIDE DEF q, E
<1>5. /\ \A i \in DOMAIN s : i \in DOMAIN q'[k] /\ q'[k][i] = s[i]
      /\ Len(s) + 1 \in DOMAIN q'[k] /\ q'[k][Len(s) + 1] = entry
      /\ \A i \in DOMAIN q'[k] : i \in DOMAIN s \/ i = Len(s) + 1
  BY <1>2, <1>3, <1>4
<1> HIDE DEF s
<1>6. \A t \in Time : \A i \in DOMAIN q[t] : q[t][i] # entry
  BY DEF Sleeps, q
<1>7. \A t, u \in Time : \A i \in DOMAIN q[t], j \in DOMAIN q[u] :
         q[t][i] = q[u][j] => t = u /\ i = j
  BY DEF TimersOnce, q
<1>8. \A t \in Time : \A i \in DOMAIN q'[t] :
         \/ i \in DOMAIN q[t] /\ q'[t][i] = q[t][i]
         \/ t = k /\ i = Len(s) + 1 /\ q'[t][i] = entry
  BY <1>1, <1>4, <1>5 DEF s
<1>9. TimersOnce'
  <2>1. ASSUME NEW t \in Time, NEW u \in Time,
               NEW i \in DOMAIN q'[t], NEW j \in DOMAIN q'[u],
               q'[t][i] = q'[u][j]
        PROVE  t = u /\ i = j
    BY <1>6, <1>7, <1>8, <2>1
  <2> QED
    BY <2>1, Zenon DEF TimersOnce, q
<1>10. ASSUME NEW e PROVE Sleeps(e)' <=> Sleeps(e) \/ e = entry
  <2>1. Sleeps(e) <=> \E t \in Time : \E i \in DOMAIN q[t] : q[t][i] = e
    BY DEF Sleeps, q
  <2>2. Sleeps(e)' <=> \E t \in Time : \E i \in DOMAIN q'[t] : q'[t][i] = e
    BY DEF Sleeps, q
  <2>3. \A t \in Time : \A i \in DOMAIN q[t] : i \in DOMAIN q'[t] /\ q'[t][i] = q[t][i]
    BY <1>4, <1>5 DEF s
  <2>4. k \in Time /\ Len(s) + 1 \in DOMAIN q'[k] /\ q'[k][Len(s) + 1] = entry
    BY <1>1, <1>5
  <2>5. Sleeps(e) \/ e = entry => Sleeps(e)'
    BY <2>1, <2>2, <2>3, <2>4
  <2>6. ASSUME Sleeps(e)' PROVE Sleeps(e) \/ e = entry
    <3>0. PICK t \in Time : \E i \in DOMAIN q'[t] : q'[t][i] = e
      BY <2>2, <2>6
    <3>1. PICK i \in DOMAIN q'[t] : q'[t][i] = e
      BY <3>0
    <3> QED
      BY <1>8, <2>1, <3>1
  <2> QED
    BY <2>5, <2>6
<1> QED
  BY <1>9, <1>10

LEMMA TimerAdd ==
  ASSUME TypeOK, TimersOnce, NEW entry \in Func \cup Coro \cup {Sched},
         NEW delay, AddTimeCoroTask(entry, delay), ~Sleeps(entry)
  PROVE  /\ TimersOnce'
         /\ \A e : Sleeps(e)' <=> Sleeps(e) \/ e = entry
<1> DEFINE k == now + delay
<1>1. k \in Time /\ coro_time_queue' = [coro_time_queue EXCEPT ![k] = Append(@, entry)]
  BY DEF AddTimeCoroTask
<1> HIDE DEF k
<1> QED
  BY <1>1, TimerInsert

\* What is left when the bucket of time k is erased
LEMMA TimerErase ==
  ASSUME TypeOK, TimersOnce, NEW k \in Time,
         coro_time_queue' = [coro_time_queue EXCEPT ![k] = <<>>]
  PROVE  /\ TimersOnce'
         /\ \A e : Sleeps(e)' <=> Sleeps(e) /\ e \notin Range(coro_time_queue[k])
<1> DEFINE q == coro_time_queue
<1>1. q'[k] = <<>> /\ \A t \in Time : t # k => q'[t] = q[t]
  BY DEF TypeOK
<1>2. DOMAIN <<>> = {}
  BY SMT
<1>3. \A t \in Time : \A i \in DOMAIN q'[t] : t # k /\ i \in DOMAIN q[t] /\ q'[t][i] = q[t][i]
  BY <1>1, <1>2
<1>4. \A t \in Time : t # k => \A i \in DOMAIN q[t] : i \in DOMAIN q'[t] /\ q'[t][i] = q[t][i]
  BY <1>1
<1>5. \A t, u \in Time : \A i \in DOMAIN q[t], j \in DOMAIN q[u] :
         q[t][i] = q[u][j] => t = u /\ i = j
  BY DEF TimersOnce
<1>6. Range(q[k]) = {q[k][i] : i \in DOMAIN q[k]}
  BY DEF Range
<1> HIDE DEF q
<1>7. TimersOnce'
  <2>1. ASSUME NEW t \in Time, NEW u \in Time,
               NEW i \in DOMAIN q'[t], NEW j \in DOMAIN q'[u],
               q'[t][i] = q'[u][j]
        PROVE  t = u /\ i = j
    BY <1>3, <1>5, <2>1
  <2> QED
    BY <2>1, Zenon DEF TimersOnce, q
<1>8. ASSUME NEW e PROVE Sleeps(e)' <=> Sleeps(e) /\ e \notin Range(coro_time_queue[k])
  <2>1. Sleeps(e) <=> \E t \in Time : \E i \in DOMAIN q[t] : q[t][i] = e
    BY DEF Sleeps, q
  <2>2. Sleeps(e)' <=> \E t \in Time : \E i \in DOMAIN q'[t] : q'[t][i] = e
    BY DEF Sleeps, q
  <2>3. ASSUME Sleeps(e)' PROVE Sleeps(e) /\ e \notin Range(q[k])
    <3>0. PICK t \in Time : \E i \in DOMAIN q'[t] : q'[t][i] = e
      BY <2>2, <2>3
    <3>1. PICK i \in DOMAIN q'[t] : q'[t][i] = e
      BY <3>0
    <3>2. t # k /\ i \in DOMAIN q[t] /\ q[t][i] = e
      BY <1>3, <3>1
    <3>3. Sleeps(e)
      BY <2>1, <3>2
    <3>4. ASSUME NEW j \in DOMAIN q[k], q[k][j] = e PROVE FALSE
      BY <1>5, <3>2, <3>4
    <3> QED
      BY <1>6, <3>3, <3>4
  <2>4. ASSUME Sleeps(e), e \notin Range(q[k]) PROVE Sleeps(e)'
    <3>0. PICK t \in Time : \E i \in DOMAIN q[t] : q[t][i] = e
      BY <2>1, <2>4
    <3>1. PICK i \in DOMAIN q[t] : q[t][i] = e
      BY <3>0
    <3>2. t # k
      BY <1>6, <2>4, <3>1
    <3> QED
      BY <1>4, <2>2, <3>1, <3>2
  <2> QED
    BY <2>3, <2>4 DEF q
<1> QED
  BY <1>7, <1>8

\* What is left when the first entry of a bucket is taken
LEMMA TimerPop ==
  ASSUME TypeOK, TimersOnce, coro_time_queue[due] # <<>>,
         coro_time_queue' = [coro_time_queue EXCEPT ![due] = Tail(@)]
  PROVE  /\ TimersOnce'
         /\ Sleeps(Head(coro_time_queue[due]))
         /\ \A e : Sleeps(e)' <=> Sleeps(e) /\ e # Head(coro_time_queue[due])
<1> DEFINE E == Func \cup Coro \cup {Sched}
           q == coro_time_queue
           s == q[due]
<1>1. /\ due \in Time
      /\ q \in [Time -> Seq(E)]
      /\ q' = [q EXCEPT ![due] = Tail(s)]
      /\ s # <<>>
  BY DEF TypeOK
<1>2. /\ Tail(s) \in Seq(E)
      /\ Len(Tail(s)) = Len(s) - 1
      /\ \A i \in 1 .. Len(s) - 1 : Tail(s)[i] = s[i + 1]
      /\ Head(s) = s[1]
      /\ Len(s) \in Nat \ {0}
  BY <1>1, HeadTail
<1>3. /\ DOMAIN s = 1 .. Len(s)
      /\ DOMAIN Tail(s) = 1 .. Len(s) - 1
  BY <1>1, <1>2, RangeSeq
<1>4. /\ q'[due] = Tail(s)
      /\ \A t \in Time : t # due => q'[t] = q[t]
  BY <1>1
<1> HIDE DEF q, E
<1>5. /\ 1 \in DOMAIN s /\ s[1] = Head(s)
      /\ \A i \in DOMAIN q'[due] : i + 1 \in DOMAIN s /\ q'[due][i] = s[i + 1] /\ i + 1 # 1
      /\ \A i \in DOMAIN s : i # 1 => i - 1 \in DOMAIN q'[due] /\ q'[due][i - 1] = s[i]
      /\ \A i, j \in DOMAIN q'[due] : i + 1 = j + 1 => i = j
  BY <1>2, <1>3, <1>4
<1> HIDE DEF s
<1>7. \A t, u \in Time : \A i \in DOMAIN q[t], j \in DOMAIN q[u] :
         q[t][i] = q[u][j] => t = u /\ i = j
  BY DEF TimersOnce, q
<1>8. \A t \in Time : \A i \in DOMAIN q'[t] :
         \/ t # due /\ i \in DOMAIN q[t] /\ q'[t][i] = q[t][i]
         \/ t = due /\ i + 1 \in DOMAIN q[t] /\ q'[t][i] = q[t][i + 1]
  BY <1>1, <1>4, <1>5 DEF s
<1>9. TimersOnce'
  <2>1. ASSUME NEW t \in Time, NEW u \in Time,
               NEW i \in DOMAIN q'[t], NEW j \in DOMAIN q'[u],
               q'[t][i] = q'[u][j]
        PROVE  t = u /\ i = j
    BY <1>5, <1>7, <1>8, <2>1
  <2> QED
    BY <2>1, Zenon DEF TimersOnce, q
<1>10. Sleeps(Head(s))
  BY <1>1, <1>5 DEF Sleeps, q, s
<1>11. ASSUME NEW e PROVE Sleeps(e)' <=> Sleeps(e) /\ e # Head(s)
  <2>1. Sleeps(e) <=> \E t \in Time : \E i \in DOMAIN q[t] : q[t][i] = e
    BY DEF Sleeps, q
  <2>2. Sleeps(e)' <=> \E t \in Time : \E i \in DOMAIN q'[t] : q'[t][i] = e
    BY DEF Sleeps, q
  <2>3. ASSUME Sleeps(e)' PROVE Sleeps(e) /\ e # Head(s)
    <3>0. PICK t \in Time : \E i \in DOMAIN q'[t] : q'[t][i] = e
      BY <2>2, <2>3
    <3>1. PICK i \in DOMAIN q'[t] : q'[t][i] = e
      BY <3>0
    <3>2. CASE t # due /\ i \in DOMAIN q[t] /\ q[t][i] = e
      BY <1>1, <1>5, <1>7, <2>1, <3>2 DEF s
    <3>3. CASE t = due /\ i + 1 \in DOMAIN q[t] /\ q[t][i + 1] = e
      BY <1>1, <1>5, <1>7, <2>1, <3>1, <3>3 DEF s
    <3> QED
      BY <1>8, <3>1, <3>2, <3>3
  <2>4. ASSUME Sleeps(e), e # Head(s) PROVE Sleeps(e)'
    <3>0. PICK t \in Time : \E i \in DOMAIN q[t] : q[t][i] = e
      BY <2>1, <2>4
    <3>1. PICK i \in DOMAIN q[t] : q[t][i] = e
      BY <3>0
    <3>2. CASE t # due
      BY <1>4, <2>2, <3>1, <3>2
    <3>3. CASE t = due
      BY <1>5, <2>2, <2>4, <3>1, <3>3 DEF s
    <3> QED
      BY <3>2, <3>3
  <2> QED
    BY <2>3, <2>4
<1> QED
  BY <1>9, <1>10, <1>11 DEF s, q

\* Nothing is added and nothing is taken
LEMMA TimerSame ==
  ASSUME UNCHANGED coro_time_queue
  PROVE  /\ TimersOnce' <=> TimersOnce
         /\ \A e : Sleeps(e)' <=> Sleeps(e)
BY DEF TimersOnce, Sleeps

-----------------------------------------------------------------------------
(* What the parts of the invariant say together                              *)

\* Who runs, and who does not
LEMMA Runs ==
  ASSUME IndInv, rpc # "run"
  PROVE  /\ current \in exec_table \cup {Sched}
         /\ exec_table \subseteq Coro
         /\ exec_table \subseteq Context
         /\ current # NULL /\ current # Main
         /\ coro_stack \in Seq(Context)
         /\ current \in Context
         /\ waiting \in [Context -> BOOLEAN]
         /\ ~waiting[current]
         /\ ~waiting[Sched]
         /\ \A c \in Coro : waiting[c] => c \in exec_table
         /\ \A c \in Coro : Sleeps(c) \/ Joins(c) => waiting[c]
<1>1. StackInv /\ TypeOK /\ WaitInv /\ JoinInv /\ TimerInv
  BY DEF IndInv
<1>2. /\ current \in exec_table \cup {Sched}
      /\ exec_table \subseteq Coro
      /\ coro_stack \in Seq(Context)
      /\ waiting \in [Context -> BOOLEAN]
      /\ ~waiting[current]
  BY <1>1 DEF StackInv, Running, TypeOK
<1>3. \A c \in Coro : Joins(c) => c \in exec_table
  <2>1. ASSUME NEW c \in Coro, Joins(c) PROVE c \in exec_table
    <3>1. PICK x \in Coro : join_table[x] = c
      BY <2>1 DEF Joins
    <3> QED
      BY <1>1, <3>1 DEF JoinInv
  <2> QED
    BY <2>1
<1>4. ~Joins(Sched)
  <2>1. ASSUME NEW x \in Coro, join_table[x] = Sched PROVE FALSE
    BY <1>1, <1>2, <2>1 DEF JoinInv
  <2> QED
    BY <2>1 DEF Joins
<1>5. ~waiting[Sched]
  BY <1>1, <1>4 DEF WaitInv, TimerInv
<1>6. \A c \in Coro : waiting[c] => c \in exec_table
  BY <1>1, <1>3 DEF WaitInv, TimerInv
<1>7. \A c \in Coro : Sleeps(c) \/ Joins(c) => waiting[c]
  BY <1>1 DEF WaitInv
<1> QED
  BY <1>2, <1>5, <1>6, <1>7 DEF Context

\* Nothing the invariant speaks of changes
LEMMA Frame ==
  ASSUME IndInv, TypeOK', BucketInv',
         UNCHANGED <<switchVars, coroVars, join_table, coro_time_queue>>,
         rpc' = "run" <=> rpc = "run",
         direct' = direct \/ rpc # "run",
         \A f \in Func : life[f] # "unused" => life'[f] # "unused",
         \A f \in Func : posting'.call = f =>
            posting.call = f \/ (life[f] = "unused" /\ life'[f] # "unused")
  PROVE  IndInv'
<1> USE DEF switchVars, coroVars
<1>1. TimerInv'
  <2>1. \A e : Sleeps(e)' <=> Sleeps(e)
    BY TimerSame
  <2>2. TimersOnce'
    BY TimerSame DEF IndInv, TimerInv
  <2>3. TimerInv
    BY DEF IndInv
  <2>4. \A f \in Func : posting'.call = f => life'[f] # "unused" /\ ~Sleeps(f)'
    BY <2>1, <2>3 DEF TimerInv
  <2> QED
    BY <2>1, <2>2, <2>3, <2>4 DEF TimerInv
<1>2. JoinInv'
  BY DEF IndInv, JoinInv
<1>3. WaitInv'
  <2>1. \A e : (Sleeps(e)' <=> Sleeps(e)) /\ (Joins(e)' <=> Joins(e))
    BY TimerSame DEF Joins
  <2> QED
    BY <2>1 DEF IndInv, WaitInv
<1>4. Accounted' /\ IsFiniteSet(exec_table)'
  BY DEF IndInv, Accounted
<1>5. CASE rpc = "run"
  BY <1>1, <1>2, <1>3, <1>4, <1>5 DEF IndInv, BeforeRun
<1>6. CASE rpc # "run"
  <2>1. StackInv'
    BY <1>6 DEF IndInv, StackInv, Shape, Running
  <2> QED
    BY <1>1, <1>2, <1>3, <1>4, <1>6, <2>1 DEF IndInv
<1> QED
  BY <1>5, <1>6

\* A function runs: no bucket is being found due or erased
LEMMA InFunctionBucket ==
  ASSUME IndInv, InFunction
  PROVE  rpc \notin {"run", "first", "erase"} /\ current # Main
BY DEF InFunction, IndInv, TypeOK, BucketInv, Context

\* What the scheduler's thread adds comes into no earlier bucket
LEMMA LaterKept ==
  ASSUME BucketInv, TypeOK, NEW entry, NEW delay \in Nat, AddTimeCoroTask(entry, delay),
         rpc = "bucket"
  PROVE  \A t \in Time : t < due => coro_time_queue'[t] = coro_time_queue[t]
BY DEF BucketInv, AddTimeCoroTask, TypeOK, Time

\* The Routine loop stays where it is and no earlier bucket changes
LEMMA BucketKeep ==
  ASSUME BucketInv, TypeOK, rpc \notin {"first", "erase"}, UNCHANGED <<rpc, due, now>>,
         rpc = "bucket" => \A t \in Time : t < due => coro_time_queue'[t] = coro_time_queue[t]
  PROVE  BucketInv'
BY DEF BucketInv, TypeOK, Time

-----------------------------------------------------------------------------
(* Scheduler::StartCoro                                                      *)

\* The coroutine that GetCoroutine hands out, and the account afterwards
LEMMA StartAccount ==
  ASSUME IndInv, NEW f \in Func, NEW c \in Coro,
         Available(c),
         mem' = [Collected EXCEPT ![c] = "live"],
         deleting_coros' = <<>>,
         coro_pool' = IF coro_pool = <<>> THEN coro_pool ELSE Tail(coro_pool),
         exec_table' = exec_table \cup {c},
         exec_coro_num' = exec_coro_num + 1
  PROVE  /\ c \notin exec_table
         /\ Accounted'
         /\ IsFiniteSet(exec_table)'
<1>1. Accounted /\ TypeOK /\ IsFiniteSet(exec_table)
  BY DEF IndInv
<1> DEFINE live == {x \in Coro : mem[x] = "live"}
<1>2. /\ live = exec_table \cup Range(coro_pool) \cup Range(deleting_coros)
      /\ Range(coro_pool) \cap exec_table = {}
      /\ Range(deleting_coros) \cap (exec_table \cup Pooled) = {}
      /\ Range(coro_pool) \subseteq Pooled
      /\ IsInjective(coro_pool)
      /\ exec_coro_num = Cardinality(exec_table)
  BY <1>1 DEF Accounted
<1>3. /\ c \notin exec_table
      /\ c \notin Range(deleting_coros)
      /\ Range(coro_pool') = Range(coro_pool) \ {c}
      /\ IsInjective(coro_pool')
  <2>1. CASE coro_pool = <<>>
    <3>1. mem[c] = "unborn" /\ c \notin Range(coro_pool)
      BY <2>1, RangeEmpty DEF Available
    <3> QED
      BY <1>2, <2>1, <3>1
  <2>2. CASE coro_pool # <<>>
    <3>1. c = Head(coro_pool) /\ coro_pool' = Tail(coro_pool)
      BY <2>2 DEF Available
    <3>2. /\ IsInjective(Tail(coro_pool))
          /\ Head(coro_pool) \in Range(coro_pool)
          /\ Range(Tail(coro_pool)) = Range(coro_pool) \ {Head(coro_pool)}
      BY <1>1, <1>2, <2>2, InjectiveTail DEF TypeOK
    <3> QED
      BY <1>2, <3>1, <3>2
  <2> QED
    BY <2>1, <2>2
<1>4. Range(deleting_coros') = {} /\ IsInjective(deleting_coros')
  <2>1. DOMAIN <<>> = {}
    BY SMT
  <2> QED
    BY <2>1, RangeEmpty DEF IsInjective
<1>5. {x \in Coro : mem'[x] = "live"} = (live \ Range(deleting_coros)) \cup {c}
  BY <1>1 DEF Collected, TypeOK
<1>6. {x \in Coro : mem'[x] = "live"}
        = exec_table' \cup Range(coro_pool') \cup Range(deleting_coros')
  <2>1. Range(deleting_coros) \cap Range(coro_pool) = {}
    BY <1>2
  <2> HIDE DEF live
  <2> QED
    BY <1>2, <1>3, <1>4, <1>5, <2>1
<1>7. /\ IsFiniteSet(exec_table')
      /\ Cardinality(exec_table') = Cardinality(exec_table) + 1
  BY <1>1, <1>3, FS_AddElement
<1> HIDE DEF live
<1>8. Accounted'
  <2>1. exec_coro_num' = Cardinality(exec_table')
    BY <1>2, <1>7
  <2>2. /\ Range(coro_pool') \cap exec_table' = {}
        /\ Range(deleting_coros') \cap (exec_table' \cup Pooled) = {}
        /\ Range(coro_pool') \subseteq Pooled
    BY <1>2, <1>3, <1>4
  <2> QED
    BY <1>3, <1>4, <1>6, <2>1, <2>2 DEF Accounted
<1> QED
  BY <1>3, <1>7, <1>8

\* StartCoro keeps the invariant while the wake-ups stay as they are
LEMMA StartKeeps ==
  ASSUME IndInv, rpc # "run", NEW f \in Func, StartCoro(f),
         UNCHANGED <<join_table, posting>>,
         TimersOnce',
         \A e \in Coro \cup {Sched} : Sleeps(e)' <=> Sleeps(e),
         \A g \in Func : Sleeps(g)' => Sleeps(g)
  PROVE  /\ StackInv'
         /\ TimerInv'
         /\ JoinInv'
         /\ WaitInv'
         /\ Accounted'
         /\ IsFiniteSet(exec_table)'
<1>1. PICK c \in Coro :
        /\ Available(c)
        /\ mem' = [Collected EXCEPT ![c] = "live"]
        /\ deleting_coros' = <<>>
        /\ coro_pool' = IF coro_pool = <<>> THEN coro_pool ELSE Tail(coro_pool)
        /\ func' = [func EXCEPT ![c] = f]
        /\ exec_table' = exec_table \cup {c}
        /\ exec_coro_num' = exec_coro_num + 1
        /\ life' = [life EXCEPT ![f] = "running"]
        /\ Resume(c, FALSE)
  BY DEF StartCoro
<1>2. /\ c \notin exec_table
      /\ Accounted'
      /\ IsFiniteSet(exec_table)'
  BY <1>1, StartAccount
<1>3. /\ StackInv /\ TypeOK /\ TimerInv /\ JoinInv /\ WaitInv
      /\ Running \subseteq exec_table \cup {Sched}
  BY DEF IndInv, StackInv
<1>4. /\ current \in Context /\ current # NULL /\ ~waiting[current]
      /\ coro_stack \in Seq(Context)
      /\ c \in Context /\ c # Sched /\ ~waiting[c]
      /\ c \notin Range(coro_stack) /\ c # current
  BY <1>2, <1>3, Runs DEF Context, Running
<1>5. /\ coro_stack' = Append(coro_stack, current)
      /\ current' = c
      /\ waiting' = waiting
  BY <1>1, <1>3, <1>4 DEF Resume, ResumeFrom, TypeOK
<1>6. /\ Shape(coro_stack', current')
      /\ Running' = Running \cup {c}
  BY <1>3, <1>4, <1>5, ShapePush DEF StackInv, Running
<1>7. StackInv'
  BY <1>1, <1>3, <1>4, <1>5, <1>6 DEF StackInv
<1>8. TimerInv'
  <2>1. \A g \in Func : life[g] # "unused" => life'[g] # "unused"
    BY <1>1, <1>3 DEF TypeOK
  <2> QED
    BY <1>1, <1>3, <2>1 DEF TimerInv
<1>9. JoinInv'
  BY <1>1, <1>3 DEF JoinInv
<1>10. WaitInv'
  BY <1>3, <1>5 DEF WaitInv, Joins
<1> QED
  BY <1>2, <1>7, <1>8, <1>9, <1>10

-----------------------------------------------------------------------------
(* CoroSleep and Join                                                        *)

\* What Wait does to the coroutines that run
LEMMA WaitStack ==
  ASSUME IndInv, rpc # "run", current \in Coro, Wait(current), UNCHANGED exec_table
  PROVE  /\ StackInv'
         /\ waiting' = [waiting EXCEPT ![current] = TRUE]
<1>1. /\ StackInv /\ TypeOK
      /\ Running \subseteq exec_table \cup {Sched}
      /\ \A c \in Running : ~waiting[c]
      /\ Shape(coro_stack, current)
  BY DEF IndInv, StackInv
<1>2. /\ current \in Context /\ current # NULL /\ current # Sched
      /\ coro_stack \in Seq(Context)
      /\ waiting \in [Context -> BOOLEAN]
  BY Runs
<1> DEFINE top   == Last(coro_stack)
           flags == [waiting EXCEPT ![current] = TRUE]
<1>3. /\ coro_stack # <<>>
      /\ Shape(Front(coro_stack), top)
      /\ top \in Range(coro_stack)
      /\ Range(Front(coro_stack)) \cup {top} = Range(coro_stack)
  BY <1>1, <1>2, ShapePop
<1>4. ~waiting[top] /\ top # current /\ top \in Context
  BY <1>1, <1>2, <1>3, RangeSeq DEF Running, Shape
<1>5. ResumeFrom(Front(coro_stack), flags, top, FALSE)
  BY <1>3 DEF Wait, YieldFrom
<1> HIDE DEF top
<1>6. flags[current]
  BY <1>2
<1>7. /\ coro_stack' = Front(coro_stack)
      /\ current' = top
      /\ waiting' = [flags EXCEPT ![top] = FALSE]
  BY <1>5, <1>6 DEF ResumeFrom
<1>8. waiting' = flags
  BY <1>2, <1>4, <1>7
<1>9. Running' = Range(coro_stack) /\ current \notin Running'
  BY <1>1, <1>3, <1>7 DEF Running, Shape
<1>10. StackInv'
  <2>1. Running' \subseteq Running
    BY <1>9 DEF Running
  <2>2. \A c \in Running' : ~waiting'[c]
    BY <1>1, <1>2, <1>8, <1>9, <2>1
  <2>3. \A c \in exec_table' : waiting'[c] \/ c \in Running'
    <3>1. ASSUME NEW c \in exec_table, c # current, c \notin Running' PROVE waiting'[c]
      <4>1. waiting[c] /\ c \in Context
        BY <1>1, <1>9, <3>1, Runs DEF StackInv, Running
      <4> QED
        BY <1>2, <1>8, <4>1
    <3>2. waiting'[current]
      BY <1>6, <1>8
    <3> QED
      BY <3>1, <3>2
  <2> QED
    BY <1>1, <1>3, <1>7, <2>1, <2>2, <2>3 DEF StackInv
<1> QED
  BY <1>8, <1>10

\* CoroSleep keeps the invariant
LEMMA SleepKeeps ==
  ASSUME IndInv, TypeOK', current \in Coro, NEW delay \in Delay, CoroSleep(delay)
  PROVE  IndInv'
<1> USE DEF coroVars, routineVars, postVars
<1>1. current \in Coro /\ rpc # "run"
  BY DEF IndInv, TypeOK
<1>2. /\ StackInv'
      /\ waiting' = [waiting EXCEPT ![current] = TRUE]
  BY <1>1, WaitStack DEF CoroSleep
<1>3. /\ ~Sleeps(current) /\ ~Joins(current) /\ current \in exec_table
      /\ TypeOK /\ TimerInv /\ JoinInv /\ WaitInv
  BY <1>1, Runs DEF IndInv
<1>4. /\ TimersOnce'
      /\ \A e : Sleeps(e)' <=> Sleeps(e) \/ e = current
  BY <1>1, <1>3, TimerAdd DEF CoroSleep, TimerInv
<1>5. \A e : Joins(e)' <=> Joins(e)
  BY DEF CoroSleep, Joins
<1>6. TimerInv'
  <2>1. current \notin Func /\ current # Sched
    BY <1>1 DEF Context
  <2> QED
    BY <1>3, <1>4, <2>1 DEF TimerInv, CoroSleep
<1>7. JoinInv'
  BY <1>3 DEF JoinInv, CoroSleep
<1>8. WaitInv'
  <2>1. \A c \in Coro \cup {Sched} : waiting'[c] <=> waiting[c] \/ c = current
    BY <1>2, <1>3 DEF TypeOK, Context
  <2> QED
    BY <1>3, <1>4, <1>5, <2>1 DEF WaitInv
<1>9. Accounted' /\ IsFiniteSet(exec_table)'
  BY DEF IndInv, Accounted, CoroSleep
<1>10. BucketInv'
  <2>1. InFunction
    BY <1>1 DEF InFunction
  <2>2. rpc = "bucket" => \A t \in Time : t < due => coro_time_queue'[t] = coro_time_queue[t]
    BY <1>3, LaterKept DEF CoroSleep, IndInv
  <2> QED
    BY <1>3, <2>1, <2>2, InFunctionBucket, BucketKeep DEF CoroSleep, IndInv
<1>11. rpc' # "run"
  BY <1>1 DEF CoroSleep
<1> QED
  BY <1>2, <1>6, <1>7, <1>8, <1>9, <1>10, <1>11 DEF IndInv

\* Join keeps the invariant
LEMMA JoinKeeps ==
  ASSUME IndInv, TypeOK', current \in Coro, NEW c \in Coro, Join(c)
  PROVE  IndInv'
<1> USE DEF coroVars, routineVars, postVars
<1>1. current \in Coro /\ rpc # "run"
  BY DEF IndInv, TypeOK
<1>2. /\ StackInv'
      /\ waiting' = [waiting EXCEPT ![current] = TRUE]
  BY <1>1, WaitStack DEF Join
<1>3. /\ ~Sleeps(current) /\ ~Joins(current) /\ current \in exec_table
      /\ TypeOK /\ TimerInv /\ JoinInv /\ WaitInv
  BY <1>1, Runs DEF IndInv
<1>4. /\ TimersOnce' <=> TimersOnce
      /\ \A e : Sleeps(e)' <=> Sleeps(e)
  BY TimerSame DEF Join
<1>5. /\ join_table' = [join_table EXCEPT ![c] = current]
      /\ c \in exec_table
      /\ join_table[c] = NULL
      /\ join_table \in [Coro -> Coro \cup {Sched, NULL}]
  BY <1>3 DEF Join, TypeOK
<1>6. TimerInv'
  BY <1>3, <1>4 DEF TimerInv, Join
<1>7. \A x \in Coro : join_table[x] # current
  BY <1>3 DEF Joins
<1>8. \A e \in Coro \cup {Sched} : Joins(e)' <=> Joins(e) \/ e = current
  <2>1. \A x \in Coro : join_table'[x] = IF x = c THEN current ELSE join_table[x]
    BY <1>5
  <2>2. ASSUME NEW e \in Coro \cup {Sched} PROVE e # NULL
    OBVIOUS
  <2> QED
    BY <1>5, <2>1, <2>2 DEF Joins
<1>9. JoinInv'
  <2>1. \A x \in Coro : join_table'[x] = IF x = c THEN current ELSE join_table[x]
    BY <1>5
  <2>2. UNCHANGED exec_table
    BY DEF Join
  <2> QED
    BY <1>1, <1>3, <1>5, <1>7, <2>1, <2>2 DEF JoinInv
<1>10. WaitInv'
  <2>1. \A e \in Coro \cup {Sched} : waiting'[e] <=> waiting[e] \/ e = current
    BY <1>2, <1>3 DEF TypeOK, Context
  <2> QED
    BY <1>3, <1>4, <1>8, <2>1 DEF WaitInv
<1>11. Accounted' /\ IsFiniteSet(exec_table)'
  BY DEF IndInv, Accounted, Join
<1>12. BucketInv'
  BY <1>1, <1>3, InFunctionBucket, BucketKeep DEF Join, IndInv, InFunction
<1>13. rpc' # "run"
  BY <1>1 DEF Join
<1> QED
  BY <1>2, <1>6, <1>9, <1>10, <1>11, <1>12, <1>13 DEF IndInv

-----------------------------------------------------------------------------
(* CoroDone                                                                  *)

\* The account when coroutine c is retired or becomes idle
LEMMA DoneAccount ==
  ASSUME IndInv, NEW c \in exec_table, Retire(c), UNCHANGED mem,
         exec_table' = exec_table \ {c},
         exec_coro_num' = exec_coro_num - 1
  PROVE  Accounted' /\ IsFiniteSet(exec_table)'
<1>1. Accounted /\ TypeOK /\ IsFiniteSet(exec_table) /\ c \in Coro
  BY DEF IndInv, TypeOK
<1>2. /\ {x \in Coro : mem[x] = "live"}
            = exec_table \cup Range(coro_pool) \cup Range(deleting_coros)
      /\ Range(coro_pool) \cap exec_table = {}
      /\ Range(deleting_coros) \cap (exec_table \cup Pooled) = {}
      /\ Range(coro_pool) \subseteq Pooled
      /\ IsInjective(coro_pool)
      /\ IsInjective(deleting_coros)
      /\ exec_coro_num = Cardinality(exec_table)
  BY <1>1 DEF Accounted
<1>3. /\ IsFiniteSet(exec_table')
      /\ Cardinality(exec_table') = Cardinality(exec_table) - 1
  BY <1>1, FS_RemoveElement
<1>4. exec_coro_num' = Cardinality(exec_table')
  BY <1>2, <1>3
<1>5. CASE c \in Pooled
  <2>1. coro_pool' = Append(coro_pool, c) /\ deleting_coros' = deleting_coros
    BY <1>5 DEF Retire
  <2>2. c \notin Range(coro_pool)
    BY <1>2
  <2>3. Range(coro_pool') = Range(coro_pool) \cup {c} /\ IsInjective(coro_pool')
    BY <1>1, <1>2, <2>1, <2>2, RangeAppend, InjectiveAppend DEF TypeOK
  <2>4. /\ Range(coro_pool') \cap exec_table' = {}
        /\ Range(deleting_coros') \cap (exec_table' \cup Pooled) = {}
        /\ Range(coro_pool') \subseteq Pooled
        /\ {x \in Coro : mem'[x] = "live"}
              = exec_table' \cup Range(coro_pool') \cup Range(deleting_coros')
    BY <1>2, <1>5, <2>1, <2>3
  <2> QED
    BY <1>2, <1>3, <1>4, <2>1, <2>3, <2>4 DEF Accounted
<1>6. CASE c \notin Pooled
  <2>1. deleting_coros' = Append(deleting_coros, c) /\ coro_pool' = coro_pool
    BY <1>6 DEF Retire
  <2>2. c \notin Range(deleting_coros)
    BY <1>2
  <2>3. /\ Range(deleting_coros') = Range(deleting_coros) \cup {c}
        /\ IsInjective(deleting_coros')
    BY <1>1, <1>2, <2>1, <2>2, RangeAppend, InjectiveAppend DEF TypeOK
  <2>4. /\ Range(coro_pool') \cap exec_table' = {}
        /\ Range(deleting_coros') \cap (exec_table' \cup Pooled) = {}
        /\ Range(coro_pool') \subseteq Pooled
        /\ {x \in Coro : mem'[x] = "live"}
              = exec_table' \cup Range(coro_pool') \cup Range(deleting_coros')
    BY <1>2, <1>6, <2>1, <2>3
  <2> QED
    BY <1>2, <1>3, <1>4, <2>1, <2>3, <2>4 DEF Accounted
<1> QED
  BY <1>5, <1>6

\* Who runs once c is done: its joiner, or the top of the stack
LEMMA DoneSwitch ==
  ASSUME IndInv, rpc # "run", NEW c \in Coro, current = c, WakeJoiner(c),
         exec_table' = exec_table \ {c}
  PROVE  /\ StackInv'
         /\ join_table' = [join_table EXCEPT ![c] = NULL]
         /\ join_table[c] = NULL => current' # c /\ ~waiting[current'] /\ waiting' = waiting
         /\ join_table[c] # NULL =>
              /\ join_table[c] \in exec_table
              /\ current' = join_table[c]
              /\ waiting' = [waiting EXCEPT ![join_table[c]] = FALSE]
<1>1. /\ StackInv /\ TypeOK /\ JoinInv /\ WaitInv
      /\ Running \subseteq exec_table \cup {Sched}
      /\ \A x \in Running : ~waiting[x]
      /\ Shape(coro_stack, current)
  BY DEF IndInv, StackInv
<1>2. /\ current \in Context /\ current # NULL /\ current # Sched
      /\ coro_stack \in Seq(Context)
      /\ waiting \in [Context -> BOOLEAN]
      /\ join_table \in [Coro -> Coro \cup {Sched, NULL}]
      /\ c \notin Range(coro_stack)
  BY <1>1, Runs DEF TypeOK, Shape
<1>3. CASE join_table[c] # NULL
  <2> DEFINE j == join_table[c]
  <2>1. join_table' = [join_table EXCEPT ![c] = NULL] /\ Resume(j, TRUE)
    BY <1>3 DEF WakeJoiner
  <2>2. j \in exec_table /\ j \in Coro /\ j \in Context /\ j # Sched /\ j # NULL
    BY <1>1, <1>3, Runs DEF JoinInv, Context
  <2>3. waiting[j]
    BY <2>2, Runs DEF Joins
  <2>4. j \notin Running /\ j # c
    BY <1>1, <2>3, Runs DEF Running
  <2> HIDE DEF j
  <2>5. coro_stack' = coro_stack /\ current' = j /\ waiting' = [waiting EXCEPT ![j] = FALSE]
    BY <2>1 DEF Resume, ResumeFrom
  <2>6. Shape(coro_stack', current')
    BY <1>1, <1>2, <2>2, <2>4, <2>5, ShapeReplace DEF Running
  <2>7. Running' = (Running \ {c}) \cup {j}
    BY <1>2, <2>4, <2>5 DEF Running
  <2>8. \A x \in Context : waiting'[x] <=> waiting[x] /\ x # j
    BY <1>2, <2>5
  <2>9. StackInv'
    <3>1. Running' \subseteq exec_table' \cup {Sched}
      BY <1>1, <2>2, <2>4, <2>7
    <3>2. \A x \in Running' : ~waiting'[x]
      BY <1>1, <1>2, <2>2, <2>7, <2>8, RangeSeq DEF Running
    <3>3. \A x \in exec_table' : waiting'[x] \/ x \in Running'
      BY <1>1, <2>7, <2>8, Runs DEF StackInv
    <3> QED
      BY <2>6, <3>1, <3>2, <3>3 DEF StackInv
  <2> QED
    BY <1>3, <2>1, <2>2, <2>5, <2>9 DEF j
<1>4. CASE join_table[c] = NULL
  <2> DEFINE top == Last(coro_stack)
  <2>1. join_table' = join_table /\ Yield(TRUE)
    BY <1>4 DEF WakeJoiner
  <2>2. /\ coro_stack # <<>>
        /\ Shape(Front(coro_stack), top)
        /\ top \in Range(coro_stack)
        /\ Range(Front(coro_stack)) \cup {top} = Range(coro_stack)
    BY <1>1, <1>2, ShapePop
  <2>3. ResumeFrom(Front(coro_stack), waiting, top, TRUE)
    BY <2>1, <2>2 DEF Yield, YieldFrom
  <2> HIDE DEF top
  <2>4. coro_stack' = Front(coro_stack) /\ current' = top
        /\ waiting' = [waiting EXCEPT ![top] = FALSE]
    BY <2>3 DEF ResumeFrom
  <2>5. ~waiting[top] /\ top \in Context /\ top # c
    BY <1>1, <1>2, <2>2, RangeSeq DEF Running
  <2>6. waiting' = waiting
    BY <1>2, <2>4, <2>5
  <2>7. Running' = Running \ {c}
    BY <1>2, <2>2, <2>4 DEF Running
  <2>8. StackInv'
    BY <1>1, <2>2, <2>4, <2>6, <2>7 DEF StackInv
  <2>9. join_table' = [join_table EXCEPT ![c] = NULL]
    BY <1>2, <1>4, <2>1
  <2> QED
    BY <1>4, <2>4, <2>5, <2>6, <2>8, <2>9
<1> QED
  BY <1>3, <1>4

\* CoroDone keeps the invariant
LEMMA DoneKeeps ==
  ASSUME IndInv, TypeOK', NEW c \in Coro, CoroDone(c)
  PROVE  IndInv'
<1> USE DEF routineVars, postVars
<1>1. /\ current = c /\ rpc # "run"
      /\ TypeOK /\ TimerInv /\ JoinInv /\ WaitInv
      /\ join_table \in [Coro -> Coro \cup {Sched, NULL}]
  BY DEF CoroDone, IndInv, TypeOK
<1>2. /\ c \in exec_table /\ ~waiting[c] /\ ~Sleeps(c) /\ ~Joins(c)
      /\ exec_table \subseteq Coro
      /\ waiting \in [Context -> BOOLEAN]
  BY <1>1, Runs
<1>3. exec_table' = exec_table \ {c} /\ exec_coro_num' = exec_coro_num - 1
  BY <1>2 DEF CoroDone
<1>4. /\ StackInv'
      /\ join_table' = [join_table EXCEPT ![c] = NULL]
      /\ join_table[c] = NULL => current' # c /\ ~waiting[current'] /\ waiting' = waiting
      /\ join_table[c] # NULL =>
           /\ join_table[c] \in exec_table
           /\ current' = join_table[c]
           /\ waiting' = [waiting EXCEPT ![join_table[c]] = FALSE]
  BY <1>1, <1>3, DoneSwitch DEF CoroDone
<1>5. Accounted' /\ IsFiniteSet(exec_table)'
  BY <1>2, <1>3, DoneAccount DEF CoroDone
<1>6. /\ TimersOnce' <=> TimersOnce
      /\ \A e : Sleeps(e)' <=> Sleeps(e)
  BY TimerSame DEF CoroDone
<1>7. TimerInv'
  <2>1. \A f \in Func : life[f] # "unused" => life'[f] # "unused"
    BY <1>1 DEF CoroDone, TypeOK
  <2>2. UNCHANGED posting
    BY DEF CoroDone
  <2> QED
    BY <1>1, <1>2, <1>3, <1>6, <2>1, <2>2 DEF TimerInv
<1>8. \A x \in Coro : join_table'[x] = IF x = c THEN NULL ELSE join_table[x]
  BY <1>1, <1>4
<1>9. \A x \in Coro : join_table[x] # c
  BY <1>2 DEF Joins
<1>10. JoinInv'
  BY <1>1, <1>3, <1>8, <1>9 DEF JoinInv
<1>11. \A e \in Coro \cup {Sched} : Joins(e)' <=> Joins(e) /\ e # join_table[c]
  <2>1. ASSUME NEW e \in Coro \cup {Sched}, Joins(e)' PROVE Joins(e) /\ e # join_table[c]
    <3>1. PICK x \in Coro : join_table'[x] = e
      BY <2>1 DEF Joins
    <3>2. e # NULL
      OBVIOUS
    <3>3. x # c /\ join_table[x] = e
      BY <1>8, <3>1, <3>2
    <3> QED
      BY <1>1, <3>2, <3>3 DEF Joins, JoinInv
  <2>2. ASSUME NEW e \in Coro \cup {Sched}, Joins(e), e # join_table[c] PROVE Joins(e)'
    <3>1. PICK x \in Coro : join_table[x] = e
      BY <2>2 DEF Joins
    <3> QED
      BY <1>8, <2>2, <3>1 DEF Joins
  <2> QED
    BY <2>1, <2>2
<1>12. WaitInv'
  <2>1. \A e \in Coro \cup {Sched} : waiting'[e] <=> waiting[e] /\ e # join_table[c]
    BY <1>2, <1>4 DEF Context
  <2>2. Joins(join_table[c]) \/ join_table[c] = NULL
    BY DEF Joins
  <2> QED
    BY <1>1, <1>6, <1>11, <2>1, <2>2 DEF WaitInv
<1>13. BucketInv'
  BY <1>1, InFunctionBucket, BucketKeep DEF CoroDone, IndInv, InFunction
<1>14. rpc' # "run"
  BY <1>1 DEF CoroDone
<1> QED
  BY <1>4, <1>5, <1>7, <1>10, <1>12, <1>13, <1>14 DEF IndInv

-----------------------------------------------------------------------------
(* The Routine loop                                                          *)

\* CheckTimeQueue resumes a sleeper
LEMMA WakeSleeper ==
  ASSUME IndInv, TypeOK', InvokeDue,
         Head(coro_time_queue[due]) \in Context,
         Resume(Head(coro_time_queue[due]), FALSE),
         UNCHANGED <<coroVars, life, direct>>
  PROVE  IndInv'
<1> USE DEF coroVars, routineVars, postVars
<1> DEFINE e == Head(coro_time_queue[due])
<1>1. /\ current = Sched /\ rpc # "run" /\ rpc' # "run"
      /\ TypeOK /\ TimerInv /\ JoinInv /\ WaitInv /\ StackInv
  BY DEF InvokeDue, InRoutine, IndInv
<1>2. /\ TimersOnce'
      /\ Sleeps(e)
      /\ \A x : Sleeps(x)' <=> Sleeps(x) /\ x # e
  <2>1. coro_time_queue[due] # <<>>
        /\ coro_time_queue' = [coro_time_queue EXCEPT ![due] = Tail(@)]
    BY DEF InvokeDue
  <2>2. TimersOnce
    BY <1>1 DEF TimerInv
  <2> QED
    BY <1>1, <2>1, <2>2, TimerPop
<1> HIDE DEF e
<1>3. e \in Coro
  <2>1. PICK t \in Time : \E i \in DOMAIN coro_time_queue[t] : coro_time_queue[t][i] = e
    BY <1>2 DEF Sleeps
  <2>2. coro_time_queue[t] \in Seq(Func \cup Coro \cup {Sched})
    BY <1>1 DEF TypeOK
  <2>3. e \in Func \cup Coro \cup {Sched}
    BY <2>1, <2>2, RangeSeq
  <2>4. e # Sched /\ e \in Context
    BY <1>1, <1>2 DEF TimerInv, e
  <2> QED
    BY <2>3, <2>4
<1>4. /\ e \in exec_table /\ waiting[e] /\ ~Joins(e) /\ e # Sched /\ e # NULL
      /\ e \in Context /\ e \notin Running
  BY <1>1, <1>2, <1>3, Runs DEF WaitInv, Context, StackInv
<1>5. coro_stack = <<>> /\ coro_stack \in Seq(Context) /\ waiting \in [Context -> BOOLEAN]
      /\ Sched \in Context /\ ~waiting[Sched]
  BY <1>1, Runs DEF StackInv, Shape, Context
<1>6. /\ coro_stack' = Append(coro_stack, Sched)
      /\ current' = e
      /\ waiting' = [waiting EXCEPT ![e] = FALSE]
  BY <1>1, <1>5 DEF Resume, ResumeFrom, e
<1>7. /\ Shape(coro_stack', current')
      /\ Running' = Running \cup {e}
  <2>1. Shape(coro_stack, Sched) /\ e # Sched /\ e \notin Range(coro_stack)
    BY <1>1, <1>4 DEF StackInv, Running
  <2>2. /\ Shape(Append(coro_stack, Sched), e)
        /\ Range(Append(coro_stack, Sched)) \cup {e} = Range(coro_stack) \cup {Sched, e}
    <3>1. /\ coro_stack \in Seq(Context) /\ Sched \in Context /\ e \in Context
          /\ e # Sched /\ e \notin Range(coro_stack)
      BY <1>4, <1>5, <2>1
    <3> QED
      BY <2>1, <3>1, ShapePush
  <2> QED
    BY <1>1, <1>6, <2>2 DEF Running
<1>8. \A x \in Context : waiting'[x] <=> waiting[x] /\ x # e
  BY <1>5, <1>6
<1>9. UNCHANGED exec_table /\ exec_table \subseteq Context
  BY <1>1, Runs
<1>10. StackInv'
  <2>1. Running \subseteq Context
    BY <1>1, <1>9 DEF StackInv, Context
  <2>2. Running' \subseteq exec_table' \cup {Sched}
    BY <1>1, <1>4, <1>7, <1>9 DEF StackInv
  <2>3. \A x \in Running' : ~waiting'[x]
    BY <1>1, <1>4, <1>7, <1>8, <2>1 DEF StackInv
  <2>4. \A x \in exec_table' : waiting'[x] \/ x \in Running'
    BY <1>1, <1>7, <1>8, <1>9 DEF StackInv
  <2> QED
    BY <1>7, <2>2, <2>3, <2>4 DEF StackInv
<1>11. TimerInv'
  <2>1. UNCHANGED <<life, posting>>
    BY DEF InvokeDue
  <2> QED
    BY <1>1, <1>2, <1>9, <2>1 DEF TimerInv
<1>12. JoinInv' /\ \A x : Joins(x)' <=> Joins(x)
  BY <1>1, <1>9 DEF JoinInv, Joins, InvokeDue
<1>13. WaitInv'
  BY <1>1, <1>2, <1>4, <1>8, <1>12 DEF WaitInv, Context
<1>14. Accounted' /\ IsFiniteSet(exec_table)'
  BY DEF IndInv, Accounted
<1>15. BucketInv'
  <2>1. \A t \in Time : t < due => coro_time_queue'[t] = coro_time_queue[t]
    BY <1>1 DEF InvokeDue, TypeOK, Time
  <2>2. rpc = "bucket" /\ UNCHANGED <<rpc, due, now>>
    BY DEF InvokeDue, InRoutine
  <2> QED
    BY <1>1, <2>1, <2>2, BucketKeep DEF IndInv
<1> QED
  BY <1>1, <1>10, <1>11, <1>12, <1>13, <1>14, <1>15 DEF IndInv

\* CheckTimeQueue invokes a call
LEMMA InvokeDueCall ==
  ASSUME IndInv, TypeOK', InvokeDue,
         Head(coro_time_queue[due]) \in Func,
         Invoke(Head(coro_time_queue[due]))
  PROVE  IndInv'
<1> USE DEF routineVars, postVars
<1> DEFINE f == Head(coro_time_queue[due])
<1>1. /\ current = Sched /\ rpc # "run" /\ rpc' # "run"
      /\ TypeOK /\ TimerInv /\ JoinInv /\ WaitInv /\ StackInv
      /\ UNCHANGED <<join_table, posting>>
  BY DEF InvokeDue, InRoutine, IndInv
<1>2. /\ TimersOnce'
      /\ \A x : Sleeps(x)' <=> Sleeps(x) /\ x # f
  <2>1. coro_time_queue[due] # <<>>
        /\ coro_time_queue' = [coro_time_queue EXCEPT ![due] = Tail(@)]
    BY DEF InvokeDue
  <2>2. TimersOnce
    BY <1>1 DEF TimerInv
  <2> QED
    BY <1>1, <2>1, <2>2, TimerPop
<1>3. BucketInv'
  <2>1. \A t \in Time : t < due => coro_time_queue'[t] = coro_time_queue[t]
    BY <1>1 DEF InvokeDue, TypeOK, Time
  <2>2. rpc = "bucket" /\ UNCHANGED <<rpc, due, now>>
    BY DEF InvokeDue, InRoutine
  <2> QED
    BY <1>1, <2>1, <2>2, BucketKeep DEF IndInv
<1> HIDE DEF f
<1>4. f \in Func /\ Invoke(f)
  BY DEF f
<1>5. \A x \in Coro \cup {Sched} : Sleeps(x)' <=> Sleeps(x)
  BY <1>2, <1>4 DEF Context
<1>6. CASE StartCoro(f)
  <2>1. /\ StackInv' /\ TimerInv' /\ JoinInv' /\ WaitInv'
        /\ Accounted' /\ IsFiniteSet(exec_table)'
    BY <1>1, <1>2, <1>4, <1>5, <1>6, StartKeeps
  <2> QED
    BY <1>1, <1>3, <2>1 DEF IndInv
<1>7. CASE /\ UNCHANGED <<switchVars, coroVars>>
           /\ life' = [life EXCEPT ![f] = "running"]
  <2> USE DEF switchVars, coroVars
  <2>1. StackInv'
    BY <1>1, <1>7 DEF StackInv, Shape, Running
  <2>2. TimerInv'
    <3>1. \A g \in Func : life[g] # "unused" => life'[g] # "unused"
      BY <1>1, <1>7 DEF TypeOK
    <3> QED
      BY <1>1, <1>2, <1>5, <1>7, <3>1 DEF TimerInv
  <2>3. JoinInv' /\ \A x : Joins(x)' <=> Joins(x)
    BY <1>1, <1>7 DEF JoinInv, Joins
  <2>4. WaitInv'
    BY <1>1, <1>5, <1>7, <2>3 DEF WaitInv
  <2>5. Accounted' /\ IsFiniteSet(exec_table)'
    BY <1>7 DEF IndInv, Accounted
  <2> QED
    BY <1>1, <1>3, <2>1, <2>2, <2>3, <2>4, <2>5 DEF IndInv
<1> QED
  BY <1>4, <1>6, <1>7 DEF Invoke

\* CheckTimeQueue erases a bucket: no coroutine sleeps in it any more
LEMMA EraseKeeps ==
  ASSUME IndInv, TypeOK', EraseBucket
  PROVE  IndInv'
<1> USE DEF switchVars, coroVars
<1> DEFINE gone == Range(coro_time_queue[due])
<1>1. /\ TypeOK /\ TimerInv /\ JoinInv /\ WaitInv /\ StackInv /\ BucketInv
      /\ rpc = "erase" /\ rpc' = "timers"
      /\ coro_time_queue' = [coro_time_queue EXCEPT ![due] = <<>>]
      /\ life' = [f \in Func |-> IF f \in gone THEN "lost" ELSE life[f]]
      /\ UNCHANGED <<current, coro_stack, waiting, coroVars, join_table>>
  BY DEF EraseBucket, InRoutine, IndInv
<1>2. gone \subseteq Func
  BY <1>1 DEF BucketInv, TypeOK
<1>3. posting'.call = posting.call
  <2>1. CASE posting.at = "add"
    BY <2>1, PostingType DEF EraseBucket, IndInv
  <2>2. CASE posting.at # "add"
    BY <2>2 DEF EraseBucket
  <2> QED
    BY <2>1, <2>2
<1>4. /\ TimersOnce'
      /\ \A e : Sleeps(e)' <=> Sleeps(e) /\ e \notin gone
  BY <1>1, TimerErase DEF TimerInv, TypeOK
<1> HIDE DEF gone
<1>5. /\ \A e \in Coro \cup {Sched} : (Sleeps(e)' <=> Sleeps(e))
      /\ \A e : Joins(e)' <=> Joins(e)
  BY <1>1, <1>2, <1>4 DEF Joins, Context
<1>6. TimerInv'
  <2>1. \A f \in Func : life[f] # "unused" => life'[f] # "unused"
    BY <1>1
  <2>2. UNCHANGED exec_table
    BY <1>1
  <2> QED
    BY <1>1, <1>3, <1>4, <1>5, <2>1, <2>2 DEF TimerInv
<1>7. JoinInv' /\ WaitInv'
  BY <1>1, <1>5 DEF JoinInv, WaitInv
<1>8. StackInv'
  BY <1>1 DEF StackInv, Shape, Running
<1>9. Accounted' /\ IsFiniteSet(exec_table)' /\ BucketInv'
  BY <1>1 DEF IndInv, Accounted, BucketInv
<1> QED
  BY <1>1, <1>6, <1>7, <1>8, <1>9 DEF IndInv

\* Routine keeps the invariant
LEMMA RoutineKeeps ==
  ASSUME IndInv, TypeOK', Routine
  PROVE  IndInv'
<1> USE DEF routineVars, postVars
<1>1. rpc # "run"
  BY DEF Routine, RoutineBegin, TakeTask, QueueEmpty, NoTimers, LookUpBucket, NothingDue,
         OpenBucket, InvokeDue, LeaveBucket, EraseBucket, InRoutine
<1>2. CASE RoutineBegin
  <2>1. /\ Accounted /\ TypeOK
        /\ Range(deleting_coros) \cap (exec_table \cup Pooled) = {}
        /\ Range(coro_pool) \subseteq Pooled
    BY DEF IndInv, Accounted
  <2>2. /\ UNCHANGED <<switchVars, join_table, coro_time_queue, exec_table, exec_coro_num,
                       coro_pool, life, direct, posting>>
        /\ mem' = Collected /\ deleting_coros' = <<>> /\ rpc' = "queue"
    BY <1>2 DEF RoutineBegin
  <2>3. Range(deleting_coros') = {} /\ IsInjective(deleting_coros')
    <3>1. DOMAIN <<>> = {}
      BY SMT
    <3> QED
      BY <2>2, <3>1, RangeEmpty DEF IsInjective
  <2>4. {x \in Coro : mem'[x] = "live"}
           = {x \in Coro : mem[x] = "live"} \ Range(deleting_coros)
    BY <2>1, <2>2 DEF Collected, TypeOK
  <2>5. Accounted' /\ IsFiniteSet(exec_table)'
    <3>1. {x \in Coro : mem'[x] = "live"}
             = exec_table' \cup Range(coro_pool') \cup Range(deleting_coros')
      BY <2>1, <2>2, <2>3, <2>4 DEF Accounted
    <3> QED
      BY <2>1, <2>2, <2>3, <3>1 DEF Accounted, IndInv
  <2>6. StackInv'
    BY <1>1, <2>2 DEF IndInv, StackInv, Shape, Running, switchVars
  <2>7. \A e : (Sleeps(e)' <=> Sleeps(e)) /\ (Joins(e)' <=> Joins(e))
    BY <2>2, TimerSame DEF Joins
  <2>8. TimersOnce'
    BY <2>2, TimerSame DEF IndInv, TimerInv
  <2>9. TimerInv' /\ JoinInv' /\ WaitInv'
    BY <2>2, <2>7, <2>8 DEF IndInv, TimerInv, JoinInv, WaitInv, switchVars
  <2>10. BucketInv'
    BY <2>2 DEF BucketInv
  <2> QED
    BY <2>2, <2>5, <2>6, <2>9, <2>10 DEF IndInv
<1>3. CASE TakeTask
  <2> DEFINE f == Head(coro_queue)
  <2>1. f \in Func
    BY <1>3, HeadTail DEF TakeTask, IndInv, TypeOK
  <2>2. /\ UNCHANGED <<join_table, coro_time_queue, rpc, due, now, posting>>
        /\ Invoke(f) /\ rpc = "queue"
    BY <1>3 DEF TakeTask, InRoutine
  <2>3. BucketInv'
    BY <2>2 DEF BucketInv
  <2> HIDE DEF f
  <2>4. CASE StartCoro(f)
    <3>1. TimersOnce' /\ \A e : Sleeps(e)' <=> Sleeps(e)
      BY <2>2, TimerSame DEF IndInv, TimerInv
    <3>2. /\ StackInv' /\ TimerInv' /\ JoinInv' /\ WaitInv'
          /\ Accounted' /\ IsFiniteSet(exec_table)'
      BY <1>1, <2>1, <2>2, <2>4, <3>1, StartKeeps
    <3> QED
      BY <1>1, <2>2, <2>3, <3>2 DEF IndInv
  <2>5. CASE UNCHANGED <<switchVars, coroVars>> /\ life' = [life EXCEPT ![f] = "running"]
    <3>1. \A g \in Func : life[g] # "unused" => life'[g] # "unused"
      BY <2>5 DEF IndInv, TypeOK
    <3> QED
      BY <1>1, <2>2, <2>3, <2>5, <3>1, Frame
  <2> QED
    BY <2>2, <2>4, <2>5 DEF Invoke
<1>4. CASE QueueEmpty \/ NoTimers \/ NothingDue
  <2>1. BucketInv'
    BY <1>4 DEF BucketInv, QueueEmpty, NoTimers, NothingDue
  <2> QED
    BY <1>1, <1>4, <2>1, Frame DEF QueueEmpty, NoTimers, NothingDue
<1>5. CASE LookUpBucket
  <2>1. \A t \in Time : t < due' => coro_time_queue[t] = <<>>
    BY <1>5 DEF LookUpBucket, FirstBucket, HasKey
  <2>2. Range(<<>>) = {}
    BY RangeEmpty
  <2>3. BucketInv'
    BY <1>5, <2>1, <2>2 DEF BucketInv, LookUpBucket, InRoutine, switchVars
  <2> QED
    BY <1>1, <1>5, <2>3, Frame DEF LookUpBucket
<1>6. CASE OpenBucket
  <2>1. BucketInv'
    BY <1>6 DEF IndInv, BucketInv, OpenBucket, InRoutine
  <2> QED
    BY <1>1, <1>6, <2>1, Frame DEF OpenBucket
<1>7. CASE InvokeDue
  BY <1>7, WakeSleeper, InvokeDueCall DEF InvokeDue
<1>8. CASE LeaveBucket
  <2>1. Range(<<>>) = {}
    BY RangeEmpty
  <2>2. BucketInv'
    BY <1>8, <2>1 DEF IndInv, BucketInv, LeaveBucket, InRoutine, switchVars
  <2> QED
    BY <1>1, <1>8, <2>2, Frame DEF LeaveBucket
<1>9. CASE EraseBucket
  BY <1>9, EraseKeeps
<1> QED
  BY <1>2, <1>3, <1>4, <1>5, <1>6, <1>7, <1>8, <1>9 DEF Routine

-----------------------------------------------------------------------------
(* All the steps                                                             *)

\* A call that a function posts with a delay
LEMMA PostKeeps ==
  ASSUME IndInv, TypeOK', NEW f \in Func, NEW d \in Delay,
         InFunction, AddTimeCoroTask(f, d), life[f] = "unused",
         life' = [life EXCEPT ![f] = "queued"],
         UNCHANGED <<switchVars, coroVars, join_table, rpc, due, now, direct, posting>>
  PROVE  IndInv'
<1> USE DEF switchVars, coroVars
<1>1. TypeOK /\ TimerInv /\ JoinInv /\ WaitInv /\ ~Sleeps(f)
  BY DEF IndInv, TimerInv
<1>2. /\ TimersOnce'
      /\ \A e : Sleeps(e)' <=> Sleeps(e) \/ e = f
  BY <1>1, TimerAdd DEF TimerInv
<1>3. \A e \in Coro \cup {Sched} : (Sleeps(e)' <=> Sleeps(e)) /\ (Joins(e)' <=> Joins(e))
  BY <1>2 DEF Context, Joins
<1>4. TimerInv'
  <2>1. \A g \in Func : Sleeps(g)' => life'[g] # "unused"
    BY <1>1, <1>2 DEF TimerInv, TypeOK
  <2> QED
    BY <1>1, <1>2, <1>3, <2>1 DEF TimerInv
<1>5. JoinInv' /\ WaitInv'
  BY <1>1, <1>3 DEF JoinInv, WaitInv
<1>6. BucketInv'
  <2>1. rpc = "bucket" => \A t \in Time : t < due => coro_time_queue'[t] = coro_time_queue[t]
    BY <1>1, LaterKept DEF IndInv
  <2> QED
    BY <1>1, <2>1, InFunctionBucket, BucketKeep DEF IndInv
<1>7. Accounted' /\ IsFiniteSet(exec_table)'
  BY DEF IndInv, Accounted
<1>8. StackInv' /\ rpc' # "run"
  BY InFunctionBucket DEF IndInv, StackInv, Shape, Running
<1> QED
  BY <1>4, <1>5, <1>6, <1>7, <1>8 DEF IndInv

\* Another thread's timed call comes into its bucket
LEMMA AddCallKeeps ==
  ASSUME IndInv, TypeOK', AddCall
  PROVE  IndInv'
<1> USE DEF switchVars, coroVars, routineVars
<1> DEFINE f == posting.call
           k == posting.ts
<1>1. /\ TypeOK /\ TimerInv /\ JoinInv /\ WaitInv /\ BucketInv
      /\ f \in Func /\ k \in Time /\ ~Sleeps(f) /\ life[f] # "unused"
      /\ coro_time_queue' = [coro_time_queue EXCEPT ![k] = Append(@, f)]
      /\ late' = IF k <= now THEN late \cup {f} ELSE late
      /\ posting' = Idle
      /\ UNCHANGED <<current, coro_stack, waiting, coroVars, join_table, life, rpc, due,
                     direct, now>>
  BY PostingType DEF AddCall, Posting, IndInv, TimerInv
<1> HIDE DEF f, k
<1>2. /\ TimersOnce'
      /\ \A e : Sleeps(e)' <=> Sleeps(e) \/ e = f
  BY <1>1, TimerInsert DEF TimerInv
<1>3. \A e \in Coro \cup {Sched} : (Sleeps(e)' <=> Sleeps(e)) /\ (Joins(e)' <=> Joins(e))
  BY <1>1, <1>2 DEF Context, Joins
<1>4. TimerInv'
  <2>1. \A g \in Func : posting'.call # g
    BY <1>1 DEF Idle
  <2> QED
    BY <1>1, <1>2, <1>3, <2>1 DEF TimerInv
<1>5. JoinInv' /\ WaitInv'
  BY <1>1, <1>3 DEF JoinInv, WaitInv
<1>6. Range(coro_time_queue'[k]) = Range(coro_time_queue[k]) \cup {f}
      /\ \A t \in Time : t # k => coro_time_queue'[t] = coro_time_queue[t]
  BY <1>1, RangeAppend DEF TypeOK
<1>7. BucketInv'
  <2>1. \A t \in Time : Range(coro_time_queue[t]) \subseteq Func
                          => Range(coro_time_queue'[t]) \subseteq Func
    BY <1>1, <1>6
  <2>2. ASSUME rpc = "erase" PROVE Range(coro_time_queue'[due]) \subseteq late'
    <3>1. due <= now /\ Range(coro_time_queue[due]) \subseteq late /\ due \in Time
      BY <1>1, <2>2 DEF BucketInv, TypeOK
    <3> QED
      BY <1>1, <1>6, <3>1
  <2> QED
    BY <1>1, <2>1, <2>2 DEF BucketInv
<1>8. Accounted' /\ IsFiniteSet(exec_table)'
  BY <1>1 DEF IndInv, Accounted
<1>9. CASE rpc = "run"
  BY <1>1, <1>4, <1>5, <1>7, <1>8, <1>9 DEF IndInv, BeforeRun
<1>10. CASE rpc # "run"
  <2>1. StackInv'
    BY <1>1, <1>10 DEF IndInv, StackInv, Shape, Running
  <2> QED
    BY <1>1, <1>4, <1>5, <1>7, <1>8, <1>10, <2>1 DEF IndInv
<1> QED
  BY <1>9, <1>10

\* What other threads do keeps the invariant
LEMMA ForeignKeeps ==
  ASSUME IndInv, TypeOK', Foreign
  PROVE  IndInv'
<1> USE DEF routineVars, switchVars
<1>1. CASE AddCall
  BY <1>1, AddCallKeeps
<1>2. CASE FindBucket
  <2>1. posting'.call = posting.call
    BY <1>2, PostingType DEF FindBucket, Posting, IndInv
  <2>2. BucketInv'
    BY <1>2 DEF FindBucket, IndInv, BucketInv
  <2> QED
    BY <1>2, <2>1, <2>2, Frame DEF FindBucket
<1>3. CASE AddFreed
  <2>1. \A g \in Func : posting'.call # g
    BY <1>3 DEF AddFreed, Idle
  <2>2. BucketInv'
    BY <1>3 DEF AddFreed, IndInv, BucketInv
  <2>3. \A g \in Func : life[g] # "unused" => life'[g] # "unused"
    BY <1>3 DEF AddFreed, IndInv, TypeOK
  <2> QED
    BY <1>3, <2>1, <2>2, <2>3, Frame DEF AddFreed
<1>4. ASSUME NEW f \in Func, NEW create \in BOOLEAN, NEW d \in Delay \cup {0},
             PushCoroTask(f, create, d)
      PROVE  IndInv'
  <2>1. /\ life[f] = "unused"
        /\ life' = [life EXCEPT ![f] = "queued"]
        /\ posting' = posting \/ posting' = [at |-> "find", call |-> f, ts |-> now + d]
        /\ UNCHANGED <<switchVars, coroVars, join_table, coro_time_queue, rpc, due, now,
                       direct, late>>
    BY <1>4 DEF PushCoroTask
  <2>2. \A g \in Func : life[g] # "unused" => life'[g] # "unused"
    BY <2>1 DEF IndInv, TypeOK
  <2>3. life'[f] # "unused"
    BY <2>1 DEF IndInv, TypeOK
  <2>4. \A g \in Func : posting'.call = g => posting.call = g \/ g = f
    BY <2>1
  <2>5. BucketInv'
    BY <2>1 DEF IndInv, BucketInv
  <2> QED
    BY <2>1, <2>2, <2>3, <2>4, <2>5, Frame
<1> QED
  BY <1>1, <1>2, <1>3, <1>4 DEF Foreign, Post, ForeignStartCoro, ForeignStartCoroAfter

\* The scheduler's end: Run has returned, for the reason EndsOnlyByDirect gives
Ended ==
  /\ TypeOK
  /\ TimersOnce
  /\ current = Main
  /\ direct # NULL
  /\ waiting[Sched]

\* A function that sched_coro runs itself waits: Yield falls back on Main
LEMMA BlockingEnds ==
  ASSUME IndInv, TypeOK', TimersOnce', current = Sched, direct # NULL,
         Wait(current), UNCHANGED direct
  PROVE  Ended'
<1>1. /\ TypeOK /\ rpc # "run"
      /\ StackInv
  BY DEF IndInv, TypeOK
<1>2. coro_stack = <<>> /\ waiting \in [Context -> BOOLEAN]
  BY <1>1 DEF StackInv, Shape, TypeOK
<1> DEFINE flags == [waiting EXCEPT ![Sched] = TRUE]
<1>3. current' = Main /\ waiting' = [flags EXCEPT ![Main] = FALSE]
  BY <1>2 DEF Wait, YieldFrom, ResumeFrom
<1>4. waiting'[Sched]
  BY <1>2, <1>3 DEF Context
<1> QED
  BY <1>3, <1>4 DEF Ended

\* The functions on the scheduler's thread keep the invariant
LEMMA FunctionKeeps ==
  ASSUME IndInv, TypeOK', Function
  PROVE  IndInv' \/ (BlockingDirect /\ Ended')
<1> USE DEF routineVars, postVars
<1>0. InFunction => rpc # "run"
  BY DEF InFunction, IndInv, TypeOK
<1>1. ASSUME NEW f \in Func, CallStartCoro(f) PROVE IndInv'
  <2>1. /\ UNCHANGED <<join_table, coro_time_queue, rpc, due, now, posting>>
        /\ rpc # "run" /\ StartCoro(f) /\ InFunction
    BY <1>0, <1>1 DEF CallStartCoro
  <2>2. TimersOnce' /\ \A e : Sleeps(e)' <=> Sleeps(e)
    BY <2>1, TimerSame DEF IndInv, TimerInv
  <2>3. /\ StackInv' /\ TimerInv' /\ JoinInv' /\ WaitInv'
        /\ Accounted' /\ IsFiniteSet(exec_table)'
    BY <2>1, <2>2, StartKeeps
  <2>4. BucketInv'
    BY <2>1, InFunctionBucket, BucketKeep DEF IndInv
  <2> QED
    BY <2>1, <2>3, <2>4 DEF IndInv
<1>2. ASSUME NEW f \in Func, NEW d \in Delay, NEW create \in CreateChoice,
             CallStartCoroAfter(f, d, create)
      PROVE  IndInv'
  <2>1. /\ AddTimeCoroTask(f, d) /\ life[f] = "unused"
        /\ life' = [life EXCEPT ![f] = "queued"]
        /\ UNCHANGED <<switchVars, coroVars, join_table, rpc, due, now, direct, posting>>
        /\ InFunction
    BY <1>2 DEF CallStartCoroAfter
  <2> QED
    BY <2>1, PostKeeps
<1>3. ASSUME NEW d \in Delay, CoroSleep(d)
      PROVE  IndInv' \/ (BlockingDirect /\ Ended')
  <2>1. CASE current \in Coro
    BY <1>3, <2>1, SleepKeeps
  <2>2. CASE current \notin Coro
    <3>1. /\ current = Sched /\ direct # NULL /\ BlockingDirect
          /\ AddTimeCoroTask(current, d) /\ Wait(current) /\ UNCHANGED direct
      BY <1>3, <2>2 DEF CoroSleep, MayBlock, InFunction
    <3>2. TypeOK /\ TimersOnce /\ ~Sleeps(current)
      BY <3>1 DEF IndInv, TimerInv
    <3>3. TimersOnce'
      BY <3>1, <3>2, TimerAdd
    <3> QED
      BY <3>1, <3>3, BlockingEnds
  <2> QED
    BY <2>1, <2>2
<1>4. ASSUME NEW c \in Coro, Join(c)
      PROVE  IndInv' \/ (BlockingDirect /\ Ended')
  <2>1. CASE current \in Coro
    BY <1>4, <2>1, JoinKeeps
  <2>2. CASE current \notin Coro
    <3>1. /\ current = Sched /\ direct # NULL /\ BlockingDirect
          /\ Wait(current) /\ UNCHANGED <<direct, coro_time_queue>>
      BY <1>4, <2>2 DEF Join, MayBlock, InFunction
    <3>2. TimersOnce'
      BY <3>1, TimerSame DEF IndInv, TimerInv
    <3> QED
      BY <3>1, <3>2, BlockingEnds
  <2> QED
    BY <2>1, <2>2
<1>5. ASSUME NEW c \in Coro, CoroDone(c) PROVE IndInv'
  BY <1>5, DoneKeeps
<1>6. CASE DirectReturn
  <2>0. InFunction
    BY <1>6 DEF DirectReturn, InFunction
  <2>1. BucketInv' /\ rpc # "run"
    BY <1>6, <2>0, InFunctionBucket, BucketKeep DEF DirectReturn, IndInv
  <2>2. \A g \in Func : life[g] # "unused" => life'[g] # "unused"
    BY <1>6 DEF DirectReturn, IndInv, TypeOK
  <2> QED
    BY <1>6, <2>1, <2>2, Frame DEF DirectReturn
<1> QED
  BY <1>1, <1>2, <1>3, <1>4, <1>5, <1>6 DEF Function

\* The invariant holds at first
LEMMA IndInit == Init => IndInv
<1> SUFFICES ASSUME Init PROVE IndInv
  OBVIOUS
<1>1. TypeOK
  BY TypeInit
<1>2. DOMAIN <<>> = {}
  BY SMT
<1>3. BeforeRun /\ rpc = "run" /\ BucketInv
  BY DEF Init, SwitchInit, BeforeRun, BucketInv
<1>4. \A e : ~Sleeps(e)
  BY <1>2 DEF Init, Sleeps
<1>5. TimersOnce
  BY <1>2 DEF Init, TimersOnce
<1>6. \A c \in Coro \cup {Sched} : ~Joins(c) /\ ~waiting[c]
  BY DEF Init, SwitchInit, Joins, Context
<1>7. TimerInv /\ WaitInv
  <2>1. \A f \in Func : posting.call # f
    BY DEF Init, Idle
  <2> QED
    BY <1>4, <1>5, <1>6, <2>1 DEF TimerInv, WaitInv
<1>8. JoinInv
  BY DEF Init, JoinInv
<1>9. IsFiniteSet(exec_table) /\ Cardinality(exec_table) = 0
  BY FS_EmptySet DEF Init
<1>10. Accounted
  <2>1. /\ exec_coro_num = 0 /\ exec_table = {}
        /\ coro_pool = <<>> /\ deleting_coros = <<>>
        /\ {c \in Coro : mem[c] = "live"} = {}
    BY DEF Init
  <2>2. Range(coro_pool) = {} /\ Range(deleting_coros) = {}
    BY <2>1, RangeEmpty
  <2>3. IsInjective(coro_pool) /\ IsInjective(deleting_coros)
    BY <1>2, <2>1 DEF IsInjective
  <2> QED
    BY <1>9, <2>1, <2>2, <2>3 DEF Accounted
<1> QED
  BY <1>1, <1>3, <1>7, <1>8, <1>9, <1>10 DEF IndInv

\* Run keeps the invariant
LEMMA RunKeeps ==
  ASSUME IndInv, TypeOK', Run
  PROVE  IndInv'
<1>1. /\ BeforeRun /\ TypeOK /\ TimerInv /\ JoinInv /\ WaitInv /\ Accounted
      /\ current = NULL
  BY DEF Run, IndInv, TypeOK
<1>2. /\ coro_pool' = InitPool
      /\ mem' = [c \in Coro |-> IF c \in Pooled THEN "live" ELSE mem[c]]
      /\ Resume(Sched, FALSE)
      /\ rpc' = "begin"
      /\ UNCHANGED <<func, exec_table, exec_coro_num, join_table, deleting_coros,
                     coro_time_queue, life, posting>>
  BY DEF Run, postVars
<1>3. ~Joins(Sched)
  <2>1. ASSUME NEW x \in Coro, join_table[x] = Sched PROVE FALSE
    BY <1>1, <2>1 DEF JoinInv, BeforeRun
  <2> QED
    BY <2>1 DEF Joins
<1>4. ~waiting[Sched] /\ waiting \in [Context -> BOOLEAN]
  BY <1>1, <1>3 DEF WaitInv, TimerInv, TypeOK
<1>5. coro_stack' = <<>> /\ current' = Sched /\ waiting' = waiting
  BY <1>1, <1>2, <1>4 DEF Resume, ResumeFrom, BeforeRun
<1>6. StackInv'
  <2>1. Range(coro_stack') = {} /\ IsInjective(coro_stack')
    <3>1. DOMAIN <<>> = {}
      BY SMT
    <3> QED
      BY <1>5, <3>1, RangeEmpty DEF IsInjective
  <2> QED
    BY <1>1, <1>2, <1>4, <1>5, <2>1 DEF StackInv, Shape, Running, BeforeRun
<1>7. \A e : (Sleeps(e)' <=> Sleeps(e)) /\ (Joins(e)' <=> Joins(e))
  BY <1>2, TimerSame DEF Joins
<1>8. TimersOnce'
  BY <1>1, <1>2, TimerSame DEF TimerInv
<1>9. TimerInv' /\ JoinInv' /\ WaitInv'
  BY <1>1, <1>2, <1>5, <1>7, <1>8 DEF TimerInv, JoinInv, WaitInv
<1>10. Accounted' /\ IsFiniteSet(exec_table)'
  <2>1. /\ Range(deleting_coros) = {} /\ Range(coro_pool) = {} /\ exec_table = {}
        /\ {c \in Coro : mem[c] = "live"} = {}
    BY <1>1, RangeEmpty DEF BeforeRun, Accounted
  <2>2. Pooled \subseteq Coro /\ Range(coro_pool') = Pooled /\ IsInjective(coro_pool')
    BY <1>2, RangeSeq DEF Pooled
  <2>3. {c \in Coro : mem'[c] = "live"} = Pooled
    BY <1>2, <2>1, <2>2
  <2> QED
    BY <1>1, <1>2, <2>1, <2>2, <2>3 DEF Accounted, IndInv
<1>11. BucketInv'
  BY <1>2 DEF BucketInv
<1> QED
  BY <1>2, <1>6, <1>9, <1>10, <1>11 DEF IndInv

\* Every step keeps the invariant, or makes Run return
LEMMA IndNext ==
  ASSUME IndInv, [Next]_vars
  PROVE  IndInv' \/ (BlockingDirect /\ Ended')
<1>0. TypeOK'
  BY TypeNext DEF IndInv
<1>1. CASE Run
  BY <1>0, <1>1, RunKeeps
<1>2. CASE Routine
  BY <1>0, <1>2, RoutineKeeps
<1>3. CASE Function
  BY <1>0, <1>3, FunctionKeeps
<1>4. CASE Foreign
  BY <1>0, <1>4, ForeignKeeps
<1>5. CASE Tick
  <2>1. BucketInv'
    BY <1>5 DEF Tick, IndInv, BucketInv, TypeOK, Time, routineVars, switchVars, postVars
  <2> QED
    BY <1>0, <1>5, <2>1, Frame DEF Tick, routineVars, postVars
<1>6. CASE UNCHANGED vars
  <2>1. BucketInv'
    BY <1>6 DEF vars, IndInv, BucketInv, routineVars, switchVars, postVars
  <2> QED
    BY <1>0, <1>6, <2>1, Frame DEF vars, routineVars, postVars
<1> QED
  BY <1>1, <1>2, <1>3, <1>4, <1>5, <1>6 DEF Next

\* Once Run has returned, only the time goes on
LEMMA EndedNext ==
  ASSUME Ended, [Next]_vars
  PROVE  Ended' /\ (Tick \/ UNCHANGED vars)
<1>1. /\ TypeOK /\ current = Main /\ direct # NULL /\ waiting[Sched] /\ TimersOnce
      /\ rpc # "run" /\ Main # Sched /\ Main \notin Coro
  BY DEF Ended, TypeOK
<1>2. ~Run /\ ~Routine /\ ~Function /\ ~Foreign
  <2>1. ~Run
    BY <1>1 DEF Run
  <2>2. ~Routine
    BY <1>1 DEF Routine, RoutineBegin, TakeTask, QueueEmpty, NoTimers, LookUpBucket,
                NothingDue, OpenBucket, InvokeDue, LeaveBucket, EraseBucket, InRoutine
  <2>3. ~Function
    BY <1>1 DEF Function, CallStartCoro, CallStartCoroAfter, CoroSleep, Join, CoroDone,
                DirectReturn, InFunction, MayBlock
  <2>4. ~Foreign
    BY <1>1 DEF Foreign, ForeignStartCoro, ForeignStartCoroAfter, PushCoroTask,
                Post, FindBucket, AddCall, AddFreed, Posting
  <2> QED
    BY <2>1, <2>2, <2>3, <2>4
<1>3. Tick \/ UNCHANGED vars
  BY <1>2 DEF Next
<1>4. TypeOK'
  BY <1>1, TypeNext
<1>5. UNCHANGED <<current, waiting, direct, coro_time_queue>>
  BY <1>3 DEF Tick, vars, switchVars
<1>6. TimersOnce'
  BY <1>1, <1>5, TimerSame
<1> QED
  BY <1>1, <1>3, <1>4, <1>5, <1>6 DEF Ended

(* The inductive invariant holds of every scheduler until Run returns.       *)
THEOREM UntilTheEnd == Spec => [](IndInv \/ Ended)
<1>1. Init => IndInv \/ Ended
  BY IndInit
<1>2. (IndInv \/ Ended) /\ [Next]_vars => (IndInv \/ Ended)'
  BY IndNext, EndedNext
<1> QED
  BY <1>1, <1>2, PTL DEF Spec

(* Run returns only after a function that sched_coro runs itself has slept   *)
(* or joined, whatever the coroutines did before.                            *)
THEOREM EndsCorrect == Spec => []EndsOnlyByDirect
<1>1. IndInv => EndsOnlyByDirect
  <2> SUFFICES ASSUME IndInv, current = Main PROVE FALSE
    BY DEF EndsOnlyByDirect
  <2>1. rpc # "run"
    BY DEF IndInv, TypeOK
  <2> QED
    BY <2>1, Runs
<1>2. Ended => EndsOnlyByDirect
  BY DEF Ended, EndsOnlyByDirect
<1> QED
  BY UntilTheEnd, <1>1, <1>2, PTL

(* The inductive invariant holds for ever of a scheduler whose functions do  *)
(* not block on sched_coro itself.                                           *)
THEOREM Inductive ==
  ASSUME ~BlockingDirect
  PROVE  Spec => []IndInv
<1>1. IndInv /\ [Next]_vars => IndInv'
  BY IndNext
<1> QED
  BY IndInit, <1>1, PTL DEF Spec

-----------------------------------------------------------------------------
(* What follows                                                              *)

\* One pending wake-up for each coroutine that waits, and no other
LEMMA ImpliesOneWakeup == IndInv => OneWakeup
<1> SUFFICES ASSUME IndInv PROVE OneWakeup
  OBVIOUS
<1>1. TimerInv /\ JoinInv /\ WaitInv
  BY DEF IndInv
<1>2. \A c \in Coro : \A x, y \in Coro : join_table[x] = c /\ join_table[y] = c => x = y
  BY <1>1 DEF JoinInv
<1> QED
  BY <1>1, <1>2 DEF OneWakeup, WaitInv, TimerInv

\* Who runs, and where Yield goes
LEMMA ImpliesRunStack == IndInv => RunStack
<1> SUFFICES ASSUME IndInv PROVE RunStack
  OBVIOUS
<1>1. CASE rpc = "run"
  <2>1. coro_stack = <<>> /\ exec_table = {} /\ current = NULL
    BY <1>1 DEF IndInv, BeforeRun, TypeOK
  <2>2. DOMAIN <<>> = {}
    BY SMT
  <2> QED
    BY <1>1, <2>1, <2>2 DEF RunStack, IsInjective
<1>2. CASE rpc # "run"
  <2>1. StackInv /\ TypeOK
    BY <1>2 DEF IndInv
  <2>2. \A i \in DOMAIN coro_stack : coro_stack[i] \in Range(coro_stack)
    BY <2>1, RangeSeq DEF TypeOK
  <2> QED
    BY <1>2, <2>1, <2>2 DEF RunStack, StackInv, Shape, Running
<1> QED
  BY <1>1, <1>2

\* No pointer outlives its coroutine
LEMMA ImpliesNoDangling == IndInv => NoDangling
<1> SUFFICES ASSUME IndInv PROVE NoDangling
  OBVIOUS
<1>1. TypeOK /\ TimerInv /\ JoinInv /\ Accounted
  BY DEF IndInv
<1>2. /\ current \in exec_table \cup {Sched, NULL}
      /\ Range(coro_stack) \subseteq exec_table \cup {Sched}
  <2>1. CASE rpc = "run"
    BY <1>1, <2>1, RangeEmpty DEF IndInv, BeforeRun, TypeOK
  <2>2. CASE rpc # "run"
    BY <2>2 DEF IndInv, StackInv, Running
  <2> QED
    BY <2>1, <2>2
<1>3. \A c \in Coro : Sleeps(c) \/ Joins(c) => c \in exec_table
  <2>1. ASSUME NEW c \in Coro, Joins(c) PROVE c \in exec_table
    <3>1. PICK x \in Coro : join_table[x] = c
      BY <2>1 DEF Joins
    <3> QED
      BY <1>1, <3>1 DEF JoinInv
  <2> QED
    BY <1>1, <2>1 DEF TimerInv
<1>4. \A c \in exec_table : mem[c] = "live"
  BY <1>1 DEF Accounted
<1>5. \A x \in Coro : join_table[x] # NULL => x \in exec_table
  BY <1>1 DEF JoinInv
<1> QED
  BY <1>2, <1>3, <1>4, <1>5 DEF NoDangling

(* No CoroSleep or Join loses its wake-up or gets two.                       *)
THEOREM WakeupsCorrect ==
  ASSUME ~BlockingDirect
  PROVE  Spec => []OneWakeup
BY Inductive, ImpliesOneWakeup, PTL

(* The coroutine stack is sound: Yield never falls back on the main context. *)
THEOREM StackCorrect ==
  ASSUME ~BlockingDirect
  PROVE  Spec => []RunStack
BY Inductive, ImpliesRunStack, PTL

(* Nothing refers to a coroutine that is finished or deleted.                *)
THEOREM PointersCorrect ==
  ASSUME ~BlockingDirect
  PROVE  Spec => []NoDangling
BY Inductive, ImpliesNoDangling, PTL

(* No coroutine is leaked, deleted twice or handed out while it executes.    *)
THEOREM AccountCorrect ==
  ASSUME ~BlockingDirect
  PROVE  Spec => []Accounted
<1>1. IndInv => Accounted
  BY DEF IndInv
<1> QED
  BY Inductive, <1>1, PTL

-----------------------------------------------------------------------------
(* What a step may not do                                                    *)

\* Who joins x is not running, and not waiting for anybody else
LEMMA JoinerIsIdle ==
  ASSUME IndInv, NEW x \in Coro, join_table[x] # NULL
  PROVE  /\ rpc # "run" /\ x \in exec_table
         /\ join_table[x] \in exec_table /\ join_table[x] \in Coro
         /\ join_table[x] # current
         /\ join_table[x] \notin Range(coro_stack)
         /\ ~Sleeps(join_table[x])
         /\ join_table[x] # Sched
<1>1. JoinInv /\ WaitInv /\ TypeOK
  BY DEF IndInv
<1>2. x \in exec_table /\ join_table[x] \in exec_table
  BY <1>1 DEF JoinInv
<1>3. rpc # "run"
  BY <1>2 DEF IndInv, BeforeRun
<1>4. exec_table \subseteq Coro
  BY <1>1 DEF TypeOK
<1>5. waiting[join_table[x]] /\ ~Sleeps(join_table[x])
  BY <1>1, <1>2, <1>4 DEF WaitInv, Joins
<1> QED
  BY <1>2, <1>3, <1>4, <1>5 DEF IndInv, StackInv, Running

\* One step
LEMMA JoinStep ==
  ASSUME IndInv, [Next]_vars,
         NEW x \in Coro, join_table[x] # NULL, current' = join_table[x]
  PROVE  x \in exec_table /\ x \notin exec_table'
<1> DEFINE j == join_table[x]
<1>1. /\ rpc # "run" /\ x \in exec_table
      /\ j \in exec_table /\ j \in Coro /\ j # current
      /\ j \notin Range(coro_stack) /\ ~Sleeps(j) /\ j # Sched
      /\ TypeOK /\ JoinInv
  BY JoinerIsIdle DEF IndInv
<1>2. current' = j
  OBVIOUS
<1>3. \A y \in Coro : join_table[y] = j => y = x
  BY <1>1 DEF JoinInv
<1> HIDE DEF j
<1>4. ASSUME NEW f \in Func, StartCoro(f) PROVE FALSE
  <2>1. PICK c \in Coro :
          /\ Available(c)
          /\ mem' = [Collected EXCEPT ![c] = "live"]
          /\ deleting_coros' = <<>>
          /\ coro_pool' = IF coro_pool = <<>> THEN coro_pool ELSE Tail(coro_pool)
          /\ exec_table' = exec_table \cup {c}
          /\ exec_coro_num' = exec_coro_num + 1
          /\ Resume(c, FALSE)
    BY <1>4 DEF StartCoro
  <2>2. c \notin exec_table /\ current' = c
    BY <2>1, StartAccount DEF Resume, ResumeFrom
  <2> QED
    BY <1>1, <1>2, <2>2
<1>5. ASSUME NEW f \in Func, Invoke(f), UNCHANGED current PROVE FALSE
  BY <1>1, <1>2, <1>5
<1>6. CASE UNCHANGED current
  BY <1>1, <1>2, <1>6
<1>7. CASE Routine
  <2>1. CASE TakeTask
    <3>1. Head(coro_queue) \in Func /\ Invoke(Head(coro_queue))
      BY <1>1, <2>1, HeadTail DEF TakeTask, TypeOK
    <3> QED
      BY <1>4, <1>6, <3>1 DEF Invoke, switchVars
  <2>2. CASE InvokeDue
    <3> DEFINE e == Head(coro_time_queue[due])
    <3>1. \/ e \in Func /\ Invoke(e)
          \/ Resume(e, FALSE)
      BY <2>2 DEF InvokeDue
    <3>2. CASE e \in Func /\ Invoke(e)
      BY <1>4, <1>6, <3>2 DEF Invoke, switchVars
    <3>3. CASE Resume(e, FALSE)
      <4>1. Sleeps(e)
        BY <1>1, <2>2, TimerPop DEF InvokeDue, IndInv, TimerInv
      <4>2. current' = e
        BY <3>3 DEF Resume, ResumeFrom
      <4> QED
        BY <1>1, <1>2, <4>1, <4>2
    <3> QED
      BY <3>1, <3>2, <3>3
  <2>3. CASE \/ RoutineBegin \/ QueueEmpty \/ NoTimers \/ LookUpBucket \/ NothingDue
             \/ OpenBucket \/ LeaveBucket \/ EraseBucket
    BY <1>6, <2>3
       DEF RoutineBegin, QueueEmpty, NoTimers, LookUpBucket, NothingDue, OpenBucket,
           LeaveBucket, EraseBucket, switchVars
  <2> QED
    BY <1>7, <2>1, <2>2, <2>3 DEF Routine
<1>8. ASSUME Wait(current) PROVE FALSE
  <2>1. Shape(coro_stack, current) /\ coro_stack \in Seq(Context)
        /\ current \in Context
    BY <1>1, Runs DEF IndInv, StackInv
  <2>2. CASE current # Sched
    <3>1. coro_stack # <<>> /\ Last(coro_stack) \in Range(coro_stack)
      BY <2>1, <2>2, ShapePop
    <3>2. current' = Last(coro_stack)
      BY <1>8, <3>1 DEF Wait, YieldFrom, ResumeFrom
    <3> QED
      BY <1>1, <1>2, <3>1, <3>2
  <2>3. CASE current = Sched
    <3>1. current' = Main
      BY <1>8, <2>1, <2>3 DEF Shape, Wait, YieldFrom, ResumeFrom
    <3> QED
      BY <1>1, <1>2, <3>1
  <2> QED
    BY <2>2, <2>3
<1>9. CASE Function
  <2>1. ASSUME NEW c \in Coro, CoroDone(c)
        PROVE  x \in exec_table /\ x \notin exec_table'
    <3>1. CASE join_table[c] # NULL /\ Resume(join_table[c], TRUE)
      <4>1. join_table[c] = j
        BY <1>2, <3>1 DEF Resume, ResumeFrom
      <4>2. c = x
        BY <1>3, <4>1
      <4> QED
        BY <1>1, <2>1, <4>2 DEF CoroDone
    <3>2. CASE Yield(TRUE)
      <4>1. Shape(coro_stack, current) /\ coro_stack \in Seq(Context)
            /\ current \in Context /\ current # Sched
        BY <1>1, <2>1 DEF CoroDone, IndInv, StackInv, TypeOK, Context
      <4>2. coro_stack # <<>> /\ Last(coro_stack) \in Range(coro_stack)
        BY <4>1, ShapePop
      <4>3. current' = Last(coro_stack)
        BY <3>2, <4>2 DEF Yield, YieldFrom, ResumeFrom
      <4> QED
        BY <1>1, <1>2, <4>2, <4>3
    <3> QED
      BY <2>1, <3>1, <3>2 DEF CoroDone, WakeJoiner
  <2>2. ASSUME NEW f \in Func, CallStartCoro(f) PROVE FALSE
    BY <1>4, <2>2 DEF CallStartCoro
  <2>3. ASSUME NEW f \in Func, NEW d \in Delay, NEW create \in CreateChoice,
               CallStartCoroAfter(f, d, create)
        PROVE  FALSE
    BY <1>1, <1>2, <2>3 DEF CallStartCoroAfter, switchVars
  <2>4. ASSUME NEW d \in Delay, CoroSleep(d) PROVE FALSE
    BY <1>8, <2>4 DEF CoroSleep
  <2>5. ASSUME NEW c \in Coro, Join(c) PROVE FALSE
    BY <1>8, <2>5 DEF Join
  <2>6. CASE DirectReturn
    BY <1>1, <1>2, <2>6 DEF DirectReturn, switchVars
  <2> QED
    BY <1>9, <2>1, <2>2, <2>3, <2>4, <2>5, <2>6 DEF Function
<1>10. CASE Run
  BY <1>1, <1>10 DEF Run
<1>11. CASE Foreign \/ Tick \/ UNCHANGED vars
  BY <1>6, <1>11
     DEF Foreign, ForeignStartCoro, ForeignStartCoroAfter, PushCoroTask, Post, FindBucket,
         AddCall, AddFreed, Tick, vars, switchVars
<1> QED
  BY <1>7, <1>9, <1>10, <1>11 DEF Next

(* Who joins a coroutine gets on in the step in which that one finishes, and *)
(* in no other.                                                              *)
THEOREM JoinCorrect == Spec => JoinMeansDone
<1>1. IndInv /\ [Next]_vars =>
        [\A x \in Coro : join_table[x] # NULL /\ current' = join_table[x]
            => x \in exec_table /\ x \notin exec_table']_vars
  BY JoinStep
<1>2. Ended /\ [Next]_vars =>
        [\A x \in Coro : join_table[x] # NULL /\ current' = join_table[x]
            => x \in exec_table /\ x \notin exec_table']_vars
  <2> SUFFICES ASSUME Ended, [Next]_vars,
                      NEW x \in Coro, join_table[x] # NULL, current' = join_table[x]
               PROVE  FALSE
    OBVIOUS
  <2>1. current' = Main
    BY EndedNext DEF Ended
  <2>2. join_table[x] \in Coro \cup {Sched, NULL}
    BY DEF Ended, TypeOK
  <2> QED
    BY <2>1, <2>2
<1> QED
  BY UntilTheEnd, <1>1, <1>2, PTL DEF Spec, JoinMeansDone

\* One step
LEMMA OrderStep ==
  ASSUME IndInv, [Next]_vars,
         NEW t \in Time, Len(coro_time_queue'[t]) < Len(coro_time_queue[t])
  PROVE  /\ t <= now
         /\ \A u \in Time : u < t => Range(coro_time_queue[u]) \subseteq Func
         /\ \/ coro_time_queue'[t] = Tail(coro_time_queue[t])
            \/ Range(coro_time_queue[t]) \subseteq late
<1> DEFINE q == coro_time_queue
           E == Func \cup Coro \cup {Sched}
<1>1. TypeOK /\ q \in [Time -> Seq(E)] /\ Len(q[t]) \in Nat
  BY RangeSeq DEF IndInv, TypeOK
<1>2. UNCHANGED q => FALSE
  BY <1>1
<1>3. ASSUME NEW entry \in E, NEW k \in Time, q' = [q EXCEPT ![k] = Append(q[k], entry)]
      PROVE  FALSE
  <2>1. q[k] \in Seq(E)
    BY <1>1
  <2>2. Len(Append(q[k], entry)) = Len(q[k]) + 1
    BY <2>1, RangeAppend
  <2>3. q'[t] = IF t = k THEN Append(q[k], entry) ELSE q[t]
    BY <1>1, <1>3
  <2> HIDE DEF q, E
  <2>4. Len(q'[t]) < Len(q[t])
    BY DEF q
  <2> QED
    BY <1>1, <2>2, <2>3, <2>4
<1>4. CASE InvokeDue \/ EraseBucket
  <2>1. /\ rpc \in {"bucket", "erase"} /\ due \in Time
        /\ \/ q' = [q EXCEPT ![due] = Tail(q[due])]
           \/ rpc = "erase" /\ q' = [q EXCEPT ![due] = <<>>]
    BY <1>1, <1>4 DEF InvokeDue, EraseBucket, InRoutine, TypeOK
  <2>2. /\ due <= now
        /\ \A u \in Time : u < due => Range(q[u]) \subseteq Func
        /\ rpc = "erase" => Range(q[due]) \subseteq late
    BY <2>1 DEF IndInv, BucketInv
  <2>3. t # due => q'[t] = q[t]
    BY <1>1, <2>1
  <2>4. t = due
    BY <1>1, <2>3
  <2>5. \/ q'[due] = Tail(q[due])
        \/ Range(q[due]) \subseteq late
    BY <1>1, <2>1, <2>2
  <2> QED
    BY <2>2, <2>4, <2>5
<1>5. CASE Routine
  <2>1. CASE \/ RoutineBegin \/ TakeTask \/ QueueEmpty \/ NoTimers \/ LookUpBucket
             \/ NothingDue \/ OpenBucket \/ LeaveBucket
    BY <1>2, <2>1 DEF RoutineBegin, TakeTask, QueueEmpty, NoTimers, LookUpBucket, NothingDue,
                      OpenBucket, LeaveBucket
  <2> QED
    BY <1>4, <1>5, <2>1 DEF Routine
<1>6. CASE Function
  <2>1. ASSUME NEW f \in Func, NEW d \in Delay, NEW create \in CreateChoice,
               CallStartCoroAfter(f, d, create)
        PROVE  FALSE
    BY <1>3, <2>1 DEF CallStartCoroAfter, AddTimeCoroTask
  <2>2. ASSUME NEW d \in Delay, CoroSleep(d) PROVE FALSE
    <3>1. current \in E
      BY <2>2 DEF CoroSleep, MayBlock, InFunction
    <3> QED
      BY <1>3, <2>2, <3>1 DEF CoroSleep, AddTimeCoroTask
  <2>3. ASSUME \/ \E f \in Func : CallStartCoro(f)
               \/ \E c \in Coro : Join(c)
               \/ \E c \in Coro : CoroDone(c)
               \/ DirectReturn
        PROVE  FALSE
    BY <1>2, <2>3 DEF CallStartCoro, Join, CoroDone, DirectReturn
  <2> QED
    BY <1>6, <2>1, <2>2, <2>3 DEF Function
<1>7. CASE Foreign
  <2>1. CASE AddCall
    <3>1. posting.call \in E /\ posting.ts \in Time
      BY <1>1, <2>1, PostingType DEF AddCall, Posting
    <3> QED
      BY <1>3, <2>1, <3>1 DEF AddCall
  <2>2. CASE FindBucket \/ AddFreed
    BY <1>2, <2>2 DEF FindBucket, AddFreed
  <2>3. ASSUME NEW f \in Func, NEW create, NEW d, PushCoroTask(f, create, d) PROVE FALSE
    BY <1>2, <2>3 DEF PushCoroTask
  <2> QED
    BY <1>7, <2>1, <2>2, <2>3 DEF Foreign, Post, ForeignStartCoro, ForeignStartCoroAfter
<1>8. CASE Run \/ Tick \/ UNCHANGED vars
  BY <1>2, <1>8 DEF Run, Tick, vars
<1> QED
  BY <1>5, <1>6, <1>7, <1>8 DEF Next

\* What ServedInOrder says of one step
InOrder ==
  \A t \in Time :
    Len(coro_time_queue'[t]) < Len(coro_time_queue[t]) =>
      /\ t <= now
      /\ \A u \in Time : u < t => Range(coro_time_queue[u]) \subseteq Func
      /\ \/ coro_time_queue'[t] = Tail(coro_time_queue[t])
         \/ Range(coro_time_queue[t]) \subseteq late

(* Nothing is taken out of the time queue early, what is taken out is the    *)
(* first of its bucket and passes by no sleeper of an earlier one, and what  *)
(* is erased was added late by another thread.                               *)
THEOREM OrderCorrect == Spec => ServedInOrder
<1>1. IndInv /\ [Next]_vars => [InOrder]_vars
  BY OrderStep DEF InOrder
<1>2. Ended /\ [Next]_vars => [InOrder]_vars
  <2> SUFFICES ASSUME Ended, [Next]_vars,
                      NEW t \in Time, Len(coro_time_queue'[t]) < Len(coro_time_queue[t])
               PROVE  FALSE
    BY DEF InOrder
  <2>1. UNCHANGED coro_time_queue
    BY EndedNext DEF Tick, vars
  <2>2. Len(coro_time_queue[t]) \in Nat
    BY RangeSeq DEF Ended, TypeOK
  <2> QED
    BY <2>1, <2>2
<1> QED
  BY UntilTheEnd, <1>1, <1>2, PTL DEF Spec, ServedInOrder, InOrder

=============================================================================
