--------------------------- MODULE SchedulerCalls ---------------------------
(* What Scheduler does with its calls, for every number of coroutines, calls *)
(* and milliseconds, and whether or not the functions that sched_coro runs   *)
(* block: each call is in one place, and Scheduler implements CallLife.      *)
EXTENDS SchedulerProofs

USE CoroAssumption, SchedulerAssumption

\* A call is queued when one entry of one queue is for it or it is in the hands
\* of who posts it, running when one coroutine or sched_coro has it, and lost
\* only if it came late
CallInv ==
  /\ TimersOnce
  /\ IsInjective(coro_queue)
  /\ \A f \in Func :
       /\ life[f] = "queued" <=> f \in Range(coro_queue) \/ Sleeps(f) \/ posting.call = f
       /\ ~(f \in Range(coro_queue) /\ Sleeps(f))
       /\ posting.call = f => f \notin Range(coro_queue) /\ ~Sleeps(f)
       /\ life[f] = "lost" => f \in late
       /\ life[f] = "running" <=> Runners(f) # {}
       /\ \A x, y \in Runners(f) : x = y
  /\ \A c \in exec_table : func[c] \in Func
  /\ posting.at = "freed" => posting.ts <= now

-----------------------------------------------------------------------------
(* Who runs a call                                                           *)

\* Nobody starts or ends
LEMMA RunnersSame ==
  ASSUME UNCHANGED <<exec_table, func, direct>>
  PROVE  \A f : Runners(f)' = Runners(f)
BY DEF Runners

\* StartCoro puts the call into the coroutine it takes
LEMMA StartRunners ==
  ASSUME IndInv, CallInv, NEW f \in Func, StartCoro(f), UNCHANGED direct,
         life[f] # "running"
  PROVE  /\ \E x : \A g \in Func : Runners(g)' = IF g = f THEN {x} ELSE Runners(g)
         /\ \A c \in exec_table' : func'[c] \in Func
         /\ life' = [life EXCEPT ![f] = "running"]
<1>1. PICK c \in Coro :
        /\ Available(c)
        /\ mem' = [Collected EXCEPT ![c] = "live"]
        /\ deleting_coros' = <<>>
        /\ coro_pool' = IF coro_pool = <<>> THEN coro_pool ELSE Tail(coro_pool)
        /\ func' = [func EXCEPT ![c] = f]
        /\ exec_table' = exec_table \cup {c}
        /\ exec_coro_num' = exec_coro_num + 1
        /\ life' = [life EXCEPT ![f] = "running"]
  BY DEF StartCoro
<1>2. c \notin exec_table
  BY <1>1, StartAccount
<1>3. /\ func \in [Coro -> Func \cup {NULL}]
      /\ exec_table \subseteq Coro
      /\ Runners(f) = {}
      /\ \A d \in exec_table : func[d] \in Func
  BY DEF IndInv, TypeOK, CallInv
<1>4. \A d \in Coro : func'[d] = IF d = c THEN f ELSE func[d]
  BY <1>1, <1>3
<1>5. \A g \in Func : Runners(g)' = IF g = f THEN {c} ELSE Runners(g)
  <2>1. \A d \in exec_table : func[d] # f
    BY <1>3 DEF Runners
  <2>2. direct # f
    BY <1>3 DEF Runners
  <2> QED
    BY <1>1, <1>2, <1>3, <1>4, <2>1, <2>2 DEF Runners
<1>6. \A d \in exec_table' : func'[d] \in Func
  BY <1>1, <1>3, <1>4
<1> QED
  BY <1>1, <1>5, <1>6

\* Invoke starts the call, in a coroutine or on sched_coro
LEMMA InvokeRunners ==
  ASSUME IndInv, CallInv, NEW f \in Func, Invoke(f), direct = NULL,
         life[f] # "running"
  PROVE  /\ \E x : \A g \in Func : Runners(g)' = IF g = f THEN {x} ELSE Runners(g)
         /\ \A c \in exec_table' : func'[c] \in Func
         /\ life' = [life EXCEPT ![f] = "running"]
<1>1. CASE StartCoro(f) /\ UNCHANGED direct
  BY <1>1, StartRunners
<1>2. CASE /\ direct' = f
           /\ life' = [life EXCEPT ![f] = "running"]
           /\ UNCHANGED coroVars
  <2>1. \A c \in exec_table : func[c] \in Func
    BY DEF CallInv
  <2>2. Runners(f) = {}
    BY DEF CallInv
  <2>3. \A g \in Func : Runners(g)' = IF g = f THEN {Sched} ELSE Runners(g)
    <3>1. \A g \in Func : g # NULL
      OBVIOUS
    <3> QED
      BY <1>2, <2>2, <3>1 DEF Runners, coroVars
  <2> QED
    BY <1>2, <2>1, <2>3 DEF coroVars
<1> QED
  BY <1>1, <1>2 DEF Invoke

\* CoroDone takes the call from its coroutine
LEMMA DoneRunners ==
  ASSUME IndInv, CallInv, NEW c \in Coro, CoroDone(c)
  PROVE  /\ func[c] \in Func /\ life[func[c]] = "running"
         /\ \A g \in Func : Runners(g)' = IF g = func[c] THEN {} ELSE Runners(g)
         /\ \A d \in exec_table' : func'[d] \in Func
         /\ life' = [life EXCEPT ![func[c]] = "done"]
<1>1. /\ exec_table' = exec_table \ {c}
      /\ UNCHANGED <<func, direct>>
      /\ current = c
      /\ life' = [life EXCEPT ![func[c]] = "done"]
  BY DEF CoroDone
<1>2. c \in exec_table
  <2>1. rpc # "run"
    BY <1>1 DEF IndInv, TypeOK
  <2> QED
    BY <1>1, <2>1, Runs
<1>3. func[c] \in Func /\ \A d \in exec_table : func[d] \in Func
  BY <1>2 DEF CallInv
<1>4. c \in Runners(func[c])
  BY <1>2 DEF Runners
<1>5. life[func[c]] = "running" /\ Runners(func[c]) = {c}
  BY <1>3, <1>4 DEF CallInv
<1>6. \A g \in Func : Runners(g)' = IF g = func[c] THEN {} ELSE Runners(g)
  <2>1. direct # func[c] /\ c # Sched
    BY <1>5 DEF Runners
  <2> QED
    BY <1>1, <1>3, <1>5, <2>1 DEF Runners
<1> QED
  BY <1>1, <1>3, <1>5, <1>6

\* A function that sched_coro runs itself returns
LEMMA DirectRunners ==
  ASSUME IndInv, CallInv, DirectReturn
  PROVE  /\ direct \in Func /\ life[direct] = "running"
         /\ \A g \in Func : Runners(g)' = IF g = direct THEN {} ELSE Runners(g)
         /\ \A d \in exec_table' : func'[d] \in Func
         /\ life' = [life EXCEPT ![direct] = "done"]
<1>1. /\ direct \in Func
      /\ direct' = NULL
      /\ UNCHANGED <<exec_table, func>>
      /\ life' = [life EXCEPT ![direct] = "done"]
      /\ exec_table \subseteq Coro
  BY DEF DirectReturn, coroVars, IndInv, TypeOK
<1>2. Sched \in Runners(direct)
  BY DEF Runners
<1>3. life[direct] = "running" /\ Runners(direct) = {Sched}
  BY <1>1, <1>2 DEF CallInv
<1>4. \A g \in Func : Runners(g)' = IF g = direct THEN {} ELSE Runners(g)
  <2>1. \A d \in exec_table : func[d] # direct
    BY <1>1, <1>3 DEF Runners
  <2>2. \A g \in Func : g # NULL
    OBVIOUS
  <2> QED
    BY <1>1, <1>3, <2>1, <2>2 DEF Runners
<1>5. \A d \in exec_table' : func'[d] \in Func
  BY <1>1 DEF CallInv
<1> QED
  BY <1>1, <1>3, <1>4, <1>5

-----------------------------------------------------------------------------
(* What the steps do to a call                                               *)

\* No call gets on
LEMMA CallKept ==
  ASSUME CallInv, TypeOK, TimersOnce', \A f \in Func : Sleeps(f)' <=> Sleeps(f),
         UNCHANGED <<coro_queue, life, exec_table, func, direct, posting, late>>, now' \in Int, now <= now'
  PROVE  CallInv'
<1>1. \A f : Runners(f)' = Runners(f)
  BY RunnersSame
<1>2. (posting.at = "freed" => posting.ts <= now)'
  <2>1. ASSUME posting.at = "freed" PROVE posting.ts <= now'
    <3>1. posting.ts \in Int /\ now \in Int
      BY <2>1, PostingType DEF TypeOK, Time
    <3>2. posting.ts <= now
      BY <2>1 DEF CallInv
    <3> QED
      BY <3>1, <3>2
  <2> QED
    BY <2>1
<1> QED
  BY <1>1, <1>2 DEF CallInv

\* A call is posted: it is queued, or in the hands of the thread that posts it
LEMMA CallPosted ==
  ASSUME CallInv, TypeOK, NEW f \in Func, life[f] = "unused",
         life' = [life EXCEPT ![f] = "queued"],
         UNCHANGED <<exec_table, func, direct, late, now>>,
         \/ /\ coro_queue' = Append(coro_queue, f)
            /\ UNCHANGED <<coro_time_queue, posting>>
         \/ /\ UNCHANGED <<coro_queue, posting>>
            /\ TimersOnce'
            /\ \A g : Sleeps(g)' <=> Sleeps(g) \/ g = f
         \/ /\ UNCHANGED <<coro_queue, coro_time_queue>>
            /\ posting = Idle
            /\ posting'.call = f /\ posting'.at # "freed"
  PROVE  CallInv'
<1>1. \A g : Runners(g)' = Runners(g)
  BY RunnersSame
<1>2. f \notin Range(coro_queue) /\ ~Sleeps(f) /\ Runners(f) = {} /\ posting.call # f
  BY DEF CallInv
<1>3. \A g \in Func : life'[g] = IF g = f THEN "queued" ELSE life[g]
  BY DEF TypeOK
<1>4. \A c \in exec_table' : func'[c] \in Func
  BY DEF CallInv
<1>5. CASE coro_queue' = Append(coro_queue, f) /\ UNCHANGED <<coro_time_queue, posting>>
  <2>1. IsInjective(coro_queue') /\ Range(coro_queue') = Range(coro_queue) \cup {f}
    BY <1>2, <1>5, RangeAppend, InjectiveAppend DEF CallInv, TypeOK
  <2>2. TimersOnce' /\ \A g : Sleeps(g)' <=> Sleeps(g)
    BY <1>5, TimerSame DEF CallInv
  <2> QED
    BY <1>1, <1>2, <1>3, <1>4, <1>5, <2>1, <2>2 DEF CallInv
<1>6. CASE /\ UNCHANGED <<coro_queue, posting>>
           /\ TimersOnce'
           /\ \A g : Sleeps(g)' <=> Sleeps(g) \/ g = f
  BY <1>1, <1>2, <1>3, <1>4, <1>6 DEF CallInv
<1>7. CASE /\ UNCHANGED <<coro_queue, coro_time_queue>>
           /\ posting = Idle
           /\ posting'.call = f /\ posting'.at # "freed"
  <2>1. TimersOnce' /\ \A g : Sleeps(g)' <=> Sleeps(g)
    BY <1>7, TimerSame DEF CallInv
  <2>2. \A g \in Func : posting.call # g
    BY <1>7 DEF Idle
  <2> QED
    BY <1>1, <1>2, <1>3, <1>4, <1>7, <2>1, <2>2 DEF CallInv
<1> QED
  BY <1>5, <1>6, <1>7

\* A call is started
LEMMA CallStarted ==
  ASSUME CallInv, TypeOK, NEW f \in Func, posting.call # f,
         \E x : \A g \in Func : Runners(g)' = IF g = f THEN {x} ELSE Runners(g),
         \A c \in exec_table' : func'[c] \in Func,
         life' = [life EXCEPT ![f] = "running"],
         TimersOnce', IsInjective(coro_queue'),
         \A g \in Func : g \in Range(coro_queue') <=> g \in Range(coro_queue) /\ g # f,
         \A g \in Func : Sleeps(g)' <=> Sleeps(g) /\ g # f,
         UNCHANGED <<posting, late, now>>
  PROVE  CallInv'
<1>1. \A g \in Func : life'[g] = IF g = f THEN "running" ELSE life[g]
  BY DEF TypeOK
<1>2. PICK x : \A g \in Func : Runners(g)' = IF g = f THEN {x} ELSE Runners(g)
  OBVIOUS
<1> QED
  BY <1>1, <1>2 DEF CallInv

\* A call returns
LEMMA CallEnded ==
  ASSUME CallInv, TypeOK, NEW f \in Func, life[f] = "running",
         \A g \in Func : Runners(g)' = IF g = f THEN {} ELSE Runners(g),
         \A c \in exec_table' : func'[c] \in Func,
         life' = [life EXCEPT ![f] = "done"],
         UNCHANGED <<coro_queue, coro_time_queue, posting, late, now>>
  PROVE  CallInv'
<1>1. \A g \in Func : life'[g] = IF g = f THEN "done" ELSE life[g]
  BY DEF TypeOK
<1>2. TimersOnce' /\ \A g : Sleeps(g)' <=> Sleeps(g)
  BY TimerSame DEF CallInv
<1> QED
  BY <1>1, <1>2 DEF CallInv

\* The thread that posts a timed call goes on with it
LEMMA CallFound ==
  ASSUME CallInv, TypeOK, FindBucket
  PROVE  CallInv'
<1> USE DEF coroVars
<1>1. posting'.call = posting.call /\ posting'.at = "add"
  BY PostingType DEF FindBucket, Posting
<1>2. UNCHANGED <<coro_queue, coro_time_queue, life, exec_table, func, direct, late>>
  BY DEF FindBucket
<1>3. TimersOnce' /\ \A g : Sleeps(g)' <=> Sleeps(g)
  BY <1>2, TimerSame DEF CallInv
<1>4. \A g : Runners(g)' = Runners(g)
  BY <1>2, RunnersSame
<1> QED
  BY <1>1, <1>2, <1>3, <1>4 DEF CallInv

LEMMA CallAdded ==
  ASSUME CallInv, TypeOK, AddCall
  PROVE  CallInv'
<1> USE DEF coroVars
<1> DEFINE f == posting.call
           k == posting.ts
<1>1. /\ f \in Func /\ k \in Time /\ posting' = Idle /\ late \subseteq late'
      /\ coro_time_queue' = [coro_time_queue EXCEPT ![k] = Append(@, f)]
      /\ UNCHANGED <<coro_queue, life, exec_table, func, direct>>
  BY PostingType DEF AddCall, Posting
<1>2. ~Sleeps(f) /\ f \notin Range(coro_queue) /\ \A g : posting.call = g <=> g = f
  BY <1>1 DEF CallInv
<1> HIDE DEF f, k
<1>3. TimersOnce' /\ \A g : Sleeps(g)' <=> Sleeps(g) \/ g = f
  BY <1>1, <1>2, TimerInsert DEF CallInv
<1>4. \A g : Runners(g)' = Runners(g)
  BY <1>1, RunnersSame
<1>5. posting'.at # "freed" /\ \A g \in Func : posting'.call # g
  BY <1>1 DEF Idle
<1> QED
  BY <1>1, <1>2, <1>3, <1>4, <1>5 DEF CallInv

LEMMA CallFreed ==
  ASSUME CallInv, TypeOK, AddFreed
  PROVE  CallInv'
<1> USE DEF coroVars
<1> DEFINE f == posting.call
<1>1. /\ f \in Func /\ posting' = Idle /\ late' = late \cup {f}
      /\ life' = [life EXCEPT ![f] = "lost"]
      /\ UNCHANGED <<coro_queue, coro_time_queue, exec_table, func, direct>>
  BY PostingType DEF AddFreed, Posting
<1>2. /\ ~Sleeps(f) /\ f \notin Range(coro_queue) /\ life[f] = "queued" /\ Runners(f) = {}
      /\ \A g : posting.call = g <=> g = f
  BY <1>1 DEF CallInv
<1> HIDE DEF f
<1>3. TimersOnce' /\ \A g : Sleeps(g)' <=> Sleeps(g)
  BY <1>1, TimerSame DEF CallInv
<1>4. \A g : Runners(g)' = Runners(g)
  BY <1>1, RunnersSame
<1>5. \A g \in Func : life'[g] = IF g = f THEN "lost" ELSE life[g]
  BY <1>1 DEF TypeOK
<1>6. posting'.at # "freed" /\ \A g \in Func : posting'.call # g
  BY <1>1 DEF Idle
<1> QED
  BY <1>1, <1>2, <1>3, <1>4, <1>5, <1>6 DEF CallInv

\* CheckTimeQueue drops the calls of a bucket that came late
LEMMA CallErased ==
  ASSUME IndInv, CallInv, EraseBucket
  PROVE  CallInv'
<1> USE DEF coroVars
<1> DEFINE gone == Range(coro_time_queue[due])
<1>1. /\ TypeOK /\ gone \subseteq late /\ gone \subseteq Func /\ due <= now /\ due \in Time
      /\ coro_time_queue' = [coro_time_queue EXCEPT ![due] = <<>>]
      /\ life' = [g \in Func |-> IF g \in gone THEN "lost" ELSE life[g]]
      /\ UNCHANGED <<coro_queue, exec_table, func, direct, late, now>>
  BY DEF EraseBucket, InRoutine, IndInv, BucketInv, TypeOK
<1>2. /\ TimersOnce'
      /\ \A g : Sleeps(g)' <=> Sleeps(g) /\ g \notin gone
  BY <1>1, TimerErase DEF CallInv
<1>3. /\ posting'.call = posting.call
      /\ posting'.at = "freed" => posting'.ts <= now
  <2>1. CASE posting.at = "add" /\ posting.ts = due
    BY <1>1, <2>1, PostingType DEF EraseBucket
  <2>2. CASE ~(posting.at = "add" /\ posting.ts = due)
    BY <2>2 DEF EraseBucket, CallInv
  <2> QED
    BY <2>1, <2>2
<1>4. \A g \in gone : Sleeps(g)
  <2>1. gone = {coro_time_queue[due][i] : i \in DOMAIN coro_time_queue[due]}
    BY DEF Range
  <2> QED
    BY <1>1, <2>1 DEF Sleeps
<1>5. \A g : Runners(g)' = Runners(g)
  BY <1>1, RunnersSame
<1> HIDE DEF gone
<1>6. \A g \in gone : life[g] = "queued" /\ posting.call # g /\ g \notin Range(coro_queue)
  BY <1>1, <1>4 DEF CallInv
<1> QED
  BY <1>1, <1>2, <1>3, <1>5, <1>6 DEF CallInv

-----------------------------------------------------------------------------
(* All the steps                                                             *)

LEMMA CallInit == Init => CallInv
<1> SUFFICES ASSUME Init PROVE CallInv
  OBVIOUS
<1>1. DOMAIN <<>> = {} /\ Range(<<>>) = {}
  BY RangeEmpty, SMT
<1>2. TimersOnce /\ \A e : ~Sleeps(e)
  BY <1>1 DEF Init, TimersOnce, Sleeps
<1>3. IsInjective(coro_queue) /\ Range(coro_queue) = {}
  BY <1>1 DEF Init, IsInjective
<1>4. \A f \in Func : Runners(f) = {} /\ posting.call # f
  BY DEF Init, Runners, Idle
<1> QED
  BY <1>2, <1>3, <1>4 DEF Init, CallInv, Idle

\* The Routine loop starts a queued call, or none
LEMMA CallRoutine ==
  ASSUME IndInv, CallInv, Routine
  PROVE  CallInv'
<1> USE DEF routineVars, coroVars, postVars
<1>1. TypeOK /\ TimersOnce /\ now \in Int /\ now <= now
  BY DEF IndInv, CallInv, TypeOK, Time
<1>2. CASE \/ RoutineBegin \/ QueueEmpty \/ NoTimers \/ LookUpBucket \/ NothingDue
           \/ OpenBucket \/ LeaveBucket
  <2>1. UNCHANGED <<coro_time_queue, coro_queue, life, exec_table, func, direct, posting,
                    late, now>>
    BY <1>2 DEF RoutineBegin, QueueEmpty, NoTimers, LookUpBucket, NothingDue, OpenBucket,
                LeaveBucket
  <2>2. TimersOnce' /\ \A e : Sleeps(e)' <=> Sleeps(e)
    BY <1>1, <2>1, TimerSame
  <2> QED
    BY <1>1, <2>1, <2>2, CallKept
<1>3. CASE TakeTask
  <2> DEFINE f == Head(coro_queue)
  <2>1. /\ coro_queue # <<>> /\ coro_queue \in Seq(Func) /\ IsInjective(coro_queue)
        /\ coro_queue' = Tail(coro_queue)
        /\ Invoke(f) /\ direct = NULL /\ UNCHANGED <<coro_time_queue, posting, late, now>>
    BY <1>1, <1>3 DEF TakeTask, InRoutine, CallInv, TypeOK
  <2>2. /\ IsInjective(coro_queue') /\ f \in Range(coro_queue)
        /\ Range(coro_queue') = Range(coro_queue) \ {f}
        /\ f \in Func
    BY <2>1, InjectiveTail, HeadTail
  <2> HIDE DEF f
  <2>3. life[f] = "queued" /\ ~Sleeps(f) /\ posting.call # f
    BY <2>2 DEF CallInv
  <2>4. /\ \E x : \A g \in Func : Runners(g)' = IF g = f THEN {x} ELSE Runners(g)
        /\ \A c \in exec_table' : func'[c] \in Func
        /\ life' = [life EXCEPT ![f] = "running"]
    BY <2>1, <2>2, <2>3, InvokeRunners
  <2>5. TimersOnce' /\ \A e : Sleeps(e)' <=> Sleeps(e)
    BY <1>1, <2>1, TimerSame
  <2> QED
    BY <1>1, <2>1, <2>2, <2>3, <2>4, <2>5, CallStarted
<1>4. CASE InvokeDue
  <2> DEFINE e == Head(coro_time_queue[due])
  <2>1. /\ coro_time_queue[due] # <<>>
        /\ coro_time_queue' = [coro_time_queue EXCEPT ![due] = Tail(@)]
        /\ direct = NULL /\ UNCHANGED <<coro_queue, posting, late, now>>
        /\ \/ e \in Func /\ Invoke(e)
           \/ e \in Context /\ UNCHANGED <<exec_table, func, life, direct>>
    BY <1>4 DEF InvokeDue, InRoutine
  <2>2. /\ TimersOnce' /\ Sleeps(e)
        /\ \A g : Sleeps(g)' <=> Sleeps(g) /\ g # e
    BY <1>1, <2>1, TimerPop
  <2> HIDE DEF e
  <2>3. CASE e \in Func /\ Invoke(e)
    <3>1. /\ life[e] = "queued" /\ e \notin Range(coro_queue) /\ IsInjective(coro_queue)
          /\ posting.call # e
      BY <2>2, <2>3 DEF CallInv
    <3>2. /\ \E x : \A g \in Func : Runners(g)' = IF g = e THEN {x} ELSE Runners(g)
          /\ \A c \in exec_table' : func'[c] \in Func
          /\ life' = [life EXCEPT ![e] = "running"]
      BY <2>1, <2>3, <3>1, InvokeRunners
    <3>3. \A g \in Func : g \in Range(coro_queue') <=> g \in Range(coro_queue) /\ g # e
      BY <2>1, <3>1
    <3> QED
      BY <1>1, <2>1, <2>2, <2>3, <3>1, <3>2, <3>3, CallStarted
  <2>4. CASE e \in Context /\ UNCHANGED <<exec_table, func, life, direct>>
    <3>1. \A f \in Func : f # e
      BY <2>4
    <3> QED
      BY <1>1, <2>1, <2>2, <2>4, <3>1, CallKept
  <2> QED
    BY <2>1, <2>3, <2>4
<1>5. CASE EraseBucket
  BY <1>5, CallErased
<1> QED
  BY <1>2, <1>3, <1>4, <1>5 DEF Routine

\* What functions do with calls
LEMMA CallFunction ==
  ASSUME IndInv, CallInv, Function
  PROVE  CallInv'
<1> USE DEF routineVars, coroVars, postVars
<1>1. TypeOK /\ TimersOnce /\ now \in Int /\ now <= now
  BY DEF IndInv, CallInv, TypeOK, Time
<1>2. ASSUME NEW f \in Func, CallStartCoro(f) PROVE CallInv'
  <2>1. /\ StartCoro(f) /\ life[f] = "unused"
        /\ UNCHANGED <<direct, coro_queue, coro_time_queue, posting, late, now>>
    BY <1>2 DEF CallStartCoro
  <2>2. /\ \E x : \A g \in Func : Runners(g)' = IF g = f THEN {x} ELSE Runners(g)
        /\ \A c \in exec_table' : func'[c] \in Func
        /\ life' = [life EXCEPT ![f] = "running"]
    BY <2>1, StartRunners
  <2>3. TimersOnce' /\ \A e : Sleeps(e)' <=> Sleeps(e)
    BY <1>1, <2>1, TimerSame
  <2>4. /\ f \notin Range(coro_queue) /\ ~Sleeps(f) /\ IsInjective(coro_queue)
        /\ posting.call # f
    BY <2>1 DEF CallInv
  <2> QED
    BY <1>1, <2>1, <2>2, <2>3, <2>4, CallStarted
<1>3. ASSUME NEW f \in Func, NEW d \in Delay, NEW create \in CreateChoice,
             CallStartCoroAfter(f, d, create)
      PROVE  CallInv'
  <2>1. /\ AddTimeCoroTask(f, d) /\ life[f] = "unused"
        /\ life' = [life EXCEPT ![f] = "queued"]
        /\ UNCHANGED <<exec_table, func, direct, coro_queue, posting, late, now>>
    BY <1>3 DEF CallStartCoroAfter
  <2>2. ~Sleeps(f)
    BY <2>1 DEF CallInv
  <2>3. TimersOnce' /\ \A e : Sleeps(e)' <=> Sleeps(e) \/ e = f
    BY <1>1, <2>1, <2>2, TimerAdd
  <2> QED
    BY <1>1, <2>1, <2>3, CallPosted
<1>4. ASSUME NEW d \in Delay, CoroSleep(d) PROVE CallInv'
  <2>1. /\ AddTimeCoroTask(current, d) /\ current \in Coro \cup {Sched}
        /\ UNCHANGED <<coro_queue, life, exec_table, func, direct, posting, late, now>>
    BY <1>4 DEF CoroSleep, MayBlock, InFunction
  <2>2. ~Sleeps(current)
    <3>1. rpc # "run"
      BY <1>1, <2>1 DEF TypeOK
    <3> QED
      BY <2>1, <3>1, Runs DEF IndInv, TimerInv
  <2>3. TimersOnce' /\ \A e : Sleeps(e)' <=> Sleeps(e) \/ e = current
    BY <1>1, <2>1, <2>2, TimerAdd
  <2>4. \A f \in Func : f # current
    BY <2>1 DEF Context
  <2> QED
    BY <1>1, <2>1, <2>3, <2>4, CallKept
<1>5. ASSUME NEW c \in Coro, Join(c) PROVE CallInv'
  <2>1. UNCHANGED <<coro_time_queue, coro_queue, life, exec_table, func, direct, posting,
                    late, now>>
    BY <1>5 DEF Join
  <2>2. TimersOnce' /\ \A e : Sleeps(e)' <=> Sleeps(e)
    BY <1>1, <2>1, TimerSame
  <2> QED
    BY <1>1, <2>1, <2>2, CallKept
<1>6. ASSUME NEW c \in Coro, CoroDone(c) PROVE CallInv'
  <2>1. UNCHANGED <<coro_queue, coro_time_queue, posting, late, now>>
    BY <1>6 DEF CoroDone
  <2> QED
    BY <1>1, <1>6, <2>1, DoneRunners, CallEnded
<1>7. CASE DirectReturn
  <2>1. UNCHANGED <<coro_queue, coro_time_queue, posting, late, now>>
    BY <1>7 DEF DirectReturn
  <2> QED
    BY <1>1, <1>7, <2>1, DirectRunners, CallEnded
<1> QED
  BY <1>2, <1>3, <1>4, <1>5, <1>6, <1>7 DEF Function

\* Every step keeps the invariant
LEMMA CallNext ==
  ASSUME IndInv \/ Ended, CallInv, [Next]_vars
  PROVE  CallInv'
<1> USE DEF routineVars, coroVars, postVars
<1>1. TypeOK /\ TimersOnce
  BY DEF IndInv, Ended, CallInv
<1>2. ASSUME Run \/ Tick \/ UNCHANGED vars PROVE CallInv'
  <2>1. /\ UNCHANGED <<coro_time_queue, coro_queue, life, exec_table, func, direct, posting,
                       late>>
        /\ now' \in Int /\ now <= now'
    <3>1. now \in Int
      BY <1>1 DEF TypeOK, Time
    <3>2. CASE Run \/ UNCHANGED vars
      <4>1. /\ UNCHANGED <<coro_time_queue, coro_queue, life, exec_table, func, direct,
                           posting, late>>
            /\ now' = now
        BY <3>2 DEF Run, vars
      <4> QED
        BY <3>1, <4>1
    <3>3. CASE Tick
      BY <3>1, <3>3 DEF Tick
    <3> QED
      BY <1>2, <3>2, <3>3
  <2>2. TimersOnce' /\ \A e : Sleeps(e)' <=> Sleeps(e)
    BY <1>1, <2>1, TimerSame
  <2> QED
    BY <1>1, <2>1, <2>2, CallKept
<1>3. CASE Ended
  BY <1>2, <1>3, EndedNext
<1>4. CASE IndInv /\ Routine
  BY <1>4, CallRoutine
<1>5. CASE IndInv /\ Function
  BY <1>5, CallFunction
<1>6. CASE Foreign
  <2>1. ASSUME NEW f \in Func, NEW create, NEW d, PushCoroTask(f, create, d) PROVE CallInv'
    <3>1. /\ life[f] = "unused"
          /\ life' = [life EXCEPT ![f] = "queued"]
          /\ UNCHANGED <<exec_table, func, direct, coro_time_queue, late, now>>
          /\ posting = Idle
          /\ \/ /\ UNCHANGED coro_queue
                /\ posting' = [at |-> "find", call |-> f, ts |-> now + d]
             \/ coro_queue' = Append(coro_queue, f) /\ UNCHANGED posting
      BY <2>1 DEF PushCoroTask
    <3>2. posting' = [at |-> "find", call |-> f, ts |-> now + d]
             => posting'.call = f /\ posting'.at # "freed"
      OBVIOUS
    <3> QED
      BY <1>1, <3>1, <3>2, CallPosted
  <2> QED
    BY <1>1, <1>6, <2>1, CallFound, CallAdded, CallFreed
       DEF Foreign, Post, ForeignStartCoro, ForeignStartCoroAfter
<1> QED
  BY <1>2, <1>3, <1>4, <1>5, <1>6 DEF Next

(* Every posted call is in one queue once or in the hands of who posts it,   *)
(* runs in one place once, and is lost only if another thread added it when  *)
(* its time had come, as long as the scheduler exists and after.             *)
THEOREM CallsInductive == Spec => []CallInv
<1>1. (IndInv \/ Ended) /\ CallInv /\ [Next]_vars => CallInv'
  BY CallNext
<1> QED
  BY CallInit, UntilTheEnd, <1>1, PTL DEF Spec

\* A call has one entry in the queues or none
LEMMA PostsCount ==
  ASSUME TypeOK, CallInv, NEW f \in Func
  PROVE  Cardinality(Posts(f)) = IF life[f] = "queued" THEN 1 ELSE 0
<1> DEFINE q == coro_time_queue
           inQueue == {i \in DOMAIN coro_queue : coro_queue[i] = f}
           inHands == IF posting.call = f THEN {posting} ELSE {}
           inTimers == UNION {{t} \X {i \in DOMAIN q[t] : q[t][i] = f} : t \in Time}
<1>1. Posts(f) = inQueue \cup inTimers \cup inHands
  BY DEF Posts
<1>2. inQueue = {} <=> f \notin Range(coro_queue)
  <2>1. /\ DOMAIN coro_queue = 1 .. Len(coro_queue)
        /\ Range(coro_queue) = {coro_queue[i] : i \in 1 .. Len(coro_queue)}
    BY RangeSeq DEF TypeOK
  <2> QED
    BY <2>1
<1>3. inTimers = {} <=> ~Sleeps(f)
  <2>1. ASSUME Sleeps(f) PROVE inTimers # {}
    <3>0. PICK t \in Time : \E i \in DOMAIN q[t] : q[t][i] = f
      BY <2>1 DEF Sleeps
    <3>1. PICK i \in DOMAIN q[t] : q[t][i] = f
      BY <3>0
    <3>2. <<t, i>> \in {t} \X {j \in DOMAIN q[t] : q[t][j] = f}
      BY <3>1
    <3> QED
      BY <3>2
  <2>2. ASSUME NEW x \in inTimers PROVE Sleeps(f)
    <3>1. PICK t \in Time : x \in {t} \X {j \in DOMAIN q[t] : q[t][j] = f}
      OBVIOUS
    <3> QED
      BY <3>1 DEF Sleeps
  <2> QED
    BY <2>1, <2>2
<1>4. \A x, y \in inQueue : x = y
  BY DEF CallInv, IsInjective
<1>5. \A x, y \in inTimers : x = y
  <2>1. ASSUME NEW x \in inTimers, NEW y \in inTimers PROVE x = y
    <3>1. PICK t \in Time : x \in {t} \X {j \in DOMAIN q[t] : q[t][j] = f}
      OBVIOUS
    <3>2. PICK u \in Time : y \in {u} \X {j \in DOMAIN q[u] : q[u][j] = f}
      OBVIOUS
    <3>3. PICK i \in DOMAIN q[t] : x = <<t, i>> /\ q[t][i] = f
      BY <3>1
    <3>4. PICK j \in DOMAIN q[u] : y = <<u, j>> /\ q[u][j] = f
      BY <3>2
    <3>5. t = u /\ i = j
      BY <3>3, <3>4 DEF CallInv, TimersOnce
    <3> QED
      BY <3>3, <3>4, <3>5
  <2> QED
    BY <2>1
<1>10. /\ inHands = {} <=> posting.call # f
       /\ \A x, y \in inHands : x = y
  OBVIOUS
<1> HIDE DEF inQueue, inTimers, inHands
<1>6. life[f] = "queued" <=> inQueue # {} \/ inTimers # {} \/ inHands # {}
  BY <1>2, <1>3, <1>10 DEF CallInv
<1>7. /\ inQueue = {} \/ inTimers = {}
      /\ inHands # {} => inQueue = {} /\ inTimers = {}
  BY <1>2, <1>3, <1>10 DEF CallInv
<1>8. ASSUME NEW S, \A x, y \in S : x = y
      PROVE  Cardinality(S) = IF S = {} THEN 0 ELSE 1
  <2>1. CASE S = {}
    BY <2>1, FS_EmptySet
  <2>2. CASE S # {}
    <3>1. PICK x \in S : TRUE
      BY <2>2
    <3>2. S = {x}
      BY <1>8, <3>1
    <3> QED
      BY <2>2, <3>2, FS_Singleton
  <2> QED
    BY <2>1, <2>2
<1>9. \A x, y \in Posts(f) : x = y
  BY <1>1, <1>4, <1>5, <1>7, <1>10
<1> QED
  BY <1>1, <1>6, <1>8, <1>9

\* A call has one runner or none
LEMMA RunnersCount ==
  ASSUME CallInv, NEW f \in Func
  PROVE  Cardinality(Runners(f)) = IF life[f] = "running" THEN 1 ELSE 0
<1>1. /\ \A x, y \in Runners(f) : x = y
      /\ life[f] = "running" <=> Runners(f) # {}
  BY DEF CallInv
<1>2. CASE Runners(f) = {}
  BY <1>1, <1>2, FS_EmptySet
<1>3. CASE Runners(f) # {}
  <2>1. PICK x \in Runners(f) : TRUE
    BY <1>3
  <2>2. Runners(f) = {x}
    BY <1>1, <2>1
  <2> QED
    BY <1>1, <1>3, <2>2, FS_Singleton
<1> QED
  BY <1>2, <1>3

(* Every posted call is in exactly one place, none is queued twice or run    *)
(* twice, and CheckTimeQueue's erase drops only calls that another thread    *)
(* added when their time had come.                                           *)
THEOREM CallsCorrect == Spec => []CallsOnce
<1>1. (IndInv \/ Ended) /\ CallInv => CallsOnce
  BY PostsCount, RunnersCount DEF IndInv, Ended, CallsOnce, CallInv
<1> QED
  BY CallsInductive, UntilTheEnd, <1>1, PTL

-----------------------------------------------------------------------------
(* Scheduler implements CallLife                                             *)

\* What a call with a delay adds to the timed calls, and a coroutine does not
LEMMA TimedInsert ==
  ASSUME TypeOK, NEW e \in Func \cup Coro \cup {Sched}, NEW k \in Time,
         coro_time_queue' = [coro_time_queue EXCEPT ![k] = Append(@, e)]
  PROVE  /\ e \in Func => TimedCalls' = TimedCalls \cup {<<e, k>>}
         /\ e \notin Func => TimedCalls' = TimedCalls
<1> DEFINE q == coro_time_queue
           s == q[k]
           E == Func \cup Coro \cup {Sched}
<1>1. k \in Time /\ s \in Seq(E) /\ q \in [Time -> Seq(E)]
      /\ q' = [q EXCEPT ![k] = Append(s, e)]
  BY DEF TypeOK
<1>2. /\ DOMAIN s = 1 .. Len(s)
      /\ DOMAIN Append(s, e) = 1 .. Len(s) + 1
      /\ Len(s) \in Nat
      /\ \A i \in 1 .. Len(s) : Append(s, e)[i] = s[i]
      /\ Append(s, e)[Len(s) + 1] = e
  BY <1>1, RangeAppend, RangeSeq
<1>3. \A t \in Time : q'[t] = IF t = k THEN Append(s, e) ELSE q[t]
  BY <1>1
<1> HIDE DEF q, E
<1>4. ASSUME NEW t \in Time, NEW f
      PROVE  (\E i \in DOMAIN q'[t] : q'[t][i] = f)
               <=> (\E i \in DOMAIN q[t] : q[t][i] = f) \/ (t = k /\ f = e)
  <2>1. CASE t # k
    BY <1>3, <2>1
  <2>2. CASE t = k
    <3> HIDE DEF s
    <3>1. \A i \in 1 .. Len(s) : i \in 1 .. Len(s) + 1
      BY <1>2
    <3>2. Len(s) + 1 \in 1 .. Len(s) + 1
      BY <1>2
    <3>3. \A i \in 1 .. Len(s) + 1 : i \in 1 .. Len(s) \/ i = Len(s) + 1
      BY <1>2
    <3>4. q'[t] = Append(s, e) /\ q[t] = s
      BY <1>3, <2>2 DEF s
    <3> QED
      BY <1>2, <2>2, <3>1, <3>2, <3>3, <3>4
  <2> QED
    BY <2>1, <2>2
<1>5. TimedCalls' = {x \in Func \X Time : x \in TimedCalls \/ (x[2] = k /\ x[1] = e)}
  <2>1. TimedCalls = {x \in Func \X Time : \E i \in DOMAIN q[x[2]] : q[x[2]][i] = x[1]}
    BY DEF TimedCalls, q
  <2>2. TimedCalls' = {x \in Func \X Time : \E i \in DOMAIN q'[x[2]] : q'[x[2]][i] = x[1]}
    BY DEF TimedCalls, q
  <2>3. \A x \in Func \X Time :
          (\E i \in DOMAIN q'[x[2]] : q'[x[2]][i] = x[1])
             <=> (\E i \in DOMAIN q[x[2]] : q[x[2]][i] = x[1]) \/ (x[2] = k /\ x[1] = e)
    BY <1>4
  <2> QED
    BY <2>1, <2>2, <2>3
<1>6. TimedCalls \subseteq Func \X Time
  BY DEF TimedCalls
<1> QED
  BY <1>1, <1>5, <1>6

LEMMA TimedAdd ==
  ASSUME TypeOK, NEW e \in Func \cup Coro \cup {Sched}, NEW delay,
         AddTimeCoroTask(e, delay)
  PROVE  /\ e \in Func => TimedCalls' = TimedCalls \cup {<<e, now + delay>>}
         /\ e \notin Func => TimedCalls' = TimedCalls
         /\ now + delay \in Time
<1> DEFINE k == now + delay
<1>1. k \in Time /\ coro_time_queue' = [coro_time_queue EXCEPT ![k] = Append(@, e)]
  BY DEF AddTimeCoroTask
<1> HIDE DEF k
<1>2. /\ e \in Func => TimedCalls' = TimedCalls \cup {<<e, k>>}
      /\ e \notin Func => TimedCalls' = TimedCalls
  BY <1>1, TimedInsert
<1> QED
  BY <1>1, <1>2 DEF k

\* What is left when the first entry of a bucket is taken
LEMMA TimedPop ==
  ASSUME TypeOK, TimersOnce, coro_time_queue[due] # <<>>,
         coro_time_queue' = [coro_time_queue EXCEPT ![due] = Tail(@)]
  PROVE  LET e == Head(coro_time_queue[due])
         IN  /\ TimedCalls' = TimedCalls \ {<<e, due>>}
             /\ e \in Func => <<e, due>> \in TimedCalls
<1> DEFINE q == coro_time_queue
           s == q[due]
           E == Func \cup Coro \cup {Sched}
           e == Head(s)
<1>1. /\ due \in Time /\ s \in Seq(E) /\ q \in [Time -> Seq(E)] /\ s # <<>>
      /\ q' = [q EXCEPT ![due] = Tail(s)]
  BY DEF TypeOK
<1>2. /\ DOMAIN s = 1 .. Len(s)
      /\ DOMAIN Tail(s) = 1 .. Len(s) - 1
      /\ Len(s) \in Nat \ {0}
      /\ \A i \in 1 .. Len(s) - 1 : Tail(s)[i] = s[i + 1]
      /\ e = s[1]
  BY <1>1, HeadTail, RangeSeq
<1>3. \A t \in Time : q'[t] = IF t = due THEN Tail(s) ELSE q[t]
  BY <1>1
<1>4. \A i, j \in DOMAIN s : s[i] = s[j] => i = j
  BY <1>1 DEF TimersOnce
<1> HIDE DEF q, E, e
<1>5. ASSUME NEW t \in Time, NEW f
      PROVE  (\E i \in DOMAIN q'[t] : q'[t][i] = f)
               <=> (\E i \in DOMAIN q[t] : q[t][i] = f) /\ ~(t = due /\ f = e)
  <2>1. CASE t # due
    BY <1>3, <2>1
  <2>2. CASE t = due
    <3> HIDE DEF s
    <3>1. \A i \in 1 .. Len(s) - 1 : i + 1 \in 1 .. Len(s) /\ i + 1 # 1
      BY <1>2
    <3>2. \A i \in 1 .. Len(s) : i # 1 => i - 1 \in 1 .. Len(s) - 1 /\ (i - 1) + 1 = i
      BY <1>2
    <3>3. 1 \in 1 .. Len(s)
      BY <1>2
    <3>4. q'[t] = Tail(s) /\ q[t] = s
      BY <1>3, <2>2 DEF s
    <3>5. \A i \in 1 .. Len(s) - 1 : Tail(s)[i] # e
      BY <1>2, <1>4, <3>1, <3>3
    <3>6. ASSUME NEW i \in 1 .. Len(s), s[i] = f, f # e
          PROVE  \E j \in 1 .. Len(s) - 1 : Tail(s)[j] = f
      <4>1. i # 1
        BY <1>2, <3>6
      <4> QED
        BY <1>2, <3>2, <3>6, <4>1
    <3>7. \A i \in 1 .. Len(s) - 1 : \E j \in 1 .. Len(s) : s[j] = Tail(s)[i]
      BY <1>2, <3>1
    <3>8. (\E i \in DOMAIN q'[t] : q'[t][i] = f)
             <=> \E i \in 1 .. Len(s) - 1 : Tail(s)[i] = f
      BY <1>2, <3>4
    <3>9. (\E i \in DOMAIN q[t] : q[t][i] = f) <=> \E i \in 1 .. Len(s) : s[i] = f
      BY <1>2, <3>4
    <3> QED
      BY <2>2, <3>5, <3>6, <3>7, <3>8, <3>9
  <2> QED
    BY <2>1, <2>2
<1>6. TimedCalls' = {x \in Func \X Time : x \in TimedCalls /\ ~(x[2] = due /\ x[1] = e)}
  <2>1. TimedCalls = {x \in Func \X Time : \E i \in DOMAIN q[x[2]] : q[x[2]][i] = x[1]}
    BY DEF TimedCalls, q
  <2>2. TimedCalls' = {x \in Func \X Time : \E i \in DOMAIN q'[x[2]] : q'[x[2]][i] = x[1]}
    BY DEF TimedCalls, q
  <2>3. \A x \in Func \X Time :
          (\E i \in DOMAIN q'[x[2]] : q'[x[2]][i] = x[1])
             <=> (\E i \in DOMAIN q[x[2]] : q[x[2]][i] = x[1]) /\ ~(x[2] = due /\ x[1] = e)
    BY <1>5
  <2> QED
    BY <2>1, <2>2, <2>3
<1>7. TimedCalls \subseteq Func \X Time
  BY DEF TimedCalls
<1>8. e \in Func => <<e, due>> \in TimedCalls
  <2>1. 1 \in DOMAIN q[due] /\ q[due][1] = e
    BY <1>2
  <2> QED
    BY <1>1, <2>1 DEF TimedCalls, q
<1>9. TimedCalls' = TimedCalls \ {<<e, due>>}
  BY <1>6, <1>7
<1> QED
  BY <1>8, <1>9 DEF e, s, q

\* What is left when a bucket is erased that has only calls
LEMMA TimedErase ==
  ASSUME TypeOK, NEW k \in Time, Range(coro_time_queue[k]) \subseteq Func,
         coro_time_queue' = [coro_time_queue EXCEPT ![k] = <<>>]
  PROVE  /\ TimedCalls' = {x \in TimedCalls : x[2] # k}
         /\ {x[1] : x \in TimedCalls \ TimedCalls'} = Range(coro_time_queue[k])
<1> DEFINE q == coro_time_queue
<1>1. q'[k] = <<>> /\ \A t \in Time : t # k => q'[t] = q[t]
  BY DEF TypeOK
<1>2. DOMAIN <<>> = {}
  BY SMT
<1>3. Range(q[k]) = {q[k][i] : i \in DOMAIN q[k]} /\ Range(q[k]) \subseteq Func
  BY DEF Range
<1> HIDE DEF q
<1>4. /\ TimedCalls = {x \in Func \X Time : \E i \in DOMAIN q[x[2]] : q[x[2]][i] = x[1]}
      /\ TimedCalls' = {x \in Func \X Time : \E i \in DOMAIN q'[x[2]] : q'[x[2]][i] = x[1]}
  BY DEF TimedCalls, q
<1>5. TimedCalls' = {x \in TimedCalls : x[2] # k}
  <2>1. \A x \in Func \X Time :
          (\E i \in DOMAIN q'[x[2]] : q'[x[2]][i] = x[1])
             <=> (\E i \in DOMAIN q[x[2]] : q[x[2]][i] = x[1]) /\ x[2] # k
    BY <1>1, <1>2
  <2> QED
    BY <1>4, <2>1
<1>6. TimedCalls \ TimedCalls' = {x \in TimedCalls : x[2] = k}
  BY <1>5
<1>7. \A x \in TimedCalls : x[2] = k => x[1] \in Range(q[k])
  BY <1>3, <1>4
<1>8. ASSUME NEW f \in Range(q[k]) PROVE <<f, k>> \in TimedCalls
  BY <1>3, <1>4
<1>9. ASSUME NEW f \in Range(q[k]) PROVE f \in {x[1] : x \in TimedCalls \ TimedCalls'}
  <2>1. <<f, k>> \in TimedCalls \ TimedCalls' /\ <<f, k>>[1] = f
    BY <1>6, <1>8
  <2> QED
    BY <2>1
<1> QED
  BY <1>5, <1>6, <1>7, <1>9 DEF q

\* What CallLife sees of the rest of the state
RunningCalls == {f \in Func : Runners(f) # {}}
DoneCalls == {f \in Func : life[f] = "done"}
LostCalls == {f \in Func : life[f] = "lost"}
CallTurn == IF rpc \in {"first", "bucket", "erase"} THEN due ELSE -1

\* How they follow the life of the calls
LEMMA CallsKept ==
  ASSUME CallInv, CallInv',
         \A f \in Func : \A l \in {"running", "done", "lost"} : life'[f] = l <=> life[f] = l
  PROVE  UNCHANGED <<RunningCalls, DoneCalls, LostCalls>>
<1>1. RunningCalls = {f \in Func : life[f] = "running"}
  BY DEF RunningCalls, CallInv
<1>2. RunningCalls' = {f \in Func : life'[f] = "running"}
  BY DEF RunningCalls, CallInv
<1> QED
  BY <1>1, <1>2 DEF DoneCalls, LostCalls

LEMMA CallsChange ==
  ASSUME CallInv, CallInv', TypeOK, NEW f \in Func
  PROVE  /\ life[f] = "running" <=> f \in RunningCalls
         /\ life[f] \in {"unused", "queued"} /\ life' = [life EXCEPT ![f] = "running"]
               => RunningCalls' = RunningCalls \cup {f} /\ UNCHANGED <<DoneCalls, LostCalls>>
         /\ life[f] = "running" /\ life' = [life EXCEPT ![f] = "done"]
               => /\ RunningCalls' = RunningCalls \ {f}
                  /\ DoneCalls' = DoneCalls \cup {f}
                  /\ UNCHANGED LostCalls
         /\ life[f] = "queued" /\ life' = [life EXCEPT ![f] = "lost"]
               => LostCalls' = LostCalls \cup {f} /\ UNCHANGED <<RunningCalls, DoneCalls>>
<1>1. RunningCalls = {g \in Func : life[g] = "running"}
  BY DEF RunningCalls, CallInv
<1>2. RunningCalls' = {g \in Func : life'[g] = "running"}
  BY DEF RunningCalls, CallInv
<1>3. /\ DoneCalls' = {g \in Func : life'[g] = "done"}
      /\ LostCalls' = {g \in Func : life'[g] = "lost"}
  BY DEF DoneCalls, LostCalls
<1>4. ASSUME NEW v, life' = [life EXCEPT ![f] = v]
      PROVE  \A g \in Func : life'[g] = IF g = f THEN v ELSE life[g]
  BY <1>4 DEF TypeOK
<1>5. ASSUME life[f] \in {"unused", "queued"}, life' = [life EXCEPT ![f] = "running"]
      PROVE  RunningCalls' = RunningCalls \cup {f} /\ UNCHANGED <<DoneCalls, LostCalls>>
  <2>1. \A g \in Func : life'[g] = IF g = f THEN "running" ELSE life[g]
    BY <1>4, <1>5
  <2>2. RunningCalls' = RunningCalls \cup {f}
    BY <1>1, <1>2, <2>1
  <2>3. UNCHANGED <<DoneCalls, LostCalls>>
    BY <1>3, <1>5, <2>1 DEF DoneCalls, LostCalls
  <2> QED
    BY <2>2, <2>3
<1>6. ASSUME life[f] = "running", life' = [life EXCEPT ![f] = "done"]
      PROVE  /\ RunningCalls' = RunningCalls \ {f}
             /\ DoneCalls' = DoneCalls \cup {f}
             /\ UNCHANGED LostCalls
  <2>1. \A g \in Func : life'[g] = IF g = f THEN "done" ELSE life[g]
    BY <1>4, <1>6
  <2>2. RunningCalls' = RunningCalls \ {f}
    BY <1>1, <1>2, <2>1
  <2>3. DoneCalls' = DoneCalls \cup {f} /\ UNCHANGED LostCalls
    BY <1>3, <1>6, <2>1 DEF DoneCalls, LostCalls
  <2> QED
    BY <2>2, <2>3
<1>7. ASSUME life[f] = "queued", life' = [life EXCEPT ![f] = "lost"]
      PROVE  LostCalls' = LostCalls \cup {f} /\ UNCHANGED <<RunningCalls, DoneCalls>>
  <2>1. \A g \in Func : life'[g] = IF g = f THEN "lost" ELSE life[g]
    BY <1>4, <1>7
  <2>2. LostCalls' = LostCalls \cup {f}
    BY <1>3, <2>1 DEF LostCalls
  <2>3. UNCHANGED <<RunningCalls, DoneCalls>>
    BY <1>1, <1>2, <1>3, <1>7, <2>1 DEF DoneCalls
  <2> QED
    BY <2>2, <2>3
<1> QED
  BY <1>1, <1>5, <1>6, <1>7

\* A call that CallLife does not know yet: not given to the scheduler, or still
\* in the hands of who posts it
LEMMA UnusedCalls ==
  ASSUME TypeOK, CallInv, NEW f \in Func, life[f] = "unused" \/ posting.call = f
  PROVE  Calls!Unused(f)
<1>1. /\ f \notin Range(coro_queue) /\ ~Sleeps(f) /\ Runners(f) = {}
      /\ life[f] \notin {"running", "done", "lost"}
  BY DEF CallInv
<1>2. ~Calls!InPosted(f)
  <2>1. Range(coro_queue) = {coro_queue[i] : i \in 1 .. Len(coro_queue)}
    BY RangeSeq DEF TypeOK
  <2> QED
    BY <1>1, <2>1 DEF Calls!InPosted
<1>3. ~Calls!InTimed(f)
  <2>1. ASSUME NEW t \in Time, <<f, t>> \in TimedCalls PROVE FALSE
    BY <1>1, <2>1 DEF TimedCalls, Sleeps
  <2> QED
    BY <2>1 DEF Calls!InTimed, Calls!Deadline, Time
<1> QED
  BY <1>1, <1>2, <1>3 DEF Calls!Unused

\* Steps that CallLife does not see
LEMMA Stutters ==
  ASSUME CallInv, CallInv', TimedCalls' = TimedCalls, CallTurn' = CallTurn,
         \A f \in Func : \A l \in {"running", "done", "lost"} : life'[f] = l <=> life[f] = l,
         UNCHANGED <<coro_queue, late, now>>
  PROVE  UNCHANGED Calls!callLife
<1>1. UNCHANGED <<RunningCalls, DoneCalls, LostCalls>>
  BY CallsKept
<1> QED
  BY <1>1 DEF Calls!callLife, RunningCalls, DoneCalls, LostCalls, CallTurn

\* CheckTimeQueue turns to a bucket ...
LEMMA RefineLookUp ==
  ASSUME IndInv, CallInv, CallInv', LookUpBucket
  PROVE  Calls!Next
<1>1. /\ due' \in Time /\ FirstBucket(due') /\ rpc = "timers" /\ rpc' = "first"
      /\ UNCHANGED <<coro_queue, coro_time_queue, life, late, now>>
  BY DEF LookUpBucket, InRoutine, postVars
<1>2. CallTurn = -1 /\ CallTurn' = due'
  BY <1>1 DEF CallTurn
<1>3. TimedCalls' = TimedCalls
  BY <1>1 DEF TimedCalls
<1>4. UNCHANGED <<RunningCalls, DoneCalls, LostCalls>>
  BY <1>1, CallsKept
<1>5. ASSUME NEW x \in TimedCalls PROVE due' <= x[2]
  <2>1. x[2] \in Time /\ coro_time_queue[x[2]] # <<>>
    <3>1. x[2] \in Time /\ \E i \in DOMAIN coro_time_queue[x[2]] : TRUE
      BY DEF TimedCalls
    <3>2. DOMAIN <<>> = {}
      BY SMT
    <3> QED
      BY <3>1, <3>2
  <2>2. ~(x[2] < due')
    BY <1>1, <2>1 DEF FirstBucket, HasKey
  <2> QED
    BY <1>1, <2>1, <2>2 DEF Time
<1>6. Calls!Turn(due')
  BY <1>1, <1>2, <1>3, <1>4, <1>5
     DEF Calls!Turn, Calls!NoTurn, CallTurn, RunningCalls, DoneCalls, LostCalls
<1>7. due' \in Calls!Deadline
  BY <1>1 DEF Calls!Deadline, Time
<1> QED
  BY <1>6, <1>7 DEF Calls!Next

\* ... leaves it, because it is not due ...
LEMMA RefineNothingDue ==
  ASSUME IndInv, CallInv, CallInv', NothingDue
  PROVE  Calls!Next
<1>1. /\ rpc = "first" /\ rpc' = "begin" /\ now < due
      /\ UNCHANGED <<coro_queue, coro_time_queue, life, late, now>>
  BY DEF NothingDue, InRoutine, postVars
<1>2. CallTurn = due /\ CallTurn' = -1 /\ due # -1
  BY <1>1 DEF CallTurn, IndInv, TypeOK, Time
<1>3. TimedCalls' = TimedCalls /\ TimedCalls \ TimedCalls' = {}
  BY <1>1 DEF TimedCalls
<1>4. UNCHANGED <<RunningCalls, DoneCalls, LostCalls>>
  BY <1>1, CallsKept
<1>5. {x[1] : x \in {}} = {}
  OBVIOUS
<1>6. Calls!EndTurn
  BY <1>1, <1>2, <1>3, <1>4, <1>5
     DEF Calls!EndTurn, Calls!NoTurn, CallTurn, RunningCalls, DoneCalls, LostCalls
<1> QED
  BY <1>6 DEF Calls!Next

\* ... or erases it
LEMMA RefineErase ==
  ASSUME IndInv, CallInv, CallInv', EraseBucket
  PROVE  Calls!Next
<1> DEFINE gone == Range(coro_time_queue[due])
<1>1. /\ rpc = "erase" /\ rpc' = "timers" /\ due \in Time /\ due <= now
      /\ gone \subseteq late /\ gone \subseteq Func
      /\ coro_time_queue' = [coro_time_queue EXCEPT ![due] = <<>>]
      /\ life' = [f \in Func |-> IF f \in gone THEN "lost" ELSE life[f]]
      /\ UNCHANGED <<coro_queue, late, now>>
      /\ TypeOK
  BY DEF EraseBucket, InRoutine, IndInv, BucketInv, TypeOK
<1>2. CallTurn = due /\ CallTurn' = -1 /\ due # -1 /\ ~(now < due)
  BY <1>1 DEF CallTurn, TypeOK, Time
<1>3. /\ TimedCalls' = {x \in TimedCalls : x[2] # due}
      /\ {x[1] : x \in TimedCalls \ TimedCalls'} = gone
  BY <1>1, TimedErase
<1>4. \A f \in gone : Sleeps(f)
  <2>1. gone = {coro_time_queue[due][i] : i \in DOMAIN coro_time_queue[due]}
    BY DEF Range
  <2> QED
    BY <1>1, <2>1 DEF Sleeps
<1> HIDE DEF gone
<1>5. \A f \in gone : life[f] = "queued" /\ f \in Func
  BY <1>1, <1>4 DEF CallInv
<1>6. LostCalls' = LostCalls \cup gone
  BY <1>1, <1>5 DEF LostCalls
<1>7. UNCHANGED <<RunningCalls, DoneCalls>>
  <2>1. RunningCalls = {f \in Func : life[f] = "running"}
    BY DEF RunningCalls, CallInv
  <2>2. RunningCalls' = {f \in Func : life'[f] = "running"}
    BY DEF RunningCalls, CallInv
  <2> QED
    BY <1>1, <1>5, <2>1, <2>2 DEF DoneCalls
<1>8. \A x \in TimedCalls \ TimedCalls' : x[1] \in late
  BY <1>1, <1>3
<1>9. Calls!EndTurn
  BY <1>1, <1>2, <1>3, <1>6, <1>7, <1>8
     DEF Calls!EndTurn, Calls!NoTurn, CallTurn, RunningCalls, DoneCalls, LostCalls
<1> QED
  BY <1>9 DEF Calls!Next

\* The Routine loop
LEMMA RefineRoutine ==
  ASSUME IndInv, CallInv, CallInv', Routine
  PROVE  Calls!Next \/ UNCHANGED Calls!callLife
<1> USE DEF routineVars, coroVars, postVars
<1>1. TypeOK /\ TimersOnce
  BY DEF IndInv, CallInv
<1>2. CASE RoutineBegin \/ QueueEmpty \/ NoTimers \/ OpenBucket \/ LeaveBucket
  <2>1. UNCHANGED <<coro_time_queue, coro_queue, life, late, now>> /\ CallTurn' = CallTurn
    BY <1>2 DEF RoutineBegin, QueueEmpty, NoTimers, OpenBucket, LeaveBucket, InRoutine, CallTurn
  <2>2. TimedCalls' = TimedCalls
    BY <2>1 DEF TimedCalls
  <2> QED
    BY <2>1, <2>2, Stutters
<1>3. CASE TakeTask
  <2> DEFINE f == Head(coro_queue)
  <2>1. /\ coro_queue # <<>> /\ coro_queue \in Seq(Func) /\ IsInjective(coro_queue)
        /\ coro_queue' = Tail(coro_queue)
        /\ Invoke(f) /\ direct = NULL /\ UNCHANGED <<coro_time_queue, now, late>>
        /\ CallTurn' = CallTurn
    BY <1>1, <1>3 DEF TakeTask, InRoutine, CallInv, TypeOK, CallTurn
  <2>2. f \in Func /\ f \in Range(coro_queue)
    BY <2>1, HeadTail, InjectiveTail
  <2>3. life[f] = "queued"
    BY <2>2 DEF CallInv
  <2>4. life' = [life EXCEPT ![f] = "running"]
    BY <2>1, <2>2, <2>3, InvokeRunners
  <2>5. RunningCalls' = RunningCalls \cup {f} /\ UNCHANGED <<DoneCalls, LostCalls>>
    BY <1>1, <2>2, <2>3, <2>4, CallsChange
  <2>6. Calls!StartPosted
    BY <2>1, <2>5
       DEF Calls!StartPosted, RunningCalls, DoneCalls, LostCalls, TimedCalls, CallTurn
  <2> QED
    BY <2>6 DEF Calls!Next
<1>4. CASE InvokeDue
  <2> DEFINE e == Head(coro_time_queue[due])
  <2>1. /\ coro_time_queue[due] # <<>>
        /\ coro_time_queue' = [coro_time_queue EXCEPT ![due] = Tail(@)]
        /\ direct = NULL /\ rpc = "bucket" /\ UNCHANGED <<coro_queue, now, late, rpc, due>>
        /\ \/ e \in Func /\ Invoke(e)
           \/ e \in Context /\ UNCHANGED life
    BY <1>4 DEF InvokeDue, InRoutine
  <2>2. /\ Sleeps(e)
        /\ TimedCalls' = TimedCalls \ {<<e, due>>}
        /\ e \in Func => <<e, due>> \in TimedCalls
    BY <1>1, <2>1, TimerPop, TimedPop
  <2> HIDE DEF e
  <2>3. CASE e \in Func /\ Invoke(e)
    <3>1. life[e] = "queued"
      BY <2>2, <2>3 DEF CallInv
    <3>2. life' = [life EXCEPT ![e] = "running"]
      BY <2>1, <2>3, <3>1, InvokeRunners
    <3>3. RunningCalls' = RunningCalls \cup {e} /\ UNCHANGED <<DoneCalls, LostCalls>>
      BY <1>1, <2>3, <3>1, <3>2, CallsChange
    <3>4. due <= now /\ CallTurn = due /\ CallTurn' = due
      BY <2>1 DEF IndInv, BucketInv, CallTurn
    <3>5. Calls!StartTimed(e)
      BY <2>1, <2>2, <2>3, <3>3, <3>4
         DEF Calls!StartTimed, RunningCalls, DoneCalls, LostCalls, CallTurn
    <3> QED
      BY <2>3, <3>5 DEF Calls!Next
  <2>4. CASE e \in Context /\ UNCHANGED life
    <3>1. TimedCalls \ {<<e, due>>} = TimedCalls
      BY <2>4 DEF TimedCalls
    <3>2. CallTurn' = CallTurn
      BY <2>1 DEF CallTurn
    <3> QED
      BY <2>1, <2>2, <2>4, <3>1, <3>2, Stutters
  <2> QED
    BY <2>1, <2>3, <2>4
<1> QED
  BY <1>2, <1>3, <1>4, RefineLookUp, RefineNothingDue, RefineErase DEF Routine

\* What functions do
LEMMA RefineFunction ==
  ASSUME IndInv, CallInv, CallInv', Function
  PROVE  Calls!Next \/ UNCHANGED Calls!callLife
<1> USE DEF routineVars, coroVars, postVars
<1>1. TypeOK
  BY DEF IndInv
<1>0. UNCHANGED <<rpc, due, late, now>> /\ CallTurn' = CallTurn
  BY DEF Function, CallStartCoro, CallStartCoroAfter, CoroSleep, Join, CoroDone, DirectReturn,
         CallTurn
<1>2. ASSUME NEW f \in Func, CallStartCoro(f) PROVE Calls!Next
  <2>1. StartCoro(f) /\ life[f] = "unused"
        /\ UNCHANGED <<direct, coro_queue, coro_time_queue>>
    BY <1>2 DEF CallStartCoro
  <2>2. life' = [life EXCEPT ![f] = "running"]
    BY <2>1, StartRunners
  <2>3. RunningCalls' = RunningCalls \cup {f} /\ UNCHANGED <<DoneCalls, LostCalls>>
    BY <1>1, <2>1, <2>2, CallsChange
  <2>4. Calls!Unused(f)
    BY <1>1, <2>1, UnusedCalls
  <2>5. Calls!StartNow(f)
    BY <1>0, <2>1, <2>3, <2>4
       DEF Calls!StartNow, RunningCalls, DoneCalls, LostCalls, TimedCalls, CallTurn
  <2> QED
    BY <2>5 DEF Calls!Next
<1>3. ASSUME NEW f \in Func, NEW d \in Delay, NEW create \in CreateChoice,
             CallStartCoroAfter(f, d, create)
      PROVE  Calls!Next
  <2>1. /\ AddTimeCoroTask(f, d) /\ life[f] = "unused" /\ UNCHANGED coro_queue
        /\ life' = [life EXCEPT ![f] = "queued"] /\ d \in Nat
    BY <1>3 DEF CallStartCoroAfter
  <2>2. Calls!Unused(f)
    BY <1>1, <2>1, UnusedCalls
  <2>3. TimedCalls' = TimedCalls \cup {<<f, now + d>>} /\ now + d \in Time
    BY <1>1, <2>1, TimedAdd
  <2>4. UNCHANGED <<RunningCalls, DoneCalls, LostCalls>>
    <3>1. \A g \in Func : life'[g] = IF g = f THEN "queued" ELSE life[g]
      BY <1>1, <2>1 DEF TypeOK
    <3> QED
      BY <2>1, <3>1, CallsKept
  <2>5. ~(now + d < now)
    BY <1>1, <2>1 DEF TypeOK, Time
  <2>6. Calls!PostAfter(f, now + d)
    BY <1>0, <2>1, <2>2, <2>3, <2>4, <2>5
       DEF Calls!PostAfter, RunningCalls, DoneCalls, LostCalls, CallTurn
  <2> QED
    BY <2>3, <2>6 DEF Calls!Next, Calls!Deadline, Time
<1>4. ASSUME NEW d \in Delay, CoroSleep(d) PROVE UNCHANGED Calls!callLife
  <2>1. /\ AddTimeCoroTask(current, d) /\ current \in Coro \cup {Sched}
        /\ UNCHANGED <<coro_queue, life>>
    BY <1>4 DEF CoroSleep, MayBlock, InFunction
  <2>2. current \notin Func
    BY <2>1 DEF Context
  <2>3. TimedCalls' = TimedCalls
    BY <1>1, <2>1, <2>2, TimedAdd
  <2> QED
    BY <1>0, <2>1, <2>3, Stutters
<1>5. ASSUME NEW c \in Coro, Join(c) PROVE UNCHANGED Calls!callLife
  <2>1. UNCHANGED <<coro_time_queue, coro_queue, life>>
    BY <1>5 DEF Join
  <2>2. TimedCalls' = TimedCalls
    BY <2>1 DEF TimedCalls
  <2> QED
    BY <1>0, <2>1, <2>2, Stutters
<1>6. ASSUME NEW f \in Func, life[f] = "running", life' = [life EXCEPT ![f] = "done"],
             UNCHANGED <<coro_queue, coro_time_queue>>
      PROVE  Calls!Next
  <2>1. /\ f \in RunningCalls /\ RunningCalls' = RunningCalls \ {f}
        /\ DoneCalls' = DoneCalls \cup {f} /\ UNCHANGED LostCalls
    BY <1>1, <1>6, CallsChange
  <2>2. Calls!Finish(f)
    BY <1>0, <1>6, <2>1
       DEF Calls!Finish, RunningCalls, DoneCalls, LostCalls, TimedCalls, CallTurn
  <2> QED
    BY <2>2 DEF Calls!Next
<1>7. ASSUME NEW c \in Coro, CoroDone(c) PROVE Calls!Next
  BY <1>6, <1>7, DoneRunners DEF CoroDone
<1>8. CASE DirectReturn
  BY <1>6, <1>8, DirectRunners DEF DirectReturn
<1> QED
  BY <1>2, <1>3, <1>4, <1>5, <1>7, <1>8 DEF Function

\* What other threads do
LEMMA RefineForeign ==
  ASSUME TypeOK, CallInv, CallInv', Foreign
  PROVE  Calls!Next \/ UNCHANGED Calls!callLife
<1> USE DEF routineVars, coroVars
<1>0. CallTurn' = CallTurn /\ UNCHANGED now
  BY DEF Foreign, Post, FindBucket, AddCall, AddFreed, ForeignStartCoro, ForeignStartCoroAfter,
         PushCoroTask, CallTurn
<1>1. ASSUME NEW f \in Func, NEW create, NEW d, PushCoroTask(f, create, d)
      PROVE  Calls!Next \/ UNCHANGED Calls!callLife
  <2>1. /\ life[f] = "unused" /\ life' = [life EXCEPT ![f] = "queued"]
        /\ UNCHANGED <<coro_time_queue, late>>
        /\ UNCHANGED coro_queue \/ coro_queue' = Append(coro_queue, f)
    BY <1>1 DEF PushCoroTask
  <2>2. \A g \in Func : life'[g] = IF g = f THEN "queued" ELSE life[g]
    BY <2>1 DEF TypeOK
  <2>3. TimedCalls' = TimedCalls /\ UNCHANGED <<RunningCalls, DoneCalls, LostCalls>>
    BY <2>1, <2>2, CallsKept DEF TimedCalls
  <2>4. CASE UNCHANGED coro_queue
    BY <1>0, <2>1, <2>2, <2>3, <2>4, Stutters
  <2>5. CASE coro_queue' = Append(coro_queue, f)
    <3>1. Calls!Unused(f)
      BY <2>1, UnusedCalls
    <3>2. Calls!Post(f)
      BY <1>0, <2>1, <2>3, <2>5, <3>1
         DEF Calls!Post, RunningCalls, DoneCalls, LostCalls, CallTurn
    <3> QED
      BY <3>2 DEF Calls!Next
  <2> QED
    BY <2>1, <2>4, <2>5
<1>2. CASE FindBucket
  <2>1. UNCHANGED <<coro_queue, coro_time_queue, life, late>>
    BY <1>2 DEF FindBucket
  <2>2. TimedCalls' = TimedCalls
    BY <2>1 DEF TimedCalls
  <2> QED
    BY <1>0, <2>1, <2>2, Stutters
<1> DEFINE f == posting.call
           t == posting.ts
<1>3. posting.at # "idle" => f \in Func /\ t \in Time /\ Calls!Unused(f)
  BY PostingType, UnusedCalls
<1>4. CASE AddCall
  <2>1. /\ f \in Func /\ t \in Time /\ Calls!Unused(f)
        /\ coro_time_queue' = [coro_time_queue EXCEPT ![t] = Append(@, f)]
        /\ late' = IF t <= now THEN late \cup {f} ELSE late
        /\ UNCHANGED <<coro_queue, life>>
    BY <1>3, <1>4 DEF AddCall, Posting
  <2> HIDE DEF f, t
  <2>2. TimedCalls' = TimedCalls \cup {<<f, t>>}
    BY <2>1, TimedInsert
  <2>3. UNCHANGED <<RunningCalls, DoneCalls, LostCalls>>
    BY <2>1, CallsKept
  <2>4. /\ late' \in {late, late \cup {f}}
        /\ late' # late \/ t < now => t <= now /\ f \in late'
    BY <2>1 DEF Time, TypeOK
  <2>5. Calls!PostAfter(f, t)
    BY <1>0, <2>1, <2>2, <2>3, <2>4
       DEF Calls!PostAfter, RunningCalls, DoneCalls, LostCalls, CallTurn
  <2> QED
    BY <2>1, <2>5 DEF Calls!Next, Calls!Deadline, Time
<1>5. ASSUME NEW g \in Func, NEW u \in Time, AddFreed, posting.call = g, posting.ts = u
      PROVE  Calls!Next
  <2>1. /\ posting.at = "freed" /\ life' = [life EXCEPT ![g] = "lost"]
        /\ late' = late \cup {g}
        /\ UNCHANGED <<coro_queue, coro_time_queue>>
    BY <1>5 DEF AddFreed, Posting
  <2>2. Calls!Unused(g) /\ u <= now
    BY <1>3, <1>5, <2>1 DEF CallInv
  <2>3. life[g] = "queued"
    BY <1>5 DEF CallInv
  <2>4. TimedCalls' = TimedCalls
    BY <2>1 DEF TimedCalls
  <2>5. LostCalls' = LostCalls \cup {g} /\ UNCHANGED <<RunningCalls, DoneCalls>>
    BY <2>1, <2>3, CallsChange
  <2>6. Calls!PostLost(g, u)
    BY <1>0, <2>1, <2>2, <2>4, <2>5
       DEF Calls!PostLost, RunningCalls, DoneCalls, LostCalls, CallTurn
  <2>7. u \in Calls!Deadline
    BY DEF Calls!Deadline, Time
  <2> QED
    BY <2>6, <2>7 DEF Calls!Next
<1>6. CASE AddFreed
  BY <1>3, <1>5, <1>6 DEF AddFreed, Posting
<1> QED
  BY <1>1, <1>2, <1>4, <1>6 DEF Foreign, Post, ForeignStartCoro, ForeignStartCoroAfter

\* Every step is one of CallLife, or none
LEMMA RefineNext ==
  ASSUME IndInv \/ Ended, CallInv, CallInv', [Next]_vars
  PROVE  [Calls!Next]_(Calls!callLife)
<1> USE DEF routineVars, coroVars, postVars
<1>1. TypeOK
  BY DEF IndInv, Ended
<1>2. CASE IndInv /\ Routine
  BY <1>2, RefineRoutine
<1>3. CASE IndInv /\ Function
  BY <1>3, RefineFunction
<1>4. CASE Foreign
  BY <1>1, <1>4, RefineForeign
<1>5. CASE Tick
  <2>1. /\ UNCHANGED <<life, coro_queue, coro_time_queue, late, rpc, due>>
        /\ now < MaxTime /\ now' = now + 1
    BY <1>5 DEF Tick
  <2>2. UNCHANGED <<RunningCalls, DoneCalls, LostCalls, CallTurn>>
    BY <2>1, CallsKept DEF CallTurn
  <2>3. Calls!Tick
    BY <2>1, <2>2
       DEF Calls!Tick, RunningCalls, DoneCalls, LostCalls, TimedCalls, CallTurn
  <2> QED
    BY <2>3 DEF Calls!Next
<1>6. CASE Run \/ UNCHANGED vars
  <2>1. UNCHANGED <<coro_time_queue, coro_queue, life, late, now>> /\ CallTurn' = CallTurn
    BY <1>6 DEF Run, vars, CallTurn
  <2>2. TimedCalls' = TimedCalls
    BY <2>1 DEF TimedCalls
  <2> QED
    BY <2>1, <2>2, Stutters
<1>7. CASE Ended
  BY <1>5, <1>6, <1>7, EndedNext
<1> QED
  BY <1>2, <1>3, <1>4, <1>5, <1>6, <1>7 DEF Next

LEMMA RefineInit == Init => Calls!Init
<1> SUFFICES ASSUME Init PROVE Calls!Init
  OBVIOUS
<1>1. DOMAIN <<>> = {}
  BY SMT
<1>2. TimedCalls = {} /\ CallTurn = -1
  BY <1>1 DEF Init, TimedCalls, CallTurn
<1>3. RunningCalls = {} /\ DoneCalls = {} /\ LostCalls = {}
  BY DEF Init, RunningCalls, DoneCalls, LostCalls, Runners
<1> QED
  BY <1>2, <1>3
     DEF Init, Calls!Init, Calls!NoTurn, RunningCalls, DoneCalls, LostCalls, CallTurn

(* Scheduler implements CallLife: a call it is given is started once, posted *)
(* calls in the order of their posts, those with a delay never early and by  *)
(* deadline as the scheduler turns to them, and a call is lost only if       *)
(* another thread added it when its time had come.                           *)
THEOREM CallsRefined == Spec => ImplementsCalls
<1>1. (IndInv \/ Ended) /\ CallInv /\ CallInv' /\ [Next]_vars
         => [Calls!Next]_(Calls!callLife)
  BY RefineNext
<1> QED
  BY RefineInit, UntilTheEnd, CallsInductive, <1>1, PTL DEF Spec, ImplementsCalls, Calls!Spec

=============================================================================
