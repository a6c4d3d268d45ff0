------------------------------ MODULE Scheduler ------------------------------
(***************************************************************************)
(* One coroxx Scheduler running on a thread of its own (scheduler.cpp with *)
(* create_thread = true): the task queue other threads post to, the time   *)
(* queue, the tables of executing and joining coroutines, the coroutine    *)
(* pool and the retired coroutines, driven by the coroutine sched_coro     *)
(* that loops in Routine and by the functions that the coroutines run.     *)
(*                                                                         *)
(* A step runs from one context switch, or one visit of a queue, to the    *)
(* next.  Other threads touch only the two queues, in PushCoroTask.  They  *)
(* hold coro_queue_mutex there, so one of them posts at a time; but        *)
(* CheckTimeQueue does not take it, so what both do to the time queue is   *)
(* taken apart: begin(), the clock, the bucket and erase on one side, the  *)
(* clock, operator[] and push_back on the other.  Module TaskQueue has the *)
(* mutex and the condition too.                                            *)
(***************************************************************************)
EXTENDS CoroSwitch, FiniteSets

CONSTANTS
  InitPool,        \* the coroutines InitCoroPool creates, in pool order
  Func,            \* calls of user functions; each is started at most once
  MaxTime,         \* bound: the last millisecond of the clock
  Delay,           \* the delays StartCoroAfter and CoroSleep are called with
  CreateChoice,    \* the create_coro arguments callers pass
  BlockingDirect   \* may a function run on sched_coro itself sleep or join?

Time == 0 .. MaxTime
Pooled == Range(InitPool)

ASSUME SchedulerAssumption ==
  /\ InitPool \in Seq(Coro)
  /\ IsInjective(InitPool)
  /\ Func \cap Context = {}
  /\ NULL \notin Func
  /\ MaxTime \in Nat
  /\ Delay \subseteq Nat
  /\ CreateChoice \subseteq BOOLEAN
  /\ BlockingDirect \in BOOLEAN

VARIABLES
  mem,              \* the coroutine objects: "unborn", "live" or "freed"
  func,             \* func[c]: the call in the CoroCallData of coroutine c
  exec_table,       \* ids (= objects) of started, unfinished coroutines
  exec_coro_num,
  join_table,       \* join_table[c]: who waits for c, NULL if nobody
  deleting_coros,   \* finished coroutines CoroGC has yet to delete
  coro_pool,        \* idle pooled coroutines
  coro_queue,       \* calls posted for the Routine loop
  coro_time_queue,  \* per millisecond: calls to start, coroutines to wake;
                    \* <<>> where the map has no key
                    \* (or nothing is in its bucket yet: HasKey)
  create_coro,      \* CoroDiaptchData::create_coro of a posted call
  life,             \* life of a call: "unused" "queued" "running" "done" "lost"
  posting,          \* the timed post that is under way, if any: where it is,
                    \* its call and AddTimeCoroTask's ts
  late,             \* history: the calls posted when their time had come
  rpc,              \* where sched_coro is in RoutineFunc
  due,              \* CheckTimeQueue's it->first while it is in a bucket
  direct,           \* the call sched_coro runs on its own stack, or NULL
  now               \* currentMills()

coroVars == <<mem, func, exec_table, exec_coro_num, deleting_coros, coro_pool>>
routineVars == <<rpc, due>>
postVars == <<posting, late>>
vars == <<switchVars, coroVars, join_table, coro_queue, coro_time_queue,
          create_coro, life, routineVars, direct, now, postVars>>

\* No other thread has coro_queue_mutex
Idle == [at |-> "idle", call |-> NULL, ts |-> 0]

Init ==
  /\ SwitchInit
  /\ mem = [c \in Coro |-> "unborn"]
  /\ func = [c \in Coro |-> NULL]
  /\ exec_table = {}
  /\ exec_coro_num = 0
  /\ join_table = [c \in Coro |-> NULL]
  /\ deleting_coros = <<>>
  /\ coro_pool = <<>>
  /\ coro_queue = <<>>
  /\ coro_time_queue = [t \in Time |-> <<>>]
  /\ create_coro = [f \in Func |-> FALSE]
  /\ life = [f \in Func |-> "unused"]
  /\ posting = Idle
  /\ late = {}
  /\ rpc = "run"
  /\ due = 0
  /\ direct = NULL
  /\ now = 0

-----------------------------------------------------------------------------
(* Operators shared by several operations *)

\* CoroGC: every retired coroutine is deleted
Collected == [c \in Coro |-> IF c \in Range(deleting_coros) THEN "freed" ELSE mem[c]]

\* The coroutine GetCoroutine hands out is the first idle one of the pool or,
\* if there is none, a new one
Available(c) ==
  IF coro_pool = <<>> THEN mem[c] = "unborn" /\ c \notin Pooled
                      ELSE c = Head(coro_pool)

\* Scheduler::StartCoro on the scheduler's thread; it ends in the new coroutine
StartCoro(f) ==
  \E c \in Coro :
    /\ Available(c)
    /\ mem' = [Collected EXCEPT ![c] = "live"]
    /\ deleting_coros' = <<>>
    /\ coro_pool' = IF coro_pool = <<>> THEN coro_pool ELSE Tail(coro_pool)
    /\ func' = [func EXCEPT ![c] = f]
    /\ exec_table' = exec_table \cup {c}
    /\ exec_coro_num' = exec_coro_num + 1
    /\ life' = [life EXCEPT ![f] = "running"]
    /\ Resume(c, FALSE)

AddTimeCoroTask(entry, delay) ==
  /\ now + delay \in Time
  /\ coro_time_queue' = [coro_time_queue EXCEPT ![now + delay] = Append(@, entry)]

\* CoroDiaptchData::Invoke of a posted call by sched_coro
Invoke(f) ==
  \/ /\ create_coro[f]
     /\ StartCoro(f)
     /\ UNCHANGED direct
  \/ /\ ~create_coro[f]
     /\ direct' = f
     /\ life' = [life EXCEPT ![f] = "running"]
     /\ UNCHANGED <<switchVars, coroVars>>

-----------------------------------------------------------------------------
(* The scheduler's thread: Run, then Routine(true) over and over *)

\* Run: fill the pool, create sched_coro and switch to it
Run ==
  /\ rpc = "run"
  /\ rpc' = "begin"
  /\ coro_pool' = InitPool
  /\ mem' = [c \in Coro |-> IF c \in Pooled THEN "live" ELSE mem[c]]
  /\ Resume(Sched, FALSE)
  /\ UNCHANGED <<func, exec_table, exec_coro_num, join_table, deleting_coros,
                 coro_queue, coro_time_queue, create_coro, life, due, direct, now, postVars>>

InRoutine(pc) == current = Sched /\ direct = NULL /\ rpc = pc

\* Mutant: Routine does not collect
RoutineBeginNoGC ==
  /\ InRoutine("begin")
  /\ rpc' = "queue"
  /\ UNCHANGED <<switchVars, coroVars, join_table, coro_queue, coro_time_queue,
                 create_coro, life, due, direct, now, postVars>>

\* Routine's CoroGC
RoutineBegin ==
  /\ InRoutine("begin")
  /\ mem' = Collected
  /\ deleting_coros' = <<>>
  /\ rpc' = "queue"
  /\ UNCHANGED <<switchVars, func, exec_table, exec_coro_num, coro_pool, join_table,
                 coro_queue, coro_time_queue, create_coro, life, due, direct, now, postVars>>

\* Mutant: the queue is served from its back
TakeTaskLast ==
  /\ InRoutine("queue")
  /\ posting = Idle
  /\ coro_queue # <<>>
  /\ coro_queue' = Front(coro_queue)
  /\ Invoke(Last(coro_queue))
  /\ UNCHANGED <<join_table, coro_time_queue, create_coro, routineVars, now, postVars>>

\* One turn of Routine's loop that finds a call in the queue
TakeTask ==
  /\ InRoutine("queue")
  /\ posting = Idle
  /\ coro_queue # <<>>
  /\ coro_queue' = Tail(coro_queue)
  /\ Invoke(Head(coro_queue))
  /\ UNCHANGED <<join_table, coro_time_queue, create_coro, routineVars, now, postVars>>

\* Mutant: Routine returns without CheckTimeQueue
QueueEmptySkipsTimers ==
  /\ InRoutine("queue")
  /\ posting = Idle
  /\ coro_queue = <<>>
  /\ rpc' = "begin"
  /\ UNCHANGED <<switchVars, coroVars, join_table, coro_queue, coro_time_queue,
                 create_coro, life, due, direct, now, postVars>>

\* The queue is empty, also after the timed wait: go on to CheckTimeQueue
QueueEmpty ==
  /\ InRoutine("queue")
  /\ posting = Idle
  /\ coro_queue = <<>>
  /\ rpc' = "timers"
  /\ UNCHANGED <<switchVars, coroVars, join_table, coro_queue, coro_time_queue,
                 create_coro, life, due, direct, now, postVars>>

\* The map has a bucket for t: there is something in it, or a post has got it
\* from operator[] and not yet put its call in
HasKey(t) ==
  coro_time_queue[t] # <<>> \/ (posting.at = "add" /\ posting.ts = t)

\* Mutant: any bucket of the map, not its begin()
FirstBucketAny(t) == HasKey(t)

FirstBucket(t) == HasKey(t) /\ \A u \in Time : u < t => ~HasKey(u)

\* CheckTimeQueue: the map is empty
NoTimers ==
  /\ InRoutine("timers")
  /\ \A t \in Time : ~HasKey(t)
  /\ rpc' = "begin"
  /\ UNCHANGED <<switchVars, coroVars, join_table, coro_queue, coro_time_queue,
                 create_coro, life, due, direct, now, postVars>>

\* it is begin() ...
LookUpBucket ==
  /\ InRoutine("timers")
  /\ \E t \in Time : FirstBucket(t) /\ due' = t
  /\ rpc' = "first"
  /\ UNCHANGED <<switchVars, coroVars, join_table, coro_queue, coro_time_queue,
                 create_coro, life, direct, now, postVars>>

\* ... and only then the clock is read: the bucket is not due, or it is
NothingDue ==
  /\ InRoutine("first")
  /\ now < due
  /\ rpc' = "begin"
  /\ UNCHANGED <<switchVars, coroVars, join_table, coro_queue, coro_time_queue,
                 create_coro, life, due, direct, now, postVars>>

OpenBucket ==
  /\ InRoutine("first")
  /\ due <= now
  /\ rpc' = "bucket"
  /\ UNCHANGED <<switchVars, coroVars, join_table, coro_queue, coro_time_queue,
                 create_coro, life, due, direct, now, postVars>>

\* Invoke the next entry of the bucket: a call, or CoroSleepCB for a sleeper.
\* The entries that were invoked are dropped from the bucket at once: the loop
\* never looks at them again.
InvokeDue ==
  /\ InRoutine("bucket")
  /\ coro_time_queue[due] # <<>>
  /\ coro_time_queue' = [coro_time_queue EXCEPT ![due] = Tail(@)]
  /\ LET entry == Head(coro_time_queue[due])
     IN  \/ entry \in Func /\ Invoke(entry)
         \/ /\ entry \in Context
            /\ Resume(entry, FALSE)
            /\ UNCHANGED <<coroVars, life, direct>>
  /\ UNCHANGED <<join_table, coro_queue, create_coro, routineVars, now, postVars>>

\* Mutant: the loop leaves the last entry of the bucket
LeaveBucketEarly ==
  /\ InRoutine("bucket")
  /\ Len(coro_time_queue[due]) <= 1
  /\ rpc' = "erase"
  /\ UNCHANGED <<switchVars, coroVars, join_table, coro_queue, coro_time_queue,
                 create_coro, life, due, direct, now, postVars>>

\* The loop has found nothing more in the bucket
LeaveBucket ==
  /\ InRoutine("bucket")
  /\ coro_time_queue[due] = <<>>
  /\ rpc' = "erase"
  /\ UNCHANGED <<switchVars, coroVars, join_table, coro_queue, coro_time_queue,
                 create_coro, life, due, direct, now, postVars>>

\* The bucket is erased, with what was added after the loop, and a post that
\* is about to add to it is left with a bucket that is gone
EraseBucket ==
  /\ InRoutine("erase")
  /\ coro_time_queue' = [coro_time_queue EXCEPT ![due] = <<>>]
  /\ life' = [f \in Func |-> IF f \in Range(coro_time_queue[due]) THEN "lost" ELSE life[f]]
  /\ posting' = IF posting.at = "add" /\ posting.ts = due
                THEN [posting EXCEPT !.at = "freed"] ELSE posting
  /\ rpc' = "timers"
  /\ UNCHANGED <<switchVars, coroVars, join_table, coro_queue, create_coro, due, direct,
                 now, late>>

Routine ==
  \/ RoutineBegin \/ TakeTask \/ QueueEmpty
  \/ NoTimers \/ LookUpBucket \/ NothingDue
  \/ OpenBucket \/ InvokeDue \/ LeaveBucket \/ EraseBucket

-----------------------------------------------------------------------------
(* What a function may do on the scheduler's thread *)

InFunction == current \in Coro \/ (current = Sched /\ direct # NULL)
MayBlock == current \in Coro \/ (InFunction /\ BlockingDirect)

\* StartCoro(f): the caller is pushed on the coroutine stack
CallStartCoro(f) ==
  /\ InFunction
  /\ life[f] = "unused"
  /\ StartCoro(f)
  /\ UNCHANGED <<join_table, coro_queue, coro_time_queue, create_coro, routineVars,
                 direct, now, postVars>>

\* StartCoroAfter(f, delay, create)
CallStartCoroAfter(f, delay, create) ==
  /\ InFunction
  /\ life[f] = "unused"
  /\ AddTimeCoroTask(f, delay)
  /\ create_coro' = [create_coro EXCEPT ![f] = create]
  /\ life' = [life EXCEPT ![f] = "queued"]
  /\ UNCHANGED <<switchVars, coroVars, join_table, coro_queue, routineVars, direct, now, postVars>>

\* CoroSleep(delay)
CoroSleep(delay) ==
  /\ MayBlock
  /\ AddTimeCoroTask(current, delay)
  /\ Wait(current)
  /\ UNCHANGED <<coroVars, join_table, coro_queue, create_coro, life, routineVars,
                 direct, now, postVars>>

\* Mutant: Join gives way without waiting
JoinYields(c) ==
  /\ MayBlock
  /\ c \in exec_table
  /\ join_table[c] = NULL
  /\ join_table' = [join_table EXCEPT ![c] = current]
  /\ Yield(FALSE)
  /\ UNCHANGED <<coroVars, coro_queue, coro_time_queue, create_coro, life, routineVars,
                 direct, now, postVars>>

\* Join(c), where it waits; it returns at once if c is not executing (0) or
\* somebody joins c already (-2)
Join(c) ==
  /\ MayBlock
  /\ c \in exec_table
  /\ join_table[c] = NULL
  /\ join_table' = [join_table EXCEPT ![c] = current]
  /\ Wait(current)
  /\ UNCHANGED <<coroVars, coro_queue, coro_time_queue, create_coro, life, routineVars,
                 direct, now, postVars>>

\* Mutant: pooled coroutines are retired like the others
RetirePooled(c) ==
  /\ deleting_coros' = Append(deleting_coros, c)
  /\ UNCHANGED coro_pool

\* CoroDone, part one: a pooled coroutine becomes idle, another one is retired
Retire(c) ==
  \/ /\ c \in Pooled
     /\ coro_pool' = Append(coro_pool, c)
     /\ UNCHANGED deleting_coros
  \/ /\ c \notin Pooled
     /\ deleting_coros' = Append(deleting_coros, c)
     /\ UNCHANGED coro_pool

\* Mutant: join_table is not searched before its entry is used
WakeJoinerUnchecked(c) ==
  /\ join_table' = [join_table EXCEPT ![c] = NULL]
  /\ Resume(join_table[c], TRUE)

\* Mutant: the finished coroutine is not released
WakeJoinerKeeps(c) ==
  \/ /\ join_table[c] # NULL
     /\ join_table' = [join_table EXCEPT ![c] = NULL]
     /\ Resume(join_table[c], TRUE)
  \/ /\ join_table[c] = NULL
     /\ UNCHANGED join_table
     /\ Yield(FALSE)

\* Mutant: the joiner is forgotten
WakeJoinerForgets(c) ==
  /\ join_table' = [join_table EXCEPT ![c] = NULL]
  /\ Yield(TRUE)

\* CoroDone, part two: who joins c runs next, else whom Yield finds
WakeJoiner(c) ==
  \/ /\ join_table[c] # NULL
     /\ join_table' = [join_table EXCEPT ![c] = NULL]
     /\ Resume(join_table[c], TRUE)
  \/ /\ join_table[c] = NULL
     /\ UNCHANGED join_table
     /\ Yield(TRUE)

\* A coroutine's function returns: CoroDone
CoroDone(c) ==
  /\ current = c
  /\ exec_table' = exec_table \ {c}
  /\ exec_coro_num' = IF c \in exec_table THEN exec_coro_num - 1 ELSE exec_coro_num
  /\ Retire(c)
  /\ WakeJoiner(c)
  /\ life' = [life EXCEPT ![func[c]] = "done"]
  /\ UNCHANGED <<mem, func, coro_queue, coro_time_queue, create_coro, routineVars,
                 direct, now, postVars>>

\* A function that sched_coro runs itself returns to the Routine loop
DirectReturn ==
  /\ current = Sched
  /\ direct # NULL
  /\ direct' = NULL
  /\ life' = [life EXCEPT ![direct] = "done"]
  /\ UNCHANGED <<switchVars, coroVars, join_table, coro_queue, coro_time_queue,
                 create_coro, routineVars, now, postVars>>

-----------------------------------------------------------------------------
(* Other threads, and the clock *)

\* PushCoroTask by a thread that gets the mutex.  Without a delay nobody sees
\* what it does before it gives the mutex back; with one, AddTimeCoroTask reads
\* the clock and goes on in the steps below.  Run's return, which deletes the
\* scheduler, ends the behaviour.
PushCoroTask(f, create, delay) ==
  /\ current # Main
  /\ posting = Idle
  /\ life[f] = "unused"
  /\ life' = [life EXCEPT ![f] = "queued"]
  /\ create_coro' = [create_coro EXCEPT ![f] = create]
  /\ \/ /\ delay > 0
        /\ now + delay \in Time
        /\ posting' = [at |-> "find", call |-> f, ts |-> now + delay]
        /\ UNCHANGED coro_queue
     \/ /\ delay <= 0
        /\ coro_queue' = Append(coro_queue, f)
        /\ UNCHANGED posting
  /\ UNCHANGED <<switchVars, coroVars, join_table, coro_time_queue, routineVars, direct,
                 now, late>>

Posting(at) == current # Main /\ posting.at = at

\* coro_time_queue[ts] finds the bucket or makes one
FindBucket ==
  /\ Posting("find")
  /\ posting' = [posting EXCEPT !.at = "add"]
  /\ UNCHANGED <<switchVars, coroVars, join_table, coro_queue, coro_time_queue,
                 create_coro, life, routineVars, direct, now, late>>

\* push_back, and the mutex is given back
AddCall ==
  /\ Posting("add")
  /\ coro_time_queue' = [coro_time_queue EXCEPT ![posting.ts] = Append(@, posting.call)]
  /\ late' = IF posting.ts <= now THEN late \cup {posting.call} ELSE late
  /\ posting' = Idle
  /\ UNCHANGED <<switchVars, coroVars, join_table, coro_queue, create_coro, life,
                 routineVars, direct, now>>

\* push_back on the bucket CheckTimeQueue erased: undefined; nobody finds the
\* call there
AddFreed ==
  /\ Posting("freed")
  /\ life' = [life EXCEPT ![posting.call] = "lost"]
  /\ late' = late \cup {posting.call}
  /\ posting' = Idle
  /\ UNCHANGED <<switchVars, coroVars, join_table, coro_queue, coro_time_queue,
                 create_coro, routineVars, direct, now>>

Post == FindBucket \/ AddCall \/ AddFreed

\* StartCoro and StartCoroAfter from a thread without a scheduler
ForeignStartCoro(f) == \E create \in CreateChoice : PushCoroTask(f, create, 0)
ForeignStartCoroAfter(f, delay) == PushCoroTask(f, FALSE, delay)

Tick ==
  /\ now < MaxTime
  /\ now' = now + 1
  /\ UNCHANGED <<switchVars, coroVars, join_table, coro_queue, coro_time_queue,
                 create_coro, life, routineVars, direct, postVars>>

-----------------------------------------------------------------------------
Function ==
  \/ \E f \in Func :
       \/ CallStartCoro(f)
       \/ \E d \in Delay, create \in CreateChoice : CallStartCoroAfter(f, d, create)
  \/ \E d \in Delay : CoroSleep(d)
  \/ \E c \in Coro : Join(c)
  \/ \E c \in Coro : CoroDone(c)
  \/ DirectReturn

Foreign ==
  \/ \E f \in Func :
       ForeignStartCoro(f) \/ \E d \in Delay : ForeignStartCoroAfter(f, d)
  \/ Post

Next == Run \/ Routine \/ Function \/ Foreign \/ Tick

Spec == Init /\ [][Next]_vars

(***************************************************************************)
(* Fairness.  The thread of the scheduler is scheduled by the system and   *)
(* the clock goes on; a user function makes only finitely many calls       *)
(* before it returns.  Of the other threads nothing is assumed but that    *)
(* one that is inside PushCoroTask comes out of it.                        *)
(***************************************************************************)
Fairness ==
  /\ WF_vars(Run)
  /\ WF_vars(Routine)
  /\ WF_vars(Tick)
  /\ \A c \in Coro : SF_vars(CoroDone(c))
  /\ WF_vars(DirectReturn)
  /\ WF_vars(Post)

FairSpec == Spec /\ Fairness

-----------------------------------------------------------------------------
(* Properties *)

(* Type invariant; nobody is current exactly until Run has switched to     *)
(* sched_coro: NULL is never resumed.                                      *)
TypeOK ==
  /\ current \in Context \cup {NULL}
  /\ current = NULL <=> rpc = "run"
  /\ coro_stack \in Seq(Context)
  /\ waiting \in [Context -> BOOLEAN]
  /\ mem \in [Coro -> {"unborn", "live", "freed"}]
  /\ func \in [Coro -> Func \cup {NULL}]
  /\ exec_table \in SUBSET Coro
  /\ exec_coro_num \in Int
  /\ join_table \in [Coro -> Coro \cup {Sched, NULL}]
  /\ deleting_coros \in Seq(Coro)
  /\ coro_pool \in Seq(Coro)
  /\ coro_queue \in Seq(Func)
  /\ coro_time_queue \in [Time -> Seq(Func \cup Coro \cup {Sched})]
  /\ create_coro \in [Func -> BOOLEAN]
  /\ life \in [Func -> {"unused", "queued", "running", "done", "lost"}]
  /\ posting = Idle \/ posting \in [at : {"find", "add", "freed"}, call : Func, ts : Time]
  /\ late \in SUBSET Func
  /\ rpc \in {"run", "begin", "queue", "timers", "first", "bucket", "erase"}
  /\ due \in Time
  /\ direct \in Func \cup {NULL}
  /\ now \in Time

Joins(c) == \E x \in Coro : join_table[x] = c
Sleeps(c) == \E t \in Time : \E i \in DOMAIN coro_time_queue[t] : coro_time_queue[t][i] = c

TimersOnce ==
  \A t, u \in Time : \A i \in DOMAIN coro_time_queue[t], j \in DOMAIN coro_time_queue[u] :
    coro_time_queue[t][i] = coro_time_queue[u][j] => t = u /\ i = j

(* A coroutine waits exactly when one wake-up is pending for it: one entry *)
(* of the time queue or one join.  No CoroSleep or Join loses its wake-up, *)
(* and none is resumed twice (CoroSleep, Join, CoroDone, CheckTimeQueue).  *)
OneWakeup ==
  /\ \A c \in Coro :
       /\ waiting[c] <=> Sleeps(c) \/ Joins(c)
       /\ ~(Sleeps(c) /\ Joins(c))
       /\ \A x, y \in Coro : join_table[x] = c /\ join_table[y] = c => x = y
  /\ TimersOnce

(* The coroutines that run or wait for a coroutine they resumed to give    *)
(* control back: each is current or on the coroutine stack once, none of   *)
(* them waits, and sched_coro is at the bottom, so that a Yield never      *)
(* falls back on the main context, which would end Run and delete the      *)
(* scheduler under its coroutines.                                         *)
RunStack ==
  /\ IsInjective(coro_stack)
  /\ \A i \in DOMAIN coro_stack : coro_stack[i] # current /\ ~waiting[coro_stack[i]]
  /\ current # NULL => ~waiting[current]
  /\ \A c \in exec_table : waiting[c] \/ c = current \/ c \in Range(coro_stack)
  /\ rpc # "run" => current = Sched \/ (coro_stack # <<>> /\ coro_stack[1] = Sched)

(* Whatever the scheduler can still resume - the current coroutine, the    *)
(* coroutine stack, the sleepers, the joiners and whom they wait for - is  *)
(* a started coroutine that is neither finished nor deleted: no pointer    *)
(* kept anywhere outlives its coroutine.                                   *)
NoDangling ==
  /\ current \in exec_table \cup {Sched, NULL}
  /\ Range(coro_stack) \subseteq exec_table \cup {Sched}
  /\ \A c \in Coro : Sleeps(c) \/ Joins(c) => c \in exec_table
  /\ \A x \in Coro : join_table[x] # NULL => x \in exec_table
  /\ \A c \in exec_table : mem[c] = "live"

(* Every coroutine object is accounted for: a live one executes or is      *)
(* idle in the pool or waits for CoroGC, exactly one of these and once, so *)
(* that none is leaked, deleted twice or handed out while it executes, and *)
(* only pooled coroutines enter the pool and never leave memory;           *)
(* exec_coro_num counts those that execute.                                *)
Accounted ==
  /\ exec_coro_num = Cardinality(exec_table)
  /\ IsInjective(coro_pool)
  /\ IsInjective(deleting_coros)
  /\ Range(coro_pool) \cap exec_table = {}
  /\ Range(deleting_coros) \cap (exec_table \cup Pooled) = {}
  /\ Range(coro_pool) \subseteq Pooled
  /\ {c \in Coro : mem[c] = "live"} =
        exec_table \cup Range(coro_pool) \cup Range(deleting_coros)

(* The inductive invariant that the properties above follow from, in its   *)
(* named parts.                                                            *)

\* stk is what Resume and Yield make of the coroutine stack while cur runs:
\* sched_coro at the bottom, nobody twice
Shape(stk, cur) ==
  /\ IsInjective(stk)
  /\ cur \notin Range(stk)
  /\ cur = Sched => stk = <<>>
  /\ cur # Sched => stk # <<>> /\ stk[1] = Sched

Running == Range(coro_stack) \cup {current}

StackInv ==
  /\ Shape(coro_stack, current)
  /\ Running \subseteq exec_table \cup {Sched}
  /\ \A c \in Running : ~waiting[c]
  /\ \A c \in exec_table : waiting[c] \/ c \in Running

BeforeRun ==
  /\ coro_stack = <<>>
  /\ exec_table = {}
  /\ coro_pool = <<>>
  /\ deleting_coros = <<>>
  /\ direct = NULL

TimerInv ==
  /\ TimersOnce
  /\ ~Sleeps(Sched)
  /\ \A c \in Coro : Sleeps(c) => c \in exec_table
  /\ \A f \in Func : Sleeps(f) => life[f] # "unused"
  /\ \A f \in Func : posting.call = f => life[f] # "unused" /\ ~Sleeps(f)

JoinInv ==
  \A x, y \in Coro :
    join_table[x] # NULL =>
      /\ x \in exec_table
      /\ join_table[x] \in exec_table
      /\ join_table[y] = join_table[x] => y = x

WaitInv ==
  \A c \in Coro \cup {Sched} :
    /\ waiting[c] <=> Sleeps(c) \/ Joins(c)
    /\ ~(Sleeps(c) /\ Joins(c))

\* While a bucket is looked at no coroutine sleeps in an earlier one, and what
\* comes into one that is through came late.  No function runs before the
\* bucket is found due and after it is through.
BucketInv ==
  /\ rpc \in {"first", "erase"} => current = Sched /\ direct = NULL
  /\ rpc \in {"first", "bucket", "erase"} =>
       \A t \in Time : t < due => Range(coro_time_queue[t]) \subseteq Func
  /\ rpc \in {"bucket", "erase"} => due <= now
  /\ rpc = "erase" => Range(coro_time_queue[due]) \subseteq late

(* The inductive invariant: as long as the functions that sched_coro runs  *)
(* itself do not block, all its parts hold together after every step.      *)
IndInv ==
  /\ TypeOK
  /\ IF rpc = "run" THEN BeforeRun ELSE StackInv
  /\ TimerInv
  /\ JoinInv
  /\ WaitInv
  /\ Accounted
  /\ IsFiniteSet(exec_table)
  /\ BucketInv

Posts(f) ==
  {i \in DOMAIN coro_queue : coro_queue[i] = f} \cup
  (UNION {{t} \X {i \in DOMAIN coro_time_queue[t] : coro_time_queue[t][i] = f} : t \in Time})
  \cup (IF posting.call = f THEN {posting} ELSE {})
Runners(f) ==
  {c \in exec_table : func[c] = f} \cup (IF direct = f THEN {Sched} ELSE {})

(* Every posted call is in exactly one place: a queued one in one queue    *)
(* once or still in the hands of who posts it, a running one in one        *)
(* executing coroutine or on sched_coro; no call is run twice, and         *)
(* CheckTimeQueue's erase drops only calls that another thread added when  *)
(* their time had come.                                                    *)
CallsOnce ==
  \A f \in Func :
    /\ Cardinality(Posts(f)) = IF life[f] = "queued" THEN 1 ELSE 0
    /\ Cardinality(Runners(f)) = IF life[f] = "running" THEN 1 ELSE 0
    /\ life[f] = "lost" => f \in late

(* A coroutine that joins another gets on only in the step in which that   *)
(* one finishes (Join, CoroDone).                                          *)
JoinMeansDone ==
  [][\A x \in Coro : join_table[x] # NULL /\ current' = join_table[x]
       => x \in exec_table /\ x \notin exec_table']_vars

(* Nothing is taken out of the time queue early, first comes first within  *)
(* a bucket, and a sleeper is never passed by: what is taken out or erased *)
(* has no coroutine that sleeps for an earlier time before it, and no      *)
(* sleeper is ever erased (CheckTimeQueue, AddTimeCoroTask).               *)
ServedInOrder ==
  [][\A t \in Time :
       Len(coro_time_queue'[t]) < Len(coro_time_queue[t]) =>
         /\ t <= now
         /\ \A u \in Time : u < t => Range(coro_time_queue[u]) \subseteq Func
         /\ \/ coro_time_queue'[t] = Tail(coro_time_queue[t])
            \/ Range(coro_time_queue[t]) \subseteq late]_vars

(* Liveness: a posted call is started, or it is a timed one that another   *)
(* thread added when its time had come and CheckTimeQueue erased           *)
(* (StartCoro, StartCoroAfter, Routine).                                   *)
PostedStarts ==
  \A f \in Func :
    life[f] = "queued" ~> \/ life[f] \in {"running", "done"}
                          \/ life[f] = "lost" /\ f \in late

(* Liveness: a coroutine that sleeps runs again (CoroSleep)                *)
SleeperRuns == \A c \in Coro : Sleeps(c) ~> current = c

\* c belongs to a set of coroutines each of which joins one of them
JoinCycle(c) ==
  \E S \in SUBSET Coro :
    /\ \A x \in S : \E y \in S : join_table[y] = x
    /\ c \in S

(* Liveness: a coroutine that joins another runs again unless it waits, in *)
(* the end, for coroutines that all wait for each other (Join)             *)
JoinerRuns == \A c \in Coro : Joins(c) ~> (current = c \/ JoinCycle(c))

(* Liveness: a retired coroutine is deleted (CoroDone, CoroGC)             *)
RetiredFreed == \A c \in Coro : c \in Range(deleting_coros) ~> mem[c] = "freed"

(* Run returns, and takes the scheduler and its coroutines with it, for    *)
(* one reason only: a function that sched_coro runs itself sleeps or joins *)
(* (Yield's fallback on the main context, RunFunc's delete).               *)
EndsOnlyByDirect == current = Main => direct # NULL /\ waiting[Sched]

(* A function whose caller asks for a coroutine runs in one, as the        *)
(* default create_coro = true of StartCoroAfter promises (scheduler.h:80). *)
CreateIsHonoured == CreateChoice = {TRUE} => direct = NULL

(* The calls of this scheduler as CallLife sees them: a call runs while a  *)
(* coroutine or sched_coro runs it.                                        *)
TimedCalls == {e \in Func \X Time : \E i \in DOMAIN coro_time_queue[e[2]] :
                                      coro_time_queue[e[2]][i] = e[1]}

Calls == INSTANCE CallLife WITH
  posted <- coro_queue,
  timed <- TimedCalls,
  turn <- IF rpc \in {"first", "bucket", "erase"} THEN due ELSE -1,
  running <- {f \in Func : Runners(f) # {}},
  done <- {f \in Func : life[f] = "done"},
  lost <- {f \in Func : life[f] = "lost"}

(* The scheduler implements CallLife: whatever its coroutines and the      *)
(* threads that post do, a call it is given is started once, never early   *)
(* and in the order CallLife allows, and is lost only if another thread    *)
(* added it when its time had come (PushCoroTask, Routine, CheckTimeQueue, *)
(* StartCoro, CoroDone).                                                   *)
ImplementsCalls == Calls!Spec

=============================================================================
