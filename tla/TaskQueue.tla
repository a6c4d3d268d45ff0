----------------------------- MODULE TaskQueue -----------------------------
(***************************************************************************)
(* How calls get from other threads to the thread of a Scheduler: the      *)
(* critical section of PushCoroTask, Routine's timed wait for coro_queue   *)
(* and CheckTimeQueue, which reads coro_time_queue without the mutex that  *)
(* PushCoroTask holds when it adds to it (scheduler.cpp).                  *)
(*                                                                         *)
(* Module Scheduler has the mutex as the post that is under way; it is     *)
(* here with its condition, and what a call does once it is invoked is     *)
(* left out.  An operation of the std::map or std::deque is one step: what *)
(* two of them do to a container at the same time is not modelled.         *)
(***************************************************************************)
EXTENDS ThreadMutexLock, SequencesExt

CONSTANTS
  SchedThread,   \* the thread of the scheduler
  Func,          \* the calls; each is posted at most once
  Delay,         \* the wait_time arguments of PushCoroTask
  MaxTime,       \* bound: where the clock stops
  DefaultWait,   \* the 10 and the 100 milliseconds of Routine
  MaxWait

Poster == Thread \ {SchedThread}
Time == 0 .. MaxTime

ASSUME QueueAssumption ==
  /\ SchedThread \in Thread
  /\ NULL \notin Func
  /\ Delay \subseteq Int
  /\ MaxTime \in Nat
  /\ DefaultWait \in Nat \ {0}
  /\ MaxWait \in Nat
  /\ DefaultWait <= MaxWait
  /\ MaxWait < Half

VARIABLES
  eventfd,           \* options.eventfd > 0
  coro_queue,
  coro_time_queue,   \* <<>> where the map has no key (or an empty bucket: HasKey)
  routine_wait_ms,
  rpc,               \* where SchedThread is in Routine
  data,              \* the call it took from coro_queue, or NULL
  due, idx,          \* CheckTimeQueue's ts, and the entries it has invoked
  ppc,               \* where a poster is in PushCoroTask
  task, wait_time,   \* its call and its delay
  ts,                \* when its call is due (AddTimeCoroTask)
  started,           \* the calls that were invoked
  lost,              \* those that CheckTimeQueue erased instead
  posted,            \* history: the calls PushCoroTask was called with
  late,              \* history: those added to coro_time_queue when already due
  now                \* currentMills()

callVars == <<eventfd, task, wait_time>>
posterVars == <<ppc, ts, callVars, posted>>
routineVars == <<routine_wait_ms, rpc, data, due, idx, started, lost>>
vars == <<lockVars, coro_queue, coro_time_queue, routineVars, posterVars, late, now>>

Init ==
  /\ LockInit
  /\ eventfd \in BOOLEAN
  /\ coro_queue = <<>>
  /\ coro_time_queue = [t \in Time |-> <<>>]
  /\ routine_wait_ms = DefaultWait
  /\ rpc = "lock"
  /\ data = NULL
  /\ due = 0
  /\ idx = 0
  /\ ppc = [p \in Poster |-> "idle"]
  /\ task = [p \in Poster |-> NULL]
  /\ wait_time = [p \in Poster |-> 0]
  /\ ts = [p \in Poster |-> 0]
  /\ started = {}
  /\ lost = {}
  /\ posted = {}
  /\ late = {}
  /\ now = 0

-----------------------------------------------------------------------------
(* PushCoroTask in another thread *)

PGoto(p, from, to) == ppc[p] = from /\ ppc' = [ppc EXCEPT ![p] = to]

PushCoroTask(p, f, d) ==
  /\ PGoto(p, "idle", "lock")
  /\ f \notin posted
  /\ posted' = posted \cup {f}
  /\ task' = [task EXCEPT ![p] = f]
  /\ wait_time' = [wait_time EXCEPT ![p] = d]
  /\ UNCHANGED <<lockVars, coro_queue, coro_time_queue, routineVars, eventfd, ts, late, now>>

\* Mutant: coro_queue_mutex is not locked
PostLockFree(p) ==
  /\ PGoto(p, "lock", IF wait_time[p] > 0 THEN "stamp" ELSE "push")
  /\ UNCHANGED lockVars
  /\ UNCHANGED <<coro_queue, coro_time_queue, routineVars, callVars, posted, ts, late, now>>

PostLock(p) ==
  /\ PGoto(p, "lock", IF wait_time[p] > 0 THEN "stamp" ELSE "push")
  /\ Lock(p)
  /\ UNCHANGED <<coro_queue, coro_time_queue, routineVars, callVars, posted, ts, late, now>>

\* AddTimeCoroTask: the time first, then the map.  What is due after the clock
\* has stopped is due when it stops.
Stamp(p) ==
  /\ PGoto(p, "stamp", "find")
  /\ ts' = [ts EXCEPT ![p] = IF now + wait_time[p] < MaxTime THEN now + wait_time[p]
                                                             ELSE MaxTime]
  /\ UNCHANGED <<lockVars, coro_queue, coro_time_queue, routineVars, callVars, posted, late, now>>

\* coro_time_queue[ts] finds the bucket or makes one ...
Find(p) ==
  /\ PGoto(p, "find", "add")
  /\ UNCHANGED <<lockVars, coro_queue, coro_time_queue, routineVars, callVars, posted, ts,
                 late, now>>

\* ... and push_back adds to it
Add(p) ==
  /\ PGoto(p, "add", "unlock")
  /\ coro_time_queue' = [coro_time_queue EXCEPT ![ts[p]] = Append(@, task[p])]
  /\ late' = IF ts[p] <= now THEN late \cup {task[p]} ELSE late
  /\ UNCHANGED <<lockVars, coro_queue, routineVars, callVars, posted, ts, now>>

\* push_back on a bucket that CheckTimeQueue erased: undefined; nobody finds
\* the call there
AddFreed(p) ==
  /\ PGoto(p, "freed", "unlock")
  /\ lost' = lost \cup {task[p]}
  /\ late' = late \cup {task[p]}
  /\ UNCHANGED <<lockVars, coro_queue, coro_time_queue, routine_wait_ms, rpc, data, due,
                 idx, started, callVars, posted, ts, now>>

\* Mutant: the call is put in front
PushFront(p) ==
  /\ PGoto(p, "push", "notify")
  /\ coro_queue' = <<task[p]>> \o coro_queue
  /\ UNCHANGED <<lockVars, coro_time_queue, routineVars, callVars, posted, ts, late, now>>

Push(p) ==
  /\ PGoto(p, "push", "notify")
  /\ coro_queue' = Append(coro_queue, task[p])
  /\ UNCHANGED <<lockVars, coro_time_queue, routineVars, callVars, posted, ts, late, now>>

\* Mutant: nobody is notified
PostNotifySilent(p) ==
  /\ PGoto(p, "notify", "unlock")
  /\ UNCHANGED lockVars
  /\ UNCHANGED <<coro_queue, coro_time_queue, routineVars, callVars, posted, ts, late, now>>

\* Write to the eventfd, which no thread of the scheduler waits for, or notify
PostNotify(p) ==
  /\ PGoto(p, "notify", "unlock")
  /\ IF eventfd THEN UNCHANGED lockVars ELSE Notify
  /\ UNCHANGED <<coro_queue, coro_time_queue, routineVars, callVars, posted, ts, late, now>>

PostUnlock(p) ==
  /\ PGoto(p, "unlock", "idle")
  /\ Unlock(p)
  /\ UNCHANGED <<coro_queue, coro_time_queue, routineVars, callVars, posted, ts, late, now>>

Post(p) ==
  \/ PostLock(p)
  \/ Stamp(p) \/ Find(p) \/ Add(p) \/ AddFreed(p)
  \/ Push(p) \/ PostNotify(p)
  \/ PostUnlock(p)

-----------------------------------------------------------------------------
(* Routine(true) in the thread of the scheduler *)

RGoto(from, to) == rpc = from /\ rpc' = to

RoutineLock ==
  /\ RGoto("lock", "test")
  /\ Lock(SchedThread)
  /\ UNCHANGED <<coro_queue, coro_time_queue, routine_wait_ms, data, due, idx, started,
                 lost, posterVars, late, now>>

\* Mutant: the remaining time is taken as it is
WaitTimeRaw == routine_wait_ms

WaitTime ==
  IF routine_wait_ms <= 0 \/ routine_wait_ms > MaxWait THEN DefaultWait
                                                       ELSE routine_wait_ms

RoutineWait ==
  /\ RGoto("test", "wait")
  /\ coro_queue = <<>>
  /\ routine_wait_ms' = WaitTime
  /\ Wait(SchedThread, WaitTime)
  /\ UNCHANGED <<coro_queue, coro_time_queue, data, due, idx, started, lost, posterVars,
                 late, now>>

\* The wait was notified or timed out and has the mutex again
RoutineWake ==
  /\ RGoto("wait", "take")
  /\ SchedThread \notin sleeping
  /\ Lock(SchedThread)
  /\ UNCHANGED <<coro_queue, coro_time_queue, routine_wait_ms, data, due, idx, started,
                 lost, posterVars, late, now>>

\* Mutant: the call is not popped
RoutineTakeKeeps ==
  /\ rpc = "take" \/ (rpc = "test" /\ coro_queue # <<>>)
  /\ Unlock(SchedThread)
  /\ IF coro_queue = <<>>
       THEN rpc' = "timers" /\ UNCHANGED data
       ELSE rpc' = "invoke" /\ data' = Head(coro_queue)
  /\ UNCHANGED <<coro_queue, coro_time_queue, routine_wait_ms, due, idx, started, lost,
                 posterVars, late, now>>

\* Take the first call, if there is one, and unlock
RoutineTake ==
  /\ rpc = "take" \/ (rpc = "test" /\ coro_queue # <<>>)
  /\ Unlock(SchedThread)
  /\ IF coro_queue = <<>>
       THEN rpc' = "timers" /\ UNCHANGED <<coro_queue, data>>
       ELSE /\ rpc' = "invoke"
            /\ data' = Head(coro_queue)
            /\ coro_queue' = Tail(coro_queue)
  /\ UNCHANGED <<coro_time_queue, routine_wait_ms, due, idx, started, lost, posterVars,
                 late, now>>

\* data->Invoke(); the loop goes on
RoutineInvoke ==
  /\ RGoto("invoke", "lock")
  /\ started' = started \cup {data}
  /\ data' = NULL
  /\ UNCHANGED <<lockVars, coro_queue, coro_time_queue, routine_wait_ms, due, idx, lost,
                 posterVars, late, now>>

\* The map has a bucket for t: there is something in it, or a post is about to
\* put its call in
HasKey(t) ==
  coro_time_queue[t] # <<>> \/ \E p \in Poster : ppc[p] = "add" /\ ts[p] = t

First(t) == HasKey(t) /\ \A u \in Time : u < t => ~HasKey(u)

\* CheckTimeQueue, with no mutex: the map is empty, or the first bucket is
\* begin() ...
CheckTimeQueue ==
  /\ rpc = "timers"
  /\ \/ /\ \A t \in Time : ~HasKey(t)
        /\ routine_wait_ms' = 0
        /\ rpc' = "lock"
        /\ UNCHANGED due
     \/ /\ \E t \in Time : First(t) /\ due' = t
        /\ rpc' = "first"
        /\ UNCHANGED routine_wait_ms
  /\ UNCHANGED <<lockVars, coro_queue, coro_time_queue, data, idx, started, lost, posterVars,
                 late, now>>

\* ... and then the clock is read: the bucket is due or tells how long to wait
ReadClock ==
  /\ rpc = "first"
  /\ \/ /\ now < due
        /\ routine_wait_ms' = due - now
        /\ rpc' = "lock"
        /\ UNCHANGED idx
     \/ /\ due <= now
        /\ idx' = 0
        /\ rpc' = "bucket"
        /\ UNCHANGED routine_wait_ms
  /\ UNCHANGED <<lockVars, coro_queue, coro_time_queue, data, due, started, lost, posterVars,
                 late, now>>

\* Mutant: the loop stops before the last entry
BucketStepShort ==
  /\ rpc = "bucket"
  /\ IF idx + 1 < Len(coro_time_queue[due])
       THEN /\ started' = started \cup {coro_time_queue[due][idx + 1]}
            /\ idx' = idx + 1
            /\ UNCHANGED rpc
       ELSE rpc' = "erase" /\ UNCHANGED <<started, idx>>
  /\ UNCHANGED <<lockVars, coro_queue, coro_time_queue, routine_wait_ms, data, due, lost,
                 posterVars, late, now>>

\* One turn of the loop over the bucket
BucketStep ==
  /\ rpc = "bucket"
  /\ IF idx < Len(coro_time_queue[due])
       THEN /\ started' = started \cup {coro_time_queue[due][idx + 1]}
            /\ idx' = idx + 1
            /\ UNCHANGED rpc
       ELSE rpc' = "erase" /\ UNCHANGED <<started, idx>>
  /\ UNCHANGED <<lockVars, coro_queue, coro_time_queue, routine_wait_ms, data, due, lost,
                 posterVars, late, now>>

\* coro_time_queue.erase, with whatever was added since the loop ended; a post
\* that is about to add is left with a bucket that is gone
EraseBucket ==
  /\ RGoto("erase", "timers")
  /\ coro_time_queue' = [coro_time_queue EXCEPT ![due] = <<>>]
  /\ lost' = lost \cup {coro_time_queue[due][i] :
                         i \in (idx + 1) .. Len(coro_time_queue[due])}
  /\ ppc' = [p \in Poster |-> IF ppc[p] = "add" /\ ts[p] = due THEN "freed" ELSE ppc[p]]
  /\ UNCHANGED <<lockVars, coro_queue, routine_wait_ms, data, due, idx, started, callVars,
                 posted, ts, late, now>>

Routine ==
  RoutineLock \/ RoutineWait \/ RoutineWake \/ RoutineTake \/ RoutineInvoke
    \/ CheckTimeQueue \/ ReadClock \/ BucketStep \/ EraseBucket

-----------------------------------------------------------------------------
WaitTimeUp ==
  /\ TimeUp(SchedThread)
  /\ UNCHANGED <<coro_queue, coro_time_queue, routineVars, posterVars, late, now>>

\* A millisecond passes, for the wait even when the clock has stopped
Tick ==
  /\ now < MaxTime \/ SchedThread \in sleeping
  /\ now' = IF now < MaxTime THEN now + 1 ELSE now
  /\ Pass
  /\ UNCHANGED <<holder, sleeping, coro_queue, coro_time_queue, routineVars, posterVars,
                 late>>

Next ==
  \/ \E p \in Poster :
       \/ \E f \in Func, d \in Delay : PushCoroTask(p, f, d)
       \/ Post(p)
  \/ Routine
  \/ WaitTimeUp
  \/ Tick

Spec == Init /\ [][Next]_vars

(***************************************************************************)
(* Fairness: every thread is scheduled, time passes, and a mutex that is   *)
(* free again and again is not refused for ever to who wants it.  Nobody   *)
(* has to post.                                                            *)
(***************************************************************************)
FairSpec ==
  /\ Spec
  /\ WF_vars(Routine) /\ SF_vars(RoutineLock) /\ SF_vars(RoutineWake)
  /\ WF_vars(WaitTimeUp) /\ WF_vars(Tick)
  /\ \A p \in Poster : WF_vars(Post(p)) /\ SF_vars(PostLock(p))

-----------------------------------------------------------------------------
(* Properties *)

(* Type invariant; who is in a critical section holds the mutex, and only  *)
(* the scheduler's thread sleeps.                                          *)
TypeOK ==
  /\ holder \in Thread \cup {NULL}
  /\ sleeping \subseteq {SchedThread}
  /\ left \in [Thread -> Int \cup {Forever}]
  /\ eventfd \in BOOLEAN
  /\ coro_queue \in Seq(Func)
  /\ coro_time_queue \in [Time -> Seq(Func)]
  /\ routine_wait_ms \in Int
  /\ rpc \in {"lock", "test", "wait", "take", "invoke", "timers", "first", "bucket",
             "erase"}
  /\ data \in Func \cup {NULL}
  /\ due \in Time
  /\ idx \in Nat
  /\ ppc \in [Poster -> {"idle", "lock", "stamp", "find", "add", "freed", "push", "notify",
                         "unlock"}]
  /\ task \in [Poster -> Func \cup {NULL}]
  /\ wait_time \in [Poster -> Int]
  /\ ts \in [Poster -> Time]
  /\ started \subseteq Func
  /\ lost \subseteq Func
  /\ posted \subseteq Func
  /\ late \subseteq Func
  /\ now \in Time
  /\ \A p \in Poster : ppc[p] \notin {"idle", "lock"} => holder = p
  /\ \A p \in Poster : ppc[p] # "idle" => task[p] \in Func
  /\ rpc \in {"test", "take"} => holder = SchedThread

(* Without an eventfd the scheduler's thread never sleeps on a call in     *)
(* coro_queue, unless the thread that pushed it is just about to notify it *)
(* (PushCoroTask, Routine).                                                *)
NoLostWakeup ==
  ~eventfd /\ SchedThread \in sleeping /\ coro_queue # <<>> =>
    \E p \in Poster : ppc[p] = "notify"

\* The entries of bucket t that CheckTimeQueue has yet to invoke
Unserved(t) ==
  IF rpc \in {"bucket", "erase"} /\ t = due
    THEN SubSeq(coro_time_queue[t], idx + 1, Len(coro_time_queue[t]))
    ELSE coro_time_queue[t]

\* Where call f is
Places(f) ==
  {<<"posting", p, 0>> : p \in {q \in Poster :
     task[q] = f /\ ppc[q] \in {"lock", "stamp", "find", "add", "freed", "push"}}} \cup
  {<<"queue", 0, i>> : i \in {k \in DOMAIN coro_queue : coro_queue[k] = f}} \cup
  (UNION {{<<"timer", t, i>> : i \in {k \in DOMAIN Unserved(t) : Unserved(t)[k] = f}} :
            t \in Time}) \cup
  {<<s, 0, 0>> : s \in {k \in {"data", "started", "lost"} :
     \/ k = "data" /\ data = f
     \/ k = "started" /\ f \in started
     \/ k = "lost" /\ f \in lost}}

(* A call that was posted is in exactly one place, however the scheduler's *)
(* unlocked loop and the posts interleave: none vanishes, and none is      *)
(* invoked twice, or invoked and lost (CheckTimeQueue, PushCoroTask).      *)
OnePlace == \A f \in Func : Cardinality(Places(f)) = IF f \in posted THEN 1 ELSE 0

(* A call is lost for one reason only: its thread was held up inside       *)
(* AddTimeCoroTask until the call was due, so that its bucket was served   *)
(* and erased meanwhile.                                                   *)
LostOnlyLate == lost \subseteq late

(* Liveness: a posted call is invoked, or lost as above, with or without   *)
(* an eventfd and whether or not its post notifies anybody (PushCoroTask,  *)
(* Routine's bounded wait, CheckTimeQueue).                                *)
PostedStarts == \A f \in Func : f \in posted ~> f \in started \cup lost

(* The calls of this queue as CallLife sees them, from the step that adds  *)
(* one to a container to the step that invokes it; what a call does then   *)
(* is not modelled here, so it runs for ever.                              *)
Calls == INSTANCE CallLife WITH
  posted <- (IF data = NULL THEN <<>> ELSE <<data>>) \o coro_queue,
  timed <- {e \in Func \X Time : e[1] \in Range(Unserved(e[2]))},
  turn <- IF rpc \in {"first", "bucket", "erase"} THEN due ELSE -1,
  running <- started,
  done <- {}

(* Post and service, step by step, implement CallLife: a call is started   *)
(* once, never early, in the order of the posts or in the order of the     *)
(* deadlines as CheckTimeQueue's begin() finds them, and is lost only if   *)
(* its deadline had come when it was added (PushCoroTask, Routine,         *)
(* CheckTimeQueue).                                                        *)
ImplementsCalls == Calls!Spec

=============================================================================
