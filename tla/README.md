# coroxx: models and proofs

coroxx is a C++ coroutine library: stackful coroutines on top of Marc Lehmann's
libcoro, and a scheduler that runs them on a thread of its own or on the
caller's. This directory holds TLA+ models of it, the TLC configurations that
check them and proofs of their main properties that TLAPS checks. File and line
references are to the library's source.

1. [The system](#the-system)
2. [Plan](#plan)
3. [Modules](#modules)
4. [What the runs check](#what-the-runs-check)
5. [What is proved](#what-is-proved)
6. [Findings](#findings)
7. [Not modelled](#not-modelled)

## The system

| Component | State | Operations |
|---|---|---|
| Coroutine switching (`libcoro.cpp`) | per thread: `current`, `main`, `coro_stack`; per coroutine: `waiting` | `Resume(release)`, `Yield(release)`, `Wait` |
| Stacks (`libcoro.cpp`) | per thread: `share_stack_pool`, its cursor, the swap context; per coroutine: `stack`, `save_buffer`, `stack_sp`; per stack: its last owner | the second half of `Resume`, `SaveStackBuffer`, `ResumeStackBuffer`, `MarkStackResumePoint`, the destructor, `GetCoroStack` |
| Creation of contexts (`coro.c`) | static variables shared by all threads; `g_create_mutex` | `coro_create`, `coro_init`, `SwapContext::Init` |
| Scheduler (`scheduler.cpp`) | `exec_table`, `join_table`, `deleting_coros`, `coro_pool`, `coro_queue`, `coro_time_queue`, `sched_coro`, `routine_wait_ms` | `Run`, `Routine`, `CheckTimeQueue`, `StartCoro`, `StartCoroAfter`, `PushCoroTask`, `Join`, `CoroDone`, `CoroGC`, `CoroSleep` |
| ThreadMutexLock (`thread_mutex_lock.h`) | a pthread mutex and a condition variable | `Lock`, `Unlock`, `Wait(ms)`, `Notify` |
| SchedulerManager (`scheduler.cpp`) | the singleton and its schedulers | `Singleton`, `CreateSingleton`, `GetScheduler`, `GetRunningCoroNum` |
| ThreadLocal (`thread_local.h`) | a pthread key per variable | `GetValue`, `SetValue`, the destructor at thread exit |
| Stack allocation (`coro.c`) | mapped memory | `coro_stack_alloc`, `coro_stack_free` |

How they interact. A scheduler's thread runs `Run`, which fills the coroutine
pool and resumes `sched_coro`, which loops in `Routine(true)`: delete the retired
coroutines, wait for calls that other threads post, start a coroutine for each,
then serve the timers that are due. A coroutine gives control to another only by
resuming it: it is then pushed on the thread's coroutine stack unless it waits
(`CoroSleep`, `Join`) or is done. Who waits or is done resumes the joiner, or
whoever is on top of that stack. Every function of a scheduler therefore runs at
a place that depends on who started or woke whom before, and the scheduler's
loops (over a bucket of timers, over the queue) are suspended in the middle
whenever an entry's function runs. Other threads meet the scheduler in
`PushCoroTask` only, and other threads' coroutines in `coro_create`.

What is hard in it:

- *re-entrancy*: `CheckTimeQueue` and `Routine` are suspended while the
  functions they invoke add timers, start, finish and join coroutines;
- *pointers that outlive their coroutine*: the coroutine stack, `join_table`, the
  time queue and the shared stacks keep raw pointers to coroutines that CoroGC
  deletes;
- *wake-ups*: each wait needs exactly one, from a timer or from a join;
- *fallback on the main context*: a `Yield` with an empty coroutine stack ends
  `Run`, and `RunFunc` deletes the scheduler;
- *threads*: the timed wait for `coro_queue`, and `coro_time_queue`, which
  `CheckTimeQueue` uses without the mutex; static variables in `coro_create`;
- *shared stacks*: whose frames must be saved when.

`PROJECT.json` lists these hazards line by line under `hazards`, with the
properties that cover them.

What makes each part correct: switching never loses a coroutine nor resumes one
that waits for somebody else; a stack holds the frames of who runs on it; a
context starts with the function it was created for; the scheduler starts every
posted call once and in order, but for those that another thread adds too late,
wakes every sleeper and joiner once, and deletes each retired coroutine once and
only when nothing refers to it; a post is never slept on.

## Plan

| Step | Modules | State |
|---|---|---|
| 1 | `CoroSwitch`, `Scheduler` with its properties, runs and proofs | done |
| 2 | `ShareStack`: memory of the stacks | done |
| 3 | `ThreadMutexLock`, `TaskQueue`: posts from other threads | done |
| 4 | `CoroCreate`: creation of contexts in several threads | done |
| 5 | `CallLife`: what a scheduler promises for its calls, implemented by `Scheduler` and by `TaskQueue` (refinement mappings) | done |
| 6 | `StackAlloc`, `EmbeddedScheduler`: `Routine(false)` driven by the caller's loop and a function that `Yield`s itself (test2.cpp), with the memory of its stacks | done |
| 7 | `ThreadLocal`, `SchedulerManager`: the singleton race, `GetScheduler`, what is per thread | done |
| 8 | proofs: the refinements of step 5 and every safety property of the passing runs | done |
| 9 | the results of `Join` (-2 for a second joiner) with an identity per call, for pooled coroutines whose ids are used again | open |

## Modules

`CoroSwitch` holds what `Resume`, `Yield` and `Wait` do to `current`, to
`coro_stack` and to the `waiting` flags. `Scheduler` and `ShareStack` extend it:
the first adds the scheduler, the second the memory of the stacks; each abstracts
the other's state away. `TaskQueue` extends `ThreadMutexLock` and has of a post and
of `Routine` what `Scheduler` leaves out: the mutex and its condition, the timed wait
and the eventfd; both implement `CallLife`.
`EmbeddedScheduler` extends `Scheduler` and `StackAlloc`; `SchedulerManager` has
two instances of `ThreadLocal`. `MC...` modules hold the definitions that
the configurations need.

### Scheduler

One scheduler with `create_thread = true`. A variable has the name of the member
it models; `mem` is where a coroutine object is in its life, `life` the same for
a call, `rpc` the place of `sched_coro` in `RoutineFunc`, `due` the key of the
bucket that `CheckTimeQueue` looks at or walks, `direct` the call that `sched_coro`
runs itself (`create_coro = false`), `posting` the delayed post of another thread that
is under way.

A step reaches from one context switch, or one access to what other threads share, to
the next. So `CoroDone(c)` is all of `Scheduler::CoroDone` up to the switch to the
joiner or to whom `Yield` finds; `StartCoro` includes CoroGC, the choice from the pool
and the switch; a bucket is walked one entry at a time, and whatever the entry's
function does, as other steps, comes in between. What a function does is not
fixed: while a coroutine is current it may take any of the steps `CallStartCoro`,
`CallStartCoroAfter`, `CoroSleep`, `Join`, `CoroDone`.

`CheckTimeQueue` uses `coro_time_queue` without the mutex, so what it does and what a
delayed post of another thread does are taken apart. The post reads the clock
(`PushCoroTask`), gets the bucket from `operator[]` (`FindBucket`) and puts the call
into it (`AddCall`). `CheckTimeQueue` takes `begin()` (`LookUpBucket`, `NoTimers`),
reads the clock (`OpenBucket`, `NothingDue`), invokes the entries (`InvokeDue`), finds
no more (`LeaveBucket`) and erases the bucket (`EraseBucket`). What is added between
the last two is lost; a post that is left with an erased bucket adds to it all the
same (`AddFreed`, undefined in the code), and its call is lost too. An earlier bucket
that is made between `begin()` and the clock is served after the later one. `late` is
a history variable: the calls that were due before they were added.

Abstractions:

- A coroutine is its id and its object. An unpooled one is born once, a pooled
  one lives for ever. A call (`Func`) is posted or started at most once.
- The entries of a bucket that were invoked are dropped at once: the loop never
  reads them again.
- `Routine`'s timed wait only delays `TakeTask` or `QueueEmpty`.
- Other threads post one at a time, as the mutex has it, and `Routine` looks at
  `coro_queue` while none of them does. A post without a delay is one step, since it
  touches nothing but `coro_queue`.
- `AddTimeCoroTask` by the scheduler's own thread is one step: `CheckTimeQueue` is
  suspended meanwhile, and a post of another thread does not notice.
- Results are left out: `Join` appears only where it waits, as its early returns
  (0, -2) change nothing. `Join` of two or three is a sequence of joins.
- Delays are not negative and the clock does not go back.
- The end of `Run` (`current = Main`) ends the behaviour: the scheduler is
  deleted. `BlockingDirect` says whether the functions that `sched_coro` runs
  itself may sleep or join, the only way there.

### ShareStack

The stacks under a scheduler without a thread (only there can stacks be shared:
`Start` sets `share_stack_count` of the thread that calls it, which is not the
scheduler's own one). Frames are a version number per coroutine that changes as
it works (`Work`); `content[s]` is whose frames of which version lie on stack `s`.
`SwitchStack` is the part of `Resume` from the assignment of the stack to
`coro_transfer`, including the two ways to save (`SaveStackBuffer` of the last
owner, or of the running coroutine on the swap context) and `ResumeStackBuffer`.
`share_stack_count` is chosen at the start. The scheduler around it is abstract:
an idle coroutine starts, any waiting coroutine is woken by whoever runs, the
running one waits or is done; so the run covers more orders than timers and joins
allow. Functions that call `Yield`
themselves, and the entry frames that `coro_init` and `LibCoroFunc` leave on the
stack and nobody returns to, are left out.

### ThreadMutexLock and TaskQueue

`ThreadMutexLock` has the mutex, the sleeping threads and what is left of each
wait; `Wait` converts its argument as the code does, to `uint64_t` and to
`int64_t` (`Half` stands for 2^63). pthreads are modelled as POSIX says, without
spurious wake-ups (they would only add wake-ups).

`TaskQueue` has the statements of `PushCoroTask` in several posting threads
(`PostLock`, `Stamp`, `Find`, `Add`, `AddFreed`, `Push`, `PostNotify`, `PostUnlock`)
and those of `Routine` and `CheckTimeQueue` in the scheduler's (`RoutineLock` ...
`CheckTimeQueue` for `begin()`, `ReadClock`, `BucketStep`, `EraseBucket`). An operation
on one of the containers is one step. Whether there is an `eventfd` is chosen at the
start. Calls do nothing once invoked. `lost` collects what `erase` removes uninvoked
and what is added to an erased bucket; `late`, the calls that were due before they
were added, and `posted`, all that were posted, are history variables: `OnePlace` says
that each call of `posted` is in exactly one place and any other in none.
The clock stops at `MaxTime` and a call due later is due then; the waits go on.

### CallLife

The abstract specification: calls are posted in order (`posted`) or for a deadline
(`timed`), or started at once by who runs on the scheduler; each is started once and
returns. Posted ones are first come first served. For the others the scheduler turns
to a deadline that no waiting call is before (`Turn`), starts its calls if it has come
(`StartTimed`) and has done with it (`EndTurn`). So none is started early, and only a
call that is added while the scheduler is busy with a later deadline can be overtaken,
and only by the calls of that deadline. A call whose deadline had come when it was
added (`late`) may be lost, at the end of a turn or at once (`PostLost`); no other is.
It knows no coroutines, pools, buckets, threads or mutexes.

In `Scheduler` `posted` is `coro_queue`, `timed` the calls among the entries of
`coro_time_queue`, `running` the calls that an executing coroutine or `sched_coro`
runs, and `turn` is `due` from `LookUpBucket` on. The post that `posting` has is not
posted yet for `CallLife`: it is when it is added. `TaskQueue` implements it with the
call that the scheduler's thread has in hand at the head of `posted`, and without
ends of calls. Since a bucket's last call stays in the map until `erase`, `timed`
there is what the loop has yet to reach (`Unserved`). Each property
`ImplementsCalls` says so, and names the same promise for both. Both refinements are
proved (`CallsRefined`) as well as checked.

### StackAlloc and EmbeddedScheduler

`StackAlloc` has `coro_stack_alloc` and `coro_stack_free` on a range of pages:
sizes in words are rounded up to pages, the guard pages lie below the stack and
are mapped and unmapped with it, and without room `sptr` stays 0. mmap takes the
lowest free pages; `LastPage` is the limit on memory.

`EmbeddedScheduler` is test2.cpp as a whole, with the operations of `Scheduler`:
`mpc` is where `main` is, `dpc` where the driver coroutine is in `routineFunc`,
`at` where a test, or the function it starts, is. `Scheduler`'s `Sched` stands for
the driver, which is a coroutine of the scheduler like the tests: `dpc` says
whether it is in `exec_table` (and counted by `GetCoroNum`), in `deleting_coros`
or deleted. `AllocStack` is CoroGC together with the first `Resume` of a new
coroutine, `crashed` what happens when it has no memory: the constructor of
`CoroStack` ignores the result, and `coro_create` writes to a null stack. The time
between two bursts is any time; a burst is one test instead of a thousand.

### ThreadLocal and SchedulerManager

`ThreadLocal` is one variable: a slot per thread, made on demand, destroyed at the
thread's exit. `SchedulerManager` uses it for `g_current_scheduler` and for the
`CoroEnv`, of which it keeps the `share_stack_count`. `ThreadLocal<T*>` deletes
its slot as if it were the object: `ThreadExit` may then corrupt the program,
which ends the behaviour (`corrupted`).

`SchedulerManager` has the steps of `Singleton`, `CreateSingleton`, the constructor
and the loop of `GetScheduler` in several threads of the program and, for calls
that functions make, in those of the schedulers. `sheduler_num` is any number up to
`MaxNum`; with 0, or when a scheduler of the vector was deleted, the loop is undefined
(`ScanUndefined`). `GetCoroNum` reads two sizes, and `Look` and `Scan` read them in
two steps, in either order. What a scheduler does with a call is reduced to what
`GetCoroNum` counts and to the one way its thread ends: a call that another thread
gave to `StartCoroAfter` runs on `sched_coro` itself (`direct`), and if it blocks, `Run`
returns, the scheduler is deleted and its thread exits (`RunReturns`). A manager is
named after the thread that made it. Steps that touch only the thread's own slot are
part of the next one. `raced`, `idle` and `busy` are history variables: the last two
say which schedulers had no coroutines, or some, ever since a thread began to look.

### CoroCreate

`coro_create` and `coro_init` of the assembler backend, from several threads, one step
per access to a static variable (`SetFunc`, `SetArg`, `SetNew`, `SetCreate`, the two
switches between them, `ReadFunc`, `ReadArg`, `Leave`). A function and its argument
are named after their context, the swap context after its thread. `raced` is a history
variable: a swap context was created at the same time as another. A thread that finds
another thread's pointers in `coro_init` gets no further: what happens on a stack that
two threads use is not modelled.

## What the runs check

| Run | Question | Instance |
|---|---|---|
| `scheduler` | `OneWakeup`, `RunStack`, `NoDangling`, `Accounted`, `CallsOnce`, `JoinMeansDone`, `ServedInOrder`, `ImplementsCalls` | a pool of one, two unpooled coroutines, three calls, delays 0 to 2, clock 0..2 |
| `scheduler_live` | `PostedStarts`, `SleeperRuns`, `JoinerRuns`, `RetiredFreed` | the same, delay 1, clock 0..1 |
| `scheduler_direct` | functions that `sched_coro` runs itself may block: `EndsOnlyByDirect` | two coroutines, two calls |
| `scheduler_create` | finding 1 | two coroutines, one call |
| `share_stack` | `FramesIntact`, `FramesKept`, `OwnersLive`, `StacksSpread` | a pooled and three unpooled coroutines, two shared stacks or none, two versions |
| `task_queue` | `NoLostWakeup`, `OnePlace`, `LostOnlyLate`, `ImplementsCalls` | two posters, three calls, delays 0..2, clock 0..3, waits of 1 and 2 ms for 10 and 100; with and without an eventfd |
| `task_queue_live` | `PostedStarts` | two posters, two calls; with and without an eventfd (posts then notify nobody) |
| `coro_create` | `OnlySwapRaces` | three threads, one of which shares stacks, three contexts and a swap context |
| `coro_create_swap` | finding 2 | two threads, one with shared stacks |
| `embedded` | `StaleBelowMain`, `OwnStacks`, `EndsClean`, `Terminates` | two tests, four coroutines and the driver, memory for four stacks of two pages and a guard page, delays 1 and 2, clock 0..8 |
| `manager` | `TwoManagersRaced`, `StaysHome`, `UndefinedHasCause` | two threads of the program, two calls, two schedulers with or without threads or none, one in a manager made by default |
| `manager_choice` | `ChoosesIdle`, and the type invariant with the bound of the loop | one thread of the program, four calls, none, two or three schedulers with threads |

Why the bounds are enough. Three coroutines are the fewest with which one is on the
coroutine stack between two others, a joiner is itself joined, and a pooled and a
retired coroutine exist at once; three calls let one be queued while two run.
Different delays put two entries into one bucket and entries into different ones, and
the clock can pass both while a bucket is walked. Three unpooled coroutines on two
stacks make every stack change hands, and a fourth makes the cursor wrap. Two posters
meet inside and outside the critical section. In `embedded` two tests overlap, each
with a coroutine that it joins, a burst starts while the first test sleeps, and the
fifth stack does not fit when all four coroutines execute at once, so both ends, done
and out of memory, are reached; the clock stops well after the last deadline. The
clock moves by itself only until `TickUntil` and afterwards with `main`'s `usleep`. In
`manager` two threads are enough to make two managers, and two calls let one end a
scheduler that the other has chosen. In `manager_choice` three calls keep three
schedulers busy while a fourth looks for one. The proofs do not depend on the bounds.

`CHECK_DEADLOCK FALSE` is set where the model ends: the instance of `ShareStack`
and of `CoroCreate` runs out of coroutines to create, in `scheduler_direct`
`Run` returns, the program of `embedded` ends or crashes, and in `manager` and
`manager_choice` the calls run out and the threads exit.

Symmetry (unpooled coroutines, calls, posters, threads of the program) is used in
safety runs only.

### Fairness

`Scheduler`: weak fairness of `Run` and `Routine` (the thread is scheduled), `Tick`
(time passes) and `DirectReturn`, strong fairness of `CoroDone(c)`: the function of a
coroutine makes finitely many calls, so if it is current again and again it returns;
and weak fairness of `Post`: a thread that is inside `PushCoroTask` comes out of it.
Nothing makes a thread post. The calls are finitely many. That matters: a bucket whose
functions keep sleeping for 0 ms, or posts that keep arriving within each wait, hold
off the queue and the timers in the code.

`TaskQueue`: weak fairness of the steps of `Routine`, of the end of a wait, of
time, and of a poster's steps once it has begun; strong fairness of taking the
mutex, since a free mutex is not refused for ever by the systems the library runs
on. No poster has to post.

`EmbeddedScheduler`: weak fairness of the program, which is one thread; the clock
needs none, since `usleep` lets it go on.

`SchedulerManager` states none: its properties are about safety.

## What is proved

Every invariant and every action property that a passing run checks is also a
theorem, and so are both refinements of `CallLife`. The theorems hold for every
value of the constants under the named assumptions of the modules
(`CoroAssumption`, `SchedulerAssumption`, `LockAssumption`, `QueueAssumption`,
`CreateAssumption`, `ShareStackAssumption`, `AllocAssumption`,
`EmbeddedAssumption`, `ManagerAssumption`), which TLC evaluates in the runs. They
say that names differ from each other and from the null pointer, that counts, times
and sizes are numbers, and which calls the embedding program makes; none bounds the
number of coroutines, calls, threads, stacks or pages. Clocks and address spaces end
somewhere (`MaxTime`, `LastPage`), anywhere.

Each proof is an induction: a conjunction of named facts holds at the start, each
action keeps it (one lemma per operation), and the properties follow from it. The
conjunctions were checked with TLC as invariants of the runs first.

| Module | Theorems | Inductive invariant |
|---|---|---|
| `SeqLemmas` | none of its own: heads, tails, fronts and appends of sequences without repetition | |
| `SchedulerProofs` | `TypeCorrect`, `Inductive`, `UntilTheEnd`, `EndsCorrect`, `WakeupsCorrect`, `StackCorrect`, `PointersCorrect`, `AccountCorrect`, `JoinCorrect`, `OrderCorrect` | `IndInv` |
| `SchedulerCalls` | `CallsInductive`, `CallsCorrect`, `CallsRefined` | `CallInv` |
| `TaskQueueProofs` | `TypeCorrect`, `QueueInductive`, `WakeupsKept`, `LossesLate`, `PlacesInductive`, `PlacesCorrect`, `CallsRefined` | `QueueInv`, `PlaceInv` |
| `CoroCreateProofs` | `CreateInductive`, `TypeCorrect`, `CreateCorrect`, `CreateWithoutSharing` | `CreateInv` |
| `ShareStackProofs` | `Inductive`, `TypeCorrect`, `OwnersCorrect`, `FramesSaved`, `FramesFound`, `SpreadCorrect` | `Inv`, `SpreadInv` |
| `SchedulerManagerProofs` | `ManagerInductive`, `ManagerTypes`, `OneManager`, `HomeCorrect`, `UndefinedCorrect`, `ChoiceCorrect` | `Inv` |
| `EmbeddedProofs` | `EmbeddedInductive`, `EmbeddedTypes`, `StaleCorrect`, `StacksCorrect`, `CleanCorrect` | `ControlInv`, `MemoryInv` |

Why the invariants are needed, module by module:

- `SchedulerProofs`. None of the properties is inductive alone: that nobody on the
  coroutine stack waits needs that each waiter has one wake-up, which needs that
  joins and timers name executing coroutines once, which needs that whoever executes
  and does not wait is on the stack. `IndInv` joins `StackInv` (with `Shape`:
  `sched_coro` at the bottom, nobody twice), `TimerInv`, `JoinInv`, `WaitInv`,
  `Accounted` and `BucketInv` (while a bucket is looked at or walked, no coroutine
  sleeps for an earlier time; what is in it after the loop came late). A
  function that sleeps or joins on `sched_coro` itself breaks it (`scheduler_direct`
  shows how), so `Inductive`, `WakeupsCorrect`, `StackCorrect`, `PointersCorrect` and
  `AccountCorrect` assume `~BlockingDirect`. `UntilTheEnd` says that `IndInv` holds
  for every scheduler until `Run` returns, and what still holds afterwards; from it
  follow, without that assumption, `EndsCorrect`, `JoinCorrect`, `OrderCorrect` and
  all of `SchedulerCalls`.
- `SchedulerCalls`. `CallInv`: a call is queued when one entry of one queue is for it
  or `posting` has it, runs when one coroutine or `sched_coro` has it, and is lost
  only if it was late; a post that holds an erased bucket was due. The refinement goes
  over the actions: each posts, starts, loses or ends one call as `CallLife` allows,
  turns to a deadline or from it, or changes nothing that `CallLife` sees.
- `TaskQueueProofs`. `QueueInv` adds to mutual exclusion that the scheduler's thread
  sleeps only in its wait, that the bucket it walks is due, and that what is added to
  it after the loop is late. `PlaceInv` says which post or which position of which
  container holds each call, and that one of them does (`Whole`: none vanishes); of
  the bucket being walked, that the entries up to the iterator were started. The
  refinement rests on `Unserved`, what the loop has yet to reach.
- `CoroCreateProofs`. Without a race one thread at a time is in `coro_create`, and the
  static variables hold what that thread has set so far. `CreateWithoutSharing`: with
  `Sharing = {}`, `StartsAsCreated` always holds.
- `ShareStackProofs`. `Mem` is said of any owners, buffers and set of live coroutines,
  because `SwitchStack` passes through states in between (deleted, saved, taken over,
  restored) that no state of the model shows. Its least obvious part: a coroutine that
  owns a shared stack and does not run has its `stack_sp` set, without which
  `SaveStackBuffer` would save nothing. `SpreadInv`: the stacks before the cursor have
  one coroutine more than those behind it.
- `SchedulerManagerProofs`. For any number of threads and schedulers: per thread, what
  it knows at its place in `Singleton`, `CreateSingleton` and `GetScheduler`; that
  without a race the one who creates is alone; that a scheduler's thread has its own
  scheduler in its slot before it runs anything; that the schedulers the loop has
  passed were not idle all the while, also where it is between the two reads of one of
  them.
- `EmbeddedProofs`. `Turns(coro_stack, current, k)`: k entries of the driver's earlier
  turns, then `main`, then whoever runs on its behalf, each once. `main` is above
  all stale entries, so that no `Yield` reaches them. `PendingInv`, `TableInv`,
  `StartedInv` and `PhaseInv` give what `main` may conclude from `GetCoroNum`.
  `Layout` says that the stacks lie apart and make up the mapped pages; it is kept by
  `coro_stack_free` and by `coro_stack_alloc` for any sizes and however much room
  there is, where mmap's choice is the least place that fits.

Model-checked only: the liveness properties (`PostedStarts`, `SleeperRuns`,
`JoinerRuns`, `RetiredFreed`, `Terminates`; `PostedStarts` for both modules), because
liveness under fairness is out of this prover's reach here, and the two findings,
which are counterexamples.

## Findings

1. `scheduler_create`. `StartCoroAfter` from a thread without a scheduler drops
   its `create_coro` argument (scheduler.cpp:231), whose default is `true`
   (scheduler.h:80). The function then runs on `sched_coro`; if it sleeps or
   joins, `Run` returns and the scheduler is deleted.
2. `coro_create_swap`. `SwapContext::Init` calls `coro_create` without the mutex
   that makes it safe (coro.h:194, libcoro.cpp:48).

Also seen while modelling, without a run of its own: a call posted with a delay whose
thread is held up between reading the clock and adding to the map can be erased
without being invoked, and may be added to a bucket that was erased (`LostOnlyLate`
and `CallsOnce` describe exactly these; the states are reached in `task_queue` and
`scheduler`); a call that is added between `begin()` and the reading of the clock
(scheduler.cpp:136, 139) is overtaken by the calls of a later deadline; `sheduler_num
= 0` makes `GetScheduler` index an empty vector (scheduler.cpp:521), and the end of
`Run` leaves a deleted scheduler in the manager's (`UndefinedHasCause`); `Wait` with a
negative time returns at once, where its comment (thread_mutex_lock.h:61) says that it
waits for ever, but the scheduler passes only 1 to 100; each `Yield` of a driver
coroutine leaves an entry on the coroutine stack that nobody pops, one per turn of the
loop for as long as the program runs (`StaleBelowMain`); a thread that started a call
and exits deletes a `Scheduler**` as a `Scheduler` (thread_local.h:100); schedulers
that a manager makes without threads can be reached from the thread that made it only,
and only the last one, so that calls of other threads never start (scheduler.cpp:116,
498); `GetRunningCoroNum` tests for the manager the wrong way round
(scheduler.cpp:473); test1.cpp asks for one shared stack, but the scheduler's thread
never learns of it (libcoro.cpp:290, scheduler.cpp:104).

## Not modelled

- `coro_transfer` and the register layout: a switch is one step. Where a shared
  stack is taken, the lower end that `MarkStackResumePoint` records and the words
  `coro_transfer` pushes below it depend on the compiler's frame layout.
- The other backends of coro.c and libco.cpp, which the Makefile does not build.
- Undefined behaviour inside containers: `coro_time_queue` changed by two threads
  at once, `GetCoroNum` read by one thread while another changes the tables. What
  such an operation does to the map as a whole, and how it interleaves with the
  others, is modelled.
- `g_coro_id_seed`, which threads increment without synchronisation: an increment that
  is held up can set it back, and ids may then repeat, also in one scheduler. In the
  models a coroutine is its object.
- `CoroSleep(0)` without end in one function, with which `CheckTimeQueue` never comes
  to an end: functions make finitely many calls (see Fairness).
- A clock that is set back, and negative delays.
- The results of `Join`, and ids of pooled coroutines that are used again.
- `NotifyAll`, `TryLock`, `GetValue` with a creator and `GetRunningCoroNum`, which
  nothing calls.
- Posts without end: TLC's runs post finitely many calls.
