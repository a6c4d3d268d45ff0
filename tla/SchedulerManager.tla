-------------------------- MODULE SchedulerManager --------------------------
(***************************************************************************)
(* The SchedulerManager and the global functions (scheduler.cpp): how      *)
(* threads make the one manager, which scheduler a call goes to, and what  *)
(* of that depends on the thread-local CoroEnv and Scheduler pointer.      *)
(*                                                                         *)
(* A caller is a thread of the program; a scheduler that has a thread of   *)
(* its own (create_thread) is named like that thread.  Of what schedulers  *)
(* do with a call, modelled in Scheduler and TaskQueue, two things are     *)
(* kept: the number of coroutines they count, and that a function which    *)
(* sched_coro runs itself may end Run by blocking, and the scheduler and   *)
(* its thread with it.                                                     *)
(***************************************************************************)
EXTENDS Integers, FiniteSets

CONSTANTS
  Caller,
  MaxCalls,  \* bound: calls are numbered in the order they are made
  MaxNum,    \* bound: the most schedulers a manager is asked to make
  Options,   \* the options of the program's own CreateSingleton
  NULL,
  NoSlot

\* The CoroOptions that matter here, and their defaults
CoroOptions == [sheduler_num : 0 .. MaxNum, share_stack_count : Nat, create_thread : BOOLEAN]
Default == [sheduler_num |-> 1, share_stack_count |-> 16, create_thread |-> TRUE]
Scheduler == Caller \X (1 .. MaxNum)
Thread == Caller \cup Scheduler
Func == 1 .. MaxCalls

ASSUME ManagerAssumption ==
  /\ MaxCalls \in Nat
  /\ MaxNum \in Nat \ {0}
  /\ Options \subseteq CoroOptions
  /\ Caller \cap Scheduler = {}
  /\ NULL \notin Caller \cup Scheduler \cup Nat \cup CoroOptions
  /\ NoSlot \notin Scheduler \cup Nat \cup {NULL}

VARIABLES
  g_scheduler_manager,   \* NULL, or the manager, named after the thread that made it
  opt,                   \* opt[m]: the options of manager m, NULL before it is made
  g_current_scheduler,   \* the ThreadLocal<Scheduler*>
  env,                   \* the ThreadLocal<CoroEnv>: its share_stack_count
  pc,                    \* where a thread is in the global functions
  arg,                   \* the call it makes, or NULL
  options,               \* the options it passes to CreateSingleton
  singleton, i, numk,    \* GetScheduler's variables; numk is NULL, or says
                         \* which size GetCoroNum has read first, and the size
  chosen,                \* GetScheduler's result
  life,                  \* the life of a call: "unused"; "queued", then "running"
                         \* in a coroutine, "retired"; "timed", then "direct" on
                         \* sched_coro; "done"
  sched,                 \* where a call went
  by,                    \* the thread that made it
  corrupted,             \* did a thread run into undefined behaviour?
  raced,                 \* history: two threads were inside CreateSingleton at once
  idle,                  \* history: the schedulers without coroutines since
                         \* thread t began to look at them
  busy                   \* history: <<s, k>> if scheduler s has had coroutines
                         \* in state k all that while

managerVars == <<g_scheduler_manager, opt>>
localVars == <<g_current_scheduler, env>>
callVars == <<life, sched, by>>
chooseVars == <<arg, options, singleton, i, numk, chosen>>
vars == <<managerVars, localVars, callVars, chooseVars, pc, corrupted, raced, idle, busy>>

Current == INSTANCE ThreadLocal WITH
  slot <- g_current_scheduler, Initial <- NULL, OfPointer <- TRUE
Env == INSTANCE ThreadLocal WITH slot <- env, Initial <- 0, OfPointer <- FALSE

Init ==
  /\ g_scheduler_manager = NULL
  /\ opt = [m \in Caller |-> NULL]
  /\ Current!SlotInit
  /\ Env!SlotInit
  /\ pc = [t \in Thread |-> IF t \in Caller THEN "idle" ELSE "unborn"]
  /\ arg = [t \in Thread |-> NULL]
  /\ options = [t \in Thread |-> NULL]
  /\ singleton = [t \in Thread |-> NULL]
  /\ i = [t \in Thread |-> 1]
  /\ numk = [t \in Thread |-> NULL]
  /\ chosen = [t \in Thread |-> NULL]
  /\ life = [f \in Func |-> "unused"]
  /\ sched = [f \in Func |-> NULL]
  /\ by = [f \in Func |-> NULL]
  /\ corrupted = FALSE
  /\ raced = FALSE
  /\ idle = [t \in Thread |-> {}]
  /\ busy = [t \in Thread |-> {}]

Goto(t, from, to) == pc[t] = from /\ pc' = [pc EXCEPT ![t] = to]

\* exec_table.size() and deleting_coros.size(), the sum of which is GetCoroNum
Counted == {"running", "retired"}
CoroNum(s, k) == Cardinality({f \in Func : sched[f] = s /\ life[f] = k})

\* The thread that runs the coroutines of scheduler s
Host(s) == IF opt[s[1]].create_thread THEN s ELSE s[1]

\* Does thread t run a function from which it may call?
MayCall(t) ==
  \/ t \in Caller
  \/ \E f \in Func : sched[f] = t /\ life[f] \in {"running", "direct"}

\* RunFunc has deleted scheduler s: only its thread ends like that
Gone(s) == s \in Scheduler /\ pc[s] = "exited"

-----------------------------------------------------------------------------
(* SchedulerManager *)

\* CreateSingleton(o), called by the program
CallCreate(t, o) ==
  /\ t \in Caller
  /\ Goto(t, "idle", "create")
  /\ arg' = [arg EXCEPT ![t] = NULL]
  /\ options' = [options EXCEPT ![t] = o]
  /\ UNCHANGED <<managerVars, localVars, callVars, singleton, i, numk, chosen, corrupted, raced>>

\* StartCoro(f), and GetScheduler's look at the thread's own scheduler
CallStartCoro(t, f) ==
  LET own == Current!Value(t)
  IN  /\ MayCall(t)
      /\ Goto(t, "idle", IF own # NULL THEN "start" ELSE "singleton")
      /\ by[f] = NULL /\ \A g \in 1 .. (f - 1) : by[g] # NULL
      /\ by' = [by EXCEPT ![f] = t]
      /\ arg' = [arg EXCEPT ![t] = f]
      /\ Current!GetValue(t)
      /\ chosen' = [chosen EXCEPT ![t] = own]
      /\ UNCHANGED <<managerVars, env, life, sched, options, singleton, i, numk, corrupted, raced>>

Singleton(t) ==
  /\ \/ /\ g_scheduler_manager = NULL
        /\ Goto(t, "singleton", "create")
        /\ options' = [options EXCEPT ![t] = Default]
        /\ UNCHANGED singleton
     \/ /\ g_scheduler_manager # NULL
        /\ Goto(t, "singleton", "scan")
        /\ singleton' = [singleton EXCEPT ![t] = g_scheduler_manager]
        /\ UNCHANGED options
  /\ UNCHANGED <<managerVars, localVars, callVars, arg, i, numk, chosen, corrupted, raced>>

\* Where CreateSingleton returns to
Back(t) == IF arg[t] = NULL THEN "idle" ELSE "return"

InCreate(t) == pc[t] \in {"construct", "assign"}

\* Mutant: an existing manager is not looked for
CreateSingletonBlind(t) ==
  /\ Goto(t, "create", "construct")
  /\ raced' = (raced \/ \E u \in Thread : u # t /\ InCreate(u))
  /\ UNCHANGED <<managerVars, localVars, callVars, chooseVars, corrupted>>

CreateSingleton(t) ==
  /\ Goto(t, "create", IF g_scheduler_manager = NULL THEN "construct" ELSE Back(t))
  /\ options' = [options EXCEPT ![t] = IF g_scheduler_manager = NULL THEN @ ELSE NULL]
  /\ raced' = (raced \/ \E u \in Thread : u # t /\ InCreate(u))
  /\ UNCHANGED <<managerVars, localVars, callVars, arg, singleton, i, numk, chosen, corrupted>>

\* The constructor, and Start of each scheduler, if there is one to start.
\* NewShareStack is called in this thread, whoever will run the scheduler.
Construct(t) ==
  LET o == options[t]
      new == {t} \X (1 .. o.sheduler_num)
  IN  /\ pc[t] = "construct"
      /\ opt' = [opt EXCEPT ![t] = o]
      /\ \/ new # {} /\ Env!SetValue(t, o.share_stack_count)
         \/ new = {} /\ UNCHANGED env
      /\ \/ /\ o.create_thread
            /\ pc' = [u \in Thread |->
                        IF u = t THEN "assign" ELSE IF u \in new THEN "run" ELSE pc[u]]
            /\ UNCHANGED g_current_scheduler
         \/ /\ ~o.create_thread
            /\ pc' = [pc EXCEPT ![t] = "assign"]
            /\ \/ new # {} /\ Current!SetValue(t, <<t, o.sheduler_num>>)
               \/ new = {} /\ UNCHANGED g_current_scheduler
      /\ UNCHANGED <<g_scheduler_manager, callVars, chooseVars, corrupted, raced>>

Assign(t) ==
  /\ Goto(t, "assign", Back(t))
  /\ g_scheduler_manager' = t
  /\ options' = [options EXCEPT ![t] = NULL]
  /\ UNCHANGED <<opt, localVars, callVars, arg, singleton, i, numk, chosen, corrupted, raced>>

\* Singleton's return after CreateSingleton
Return(t) ==
  /\ Goto(t, "return", "scan")
  /\ singleton' = [singleton EXCEPT ![t] = g_scheduler_manager]
  /\ UNCHANGED <<managerVars, localVars, callVars, arg, options, i, numk, chosen, corrupted, raced>>

Size(t) == opt[singleton[t]].sheduler_num

This(t) == <<singleton[t], i[t]>>

\* GetCoroNum of the next scheduler reads one of its two sizes
Look(t) ==
  /\ pc[t] = "scan"
  /\ Size(t) > 1 /\ numk[t] = NULL /\ ~Gone(This(t))
  /\ \E k \in Counted : numk' = [numk EXCEPT ![t] = <<k, CoroNum(This(t), k)>>]
  /\ UNCHANGED <<managerVars, localVars, callVars, arg, options, singleton, i, chosen, pc,
                 corrupted, raced>>

\* and then the other
Looked(t) == numk[t] # NULL /\ ~Gone(This(t))
IsZero(t) == numk[t][2] = 0 /\ \A k \in Counted \ {numk[t][1]} : CoroNum(This(t), k) = 0

Take(t, s) ==
  /\ pc' = [pc EXCEPT ![t] = "start"]
  /\ chosen' = [chosen EXCEPT ![t] = s]
  /\ singleton' = [singleton EXCEPT ![t] = NULL]
  /\ i' = [i EXCEPT ![t] = 1]

GoOn(t) ==
  /\ i' = [i EXCEPT ![t] = @ + 1]
  /\ UNCHANGED <<pc, chosen, singleton>>

\* Mutant: the loop goes one too far
ScanPastEnd(t) ==
  /\ pc[t] = "scan"
  /\ \/ Looked(t) /\ IsZero(t) /\ Take(t, This(t))
     \/ Looked(t) /\ ~IsZero(t) /\ i[t] <= Size(t) /\ GoOn(t)
     \/ Size(t) = 1 /\ Take(t, <<singleton[t], 1>>)
  /\ numk' = [numk EXCEPT ![t] = NULL]
  /\ UNCHANGED <<managerVars, localVars, callVars, arg, options, corrupted, raced>>

\* Mutant: an idle scheduler does not end the search
ScanToEnd(t) ==
  /\ pc[t] = "scan"
  /\ \/ Looked(t) /\ i[t] < Size(t) /\ GoOn(t)
     \/ /\ (Looked(t) /\ i[t] = Size(t)) \/ Size(t) = 1
        /\ Take(t, <<singleton[t], 1>>)
  /\ numk' = [numk EXCEPT ![t] = NULL]
  /\ UNCHANGED <<managerVars, localVars, callVars, arg, options, corrupted, raced>>

\* One turn of GetScheduler's loop: an idle scheduler is taken.  min_coro_num
\* is 0, so no busy one is ever less, and the first is what remains.
Scan(t) ==
  /\ pc[t] = "scan"
  /\ \/ Looked(t) /\ IsZero(t) /\ Take(t, This(t))
     \/ Looked(t) /\ ~IsZero(t) /\ i[t] < Size(t) /\ GoOn(t)
     \/ /\ (Looked(t) /\ ~IsZero(t) /\ i[t] = Size(t)) \/ Size(t) = 1
        /\ Take(t, <<singleton[t], 1>>)
  /\ numk' = [numk EXCEPT ![t] = NULL]
  /\ UNCHANGED <<managerVars, localVars, callVars, arg, options, corrupted, raced>>

\* The vector of schedulers is empty, or a scheduler in it was deleted:
\* undefined
ScanUndefined(t) ==
  /\ pc[t] = "scan"
  /\ Size(t) = 0 \/ (Size(t) > 1 /\ Gone(This(t)))
  /\ corrupted' = TRUE
  /\ UNCHANGED <<managerVars, localVars, callVars, chooseVars, pc, raced>>

GetScheduler(t) ==
  Singleton(t) \/ CreateSingleton(t) \/ Construct(t) \/ Assign(t)
    \/ Return(t) \/ Look(t) \/ Scan(t) \/ ScanUndefined(t)

-----------------------------------------------------------------------------
(* Scheduler *)

\* Scheduler::StartCoro, or StartCoroAfter where its create_coro is given up:
\* post to the scheduler; or collect and start here
StartCoro(t) ==
  LET f == arg[t]
      s == chosen[t]
  IN  /\ Goto(t, "start", "idle")
      /\ ~Gone(s)
      /\ Current!GetValue(t)
      /\ sched' = [sched EXCEPT ![f] = s]
      /\ \/ /\ Current!Value(t) = NULL
            /\ \E posted \in {"queued", "timed"} : life' = [life EXCEPT ![f] = posted]
         \/ /\ Current!Value(t) # NULL
            /\ life' = [g \in Func |-> IF g = f THEN "running"
                                       ELSE IF sched[g] = s /\ life[g] = "retired" THEN "done"
                                       ELSE life[g]]
      /\ arg' = [arg EXCEPT ![t] = NULL]
      /\ chosen' = [chosen EXCEPT ![t] = NULL]
      /\ UNCHANGED <<managerVars, env, by, options, singleton, i, numk, corrupted, raced>>

\* The scheduler was deleted since it was chosen: undefined
StartUndefined(t) ==
  /\ pc[t] = "start"
  /\ Gone(chosen[t])
  /\ corrupted' = TRUE
  /\ UNCHANGED <<managerVars, localVars, callVars, chooseVars, pc, raced>>

\* Mutant: Run does not set g_current_scheduler
RunUnset(s) ==
  /\ Goto(s, "run", "idle")
  /\ Env!GetValue(s)
  /\ UNCHANGED <<managerVars, g_current_scheduler, callVars, chooseVars, corrupted, raced>>

\* Run, in the scheduler's thread
Run(s) ==
  /\ Goto(s, "run", "idle")
  /\ Current!SetValue(s, s)
  /\ Env!GetValue(s)
  /\ UNCHANGED <<managerVars, callVars, chooseVars, corrupted, raced>>

\* Call f is in state from, and the thread that has its scheduler moves it on
Move(f, from, to) ==
  /\ life[f] = from
  /\ pc[Host(sched[f])] = "idle"
  /\ life' = [life EXCEPT ![f] = to]
  /\ UNCHANGED <<managerVars, localVars, sched, by, chooseVars, pc, corrupted, raced>>

\* Routine, for a scheduler with a thread, while sched_coro runs no function
\* itself: take a call, collect a coroutine
Routine(f) ==
  /\ sched[f] \in Scheduler /\ Host(sched[f]) = sched[f]
  /\ \A g \in Func : sched[g] = sched[f] => life[g] # "direct"
  /\ \/ Move(f, "queued", "running")
     \/ Move(f, "timed", "direct")
     \/ Move(f, "retired", "done")

CoroDone(f) == sched[f] \in Scheduler /\ Move(f, "running", "retired")
DirectReturn(f) == sched[f] \in Scheduler /\ Move(f, "direct", "done")

-----------------------------------------------------------------------------
Exits(t) ==
  /\ Goto(t, "idle", "exited")
  /\ Current!Exit(t)
  /\ Env!Exit(t)
  /\ corrupted' \in {FALSE, Current!DestroyUndefined(t)}
  /\ UNCHANGED <<managerVars, callVars, chooseVars, raced>>

\* A thread of the program exits
ThreadExit(t) ==
  /\ t \in Caller
  /\ \A f \in Func : life[f] = "running" => Host(sched[f]) # t
  /\ Exits(t)

\* A function that sched_coro runs itself blocks: Run returns, RunFunc deletes
\* the scheduler, and its thread exits
RunReturns(s) ==
  /\ s \in Scheduler
  /\ \E f \in Func : sched[f] = s /\ life[f] = "direct"
  /\ Exits(s)

\* Schedulers without coroutines, and with some
Idle == {s \in Scheduler : \A k \in Counted : CoroNum(s, k) = 0}
Busy == {sk \in Scheduler \X Counted : CoroNum(sk[1], sk[2]) > 0}

Since(t, seen, now) ==
  IF pc'[t] # "scan" THEN {} ELSE IF pc[t] # "scan" THEN now ELSE seen \cap now

History ==
  /\ idle' = [t \in Thread |-> Since(t, idle[t], Idle')]
  /\ busy' = [t \in Thread |-> Since(t, busy[t], Busy')]

Next ==
  /\ ~corrupted
  /\ \/ \E t \in Thread :
          \/ \E o \in Options : CallCreate(t, o)
          \/ \E f \in Func : CallStartCoro(t, f)
          \/ GetScheduler(t) \/ StartCoro(t) \/ StartUndefined(t)
          \/ Run(t) \/ ThreadExit(t) \/ RunReturns(t)
     \/ \E f \in Func : Routine(f) \/ CoroDone(f) \/ DirectReturn(f)
  /\ History

Spec == Init /\ [][Next]_vars

-----------------------------------------------------------------------------
(* Properties *)

Managers == {m \in Caller : opt[m] # NULL}
Made(m) == IF opt[m] = NULL THEN {} ELSE {m} \X (1 .. opt[m].sheduler_num)

(* Type invariant; who looks for a scheduler looks at one that was made,   *)
(* unless none was, and a scheduler's thread is born with it.              *)
ManagerTypeOK ==
  /\ g_scheduler_manager \in Managers \cup {NULL}
  /\ g_current_scheduler \in [Thread -> Scheduler \cup {NULL, NoSlot}]
  /\ env \in [Thread -> Nat \cup {NoSlot}]
  /\ arg \in [Thread -> Func \cup {NULL}]
  /\ life \in [Func -> {"unused", "queued", "timed", "running", "direct", "retired", "done"}]
  /\ \A t \in Thread :
       /\ pc[t] = "scan" =>
            Made(singleton[t]) = {} \/ <<singleton[t], i[t]>> \in Made(singleton[t])
       /\ pc[t] = "start" => chosen[t] \in Made(chosen[t][1])
       /\ t \in Scheduler => (pc[t] = "unborn" <=> ~(t \in Made(t[1]) /\ Host(t) = t))

(* There is one manager unless two threads were inside CreateSingleton at  *)
(* once: neither a first call that makes it, nor a CreateSingleton that    *)
(* comes too late, makes another (Singleton, CreateSingleton).             *)
TwoManagersRaced == Cardinality(Managers) > 1 => raced

(* GetScheduler looks at one scheduler after the other, and at each in two *)
(* reads, while they change.  It takes none that had coroutines executing  *)
(* or retired all the while, unless it falls back on the first, and does   *)
(* so only when no scheduler was idle all the while.                       *)
ChoosesIdle ==
  [][\A t \in Thread :
       pc[t] = "scan" /\ pc'[t] = "start" /\ Size(t) > 1 =>
         \/ \A k \in Counted : <<chosen'[t], k>> \notin busy[t]
         \/ idle[t] \cap Made(singleton[t]) = {} /\ chosen'[t] = <<singleton[t], 1>>]_vars

(* What runs on a scheduler's thread stays there: the calls it makes start *)
(* on that scheduler at once, whose CurrentCoro, coroutine stack and join  *)
(* table they then share, and never in another scheduler's queue.  The     *)
(* CoroEnv of that thread never hears of the share_stack_count of the      *)
(* options, which Start leaves in the thread of its caller.                *)
StaysHome ==
  /\ \A f \in Func :
       by[f] \in Scheduler /\ sched[f] # NULL => sched[f] = by[f] /\ life[f] \notin {"queued", "timed"}
  /\ \A s \in Scheduler : env[s] \in {NoSlot, 0}

(* What makes the program undefined is one of four things: a thread exits  *)
(* that had asked for a scheduler or made one; a scheduler's thread ends,  *)
(* because a function that another thread gave to StartCoroAfter blocks;   *)
(* a call goes to such a scheduler; or there is none, because the program  *)
(* asked for none.  Threads that leave the library alone come and go as    *)
(* they like (ThreadLocal<T*>::Destroy, GetScheduler, RunFunc).            *)
UndefinedHasCause ==
  corrupted =>
    \/ \E t \in Caller : pc[t] = "exited" /\ (opt[t] # NULL \/ \E f \in Func : by[f] = t)
    \/ \E s \in Scheduler, f \in Func :
         Gone(s) /\ sched[f] = s /\ life[f] = "direct" /\ by[f] \in Caller
    \/ \E m \in Managers : opt[m].sheduler_num = 0

=============================================================================
