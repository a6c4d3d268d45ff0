------------------------- MODULE EmbeddedScheduler -------------------------
(***************************************************************************)
(* A Scheduler without a thread (create_thread = false) inside a program's *)
(* own loop, as test2.cpp embeds it: main starts a driver coroutine that   *)
(* calls Routine(false) and Yields, resumes it once per turn, starts tests *)
(* that sleep, start a coroutine of their own and join it, and returns     *)
(* when everything is done.                                                *)
(*                                                                         *)
(* The driver is a coroutine of the scheduler like the tests'; it is       *)
(* called Sched here, because it runs Routine where module Scheduler has   *)
(* sched_coro, and dpc says where it is in exec_table or deleting_coros.   *)
(* The operations are those of Scheduler, with the stacks they allocate    *)
(* and free.  The program has one thread: nobody posts.                    *)
(***************************************************************************)
EXTENDS Scheduler, StackAlloc

CONSTANTS
  Test,          \* the tests main may start: bound on the bursts of line 92
  Burst,         \* the tests of one burst
  MaxStackSize,  \* CoroOptions::max_stack_size
  StartUntil,    \* when main stops starting tests
  TickUntil      \* bound: later the clock moves only while main sleeps

\* The calls: a test, and the function a test starts
Sub(f) == <<f[1], "sub">>
TestCalls == Test \X {"test", "sub"}

ASSUME EmbeddedAssumption ==
  /\ InitPool = <<>>
  /\ Func = TestCalls
  /\ Burst \in Nat \ {0}
  /\ MaxStackSize \in Nat
  /\ PagesFor(MaxStackSize) < FirstPage
  /\ {StartUntil, TickUntil} \subseteq Time

VARIABLES
  mpc,             \* where main is
  burst,           \* the tests main has yet to start in its for loop
  route_running,
  dpc,             \* "unborn", where the driver is in routineFunc, or "retired"
                   \* in deleting_coros, or "freed"
  at,              \* where a test or its function is
  stack,           \* the coro_stack of each coroutine
  crashed          \* did a coroutine start on a stack that is not there?

mainVars == <<mpc, burst, route_running>>
memVars == <<pageVars, stack, crashed>>
queueVars ==
  <<join_table, coro_queue, coro_time_queue, create_coro, life, direct, now, postVars>>
allVars == <<vars, mainVars, dpc, at, memVars>>

EmbeddedInit ==
  /\ Init
  /\ mpc = "start"
  /\ burst = 1
  /\ route_running = TRUE
  /\ dpc = "unborn"
  /\ at = [f \in Func |-> "unused"]
  /\ AllocInit
  /\ stack = [c \in Coro \cup {Sched} |-> NoStack]
  /\ crashed = FALSE

-----------------------------------------------------------------------------
(* Stacks *)

\* The coroutines CoroGC deletes
Deleting == Range(deleting_coros) \cup (IF dpc = "retired" THEN {Sched} ELSE {})

CollectStacks(S) == [c \in DOMAIN stack |-> IF c \in S THEN NoStack ELSE stack[c]]

\* CoroGC, and the first Resume of coroutine c
AllocStack(c) ==
  LET freed == {stack[x] : x \in Deleting}
      new == Allocated((used \cup guarded) \ Unmapped(freed), MaxStackSize)
  IN  /\ FreeThenAlloc(freed, new)
      /\ stack' = [CollectStacks(Deleting) EXCEPT ![c] = new]
      \* coro_create writes the entry frame at the top
      /\ crashed' = (new.sptr + new.ssze - 1 \notin Page)

FreeStacks ==
  /\ FreeThenAlloc({stack[x] : x \in Deleting}, NoStack)
  /\ stack' = CollectStacks(Deleting)
  /\ UNCHANGED crashed

-----------------------------------------------------------------------------
(* The driver: while (route_running) { Routine(false); Yield(); } *)

\* Mutant: route_running is not tested again
DriverLoopForever ==
  /\ current = Sched /\ dpc = "loop"
  /\ dpc' = "routine"
  /\ UNCHANGED <<vars, mainVars, at, memVars>>

DriverLoop ==
  /\ current = Sched /\ dpc = "loop"
  /\ \/ /\ route_running
        /\ dpc' = "routine"
        /\ UNCHANGED vars
     \* the function returns: CoroDone, nobody joins the driver
     \/ /\ ~route_running
        /\ dpc' = "retired"
        /\ Yield(TRUE)
        /\ UNCHANGED <<coroVars, queueVars, routineVars>>
  /\ UNCHANGED <<mainVars, at, memVars>>

DriverRoutine ==
  /\ dpc = "routine"
  /\ \/ RoutineBegin /\ FreeStacks
     \/ /\ QueueEmpty \/ LookUpBucket \/ OpenBucket \/ InvokeDue \/ LeaveBucket
           \/ EraseBucket
        /\ UNCHANGED memVars
  /\ UNCHANGED <<mainVars, dpc, at>>

DriverRoutineEnds ==
  /\ dpc = "routine"
  /\ NoTimers \/ NothingDue
  /\ dpc' = "yield"
  /\ UNCHANGED <<mainVars, at, memVars>>

DriverYield ==
  /\ current = Sched /\ dpc = "yield"
  /\ dpc' = "loop"
  /\ Yield(FALSE)
  /\ UNCHANGED <<coroVars, queueVars, routineVars, mainVars, at, memVars>>

Driver == DriverLoop \/ DriverRoutine \/ DriverRoutineEnds \/ DriverYield

-----------------------------------------------------------------------------
(* testFunc, and the function it starts *)

Goto(f, from, to) ==
  current \in Coro /\ func[current] = f /\ at[f] = from /\ at' = [at EXCEPT ![f] = to]

TestSleep(f) ==
  /\ Goto(f, "sleep", IF f[2] = "test" THEN "start" ELSE "return")
  /\ \E d \in Delay : CoroSleep(d)
  /\ UNCHANGED <<mainVars, dpc, memVars>>

TestStart(f) ==
  /\ current \in Coro /\ func[current] = f /\ at[f] = "start"
  /\ at' = [at EXCEPT ![f] = "join", ![Sub(f)] = "sleep"]
  /\ CallStartCoro(Sub(f))
  /\ AllocStack(current')
  /\ UNCHANGED <<mainVars, dpc>>

TestJoin(f) ==
  /\ Goto(f, "join", "return")
  /\ \E c \in Coro : func[c] = Sub(f) /\ Join(c)
  /\ UNCHANGED <<mainVars, dpc, memVars>>

TestReturn(f) ==
  /\ Goto(f, "return", "done")
  /\ CoroDone(current)
  /\ UNCHANGED <<mainVars, dpc, memVars>>

Tests ==
  \E f \in Func : TestSleep(f) \/ TestStart(f) \/ TestJoin(f) \/ TestReturn(f)

-----------------------------------------------------------------------------
(* main *)

DriverNum == IF dpc \in {"unborn", "freed"} THEN 0 ELSE 1

\* Mutant: the coroutines that are retired are not counted
GetCoroNumExec == Cardinality(exec_table) + (IF dpc = "retired" THEN 0 ELSE DriverNum)

GetCoroNum == Cardinality(exec_table) + Len(deleting_coros) + DriverNum

InMain(pc) == current = Main /\ mpc = pc

\* Start, which is given no pool and no shared stacks, and StartCoro(routineFunc)
MainStart ==
  /\ mpc = "start"
  /\ mpc' = "first"
  /\ rpc' = "begin"
  /\ dpc' = "loop"
  /\ Resume(Sched, FALSE)
  /\ AllocStack(Sched)
  /\ UNCHANGED <<coroVars, queueVars, due, burst, route_running, at>>

\* One turn of a for loop: that of line 79, or a burst
MainStartTest(f) ==
  /\ InMain("first") \/ InMain("burst")
  /\ f[2] = "test" /\ life[f] = "unused"
  /\ burst' = burst - 1
  /\ mpc' = IF burst > 1 THEN mpc ELSE IF mpc = "first" THEN "resume" ELSE "check"
  /\ at' = [at EXCEPT ![f] = "sleep"]
  /\ StartCoro(f)
  /\ AllocStack(current')
  /\ UNCHANGED <<join_table, coro_queue, coro_time_queue, create_coro, routineVars, direct,
                 now, postVars, route_running, dpc>>

MainResume ==
  /\ InMain("resume")
  /\ mpc' = "usleep"
  /\ Resume(Sched, FALSE)
  /\ UNCHANGED <<coroVars, queueVars, routineVars, burst, route_running, dpc, at, memVars>>

\* usleep, and a burst if the last one is a second ago and it is not too late
MainSleep ==
  /\ InMain("usleep")
  /\ now < MaxTime
  /\ now' = now + 1
  /\ \/ mpc' = "check" /\ UNCHANGED burst
     \/ /\ now' < StartUntil
        /\ Cardinality({f \in Func : f[2] = "test" /\ life[f] = "unused"}) >= Burst
        /\ mpc' = "burst"
        /\ burst' = Burst
  /\ UNCHANGED <<switchVars, coroVars, join_table, coro_queue, coro_time_queue, create_coro,
                 life, routineVars, direct, postVars, route_running, dpc, at, memVars>>

MainCheck ==
  /\ InMain("check")
  /\ \/ /\ GetCoroNum = 1
        /\ route_running' = FALSE
        /\ mpc' = "drain"
        /\ Resume(Sched, FALSE)
     \/ /\ GetCoroNum # 1
        /\ mpc' = "resume"
        /\ UNCHANGED <<switchVars, route_running>>
  /\ UNCHANGED <<coroVars, queueVars, routineVars, burst, dpc, at, memVars>>

\* Routine(false) outside of any coroutine: only CoroGC has something to do
MainDrain ==
  /\ InMain("drain")
  /\ GetCoroNum # 0
  /\ coro_queue = <<>> /\ \A t \in Time : ~HasKey(t)
  /\ mem' = Collected
  /\ deleting_coros' = <<>>
  /\ dpc' = IF dpc = "retired" THEN "freed" ELSE dpc
  /\ FreeStacks
  /\ UNCHANGED <<switchVars, func, exec_table, exec_coro_num, coro_pool, queueVars,
                 routineVars, mainVars, at>>

MainEnd ==
  /\ InMain("drain")
  /\ GetCoroNum = 0
  /\ mpc' = "end"
  /\ UNCHANGED <<vars, burst, route_running, dpc, at, memVars>>

MainProgram ==
  \/ MainStart
  \/ \E f \in Func : MainStartTest(f)
  \/ MainResume
  \/ MainSleep
  \/ MainCheck
  \/ MainDrain
  \/ MainEnd

-----------------------------------------------------------------------------
TickEarly ==
  /\ now < TickUntil
  /\ Tick
  /\ UNCHANGED <<mainVars, dpc, at, memVars>>

\* The one thread of the program
Thread == ~crashed /\ (MainProgram \/ Driver \/ Tests)

EmbeddedNext == Thread \/ (~crashed /\ mpc # "end" /\ TickEarly)

EmbeddedSpec == EmbeddedInit /\ [][EmbeddedNext]_allVars /\ WF_allVars(Thread)

-----------------------------------------------------------------------------
(* Properties *)

(* Type invariant of what this module adds to Scheduler                    *)
EmbeddedTypeOK ==
  /\ TypeOK
  /\ mpc \in {"start", "first", "resume", "usleep", "burst", "check", "drain", "end"}
  /\ burst \in 0 .. Burst
  /\ dpc \in {"unborn", "loop", "routine", "yield", "retired", "freed"}
  /\ at \in [Func -> {"unused", "sleep", "start", "join", "return", "done"}]
  /\ used \subseteq Page /\ guarded \subseteq Page
  /\ {stack[c].sptr : c \in DOMAIN stack} \subseteq {0} \cup Page

\* Who runs or may run again
Executing ==
  exec_table \cup {Main} \cup
  (IF dpc \in {"loop", "routine", "yield"} THEN {Sched} ELSE {})

(* The driver's own Yield leaves one entry for the driver on the coroutine *)
(* stack in every turn, and nobody pops it.  They stay below main's entry: *)
(* a Yield or a Wait always goes to somebody who executes, waits for       *)
(* nothing and is there once, and never to the driver of an earlier turn,  *)
(* who may be deleted by then.                                             *)
StaleBelowMain ==
  \E k \in 0 .. Len(coro_stack) :
    LET fresh == SubSeq(coro_stack, k + 1, Len(coro_stack))
    IN  /\ \A i \in 1 .. k : coro_stack[i] = Sched
        /\ current = Main => fresh = <<>>
        /\ current \notin {Main, NULL} /\ coro_stack # <<>> => fresh # <<>> /\ fresh[1] = Main
        /\ IsInjective(fresh)
        /\ Range(fresh) \subseteq Executing \ {current}
        /\ \A c \in Range(fresh) : ~waiting[c]

(* Everything that runs or may run again is on a stack of its own: mapped, *)
(* with its guard pages below it, and shared with nobody; and what nobody  *)
(* owns is given back.                                                     *)
OwnStacks ==
  LET owners == {c \in DOMAIN stack : stack[c].sptr # 0}
  IN  ~crashed =>
        /\ Executing \ {Main} \subseteq owners
        /\ \A c, d \in owners :
             c # d => Body(stack[c]) \cap (Body(stack[d]) \cup Guard(stack[d])) = {}
        /\ used = UNION {Body(stack[c]) : c \in owners}
        /\ guarded = UNION {Guard(stack[c]) : c \in owners}

(* The number that main waits for tells the truth: main leaves its loop    *)
(* when the calls it started, and those they started, are done, and ends   *)
(* with every coroutine deleted and every page given back (GetCoroNum).    *)
EndsClean ==
  /\ ~route_running => \A f \in Func : life[f] \in {"unused", "done"}
  /\ mpc = "end" =>
       /\ exec_table = {} /\ deleting_coros = <<>> /\ dpc = "freed"
       /\ used = {} /\ guarded = {}
       /\ \A c \in Coro : mem[c] # "live"

(* Liveness: the program ends, unless it ran out of memory for a stack:    *)
(* main's loop gives every sleeper and joiner its turn and stops.          *)
Terminates == <>(mpc = "end" \/ crashed)

=============================================================================
