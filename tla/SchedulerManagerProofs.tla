----------------------- MODULE SchedulerManagerProofs -----------------------
(***************************************************************************)
(* One manager unless creators race, calls that stay on their scheduler,   *)
(* and what GetScheduler chooses, for any number of threads and calls and  *)
(* any options.                                                            *)
(***************************************************************************)
EXTENDS SchedulerManager, FiniteSetTheorems, TLAPS

USE ManagerAssumption

Place == {"unborn", "run", "idle", "singleton", "create", "construct", "assign", "return",
          "scan", "start", "exited"}

Life == {"unused", "queued", "timed", "running", "direct", "retired", "done"}

HistoryTypes ==
  /\ idle \in [Thread -> SUBSET Scheduler]
  /\ busy \in [Thread -> SUBSET (Scheduler \X Counted)]

Types ==
  /\ g_scheduler_manager \in Caller \cup {NULL}
  /\ opt \in [Caller -> CoroOptions \cup {NULL}]
  /\ g_current_scheduler \in [Thread -> Scheduler \cup {NULL, NoSlot}]
  /\ env \in [Thread -> Nat \cup {NoSlot}]
  /\ pc \in [Thread -> Place]
  /\ arg \in [Thread -> Func \cup {NULL}]
  /\ options \in [Thread -> CoroOptions \cup {NULL}]
  /\ singleton \in [Thread -> Caller \cup {NULL}]
  /\ i \in [Thread -> Nat]
  /\ numk \in [Thread -> (Counted \X Nat) \cup {NULL}]
  /\ chosen \in [Thread -> Scheduler \cup {NULL}]
  /\ life \in [Func -> Life]
  /\ sched \in [Func -> Scheduler \cup {NULL}]
  /\ by \in [Func -> Thread \cup {NULL}]
  /\ HistoryTypes

\* A thread makes a manager once, and none after there is one
ManagerInv ==
  /\ g_scheduler_manager # NULL => opt[g_scheduler_manager] # NULL
  /\ \A t \in Caller :
       /\ opt[t] # NULL => pc[t] = "assign" \/ g_scheduler_manager # NULL
       /\ pc[t] = "construct" => opt[t] = NULL
       /\ pc[t] = "assign" => opt[t] # NULL
       /\ pc[t] \notin {"unborn", "run"}

\* Unless creators raced there is one of them, and its manager is the only one
RaceInv ==
  raced \/
    /\ \A t, u \in Thread : InCreate(t) /\ InCreate(u) => t = u
    /\ \A t \in Thread, m \in Managers : InCreate(t) => m = t
    /\ \A m, n \in Managers : m = n

\* The schedulers there are
AllMade == {s \in Scheduler : s \in Made(s[1])}

\* A scheduler's thread only runs calls, and has its scheduler before the first
HomeInv ==
  \A s \in Scheduler :
    /\ pc[s] \in {"unborn", "run", "idle", "start", "exited"}
    /\ pc[s] = "unborn" <=> ~(s \in AllMade /\ Host(s) = s)
    /\ pc[s] \in {"idle", "start"} => g_current_scheduler[s] = s
    /\ pc[s] = "start" => chosen[s] = s

\* What a caller knows on its way through GetScheduler
Path(t) ==
  /\ pc[t] \in {"create", "construct"} => options[t] \in CoroOptions
  /\ pc[t] = "return" => g_scheduler_manager # NULL
  /\ pc[t] = "scan" => singleton[t] \in Managers /\ (Size(t) = 0 \/ This(t) \in AllMade)
  /\ pc[t] # "scan" => i[t] = 1
  /\ numk[t] # NULL => pc[t] = "scan" /\ Size(t) > 1
  /\ pc[t] = "start" => chosen[t] \in AllMade
  /\ pc[t] \in {"singleton", "return", "scan", "start"} => arg[t] # NULL
  /\ arg[t] # NULL => by[arg[t]] = t /\ sched[arg[t]] = NULL
  /\ g_current_scheduler[t] \in Scheduler => g_current_scheduler[t] \in AllMade

PathInv == \A t \in Thread : Path(t)

CallInv == \A f \in Func : by[f] = NULL => sched[f] = NULL

\* Who has a slot for the scheduler made one or asked for one
SlotInv ==
  \A t \in Caller :
    g_current_scheduler[t] # NoSlot => opt[t] # NULL \/ \E f \in Func : by[f] = t

\* A scheduler ends with a function that a caller's StartCoroAfter brought it
EndInv ==
  /\ \A f \in Func : life[f] \in {"timed", "direct"} => by[f] \in Caller
  /\ \A s \in Scheduler : Gone(s) => \E f \in Func : sched[f] = s /\ life[f] = "direct"

\* What the first size that GetCoroNum reads tells of the scheduler
FirstSize(t) ==
  numk[t] # NULL =>
    /\ numk[t][2] > 0 => This(t) \notin idle[t]
    /\ numk[t][2] = 0 => <<This(t), numk[t][1]>> \notin busy[t]

\* The schedulers that GetScheduler's loop has passed were busy at some time
ScanInv ==
  \A t \in Thread : pc[t] = "scan" =>
    /\ idle[t] \subseteq Idle
    /\ busy[t] \subseteq Busy
    /\ \A k \in 1 .. i[t] - 1 : <<singleton[t], k>> \notin idle[t]
    /\ FirstSize(t)

Inv ==
  /\ Types /\ ManagerInv /\ RaceInv /\ HomeInv /\ PathInv /\ CallInv
  /\ StaysHome /\ SlotInv /\ EndInv /\ UndefinedHasCause /\ ScanInv

\* Threads, schedulers and the values that stand for none are apart.
LEMMA Names ==
  /\ Thread = Caller \cup Scheduler
  /\ Caller \cap Scheduler = {}
  /\ NULL \notin Thread \cup Func \cup CoroOptions
  /\ NoSlot \notin Scheduler \cup Nat /\ NoSlot # NULL
  /\ \A s \in Scheduler : s[1] \in Caller
  /\ \A m \in Caller, k \in 1 .. MaxNum : <<m, k>> \in Scheduler /\ <<m, k>>[1] = m
  /\ Default \in CoroOptions
  /\ \A o \in CoroOptions :
       o.sheduler_num \in 0 .. MaxNum /\ o.share_stack_count \in Nat /\ o.create_thread \in BOOLEAN
  /\ 1 \in 1 .. MaxNum
<1>1. Thread = Caller \cup Scheduler /\ Caller \cap Scheduler = {}
  BY DEF Thread
<1>2. NULL \notin Thread \cup Func \cup CoroOptions
  BY DEF Thread, Func
<1>3. NoSlot \notin Scheduler \cup Nat /\ NoSlot # NULL
  OBVIOUS
<1>4. \A s \in Scheduler : s[1] \in Caller
  BY DEF Scheduler
<1>5. \A m \in Caller, k \in 1 .. MaxNum : <<m, k>> \in Scheduler /\ <<m, k>>[1] = m
  BY DEF Scheduler
<1>6. Default \in CoroOptions
  BY DEF Default, CoroOptions
<1>7. \A o \in CoroOptions :
       o.sheduler_num \in 0 .. MaxNum /\ o.share_stack_count \in Nat /\ o.create_thread \in BOOLEAN
  BY DEF CoroOptions
<1>8. 1 \in 1 .. MaxNum
  OBVIOUS
<1> QED BY <1>1, <1>2, <1>3, <1>4, <1>5, <1>6, <1>7, <1>8

\* The schedulers of a manager
LEMMA MadeBy ==
  ASSUME Types, NEW m \in Caller
  PROVE  /\ opt[m] = NULL => Made(m) = {}
         /\ opt[m] # NULL =>
              /\ opt[m] \in CoroOptions
              /\ Made(m) = {<<m, k>> : k \in 1 .. opt[m].sheduler_num}
         /\ \A s \in Made(m) : s \in Scheduler /\ s[1] = m /\ opt[m] # NULL
<1>1. opt[m] \in CoroOptions \cup {NULL}
  BY DEF Types
<1>2. CASE opt[m] = NULL
  BY <1>2 DEF Made
<1>3. CASE opt[m] # NULL
  <2>1. opt[m] \in CoroOptions /\ 1 .. opt[m].sheduler_num \subseteq 1 .. MaxNum
    BY <1>1, <1>3, Names
  <2>2. Made(m) = {m} \X (1 .. opt[m].sheduler_num)
    BY <1>3 DEF Made
  <2>3. Made(m) = {<<m, k>> : k \in 1 .. opt[m].sheduler_num}
    BY <2>2
  <2> QED BY <1>3, <2>1, <2>3, Names
<1> QED BY <1>2, <1>3

LEMMA HistoryType ==
  ASSUME History
  PROVE  HistoryTypes'
<1>1. Idle' \subseteq Scheduler /\ Busy' \subseteq Scheduler \X Counted
  BY DEF Idle, Busy
<1>2. \A t \in Thread : /\ Since(t, idle[t], Idle') \subseteq Idle'
                       /\ Since(t, busy[t], Busy') \subseteq Busy'
  BY DEF Since
<1> QED BY <1>1, <1>2 DEF History, HistoryTypes

\* The size of a table of coroutines
LEMMA Sizes == ASSUME NEW s, NEW k PROVE CoroNum(s, k) \in Nat
<1> DEFINE S == {f \in Func : sched[f] = s /\ life[f] = k}
<1>1. IsFiniteSet(Func)
  BY FS_Interval DEF Func
<1>2. IsFiniteSet(S)
  BY <1>1, FS_Subset
<1> QED BY <1>2, FS_CardinalityType DEF CoroNum

\* The loop of GetScheduler has passed no scheduler that was idle all the
\* while, and remembers how it found the one it looks at.
LEMMA ScanKept ==
  ASSUME Types, ScanInv, History,
         \A u \in Thread : pc'[u] = "scan" =>
           IF pc[u] # "scan" THEN i'[u] = 1 /\ numk'[u] = NULL
           ELSE /\ singleton'[u] = singleton[u]
                /\ \/ i'[u] = i[u] /\ numk'[u] = numk[u]
                   \/ /\ i'[u] = i[u]
                      /\ \E k \in Counted : numk'[u] = <<k, CoroNum(This(u), k)'>>
                   \/ i'[u] = i[u] + 1 /\ numk'[u] = NULL /\ This(u) \notin idle[u] \cap Idle'
  PROVE  ScanInv'
<1> SUFFICES ASSUME NEW u \in Thread, pc'[u] = "scan"
             PROVE  /\ idle'[u] \subseteq Idle' /\ busy'[u] \subseteq Busy'
                    /\ \A k \in 1 .. i'[u] - 1 : <<singleton'[u], k>> \notin idle'[u]
                    /\ FirstSize(u)'
  BY DEF ScanInv
<1>1. /\ idle'[u] = IF pc[u] # "scan" THEN Idle' ELSE idle[u] \cap Idle'
      /\ busy'[u] = IF pc[u] # "scan" THEN Busy' ELSE busy[u] \cap Busy'
  BY DEF History, Since
<1>2. CASE pc[u] # "scan"
  <2>1. idle'[u] = Idle' /\ busy'[u] = Busy'
    BY <1>1, <1>2
  <2>2. i'[u] = 1 /\ numk'[u] = NULL
    BY <1>2
  <2>3. 1 .. i'[u] - 1 = {}
    BY <2>2
  <2> QED BY <2>1, <2>2, <2>3 DEF FirstSize
<1>3. CASE pc[u] = "scan"
  <2>1. (\A k \in 1 .. i[u] - 1 : <<singleton[u], k>> \notin idle[u]) /\ FirstSize(u)
    BY <1>3 DEF ScanInv
  <2>2. i[u] \in Nat
    BY DEF Types
  <2>3. /\ singleton'[u] = singleton[u]
        /\ \/ i'[u] = i[u] /\ numk'[u] = numk[u]
           \/ /\ i'[u] = i[u]
              /\ \E k \in Counted : numk'[u] = <<k, CoroNum(This(u), k)'>>
           \/ i'[u] = i[u] + 1 /\ numk'[u] = NULL /\ This(u) \notin idle[u] \cap Idle'
    BY <1>3
  <2>4. ASSUME NEW k \in 1 .. i'[u] - 1 PROVE <<singleton[u], k>> \notin idle'[u]
    <3>1. k \in 1 .. i[u] - 1 \/ (k = i[u] /\ This(u) \notin idle[u] \cap Idle')
      BY <2>2, <2>3, <2>4
    <3> QED BY <1>1, <1>3, <2>1, <3>1 DEF This
  <2>5. FirstSize(u)'
    <3>1. CASE i'[u] = i[u] /\ numk'[u] = numk[u]
      <4>1. This(u)' = This(u)
        BY <2>3, <3>1 DEF This
      <4> QED BY <1>1, <1>3, <2>1, <3>1, <4>1 DEF FirstSize
    <3>2. CASE i'[u] = i[u] /\ \E k \in Counted : numk'[u] = <<k, CoroNum(This(u), k)'>>
      <4>1. This(u)' = This(u)
        BY <2>3, <3>2 DEF This
      <4>2. PICK k \in Counted : numk'[u] = <<k, CoroNum(This(u), k)'>>
        BY <3>2
      <4>3. CoroNum(This(u), k)' > 0 => This(u) \notin Idle'
        BY <4>1 DEF Idle
      <4>4. CoroNum(This(u), k)' = 0 => <<This(u), k>> \notin Busy'
        BY <4>1 DEF Busy
      <4> QED BY <1>1, <1>3, <4>1, <4>2, <4>3, <4>4 DEF FirstSize
    <3>3. CASE numk'[u] = NULL
      BY <3>3 DEF FirstSize
    <3> QED BY <2>3, <3>1, <3>2, <3>3
  <2> QED BY <1>1, <1>3, <2>3, <2>4, <2>5
<1> QED BY <1>2, <1>3

\* A thread in GetScheduler or CreateSingleton is one of the program's.
LEMMA CallersOnly ==
  ASSUME HomeInv, NEW t \in Thread, pc[t] \notin {"unborn", "run", "idle", "start", "exited"}
  PROVE  t \in Caller
BY Names DEF HomeInv

\* A step of one caller that leaves managers, slots and calls alone
LEMMA CallerStep ==
  ASSUME Inv, ~corrupted, NEW t \in Caller, NEW x,
         pc' = [pc EXCEPT ![t] = x],
         \A u \in Thread : u # t => chosen'[u] = chosen[u],
         UNCHANGED <<opt, localVars, callVars, corrupted>>
  PROVE  HomeInv' /\ CallInv' /\ StaysHome' /\ SlotInv' /\ EndInv' /\ UndefinedHasCause'
<1> USE Names DEF localVars, callVars
<1>1. \A s \in Scheduler : pc'[s] = pc[s] /\ chosen'[s] = chosen[s]
  BY DEF Inv, Types
<1>2. AllMade' = AllMade
  BY DEF AllMade, Made
<1>3. \A s \in Scheduler : Host(s)' = Host(s)
  BY DEF Host
<1>4. HomeInv'
  BY <1>1, <1>2, <1>3 DEF Inv, HomeInv
<1>5. CallInv' /\ StaysHome' /\ SlotInv' /\ EndInv' /\ UndefinedHasCause'
  BY <1>1 DEF Inv, CallInv, StaysHome, SlotInv, EndInv, Gone, UndefinedHasCause
<1> QED BY <1>4, <1>5

\* CreateSingleton and StartCoro are called.
LEMMA CallSteps ==
  ASSUME Inv, ~corrupted, History, NEW t \in Thread,
         (\E o \in Options : CallCreate(t, o)) \/ \E f \in Func : CallStartCoro(t, f)
  PROVE  Inv'
<1> USE Names DEF managerVars, localVars, callVars, Goto
<1>0. Types /\ ManagerInv /\ RaceInv /\ HomeInv /\ PathInv /\ CallInv /\ ScanInv /\ EndInv
  BY DEF Inv
<1>1. pc[t] = "idle" /\ HistoryTypes'
  BY HistoryType DEF CallCreate, CallStartCoro
<1>2. UNCHANGED <<managerVars, env, life, sched, i, numk, singleton, corrupted, raced>>
  BY DEF CallCreate, CallStartCoro
<1>3. Managers' = Managers /\ AllMade' = AllMade
      /\ \A u \in Thread : This(u)' = This(u) /\ Size(u)' = Size(u)
  BY <1>2 DEF Managers, AllMade, Made, This, Size
<1>4. ASSUME NEW o \in Options, CallCreate(t, o) PROVE Inv'
  <2>1. /\ t \in Caller /\ pc' = [pc EXCEPT ![t] = "create"] /\ arg' = [arg EXCEPT ![t] = NULL]
        /\ options' = [options EXCEPT ![t] = o]
        /\ UNCHANGED <<managerVars, localVars, callVars, singleton, i, numk, chosen, corrupted, raced>>
    BY <1>4 DEF CallCreate
  <2>2. o \in CoroOptions
    BY DEF CoroOptions
  <2>3. Types'
    BY <1>0, <1>1, <2>1, <2>2 DEF Types, Place
  <2>4. \A u \in Thread : u # t => pc'[u] = pc[u] /\ arg'[u] = arg[u] /\ options'[u] = options[u]
    BY <1>0, <2>1 DEF Types
  <2>5. pc'[t] = "create" /\ arg'[t] = NULL /\ options'[t] = o
    BY <1>0, <2>1 DEF Types
  <2>6. ManagerInv'
    BY <1>0, <1>1, <2>1, <2>4, <2>5 DEF ManagerInv
  <2>7. RaceInv'
    BY <1>0, <1>1, <1>3, <2>1, <2>4, <2>5 DEF RaceInv, InCreate
  <2>8. HomeInv' /\ CallInv' /\ StaysHome' /\ SlotInv' /\ EndInv' /\ UndefinedHasCause'
    BY <2>1, CallerStep
  <2>9. PathInv'
    BY <1>0, <1>1, <1>3, <2>1, <2>2, <2>4, <2>5 DEF PathInv, Path, Types
  <2>10. ScanInv'
    BY <1>0, <2>1, <2>4, <2>5, ScanKept
  <2> QED BY <2>3, <2>6, <2>7, <2>8, <2>9, <2>10 DEF Inv
<1>5. ASSUME NEW f \in Func, CallStartCoro(t, f) PROVE Inv'
  <2> DEFINE own == Current!Value(t)
             x == IF own # NULL THEN "start" ELSE "singleton"
  <2>1. /\ MayCall(t) /\ pc' = [pc EXCEPT ![t] = x] /\ by[f] = NULL
        /\ by' = [by EXCEPT ![f] = t] /\ arg' = [arg EXCEPT ![t] = f]
        /\ g_current_scheduler' = [g_current_scheduler EXCEPT ![t] = own]
        /\ chosen' = [chosen EXCEPT ![t] = own]
        /\ UNCHANGED <<managerVars, env, life, sched, options, singleton, i, numk, corrupted, raced>>
    BY <1>5 DEF CallStartCoro, Current!GetValue
  <2>2. /\ own = IF g_current_scheduler[t] = NoSlot THEN NULL ELSE g_current_scheduler[t]
        /\ own \in Scheduler \cup {NULL}
    BY <1>0 DEF Current!Value, Types
  <2>3. x \in {"start", "singleton"} /\ (x = "start" <=> own # NULL)
    OBVIOUS
  <2> HIDE DEF own, x
  <2>4. Types'
    BY <1>0, <1>1, <2>1, <2>2, <2>3 DEF Types, Place
  <2>5. \A u \in Thread : u # t => pc'[u] = pc[u] /\ arg'[u] = arg[u] /\ chosen'[u] = chosen[u]
                             /\ g_current_scheduler'[u] = g_current_scheduler[u]
    BY <1>0, <2>1 DEF Types
  <2>6. pc'[t] = x /\ arg'[t] = f /\ chosen'[t] = own /\ g_current_scheduler'[t] = own /\ by'[f] = t
    BY <1>0, <2>1 DEF Types
  <2>7. \A g \in Func : g # f => by'[g] = by[g]
    BY <1>0, <2>1 DEF Types
  <2>8. ManagerInv'
    BY <1>0, <1>1, <1>2, <2>3, <2>5, <2>6 DEF ManagerInv
  <2>9. RaceInv'
    BY <1>0, <1>1, <1>2, <1>3, <2>3, <2>5, <2>6 DEF RaceInv, InCreate
  <2>10. \A s \in Scheduler : s \in Thread /\ s[1] \in Caller /\ Host(s)' = Host(s)
    BY <1>2 DEF Host
  <2>11. HomeInv'
    <3> SUFFICES ASSUME NEW s \in Scheduler
                 PROVE  /\ pc'[s] \in {"unborn", "run", "idle", "start", "exited"}
                        /\ pc'[s] = "unborn" <=> ~(s \in AllMade' /\ Host(s)' = s)
                        /\ pc'[s] \in {"idle", "start"} => g_current_scheduler'[s] = s
                        /\ pc'[s] = "start" => chosen'[s] = s
      BY DEF HomeInv
    <3>1. CASE s # t
      BY <1>0, <1>3, <2>5, <2>10, <3>1 DEF HomeInv
    <3>2. CASE s = t
      <4>1. g_current_scheduler[s] = s /\ (s \in AllMade /\ Host(s) = s)
        BY <1>0, <1>1, <3>2 DEF HomeInv
      <4>2. own = s
        BY <2>2, <3>2, <4>1
      <4>3. own # NULL
        BY <4>2
      <4> QED BY <1>3, <2>3, <2>6, <2>10, <3>2, <4>1, <4>2, <4>3
    <3> QED BY <3>1, <3>2
  <2>12. PathInv'
    <3> SUFFICES ASSUME NEW u \in Thread PROVE Path(u)'
      BY DEF PathInv
    <3>1. Path(u)
      BY <1>0 DEF PathInv
    <3>2. arg[u] # f
      BY <2>1, <3>1 DEF Path
    <3>3. CASE u # t
      <4>1. /\ pc'[u] = pc[u] /\ arg'[u] = arg[u] /\ chosen'[u] = chosen[u]
            /\ g_current_scheduler'[u] = g_current_scheduler[u]
            /\ UNCHANGED <<options, singleton, i, numk, sched, g_scheduler_manager>>
        BY <2>1, <2>5, <3>3
      <4>2. arg[u] \in Func \cup {NULL}
        BY <1>0 DEF Types
      <4>3. arg'[u] # NULL => by'[arg'[u]] = u /\ sched'[arg'[u]] = NULL
        BY <2>7, <3>1, <3>2, <4>1, <4>2 DEF Path
      <4> QED BY <1>3, <3>1, <4>1, <4>3 DEF Path
    <3>4. CASE u = t
      <4>1. i[t] = 1 /\ numk[t] = NULL /\ sched[f] = NULL
        BY <1>0, <1>1, <2>1, <3>1, <3>4 DEF Path, CallInv, Types
      <4>2. own # NULL => own \in AllMade
        BY <2>2, <3>1, <3>4 DEF Path
      <4> QED BY <1>2, <1>3, <2>1, <2>3, <2>6, <3>4, <4>1, <4>2 DEF Path
    <3> QED BY <3>3, <3>4
  <2>13. CallInv' /\ StaysHome'
    BY <1>0, <1>2, <2>1, <2>6, <2>7 DEF CallInv, StaysHome, Inv
  <2>14. SlotInv'
    <3>1. ASSUME NEW u \in Caller, u # t, g_current_scheduler'[u] # NoSlot
          PROVE  opt[u] # NULL \/ \E g \in Func : by'[g] = u
      <4>1. opt[u] # NULL \/ \E g \in Func : by[g] = u
        BY <2>5, <3>1 DEF SlotInv, Inv
      <4> QED BY <2>1, <2>7, <4>1
    <3> QED BY <1>2, <2>6, <3>1 DEF SlotInv
  <2>15. EndInv' /\ UndefinedHasCause'
    <3>1. \A s \in Scheduler : Gone(s)' => Gone(s)
      BY <2>3, <2>5, <2>6 DEF Gone
    <3>2. \A g \in Func : life[g] \in {"timed", "direct"} => g # f
      BY <1>0, <2>1 DEF EndInv
    <3> QED BY <1>0, <1>2, <2>7, <3>1, <3>2 DEF EndInv, UndefinedHasCause
  <2>16. ScanInv'
    BY <1>0, <1>2, <2>3, <2>5, <2>6, ScanKept
  <2> QED BY <2>4, <2>8, <2>9, <2>11, <2>12, <2>13, <2>14, <2>15, <2>16 DEF Inv
<1> QED BY <1>4, <1>5

\* The index tells which schedulers a manager has.
LEMMA FirstMade ==
  ASSUME Types, NEW m \in Caller
  PROVE  /\ opt[m] # NULL /\ opt[m].sheduler_num > 0 => <<m, 1>> \in AllMade
         /\ \A k \in Nat : <<m, k>> \in AllMade =>
              opt[m] # NULL /\ k \in 1 .. opt[m].sheduler_num
         /\ \A k \in Nat : opt[m] # NULL /\ k \in 1 .. opt[m].sheduler_num => <<m, k>> \in AllMade
<1>1. opt[m] # NULL =>
        /\ opt[m].sheduler_num \in 0 .. MaxNum
        /\ Made(m) = {<<m, k>> : k \in 1 .. opt[m].sheduler_num}
  BY MadeBy, Names
<1>2. opt[m] = NULL => Made(m) = {}
  BY MadeBy
<1>3. \A k \in Nat : <<m, k>>[1] = m
  OBVIOUS
<1>4. ASSUME NEW k \in Nat, opt[m] # NULL, k \in 1 .. opt[m].sheduler_num
      PROVE  <<m, k>> \in AllMade
  <2>1. k \in 1 .. MaxNum
    BY <1>1, <1>4
  <2>2. <<m, k>> \in Scheduler /\ <<m, k>> \in Made(m)
    BY <1>1, <1>4, <2>1, Names
  <2> QED BY <1>3, <2>2 DEF AllMade
<1>5. ASSUME NEW k \in Nat, <<m, k>> \in AllMade
      PROVE  opt[m] # NULL /\ k \in 1 .. opt[m].sheduler_num
  <2>1. <<m, k>> \in Made(m)
    BY <1>3, <1>5 DEF AllMade
  <2>2. opt[m] # NULL
    BY <1>2, <2>1
  <2>3. PICK j \in 1 .. opt[m].sheduler_num : <<m, k>> = <<m, j>>
    BY <1>1, <2>1, <2>2
  <2> QED BY <2>2, <2>3
<1>6. opt[m] # NULL /\ opt[m].sheduler_num > 0 => 1 \in 1 .. opt[m].sheduler_num
  BY <1>1
<1> QED BY <1>4, <1>5, <1>6

\* A scheduler whose two sizes were not both found zero was busy at one of the
\* two times.
LEMMA Passed ==
  ASSUME Types, ScanInv, NEW t \in Thread, pc[t] = "scan", Looked(t), ~IsZero(t)
  PROVE  This(t) \notin idle[t]
<1>1. numk[t] \in Counted \X Nat /\ FirstSize(t) /\ idle[t] \subseteq Idle
  BY DEF Looked, Types, ScanInv
<1>2. CASE numk[t][2] > 0
  BY <1>1, <1>2 DEF FirstSize, Looked
<1>3. CASE \E k \in Counted : CoroNum(This(t), k) # 0
  BY <1>1, <1>3 DEF Idle
<1> QED BY <1>1, <1>2, <1>3 DEF IsZero

\* One turn of the loop: it goes on past a scheduler that was busy at some
\* time, or ends with one that was made.
LEMMA ScanTurn ==
  ASSUME Types, ScanInv, NEW t \in Caller, Path(t), Scan(t)
  PROVE  \E x \in {"scan", "start"}, m \in Caller \cup {NULL}, k \in Nat,
            c \in Scheduler \cup {NULL} :
           /\ pc' = [pc EXCEPT ![t] = x] /\ singleton' = [singleton EXCEPT ![t] = m]
           /\ i' = [i EXCEPT ![t] = k] /\ chosen' = [chosen EXCEPT ![t] = c]
           /\ x = "start" => k = 1 /\ c \in AllMade
           /\ x = "scan" => /\ m = singleton[t] /\ k = i[t] + 1 /\ <<m, k>> \in AllMade
                            /\ This(t) \notin idle[t]
<1> USE Names
<1> DEFINE m == singleton[t]
<1>0. t \in Thread /\ pc[t] = "scan"
  BY DEF Scan
<1>1. /\ m \in Caller /\ opt[m] # NULL /\ i[t] \in Nat
      /\ Size(t) = 0 \/ This(t) \in AllMade
      /\ numk[t] \in (Counted \X Nat) \cup {NULL}
  BY <1>0 DEF Path, Types, Managers
<1>2. Size(t) = opt[m].sheduler_num /\ opt[m] \in CoroOptions /\ Size(t) \in Nat
  BY <1>1, MadeBy DEF Size
<1>3. Size(t) > 0 /\ This(t) \in AllMade /\ This(t) \in Scheduler /\ i[t] \in 1 .. Size(t)
  <2>1. This(t) \in AllMade => This(t) \in Scheduler /\ i[t] \in 1 .. Size(t)
    BY <1>1, <1>2, FirstMade DEF This, AllMade
  <2>2. Size(t) = 0 => ~Looked(t)
    <3>1. ASSUME Size(t) = 0 PROVE numk[t] = NULL
      BY <1>0, <3>1 DEF Path
    <3> QED BY <3>1 DEF Looked
  <2> QED BY <1>1, <1>2, <2>1, <2>2 DEF Scan
<1>4. <<m, 1>> \in AllMade /\ <<m, 1>> \in Scheduler
  BY <1>1, <1>2, <1>3, FirstMade DEF AllMade
<1>5. CASE Take(t, This(t)) \/ Take(t, <<m, 1>>)
  <2>1. PICK c \in {This(t), <<m, 1>>} : Take(t, c)
    BY <1>5
  <2>2. c \in AllMade /\ c \in Scheduler
    BY <1>3, <1>4
  <2> QED BY <2>1, <2>2 DEF Take
<1>6. CASE Looked(t) /\ ~IsZero(t) /\ i[t] < Size(t) /\ GoOn(t)
  <2>1. This(t) \notin idle[t]
    BY <1>0, <1>1, <1>6, Passed
  <2>2. i[t] + 1 \in Nat /\ <<m, i[t] + 1>> \in AllMade
    <3>1. i[t] + 1 \in 1 .. opt[m].sheduler_num /\ i[t] + 1 \in Nat
      BY <1>1, <1>2, <1>3, <1>6
    <3> QED BY <1>1, <3>1, FirstMade
  <2>3. /\ pc' = [pc EXCEPT ![t] = "scan"] /\ singleton' = [singleton EXCEPT ![t] = m]
        /\ chosen' = [chosen EXCEPT ![t] = chosen[t]] /\ chosen[t] \in Scheduler \cup {NULL}
    BY <1>0, <1>6 DEF Types, GoOn
  <2> QED BY <1>1, <1>6, <2>1, <2>2, <2>3 DEF GoOn
<1> QED BY <1>5, <1>6 DEF Scan

\* A thread begins the loop of GetScheduler with the first scheduler of its
\* manager, if that has one.
LEMMA StartsScan ==
  ASSUME Types, NEW t \in Thread, opt' = opt, singleton'[t] \in Caller, i'[t] = 1,
         opt[singleton'[t]] # NULL
  PROVE  singleton'[t] \in Managers /\ (Size(t)' = 0 \/ This(t)' \in AllMade)
<1>1. /\ Size(t)' = opt[singleton'[t]].sheduler_num /\ Size(t)' \in Nat
      /\ This(t)' = <<singleton'[t], 1>>
  BY MadeBy, Names DEF Size, This
<1> QED BY <1>1, FirstMade DEF Managers

\* The steps of GetScheduler and CreateSingleton that only change what their
\* thread knows, and Assign
LEMMA GetSteps ==
  ASSUME Inv, ~corrupted, History, NEW t \in Thread,
         Singleton(t) \/ CreateSingleton(t) \/ Assign(t) \/ Return(t) \/ Look(t)
           \/ Scan(t)
  PROVE  Inv'
<1> USE Names DEF managerVars, localVars, callVars, Goto
<1>0. Types /\ ManagerInv /\ RaceInv /\ HomeInv /\ PathInv /\ ScanInv
  BY DEF Inv
<1>1. /\ pc[t] \in {"singleton", "create", "assign", "return", "scan"}
      /\ UNCHANGED <<opt, localVars, callVars, arg, corrupted>>
  BY DEF Singleton, CreateSingleton, Assign, Return, Look, Scan
<1>2. t \in Caller /\ Path(t) /\ (arg[t] # NULL => by[arg[t]] = t /\ sched[arg[t]] = NULL)
  BY <1>0, <1>1, CallersOnly DEF PathInv, Path
<1>3. Managers' = Managers /\ AllMade' = AllMade
  BY <1>1 DEF Managers, AllMade, Made
<1>4. HistoryTypes'
  BY HistoryType
<1>5. ASSUME NEW x \in Place, pc' = [pc EXCEPT ![t] = x],
             \A u \in Thread : u # t =>
               /\ options'[u] = options[u] /\ singleton'[u] = singleton[u]
               /\ i'[u] = i[u] /\ numk'[u] = numk[u] /\ chosen'[u] = chosen[u],
             g_scheduler_manager # NULL => g_scheduler_manager' # NULL,
             Path(t)'
      PROVE  HomeInv' /\ PathInv' /\ CallInv' /\ StaysHome' /\ SlotInv' /\ EndInv'
             /\ UndefinedHasCause'
  <2>1. \A u \in Thread : u # t => pc'[u] = pc[u]
    BY <1>0, <1>5 DEF Types
  <2>2. HomeInv' /\ CallInv' /\ StaysHome' /\ SlotInv' /\ EndInv' /\ UndefinedHasCause'
    BY <1>1, <1>2, <1>5, CallerStep
  <2>3. ASSUME NEW u \in Thread, u # t PROVE Path(u)'
    <3>1. Path(u)
      BY <1>0 DEF PathInv
    <3>2. This(u)' = This(u) /\ Size(u)' = Size(u)
      BY <1>1, <1>5, <2>3 DEF This, Size
    <3> QED BY <1>1, <1>3, <1>5, <2>1, <2>3, <3>1, <3>2 DEF Path
  <2> QED BY <1>5, <2>2, <2>3 DEF PathInv
<1>6. CASE Singleton(t)
  <2> DEFINE x == IF g_scheduler_manager = NULL THEN "create" ELSE "scan"
  <2>1. /\ pc[t] = "singleton" /\ pc' = [pc EXCEPT ![t] = x]
        /\ options' = [options EXCEPT ![t] = IF x = "create" THEN Default ELSE @]
        /\ singleton' = [singleton EXCEPT ![t] = IF x = "scan" THEN g_scheduler_manager ELSE @]
        /\ UNCHANGED <<managerVars, i, numk, chosen, raced>>
    BY <1>0, <1>6 DEF Singleton, Types
  <2>2. x \in {"create", "scan"} /\ (x = "create" <=> g_scheduler_manager = NULL)
    OBVIOUS
  <2> HIDE DEF x
  <2>3. Types'
    BY <1>0, <1>1, <1>4, <2>1, <2>2 DEF Types, Place
  <2>4. /\ pc'[t] = x
        /\ \A u \in Thread : u # t => pc'[u] = pc[u] /\ options'[u] = options[u]
                                      /\ singleton'[u] = singleton[u]
        /\ x = "create" => options'[t] = Default
        /\ x = "scan" => singleton'[t] = g_scheduler_manager
    BY <1>0, <2>1 DEF Types
  <2>5. ManagerInv' /\ RaceInv'
    BY <1>0, <1>1, <1>3, <2>1, <2>2, <2>4 DEF ManagerInv, RaceInv, InCreate
  <2>6. x = "scan" => singleton'[t] \in Managers /\ (Size(t)' = 0 \/ This(t)' \in AllMade)
    <3>1. i'[t] = 1
      BY <1>2, <2>1 DEF Path
    <3>2. x = "scan" => singleton'[t] \in Caller /\ opt[singleton'[t]] # NULL
      BY <1>0, <2>2, <2>4 DEF ManagerInv, Types
    <3> QED BY <1>0, <1>1, <3>1, <3>2, StartsScan
  <2>7. Path(t)'
    BY <1>1, <1>2, <1>3, <2>1, <2>2, <2>4, <2>6 DEF Path
  <2>8. ScanInv'
    BY <1>0, <1>2, <2>1, <2>4, ScanKept DEF Path
  <2> QED BY <1>5, <2>1, <2>2, <2>3, <2>4, <2>5, <2>7, <2>8 DEF Inv, Place
<1>7. CASE CreateSingleton(t)
  <2> DEFINE x == IF g_scheduler_manager = NULL THEN "construct" ELSE Back(t)
  <2>1. /\ pc[t] = "create" /\ pc' = [pc EXCEPT ![t] = x]
        /\ options' = [options EXCEPT ![t] = IF g_scheduler_manager = NULL THEN @ ELSE NULL]
        /\ raced' = (raced \/ \E u \in Thread : u # t /\ InCreate(u))
        /\ UNCHANGED <<managerVars, singleton, i, numk, chosen>>
    BY <1>7 DEF CreateSingleton
  <2>2. /\ x \in {"construct", "return", "idle"}
        /\ x = "construct" <=> g_scheduler_manager = NULL
        /\ x = "return" => arg[t] # NULL
    BY DEF Back
  <2> HIDE DEF x
  <2>3. Types'
    BY <1>0, <1>1, <1>4, <2>1, <2>2 DEF Types, Place
  <2>4. /\ pc'[t] = x
        /\ \A u \in Thread : u # t => pc'[u] = pc[u] /\ options'[u] = options[u]
        /\ g_scheduler_manager = NULL => options'[t] = options[t]
    BY <1>0, <2>1 DEF Types
  <2>5. ManagerInv'
    BY <1>0, <1>1, <2>1, <2>2, <2>4 DEF ManagerInv
  <2>6. RaceInv'
    <3>1. SUFFICES ASSUME ~raced' PROVE RaceInv'
      BY DEF RaceInv
    <3>2. ~raced /\ \A u \in Thread : u # t => ~InCreate(u)
      BY <2>1, <3>1
    <3>3. \A u \in Thread : InCreate(u)' => u = t /\ g_scheduler_manager = NULL
      BY <2>2, <2>4, <3>2 DEF InCreate
    <3>4. g_scheduler_manager = NULL => Managers = {}
      <4>1. ASSUME NEW m \in Managers, g_scheduler_manager = NULL PROVE FALSE
        <5>1. m \in Caller /\ pc[m] = "assign"
          BY <1>0, <4>1 DEF Managers, ManagerInv
        <5> QED BY <2>1, <3>2, <5>1 DEF InCreate
      <4> QED BY <4>1
    <3> QED BY <1>0, <1>3, <3>2, <3>3, <3>4 DEF RaceInv
  <2>7. Path(t)'
    BY <1>1, <1>2, <1>3, <2>1, <2>2, <2>4 DEF Path
  <2>8. ScanInv'
    BY <1>0, <2>1, <2>2, <2>4, ScanKept
  <2> QED BY <1>5, <2>1, <2>2, <2>3, <2>4, <2>5, <2>6, <2>7, <2>8 DEF Inv, Place
<1>8. CASE Assign(t)
  <2>1. /\ pc[t] = "assign" /\ pc' = [pc EXCEPT ![t] = Back(t)] /\ g_scheduler_manager' = t
        /\ options' = [options EXCEPT ![t] = NULL]
        /\ UNCHANGED <<opt, singleton, i, numk, chosen, raced>>
    BY <1>8 DEF Assign
  <2>2. Back(t) \in {"return", "idle"} /\ (Back(t) = "return" => arg[t] # NULL)
    BY DEF Back
  <2>3. Types'
    BY <1>0, <1>1, <1>2, <1>4, <2>1, <2>2 DEF Types, Place
  <2>4. /\ pc'[t] = Back(t)
        /\ \A u \in Thread : u # t => pc'[u] = pc[u] /\ options'[u] = options[u]
    BY <1>0, <2>1 DEF Types
  <2>5. ManagerInv'
    BY <1>0, <1>2, <2>1, <2>2, <2>4 DEF ManagerInv
  <2>6. RaceInv'
    BY <1>0, <1>3, <2>1, <2>2, <2>4 DEF RaceInv, InCreate
  <2>7. Path(t)'
    BY <1>1, <1>2, <1>3, <2>1, <2>2, <2>4 DEF Path
  <2>8. ScanInv'
    BY <1>0, <2>1, <2>2, <2>4, ScanKept
  <2>9. Back(t) \in Place
    BY <2>2 DEF Place
  <2> QED BY <1>2, <1>5, <2>1, <2>3, <2>4, <2>5, <2>6, <2>7, <2>8, <2>9 DEF Inv
<1>9. CASE Return(t)
  <2>1. /\ pc[t] = "return" /\ pc' = [pc EXCEPT ![t] = "scan"]
        /\ singleton' = [singleton EXCEPT ![t] = g_scheduler_manager]
        /\ UNCHANGED <<managerVars, options, i, numk, chosen, raced>>
    BY <1>9 DEF Return
  <2>2. g_scheduler_manager # NULL /\ arg[t] # NULL /\ i[t] = 1
    BY <1>2, <2>1 DEF Path
  <2>3. Types'
    BY <1>0, <1>1, <1>4, <2>1, <2>2 DEF Types, Place
  <2>4. /\ pc'[t] = "scan" /\ singleton'[t] = g_scheduler_manager
        /\ \A u \in Thread : u # t => pc'[u] = pc[u] /\ singleton'[u] = singleton[u]
    BY <1>0, <2>1 DEF Types
  <2>5. ManagerInv' /\ RaceInv'
    BY <1>0, <1>3, <2>1, <2>4 DEF ManagerInv, RaceInv, InCreate
  <2>6. singleton'[t] \in Managers /\ (Size(t)' = 0 \/ This(t)' \in AllMade)
    BY <1>0, <1>1, <1>2, <2>1, <2>2, <2>4, StartsScan DEF ManagerInv, Types
  <2>7. Path(t)'
    BY <1>1, <1>2, <1>3, <2>1, <2>2, <2>4, <2>6 DEF Path
  <2>8. ScanInv'
    <3>1. numk'[t] = NULL
      BY <1>2, <2>1 DEF Path
    <3> QED BY <1>0, <2>1, <2>2, <2>4, <3>1, ScanKept
  <2> QED BY <1>5, <2>1, <2>3, <2>4, <2>5, <2>7, <2>8 DEF Inv, Place
<1>10. CASE Look(t)
  <2>1. PICK k \in Counted : numk' = [numk EXCEPT ![t] = <<k, CoroNum(This(t), k)>>]
    BY <1>10 DEF Look
  <2>2. /\ pc[t] = "scan" /\ Size(t) > 1
        /\ UNCHANGED <<managerVars, options, singleton, i, chosen, pc, raced>>
    BY <1>10 DEF Look
  <2>3. CoroNum(This(t), k) \in Nat /\ CoroNum(This(t), k) = CoroNum(This(t), k)'
    <3> DEFINE S(s) == {f \in Func : sched[f] = s /\ life[f] = k}
    <3>1. This(t)' = This(t) /\ sched' = sched /\ life' = life
      BY <1>1, <2>2 DEF This
    <3>2. S(This(t)) = S(This(t))'
      BY <3>1
    <3>3. CoroNum(This(t), k) = Cardinality(S(This(t)))
          /\ CoroNum(This(t), k)' = Cardinality(S(This(t)))'
      BY DEF CoroNum
    <3> QED BY <3>2, <3>3, Sizes
  <2>4. Types'
    <3>1. numk' \in [Thread -> (Counted \X Nat) \cup {NULL}]
      BY <1>0, <2>1, <2>3 DEF Types
    <3> QED BY <1>0, <1>1, <1>4, <2>2, <3>1 DEF Types
  <2>5. numk'[t] = <<k, CoroNum(This(t), k)'>> /\ \A u \in Thread : u # t => numk'[u] = numk[u]
    BY <1>0, <2>1, <2>3 DEF Types
  <2>6. \A u \in Thread : This(u)' = This(u) /\ Size(u)' = Size(u)
    BY <1>1, <2>2 DEF This, Size
  <2>7. ManagerInv' /\ RaceInv'
    BY <1>0, <1>1, <1>3, <2>2 DEF ManagerInv, RaceInv, InCreate
  <2>8. Path(t)'
    BY <1>1, <1>2, <1>3, <2>2, <2>6 DEF Path
  <2>9. \A u \in Thread : u # t => Path(u)'
    BY <1>0, <1>1, <1>3, <2>2, <2>5, <2>6 DEF PathInv, Path
  <2>10. HomeInv' /\ CallInv' /\ StaysHome' /\ SlotInv' /\ EndInv' /\ UndefinedHasCause'
    <3>1. pc' = [pc EXCEPT ![t] = "scan"]
      BY <1>0, <2>2 DEF Types
    <3> QED BY <1>1, <1>2, <2>2, <3>1, CallerStep
  <2>11. ScanInv'
    <3>1. \A u \in Thread : pc'[u] = "scan" =>
            IF pc[u] # "scan" THEN i'[u] = 1 /\ numk'[u] = NULL
            ELSE /\ singleton'[u] = singleton[u]
                 /\ \/ i'[u] = i[u] /\ numk'[u] = numk[u]
                    \/ i'[u] = i[u] /\ \E j \in Counted : numk'[u] = <<j, CoroNum(This(u), j)'>>
      BY <2>2, <2>5
    <3> QED BY <1>0, <3>1, ScanKept
  <2> QED BY <2>4, <2>7, <2>8, <2>9, <2>10, <2>11 DEF Inv, PathInv
<1>11. CASE Scan(t)
  <2>0. /\ pc[t] = "scan" /\ numk' = [numk EXCEPT ![t] = NULL]
        /\ UNCHANGED <<managerVars, options, raced>>
    BY <1>11 DEF Scan
  <2>1. PICK x \in {"scan", "start"}, m \in Caller \cup {NULL}, k \in Nat,
             c \in Scheduler \cup {NULL} :
          /\ pc' = [pc EXCEPT ![t] = x] /\ singleton' = [singleton EXCEPT ![t] = m]
          /\ i' = [i EXCEPT ![t] = k] /\ chosen' = [chosen EXCEPT ![t] = c]
          /\ x = "start" => k = 1 /\ c \in AllMade
          /\ x = "scan" => /\ m = singleton[t] /\ k = i[t] + 1 /\ <<m, k>> \in AllMade
                           /\ This(t) \notin idle[t]
    BY <1>0, <1>2, <1>11, ScanTurn
  <2>2. Types'
    BY <1>0, <1>1, <1>4, <2>0, <2>1 DEF Types, Place
  <2>3. /\ pc'[t] = x /\ singleton'[t] = m /\ i'[t] = k /\ chosen'[t] = c /\ numk'[t] = NULL
        /\ \A u \in Thread : u # t => /\ pc'[u] = pc[u] /\ singleton'[u] = singleton[u]
                                      /\ i'[u] = i[u] /\ chosen'[u] = chosen[u]
                                      /\ numk'[u] = numk[u]
    BY <1>0, <2>0, <2>1 DEF Types
  <2>4. ManagerInv' /\ RaceInv'
    BY <1>0, <1>3, <2>0, <2>1, <2>3 DEF ManagerInv, RaceInv, InCreate
  <2>5. Path(t)'
    <3>1. x = "scan" => singleton'[t] \in Managers /\ This(t)' \in AllMade
      BY <1>2, <2>0, <2>1, <2>3 DEF Path, This
    <3> QED BY <1>1, <1>2, <1>3, <2>0, <2>1, <2>3, <3>1 DEF Path
  <2>6. ScanInv'
    BY <1>0, <2>0, <2>1, <2>3, ScanKept
  <2> QED BY <1>5, <2>0, <2>1, <2>2, <2>3, <2>4, <2>5, <2>6 DEF Inv, Place
<1> QED BY <1>6, <1>7, <1>8, <1>9, <1>10, <1>11

\* The constructor makes the schedulers of its manager and no others.
LEMMA ConstructStep ==
  ASSUME Inv, ~corrupted, History, NEW t \in Thread, Construct(t)
  PROVE  Inv'
<1> USE Names DEF managerVars, localVars, callVars, chooseVars
<1>0. Types /\ ManagerInv /\ RaceInv /\ HomeInv /\ PathInv /\ CallInv /\ ScanInv /\ StaysHome
      /\ SlotInv /\ EndInv
  BY DEF Inv
<1> DEFINE o == options[t]
           new == {t} \X (1 .. o.sheduler_num)
<1>1. /\ pc[t] = "construct" /\ opt' = [opt EXCEPT ![t] = o]
      /\ env' \in {env, [env EXCEPT ![t] = o.share_stack_count]}
      /\ \/ UNCHANGED g_current_scheduler
         \/ /\ new # {}
            /\ g_current_scheduler' = [g_current_scheduler EXCEPT ![t] = <<t, o.sheduler_num>>]
      /\ \/ /\ o.create_thread
            /\ pc' = [u \in Thread |->
                        IF u = t THEN "assign" ELSE IF u \in new THEN "run" ELSE pc[u]]
         \/ ~o.create_thread /\ pc' = [pc EXCEPT ![t] = "assign"]
      /\ UNCHANGED <<g_scheduler_manager, callVars, chooseVars, corrupted, raced>>
  BY DEF Construct, Env!SetValue, Current!SetValue
<1>2. t \in Caller /\ Path(t) /\ o \in CoroOptions /\ o # NULL /\ opt[t] = NULL
  <2>1. t \in Caller /\ Path(t)
    BY <1>0, <1>1, CallersOnly DEF PathInv
  <2> QED BY <1>0, <1>1, <2>1 DEF Path, ManagerInv
<1>3. /\ o.sheduler_num \in 0 .. MaxNum /\ o.share_stack_count \in Nat
      /\ new # {} => o.sheduler_num \in 1 .. o.sheduler_num
      /\ \A k \in 1 .. o.sheduler_num : k \in 1 .. MaxNum
  BY <1>2
<1>4. new \subseteq Scheduler /\ \A s \in new : s[1] = t
  BY <1>2, <1>3
<1>5. opt'[t] = o /\ \A m \in Caller : m # t => opt'[m] = opt[m]
  BY <1>0, <1>2, <1>1 DEF Types
<1> HIDE DEF o
<1>6. /\ pc'[t] = "assign"
      /\ \A u \in Thread : u # t => pc'[u] = IF o.create_thread /\ u \in new THEN "run" ELSE pc[u]
  BY <1>0, <1>1 DEF Types
<1>7. Managers' = Managers \cup {t}
  BY <1>2, <1>5 DEF Managers
<1>8. \A s \in Scheduler : s[1] # t => (s \in AllMade' <=> s \in AllMade) /\ Host(s)' = Host(s)
  BY <1>5 DEF AllMade, Made, Host
<1>9. \A s \in Scheduler : s[1] = t =>
        /\ s \notin AllMade
        /\ s \in AllMade' <=> s \in new
        /\ Host(s)' = IF o.create_thread THEN s ELSE t
  BY <1>2, <1>5 DEF AllMade, Made, Host
<1>10. /\ AllMade \subseteq AllMade'
       /\ new # {} => /\ <<t, o.sheduler_num>> \in AllMade'
                     /\ <<t, o.sheduler_num>> \in Scheduler
  <2>1. AllMade \subseteq AllMade'
    BY <1>8, <1>9 DEF AllMade
  <2>2. new # {} => <<t, o.sheduler_num>> \in new
    BY <1>3
  <2> QED BY <1>4, <1>9, <2>1, <2>2
<1> HIDE DEF new
<1>11. Types'
  <2>1. /\ opt' \in [Caller -> CoroOptions \cup {NULL}]
        /\ env' \in [Thread -> Nat \cup {NoSlot}]
    BY <1>0, <1>1, <1>2, <1>3 DEF Types
  <2>2. pc' \in [Thread -> Place]
    BY <1>0, <1>1 DEF Types, Place
  <2>3. g_current_scheduler' \in [Thread -> Scheduler \cup {NULL, NoSlot}]
    BY <1>0, <1>1, <1>2, <1>10 DEF Types
  <2>4. HistoryTypes'
    BY HistoryType
  <2> QED BY <1>0, <1>1, <2>1, <2>2, <2>3, <2>4 DEF Types
<1>12. ManagerInv'
  <2>1. \A u \in Caller : u # t => pc'[u] = pc[u]
    BY <1>4, <1>6
  <2>2. UNCHANGED g_scheduler_manager
    BY <1>1
  <2> QED BY <1>0, <1>2, <1>5, <1>6, <2>1, <2>2 DEF ManagerInv, Types
<1>13. RaceInv'
  <2>1. \A u \in Thread : InCreate(u)' => InCreate(u)
    BY <1>1, <1>6 DEF InCreate
  <2>2. InCreate(t)
    BY <1>1 DEF InCreate
  <2> QED BY <1>0, <1>1, <1>7, <2>1, <2>2 DEF RaceInv
<1>14. HomeInv'
  <2> SUFFICES ASSUME NEW s \in Scheduler
               PROVE  /\ pc'[s] \in {"unborn", "run", "idle", "start", "exited"}
                      /\ pc'[s] = "unborn" <=> ~(s \in AllMade' /\ Host(s)' = s)
                      /\ pc'[s] \in {"idle", "start"} => g_current_scheduler'[s] = s
                      /\ pc'[s] = "start" => chosen'[s] = s
    BY DEF HomeInv
  <2>1. s # t /\ chosen'[s] = chosen[s] /\ g_current_scheduler'[s] = g_current_scheduler[s]
    BY <1>0, <1>1, <1>2 DEF Types
  <2>2. CASE s[1] # t
    BY <1>0, <1>4, <1>6, <1>8, <2>1, <2>2 DEF HomeInv
  <2>3. CASE s[1] = t
    <3>1. pc[s] = "unborn" /\ s \notin AllMade
      BY <1>0, <1>9, <2>3 DEF HomeInv
    <3> QED BY <1>6, <1>9, <2>1, <2>3, <3>1
  <2> QED BY <2>2, <2>3
<1>15. PathInv'
  <2> SUFFICES ASSUME NEW u \in Thread PROVE Path(u)'
    BY DEF PathInv
  <2>1. Path(u)
    BY <1>0 DEF PathInv
  <2>2. UNCHANGED <<arg, by, sched, i, numk, options, singleton, chosen, g_scheduler_manager>>
    BY <1>1
  <2>3. pc'[u] \in {"assign", "run"} => i[u] = 1
    <3>1. u = t => pc[u] # "scan"
      BY <1>1
    <3>2. u \in Scheduler => pc[u] # "scan"
      BY <1>0 DEF HomeInv
    <3>3. u \in Caller /\ u # t => pc'[u] = pc[u]
      BY <1>4, <1>6
    <3> QED BY <2>1, <3>1, <3>2, <3>3 DEF Path
  <2>4. g_current_scheduler'[u] \in Scheduler => g_current_scheduler'[u] \in AllMade'
    <3>1. g_current_scheduler'[u] = g_current_scheduler[u]
          \/ (new # {} /\ g_current_scheduler'[u] = <<t, o.sheduler_num>>)
      BY <1>0, <1>1 DEF Types
    <3> QED BY <1>10, <2>1, <3>1 DEF Path
  <2>5. pc'[u] = pc[u] \/ pc'[u] \in {"assign", "run"}
    BY <1>6
  <2>6. pc[u] = "scan" =>
          /\ singleton[u] \in Managers /\ singleton[u] \in Managers'
          /\ This(u)' = This(u) /\ Size(u)' = Size(u)
    <3>1. pc[u] = "scan" => singleton[u] \in Managers /\ singleton[u] # t
      BY <1>2, <2>1 DEF Path, Managers
    <3> QED BY <1>5, <1>7, <2>2, <3>1 DEF This, Size, Managers
  <2>7. pc'[u] = "scan" => pc[u] = "scan"
    BY <2>5
  <2>8. numk[u] # NULL => pc'[u] = "scan"
    <3>1. numk[u] # NULL => pc[u] = "scan"
      BY <2>1 DEF Path
    <3>2. pc[u] = "scan" => u # t /\ u \notin Scheduler
      BY <1>0, <1>1 DEF HomeInv
    <3>3. pc[u] = "scan" => pc'[u] = pc[u]
      BY <1>4, <1>6, <3>2
    <3> QED BY <3>1, <3>3
  <2> QED BY <1>10, <2>1, <2>2, <2>3, <2>4, <2>5, <2>6, <2>7, <2>8 DEF Path
<1>16. CallInv' /\ EndInv' /\ UndefinedHasCause'
  <2>1. \A s \in Scheduler : Gone(s)' => Gone(s)
    BY <1>6 DEF Gone
  <2> QED BY <1>0, <1>1, <2>1 DEF CallInv, EndInv, UndefinedHasCause
<1>17. StaysHome'
  BY <1>0, <1>1, <1>2 DEF StaysHome, Types
<1>18. SlotInv'
  BY <1>0, <1>1, <1>2, <1>5 DEF SlotInv, Types
<1>19. ScanInv'
  BY <1>0, <1>1, <1>6, ScanKept
<1> QED BY <1>11, <1>12, <1>13, <1>14, <1>15, <1>16, <1>17, <1>18, <1>19 DEF Inv

\* Only the loop of GetScheduler itself ends the search of a thread.
LEMMA OnlyScan ==
  ASSUME Types, HomeInv, Next, NEW t \in Thread, pc[t] = "scan", pc'[t] = "start"
  PROVE  Scan(t)
<1> USE DEF Goto
<1>1. ASSUME NEW u \in Thread,
             \/ \E o \in Options : CallCreate(u, o)
             \/ \E f \in Func : CallStartCoro(u, f)
             \/ Singleton(u) \/ CreateSingleton(u) \/ Assign(u) \/ Return(u)
             \/ StartCoro(u) \/ Run(u) \/ ThreadExit(u) \/ RunReturns(u)
      PROVE  FALSE
  <2>1. PICK x \in Place : pc' = [pc EXCEPT ![u] = x] /\ (u = t => x # "start")
    BY <1>1 DEF CallCreate, CallStartCoro, Singleton, CreateSingleton, Assign, Return,
                StartCoro, Run, ThreadExit, RunReturns, Exits, Back, Place
  <2> QED BY <2>1 DEF Types
<1>2. ASSUME NEW u \in Thread, Scan(u), u # t PROVE FALSE
  <2>1. pc'[t] = pc[t]
    BY <1>2 DEF Scan, Take, GoOn, Types
  <2> QED BY <2>1
<1>3. ASSUME NEW u \in Thread, Construct(u) PROVE FALSE
  <2>1. pc'[t] \in {"assign", "run", pc[t]}
    BY <1>3 DEF Construct, Types
  <2> QED BY <2>1
<1>4. ASSUME NEW f \in Func, Routine(f) \/ CoroDone(f) \/ DirectReturn(f) PROVE FALSE
  BY <1>4 DEF Routine, CoroDone, DirectReturn, Move
<1>5. ASSUME NEW u \in Thread, Look(u) \/ ScanUndefined(u) \/ StartUndefined(u) PROVE FALSE
  BY <1>5 DEF Look, ScanUndefined, StartUndefined, chooseVars
<1> QED BY <1>1, <1>2, <1>3, <1>4, <1>5 DEF Next, GetScheduler

\* A call that is made on a scheduler's thread starts there and at once.
LEMMA StartStep ==
  ASSUME Inv, ~corrupted, History, NEW t \in Thread, StartCoro(t)
  PROVE  Inv'
<1> USE Names DEF managerVars, localVars, callVars, Goto
<1>0. Types /\ ManagerInv /\ RaceInv /\ HomeInv /\ PathInv /\ CallInv /\ ScanInv /\ StaysHome
      /\ SlotInv /\ EndInv
  BY DEF Inv
<1> DEFINE f == arg[t]
           s == chosen[t]
           own == Current!Value(t)
<1>1. /\ pc[t] = "start" /\ pc' = [pc EXCEPT ![t] = "idle"]
      /\ g_current_scheduler' = [g_current_scheduler EXCEPT ![t] = own]
      /\ sched' = [sched EXCEPT ![f] = s]
      /\ \/ own = NULL /\ \E posted \in {"queued", "timed"} : life' = [life EXCEPT ![f] = posted]
         \/ /\ own # NULL
            /\ life' = [g \in Func |->
                          IF g = f THEN "running"
                          ELSE IF sched[g] = s /\ life[g] = "retired" THEN "done"
                          ELSE life[g]]
      /\ ~Gone(s)
      /\ arg' = [arg EXCEPT ![t] = NULL]
      /\ chosen' = [chosen EXCEPT ![t] = NULL]
      /\ UNCHANGED <<managerVars, env, by, options, singleton, i, numk, corrupted, raced>>
  BY DEF StartCoro, Current!GetValue
<1>2. Path(t) /\ f \in Func /\ by[f] = t /\ s \in AllMade /\ s \in Scheduler /\ i[t] = 1
      /\ numk[t] = NULL /\ sched[f] = NULL
  <2>1. Path(t)
    BY <1>0 DEF PathInv
  <2> QED BY <1>0, <1>1, <2>1 DEF Path, Types, AllMade
<1>3. own = (IF g_current_scheduler[t] = NoSlot THEN NULL ELSE g_current_scheduler[t])
      /\ own \in Scheduler \cup {NULL}
  BY <1>0 DEF Current!Value, Types
<1> HIDE DEF f, s, own
<1>4. t \in Scheduler => g_current_scheduler[t] = t /\ own = t /\ s = t
  BY <1>0, <1>1, <1>3 DEF HomeInv, s
<1>5. /\ pc'[t] = "idle" /\ arg'[t] = NULL /\ g_current_scheduler'[t] = own
      /\ \A u \in Thread : u # t =>
           /\ pc'[u] = pc[u] /\ arg'[u] = arg[u] /\ chosen'[u] = chosen[u]
           /\ g_current_scheduler'[u] = g_current_scheduler[u]
  BY <1>0, <1>1 DEF Types
<1>6. /\ sched'[f] = s
      /\ IF own = NULL THEN life'[f] \in {"queued", "timed"} ELSE life'[f] = "running"
      /\ \A g \in Func : g # f =>
           /\ sched'[g] = sched[g]
           /\ \/ life'[g] = life[g]
              \/ life[g] = "retired" /\ life'[g] = "done"
  BY <1>0, <1>1, <1>2 DEF Types
<1>7. Managers' = Managers /\ AllMade' = AllMade /\ \A r \in Scheduler : Host(r)' = Host(r)
  BY <1>1 DEF Managers, AllMade, Made, Host
<1>8. Types'
  <2>1. life' \in [Func -> Life]
    BY <1>0, <1>1, <1>2 DEF Types, Life
  <2>2. /\ sched' \in [Func -> Scheduler \cup {NULL}]
        /\ g_current_scheduler' \in [Thread -> Scheduler \cup {NULL, NoSlot}]
        /\ pc' \in [Thread -> Place]
    BY <1>0, <1>1, <1>2, <1>3 DEF Types, Place
  <2>3. HistoryTypes'
    BY HistoryType
  <2> QED BY <1>0, <1>1, <2>1, <2>2, <2>3 DEF Types
<1>9. ManagerInv' /\ RaceInv'
  BY <1>0, <1>1, <1>5, <1>7 DEF ManagerInv, RaceInv, InCreate
<1>10. HomeInv'
  <2> SUFFICES ASSUME NEW r \in Scheduler
               PROVE  /\ pc'[r] \in {"unborn", "run", "idle", "start", "exited"}
                      /\ pc'[r] = "unborn" <=> ~(r \in AllMade' /\ Host(r)' = r)
                      /\ pc'[r] \in {"idle", "start"} => g_current_scheduler'[r] = r
                      /\ pc'[r] = "start" => chosen'[r] = r
    BY DEF HomeInv
  <2>1. CASE r # t
    BY <1>0, <1>5, <1>7, <2>1 DEF HomeInv
  <2>2. CASE r = t
    BY <1>0, <1>1, <1>4, <1>5, <1>7, <2>2 DEF HomeInv
  <2> QED BY <2>1, <2>2
<1>11. PathInv'
  <2> SUFFICES ASSUME NEW u \in Thread PROVE Path(u)'
    BY DEF PathInv
  <2>1. Path(u) /\ UNCHANGED <<g_scheduler_manager, by, options, singleton, i, numk>>
    BY <1>0, <1>1 DEF PathInv
  <2>2. This(u)' = This(u) /\ Size(u)' = Size(u)
    BY <1>1 DEF This, Size
  <2>3. CASE u # t
    <3>1. arg[u] # NULL => arg[u] \in Func /\ arg[u] # f /\ sched'[arg[u]] = NULL
      BY <1>0, <1>2, <1>6, <2>1, <2>3 DEF Path, Types
    <3> QED BY <1>5, <1>7, <2>1, <2>2, <2>3, <3>1 DEF Path
  <2>4. CASE u = t
    BY <1>2, <1>3, <1>5, <1>7, <2>1, <2>4 DEF Path
  <2> QED BY <2>3, <2>4
<1>12. CallInv'
  BY <1>0, <1>1, <1>2, <1>6 DEF CallInv
<1>13. StaysHome'
  <2>1. \A g \in Func : by[g] \in Scheduler /\ sched'[g] # NULL =>
          sched'[g] = by[g] /\ life'[g] \notin {"queued", "timed"}
    BY <1>0, <1>2, <1>4, <1>6 DEF StaysHome
  <2> QED BY <1>0, <1>1, <2>1 DEF StaysHome
<1>14. SlotInv'
  BY <1>0, <1>1, <1>2, <1>5 DEF SlotInv
<1>15. EndInv' /\ UndefinedHasCause'
  <2>1. \A g \in Func : life'[g] \in {"timed", "direct"} => by[g] \in Caller
    BY <1>0, <1>2, <1>4, <1>6 DEF EndInv
  <2>2. \A r \in Scheduler : Gone(r)' => Gone(r)
    BY <1>5 DEF Gone
  <2>3. \A g \in Func, r \in Scheduler :
          sched[g] = r /\ life[g] = "direct" => sched'[g] = r /\ life'[g] = "direct"
    BY <1>2, <1>6
  <2> QED BY <1>0, <1>1, <2>1, <2>2, <2>3 DEF EndInv, UndefinedHasCause
<1>16. ScanInv'
  BY <1>0, <1>1, <1>5, ScanKept
<1> QED BY <1>8, <1>9, <1>10, <1>11, <1>12, <1>13, <1>14, <1>15, <1>16 DEF Inv

\* A scheduler's thread begins to run it.
LEMMA RunStep ==
  ASSUME Inv, ~corrupted, History, NEW s \in Thread, Run(s)
  PROVE  Inv'
<1> USE Names DEF managerVars, callVars, chooseVars, Goto
<1>0. Types /\ ManagerInv /\ RaceInv /\ HomeInv /\ PathInv /\ CallInv /\ ScanInv /\ StaysHome
      /\ SlotInv /\ EndInv
  BY DEF Inv
<1>1. /\ pc[s] = "run" /\ pc' = [pc EXCEPT ![s] = "idle"]
      /\ g_current_scheduler' = [g_current_scheduler EXCEPT ![s] = s]
      /\ env' = [env EXCEPT ![s] = IF env[s] = NoSlot THEN 0 ELSE env[s]]
      /\ UNCHANGED <<managerVars, callVars, chooseVars, corrupted, raced>>
  BY DEF Run, Current!SetValue, Env!GetValue, Env!Value
<1>2. s \in Scheduler /\ s \in AllMade /\ Host(s) = s
  <2>1. s \in Scheduler
    BY <1>0, <1>1 DEF ManagerInv
  <2> QED BY <1>0, <1>1, <2>1 DEF HomeInv
<1>3. /\ pc'[s] = "idle" /\ g_current_scheduler'[s] = s
      /\ \A u \in Thread : u # s => /\ pc'[u] = pc[u] /\ env'[u] = env[u]
                                    /\ g_current_scheduler'[u] = g_current_scheduler[u]
  BY <1>0, <1>1 DEF Types
<1>4. Managers' = Managers /\ AllMade' = AllMade /\ \A r \in Scheduler : Host(r)' = Host(r)
      /\ \A u \in Thread : This(u)' = This(u) /\ Size(u)' = Size(u)
  BY <1>1 DEF Managers, AllMade, Made, Host, This, Size
<1>5. Types'
  <2>1. /\ g_current_scheduler' \in [Thread -> Scheduler \cup {NULL, NoSlot}]
        /\ pc' \in [Thread -> Place]
    BY <1>0, <1>1, <1>2 DEF Types, Place
  <2>2. env' \in [Thread -> Nat \cup {NoSlot}]
    BY <1>0, <1>1 DEF Types
  <2>3. HistoryTypes'
    BY HistoryType
  <2> QED BY <1>0, <1>1, <2>1, <2>2, <2>3 DEF Types
<1>6. ManagerInv' /\ RaceInv'
  BY <1>0, <1>1, <1>2, <1>3, <1>4 DEF ManagerInv, RaceInv, InCreate
<1>7. HomeInv'
  <2> SUFFICES ASSUME NEW r \in Scheduler
               PROVE  /\ pc'[r] \in {"unborn", "run", "idle", "start", "exited"}
                      /\ pc'[r] = "unborn" <=> ~(r \in AllMade' /\ Host(r)' = r)
                      /\ pc'[r] \in {"idle", "start"} => g_current_scheduler'[r] = r
                      /\ pc'[r] = "start" => chosen'[r] = r
    BY DEF HomeInv
  <2>1. CASE r # s
    BY <1>0, <1>1, <1>3, <1>4, <2>1 DEF HomeInv
  <2>2. CASE r = s
    BY <1>2, <1>3, <1>4, <2>2
  <2> QED BY <2>1, <2>2
<1>8. PathInv'
  <2> SUFFICES ASSUME NEW u \in Thread PROVE Path(u)'
    BY DEF PathInv
  <2>1. Path(u) /\ UNCHANGED <<g_scheduler_manager, by, sched, arg, options, singleton, i,
                             numk, chosen>>
    BY <1>0, <1>1 DEF PathInv
  <2>2. CASE u # s
    BY <1>3, <1>4, <2>1, <2>2 DEF Path
  <2>3. CASE u = s
    BY <1>1, <1>2, <1>3, <1>4, <2>1, <2>3 DEF Path
  <2> QED BY <2>2, <2>3
<1>9. StaysHome'
  <2>1. \A r \in Scheduler : env'[r] \in {NoSlot, 0}
    BY <1>0, <1>1 DEF StaysHome, Types
  <2> QED BY <1>0, <1>1, <2>1 DEF StaysHome
<1>10. CallInv' /\ SlotInv' /\ EndInv' /\ UndefinedHasCause'
  BY <1>0, <1>1, <1>2, <1>3 DEF CallInv, SlotInv, EndInv, Gone, UndefinedHasCause
<1>11. ScanInv'
  BY <1>0, <1>1, <1>3, ScanKept
<1> QED BY <1>5, <1>6, <1>7, <1>8, <1>9, <1>10, <1>11 DEF Inv

\* The slots of a thread that exits are gone.
LEMMA ExitStep ==
  ASSUME Inv, ~corrupted, History, NEW t \in Thread,
         ThreadExit(t) \/ RunReturns(t)
  PROVE  Inv'
<1> USE Names DEF managerVars, callVars, chooseVars, Goto
<1>0. Types /\ ManagerInv /\ RaceInv /\ HomeInv /\ PathInv /\ CallInv /\ ScanInv /\ StaysHome
      /\ SlotInv /\ EndInv
  BY DEF Inv
<1>1. /\ t \in Caller \/ \E f \in Func : t \in Scheduler /\ sched[f] = t /\ life[f] = "direct"
      /\ pc[t] = "idle" /\ pc' = [pc EXCEPT ![t] = "exited"]
      /\ g_current_scheduler' = [g_current_scheduler EXCEPT ![t] = NoSlot]
      /\ env' = [env EXCEPT ![t] = NoSlot]
      /\ corrupted' => g_current_scheduler[t] # NoSlot
      /\ UNCHANGED <<managerVars, callVars, chooseVars, raced>>
  BY DEF ThreadExit, RunReturns, Exits, Current!Exit, Env!Exit, Current!DestroyUndefined
<1>2. /\ pc'[t] = "exited" /\ g_current_scheduler'[t] = NoSlot
      /\ \A u \in Thread : u # t => /\ pc'[u] = pc[u] /\ env'[u] = env[u]
                                    /\ g_current_scheduler'[u] = g_current_scheduler[u]
  BY <1>0, <1>1 DEF Types
<1>3. Managers' = Managers /\ AllMade' = AllMade /\ \A r \in Scheduler : Host(r)' = Host(r)
      /\ \A u \in Thread : This(u)' = This(u) /\ Size(u)' = Size(u)
  BY <1>1 DEF Managers, AllMade, Made, Host, This, Size
<1>4. Types'
  <2>1. /\ g_current_scheduler' \in [Thread -> Scheduler \cup {NULL, NoSlot}]
        /\ pc' \in [Thread -> Place] /\ env' \in [Thread -> Nat \cup {NoSlot}]
    BY <1>0, <1>1 DEF Types, Place
  <2>2. HistoryTypes'
    BY HistoryType
  <2> QED BY <1>0, <1>1, <2>1, <2>2 DEF Types
<1>5. ManagerInv' /\ RaceInv'
  BY <1>0, <1>1, <1>2, <1>3 DEF ManagerInv, RaceInv, InCreate
<1>6. HomeInv'
  BY <1>0, <1>1, <1>2, <1>3 DEF HomeInv
<1>7. PathInv'
  <2> SUFFICES ASSUME NEW u \in Thread PROVE Path(u)'
    BY DEF PathInv
  <2>1. Path(u) /\ UNCHANGED <<g_scheduler_manager, by, sched, arg, options, singleton, i,
                             numk, chosen>>
    BY <1>0, <1>1 DEF PathInv
  <2>2. CASE u # t
    BY <1>2, <1>3, <2>1, <2>2 DEF Path
  <2>3. CASE u = t
    BY <1>1, <1>2, <1>3, <2>1, <2>3 DEF Path
  <2> QED BY <2>2, <2>3
<1>8. StaysHome'
  <2>1. \A r \in Scheduler : env'[r] \in {NoSlot, 0}
    BY <1>0, <1>1, <1>2 DEF StaysHome
  <2> QED BY <1>0, <1>1, <2>1 DEF StaysHome
<1>9. CallInv' /\ SlotInv'
  BY <1>0, <1>1, <1>2 DEF CallInv, SlotInv
<1>10. EndInv' /\ UndefinedHasCause'
  <2>1. \A r \in Scheduler : Gone(r)' => Gone(r) \/ r = t
    BY <1>2 DEF Gone
  <2>2. EndInv'
    BY <1>0, <1>1, <2>1 DEF EndInv
  <2>3. CASE t \in Caller
    BY <1>0, <1>1, <1>2, <2>2, <2>3 DEF SlotInv, UndefinedHasCause
  <2>4. CASE \E f \in Func : t \in Scheduler /\ sched[f] = t /\ life[f] = "direct"
    BY <1>0, <1>1, <1>2, <2>2, <2>4 DEF EndInv, Gone, UndefinedHasCause
  <2> QED BY <1>1, <2>2, <2>3, <2>4
<1>11. ScanInv'
  BY <1>0, <1>1, <1>2, ScanKept
<1> QED BY <1>4, <1>5, <1>6, <1>7, <1>8, <1>9, <1>10, <1>11 DEF Inv

\* What happens in a scheduler that is not there has one of the causes.
LEMMA UndefinedStep ==
  ASSUME Inv, ~corrupted, History, NEW t \in Thread, ScanUndefined(t) \/ StartUndefined(t)
  PROVE  Inv'
<1> USE Names DEF managerVars, localVars, callVars, chooseVars
<1>0. Types /\ ManagerInv /\ RaceInv /\ HomeInv /\ PathInv /\ CallInv /\ ScanInv /\ StaysHome
      /\ SlotInv /\ EndInv
  BY DEF Inv
<1>1. UNCHANGED <<managerVars, localVars, callVars, chooseVars, pc, raced>>
  BY DEF ScanUndefined, StartUndefined
<1>2. /\ Managers' = Managers /\ AllMade' = AllMade /\ \A r \in Scheduler : Host(r)' = Host(r)
      /\ \A u \in Thread : This(u)' = This(u) /\ Size(u)' = Size(u)
  BY <1>1 DEF Managers, AllMade, Made, Host, This, Size
<1>3. Types'
  BY <1>0, <1>1, HistoryType DEF Types
<1>4. ManagerInv' /\ RaceInv' /\ HomeInv'
  BY <1>0, <1>1, <1>2 DEF ManagerInv, RaceInv, InCreate, HomeInv
<1>5. PathInv'
  BY <1>0, <1>1, <1>2 DEF PathInv, Path
<1>6. CallInv' /\ StaysHome' /\ SlotInv' /\ EndInv'
  BY <1>0, <1>1 DEF CallInv, StaysHome, SlotInv, EndInv, Gone
<1>7. UndefinedHasCause'
  <2>1. (\E m \in Managers : opt[m].sheduler_num = 0) \/ \E s \in Scheduler : Gone(s)
    <3>1. CASE ScanUndefined(t)
      <4>1. singleton[t] \in Managers /\ (Size(t) = 0 \/ Gone(This(t)))
        BY <1>0, <3>1 DEF ScanUndefined, PathInv, Path
      <4> QED BY <4>1 DEF Size, Gone
    <3>2. CASE StartUndefined(t)
      BY <3>2 DEF StartUndefined, Gone
    <3> QED BY <3>1, <3>2
  <2> QED BY <1>0, <1>1, <1>2, <2>1 DEF EndInv, Gone, UndefinedHasCause
<1>8. ScanInv'
  BY <1>0, <1>1, ScanKept
<1> QED BY <1>3, <1>4, <1>5, <1>6, <1>7, <1>8 DEF Inv

\* A call moves on in its scheduler.
LEMMA MoveStep ==
  ASSUME Inv, ~corrupted, History, NEW f \in Func,
         Routine(f) \/ CoroDone(f) \/ DirectReturn(f)
  PROVE  Inv'
<1> USE Names DEF managerVars, localVars, chooseVars
<1>0. Types /\ ManagerInv /\ RaceInv /\ HomeInv /\ PathInv /\ CallInv /\ ScanInv /\ StaysHome
      /\ SlotInv /\ EndInv
  BY DEF Inv
<1>1. PICK to \in {"running", "direct", "retired", "done"} :
        /\ life' = [life EXCEPT ![f] = to]
        /\ to = "direct" => life[f] = "timed"
        /\ sched[f] \in Scheduler /\ pc[Host(sched[f])] = "idle"
        /\ UNCHANGED <<managerVars, localVars, sched, by, chooseVars, pc, corrupted, raced>>
  BY DEF Routine, CoroDone, DirectReturn, Move
<1>2. /\ Managers' = Managers /\ AllMade' = AllMade /\ \A r \in Scheduler : Host(r)' = Host(r)
      /\ \A u \in Thread : This(u)' = This(u) /\ Size(u)' = Size(u)
  BY <1>1 DEF Managers, AllMade, Made, Host, This, Size
<1>3. Types'
  <2>1. life' \in [Func -> Life]
    BY <1>0, <1>1 DEF Types, Life
  <2> QED BY <1>0, <1>1, <2>1, HistoryType DEF Types
<1>4. ManagerInv' /\ RaceInv' /\ HomeInv'
  BY <1>0, <1>1, <1>2 DEF ManagerInv, RaceInv, InCreate, HomeInv
<1>5. PathInv'
  BY <1>0, <1>1, <1>2 DEF PathInv, Path
<1>6. life'[f] = to /\ \A g \in Func : g # f => life'[g] = life[g]
  BY <1>0, <1>1 DEF Types
<1>7. StaysHome'
  BY <1>0, <1>1, <1>6 DEF StaysHome
<1>8. EndInv'
  <2>1. \A g \in Func : life'[g] \in {"timed", "direct"} => by[g] \in Caller
    BY <1>0, <1>1, <1>6 DEF EndInv
  <2>2. ASSUME NEW s \in Scheduler, Gone(s) PROVE sched[f] # s
    <3>1. Host(s) = s /\ pc[s] = "exited"
      BY <1>0, <2>2 DEF HomeInv, Gone
    <3> QED BY <1>1, <3>1
  <2>3. ASSUME NEW s \in Scheduler, Gone(s)' PROVE \E g \in Func : sched'[g] = s /\ life'[g] = "direct"
    <3>1. Gone(s)
      BY <1>1, <2>3 DEF Gone
    <3>2. PICK g \in Func : sched[g] = s /\ life[g] = "direct"
      BY <1>0, <3>1 DEF EndInv
    <3> QED BY <1>1, <1>6, <2>2, <3>1, <3>2
  <2> QED BY <1>1, <2>1, <2>3 DEF EndInv
<1>9. CallInv' /\ SlotInv' /\ UndefinedHasCause'
  BY <1>0, <1>1 DEF CallInv, SlotInv, UndefinedHasCause
<1>10. ScanInv'
  BY <1>0, <1>1, ScanKept
<1> QED BY <1>3, <1>4, <1>5, <1>7, <1>8, <1>9, <1>10 DEF Inv

(* Every reachable state satisfies the invariant that the properties below  *)
(* follow from: who is where in GetScheduler and CreateSingleton, what it   *)
(* knows there, and which schedulers there are for it to know.              *)
THEOREM ManagerInductive == Spec => []Inv
<1>1. Init => Inv
  <2> SUFFICES ASSUME Init PROVE Inv
    OBVIOUS
  <2> USE Names DEF Init, Current!SlotInit, Env!SlotInit
  <2>1. \A t \in Thread : pc[t] \in {"idle", "unborn"} /\ (t \in Caller <=> pc[t] = "idle")
    OBVIOUS
  <2>2. \A m \in Caller : opt[m] = NULL
    OBVIOUS
  <2>3. Managers = {} /\ AllMade = {}
    BY <2>2 DEF Managers, AllMade, Made
  <2>4. Types
    BY DEF Types, Place, Life, HistoryTypes
  <2>5. ManagerInv /\ CallInv /\ SlotInv /\ EndInv
    BY <2>1, <2>2 DEF ManagerInv, CallInv, SlotInv, EndInv, Gone
  <2>6. RaceInv
    BY <2>1, <2>3 DEF RaceInv, InCreate
  <2>7. HomeInv
    BY <2>1, <2>3 DEF HomeInv
  <2>8. PathInv
    BY <2>1 DEF PathInv, Path
  <2>9. StaysHome /\ UndefinedHasCause /\ ScanInv
    BY <2>1 DEF StaysHome, UndefinedHasCause, ScanInv
  <2> QED BY <2>4, <2>5, <2>6, <2>7, <2>8, <2>9 DEF Inv
<1>2. Inv /\ [Next]_vars => Inv'
  <2> SUFFICES ASSUME Inv, [Next]_vars PROVE Inv'
    OBVIOUS
  <2>1. CASE Next
    BY <2>1, CallSteps, GetSteps, ConstructStep, StartStep, RunStep, ExitStep,
       MoveStep, UndefinedStep
    DEF Next, GetScheduler
  <2>2. CASE UNCHANGED vars
    <3> USE <2>2 DEF vars, managerVars, localVars, callVars, chooseVars, Inv
    <3>1. Types' /\ ManagerInv' /\ CallInv' /\ StaysHome' /\ SlotInv' /\ EndInv' /\ UndefinedHasCause'
      BY DEF Types, HistoryTypes, ManagerInv, CallInv, StaysHome, SlotInv, EndInv, Gone,
             UndefinedHasCause, Managers
    <3>2. /\ Managers' = Managers /\ AllMade' = AllMade /\ Idle' = Idle /\ Busy' = Busy
          /\ \A s \in Scheduler : Host(s)' = Host(s)
          /\ \A u \in Thread : This(u)' = This(u) /\ Size(u)' = Size(u)
      BY DEF Managers, AllMade, Made, Idle, Busy, CoroNum, Host, This, Size
    <3>3. RaceInv' /\ HomeInv'
      BY <3>2 DEF RaceInv, InCreate, HomeInv
    <3>4. PathInv' /\ ScanInv'
      BY <3>2 DEF PathInv, Path, ScanInv, FirstSize
    <3> QED BY <3>1, <3>3, <3>4
  <2> QED BY <2>1, <2>2
<1> QED BY <1>1, <1>2, PTL DEF Spec

(* Type correctness; who looks for a scheduler looks at one that was made,  *)
(* unless none was, and a scheduler's thread is born with it.               *)
THEOREM ManagerTypes == Spec => []ManagerTypeOK
<1>1. Inv => ManagerTypeOK
  <2> SUFFICES ASSUME Inv PROVE ManagerTypeOK
    OBVIOUS
  <2>0. Types /\ ManagerInv /\ HomeInv /\ PathInv
    BY DEF Inv
  <2>1. g_scheduler_manager \in Managers \cup {NULL}
    BY <2>0 DEF Types, ManagerInv, Managers
  <2>2. ASSUME NEW t \in Thread
        PROVE  /\ pc[t] = "scan" =>
                    Made(singleton[t]) = {} \/ <<singleton[t], i[t]>> \in Made(singleton[t])
               /\ pc[t] = "start" => chosen[t] \in Made(chosen[t][1])
               /\ t \in Scheduler => (pc[t] = "unborn" <=> ~(t \in Made(t[1]) /\ Host(t) = t))
    <3>1. Path(t)
      BY <2>0 DEF PathInv
    <3>2. pc[t] = "scan" /\ This(t) \in AllMade => <<singleton[t], i[t]>> \in Made(singleton[t])
      BY DEF AllMade, This
    <3>3. pc[t] = "scan" /\ Size(t) = 0 => Made(singleton[t]) = {}
      <4>1. SUFFICES ASSUME pc[t] = "scan", Size(t) = 0 PROVE Made(singleton[t]) = {}
        OBVIOUS
      <4>2. singleton[t] \in Caller /\ opt[singleton[t]].sheduler_num = 0
        BY <3>1, <4>1 DEF Path, Managers, Size
      <4> QED BY <4>2 DEF Made
    <3>4. pc[t] = "start" => chosen[t] \in Made(chosen[t][1])
      BY <3>1 DEF Path, AllMade
    <3>5. t \in Scheduler => (pc[t] = "unborn" <=> ~(t \in Made(t[1]) /\ Host(t) = t))
      BY <2>0 DEF HomeInv, AllMade
    <3> QED BY <3>1, <3>2, <3>3, <3>4, <3>5 DEF Path
  <2> QED BY <2>0, <2>1, <2>2 DEF Types, Life, ManagerTypeOK
<1> QED BY <1>1, ManagerInductive, PTL

(* There is one manager unless two threads were inside CreateSingleton at   *)
(* once (Singleton, CreateSingleton).                                       *)
THEOREM OneManager == Spec => []TwoManagersRaced
<1>1. Inv => TwoManagersRaced
  <2> SUFFICES ASSUME Inv, ~raced PROVE Cardinality(Managers) \in {0, 1}
    BY DEF TwoManagersRaced
  <2>1. \A m, n \in Managers : m = n
    BY DEF Inv, RaceInv
  <2>2. CASE Managers = {}
    BY <2>2, FS_EmptySet
  <2>3. ASSUME NEW m \in Managers PROVE Cardinality(Managers) \in {0, 1}
    <3>1. Managers = {m}
      BY <2>1
    <3>2. Cardinality({m}) = 1
      BY FS_Singleton
    <3> QED BY <3>1, <3>2
  <2> QED BY <2>2, <2>3
<1> QED BY <1>1, ManagerInductive, PTL

(* What runs on a scheduler's thread stays there, and the CoroEnv of that   *)
(* thread never hears of the options (GetScheduler, StartCoro, Start).      *)
THEOREM HomeCorrect == Spec => []StaysHome
<1>1. Inv => StaysHome
  BY DEF Inv
<1> QED BY <1>1, ManagerInductive, PTL

(* Whatever makes the program undefined has one of four causes: the exit of *)
(* a thread that asked for a scheduler or made one, the end of a scheduler  *)
(* because a delayed function blocked, a call to such a scheduler, or a     *)
(* manager without schedulers (ThreadLocal<T*>::Destroy, RunFunc,           *)
(* GetScheduler).                                                           *)
THEOREM UndefinedCorrect == Spec => []UndefinedHasCause
<1>1. Inv => UndefinedHasCause
  BY DEF Inv
<1> QED BY <1>1, ManagerInductive, PTL

(* GetScheduler's two reads of each scheduler take none that was busy in    *)
(* one way all the while, and the first, however busy, only when none was   *)
(* idle all the while: for any number of schedulers.                        *)
THEOREM ChoiceCorrect == Spec => ChoosesIdle
<1> DEFINE Choice(t) ==
      pc[t] = "scan" /\ pc'[t] = "start" /\ Size(t) > 1 =>
        \/ \A k \in Counted : <<chosen'[t], k>> \notin busy[t]
        \/ idle[t] \cap Made(singleton[t]) = {} /\ chosen'[t] = <<singleton[t], 1>>
<1>1. Inv /\ [Next]_vars => [\A t \in Thread : Choice(t)]_vars
  <2> SUFFICES ASSUME Inv, Next, NEW t \in Thread, pc[t] = "scan", pc'[t] = "start",
                      Size(t) > 1
               PROVE  \/ \A k \in Counted : <<chosen'[t], k>> \notin busy[t]
                      \/ /\ idle[t] \cap Made(singleton[t]) = {}
                         /\ chosen'[t] = <<singleton[t], 1>>
    OBVIOUS
  <2>0. Types /\ PathInv /\ HomeInv /\ ScanInv
    BY DEF Inv
  <2>1. Scan(t)
    BY <2>0, OnlyScan
  <2>2. \/ Looked(t) /\ IsZero(t) /\ chosen'[t] = This(t)
        \/ Looked(t) /\ ~IsZero(t) /\ i[t] = Size(t) /\ chosen'[t] = <<singleton[t], 1>>
    <3>1. \/ Looked(t) /\ IsZero(t) /\ chosen' = [chosen EXCEPT ![t] = This(t)]
          \/ /\ Looked(t) /\ ~IsZero(t) /\ i[t] = Size(t)
             /\ chosen' = [chosen EXCEPT ![t] = <<singleton[t], 1>>]
      BY <2>1 DEF Scan, Take, GoOn
    <3> QED BY <2>0, <3>1 DEF Types
  <2>3. ASSUME Looked(t), IsZero(t), NEW k \in Counted PROVE <<This(t), k>> \notin busy[t]
    <3>1. FirstSize(t) /\ busy[t] \subseteq Busy
      BY <2>0 DEF ScanInv
    <3>2. CASE k = numk[t][1]
      BY <2>3, <3>1, <3>2 DEF Looked, IsZero, FirstSize
    <3>3. CASE k # numk[t][1]
      <4>1. CoroNum(This(t), k) = 0
        BY <2>3, <3>3 DEF IsZero
      <4> QED BY <3>1, <4>1 DEF Busy
    <3> QED BY <3>2, <3>3
  <2>4. ASSUME Looked(t), ~IsZero(t), i[t] = Size(t) PROVE idle[t] \cap Made(singleton[t]) = {}
    <3>1. singleton[t] \in Caller /\ opt[singleton[t]] # NULL /\ i[t] \in Nat
      BY <2>0 DEF PathInv, Path, Managers, Types
    <3>2. Made(singleton[t]) = {<<singleton[t], k>> : k \in 1 .. Size(t)}
      BY <2>0, <3>1, MadeBy DEF Size
    <3>3. This(t) \notin idle[t]
      BY <2>0, <2>4, Passed
    <3>4. \A k \in 1 .. i[t] - 1 : <<singleton[t], k>> \notin idle[t]
      BY <2>0 DEF ScanInv
    <3>5. \A k \in 1 .. Size(t) : k \in 1 .. i[t] - 1 \/ k = i[t]
      BY <2>4, <3>1
    <3> QED BY <3>2, <3>3, <3>4, <3>5 DEF This
  <2> QED BY <2>2, <2>3, <2>4
<1> QED BY <1>1, ManagerInductive, PTL DEF Spec, ChoosesIdle

=============================================================================
