-------------------------- MODULE TaskQueueProofs --------------------------
(***************************************************************************)
(* No wake-up of the scheduler's thread is lost, no call is lost but those *)
(* that were added too late, each is in exactly one place, and the queue   *)
(* does what CallLife promises: for any number of posting threads and      *)
(* calls, any delays and any bounds of the waits.                          *)
(***************************************************************************)
EXTENDS TaskQueue, SeqLemmas, FiniteSetTheorems

USE LockAssumption, QueueAssumption

RoutineInv ==
  /\ \A p \in Poster : ppc[p] = "stamp" => wait_time[p] > 0
  /\ SchedThread \in sleeping => rpc = "wait"
  /\ rpc = "invoke" => data \in Func

\* What the unlocked loop of CheckTimeQueue relies on: its bucket is due, and
\* once the loop has ended only late calls are added to it; and a bucket that
\* is erased while a post is about to add to it was due
BucketInv ==
  /\ rpc \in {"bucket", "erase"} => due <= now
  /\ rpc = "erase" =>
       \A i \in (idx + 1) .. Len(coro_time_queue[due]) : coro_time_queue[due][i] \in late
  /\ \A p \in Poster : ppc[p] = "freed" => ts[p] <= now

QueueInv == TypeOK /\ RoutineInv /\ NoLostWakeup /\ BucketInv /\ LostOnlyLate

\* A wait's time is a number or none.
LEMMA WaitType ==
  ASSUME TypeOK, Wait(SchedThread, WaitTime)
  PROVE  left' \in [Thread -> Int \cup {Forever}]
<1>1. WaitTime \in Int
  BY DEF WaitTime, TypeOK
<1>2. Signed(Unsigned(WaitTime)) \in Int
  BY <1>1 DEF Signed, Unsigned
<1> QED BY <1>2 DEF Wait, TypeOK

\* The steps of a poster.
LEMMA PosterStep ==
  ASSUME QueueInv, NEW p \in Poster,
         Post(p) \/ \E f \in Func, d \in Delay : PushCoroTask(p, f, d)
  PROVE  QueueInv'
<1> USE DEF QueueInv, PGoto, routineVars, posterVars, callVars, lockVars
<1>0. p \in Thread /\ p # SchedThread /\ p # NULL /\ SchedThread # NULL
  BY DEF Poster
<1>1. CASE \E f \in Func, d \in Delay : PushCoroTask(p, f, d)
  <2>1. PICK f \in Func, d \in Delay : PushCoroTask(p, f, d)
    BY <1>1
  <2>2. TypeOK'
    BY <2>1, <1>0 DEF PushCoroTask, TypeOK
  <2>3. RoutineInv' /\ NoLostWakeup'
    BY <2>1 DEF PushCoroTask, TypeOK, RoutineInv, NoLostWakeup
  <2>4. BucketInv' /\ LostOnlyLate'
    BY <2>1 DEF PushCoroTask, BucketInv, LostOnlyLate, TypeOK
  <2> QED BY <2>2, <2>3, <2>4
<1>2. CASE PostLock(p)
  <2> DEFINE next == IF wait_time[p] > 0 THEN "stamp" ELSE "push"
  <2>1. next \in {"stamp", "push"} /\ (next = "stamp" => wait_time[p] > 0)
    OBVIOUS
  <2>2. ppc[p] = "lock" /\ ppc' = [ppc EXCEPT ![p] = next]
    BY <1>2 DEF PostLock
  <2> HIDE DEF next
  <2>3. \A q \in Poster : ppc[q] \in {"idle", "lock"}
    BY <1>2 DEF PostLock, Lock, TypeOK, Poster
  <2>4. rpc \notin {"test", "take"}
    BY <1>2, <1>0 DEF PostLock, Lock, TypeOK
  <2>5. holder' = p /\ UNCHANGED <<sleeping, left, coro_queue, coro_time_queue, routineVars, callVars,
                                  posted, ts, late, now>>
    BY <1>2 DEF PostLock, Lock
  <2>6. TypeOK'
    BY <1>0, <2>1, <2>2, <2>3, <2>4, <2>5 DEF TypeOK
  <2>7. RoutineInv' /\ NoLostWakeup'
    BY <2>1, <2>2, <2>3, <2>5 DEF TypeOK, RoutineInv, NoLostWakeup
  <2>8. BucketInv' /\ LostOnlyLate'
    BY <2>1, <2>2, <2>5 DEF BucketInv, LostOnlyLate, TypeOK
  <2> QED BY <2>6, <2>7, <2>8
<1>3. CASE Stamp(p)
  <2>1. (IF now + wait_time[p] < MaxTime THEN now + wait_time[p] ELSE MaxTime) \in Time
    BY <1>3 DEF Stamp, TypeOK, RoutineInv, Time
  <2>2. TypeOK'
    BY <1>3, <1>0, <2>1 DEF Stamp, TypeOK
  <2>3. RoutineInv' /\ NoLostWakeup'
    BY <1>3 DEF Stamp, TypeOK, RoutineInv, NoLostWakeup
  <2>4. BucketInv' /\ LostOnlyLate'
    BY <1>3 DEF Stamp, BucketInv, LostOnlyLate, TypeOK
  <2> QED BY <2>2, <2>3, <2>4
<1>4. CASE Add(p)
  <2>1. ts[p] \in Time /\ task[p] \in Func /\ ppc[p] = "add" /\ holder = p
    BY <1>4 DEF Add, TypeOK
  <2>2. coro_time_queue' \in [Time -> Seq(Func)] /\ late' \subseteq Func
    BY <1>4, <2>1 DEF Add, TypeOK
  <2>3. ppc' = [ppc EXCEPT ![p] = "unlock"]
    BY <1>4 DEF Add
  <2>4. UNCHANGED <<holder, sleeping, left, coro_queue, routineVars, callVars, posted, ts, now>>
    BY <1>4 DEF Add
  <2>5. TypeOK'
    BY <1>0, <2>1, <2>2, <2>3, <2>4 DEF TypeOK
  <2>6. RoutineInv' /\ NoLostWakeup'
    BY <1>4 DEF Add, TypeOK, RoutineInv, NoLostWakeup
  <2>7. LostOnlyLate'
    BY <1>4 DEF Add, LostOnlyLate
  <2> DEFINE old == coro_time_queue[due]
             new == coro_time_queue'[due]
  <2>8. old \in Seq(Func) /\ due \in Time /\ idx \in Nat
    BY DEF TypeOK
  <2>9. new = IF ts[p] = due THEN Append(old, task[p]) ELSE old
    BY <1>4, <2>1, <2>8 DEF Add, TypeOK
  <2>10. late \subseteq late' /\ (ts[p] = due /\ due <= now => task[p] \in late')
    BY <1>4 DEF Add
  <2>11. ASSUME rpc = "erase", NEW i \in (idx + 1) .. Len(new) PROVE new[i] \in late'
    <3>1. due <= now /\ \A k \in (idx + 1) .. Len(old) : old[k] \in late
      BY <2>11 DEF BucketInv
    <3> HIDE DEF old, new
    <3>2. CASE i \in 1 .. Len(old)
      BY <2>8, <2>9, <2>10, <2>11, <3>1, <3>2
    <3>3. CASE i = Len(old) + 1 /\ ts[p] = due
      BY <2>8, <2>9, <2>10, <2>11, <3>1, <3>3
    <3> QED BY <2>8, <2>9, <2>11, <3>2, <3>3
  <2>12. BucketInv'
    BY <2>3, <2>4, <2>11 DEF BucketInv, TypeOK
  <2> QED BY <2>5, <2>6, <2>7, <2>12
<1>5. CASE Push(p)
  <2>1. task[p] \in Func /\ ppc[p] = "push" /\ holder = p
    BY <1>5 DEF Push, TypeOK
  <2>2. TypeOK'
    BY <1>5, <1>0, <2>1 DEF Push, TypeOK
  <2>3. ppc'[p] = "notify"
    BY <1>5 DEF Push, TypeOK
  <2>4. RoutineInv' /\ NoLostWakeup'
    BY <1>5, <2>3 DEF Push, TypeOK, RoutineInv, NoLostWakeup
  <2>5. BucketInv' /\ LostOnlyLate'
    BY <1>5 DEF Push, BucketInv, LostOnlyLate, TypeOK
  <2> QED BY <2>2, <2>4, <2>5
<1>6. CASE PostNotify(p)
  <2>1. eventfd \/ SchedThread \notin sleeping'
    BY <1>6 DEF PostNotify, Notify, TypeOK
  <2>2. sleeping' \subseteq sleeping /\ UNCHANGED <<holder, left>>
    BY <1>6 DEF PostNotify, Notify
  <2>3. TypeOK'
    BY <1>6, <1>0, <2>2 DEF PostNotify, TypeOK
  <2>4. RoutineInv' /\ NoLostWakeup'
    BY <1>6, <2>1, <2>2 DEF PostNotify, RoutineInv, NoLostWakeup
  <2>5. BucketInv' /\ LostOnlyLate'
    BY <1>6 DEF PostNotify, BucketInv, LostOnlyLate, TypeOK
  <2> QED BY <2>3, <2>4, <2>5
<1>7. CASE PostUnlock(p)
  <2>1. TypeOK'
    BY <1>7, <1>0 DEF PostUnlock, Unlock, TypeOK
  <2>2. RoutineInv' /\ NoLostWakeup'
    BY <1>7 DEF PostUnlock, Unlock, TypeOK, RoutineInv, NoLostWakeup
  <2>3. BucketInv' /\ LostOnlyLate'
    BY <1>7 DEF PostUnlock, Unlock, BucketInv, LostOnlyLate, TypeOK
  <2> QED BY <2>1, <2>2, <2>3
<1>8. CASE Find(p)
  <2>1. TypeOK'
    BY <1>8, <1>0 DEF Find, TypeOK
  <2>2. RoutineInv' /\ NoLostWakeup'
    BY <1>8 DEF Find, TypeOK, RoutineInv, NoLostWakeup
  <2>3. BucketInv' /\ LostOnlyLate'
    BY <1>8 DEF Find, BucketInv, LostOnlyLate, TypeOK
  <2> QED BY <2>1, <2>2, <2>3
<1>9. CASE AddFreed(p)
  <2>1. task[p] \in Func
    BY <1>9 DEF AddFreed, TypeOK
  <2>2. TypeOK'
    BY <1>9, <1>0, <2>1 DEF AddFreed, TypeOK
  <2>3. RoutineInv' /\ NoLostWakeup'
    BY <1>9 DEF AddFreed, TypeOK, RoutineInv, NoLostWakeup
  <2>4. BucketInv' /\ LostOnlyLate'
    BY <1>9 DEF AddFreed, BucketInv, LostOnlyLate, TypeOK
  <2> QED BY <2>2, <2>3, <2>4
<1> QED BY <1>1, <1>2, <1>3, <1>4, <1>5, <1>6, <1>7, <1>8, <1>9 DEF Post

\* The steps of Routine in the scheduler's thread.
LEMMA RoutineStep ==
  ASSUME QueueInv, Routine
  PROVE  QueueInv'
<1> USE DEF QueueInv, RGoto, posterVars, callVars, lockVars
<1>0. SchedThread \in Thread /\ SchedThread \notin Poster /\ SchedThread # NULL
  BY DEF Poster
<1>1. CASE RoutineLock
  <2>1. TypeOK'
    BY <1>1, <1>0 DEF RoutineLock, Lock, TypeOK, Poster
  <2>2. RoutineInv' /\ NoLostWakeup'
    BY <1>1 DEF RoutineLock, Lock, RoutineInv, NoLostWakeup
  <2>3. BucketInv' /\ LostOnlyLate'
    BY <1>1 DEF RoutineLock, BucketInv, LostOnlyLate
  <2> QED BY <2>1, <2>2, <2>3
<1>2. CASE RoutineWait
  <2>1. left' \in [Thread -> Int \cup {Forever}]
    BY <1>2, WaitType DEF RoutineWait
  <2>2. WaitTime \in Int
    BY DEF WaitTime, TypeOK
  <2>3. TypeOK'
    BY <1>2, <1>0, <2>1, <2>2 DEF RoutineWait, Wait, TypeOK
  <2>4. RoutineInv' /\ NoLostWakeup'
    BY <1>2 DEF RoutineWait, Wait, RoutineInv, NoLostWakeup
  <2>5. BucketInv' /\ LostOnlyLate'
    BY <1>2 DEF RoutineWait, BucketInv, LostOnlyLate
  <2> QED BY <2>3, <2>4, <2>5
<1>3. CASE RoutineWake
  <2>1. TypeOK'
    BY <1>3, <1>0 DEF RoutineWake, Lock, TypeOK, Poster
  <2>2. RoutineInv' /\ NoLostWakeup'
    BY <1>3 DEF RoutineWake, Lock, RoutineInv, NoLostWakeup
  <2>3. BucketInv' /\ LostOnlyLate'
    BY <1>3 DEF RoutineWake, BucketInv, LostOnlyLate
  <2> QED BY <2>1, <2>2, <2>3
<1>4. CASE RoutineTake
  <2>1. SchedThread \notin sleeping
    BY <1>4 DEF RoutineTake, RoutineInv
  <2>2. coro_queue # <<>> => Head(coro_queue) \in Func /\ Tail(coro_queue) \in Seq(Func)
    BY DEF TypeOK
  <2>3. TypeOK'
    BY <1>4, <1>0, <2>2 DEF RoutineTake, Unlock, TypeOK
  <2>4. RoutineInv' /\ NoLostWakeup'
    BY <1>4, <2>1, <2>2 DEF RoutineTake, Unlock, RoutineInv, NoLostWakeup
  <2>5. BucketInv' /\ LostOnlyLate'
    BY <1>4 DEF RoutineTake, BucketInv, LostOnlyLate
  <2> QED BY <2>3, <2>4, <2>5
<1>5. CASE RoutineInvoke
  <2>1. TypeOK'
    BY <1>5 DEF RoutineInvoke, TypeOK, RoutineInv
  <2>2. RoutineInv' /\ NoLostWakeup'
    BY <1>5 DEF RoutineInvoke, RoutineInv, NoLostWakeup
  <2>3. BucketInv' /\ LostOnlyLate'
    BY <1>5 DEF RoutineInvoke, BucketInv, LostOnlyLate
  <2> QED BY <2>1, <2>2, <2>3
<1>6. CASE CheckTimeQueue
  <2>1. TypeOK'
    BY <1>6 DEF CheckTimeQueue, TypeOK, Time
  <2>2. RoutineInv' /\ NoLostWakeup'
    BY <1>6 DEF CheckTimeQueue, RoutineInv, NoLostWakeup
  <2>3. BucketInv' /\ LostOnlyLate'
    BY <1>6 DEF CheckTimeQueue, BucketInv, LostOnlyLate, TypeOK, Time
  <2> QED BY <2>1, <2>2, <2>3
<1>7. CASE BucketStep
  <2>1. idx < Len(coro_time_queue[due]) => coro_time_queue[due][idx + 1] \in Func
    BY DEF TypeOK
  <2>2. TypeOK'
    BY <1>7, <2>1 DEF BucketStep, TypeOK
  <2>3. RoutineInv' /\ NoLostWakeup'
    BY <1>7 DEF BucketStep, RoutineInv, NoLostWakeup
  <2>4. BucketInv' /\ LostOnlyLate'
    BY <1>7 DEF BucketStep, BucketInv, LostOnlyLate, TypeOK
  <2> QED BY <2>2, <2>3, <2>4
<1>8. CASE EraseBucket
  <2>1. \A i \in (idx + 1) .. Len(coro_time_queue[due]) : coro_time_queue[due][i] \in Func
    BY DEF TypeOK
  <2>2. TypeOK'
    BY <1>8, <2>1 DEF EraseBucket, TypeOK
  <2>3. RoutineInv' /\ NoLostWakeup'
    BY <1>8 DEF EraseBucket, RoutineInv, NoLostWakeup
  <2>4. LostOnlyLate'
    BY <1>8 DEF EraseBucket, BucketInv, LostOnlyLate
  <2>5. \A p \in Poster : ppc'[p] = "freed" => ts'[p] <= now'
    BY <1>8 DEF EraseBucket, BucketInv, TypeOK
  <2>6. BucketInv'
    BY <1>8, <2>5 DEF EraseBucket, BucketInv
  <2> QED BY <2>2, <2>3, <2>4, <2>6
<1>9. CASE ReadClock
  <2>1. TypeOK'
    BY <1>9 DEF ReadClock, TypeOK, Time
  <2>2. RoutineInv' /\ NoLostWakeup'
    BY <1>9 DEF ReadClock, RoutineInv, NoLostWakeup
  <2>3. BucketInv' /\ LostOnlyLate'
    BY <1>9 DEF ReadClock, BucketInv, LostOnlyLate
  <2> QED BY <2>1, <2>2, <2>3
<1> QED BY <1>1, <1>2, <1>3, <1>4, <1>5, <1>6, <1>7, <1>8, <1>9 DEF Routine

\* Time passes, for the clock and for the wait.
LEMMA TimeStep ==
  ASSUME QueueInv, WaitTimeUp \/ Tick
  PROVE  QueueInv'
<1> USE DEF QueueInv, routineVars, posterVars, callVars
<1>1. CASE WaitTimeUp
  <2>1. TypeOK'
    BY <1>1 DEF WaitTimeUp, TimeUp, TypeOK
  <2>2. RoutineInv' /\ NoLostWakeup' /\ BucketInv' /\ LostOnlyLate'
    BY <1>1 DEF WaitTimeUp, TimeUp, RoutineInv, NoLostWakeup, BucketInv, LostOnlyLate
  <2> QED BY <2>1, <2>2
<1>2. CASE Tick
  <2>1. left' \in [Thread -> Int \cup {Forever}]
    BY <1>2 DEF Tick, Pass, TypeOK
  <2>2. now' \in Time /\ now <= now'
    BY <1>2 DEF Tick, TypeOK, Time
  <2>3. TypeOK'
    BY <1>2, <2>1, <2>2 DEF Tick, TypeOK
  <2>4. BucketInv'
    BY <1>2, <2>2 DEF Tick, BucketInv, TypeOK, Time
  <2>5. RoutineInv' /\ NoLostWakeup' /\ LostOnlyLate'
    BY <1>2 DEF Tick, RoutineInv, NoLostWakeup, LostOnlyLate
  <2> QED BY <2>3, <2>4, <2>5
<1> QED BY <1>1, <1>2

(* Every reachable state satisfies the invariant that the two properties   *)
(* below are parts of: mutual exclusion, what Routine's place says of the  *)
(* rest of the state, and what CheckTimeQueue may rely on without a lock.  *)
THEOREM QueueInductive == Spec => []QueueInv
<1>1. Init => QueueInv
  BY DEF Init, LockInit, QueueInv, TypeOK, RoutineInv, NoLostWakeup, BucketInv, LostOnlyLate,
         Time
<1>2. QueueInv /\ [Next]_vars => QueueInv'
  <2>1. SUFFICES ASSUME QueueInv, [Next]_vars PROVE QueueInv'
    OBVIOUS
  <2>2. CASE UNCHANGED vars
    BY <2>1, <2>2 DEF vars, lockVars, routineVars, posterVars, callVars, QueueInv, TypeOK, RoutineInv,
                      NoLostWakeup, BucketInv, LostOnlyLate
  <2>3. CASE Next
    BY <2>1, <2>3, PosterStep, RoutineStep, TimeStep DEF Next
  <2> QED BY <2>1, <2>2, <2>3
<1> QED BY <1>1, <1>2, PTL DEF Spec

(* The scheduler's thread never sleeps on a posted call that nobody is     *)
(* about to notify it of (PushCoroTask, Routine).                          *)
THEOREM WakeupsKept == Spec => []NoLostWakeup
<1>1. QueueInv => NoLostWakeup
  BY DEF QueueInv
<1> QED BY <1>1, QueueInductive, PTL

(* CheckTimeQueue loses no call but one whose thread was held up inside    *)
(* AddTimeCoroTask until the call was due.                                 *)
THEOREM LossesLate == Spec => []LostOnlyLate
<1>1. QueueInv => LostOnlyLate
  BY DEF QueueInv
<1> QED BY <1>1, QueueInductive, PTL

(* The variables keep their types, who is in a critical section holds the  *)
(* mutex, and only the scheduler's thread sleeps.                          *)
THEOREM TypeCorrect == Spec => []TypeOK
<1>1. QueueInv => TypeOK
  BY DEF QueueInv
<1> QED BY <1>1, QueueInductive, PTL

-----------------------------------------------------------------------------
(* Where the calls are.  A post holds its call until it is in a container;  *)
(* a bucket holds the entries that CheckTimeQueue has yet to invoke.        *)

Pending == {"lock", "stamp", "find", "add", "freed", "push"}
Held == {task[p] : p \in {q \in Poster : ppc[q] \in Pending}}
From(t) == IF rpc \in {"bucket", "erase"} /\ t = due THEN idx + 1 ELSE 1
Timed(t) == {coro_time_queue[t][i] : i \in From(t) .. Len(coro_time_queue[t])}
Timers == UNION {Timed(t) : t \in Time}

OnceHeld ==
  \A p, q \in Poster :
    ppc[p] \in Pending /\ ppc[q] \in Pending /\ task[p] = task[q] => p = q

OnceTimed ==
  \A t, u \in Time :
    \A i \in From(t) .. Len(coro_time_queue[t]), j \in From(u) .. Len(coro_time_queue[u]) :
      coro_time_queue[t][i] = coro_time_queue[u][j] => t = u /\ i = j

Disjoint ==
  /\ Held \cap (Range(coro_queue) \cup Timers \cup {data} \cup started \cup lost) = {}
  /\ Range(coro_queue) \cap (Timers \cup {data} \cup started \cup lost) = {}
  /\ Timers \cap ({data} \cup started \cup lost) = {}
  /\ data \notin started \cup lost
  /\ started \cap lost = {}

\* None has vanished
Whole ==
  posted = Held \cup Range(coro_queue) \cup Timers \cup ({data} \ {NULL}) \cup started \cup lost

\* What the loop over a bucket has done
ServiceInv ==
  /\ rpc # "invoke" => data = NULL
  /\ rpc \in {"bucket", "erase"} =>
       /\ idx <= Len(coro_time_queue[due])
       /\ \A i \in 1 .. idx : coro_time_queue[due][i] \in started

PlaceInv ==
  OnceHeld /\ IsInjective(coro_queue) /\ OnceTimed /\ Disjoint /\ Whole /\ ServiceInv

\* What is still to be served of a bucket, as positions in it.
LEMMA UnservedAt ==
  ASSUME TypeOK, ServiceInv, NEW t \in Time
  PROVE  LET s == coro_time_queue[t]
             k == From(t) - 1
         IN  /\ s \in Seq(Func) /\ Len(s) \in Nat /\ k \in 0 .. Len(s)
             /\ Unserved(t) \in Seq(Func)
             /\ Len(Unserved(t)) = Len(s) - k
             /\ \A i \in 1 .. Len(s) - k : Unserved(t)[i] = s[i + k]
             /\ Range(Unserved(t)) = Timed(t)
<1> DEFINE s == coro_time_queue[t]
           k == From(t) - 1
           r == Unserved(t)
<1>1. s \in Seq(Func) /\ Len(s) \in Nat /\ idx \in Nat
  BY DEF TypeOK
<1>2. k \in 0 .. Len(s)
  BY <1>1 DEF From, ServiceInv
<1>3. r = IF rpc \in {"bucket", "erase"} /\ t = due THEN SubSeq(s, k + 1, Len(s)) ELSE s
  BY <1>1 DEF Unserved, From
<1>4. r \in Seq(Func) /\ Len(r) = Len(s) - k /\ \A i \in 1 .. Len(s) - k : r[i] = s[i + k]
  <2>1. CASE rpc \in {"bucket", "erase"} /\ t = due
    <3>1. r = SubSeq(s, k + 1, Len(s))
      BY <1>3, <2>1
    <3> HIDE DEF s, k, r
    <3> QED BY <1>1, <1>2, <3>1, SMT
  <2>2. CASE ~(rpc \in {"bucket", "erase"} /\ t = due)
    <3>1. r = s /\ k = 0
      BY <1>3, <2>2 DEF From
    <3> HIDE DEF s, k, r
    <3> QED BY <1>1, <3>1
  <2> QED BY <2>1, <2>2
<1>5. Range(r) = Timed(t)
  <2>1. Range(r) = {r[i] : i \in 1 .. Len(r)}
    BY <1>4, RangeSeq
  <2>2. Timed(t) = {s[i] : i \in k + 1 .. Len(s)}
    BY <1>1 DEF Timed, From
  <2> HIDE DEF s, k, r
  <2>3. ASSUME NEW x \in Range(r) PROVE x \in Timed(t)
    <3>1. PICK i \in 1 .. Len(s) - k : x = s[i + k]
      BY <1>4, <2>1, <2>3
    <3>2. i + k \in k + 1 .. Len(s)
      BY <1>1, <1>2, <3>1
    <3> QED BY <2>2, <3>1, <3>2
  <2>4. ASSUME NEW x \in Timed(t) PROVE x \in Range(r)
    <3>1. PICK i \in k + 1 .. Len(s) : x = s[i]
      BY <2>2, <2>4
    <3>2. i - k \in 1 .. Len(s) - k /\ (i - k) + k = i
      BY <1>1, <1>2, <3>1
    <3> QED BY <1>4, <2>1, <3>1, <3>2
  <2> QED BY <2>3, <2>4
<1> QED BY <1>1, <1>2, <1>4, <1>5

\* A poster holds its call from the post until it is in a container.
LEMMA HeldKept ==
  ASSUME OnceHeld, UNCHANGED task,
         \A q \in Poster : ppc'[q] \in Pending <=> ppc[q] \in Pending
  PROVE  Held' = Held /\ OnceHeld'
BY DEF Held, OnceHeld

LEMMA HeldComes ==
  ASSUME TypeOK, OnceHeld, NEW p \in Poster, NEW f \in Func, f \notin Held,
         ppc[p] = "idle", ppc' = [ppc EXCEPT ![p] = "lock"],
         task' = [task EXCEPT ![p] = f]
  PROVE  Held' = Held \cup {f} /\ OnceHeld'
<1> USE DEF Pending
<1>1. \A q \in Poster : q # p => ppc'[q] = ppc[q] /\ task'[q] = task[q]
  BY DEF TypeOK
<1>2. ppc'[p] = "lock" /\ task'[p] = f
  BY DEF TypeOK
<1>3. \A q \in Poster : ppc[q] \in Pending => task[q] # f
  BY DEF Held
<1>4. Held' = Held \cup {f}
  <2>1. Held' \subseteq Held \cup {f}
    BY <1>1, <1>2 DEF Held
  <2>2. f \in Held'
    BY <1>2 DEF Held
  <2>3. Held \subseteq Held'
    BY <1>1 DEF Held
  <2> QED BY <2>1, <2>2, <2>3
<1>5. OnceHeld'
  BY <1>1, <1>2, <1>3 DEF OnceHeld
<1> QED BY <1>4, <1>5

LEMMA HeldLeaves ==
  ASSUME TypeOK, OnceHeld, NEW p \in Poster, NEW x \in {"notify", "unlock"},
         ppc[p] \in Pending, ppc' = [ppc EXCEPT ![p] = x], UNCHANGED task
  PROVE  Held' = Held \ {task[p]} /\ task[p] \in Held /\ OnceHeld'
<1>1. \A q \in Poster : q # p => ppc'[q] = ppc[q]
  BY DEF TypeOK
<1>2. ppc'[p] \notin Pending
  BY DEF TypeOK, Pending
<1>3. \A q \in Poster : ppc'[q] \in Pending <=> ppc[q] \in Pending /\ q # p
  BY <1>1, <1>2
<1>4. OnceHeld'
  BY <1>3 DEF OnceHeld
<1>5. Held' = Held \ {task[p]} /\ task[p] \in Held
  BY <1>3 DEF Held, OnceHeld
<1> QED BY <1>4, <1>5

\* What a step does to the entries that are to be served.
LEMMA TimersKept ==
  ASSUME OnceTimed, UNCHANGED coro_time_queue, \A t \in Time : From(t)' = From(t)
  PROVE  /\ \A t \in Time : Timed(t)' = Timed(t)
         /\ Timers' = Timers
         /\ OnceTimed'
<1>1. \A t \in Time : Timed(t)' = Timed(t)
  BY DEF Timed
<1>2. Timers' = Timers
  BY <1>1 DEF Timers
<1>3. OnceTimed'
  BY DEF OnceTimed
<1> QED BY <1>1, <1>2, <1>3

LEMMA TimersAdd ==
  ASSUME TypeOK, ServiceInv, OnceTimed, NEW v \in Time, NEW f \in Func, f \notin Timers,
         coro_time_queue' = [coro_time_queue EXCEPT ![v] = Append(@, f)],
         UNCHANGED <<rpc, due, idx>>
  PROVE  /\ \A t \in Time : Timed(t)' = IF t = v THEN Timed(t) \cup {f} ELSE Timed(t)
         /\ Timers' = Timers \cup {f}
         /\ OnceTimed'
<1> DEFINE s(t) == coro_time_queue[t]
           n(t) == Len(s(t))
<1>1. \A t \in Time : From(t)' = From(t) /\ From(t) \in 1 .. n(t) + 1 /\ n(t) \in Nat
  <2>1. \A t \in Time : From(t) - 1 \in 0 .. n(t) /\ n(t) \in Nat
    BY UnservedAt
  <2>2. \A t \in Time : From(t)' = From(t) /\ From(t) \in Int
    BY DEF From, TypeOK
  <2> HIDE DEF n
  <2> QED BY <2>1, <2>2
<1>2. \A t \in Time : t # v => coro_time_queue'[t] = s(t)
  BY DEF TypeOK
<1>3. /\ Len(coro_time_queue'[v]) = n(v) + 1
      /\ \A i \in 1 .. n(v) : coro_time_queue'[v][i] = s(v)[i]
      /\ coro_time_queue'[v][n(v) + 1] = f
  BY RangeAppend DEF TypeOK
<1>4. \A t \in Time : \A i \in From(t) .. n(t) : s(t)[i] # f
  BY DEF Timers, Timed
<1>5. \A t \in Time : t # v => Timed(t)' = Timed(t)
  BY <1>1, <1>2 DEF Timed
<1>6. Timed(v)' = Timed(v) \cup {f}
  <2>1. Timed(v)' = {coro_time_queue'[v][i] : i \in From(v) .. n(v) + 1}
    BY <1>1, <1>3 DEF Timed
  <2>2. Timed(v) = {s(v)[i] : i \in From(v) .. n(v)}
    BY DEF Timed
  <2>3. From(v) .. n(v) + 1 = (From(v) .. n(v)) \cup {n(v) + 1}
    BY <1>1
  <2>4. From(v) .. n(v) \subseteq 1 .. n(v)
    BY <1>1
  <2> HIDE DEF s, n
  <2> QED BY <1>3, <2>1, <2>2, <2>3, <2>4
<1>7. Timers' = Timers \cup {f}
  BY <1>5, <1>6 DEF Timers
<1>8. OnceTimed'
  <2> DEFINE d(t) == coro_time_queue'[t]
  <2>1. ASSUME NEW t \in Time, NEW u \in Time, NEW i \in From(t) .. Len(d(t)),
               NEW j \in From(u) .. Len(d(u)), d(t)[i] = d(u)[j]
        PROVE  t = u /\ i = j
    <3>1. i \in From(t) .. n(t) \/ (t = v /\ i = n(v) + 1)
      BY <1>1, <1>2, <1>3
    <3>2. j \in From(u) .. n(u) \/ (u = v /\ j = n(v) + 1)
      BY <1>1, <1>2, <1>3
    <3>3. i \in From(t) .. n(t) => d(t)[i] = s(t)[i]
      BY <1>1, <1>2, <1>3
    <3>4. j \in From(u) .. n(u) => d(u)[j] = s(u)[j]
      BY <1>1, <1>2, <1>3
    <3>5. \A k \in From(t) .. n(t), m \in From(u) .. n(u) : s(t)[k] = s(u)[m] => t = u /\ k = m
      BY DEF OnceTimed
    <3> HIDE DEF s, n
    <3>6. CASE i \in From(t) .. n(t)
      <4>1. j \in From(u) .. n(u)
        BY <1>3, <1>4, <2>1, <3>2, <3>3, <3>6
      <4> QED BY <2>1, <3>3, <3>4, <3>5, <3>6, <4>1
    <3>7. CASE t = v /\ i = n(v) + 1
      <4>1. ~ j \in From(u) .. n(u)
        BY <1>3, <1>4, <2>1, <3>4, <3>7
      <4> QED BY <3>2, <3>7, <4>1
    <3> QED BY <3>1, <3>6, <3>7
  <2>2. \A t \in Time : From(t)' = From(t)
    BY <1>1
  <2> HIDE DEF s, n
  <2> QED BY ONLY <2>1, <2>2 DEF OnceTimed
<1> QED BY <1>5, <1>6, <1>7, <1>8

LEMMA TimersServe ==
  ASSUME TypeOK, OnceTimed, rpc = "bucket", idx < Len(coro_time_queue[due]),
         idx' = idx + 1, UNCHANGED <<rpc, due, coro_time_queue>>
  PROVE  LET f == coro_time_queue[due][idx + 1]
         IN  /\ f \in Timed(due)
             /\ \A t \in Time : Timed(t)' = IF t = due THEN Timed(t) \ {f} ELSE Timed(t)
             /\ Timers' = Timers \ {f}
             /\ OnceTimed'
<1> DEFINE s == coro_time_queue[due]
           n == Len(s)
           f == s[idx + 1]
<1>1. s \in Seq(Func) /\ n \in Nat /\ idx \in Nat /\ due \in Time /\ idx < n
  BY DEF TypeOK
<1>2. From(due) = idx + 1 /\ From(due)' = idx + 2
  BY <1>1 DEF From
<1>3. \A t \in Time : t # due => From(t)' = From(t) /\ From(t) = 1
  BY DEF From
<1>4. \A i, j \in idx + 1 .. n : s[i] = s[j] => i = j
  BY <1>1, <1>2 DEF OnceTimed
<1>5. Timed(due) = {s[i] : i \in idx + 1 .. n} /\ Timed(due)' = {s[i] : i \in idx + 2 .. n}
  BY <1>2 DEF Timed
<1>6. f \in Timed(due) /\ Timed(due)' = Timed(due) \ {f}
  <2>1. idx + 1 .. n = {idx + 1} \cup (idx + 2 .. n) /\ idx + 1 \notin idx + 2 .. n
    BY <1>1
  <2>2. f = s[idx + 1]
    OBVIOUS
  <2> HIDE DEF s, n, f
  <2> QED BY <1>4, <1>5, <2>1, <2>2
<1>7. \A t \in Time : t # due => Timed(t)' = Timed(t)
  BY <1>3 DEF Timed
<1>8. \A t \in Time : t # due => f \notin Timed(t)
  <2>1. ASSUME NEW t \in Time, NEW i \in From(t) .. Len(coro_time_queue[t]),
               coro_time_queue[t][i] = f
        PROVE  t = due
    <3>1. idx + 1 \in From(due) .. n
      BY <1>1, <1>2
    <3> QED BY <1>1, <2>1, <3>1 DEF OnceTimed
  <2> QED BY <2>1 DEF Timed
<1>9. Timers' = Timers \ {f}
  <2> HIDE DEF f
  <2> QED BY <1>6, <1>7, <1>8 DEF Timers
<1>10. OnceTimed'
  <2>1. ASSUME NEW t \in Time PROVE From(t)' .. Len(coro_time_queue[t]) \subseteq
                                    From(t) .. Len(coro_time_queue[t])
    <3>1. Len(coro_time_queue[t]) \in Nat
      BY DEF TypeOK
    <3> QED BY <1>1, <1>2, <1>3, <3>1
  <2> QED BY <2>1 DEF OnceTimed
<1> QED BY <1>6, <1>7, <1>9, <1>10

LEMMA TimersErase ==
  ASSUME TypeOK, OnceTimed, rpc = "erase", rpc' = "timers",
         coro_time_queue' = [coro_time_queue EXCEPT ![due] = <<>>], UNCHANGED due
  PROVE  /\ \A t \in Time : Timed(t)' = IF t = due THEN {} ELSE Timed(t)
         /\ Timers' = Timers \ Timed(due)
         /\ OnceTimed'
<1>1. due \in Time /\ \A t \in Time : t # due => coro_time_queue'[t] = coro_time_queue[t]
  BY DEF TypeOK
<1>2. Len(coro_time_queue'[due]) = 0
  BY DEF TypeOK
<1>3. \A t \in Time : From(t)' = 1 /\ (t # due => From(t) = 1)
  BY DEF From
<1>4. Timed(due)' = {}
  <2>1. Timed(due)' = {coro_time_queue'[due][i] : i \in 1 .. Len(coro_time_queue'[due])}
    BY <1>1, <1>3 DEF Timed, From
  <2>2. 1 .. Len(coro_time_queue'[due]) = {}
    BY <1>2
  <2> QED BY <2>1, <2>2
<1>5. \A t \in Time : t # due => Timed(t)' = Timed(t)
  BY <1>1, <1>3 DEF Timed
<1>6. \A t \in Time : t # due => Timed(t) \cap Timed(due) = {}
  BY <1>1 DEF Timed, OnceTimed
<1>7. Timers' = Timers \ Timed(due)
  <2>1. ASSUME NEW x \in Timers' PROVE x \in Timers \ Timed(due)
    <3>1. PICK t \in Time : x \in Timed(t)'
      BY <2>1 DEF Timers
    <3> QED BY <1>4, <1>5, <1>6, <3>1 DEF Timers
  <2>2. Timers \ Timed(due) \subseteq Timers'
    BY <1>5 DEF Timers
  <2> QED BY <2>1, <2>2
<1>8. OnceTimed'
  BY <1>1, <1>2, <1>3 DEF OnceTimed
<1> QED BY <1>4, <1>5, <1>7, <1>8

LEMMA TimersQueued ==
  ASSUME TypeOK, ServiceInv
  PROVE  Timers \subseteq UNION {Range(coro_time_queue[t]) : t \in Time}
<1>1. ASSUME NEW t \in Time PROVE Timed(t) \subseteq Range(coro_time_queue[t])
  <2>1. /\ Range(coro_time_queue[t]) = {coro_time_queue[t][i] : i \in 1 .. Len(coro_time_queue[t])}
        /\ From(t) - 1 \in 0 .. Len(coro_time_queue[t]) /\ Len(coro_time_queue[t]) \in Nat
    <3>1. /\ coro_time_queue[t] \in Seq(Func) /\ Len(coro_time_queue[t]) \in Nat
          /\ From(t) - 1 \in 0 .. Len(coro_time_queue[t])
      BY UnservedAt
    <3> QED BY ONLY <3>1, RangeSeq
  <2>2. From(t) \in Int
    BY DEF From, TypeOK
  <2>3. From(t) .. Len(coro_time_queue[t]) \subseteq 1 .. Len(coro_time_queue[t])
    BY <2>1, <2>2
  <2> QED BY <2>1, <2>3 DEF Timed
<1> QED BY <1>1 DEF Timers

\* The steps of a poster move its call once.
LEMMA PosterPlaces ==
  ASSUME TypeOK, BucketInv, PlaceInv, NEW p \in Poster,
         Post(p) \/ \E f \in Func, d \in Delay : PushCoroTask(p, f, d)
  PROVE  PlaceInv'
<1> USE DEF PlaceInv, PGoto, routineVars, posterVars, callVars
<1>1. \A t \in Time : UNCHANGED <<rpc, due, idx>> => From(t)' = From(t)
  BY DEF From
<1>2. UNCHANGED <<rpc, due, idx, data, started>>
  BY DEF Post, PostLock, Stamp, Find, Add, AddFreed, Push, PostNotify, PostUnlock, PushCoroTask
<1>3. CASE UNCHANGED <<coro_queue, coro_time_queue, task, lost, posted>>
           /\ \A q \in Poster : ppc'[q] \in Pending <=> ppc[q] \in Pending
  <2>1. Held' = Held /\ OnceHeld'
    BY <1>3, HeldKept
  <2>2. Timers' = Timers /\ OnceTimed' /\ \A t \in Time : Timed(t)' = Timed(t)
    BY <1>1, <1>2, <1>3, TimersKept
  <2>3. Disjoint' /\ Whole'
    BY <1>2, <1>3, <2>1, <2>2 DEF Disjoint, Whole
  <2>4. ServiceInv'
    BY <1>2, <1>3, <2>2 DEF ServiceInv
  <2> QED BY <1>3, <2>1, <2>2, <2>3, <2>4
<1>4. CASE PostLock(p) \/ Stamp(p) \/ Find(p) \/ PostNotify(p) \/ PostUnlock(p)
  <2>1. UNCHANGED <<coro_queue, coro_time_queue, task, lost, posted>>
    BY <1>4 DEF PostLock, Stamp, Find, PostNotify, PostUnlock
  <2>2. PICK x \in {"stamp", "push", "find", "add", "unlock", "idle"} :
          ppc' = [ppc EXCEPT ![p] = x] /\ (x \in Pending <=> ppc[p] \in Pending)
    BY <1>4 DEF PostLock, Stamp, Find, PostNotify, PostUnlock, Pending
  <2>3. \A q \in Poster : ppc'[q] \in Pending <=> ppc[q] \in Pending
    BY <2>2 DEF TypeOK
  <2> QED BY <1>3, <2>1, <2>3
<1>5. ASSUME NEW f \in Func, NEW d \in Delay, PushCoroTask(p, f, d) PROVE PlaceInv'
  <2>1. /\ f \notin posted /\ ppc[p] = "idle" /\ ppc' = [ppc EXCEPT ![p] = "lock"]
        /\ task' = [task EXCEPT ![p] = f] /\ UNCHANGED <<coro_queue, coro_time_queue, lost>>
        /\ posted' = posted \cup {f}
    BY <1>5 DEF PushCoroTask
  <2>2. f \notin Held \cup Range(coro_queue) \cup Timers \cup {data} \cup started \cup lost
    BY <2>1 DEF Whole
  <2>3. Held' = Held \cup {f} /\ OnceHeld'
    BY <2>1, <2>2, HeldComes
  <2>4. Timers' = Timers /\ OnceTimed' /\ \A t \in Time : Timed(t)' = Timed(t)
    BY <1>1, <1>2, <2>1, TimersKept
  <2>5. Disjoint' /\ Whole'
    BY <1>2, <2>1, <2>2, <2>3, <2>4 DEF Disjoint, Whole
  <2>6. ServiceInv'
    BY <1>2, <2>1, <2>4 DEF ServiceInv
  <2> QED BY <2>1, <2>3, <2>4, <2>5, <2>6
<1>6. CASE Add(p)
  <2> DEFINE f == task[p]
             v == ts[p]
  <2>1. /\ ppc[p] = "add" /\ ppc' = [ppc EXCEPT ![p] = "unlock"] /\ f \in Func /\ v \in Time
        /\ coro_time_queue' = [coro_time_queue EXCEPT ![v] = Append(@, f)]
        /\ UNCHANGED <<task, coro_queue, lost, posted>>
    BY <1>6 DEF Add, TypeOK
  <2>2. Held' = Held \ {f} /\ f \in Held /\ OnceHeld'
    BY <2>1, HeldLeaves DEF Pending
  <2>3. f \notin Timers
    BY <2>2 DEF Disjoint
  <2>4. /\ \A t \in Time : Timed(t)' = IF t = v THEN Timed(t) \cup {f} ELSE Timed(t)
        /\ Timers' = Timers \cup {f}
        /\ OnceTimed'
    BY <1>2, <2>1, <2>3, TimersAdd
  <2>5. Disjoint' /\ Whole'
    <3> HIDE DEF f, v
    <3> QED BY <1>2, <2>1, <2>2, <2>4 DEF Disjoint, Whole
  <2>6. ServiceInv'
    <3> SUFFICES ASSUME rpc \in {"bucket", "erase"} PROVE ServiceInv'
      BY <1>2 DEF ServiceInv
    <3>1. due \in Time /\ coro_time_queue[due] \in Seq(Func) /\ idx \in Nat
      BY DEF TypeOK
    <3>2. idx <= Len(coro_time_queue[due]) /\ \A i \in 1 .. idx : coro_time_queue[due][i] \in started
      BY DEF ServiceInv
    <3>3. idx <= Len(coro_time_queue'[due])
          /\ \A i \in 1 .. idx : coro_time_queue'[due][i] = coro_time_queue[due][i]
      <4>1. CASE due = v
        <5>1. coro_time_queue'[due] = Append(coro_time_queue[due], f)
          BY <2>1, <3>1, <4>1 DEF TypeOK
        <5> QED BY <2>1, <3>1, <3>2, <5>1, RangeAppend
      <4>2. CASE due # v
        BY <2>1, <3>1, <3>2, <4>2
      <4> QED BY <4>1, <4>2
    <3> QED BY <1>2, <3>2, <3>3 DEF ServiceInv
  <2> QED BY <2>1, <2>2, <2>4, <2>5, <2>6
<1>7. CASE Push(p)
  <2> DEFINE f == task[p]
  <2>1. /\ ppc[p] = "push" /\ ppc' = [ppc EXCEPT ![p] = "notify"] /\ f \in Func
        /\ coro_queue' = Append(coro_queue, f)
        /\ UNCHANGED <<task, coro_time_queue, lost, posted>> /\ coro_queue \in Seq(Func)
    BY <1>7 DEF Push, TypeOK
  <2>2. Held' = Held \ {f} /\ f \in Held /\ OnceHeld'
    BY <2>1, HeldLeaves DEF Pending
  <2>3. Timers' = Timers /\ OnceTimed' /\ \A t \in Time : Timed(t)' = Timed(t)
    BY <1>1, <1>2, <2>1, TimersKept
  <2>4. Range(coro_queue') = Range(coro_queue) \cup {f}
    BY <2>1, RangeAppend
  <2>5. IsInjective(coro_queue')
    <3>1. f \notin Range(coro_queue)
      BY <2>2 DEF Disjoint
    <3> QED BY <2>1, <3>1, InjectiveAppend
  <2>6. Disjoint' /\ Whole'
    <3> HIDE DEF f
    <3> QED BY <1>2, <2>1, <2>2, <2>3, <2>4 DEF Disjoint, Whole
  <2>7. ServiceInv'
    BY <1>2, <2>1, <2>3 DEF ServiceInv
  <2> QED BY <2>2, <2>3, <2>5, <2>6, <2>7
<1>8. CASE AddFreed(p)
  <2> DEFINE f == task[p]
  <2>1. /\ ppc[p] = "freed" /\ ppc' = [ppc EXCEPT ![p] = "unlock"]
        /\ lost' = lost \cup {f}
        /\ UNCHANGED <<task, coro_queue, coro_time_queue, posted>>
    BY <1>8 DEF AddFreed
  <2>2. Held' = Held \ {f} /\ f \in Held /\ OnceHeld'
    BY <2>1, HeldLeaves DEF Pending
  <2>3. Timers' = Timers /\ OnceTimed'
    BY <1>1, <1>2, <2>1, TimersKept
  <2>4. Disjoint' /\ Whole'
    <3> HIDE DEF f
    <3> QED BY <1>2, <2>1, <2>2, <2>3 DEF Disjoint, Whole
  <2>5. ServiceInv'
    BY <1>2, <2>1 DEF ServiceInv
  <2> QED BY <2>1, <2>2, <2>3, <2>4, <2>5
<1> QED BY <1>4, <1>5, <1>6, <1>7, <1>8 DEF Post

\* Routine moves a call from a container to its own variables or to the end.
LEMMA RoutinePlaces ==
  ASSUME TypeOK, RoutineInv, BucketInv, PlaceInv, Routine
  PROVE  PlaceInv'
<1> USE DEF PlaceInv, RGoto, posterVars, callVars
<1>1. UNCHANGED <<task, posted>>
      /\ \A q \in Poster : ppc'[q] \in Pending <=> ppc[q] \in Pending
  <2>1. CASE EraseBucket
    BY <2>1 DEF EraseBucket, Pending
  <2>2. CASE ~EraseBucket
    BY <2>2 DEF Routine, RoutineLock, RoutineWait, RoutineWake, RoutineTake, RoutineInvoke,
                CheckTimeQueue, ReadClock, BucketStep
  <2> QED BY <2>1, <2>2
<1>2. Held' = Held /\ OnceHeld'
  BY <1>1, HeldKept
<1>3. ASSUME UNCHANGED coro_time_queue, rpc \notin {"bucket", "erase"},
             rpc' \notin {"bucket", "erase"}
      PROVE  Timers' = Timers /\ OnceTimed'
  <2>1. \A t \in Time : From(t)' = From(t)
    BY <1>3 DEF From
  <2> QED BY <1>3, <2>1, TimersKept
<1>4. CASE RoutineLock \/ RoutineWait \/ RoutineWake
  <2>1. /\ UNCHANGED <<coro_queue, coro_time_queue, data, started, lost>>
        /\ rpc \in {"lock", "test", "wait"} /\ rpc' \in {"test", "wait", "take"}
    BY <1>4 DEF RoutineLock, RoutineWait, RoutineWake
  <2>2. Timers' = Timers /\ OnceTimed'
    BY <1>3, <2>1
  <2>3. Disjoint' /\ Whole' /\ ServiceInv'
    BY <1>1, <1>2, <2>1, <2>2 DEF Disjoint, Whole, ServiceInv
  <2> QED BY <1>2, <2>1, <2>2, <2>3
<1>5. CASE RoutineTake
  <2>1. /\ UNCHANGED <<coro_time_queue, started, lost>> /\ rpc \in {"take", "test"}
        /\ rpc' \in {"timers", "invoke"} /\ data = NULL
    BY <1>5 DEF RoutineTake, ServiceInv
  <2>2. Timers' = Timers /\ OnceTimed'
    BY <1>3, <2>1
  <2>3. CASE coro_queue = <<>>
    <3>1. UNCHANGED <<coro_queue, data>>
      BY <1>5, <2>3 DEF RoutineTake
    <3>2. Disjoint' /\ Whole' /\ ServiceInv'
      BY <1>1, <1>2, <2>1, <2>2, <3>1 DEF Disjoint, Whole, ServiceInv
    <3> QED BY <1>2, <2>2, <3>1, <3>2
  <2>4. CASE coro_queue # <<>>
    <3>1. /\ data' = Head(coro_queue) /\ coro_queue' = Tail(coro_queue) /\ rpc' = "invoke"
          /\ coro_queue \in Seq(Func)
      BY <1>5, <2>4 DEF RoutineTake, TypeOK
    <3>2. /\ IsInjective(coro_queue') /\ data' \in Range(coro_queue)
          /\ Range(coro_queue') = Range(coro_queue) \ {data'}
      BY <2>4, <3>1, InjectiveTail
    <3>3. Disjoint' /\ Whole'
      <4>1. data' # NULL
        BY <2>4, <3>1, HeadTail
      <4> QED BY <1>1, <1>2, <2>1, <2>2, <3>2, <4>1 DEF Disjoint, Whole
    <3>4. ServiceInv'
      BY <3>1 DEF ServiceInv
    <3> QED BY <1>2, <2>2, <3>2, <3>3, <3>4
  <2> QED BY <2>3, <2>4
<1>6. CASE RoutineInvoke
  <2>1. /\ UNCHANGED <<coro_queue, coro_time_queue, lost>> /\ rpc = "invoke"
        /\ started' = started \cup {data} /\ data' = NULL /\ rpc' = "lock" /\ data \in Func
    BY <1>6 DEF RoutineInvoke, RoutineInv
  <2>2. Timers' = Timers /\ OnceTimed'
    BY <1>3, <2>1
  <2>3. NULL \notin Held \cup Range(coro_queue) \cup Timers \cup started \cup lost
    <3>1. Held \subseteq Func
      BY DEF Held, Pending, TypeOK
    <3>2. Range(coro_queue) \subseteq Func
      BY RangeSeq DEF TypeOK
    <3>3. \A t \in Time : Range(coro_time_queue[t]) \subseteq Func
      BY RangeSeq DEF TypeOK
    <3>4. Timers \subseteq Func
      BY <3>3, TimersQueued
    <3> QED BY <3>1, <3>2, <3>4 DEF TypeOK
  <2>4. NULL # data
    BY <2>1
  <2>5. Disjoint' /\ Whole'
    BY <1>1, <1>2, <2>1, <2>2, <2>3, <2>4 DEF Disjoint, Whole
  <2>6. ServiceInv'
    BY <2>1 DEF ServiceInv
  <2> QED BY <1>2, <2>1, <2>2, <2>5, <2>6
<1>7. CASE CheckTimeQueue \/ ReadClock
  <2>1. /\ UNCHANGED <<coro_queue, coro_time_queue, data, started, lost>>
        /\ rpc \in {"timers", "first"}
    BY <1>7 DEF CheckTimeQueue, ReadClock
  <2>2. rpc' \in {"lock", "first"} \/ (rpc' = "bucket" /\ idx' = 0 /\ due' \in Time)
    BY <1>7 DEF CheckTimeQueue, ReadClock, TypeOK
  <2>3. \A t \in Time : From(t) = 1
    BY <2>1 DEF From
  <2>4. \A t \in Time : From(t)' = 1
    BY <2>2 DEF From
  <2>5. Timers' = Timers /\ OnceTimed'
    BY <2>1, <2>3, <2>4, TimersKept
  <2>6. Disjoint' /\ Whole'
    BY <1>1, <1>2, <2>1, <2>5 DEF Disjoint, Whole
  <2>7. CASE rpc' \in {"lock", "first"}
    BY <1>2, <2>1, <2>5, <2>6, <2>7 DEF ServiceInv
  <2>8. CASE rpc' = "bucket" /\ idx' = 0 /\ due' \in Time
    <3>1. 0 <= Len(coro_time_queue[due'])
      BY <2>8 DEF TypeOK
    <3>2. ServiceInv'
      BY <2>1, <2>8, <3>1 DEF ServiceInv
    <3> QED BY <1>2, <2>1, <2>5, <2>6, <3>2
  <2> QED BY <2>2, <2>7, <2>8
<1>8. CASE BucketStep /\ idx < Len(coro_time_queue[due])
  <2> DEFINE f == coro_time_queue[due][idx + 1]
  <2>1. /\ UNCHANGED <<rpc, coro_queue, coro_time_queue, data, due, lost>> /\ rpc = "bucket"
        /\ started' = started \cup {f} /\ idx' = idx + 1 /\ due \in Time /\ idx \in Nat
    BY <1>8 DEF BucketStep, TypeOK
  <2>2. /\ f \in Timed(due)
        /\ \A t \in Time : Timed(t)' = IF t = due THEN Timed(t) \ {f} ELSE Timed(t)
        /\ Timers' = Timers \ {f}
        /\ OnceTimed'
    BY <1>8, <2>1, TimersServe
  <2>3. f \in Timers
    BY <2>1, <2>2 DEF Timers
  <2>4. Disjoint' /\ Whole'
    <3> HIDE DEF f
    <3> QED BY <1>1, <1>2, <2>1, <2>2, <2>3 DEF Disjoint, Whole
  <2>5. ServiceInv'
    <3>1. Len(coro_time_queue[due]) \in Nat
      BY <2>1 DEF TypeOK
    <3>2. idx' <= Len(coro_time_queue'[due'])
      BY <1>8, <2>1, <3>1
    <3>3. \A k \in 1 .. idx' : coro_time_queue'[due'][k] \in started'
      BY <2>1 DEF ServiceInv
    <3>4. rpc' # "invoke" => data' = NULL
      BY <2>1 DEF ServiceInv
    <3> HIDE DEF f
    <3> QED BY <3>2, <3>3, <3>4 DEF ServiceInv
  <2> QED BY <1>2, <2>1, <2>2, <2>4, <2>5
<1>9. CASE BucketStep /\ ~(idx < Len(coro_time_queue[due]))
  <2>1. /\ UNCHANGED <<coro_queue, coro_time_queue, data, due, idx, started, lost>>
        /\ rpc = "bucket" /\ rpc' = "erase"
    BY <1>9 DEF BucketStep
  <2>2. \A t \in Time : From(t)' = From(t)
    BY <2>1 DEF From
  <2>3. Timers' = Timers /\ OnceTimed' /\ \A t \in Time : Timed(t)' = Timed(t)
    BY <2>1, <2>2, TimersKept
  <2>4. Disjoint' /\ Whole' /\ ServiceInv'
    BY <1>1, <1>2, <2>1, <2>3 DEF Disjoint, Whole, ServiceInv
  <2> QED BY <1>2, <2>1, <2>3, <2>4
<1>10. CASE EraseBucket
  <2>1. /\ UNCHANGED <<coro_queue, data, due, idx, started>> /\ rpc = "erase" /\ rpc' = "timers"
        /\ coro_time_queue' = [coro_time_queue EXCEPT ![due] = <<>>]
        /\ lost' = lost \cup {coro_time_queue[due][i] : i \in idx + 1 .. Len(coro_time_queue[due])}
    BY <1>10 DEF EraseBucket
  <2>2. lost' = lost \cup Timed(due) /\ due \in Time
    BY <2>1 DEF Timed, From, TypeOK
  <2>3. Timers' = Timers \ Timed(due) /\ OnceTimed'
    BY <2>1, TimersErase
  <2>4. Timed(due) \subseteq Timers
    BY <2>2 DEF Timers
  <2>5. Disjoint' /\ Whole'
    BY <1>1, <1>2, <2>1, <2>2, <2>3, <2>4 DEF Disjoint, Whole
  <2>6. ServiceInv'
    BY <2>1 DEF ServiceInv
  <2> QED BY <1>2, <2>1, <2>3, <2>5, <2>6
<1> QED BY <1>4, <1>5, <1>6, <1>7, <1>8, <1>9, <1>10 DEF Routine

(* However posts and service interleave, a call that was posted is held by  *)
(* one post, or once in a container, or was started or lost, always one of  *)
(* these and never two.                                                     *)
THEOREM PlacesInductive == Spec => []PlaceInv
<1>1. Init => PlaceInv
  <2> SUFFICES ASSUME Init PROVE PlaceInv
    OBVIOUS
  <2>1. Held = {} /\ OnceHeld
    BY DEF Init, Held, OnceHeld, Pending
  <2>2. Range(coro_queue) = {} /\ IsInjective(coro_queue)
    BY RangeEmpty DEF Init, IsInjective
  <2>3. \A t \in Time : Len(coro_time_queue[t]) = 0 /\ From(t) = 1
    BY DEF Init, From
  <2>4. (\A t \in Time : Timed(t) = {}) /\ OnceTimed
    BY <2>3 DEF Timed, OnceTimed
  <2>5. Timers = {}
    BY <2>4 DEF Timers
  <2>6. Disjoint /\ Whole /\ ServiceInv
    BY <2>1, <2>2, <2>5 DEF Init, Disjoint, Whole, ServiceInv
  <2> QED BY <2>1, <2>2, <2>4, <2>6 DEF PlaceInv
<1>2. QueueInv /\ PlaceInv /\ [Next]_vars => PlaceInv'
  <2> SUFFICES ASSUME QueueInv, PlaceInv, [Next]_vars PROVE PlaceInv'
    OBVIOUS
  <2>1. CASE Routine
    BY <2>1, RoutinePlaces DEF QueueInv
  <2>2. CASE \E p \in Poster : Post(p) \/ \E f \in Func, d \in Delay : PushCoroTask(p, f, d)
    BY <2>2, PosterPlaces DEF QueueInv
  <2>3. CASE WaitTimeUp \/ Tick \/ UNCHANGED vars
    <3>1. UNCHANGED <<ppc, task, coro_queue, coro_time_queue, rpc, due, idx, data, started,
                      lost, posted>>
      BY <2>3 DEF WaitTimeUp, Tick, vars, routineVars, posterVars, callVars
    <3>2. Held' = Held /\ OnceHeld'
      BY <3>1, HeldKept DEF PlaceInv
    <3>3. \A t \in Time : From(t)' = From(t)
      BY <3>1 DEF From
    <3>4. Timers' = Timers /\ OnceTimed' /\ \A t \in Time : Timed(t)' = Timed(t)
      BY <3>1, <3>3, TimersKept DEF PlaceInv
    <3>5. Disjoint' /\ Whole' /\ ServiceInv'
      BY <3>1, <3>2, <3>4 DEF PlaceInv, Disjoint, Whole, ServiceInv
    <3> QED BY <3>1, <3>2, <3>4, <3>5 DEF PlaceInv
  <2> QED BY <2>1, <2>2, <2>3 DEF Next
<1> QED BY <1>1, <1>2, QueueInductive, PTL DEF Spec

LEMMA JustOne ==
  ASSUME NEW S, \A x, y \in S : x = y
  PROVE  Cardinality(S) = IF S = {} THEN 0 ELSE 1
<1>1. CASE S = {}
  BY <1>1, FS_EmptySet
<1>2. ASSUME NEW x \in S PROVE Cardinality(S) = 1
  <2>1. S = {x}
    BY <1>2
  <2> QED BY <2>1, FS_Singleton
<1> QED BY <1>1, <1>2

(* A call that was posted is in exactly one place: none vanishes, and none  *)
(* is invoked twice, or invoked and lost, however CheckTimeQueue's unlocked *)
(* loop and the posts interleave.                                           *)
THEOREM PlacesCorrect == Spec => []OnePlace
<1>1. TypeOK /\ PlaceInv => OnePlace
  <2> SUFFICES ASSUME TypeOK, PlaceInv, NEW f \in Func
               PROVE  Cardinality(Places(f)) = IF f \in posted THEN 1 ELSE 0
    BY DEF OnePlace
  <2> DEFINE P == {<<"posting", p, 0>> : p \in {q \in Poster : task[q] = f /\ ppc[q] \in Pending}}
             Q == {<<"queue", 0, i>> : i \in {k \in DOMAIN coro_queue : coro_queue[k] = f}}
             T(t) == {<<"timer", t, i>> : i \in {k \in DOMAIN Unserved(t) : Unserved(t)[k] = f}}
             U == UNION {T(t) : t \in Time}
             S == {<<s, 0, 0>> : s \in {k \in {"data", "started", "lost"} :
                     \/ k = "data" /\ data = f
                     \/ k = "started" /\ f \in started
                     \/ k = "lost" /\ f \in lost}}
  <2>1. Places(f) = P \cup Q \cup U \cup S
    BY DEF Places, Pending
  <2>2. (\A x, y \in P : x = y) /\ (P # {} <=> f \in Held)
    <3>1. \A x, y \in P : x = y
      BY DEF PlaceInv, OnceHeld
    <3>2. P # {} <=> \E q \in Poster : task[q] = f /\ ppc[q] \in Pending
      OBVIOUS
    <3>3. f \in Held <=> \E q \in Poster : task[q] = f /\ ppc[q] \in Pending
      BY DEF Held
    <3> QED BY <3>1, <3>2, <3>3
  <2>3. (\A x, y \in Q : x = y) /\ (Q # {} <=> f \in Range(coro_queue))
    <3>1. DOMAIN coro_queue = 1 .. Len(coro_queue)
          /\ Range(coro_queue) = {coro_queue[i] : i \in 1 .. Len(coro_queue)}
      BY RangeSeq DEF TypeOK
    <3>2. \A x, y \in Q : x = y
      BY <3>1 DEF PlaceInv, IsInjective
    <3>3. Q # {} <=> \E k \in DOMAIN coro_queue : coro_queue[k] = f
      OBVIOUS
    <3>4. f \in Range(coro_queue) <=> \E k \in DOMAIN coro_queue : coro_queue[k] = f
      BY <3>1
    <3> QED BY <3>2, <3>3, <3>4
  <2>4. (\A x, y \in U : x = y) /\ (U # {} <=> f \in Timers)
    <3>1. ASSUME NEW t \in Time, NEW x \in T(t)
          PROVE  \E i \in From(t) .. Len(coro_time_queue[t]) :
                   coro_time_queue[t][i] = f /\ x = <<"timer", t, i - (From(t) - 1)>>
      <4> DEFINE k == From(t) - 1
      <4>1. PICK j \in DOMAIN Unserved(t) : Unserved(t)[j] = f /\ x = <<"timer", t, j>>
        BY <3>1
      <4>2. /\ Len(coro_time_queue[t]) \in Nat /\ k \in 0 .. Len(coro_time_queue[t])
            /\ Unserved(t) \in Seq(Func)
            /\ Len(Unserved(t)) = Len(coro_time_queue[t]) - k
            /\ \A i \in 1 .. Len(coro_time_queue[t]) - k :
                 Unserved(t)[i] = coro_time_queue[t][i + k]
        BY UnservedAt DEF PlaceInv
      <4>3. j \in 1 .. Len(coro_time_queue[t]) - k
        BY <4>1, <4>2, RangeSeq
      <4>4. From(t) \in Int
        BY DEF From, TypeOK
      <4>5. j + k \in From(t) .. Len(coro_time_queue[t]) /\ (j + k) - k = j
        <5>1. From(t) = k + 1 /\ k \in Nat
          BY <4>2, <4>4
        <5>2. Len(coro_time_queue[t]) \in Nat /\ j \in 1 .. Len(coro_time_queue[t]) - k
          BY <4>2, <4>3
        <5> HIDE DEF k
        <5> QED BY ONLY <5>1, <5>2
      <4> HIDE DEF k
      <4>6. coro_time_queue[t][j + k] = f /\ x = <<"timer", t, (j + k) - k>>
        BY <4>1, <4>2, <4>3, <4>5
      <4> QED BY <4>5, <4>6 DEF k
    <3> HIDE DEF T
    <3>2. ASSUME NEW x \in U, NEW y \in U PROVE x = y
      <4>1. PICK t \in Time : x \in T(t)
        OBVIOUS
      <4>2. PICK u \in Time : y \in T(u)
        OBVIOUS
      <4>3. PICK i \in From(t) .. Len(coro_time_queue[t]) :
              coro_time_queue[t][i] = f /\ x = <<"timer", t, i - (From(t) - 1)>>
        BY <3>1, <4>1
      <4>4. PICK j \in From(u) .. Len(coro_time_queue[u]) :
              coro_time_queue[u][j] = f /\ y = <<"timer", u, j - (From(u) - 1)>>
        BY <3>1, <4>2
      <4>5. t = u /\ i = j
        BY <4>3, <4>4 DEF PlaceInv, OnceTimed
      <4> QED BY <4>3, <4>4, <4>5
    <3>3. ASSUME NEW x \in U PROVE f \in Timers
      <4>1. PICK t \in Time : x \in T(t)
        OBVIOUS
      <4> QED BY <3>1, <4>1 DEF Timers, Timed
    <3>4. ASSUME f \in Timers PROVE U # {}
      <4>1. PICK t \in Time : f \in Timed(t)
        BY <3>4 DEF Timers
      <4>2. Unserved(t) \in Seq(Func) /\ f \in Range(Unserved(t))
        BY <4>1, UnservedAt DEF PlaceInv
      <4>3. PICK j \in DOMAIN Unserved(t) : Unserved(t)[j] = f
        BY <4>2, RangeSeq
      <4>4. <<"timer", t, j>> \in T(t)
        BY <4>3 DEF T
      <4> QED BY <4>4
    <3> QED BY <3>2, <3>3, <3>4
  <2>5. ~(data = f /\ f \in started) /\ ~(data = f /\ f \in lost) /\ ~(f \in started /\ f \in lost)
    BY DEF PlaceInv, Disjoint
  <2>6. (\A x, y \in S : x = y) /\ (S # {} <=> f \in {data} \cup started \cup lost)
    BY <2>5
  <2> HIDE DEF P, Q, U, S
  <2>7. /\ P # {} => Q \cup U \cup S = {}
        /\ Q # {} => U \cup S = {}
        /\ U # {} => S = {}
    BY <2>2, <2>3, <2>4, <2>6 DEF PlaceInv, Disjoint
  <2>8. \A x, y \in Places(f) : x = y
    BY <2>1, <2>2, <2>3, <2>4, <2>6, <2>7
  <2>9. Places(f) # {} <=> f \in posted
    <3>1. f # NULL
      OBVIOUS
    <3> QED BY <2>1, <2>2, <2>3, <2>4, <2>6, <3>1 DEF PlaceInv, Whole
  <2> QED BY <2>8, <2>9, JustOne
<1> QED BY <1>1, TypeCorrect, PlacesInductive, PTL

-----------------------------------------------------------------------------
(* The queue implements CallLife *)

PostedCalls == (IF data = NULL THEN <<>> ELSE <<data>>) \o coro_queue
TimedCalls == {e \in Func \X Time : e[1] \in Range(Unserved(e[2]))}
CallTurn == IF rpc \in {"first", "bucket", "erase"} THEN due ELSE -1

\* TimedCalls by bucket; the call that Routine took is the first of PostedCalls
TimedView == TimedCalls = {e \in Func \X Time : e[1] \in Timed(e[2])}
PostedView ==
  /\ PostedCalls \in Seq(Func)
  /\ data = NULL => PostedCalls = coro_queue
  /\ data # NULL =>
       /\ PostedCalls # <<>>
       /\ Head(PostedCalls) = data
       /\ Tail(PostedCalls) = coro_queue
  /\ Range(PostedCalls) \subseteq Range(coro_queue) \cup {data}

LEMMA TimedPairs ==
  ASSUME TypeOK, ServiceInv
  PROVE  TimedView
<1>1. \A t \in Time : Range(Unserved(t)) = Timed(t)
  BY UnservedAt
<1> QED BY <1>1 DEF TimedCalls, TimedView

LEMMA PostedSeq ==
  ASSUME TypeOK
  PROVE  PostedView
<1> USE DEF PostedView
<1>1. coro_queue \in Seq(Func) /\ (data # NULL => data \in Func)
  BY DEF TypeOK
<1>2. CASE data = NULL
  <2>1. PostedCalls = coro_queue
    BY <1>1, <1>2 DEF PostedCalls
  <2> QED BY <1>1, <1>2, <2>1
<1>3. CASE data # NULL
  <2>1. PostedCalls = <<data>> \o coro_queue
    BY <1>3 DEF PostedCalls
  <2> DEFINE s == <<data>> \o coro_queue
  <2>2. s \in Seq(Func) /\ s # <<>> /\ Len(s) = Len(coro_queue) + 1 /\ s[1] = data
        /\ \A i \in 1 .. Len(coro_queue) : s[i + 1] = coro_queue[i]
    BY <1>1, <1>3
  <2>3. Head(s) = data
    BY <2>2
  <2>4. Tail(s) = coro_queue
    <3>1. Tail(s) \in Seq(Func) /\ Len(Tail(s)) = Len(coro_queue)
      BY <1>1, <2>2, HeadTail
    <3>2. \A i \in 1 .. Len(coro_queue) : Tail(s)[i] = coro_queue[i]
      BY <1>1, <2>2, HeadTail
    <3> HIDE DEF s
    <3> QED BY <1>1, <3>1, <3>2
  <2>5. Range(s) \subseteq Range(coro_queue) \cup {data}
    <3>1. Range(s) = {s[i] : i \in 1 .. Len(s)}
      BY <2>2, RangeSeq
    <3>2. Range(coro_queue) = {coro_queue[i] : i \in 1 .. Len(coro_queue)} /\ Len(coro_queue) \in Nat
      BY <1>1, RangeSeq
    <3> HIDE DEF s
    <3>3. ASSUME NEW i \in 1 .. Len(s) PROVE s[i] \in Range(coro_queue) \cup {data}
      <4>1. i = 1 \/ (i - 1 \in 1 .. Len(coro_queue) /\ (i - 1) + 1 = i)
        BY <2>2, <3>2, <3>3
      <4> QED BY <2>2, <3>2, <4>1
    <3> QED BY <3>1, <3>3
  <2> QED BY <1>3, <2>1, <2>2, <2>3, <2>4, <2>5
<1> QED BY <1>2, <1>3

\* A call that a post holds is not in the queue's hands yet.
LEMMA UnusedCalls ==
  ASSUME TypeOK, PlaceInv, NEW f \in Func, f \in Held
  PROVE  Calls!Unused(f)
<1>1. f \notin Range(coro_queue) \cup Timers \cup {data} \cup started \cup lost
  BY DEF PlaceInv, Disjoint
<1>2. ~Calls!InPosted(f)
  <2>1. PostedCalls \in Seq(Func) /\ f \notin Range(PostedCalls)
    BY <1>1, PostedSeq DEF PostedView
  <2>2. \A i \in 1 .. Len(PostedCalls) : PostedCalls[i] # f
    BY <2>1, RangeSeq
  <2> QED BY <2>2 DEF Calls!InPosted, PostedCalls
<1>3. ~Calls!InTimed(f)
  <2>1. \A t \in Time : <<f, t>> \notin TimedCalls
    BY <1>1, TimedPairs DEF TimedView, PlaceInv, Timers
  <2> QED BY <2>1 DEF Calls!InTimed, TimedCalls, Time
<1> QED BY <1>1, <1>2, <1>3 DEF Calls!Unused

\* Steps that CallLife does not see
LEMMA Stutters ==
  ASSUME UNCHANGED <<PostedCalls, TimedCalls, CallTurn, late, started, lost, now>>
  PROVE  UNCHANGED Calls!callLife
BY DEF Calls!callLife, PostedCalls, TimedCalls, CallTurn

\* The buckets as they were
LEMMA TimedSame ==
  ASSUME UNCHANGED coro_time_queue,
         \/ UNCHANGED <<rpc, due, idx>>
         \/ rpc \notin {"bucket", "erase"} /\ rpc' \notin {"bucket", "erase"}
  PROVE  TimedCalls' = TimedCalls
<1>1. \A t \in Time : Unserved(t)' = Unserved(t)
  BY DEF Unserved
<1> QED BY <1>1 DEF TimedCalls

LEMMA RefinePost ==
  ASSUME TypeOK, BucketInv, PlaceInv, TimedView, TimedView', NEW p \in Poster, Post(p)
  PROVE  Calls!Next \/ UNCHANGED Calls!callLife
<1> USE DEF PGoto, routineVars, posterVars, callVars
<1>1. UNCHANGED <<rpc, due, idx, data, started, now>> /\ UNCHANGED CallTurn
  BY DEF Post, PostLock, Stamp, Find, Add, AddFreed, Push, PostNotify, PostUnlock, CallTurn
<1>2. CASE PostLock(p) \/ Stamp(p) \/ Find(p) \/ PostNotify(p) \/ PostUnlock(p)
  <2>1. UNCHANGED <<coro_queue, coro_time_queue, late, lost>>
    BY <1>2 DEF PostLock, Stamp, Find, PostNotify, PostUnlock
  <2>2. UNCHANGED <<PostedCalls, TimedCalls>>
    BY <1>1, <2>1, TimedSame DEF PostedCalls
  <2> QED BY <1>1, <2>1, <2>2, Stutters
<1>3. CASE Add(p)
  <2> DEFINE f == task[p]
             v == ts[p]
  <2>1. /\ ppc[p] = "add" /\ f \in Func /\ v \in Time
        /\ coro_time_queue' = [coro_time_queue EXCEPT ![v] = Append(@, f)]
        /\ UNCHANGED <<coro_queue, lost, now>>
        /\ late' = IF v <= now THEN late \cup {f} ELSE late
    BY <1>3 DEF Add, TypeOK
  <2>2. f \in Held
    BY <2>1 DEF Held, Pending
  <2>3. Calls!Unused(f)
    BY <2>1, <2>2, UnusedCalls
  <2>4. \A t \in Time : Timed(t)' = IF t = v THEN Timed(t) \cup {f} ELSE Timed(t)
    BY <1>1, <2>1, <2>2, TimersAdd DEF PlaceInv, Disjoint
  <2> HIDE DEF f, v
  <2>5. TimedCalls' = TimedCalls \cup {<<f, v>>}
    <3>1. TimedCalls = {e \in Func \X Time : e[1] \in Timed(e[2])}
      BY DEF TimedView
    <3>2. TimedCalls' = {e \in Func \X Time : e[1] \in Timed(e[2])'}
      BY DEF TimedView
    <3>3. ASSUME NEW e \in Func \X Time
          PROVE  e[1] \in Timed(e[2])' <=> e[1] \in Timed(e[2]) \/ e = <<f, v>>
      BY <2>1, <2>4
    <3>4. <<f, v>> \in Func \X Time
      BY <2>1
    <3> QED BY <3>1, <3>2, <3>3, <3>4
  <2>6. UNCHANGED PostedCalls
    BY <1>1, <2>1 DEF PostedCalls
  <2>7. v \in 0 .. MaxTime /\ now \in 0 .. MaxTime
    BY <2>1 DEF TypeOK, Time
  <2>8. late' \in {late, late \cup {f}} /\ (late' # late \/ v < now => v <= now /\ f \in late')
    BY <2>1, <2>7
  <2>9. PICK g \in Func, t \in Calls!Deadline : g = f /\ t = v
    BY <2>1, <2>7 DEF Calls!Deadline
  <2>10. Calls!Unused(g)
    BY <2>3, <2>9 DEF Calls!Unused, Calls!InPosted, Calls!InTimed
  <2>11. Calls!PostAfter(g, t)
    BY <1>1, <2>1, <2>5, <2>6, <2>8, <2>9, <2>10
    DEF Calls!PostAfter, PostedCalls, TimedCalls, CallTurn
  <2> QED BY <2>11 DEF Calls!Next
<1>4. CASE Push(p)
  <2> DEFINE f == task[p]
  <2>1. /\ ppc[p] = "push" /\ f \in Func /\ coro_queue' = Append(coro_queue, f)
        /\ UNCHANGED <<coro_time_queue, late, lost>> /\ coro_queue \in Seq(Func)
    BY <1>4 DEF Push, TypeOK
  <2>2. f \in Held
    BY <2>1 DEF Held, Pending
  <2>3. Calls!Unused(f)
    BY <2>1, <2>2, UnusedCalls
  <2>4. UNCHANGED TimedCalls
    BY <1>1, <2>1, TimedSame
  <2> HIDE DEF f
  <2>5. PostedCalls' = Append(PostedCalls, f)
    <3>1. data \in Func \cup {NULL}
      BY DEF TypeOK
    <3> QED BY <1>1, <2>1, <3>1 DEF PostedCalls
  <2>6. Calls!Post(f)
    BY <1>1, <2>1, <2>3, <2>4, <2>5 DEF Calls!Post, PostedCalls, TimedCalls, CallTurn
  <2> QED BY <2>1, <2>6 DEF Calls!Next
<1>5. CASE AddFreed(p)
  <2>1. /\ ppc[p] = "freed" /\ task[p] \in Func /\ ts[p] \in Time
        /\ lost' = lost \cup {task[p]} /\ late' = late \cup {task[p]}
        /\ UNCHANGED <<coro_queue, coro_time_queue>>
    BY <1>5 DEF AddFreed, TypeOK
  <2>2. ts[p] <= now
    BY <2>1 DEF BucketInv
  <2>3. Calls!Unused(task[p])
    <3>1. task[p] \in Held
      BY <2>1 DEF Held, Pending
    <3> QED BY <2>1, <3>1, UnusedCalls
  <2>4. UNCHANGED <<PostedCalls, TimedCalls>>
    BY <1>1, <2>1, TimedSame DEF PostedCalls
  <2>5. ASSUME NEW g \in Func, NEW t \in Time, g = task[p], t = ts[p] PROVE Calls!Next
    <3>1. Calls!Unused(g)
      BY <2>3, <2>5
    <3>2. t <= now /\ lost' = lost \cup {g} /\ late' = late \cup {g}
      BY <2>1, <2>2, <2>5
    <3>3. Calls!PostLost(g, t)
      BY <1>1, <2>4, <3>1, <3>2 DEF Calls!PostLost, PostedCalls, TimedCalls, CallTurn
    <3>4. t \in Calls!Deadline
      BY DEF Calls!Deadline, Time
    <3> QED BY <3>3, <3>4 DEF Calls!Next
  <2> QED BY <2>1, <2>5
<1> QED BY <1>2, <1>3, <1>4, <1>5 DEF Post

LEMMA RefineRoutine ==
  ASSUME TypeOK, RoutineInv, BucketInv, PlaceInv, TimedView, TimedView',
         PostedView, PostedView', Routine
  PROVE  Calls!Next \/ UNCHANGED Calls!callLife
<1> USE DEF RGoto, posterVars, callVars
<1>1. UNCHANGED <<late, now>>
  BY DEF Routine, RoutineLock, RoutineWait, RoutineWake, RoutineTake, RoutineInvoke,
         CheckTimeQueue, ReadClock, BucketStep, EraseBucket
<1>2. TimedCalls = {e \in Func \X Time : e[1] \in Timed(e[2])}
  BY DEF TimedView
<1>3. TimedCalls' = {e \in Func \X Time : e[1] \in Timed(e[2])'}
  BY DEF TimedView
<1>4. CASE RoutineLock \/ RoutineWait \/ RoutineWake
  <2>1. /\ UNCHANGED <<coro_queue, coro_time_queue, data, started, lost>>
        /\ rpc \in {"lock", "test", "wait"} /\ rpc' \in {"test", "wait", "take"}
    BY <1>4 DEF RoutineLock, RoutineWait, RoutineWake
  <2>2. UNCHANGED <<PostedCalls, TimedCalls>> /\ UNCHANGED CallTurn
    BY <2>1, TimedSame DEF PostedCalls, CallTurn
  <2> QED BY <1>1, <2>1, <2>2, Stutters
<1>5. CASE RoutineTake
  <2>1. /\ UNCHANGED <<coro_time_queue, started, lost>> /\ rpc \in {"take", "test"}
        /\ rpc' \in {"timers", "invoke"} /\ data = NULL
    BY <1>5 DEF RoutineTake, PlaceInv, ServiceInv
  <2>2. UNCHANGED TimedCalls /\ UNCHANGED CallTurn
    BY <2>1, TimedSame DEF CallTurn
  <2>3. UNCHANGED PostedCalls
    <3>1. CASE coro_queue = <<>>
      BY <1>5, <3>1 DEF RoutineTake, PostedCalls
    <3>2. CASE coro_queue # <<>>
      <4>1. /\ data' = Head(coro_queue) /\ coro_queue' = Tail(coro_queue)
            /\ coro_queue \in Seq(Func)
        BY <1>5, <3>2 DEF RoutineTake, TypeOK
      <4>2. data' \in Func /\ data' # NULL
        BY <3>2, <4>1, HeadTail
      <4>3. /\ PostedCalls' \in Seq(Func) /\ PostedCalls' # <<>>
            /\ Head(PostedCalls') = Head(coro_queue) /\ Tail(PostedCalls') = Tail(coro_queue)
        BY <4>1, <4>2 DEF PostedView
      <4>4. PostedCalls' = coro_queue
        BY <3>2, <4>1, <4>3, SameHeadTail
      <4> QED BY <2>1, <4>4 DEF PostedView
    <3> QED BY <3>1, <3>2
  <2> QED BY <1>1, <2>1, <2>2, <2>3, Stutters
<1>6. CASE RoutineInvoke
  <2>1. /\ UNCHANGED <<coro_queue, coro_time_queue, lost>> /\ rpc = "invoke"
        /\ started' = started \cup {data} /\ data' = NULL /\ rpc' = "lock" /\ data # NULL
    BY <1>6 DEF RoutineInvoke, RoutineInv
  <2>2. UNCHANGED TimedCalls /\ UNCHANGED CallTurn
    BY <2>1, TimedSame DEF CallTurn
  <2>3. /\ PostedCalls # <<>> /\ Head(PostedCalls) = data /\ Tail(PostedCalls) = coro_queue
        /\ PostedCalls' = coro_queue
    BY <2>1 DEF PostedView
  <2>4. Calls!StartPosted
    BY <1>1, <2>1, <2>2, <2>3 DEF Calls!StartPosted, PostedCalls, TimedCalls, CallTurn
  <2> QED BY <2>4 DEF Calls!Next
<1>7. CASE CheckTimeQueue
  <2>1. UNCHANGED <<coro_queue, coro_time_queue, data, started, lost>> /\ rpc = "timers"
        /\ rpc' \in {"lock", "first"}
    BY <1>7 DEF CheckTimeQueue
  <2>2. UNCHANGED <<PostedCalls, TimedCalls>>
    BY <2>1, TimedSame DEF PostedCalls
  <2>3. CASE rpc' = "lock"
    <3>1. UNCHANGED CallTurn
      BY <2>1, <2>3 DEF CallTurn
    <3> QED BY <1>1, <2>1, <2>2, <3>1, Stutters
  <2>4. CASE rpc' = "first"
    <3>1. due' \in Time /\ First(due')
      BY <1>7, <2>4 DEF CheckTimeQueue
    <3>2. CallTurn = -1 /\ CallTurn' = due'
      BY <2>1, <2>4 DEF CallTurn
    <3>3. ASSUME NEW e \in TimedCalls PROVE due' <= e[2]
      <4>1. e[2] \in Time /\ e[1] \in Timed(e[2])
        BY <1>2
      <4>2. coro_time_queue[e[2]] # <<>>
        BY <2>1, <4>1 DEF Timed, From
      <4>3. ~(e[2] < due')
        BY <3>1, <4>1, <4>2 DEF First, HasKey
      <4> QED BY <3>1, <4>1, <4>3 DEF Time
    <3>4. ASSUME NEW t \in Time, t = due' PROVE Calls!Next
      <4>1. \A e \in TimedCalls : t <= e[2]
        BY <3>3, <3>4
      <4>2. CallTurn' = t
        BY <3>2, <3>4
      <4>3. Calls!Turn(t)
        BY <1>1, <2>1, <2>2, <3>2, <4>1, <4>2
        DEF Calls!Turn, Calls!NoTurn, PostedCalls, TimedCalls, CallTurn
      <4>4. t \in Calls!Deadline
        BY DEF Calls!Deadline, Time
      <4> QED BY <4>3, <4>4 DEF Calls!Next
    <3> QED BY <3>1, <3>4
  <2> QED BY <2>1, <2>3, <2>4
<1>11. CASE ReadClock
  <2>1. UNCHANGED <<coro_queue, coro_time_queue, data, due, started, lost>> /\ rpc = "first"
    BY <1>11 DEF ReadClock
  <2>2. rpc' = "lock" \/ (rpc' = "bucket" /\ idx' = 0)
    BY <1>11 DEF ReadClock
  <2>3. \A t \in Time : From(t) = 1 /\ From(t)' = 1
    BY <2>1, <2>2 DEF From
  <2>4. \A t \in Time : Timed(t)' = Timed(t)
    BY <2>1, <2>3, TimersKept DEF PlaceInv
  <2>5. UNCHANGED <<PostedCalls, TimedCalls>>
    BY <1>2, <1>3, <2>1, <2>4 DEF PostedCalls
  <2>6. CASE rpc' = "bucket"
    <3>1. UNCHANGED CallTurn
      BY <2>1, <2>6 DEF CallTurn
    <3> QED BY <1>1, <2>1, <2>5, <3>1, Stutters
  <2>7. CASE rpc' = "lock"
    <3>1. now < due
      BY <1>11, <2>7 DEF ReadClock
    <3>2. CallTurn = due /\ CallTurn' = -1 /\ due # -1
      BY <2>1, <2>7 DEF CallTurn, TypeOK, Time
    <3>3. {e[1] : e \in TimedCalls \ TimedCalls'} = {}
      BY <2>5
    <3>4. lost' = lost \cup {e[1] : e \in TimedCalls \ TimedCalls'}
      BY <2>1, <3>3
    <3>5. Calls!EndTurn
      BY <1>1, <2>1, <2>5, <3>1, <3>2, <3>4
      DEF Calls!EndTurn, Calls!NoTurn, PostedCalls, TimedCalls, CallTurn
    <3> QED BY <3>5 DEF Calls!Next
  <2> QED BY <2>2, <2>6, <2>7
<1>8. CASE BucketStep /\ idx < Len(coro_time_queue[due])
  <2> DEFINE f == coro_time_queue[due][idx + 1]
  <2>1. /\ UNCHANGED <<rpc, coro_queue, coro_time_queue, data, due, lost>> /\ rpc = "bucket"
        /\ started' = started \cup {f} /\ idx' = idx + 1 /\ due \in Time /\ f \in Func
    BY <1>8 DEF BucketStep, TypeOK
  <2>2. /\ f \in Timed(due)
        /\ \A t \in Time : Timed(t)' = IF t = due THEN Timed(t) \ {f} ELSE Timed(t)
    BY <1>8, <2>1, TimersServe DEF PlaceInv
  <2>3. due <= now /\ CallTurn = due /\ UNCHANGED CallTurn
    BY <2>1 DEF BucketInv, CallTurn
  <2> HIDE DEF f
  <2>4. <<f, due>> \in TimedCalls
    BY <1>2, <2>1, <2>2
  <2>5. TimedCalls' = TimedCalls \ {<<f, due>>}
    <3>1. ASSUME NEW e \in Func \X Time
          PROVE  e[1] \in Timed(e[2])' <=> e[1] \in Timed(e[2]) /\ e # <<f, due>>
      BY <2>1, <2>2
    <3> QED BY <1>2, <1>3, <3>1
  <2>6. UNCHANGED PostedCalls
    BY <2>1 DEF PostedCalls
  <2>7. PICK g \in Func : g = f
    BY <2>1
  <2>8. Calls!StartTimed(g)
    BY <1>1, <2>1, <2>3, <2>4, <2>5, <2>6, <2>7
    DEF Calls!StartTimed, PostedCalls, TimedCalls, CallTurn
  <2> QED BY <2>8 DEF Calls!Next
<1>9. CASE BucketStep /\ ~(idx < Len(coro_time_queue[due]))
  <2>1. /\ UNCHANGED <<coro_queue, coro_time_queue, data, due, idx, started, lost>>
        /\ rpc = "bucket" /\ rpc' = "erase"
    BY <1>9 DEF BucketStep
  <2>2. \A t \in Time : From(t)' = From(t)
    BY <2>1 DEF From
  <2>3. \A t \in Time : Timed(t)' = Timed(t)
    BY <2>1, <2>2, TimersKept DEF PlaceInv
  <2>4. UNCHANGED <<PostedCalls, TimedCalls>> /\ UNCHANGED CallTurn
    BY <1>2, <1>3, <2>1, <2>3 DEF PostedCalls, CallTurn
  <2> QED BY <1>1, <2>1, <2>4, Stutters
<1>10. CASE EraseBucket
  <2>1. /\ UNCHANGED <<coro_queue, data, due, idx, started>> /\ rpc = "erase" /\ rpc' = "timers"
        /\ coro_time_queue' = [coro_time_queue EXCEPT ![due] = <<>>]
        /\ lost' = lost \cup {coro_time_queue[due][i] : i \in idx + 1 .. Len(coro_time_queue[due])}
    BY <1>10 DEF EraseBucket
  <2>2. lost' = lost \cup Timed(due) /\ due \in Time
    BY <2>1 DEF Timed, From, TypeOK
  <2>3. \A t \in Time : Timed(t)' = IF t = due THEN {} ELSE Timed(t)
    BY <2>1, TimersErase DEF PlaceInv
  <2>4. Timed(due) \subseteq late
    BY <2>1, <2>2 DEF BucketInv, Timed, From
  <2>5. Timed(due) \subseteq Func
    <3>1. Range(Unserved(due)) = Timed(due) /\ Unserved(due) \in Seq(Func)
      BY <2>2, UnservedAt DEF PlaceInv
    <3> QED BY <3>1, RangeSeq
  <2>6. TimedCalls' \subseteq TimedCalls
        /\ TimedCalls \ TimedCalls' = {e \in Func \X Time : e[1] \in Timed(due) /\ e[2] = due}
    BY <1>2, <1>3, <2>3
  <2>7. {e[1] : e \in TimedCalls \ TimedCalls'} = Timed(due)
    <3>1. ASSUME NEW f \in Timed(due) PROVE f \in {e[1] : e \in TimedCalls \ TimedCalls'}
      <4>1. <<f, due>> \in TimedCalls \ TimedCalls' /\ <<f, due>>[1] = f
        BY <2>2, <2>5, <2>6, <3>1
      <4> QED BY <4>1
    <3>2. \A e \in TimedCalls \ TimedCalls' : e[1] \in Timed(due)
      BY <2>6
    <3> QED BY <3>1, <3>2
  <2>8. UNCHANGED PostedCalls
    BY <2>1 DEF PostedCalls
  <2>9. \A e \in TimedCalls \ TimedCalls' : e[1] \in late
    BY <2>4, <2>6
  <2>10. CallTurn = due /\ CallTurn' = -1 /\ due # -1 /\ ~(now < due)
    BY <2>1, <2>2 DEF CallTurn, BucketInv, TypeOK, Time
  <2>11. TimedCalls' = {e \in TimedCalls : e[2] # due}
    BY <1>2, <1>3, <2>3
  <2>12. lost' = lost \cup {e[1] : e \in TimedCalls \ TimedCalls'}
    BY <2>2, <2>7
  <2>13. Calls!EndTurn
    BY <1>1, <2>1, <2>8, <2>9, <2>10, <2>11, <2>12
    DEF Calls!EndTurn, Calls!NoTurn, PostedCalls, TimedCalls, CallTurn
  <2> QED BY <2>13 DEF Calls!Next
<1> QED BY <1>4, <1>5, <1>6, <1>7, <1>8, <1>9, <1>10, <1>11 DEF Routine

LEMMA RefineOther ==
  ASSUME \/ \E p \in Poster, f \in Func, d \in Delay : PushCoroTask(p, f, d)
         \/ WaitTimeUp \/ Tick \/ UNCHANGED vars
  PROVE  Calls!Next \/ UNCHANGED Calls!callLife
<1> USE DEF routineVars, posterVars, callVars
<1>1. UNCHANGED <<rpc, due, idx, data, coro_queue, coro_time_queue, started, lost, late>>
  BY DEF PushCoroTask, WaitTimeUp, Tick, vars
<1>2. UNCHANGED <<PostedCalls, TimedCalls>> /\ UNCHANGED CallTurn
  BY <1>1, TimedSame DEF PostedCalls, CallTurn
<1>3. CASE now' # now
  <2>1. now < MaxTime /\ now' = now + 1
    BY <1>3 DEF PushCoroTask, WaitTimeUp, Tick, vars
  <2>2. Calls!Tick
    BY <1>1, <1>2, <2>1 DEF Calls!Tick, PostedCalls, TimedCalls, CallTurn
  <2> QED BY <2>2 DEF Calls!Next
<1>4. CASE now' = now
  BY <1>1, <1>2, <1>4, Stutters
<1> QED BY <1>3, <1>4

(* Post and service, step by step, implement CallLife: a call is started    *)
(* once and never early, in the order of the posts or in the order of the   *)
(* deadlines as CheckTimeQueue's begin() finds them, and it is lost only if *)
(* it was late.                                                             *)
THEOREM CallsRefined == Spec => ImplementsCalls
<1>1. Init => Calls!Init
  <2> SUFFICES ASSUME Init PROVE Calls!Init
    OBVIOUS
  <2>1. PostedCalls = <<>>
    BY DEF Init, PostedCalls
  <2>2. \A t \in Time : Unserved(t) = <<>>
    BY DEF Init, Unserved
  <2>3. TimedCalls = {}
    BY <2>2, RangeEmpty DEF TimedCalls
  <2>4. CallTurn = Calls!NoTurn
    BY DEF Init, CallTurn, Calls!NoTurn
  <2> QED BY <2>1, <2>3, <2>4 DEF Init, Calls!Init, PostedCalls, TimedCalls, CallTurn
<1>2. QueueInv /\ PlaceInv => TimedView /\ PostedView
  BY TimedPairs, PostedSeq DEF QueueInv, PlaceInv
<1>3. QueueInv /\ PlaceInv /\ TimedView /\ TimedView' /\ PostedView /\ PostedView' /\ [Next]_vars
         => [Calls!Next]_(Calls!callLife)
  <2> SUFFICES ASSUME QueueInv, PlaceInv, TimedView, TimedView', PostedView, PostedView',
                      [Next]_vars
               PROVE  Calls!Next \/ UNCHANGED Calls!callLife
    OBVIOUS
  <2>1. TypeOK /\ RoutineInv /\ BucketInv
    BY DEF QueueInv
  <2>2. CASE \E p \in Poster : Post(p)
    BY <2>1, <2>2, RefinePost
  <2>3. CASE Routine
    BY <2>1, <2>3, RefineRoutine
  <2>4. CASE \/ \E p \in Poster, f \in Func, d \in Delay : PushCoroTask(p, f, d)
             \/ WaitTimeUp \/ Tick \/ UNCHANGED vars
    BY <2>1, <2>4, RefineOther
  <2> QED BY <2>2, <2>3, <2>4 DEF Next
<1> QED BY <1>1, <1>2, <1>3, QueueInductive, PlacesInductive, PTL DEF Spec, ImplementsCalls, Calls!Spec

=============================================================================
