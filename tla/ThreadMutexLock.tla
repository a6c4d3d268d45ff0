-------------------------- MODULE ThreadMutexLock --------------------------
(***************************************************************************)
(* ThreadMutexLock: a mutex with one condition variable and a timed wait   *)
(* (thread_mutex_lock.h over thread_mutex.h and thread_condition.h), for   *)
(* threads that share one such lock.  Time passes in milliseconds and is   *)
(* kept as what is left of each wait; the absolute time in nanoseconds     *)
(* that setWaitTime computes is left out, its conversions are not.         *)
(***************************************************************************)
EXTENDS Integers

CONSTANTS
  Thread,    \* the threads that use the lock
  NULL,
  Forever,   \* what is left of a wait without a time
  Half       \* 2^63: where the values of int64_t end, half of uint64_t's

ASSUME LockAssumption ==
  /\ NULL \notin Thread
  /\ Forever \notin Int
  /\ Half \in Nat \ {0}

VARIABLES
  holder,    \* who holds the mutex, or NULL
  sleeping,  \* the threads in pthread_cond_wait or pthread_cond_timedwait
  left       \* milliseconds left of a thread's last wait; may be negative

lockVars == <<holder, sleeping, left>>

LockInit ==
  /\ holder = NULL
  /\ sleeping = {}
  /\ left = [t \in Thread |-> 0]

Lock(t) ==
  /\ holder = NULL
  /\ holder' = t
  /\ UNCHANGED <<sleeping, left>>

Unlock(t) ==
  /\ holder = t
  /\ holder' = NULL
  /\ UNCHANGED <<sleeping, left>>

\* The conversions to the uint64_t of Wait's parameter and to the int64_t of
\* setWaitTime's
Unsigned(n) == n % (2 * Half)
Signed(n) == IF n < Half THEN n ELSE n - 2 * Half

Wait(t, timeout) ==
  /\ holder = t
  /\ holder' = NULL
  /\ sleeping' = sleeping \cup {t}
  /\ left' = [left EXCEPT ![t] =
       IF Unsigned(timeout) <= 0 THEN Forever ELSE Signed(Unsigned(timeout))]

\* Notify wakes a sleeping thread, if there is one
Notify ==
  /\ IF sleeping = {} THEN UNCHANGED sleeping
                      ELSE \E t \in sleeping : sleeping' = sleeping \ {t}
  /\ UNCHANGED <<holder, left>>

\* pthread_cond_timedwait gives up when its time has come
TimeUp(t) ==
  /\ t \in sleeping
  /\ left[t] # Forever
  /\ left[t] <= 0
  /\ sleeping' = sleeping \ {t}
  /\ UNCHANGED <<holder, left>>

\* A millisecond passes for every sleeping thread
Pass ==
  left' = [t \in Thread |->
    IF t \in sleeping /\ left[t] # Forever /\ left[t] > 0 THEN left[t] - 1 ELSE left[t]]

=============================================================================
