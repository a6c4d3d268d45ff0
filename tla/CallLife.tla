------------------------------ MODULE CallLife ------------------------------
(***************************************************************************)
(* What a scheduler promises for the calls it is given, whoever gives them *)
(* and whichever thread and coroutine runs them.  A call is started once.  *)
(* Calls without a delay are started in the order of their posts.  Calls   *)
(* with one are never started early, and they are taken one deadline at a  *)
(* time: the scheduler turns to the earliest one that a call waits for, so *)
(* that only a call that is added while it is busy with one deadline can   *)
(* be overtaken, and only by the calls of that deadline.  And a call is    *)
(* lost only if its deadline had come when it was added.  Scheduler and    *)
(* TaskQueue are shown to implement this specification.                    *)
(***************************************************************************)
EXTENDS Integers, Sequences, FiniteSets

CONSTANTS
  Func,      \* the calls
  MaxTime    \* bound: where the clock stops

Deadline == 0 .. MaxTime
NoTurn == -1

VARIABLES
  posted,    \* the calls that wait for the scheduler, in the order of their posts
  timed,     \* <<f, t>>: call f waits for its deadline t
  turn,      \* the deadline the scheduler has turned to, or NoTurn
  late,      \* the calls that were added when their deadline had come
  running,   \* the calls that were started and have not returned
  done,
  lost,
  now

callLife == <<posted, timed, turn, late, running, done, lost, now>>

Init ==
  /\ posted = <<>>
  /\ timed = {}
  /\ turn = NoTurn
  /\ late = {}
  /\ running = {}
  /\ done = {}
  /\ lost = {}
  /\ now = 0

InPosted(f) == \E i \in 1 .. Len(posted) : posted[i] = f
InTimed(f) == \E t \in Deadline : <<f, t>> \in timed
Unused(f) == ~InPosted(f) /\ ~InTimed(f) /\ f \notin running \cup done \cup lost

Post(f) ==
  /\ Unused(f)
  /\ posted' = Append(posted, f)
  /\ UNCHANGED <<timed, turn, late, running, done, lost, now>>

PostAfter(f, t) ==
  /\ Unused(f)
  /\ timed' = timed \cup {<<f, t>>}
  /\ late' \in {late, late \cup {f}}
  /\ late' # late \/ t < now => t <= now /\ f \in late'
  /\ UNCHANGED <<posted, turn, running, done, lost, now>>

\* A call that nobody will find: its deadline had come while it was posted
PostLost(f, t) ==
  /\ Unused(f)
  /\ t <= now
  /\ late' = late \cup {f}
  /\ lost' = lost \cup {f}
  /\ UNCHANGED <<posted, timed, turn, running, done, now>>

\* Who runs on the scheduler starts a call of its own at once
StartNow(f) ==
  /\ Unused(f)
  /\ running' = running \cup {f}
  /\ UNCHANGED <<posted, timed, turn, late, done, lost, now>>

StartPosted ==
  /\ posted # <<>>
  /\ running' = running \cup {Head(posted)}
  /\ posted' = Tail(posted)
  /\ UNCHANGED <<timed, turn, late, done, lost, now>>

\* The scheduler turns to a deadline that no waiting call is before
Turn(t) ==
  /\ turn = NoTurn
  /\ \A e \in timed : t <= e[2]
  /\ turn' = t
  /\ UNCHANGED <<posted, timed, late, running, done, lost, now>>

StartTimed(f) ==
  /\ <<f, turn>> \in timed
  /\ turn <= now
  /\ timed' = timed \ {<<f, turn>>}
  /\ running' = running \cup {f}
  /\ UNCHANGED <<posted, turn, late, done, lost, now>>

\* It has done with the deadline, because it is still to come or because no
\* call waits for it any more but late ones, which are dropped
EndTurn ==
  /\ turn # NoTurn
  /\ turn' = NoTurn
  /\ timed' = IF now < turn THEN timed ELSE {e \in timed : e[2] # turn}
  /\ \A e \in timed \ timed' : e[1] \in late
  /\ lost' = lost \cup {e[1] : e \in timed \ timed'}
  /\ UNCHANGED <<posted, late, running, done, now>>

Finish(f) ==
  /\ f \in running
  /\ running' = running \ {f}
  /\ done' = done \cup {f}
  /\ UNCHANGED <<posted, timed, turn, late, lost, now>>

Tick ==
  /\ now < MaxTime
  /\ now' = now + 1
  /\ UNCHANGED <<posted, timed, turn, late, running, done, lost>>

Next ==
  \/ \E f \in Func : Post(f) \/ StartNow(f) \/ StartTimed(f) \/ Finish(f)
  \/ \E f \in Func, t \in Deadline : PostAfter(f, t) \/ PostLost(f, t)
  \/ \E t \in Deadline : Turn(t)
  \/ StartPosted
  \/ EndTurn
  \/ Tick

Spec == Init /\ [][Next]_callLife

=============================================================================
