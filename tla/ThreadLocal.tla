---------------------------- MODULE ThreadLocal ----------------------------
(***************************************************************************)
(* A ThreadLocal variable (thread_local.h): one slot per thread, made when *)
(* the thread first asks for it and destroyed when the thread exits.       *)
(* pthread's keys are external.                                            *)
(***************************************************************************)
CONSTANTS
  Thread,
  NoSlot,      \* the key has no value yet
  Initial,     \* what InitialValue puts into a new slot
  OfPointer    \* is this ThreadLocal<T*>?

VARIABLE slot

SlotInit == slot = [t \in Thread |-> NoSlot]

\* GetValue: the value that thread t finds, and the slot it may make for it
Value(t) == IF slot[t] = NoSlot THEN Initial ELSE slot[t]
GetValue(t) == slot' = [slot EXCEPT ![t] = Value(t)]
SetValue(t, v) == slot' = [slot EXCEPT ![t] = v]

\* Mutant: Destroy runs for threads without a slot too
DestroyAlways(t) == OfPointer

\* At the exit of thread t pthread calls Destroy if there is a slot, and the
\* Destroy of a ThreadLocal<T*> deletes the slot, a T**, as if it were a T:
\* undefined
DestroyUndefined(t) == OfPointer /\ slot[t] # NoSlot
Exit(t) == slot' = [slot EXCEPT ![t] = NoSlot]

=============================================================================
