-------------------------- MODULE CoroCreateProofs --------------------------
(***************************************************************************)
(* Contexts start as they were created, for any number of threads and of   *)
(* contexts, until a swap_coro is created at the same time as another.     *)
(***************************************************************************)
EXTENDS CoroCreate, TLAPS

USE CreateAssumption

Inside(t) == pc[t] # "out"

\* Where in coro_create a thread is once it has set a static variable
SinceNew == {"create", "save", "enter", "read_func", "read_arg", "leave", "back"}
SinceArg == {"new"} \cup SinceNew
SinceFunc == {"arg"} \cup SinceArg
SinceCreate == SinceNew \ {"create"}

\* What holds even after a race: every pointer that is followed was set
Pointers ==
  \A t \in Thread :
    /\ Inside(t) => ctx[t] \in Context
    /\ pc[t] \in SinceNew => new_coro \in Context
    /\ pc[t] \in SinceCreate => create_coro \in Thread

\* Without a race one thread at a time is in coro_create
Exclusive ==
  /\ \A t, u \in Thread : Inside(t) /\ Inside(u) => t = u
  /\ \A t \in Thread : Inside(t) /\ ctx[t] \in Ctx => g_create_mutex = t

\* and the static variables are what it has set so far
Progress ==
  \A t \in Thread :
    /\ pc[t] \in SinceFunc => coro_init_func = ctx[t]
    /\ pc[t] \in SinceArg => coro_init_arg = ctx[t]
    /\ pc[t] \in SinceNew => new_coro = ctx[t]
    /\ pc[t] \in SinceCreate => create_coro = t
    /\ pc[t] \in SinceCreate \ {"save"} => nctx[t] = t
    /\ pc[t] \in {"read_func", "read_arg", "leave", "back"} => running[t] = ctx[t]

CreateInv ==
  /\ TypeOK
  /\ Pointers
  /\ raced \/ (Exclusive /\ Progress /\ StartsAsCreated)

\* A thread enters coro_create with c: it races, or nobody else is there.
LEMMA EnterAlone ==
  ASSUME CreateInv, ~raced, NEW t \in Thread, NEW c \in Context, Begin(t, c), ~raced',
         c \in Sharing \/ g_create_mutex = NULL
  PROVE  \A u \in Thread : pc[u] = "out"
<1>1. SUFFICES ASSUME NEW u \in Thread, Inside(u) PROVE FALSE
  BY DEF Inside
<1>2. ctx[u] \in Creating /\ ctx[u] \in Context
  BY <1>1 DEF Creating, Inside, CreateInv, Pointers
<1>3. (Creating \cup {c}) \cap Sharing = {}
  BY <1>2 DEF Begin
<1>4. ctx[u] \in Ctx /\ g_create_mutex = NULL
  BY <1>2, <1>3 DEF Context
<1> QED BY <1>1, <1>4 DEF CreateInv, Exclusive

\* The entry of coro_create, by Resume or by SwapContext::Init.
LEMMA EnterCreate ==
  ASSUME CreateInv, NEW t \in Thread, Resume(t) \/ SwapInit(t)
  PROVE  CreateInv'
<1>1. PICK c \in Context :
        /\ Begin(t, c)
        /\ \/ g_create_mutex = NULL /\ g_create_mutex' = t
           \/ c \in Sharing /\ c \notin Ctx /\ UNCHANGED g_create_mutex
  BY DEF Resume, SwapInit, Context
<1>2. TypeOK'
  BY <1>1 DEF Begin, statics, visitVars, CreateInv, TypeOK
<1>3. Pointers'
  BY <1>1 DEF Begin, statics, visitVars, CreateInv, TypeOK, Pointers, Inside, SinceNew,
              SinceCreate
<1>4. CASE raced'
  BY <1>2, <1>3, <1>4 DEF CreateInv
<1>5. CASE ~raced'
  <2>1. ~raced
    BY <1>1, <1>5 DEF Begin
  <2>2. \A u \in Thread : pc[u] = "out"
    BY <1>1, <1>5, <2>1, EnterAlone
  <2>3. Exclusive'
    BY <1>1, <2>2 DEF Begin, CreateInv, TypeOK, Exclusive, Inside
  <2>4. Progress'
    BY <1>1, <2>2 DEF Begin, CreateInv, TypeOK, Progress, SinceFunc, SinceArg, SinceNew,
                        SinceCreate
  <2>5. StartsAsCreated'
    BY <1>1, <2>1, <2>2 DEF Begin, visitVars, CreateInv, TypeOK, StartsAsCreated
  <2> QED BY <1>2, <1>3, <2>3, <2>4, <2>5 DEF CreateInv
<1> QED BY <1>4, <1>5

\* The steps inside coro_create: pointers stay set after a race,
LEMMA StepPointers ==
  ASSUME CreateInv, NEW t \in Thread, CoroCreate(t)
  PROVE  TypeOK' /\ Pointers' /\ UNCHANGED raced
<1> USE DEF CreateInv, Goto, Inside, Pointers, TypeOK, SinceNew, SinceCreate
<1>1. CASE SetFunc(t)
  BY <1>1 DEF SetFunc, statics, visitVars
<1>2. CASE SetArg(t)
  BY <1>2 DEF SetArg, statics, visitVars
<1>3. CASE SetNew(t)
  BY <1>3 DEF SetNew, statics, visitVars
<1>4. CASE SetCreate(t)
  BY <1>4 DEF SetCreate, statics, visitVars
<1>5. CASE Save(t)
  BY <1>5 DEF Save, statics, visitVars
<1>6. CASE Enter(t)
  BY <1>6 DEF Enter, statics, visitVars
<1>7. CASE ReadFunc(t)
  BY <1>7 DEF ReadFunc, statics, visitVars
<1>8. CASE ReadArg(t)
  BY <1>8 DEF ReadArg, statics, visitVars
<1>9. CASE Leave(t)
  BY <1>9 DEF Leave, statics, visitVars
<1>10. CASE Back(t)
  BY <1>10 DEF Back, statics, visitVars
<1> QED BY <1>1, <1>2, <1>3, <1>4, <1>5, <1>6, <1>7, <1>8, <1>9, <1>10 DEF CoroCreate

\* and without one they are the thread's own.
LEMMA StepAlone ==
  ASSUME CreateInv, ~raced, NEW t \in Thread, CoroCreate(t)
  PROVE  (Exclusive /\ Progress /\ StartsAsCreated)'
<1> USE DEF CreateInv, Goto, Inside, TypeOK, Exclusive, Progress, StartsAsCreated, SinceFunc,
            SinceArg, SinceNew, SinceCreate
<1>1. Inside(t) /\ \A u \in Thread : u # t => pc[u] = "out"
  BY DEF CoroCreate, SetFunc, SetArg, SetNew, SetCreate, Save, Enter, ReadFunc, ReadArg, Leave, Back
<1>2. ctx[t] \in Context
  BY <1>1 DEF Pointers
<1>3. CASE SetFunc(t)
  BY <1>1, <1>2, <1>3 DEF SetFunc, statics, visitVars
<1>4. CASE SetArg(t)
  BY <1>1, <1>2, <1>4 DEF SetArg, statics, visitVars
<1>5. CASE SetNew(t)
  BY <1>1, <1>2, <1>5 DEF SetNew, statics, visitVars
<1>6. CASE SetCreate(t)
  BY <1>1, <1>2, <1>6 DEF SetCreate, statics, visitVars
<1>7. CASE Save(t)
  BY <1>1, <1>2, <1>7 DEF Save, statics, visitVars
<1>8. CASE Enter(t)
  BY <1>1, <1>2, <1>8 DEF Enter, statics, visitVars
<1>9. CASE ReadFunc(t)
  BY <1>1, <1>2, <1>9 DEF ReadFunc, statics, visitVars
<1>10. CASE ReadArg(t)
  BY <1>1, <1>2, <1>10 DEF ReadArg, statics, visitVars
<1>11. CASE Leave(t)
  BY <1>1, <1>2, <1>11 DEF Leave, statics, visitVars
<1>12. CASE Back(t)
  BY <1>1, <1>2, <1>12 DEF Back, statics, visitVars
<1> QED BY <1>3, <1>4, <1>5, <1>6, <1>7, <1>8, <1>9, <1>10, <1>11, <1>12 DEF CoroCreate

(* CreateInv holds for any number of threads and of contexts.              *)
THEOREM CreateInductive == Spec => []CreateInv
<1>1. Init => CreateInv
  BY DEF Init, CreateInv, TypeOK, Pointers, Inside, Exclusive, Progress, StartsAsCreated,
         SinceFunc, SinceArg, SinceNew, SinceCreate
<1>2. CreateInv /\ [Next]_vars => CreateInv'
  <2>1. SUFFICES ASSUME CreateInv, [Next]_vars PROVE CreateInv'
    OBVIOUS
  <2>2. CASE UNCHANGED vars
    BY <2>1, <2>2 DEF vars, statics, visitVars, CreateInv, TypeOK, Pointers, Inside, Exclusive,
                      Progress, StartsAsCreated
  <2>3. ASSUME NEW t \in Thread, CoroCreate(t) PROVE CreateInv'
    BY <2>1, <2>3, StepPointers, StepAlone DEF CreateInv
  <2>4. CASE Next
    BY <2>1, <2>3, <2>4, EnterCreate DEF Next
  <2> QED BY <2>1, <2>2, <2>4
<1> QED BY <1>1, <1>2, PTL DEF Spec

(* Races or not, a thread in coro_init is on the stack of a context:       *)
(* coro_transfer never follows a pointer that was not set.                 *)
THEOREM TypeCorrect == Spec => []TypeOK
<1>1. CreateInv => TypeOK
  BY DEF CreateInv
<1> QED BY <1>1, CreateInductive, PTL

(* Whatever the number of threads and of contexts, contexts start as they  *)
(* were created unless a swap_coro is created at the same time as another  *)
(* context: g_create_mutex protects everything but SwapContext::Init.      *)
THEOREM CreateCorrect == Spec => []OnlySwapRaces
<1>1. CreateInv => OnlySwapRaces
  BY DEF CreateInv, OnlySwapRaces
<1> QED BY <1>1, CreateInductive, PTL

(* Where stacks are not shared, every context starts as it was created.    *)
THEOREM CreateWithoutSharing ==
  ASSUME Sharing = {}
  PROVE  Spec => []StartsAsCreated
<1> DEFINE Inv == ~raced
<1>1. Init => Inv
  BY DEF Init
<1>2. Inv /\ [Next]_vars => Inv'
  BY DEF Next, Resume, SwapInit, Begin, CoroCreate, SetFunc, SetArg, SetNew, SetCreate, Save,
         Enter, ReadFunc, ReadArg, Leave, Back, vars
<1>3. Inv /\ OnlySwapRaces => StartsAsCreated
  BY DEF OnlySwapRaces
<1> QED BY <1>1, <1>2, <1>3, CreateCorrect, PTL DEF Spec

=============================================================================
