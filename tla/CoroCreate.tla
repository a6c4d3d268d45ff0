----------------------------- MODULE CoroCreate -----------------------------
(***************************************************************************)
(* Creating contexts in several threads.  coro_create (coro.c, assembler   *)
(* backend) hands the new context its function through static variables    *)
(* and visits the new context once, where coro_init reads them.  Resume    *)
(* calls it with g_create_mutex held; SwapContext::Init, which creates the *)
(* context that switches two coroutines of one shared stack, calls it      *)
(* without.  Every read and every write of a static variable is a step.    *)
(***************************************************************************)
EXTENDS Naturals

CONSTANTS
  Thread,    \* the threads that run coroutines
  Sharing,   \* those of them whose coroutines share stacks
  Ctx,       \* the contexts that Resume creates
  NULL

Context == Ctx \cup Sharing   \* a thread's swap_coro is named after the thread

ASSUME CreateAssumption ==
  /\ Sharing \subseteq Thread
  /\ Ctx \cap Thread = {}
  /\ NULL \notin Thread \cup Ctx

VARIABLES
  g_create_mutex,              \* the thread that holds it, or NULL
  coro_init_func,              \* the static variables of coro.c; a function
  coro_init_arg,               \* and its argument are named after their
  new_coro, create_coro,       \* context, a thread's nctx after the thread
  pc,                          \* where a thread is in coro_create
  ctx,                         \* the context it creates there
  nctx,                        \* the thread whose context is saved in the nctx
                               \* of a thread's coro_create
  running,                     \* the context whose stack it visits
  func, arg,                   \* coro_init's func and arg on the stack of a
                               \* context, with which it starts when it is
                               \* resumed; NULL: not created yet
  raced                        \* history: has a swap_coro been created at the
                               \* same time as another context?

statics == <<coro_init_func, coro_init_arg, new_coro, create_coro>>
visitVars == <<nctx, running, func, arg>>
vars == <<g_create_mutex, statics, pc, ctx, visitVars, raced>>

Init ==
  /\ g_create_mutex = NULL
  /\ coro_init_func = NULL
  /\ coro_init_arg = NULL
  /\ new_coro = NULL
  /\ create_coro = NULL
  /\ pc = [t \in Thread |-> "out"]
  /\ ctx = [t \in Thread |-> NULL]
  /\ nctx = [t \in Thread |-> NULL]
  /\ running = [t \in Thread |-> NULL]
  /\ func = [c \in Context |-> NULL]
  /\ arg = [c \in Context |-> NULL]
  /\ raced = FALSE

Creating == {ctx[t] : t \in {u \in Thread : pc[u] # "out"}}

Begin(t, c) ==
  /\ pc[t] = "out"
  /\ func[c] = NULL
  /\ c \notin Creating
  /\ ctx' = [ctx EXCEPT ![t] = c]
  /\ pc' = [pc EXCEPT ![t] = "func"]
  /\ raced' = (raced \/ (Creating # {} /\ (Creating \cup {c}) \cap Sharing # {}))
  /\ UNCHANGED <<statics, visitVars>>

\* Mutant: Resume does not lock
ResumeUnlocked(t) ==
  /\ UNCHANGED g_create_mutex
  /\ \E c \in Ctx : Begin(t, c)

\* Resume of a coroutine whose context is not created yet
Resume(t) ==
  /\ g_create_mutex = NULL
  /\ g_create_mutex' = t
  /\ \E c \in Ctx : Begin(t, c)

\* SwapContext::Init, when two coroutines of one stack first meet in the thread
SwapInit(t) ==
  /\ t \in Sharing
  /\ Begin(t, t)
  /\ UNCHANGED g_create_mutex

Goto(t, from, to) == pc[t] = from /\ pc' = [pc EXCEPT ![t] = to]

\* coro_create sets the static variables, and the entry frame of ctx
SetFunc(t) ==
  /\ Goto(t, "func", "arg")
  /\ coro_init_func' = ctx[t]
  /\ UNCHANGED <<g_create_mutex, coro_init_arg, new_coro, create_coro, ctx, visitVars, raced>>

\* Mutant: the pointers are not set
SetArgEnters(t) ==
  /\ Goto(t, "arg", "save")
  /\ coro_init_arg' = ctx[t]
  /\ UNCHANGED <<g_create_mutex, coro_init_func, new_coro, create_coro, ctx, visitVars, raced>>

SetArg(t) ==
  /\ Goto(t, "arg", "new")
  /\ coro_init_arg' = ctx[t]
  /\ UNCHANGED <<g_create_mutex, coro_init_func, new_coro, create_coro, ctx, visitVars, raced>>

SetNew(t) ==
  /\ Goto(t, "new", "create")
  /\ new_coro' = ctx[t]
  /\ UNCHANGED <<g_create_mutex, coro_init_func, coro_init_arg, create_coro, ctx, visitVars,
                 raced>>

SetCreate(t) ==
  /\ Goto(t, "create", "save")
  /\ create_coro' = t
  /\ UNCHANGED <<g_create_mutex, coro_init_func, coro_init_arg, new_coro, ctx, visitVars,
                 raced>>

\* coro_transfer (create_coro, new_coro): the thread saves its own context and
\* goes on in coro_init
Save(t) ==
  /\ Goto(t, "save", "enter")
  /\ nctx' = [nctx EXCEPT ![create_coro] = t]
  /\ UNCHANGED <<g_create_mutex, statics, ctx, running, func, arg, raced>>

Enter(t) ==
  /\ Goto(t, "enter", "read_func")
  /\ running' = [running EXCEPT ![t] = new_coro]
  /\ UNCHANGED <<g_create_mutex, statics, ctx, nctx, func, arg, raced>>

\* coro_init reads what the context will start with
ReadFunc(t) ==
  /\ Goto(t, "read_func", "read_arg")
  /\ func' = [func EXCEPT ![running[t]] = coro_init_func]
  /\ UNCHANGED <<g_create_mutex, statics, ctx, nctx, running, arg, raced>>

ReadArg(t) ==
  /\ Goto(t, "read_arg", "leave")
  /\ arg' = [arg EXCEPT ![running[t]] = coro_init_arg]
  /\ UNCHANGED <<g_create_mutex, statics, ctx, nctx, running, func, raced>>

\* coro_transfer (new_coro, create_coro) back to the caller, who unlocks.
\* Where the pointers are not the thread's own it goes on in the frames of
\* another thread: nothing is modelled after that.
Leave(t) ==
  /\ Goto(t, "leave", "back")
  /\ new_coro = ctx[t]
  /\ UNCHANGED <<g_create_mutex, statics, ctx, visitVars, raced>>

Back(t) ==
  /\ Goto(t, "back", "out")
  /\ create_coro = t /\ nctx[t] = t
  /\ g_create_mutex' = IF ctx[t] \in Ctx THEN NULL ELSE g_create_mutex
  /\ UNCHANGED <<statics, ctx, visitVars, raced>>

CoroCreate(t) ==
  \/ SetFunc(t) \/ SetArg(t) \/ SetNew(t) \/ SetCreate(t)
  \/ Save(t) \/ Enter(t)
  \/ ReadFunc(t) \/ ReadArg(t)
  \/ Leave(t) \/ Back(t)

Next == \E t \in Thread : Resume(t) \/ SwapInit(t) \/ CoroCreate(t)

Spec == Init /\ [][Next]_vars

-----------------------------------------------------------------------------
(* Properties *)

(* Type invariant; a thread that left its own stack is on that of a        *)
(* context: coro_transfer is never given a pointer that was not set.       *)
TypeOK ==
  /\ g_create_mutex \in Thread \cup {NULL}
  /\ {coro_init_func, coro_init_arg, new_coro} \subseteq Context \cup {NULL}
  /\ create_coro \in Thread \cup {NULL}
  /\ pc \in [Thread -> {"out", "func", "arg", "new", "create", "save", "enter", "read_func",
                        "read_arg", "leave", "back"}]
  /\ ctx \in [Thread -> Context \cup {NULL}]
  /\ nctx \in [Thread -> Thread \cup {NULL}]
  /\ running \in [Thread -> Context \cup {NULL}]
  /\ \A t \in Thread :
       /\ pc[t] = "save" => create_coro \in Thread
       /\ pc[t] \in {"read_func", "read_arg", "leave", "back"} => running[t] \in Context
  /\ func \in [Context -> Context \cup {NULL}]
  /\ arg \in [Context -> Context \cup {NULL}]
  /\ raced \in BOOLEAN

(* "This function is not reentrant, but putting a mutex around it will     *)
(* work" (coro.h:194): a context that is created will start with the       *)
(* function and the argument it was created with, and a thread comes back  *)
(* from coro_create to its own caller (coro_create, coro_init).            *)
StartsAsCreated ==
  /\ \A c \in Context : {func[c], arg[c]} \subseteq {c, NULL}
  /\ \A t \in Thread :
       /\ pc[t] \in {"leave", "back"} => new_coro = ctx[t]
       /\ pc[t] = "back" => create_coro = t /\ nctx[t] = t

(* The mutex does work: contexts start as they were created unless a       *)
(* swap_coro was created at the same time as another context.              *)
OnlySwapRaces == raced \/ StartsAsCreated

=============================================================================
