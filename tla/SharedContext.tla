--------------------------- MODULE SharedContext ---------------------------
(***************************************************************************)
(* Worker threads that share whisper.cpp models.                           *)
(*                                                                         *)
(* A Context owns one native whisper_context and is shared through         *)
(* Arc<Context>; every State owns one native whisper_state and one clone   *)
(* of that Arc.  The module follows Context::new, Context::create_state,   *)
(* State::full and the two Drop impls from lock to lock and from native    *)
(* call to native call, so that every interleaving of the threads between  *)
(* those points is a behaviour.                                            *)
(*                                                                         *)
(* Contexts and States are the native allocations a run may make: an       *)
(* element is used once, so a freed one is never handed out again.         *)
(***************************************************************************)
EXTENDS Integers, FiniteSets

CONSTANTS
  Threads,            (* the threads of the host program                   *)
  Contexts,           (* native whisper_context allocations                *)
  States,             (* native whisper_state allocations                  *)
  ExceptionCodes,     (* what the shim returns for a caught C++ exception  *)
  RecoverableCodes,   (* whisper_full failures that leave the state usable *)
  NoThread, NoContext, NoState

BadAlloc      == -100      \* WHISPERCPP_ERR_BAD_ALLOC, the first sentinel
FreedUpstream == -7        \* whisper_full_with_state freed its state itself
NoCode        == 0

ASSUME NamesAssumption ==
  /\ Threads \cap States = {}
  /\ NoThread \notin Threads
  /\ NoContext \notin Contexts
  /\ NoState \notin States

ASSUME CodesAssumption ==
  /\ ExceptionCodes \subseteq {n \in Int : n <= BadAlloc}
  /\ RecoverableCodes \subseteq {n \in Int : n > BadAlloc /\ n \notin {FreedUpstream, NoCode}}

VARIABLES
  lost,       \* Context.lost: the Context is poisoned
  fullLock,   \* Context.full_lock: the thread holding it
  arcs,       \* the threads holding an Arc<Context> of their own
  ctx,        \* the native whisper_context
  owner,      \* State.ctx: the Context a native state was created on
  handle,     \* the Rust State: its ptr is Some or None, being dropped, gone
  native,     \* the native whisper_state
  initLock,   \* the process-wide init_lock
  sentinel,   \* g_last_constructor_exception, one per thread
  pc,         \* where each thread is
  onCtx,      \* the Context its call works on
  onState,    \* the State (or the raw state pointer) its call works on
  rc,         \* what its last native call came back with
  ret,        \* what its last call returned
  cause,      \* history: the native code that lost a state
  late        \* history: states handed out by an already poisoned Context

locks  == <<initLock, fullLock>>
refs   == <<arcs, owner, handle>>
heap   == <<ctx, native>>
calls  == <<pc, onCtx, onState, rc, ret>>
vars   == <<lost, locks, refs, heap, sentinel, calls, cause, late>>

Block   == {"none", "live", "freed", "freed twice"}
Handle  == {"none", "some", "null", "dropping", "gone"}
Kinds   == {"none", "Ok", "ContextLoad", "ContextPoisoned", "StateInit",
            "Rejected", "StateLost", "Full"}
Codes   == {NoCode, FreedUpstream} \cup ExceptionCodes \cup RecoverableCodes
Labels  == {"idle",
            "new: lock", "new: native", "new: settle",
            "create: lock", "create: native", "create: recheck",
            "create: discard", "create: publish",
            "full: lock", "full: check", "full: native", "full: forget",
            "full: mark", "full: mark first", "full: free", "full: unlock",
            "drop: arc", "drop: context"}

Result(kind, code) == [kind |-> kind, code |-> code]
NoResult           == Result("none", NoCode)

TypeOK ==
  /\ lost     \in [Contexts -> BOOLEAN]
  /\ fullLock \in [Contexts -> Threads \cup {NoThread}]
  /\ arcs     \in [Contexts -> SUBSET Threads]
  /\ ctx      \in [Contexts -> Block]
  /\ owner    \in [States -> Contexts \cup {NoContext}]
  /\ handle   \in [States -> Handle]
  /\ native   \in [States -> Block]
  /\ initLock \in Threads \cup {NoThread}
  /\ sentinel \in [Threads -> ExceptionCodes \cup {NoCode}]
  /\ pc       \in [Threads -> Labels]
  /\ onCtx    \in [Threads -> Contexts \cup {NoContext}]
  /\ onState  \in [Threads -> States \cup {NoState}]
  /\ rc       \in [Threads -> Codes]
  /\ ret      \in [Threads -> [kind : Kinds, code : Codes]]
  /\ cause    \in [States -> Codes]
  /\ late     \in SUBSET States

Init ==
  /\ lost     = [c \in Contexts |-> FALSE]
  /\ fullLock = [c \in Contexts |-> NoThread]
  /\ arcs     = [c \in Contexts |-> {}]
  /\ ctx      = [c \in Contexts |-> "none"]
  /\ owner    = [s \in States |-> NoContext]
  /\ handle   = [s \in States |-> "none"]
  /\ native   = [s \in States |-> "none"]
  /\ initLock = NoThread
  /\ sentinel = [t \in Threads |-> NoCode]
  /\ pc       = [t \in Threads |-> "idle"]
  /\ onCtx    = [t \in Threads |-> NoContext]
  /\ onState  = [t \in Threads |-> NoState]
  /\ rc       = [t \in Threads |-> NoCode]
  /\ ret      = [t \in Threads |-> NoResult]
  /\ cause    = [s \in States |-> NoCode]
  /\ late     = {}

-----------------------------------------------------------------------------
(***************************************************************************)
(* Calls: a call starts on an idle thread, moves between labels and        *)
(* returns a result.                                                       *)
(***************************************************************************)
Goto(t, label) == pc' = [pc EXCEPT ![t] = label]

\* A call begins; the program has consumed the previous answer.
Begin(t, label, c, s) ==
  /\ pc[t] = "idle"
  /\ Goto(t, label)
  /\ onCtx'   = [onCtx EXCEPT ![t] = c]
  /\ onState' = [onState EXCEPT ![t] = s]
  /\ rc'      = [rc EXCEPT ![t] = NoCode]
  /\ ret'     = [ret EXCEPT ![t] = NoResult]

\* A call that is answered before it touches any shared or native state.
Refuse(t, result) ==
  /\ pc[t] = "idle"
  /\ rc'  = [rc EXCEPT ![t] = NoCode]
  /\ ret' = [ret EXCEPT ![t] = result]
  /\ UNCHANGED <<pc, onCtx, onState>>

Return(t, result) ==
  /\ Goto(t, "idle")
  /\ onCtx'   = [onCtx EXCEPT ![t] = NoContext]
  /\ onState' = [onState EXCEPT ![t] = NoState]
  /\ ret'     = [ret EXCEPT ![t] = result]
  /\ UNCHANGED rc

Step(t, label) == Goto(t, label) /\ UNCHANGED <<onCtx, onState, rc, ret>>

\* A native call came back with a code that is not yet an answer.
BackWith(t, code, label) ==
  /\ Goto(t, label)
  /\ rc' = [rc EXCEPT ![t] = code]
  /\ UNCHANGED <<onCtx, onState, ret>>

\* The answer of a call that still has to release full_lock.
Answer(t, result) ==
  /\ Goto(t, "full: unlock")
  /\ ret' = [ret EXCEPT ![t] = result]
  /\ UNCHANGED <<onCtx, onState, rc>>

(***************************************************************************)
(* The native heap.  Freeing anything that is not live is recorded.        *)
(***************************************************************************)
Freed(block) == IF block = "live" THEN "freed" ELSE "freed twice"

FreeState(s)   == native' = [native EXCEPT ![s] = Freed(@)]   \* whisper_free_state
FreeContext(c) == ctx' = [ctx EXCEPT ![c] = Freed(@)]         \* whisper_free

(***************************************************************************)
(* The exception-catching shim around the two native constructors.         *)
(***************************************************************************)
\* Mutated forms of ShimCatch: a catch block that forgets the slot, and one whose code
\* lacks the base that sets it apart from the codes of upstream.
ShimCatchesSilently(t, e) == UNCHANGED sentinel
ShimCatchesUnbased(t, e)  == sentinel' = [sentinel EXCEPT ![t] = e + 100]

ShimEnter(t)    == sentinel' = [sentinel EXCEPT ![t] = NoCode]
ShimCatch(t, e) == sentinel' = [sentinel EXCEPT ![t] = e]
TakeSentinel(t) == sentinel' = [sentinel EXCEPT ![t] = NoCode]

-----------------------------------------------------------------------------
(***************************************************************************)
(* The program's own references.  A thread that holds an Arc<Context> may  *)
(* give a clone to any thread; a thread that has a State at hand may clone *)
(* the Arc inside it.  A State is Send and not Sync, and its methods take  *)
(* it exclusively, so that any idle thread may use one no call is using.   *)
(***************************************************************************)
AtRest(s) == \A t \in Threads : onState[t] # s
Owned(s)  == handle[s] \in {"some", "null"}

\* Mutated form of Refs: a State that does not keep its Context alive.
RefsOfThreads == arcs

\* The holders of a reference to c: threads, and States not yet dropped.
Refs ==
  [c \in Contexts |->
     arcs[c] \cup {s \in States : owner[s] = c /\ handle[s] \in {"some", "null", "dropping"}}]

CloneArc(t, u, c) ==
  /\ pc[t] = "idle"
  /\ \/ t \in arcs[c]
     \/ \E s \in States : owner[s] = c /\ Owned(s) /\ AtRest(s)
  /\ u \notin arcs[c]
  /\ arcs' = [arcs EXCEPT ![c] = @ \cup {u}]
  /\ UNCHANGED <<lost, locks, owner, handle, heap, sentinel, calls, cause, late>>

-----------------------------------------------------------------------------
(***************************************************************************)
(* Mutated forms.  Each differs from the action it is named after by one   *)
(* plausible bug and is in no specification: it shows that a property of   *)
(* this module can fail.                                                   *)
(***************************************************************************)

\* CreateLocks that does not wait for init_lock.
CreateDoesNotLock(t) ==
  /\ pc[t] = "create: lock"
  /\ ShimEnter(t)
  /\ Step(t, "create: native")
  /\ UNCHANGED <<lost, locks, refs, heap, cause, late>>

\* CreateRechecks without the second load of the flag.
CreateSkipsRecheck(t) ==
  /\ pc[t] = "create: recheck"
  /\ Step(t, "create: publish")
  /\ UNCHANGED <<lost, locks, refs, heap, sentinel, cause, late>>

\* CreateDiscards that leaks the unpublished state.
CreateForgetsState(t) ==
  /\ pc[t] = "create: discard"
  /\ TakeSentinel(t)
  /\ initLock' = NoThread
  /\ Return(t, Result("ContextPoisoned", NoCode))
  /\ UNCHANGED <<lost, fullLock, refs, heap, cause, late>>

\* CreateDiscards that returns with init_lock held.
CreateKeepsLock(t) ==
  /\ pc[t] = "create: discard"
  /\ \/ onState[t] # NoState /\ FreeState(onState[t])
     \/ onState[t] = NoState /\ UNCHANGED native
  /\ TakeSentinel(t)
  /\ Return(t, Result("ContextPoisoned", NoCode))
  /\ UNCHANGED <<lost, locks, refs, ctx, cause, late>>

\* FullLocks that does not wait for full_lock.
FullDoesNotWait(t) ==
  /\ pc[t] = "full: lock"
  /\ fullLock' = [fullLock EXCEPT ![onCtx[t]] = t]
  /\ Step(t, "full: check")
  /\ UNCHANGED <<lost, initLock, refs, heap, sentinel, cause, late>>

\* FullPasses without the load of the flag under the lock.
FullSkipsCheck(t) ==
  /\ pc[t] = "full: check"
  /\ Step(t, "full: native")
  /\ UNCHANGED <<lost, locks, refs, heap, sentinel, cause, late>>

\* FullIsRefused that returns with full_lock held.
FullKeepsLock(t) ==
  /\ pc[t] = "full: check" /\ lost[onCtx[t]]
  /\ Return(t, Result("ContextPoisoned", NoCode))
  /\ UNCHANGED <<lost, locks, refs, heap, sentinel, cause, late>>

\* FullForgets that leaves the dangling pointer in the State.
FullKeepsPointer(t) ==
  /\ pc[t] = "full: forget"
  /\ Step(t, "full: mark")
  /\ UNCHANGED <<lost, locks, refs, heap, sentinel, cause, late>>

\* FullForgets that gives full_lock back before the flag is set.
FullUnlocksEarly(t) ==
  /\ pc[t] = "full: forget"
  /\ handle'   = [handle EXCEPT ![onState[t]] = "null"]
  /\ fullLock' = [fullLock EXCEPT ![onCtx[t]] = NoThread]
  /\ Step(t, "full: mark")
  /\ UNCHANGED <<lost, initLock, arcs, owner, heap, sentinel, cause, late>>

\* FullMarks that does not poison the Context.
FullDoesNotMark(t) ==
  /\ pc[t] = "full: mark"
  /\ Answer(t, Result("StateLost", rc[t]))
  /\ UNCHANGED <<lost, locks, refs, heap, sentinel, cause, late>>

\* FullMarksFirst with the two steps in the other order.
FullFreesBeforeMark(t) ==
  /\ pc[t] = "full: mark first"
  /\ FreeState(onState[t])
  /\ handle' = [handle EXCEPT ![onState[t]] = "null"]
  /\ Step(t, "full: mark")
  /\ UNCHANGED <<lost, locks, arcs, owner, ctx, sentinel, cause, late>>

\* FullMarksFirst that returns without freeing the native state.
FullMarksOnly(t) ==
  /\ pc[t] = "full: mark first"
  /\ lost'   = [lost EXCEPT ![onCtx[t]] = TRUE]
  /\ handle' = [handle EXCEPT ![onState[t]] = "null"]
  /\ Answer(t, Result("StateLost", rc[t]))
  /\ UNCHANGED <<locks, arcs, owner, heap, sentinel, cause, late>>

\* FullFrees that gives up the pointer and leaks the native state.
FullLeaks(t) ==
  /\ pc[t] = "full: free"
  /\ handle' = [handle EXCEPT ![onState[t]] = "null"]
  /\ Answer(t, Result("StateLost", rc[t]))
  /\ UNCHANGED <<lost, locks, arcs, owner, heap, sentinel, cause, late>>

\* StateDrops that frees without looking at the pointer.
StateAlwaysFrees(t, s) ==
  /\ Owned(s) /\ AtRest(s)
  /\ Begin(t, "drop: arc", owner[s], s)
  /\ FreeState(s)
  /\ handle' = [handle EXCEPT ![s] = "dropping"]
  /\ UNCHANGED <<lost, locks, arcs, owner, ctx, sentinel, cause, late>>

-----------------------------------------------------------------------------
(***************************************************************************)
(* Context::new.  It holds init_lock from before the native constructor to *)
(* its end.                                                                *)
(***************************************************************************)
NewStarts(t) ==
  /\ Begin(t, "new: lock", NoContext, NoState)
  /\ UNCHANGED <<lost, locks, refs, heap, sentinel, cause, late>>

\* An interior NUL in the path, or DTW together with flash attention.
NewRejects(t) ==
  /\ \E kind \in {"Rejected", "ContextLoad"} : Refuse(t, Result(kind, NoCode))
  /\ UNCHANGED <<lost, locks, refs, heap, sentinel, cause, late>>

NewLocks(t) ==
  /\ pc[t] = "new: lock"
  /\ initLock = NoThread
  /\ initLock' = t
  /\ ShimEnter(t)
  /\ Step(t, "new: native")
  /\ UNCHANGED <<lost, fullLock, refs, heap, cause, late>>

NewLoads(t, c) ==
  /\ pc[t] = "new: native"
  /\ ctx[c] = "none"
  /\ ctx'   = [ctx EXCEPT ![c] = "live"]
  /\ onCtx' = [onCtx EXCEPT ![t] = c]
  /\ Goto(t, "new: settle")
  /\ UNCHANGED <<lost, locks, refs, native, sentinel, onState, rc, ret, cause, late>>

NewReturnsNull(t) ==
  /\ pc[t] = "new: native"
  /\ Step(t, "new: settle")
  /\ UNCHANGED <<lost, locks, refs, heap, sentinel, cause, late>>

NewThrows(t, e) ==
  /\ pc[t] = "new: native"
  /\ ShimCatch(t, e)
  /\ BackWith(t, e, "new: settle")
  /\ UNCHANGED <<lost, locks, refs, heap, cause, late>>

\* The loaded model is usable: Ok(Context), which the caller puts in an Arc.
NewPublishes(t) ==
  LET c == onCtx[t] IN
  /\ pc[t] = "new: settle"
  /\ c # NoContext
  /\ lost'     = [lost EXCEPT ![c] = FALSE]
  /\ arcs'     = [arcs EXCEPT ![c] = {t}]
  /\ initLock' = NoThread
  /\ Return(t, Result("Ok", NoCode))
  /\ UNCHANGED <<fullLock, owner, handle, heap, sentinel, cause, late>>

\* DTW is on and the model's n_text_ctx exceeds SUPPORTED_DTW_N_TEXT_CTX.
NewRefusesModel(t) ==
  LET c == onCtx[t] IN
  /\ pc[t] = "new: settle"
  /\ c # NoContext
  /\ FreeContext(c)
  /\ initLock' = NoThread
  /\ Return(t, Result("ContextLoad", NoCode))
  /\ UNCHANGED <<lost, fullLock, refs, native, sentinel, cause, late>>

NewFails(t) ==
  /\ pc[t] = "new: settle"
  /\ onCtx[t] = NoContext
  /\ TakeSentinel(t)
  /\ initLock' = NoThread
  /\ Return(t, Result("ContextLoad", sentinel[t]))
  /\ UNCHANGED <<lost, fullLock, refs, heap, cause, late>>

-----------------------------------------------------------------------------
(***************************************************************************)
(* Context::create_state.  It holds init_lock, and not full_lock, from     *)
(* before the native constructor to its end.                               *)
(***************************************************************************)
CreateRefuses(t, c) ==
  /\ t \in arcs[c] /\ lost[c]
  /\ Refuse(t, Result("ContextPoisoned", NoCode))
  /\ UNCHANGED <<lost, locks, refs, heap, sentinel, cause, late>>

CreateStarts(t, c) ==
  /\ t \in arcs[c] /\ ~lost[c]
  /\ Begin(t, "create: lock", c, NoState)
  /\ UNCHANGED <<lost, locks, refs, heap, sentinel, cause, late>>

CreateLocks(t) ==
  /\ pc[t] = "create: lock"
  /\ initLock = NoThread
  /\ initLock' = t
  /\ ShimEnter(t)
  /\ Step(t, "create: native")
  /\ UNCHANGED <<lost, fullLock, refs, heap, cause, late>>

CreateAllocates(t, s) ==
  /\ pc[t] = "create: native"
  /\ native[s] = "none"
  /\ native'  = [native EXCEPT ![s] = "live"]
  /\ owner'   = [owner EXCEPT ![s] = onCtx[t]]
  /\ onState' = [onState EXCEPT ![t] = s]
  /\ Goto(t, "create: recheck")
  /\ UNCHANGED <<lost, locks, arcs, handle, ctx, sentinel, onCtx, rc, ret, cause, late>>

CreateReturnsNull(t) ==
  /\ pc[t] = "create: native"
  /\ Step(t, "create: recheck")
  /\ UNCHANGED <<lost, locks, refs, heap, sentinel, cause, late>>

CreateThrows(t, e) ==
  /\ pc[t] = "create: native"
  /\ ShimCatch(t, e)
  /\ BackWith(t, e, "create: recheck")
  /\ UNCHANGED <<lost, locks, refs, heap, cause, late>>

\* The second load of the poison flag, after the allocation.
CreateRechecks(t) ==
  /\ pc[t] = "create: recheck"
  /\ Step(t, IF lost[onCtx[t]] THEN "create: discard" ELSE "create: publish")
  /\ UNCHANGED <<lost, locks, refs, heap, sentinel, cause, late>>

\* A sibling poisoned the Context meanwhile: the new state is not handed out.
CreateDiscards(t) ==
  /\ pc[t] = "create: discard"
  /\ \/ onState[t] # NoState /\ FreeState(onState[t])
     \/ onState[t] = NoState /\ UNCHANGED native
  /\ TakeSentinel(t)
  /\ initLock' = NoThread
  /\ Return(t, Result("ContextPoisoned", NoCode))
  /\ UNCHANGED <<lost, fullLock, refs, ctx, cause, late>>

CreatePublishes(t) ==
  LET s == onState[t] IN
  /\ pc[t] = "create: publish"
  /\ s # NoState
  /\ handle' = [handle EXCEPT ![s] = "some"]
  /\ late'   = IF lost[onCtx[t]] THEN late \cup {s} ELSE late
  /\ TakeSentinel(t)
  /\ initLock' = NoThread
  /\ Return(t, Result("Ok", NoCode))
  /\ UNCHANGED <<lost, fullLock, arcs, owner, heap, cause>>

CreateFails(t) ==
  /\ pc[t] = "create: publish"
  /\ onState[t] = NoState
  /\ TakeSentinel(t)
  /\ initLock' = NoThread
  /\ Return(t, Result("StateInit", sentinel[t]))
  /\ UNCHANGED <<lost, fullLock, refs, heap, cause, late>>

-----------------------------------------------------------------------------
(***************************************************************************)
(* State::full.  Its checks of the samples, the prompt tokens, the         *)
(* language and the duration precede everything below and change nothing.  *)
(***************************************************************************)
FullRejects(t, s) ==
  /\ Owned(s) /\ AtRest(s)
  /\ Refuse(t, Result("Rejected", NoCode))
  /\ UNCHANGED <<lost, locks, refs, heap, sentinel, cause, late>>

FullFindsNull(t, s) ==
  /\ handle[s] = "null" /\ AtRest(s)
  /\ Refuse(t, Result("StateLost", FreedUpstream))
  /\ UNCHANGED <<lost, locks, refs, heap, sentinel, cause, late>>

FullStarts(t, s) ==
  /\ handle[s] = "some" /\ AtRest(s)
  /\ Begin(t, "full: lock", owner[s], s)
  /\ UNCHANGED <<lost, locks, refs, heap, sentinel, cause, late>>

FullLocks(t) ==
  /\ pc[t] = "full: lock"
  /\ fullLock[onCtx[t]] = NoThread
  /\ fullLock' = [fullLock EXCEPT ![onCtx[t]] = t]
  /\ Step(t, "full: check")
  /\ UNCHANGED <<lost, initLock, refs, heap, sentinel, cause, late>>

FullIsRefused(t) ==
  /\ pc[t] = "full: check" /\ lost[onCtx[t]]
  /\ Answer(t, Result("ContextPoisoned", NoCode))
  /\ UNCHANGED <<lost, locks, refs, heap, sentinel, cause, late>>

FullPasses(t) ==
  /\ pc[t] = "full: check" /\ ~lost[onCtx[t]]
  /\ Step(t, "full: native")
  /\ UNCHANGED <<lost, locks, refs, heap, sentinel, cause, late>>

\* whisper_full_with_state comes back, through the shim.  Only on -7 has it
\* freed the state itself; a code of the shim's means that nothing was freed.
FullIsFreed(t) ==
  /\ pc[t] = "full: native"
  /\ FreeState(onState[t])
  /\ cause' = [cause EXCEPT ![onState[t]] = FreedUpstream]
  /\ BackWith(t, FreedUpstream, "full: forget")
  /\ UNCHANGED <<lost, locks, refs, ctx, sentinel, late>>

FullThrows(t, code) ==
  /\ pc[t] = "full: native"
  /\ code # FreedUpstream /\ code <= BadAlloc
  /\ cause' = [cause EXCEPT ![onState[t]] = code]
  /\ BackWith(t, code, "full: mark first")
  /\ UNCHANGED <<lost, locks, refs, heap, sentinel, late>>

FullAnswers(t, code) ==
  /\ pc[t] = "full: native"
  /\ code # FreedUpstream /\ code > BadAlloc
  /\ rc' = [rc EXCEPT ![t] = code]
  /\ ret' = [ret EXCEPT ![t] = Result(IF code = NoCode THEN "Ok" ELSE "Full", code)]
  /\ Goto(t, "full: unlock")
  /\ UNCHANGED <<lost, locks, refs, heap, sentinel, onCtx, onState, cause, late>>

\* rc == -7: the native state is gone; the pointer goes, then the flag is set.
FullForgets(t) ==
  /\ pc[t] = "full: forget"
  /\ handle' = [handle EXCEPT ![onState[t]] = "null"]
  /\ Step(t, "full: mark")
  /\ UNCHANGED <<lost, locks, arcs, owner, heap, sentinel, cause, late>>

FullMarks(t) ==
  /\ pc[t] = "full: mark"
  /\ lost' = [lost EXCEPT ![onCtx[t]] = TRUE]
  /\ Answer(t, Result("StateLost", rc[t]))
  /\ UNCHANGED <<locks, refs, heap, sentinel, cause, late>>

\* A caught exception: the flag is set before the native state is touched.
FullMarksFirst(t) ==
  /\ pc[t] = "full: mark first"
  /\ lost' = [lost EXCEPT ![onCtx[t]] = TRUE]
  /\ Step(t, "full: free")
  /\ UNCHANGED <<locks, refs, heap, sentinel, cause, late>>

FullFrees(t) ==
  /\ pc[t] = "full: free"
  /\ FreeState(onState[t])
  /\ handle' = [handle EXCEPT ![onState[t]] = "null"]
  /\ Answer(t, Result("StateLost", rc[t]))
  /\ UNCHANGED <<lost, locks, arcs, owner, ctx, sentinel, cause, late>>

FullUnlocks(t) ==
  /\ pc[t] = "full: unlock"
  /\ fullLock' = [fullLock EXCEPT ![onCtx[t]] = NoThread]
  /\ Return(t, ret[t])
  /\ UNCHANGED <<lost, initLock, refs, heap, sentinel, cause, late>>

-----------------------------------------------------------------------------
(***************************************************************************)
(* Dropping a State frees its native state unless the pointer is None, and *)
(* then drops its Arc; dropping the last Arc frees the native context.     *)
(***************************************************************************)
StateDrops(t, s) ==
  /\ Owned(s) /\ AtRest(s)
  /\ Begin(t, "drop: arc", owner[s], s)
  /\ \/ handle[s] = "some" /\ FreeState(s)
     \/ handle[s] = "null" /\ UNCHANGED native
  /\ handle' = [handle EXCEPT ![s] = "dropping"]
  /\ UNCHANGED <<lost, locks, arcs, owner, ctx, sentinel, cause, late>>

StateDropsArc(t) ==
  /\ pc[t] = "drop: arc"
  /\ Refs[onCtx[t]] # {onState[t]}
  /\ handle' = [handle EXCEPT ![onState[t]] = "gone"]
  /\ Return(t, NoResult)
  /\ UNCHANGED <<lost, locks, arcs, owner, heap, sentinel, cause, late>>

StateDropsLastArc(t) ==
  /\ pc[t] = "drop: arc"
  /\ Refs[onCtx[t]] = {onState[t]}
  /\ handle'  = [handle EXCEPT ![onState[t]] = "gone"]
  /\ onState' = [onState EXCEPT ![t] = NoState]
  /\ Goto(t, "drop: context")
  /\ UNCHANGED <<lost, locks, arcs, owner, heap, sentinel, onCtx, rc, ret, cause, late>>

ArcDrops(t, c) ==
  /\ t \in arcs[c] /\ Refs[c] # {t}
  /\ arcs' = [arcs EXCEPT ![c] = @ \ {t}]
  /\ Refuse(t, NoResult)
  /\ UNCHANGED <<lost, locks, owner, handle, heap, sentinel, cause, late>>

LastArcDrops(t, c) ==
  /\ t \in arcs[c] /\ Refs[c] = {t}
  /\ arcs' = [arcs EXCEPT ![c] = {}]
  /\ Begin(t, "drop: context", c, NoState)
  /\ UNCHANGED <<lost, locks, owner, handle, heap, sentinel, cause, late>>

ContextDrops(t) ==
  /\ pc[t] = "drop: context"
  /\ FreeContext(onCtx[t])
  /\ Return(t, NoResult)
  /\ UNCHANGED <<lost, locks, refs, native, sentinel, cause, late>>

-----------------------------------------------------------------------------
\* What the program chooses to do next with an idle thread.
Calls(t) ==
  \/ NewStarts(t) \/ NewRejects(t)
  \/ \E c \in Contexts : \/ CreateRefuses(t, c) \/ CreateStarts(t, c)
                         \/ ArcDrops(t, c) \/ LastArcDrops(t, c)
                         \/ \E u \in Threads : CloneArc(t, u, c)
  \/ \E s \in States : \/ FullRejects(t, s) \/ FullFindsNull(t, s) \/ FullStarts(t, s)
                       \/ StateDrops(t, s)

\* What a native call comes back with.
Returns(t) ==
  \/ NewReturnsNull(t) \/ CreateReturnsNull(t) \/ FullIsFreed(t)
  \/ \E c \in Contexts : NewLoads(t, c)
  \/ \E s \in States : CreateAllocates(t, s)
  \/ \E e \in ExceptionCodes : NewThrows(t, e) \/ CreateThrows(t, e)
  \/ \E code \in Codes : FullThrows(t, code) \/ FullAnswers(t, code)

\* How a call that has begun goes on.
Continues(t) ==
  \/ Returns(t)
  \/ NewLocks(t) \/ NewPublishes(t) \/ NewRefusesModel(t) \/ NewFails(t)
  \/ CreateLocks(t) \/ CreateRechecks(t) \/ CreateDiscards(t) \/ CreatePublishes(t)
  \/ CreateFails(t)
  \/ FullLocks(t) \/ FullIsRefused(t) \/ FullPasses(t)
  \/ FullForgets(t) \/ FullMarks(t) \/ FullMarksFirst(t) \/ FullFrees(t) \/ FullUnlocks(t)
  \/ StateDropsArc(t) \/ StateDropsLastArc(t) \/ ContextDrops(t)

Next == \E t \in Threads : Calls(t) \/ Continues(t)

Spec == Init /\ [][Next]_vars

\* A native call returns and a scheduled thread goes on.  Nothing obliges the
\* program to call anything, and a mutex promises no turn to any one waiter.
FairSpec == Spec /\ \A t \in Threads : WF_vars(Continues(t))

-----------------------------------------------------------------------------
(***************************************************************************)
(* Properties.                                                             *)
(***************************************************************************)

\* Memory safety of the wrapper: no native block is freed twice, whichever of
\* full's two loss paths, create_state's discard path and Drop got there first.
FreedOnce ==
  /\ \A s \in States : native[s] # "freed twice"
  /\ \A c \in Contexts : ctx[c] # "freed twice"

\* A native call runs on live memory: the context of a constructor or of an
\* inference, and the state of an inference, are not freed under it.
NativeCallsOnLiveMemory ==
  \A t \in Threads :
    /\ pc[t] \in {"create: native", "full: native"} => ctx[onCtx[t]] = "live"
    /\ pc[t] = "full: native" => native[onState[t]] = "live"

\* The accessors (segments, tokens, timings) dereference the pointer of any
\* State no call is using, so Some must mean a live state of a live context.
PointersAreValid ==
  \A s \in States :
    Owned(s) /\ AtRest(s) =>
      /\ ctx[owner[s]] = "live"
      /\ handle[s] = "some" => native[s] = "live"

\* The Arc in every State: whisper_free runs only when every native state made
\* on the context, published or not, has been freed.
ContextOutlivesStates ==
  \A s \in States : native[s] = "live" => ctx[owner[s]] = "live"

\* full_lock: at most one thread per Context is inside whisper_full.
OneInferencePerContext ==
  \A t, u \in Threads :
    pc[t] = "full: native" /\ pc[u] = "full: native" /\ onCtx[t] = onCtx[u] => t = u

\* init_lock: at most one native constructor runs in the process, whether it
\* loads a model or creates a state, since both write ggml's logger globals.
OneConstructorAtATime ==
  \A t, u \in Threads :
    pc[t] \in {"new: native", "create: native"} /\ pc[u] \in {"new: native", "create: native"}
      => t = u

\* The loss budget: however many workers share a Context, at most one of its
\* states is ever lost inside whisper_full.
LossBudget ==
  \A r, s \in States :
    cause[r] # NoCode /\ cause[s] # NoCode /\ owner[r] = owner[s] => r = s

\* A Context is never poisoned while another inference is inside whisper_full:
\* the flag a call read under full_lock is not stale when the call runs.
NoInferenceOnLostContext ==
  \A t \in Threads : pc[t] = "full: native" => ~lost[onCtx[t]]

\* A poisoned Context hands out at most one more State, of the one create_state
\* that was past its second check; the others waiting for init_lock are caught.
AtMostOneLateState ==
  \A r, s \in late : owner[r] = owner[s] => r = s

\* The next holder of full_lock sees the poison: a thread about to release the
\* lock with StateLost has set the flag and given up the native state.
LossIsPublished ==
  \A t \in Threads :
    pc[t] = "full: unlock" /\ ret[t].kind = "StateLost" =>
      lost[onCtx[t]] /\ handle[onState[t]] = "null" /\ native[onState[t]] = "freed"

\* The exception code in ContextLoad or StateInit is what this very call threw,
\* not one left in the thread's slot by an earlier constructor.
OwnExceptionReported ==
  \A t \in Threads : ret[t].kind \in {"ContextLoad", "StateInit"} => ret[t].code = rc[t]

\* Once every handle is dropped and no call is running, nothing native is left,
\* whatever was lost, discarded or refused on the way.
NothingLeaks ==
  (\A t \in Threads : pc[t] = "idle") =>
    \A c \in Contexts :
      Refs[c] = {} =>
        /\ ctx[c] # "live"
        /\ \A s \in States : owner[s] = c => native[s] # "live"

\* After a caught exception the flag is up before the native state is touched,
\* so that no create_state can start in between.
PoisonBeforeFree ==
  [][\A s \in States :
       cause[s] \in ExceptionCodes /\ native[s] = "live" /\ native'[s] = "freed"
         => lost[owner[s]]]_vars

\* full_lock is never held for ever: every path of full, each loss path
\* included, gives it back, and no holder waits for init_lock in its turn while a
\* holder of init_lock waits for it.
FullLockReleased ==
  \A c \in Contexts : fullLock[c] # NoThread ~> fullLock[c] = NoThread

\* The memory of a lost state is given back without the program's help.
LostStateReclaimed ==
  \A s \in States : cause[s] # NoCode ~> native[s] = "freed"

\* A call returns once the other threads are idle and leave it alone: no path of
\* theirs, through any early return, came back with init_lock or full_lock held.
\* (Threads that wait for each other are never idle; of them FullLockReleased speaks.)
CallsReturn ==
  \A t \in Threads :
    <>[](\A u \in Threads \ {t} : pc[u] = "idle") => []<>(pc[t] = "idle")

-----------------------------------------------------------------------------
(***************************************************************************)
(* What a comment says and the code does not do (see README).              *)
(***************************************************************************)

\* state.rs: "any concurrent create_state either sees lost == true (returns
\* ContextPoisoned) or completes before we reach this branch".
NoLateState == late = {}
=============================================================================
