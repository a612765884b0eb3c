------------------------- MODULE InferenceCallbacks -------------------------
(***************************************************************************)
(* Inferences whose abort callback infers again.                           *)
(*                                                                         *)
(* State::full holds full_lock while whisper_full runs, whisper_full calls *)
(* the abort callback of its Params back, and the callback is a Rust       *)
(* closure: it may own States and run full on them before it answers.  A   *)
(* thread is therefore a stack of inferences.  Losses and drops are the    *)
(* subject of SharedContext; here the models live and every call comes     *)
(* back with an answer.                                                    *)
(***************************************************************************)
EXTENDS Integers, Sequences, SequencesExt

CONSTANTS
  Threads, Contexts, States, AllParams,
  NoThread,
  ContextOf,   \* State.ctx of each State
  HostOf,      \* the thread of each Params, which is not Send
  Order,       \* <<c, d>>: a program that orders its Contexts infers on d under c
  Budget       \* bound: polls of one inference and inferences of its callbacks

ASSUME InstanceAssumption ==
  /\ NoThread \notin Threads
  /\ ContextOf \in [States -> Contexts]
  /\ HostOf \in [AllParams -> Threads]
  /\ Order \subseteq Contexts \X Contexts
  /\ Budget \in Nat

\* An order leads nowhere back: among any Contexts one is under no other.
ASSUME OrderAssumption ==
  \A some \in (SUBSET Contexts) \ {{}} :
    \E c \in some : \A d \in some : <<c, d>> \notin Order

VARIABLES
  stack,      \* the inferences of each thread, the innermost last
  fullLock,   \* Context.full_lock: the thread holding it
  ret         \* what the last inference of each thread answered

vars == <<stack, fullLock, ret>>

Places  == {"lock", "native", "callback"}
Frame   == [state : States, params : AllParams, at : Places,
            abort : BOOLEAN, panicked : BOOLEAN, budget : 0..Budget]
Answers == [kind : {"none", "Ok", "Full"}, unwinds : BOOLEAN, panicked : BOOLEAN]

TypeOK ==
  /\ stack    \in [Threads -> Seq(Frame)]
  /\ fullLock \in [Contexts -> Threads \cup {NoThread}]
  /\ ret      \in [Threads -> Answers]

Init ==
  /\ stack    = [t \in Threads |-> <<>>]
  /\ fullLock = [c \in Contexts |-> NoThread]
  /\ ret      = [t \in Threads |-> [kind |-> "none", unwinds |-> FALSE, panicked |-> FALSE]]

-----------------------------------------------------------------------------
Frames(t)    == {stack[t][i] : i \in DOMAIN stack[t]}
Idle(t)      == stack[t] = <<>>
At(t, place) == ~Idle(t) /\ Last(stack[t]).at = place
Model(frame) == ContextOf[frame.state]

\* The innermost inference of t, changed to another.
Becomes(t, frame) == [stack EXCEPT ![t] = Append(Front(@), frame)]

\* full takes its State exclusively: no inference under way has it.
Free(s) == \A t \in Threads : \A frame \in Frames(t) : frame.state # s

-----------------------------------------------------------------------------
(***************************************************************************)
(* Mutated forms, in no specification.                                     *)
(***************************************************************************)
\* Locks with a lock its holder may take again.
LocksReentrantly(t) ==
  /\ At(t, "lock")
  /\ LET c == Model(Last(stack[t])) IN
       /\ fullLock[c] \in {NoThread, t}
       /\ fullLock' = [fullLock EXCEPT ![c] = t]
  /\ stack' = Becomes(t, [Last(stack[t]) EXCEPT !.at = "native"])
  /\ UNCHANGED ret

\* NativeReturns in a full that tries again when it was told to stop.
AbortsAreRetried(t) ==
  /\ At(t, "native")
  /\ LET frame == Last(stack[t]) IN
       /\ stack'    = IF frame.abort THEN Becomes(t, [frame EXCEPT !.at = "lock"])
                      ELSE [stack EXCEPT ![t] = Front(@)]
       /\ fullLock' = [fullLock EXCEPT ![Model(frame)] = NoThread]
  /\ UNCHANGED ret

\* NativeReturns whose guard outlives a call that was told to stop.
AbortsKeepLock(t) ==
  /\ At(t, "native")
  /\ LET frame == Last(stack[t]) IN
       /\ stack'    = [stack EXCEPT ![t] = Front(@)]
       /\ fullLock' = IF frame.abort THEN fullLock
                      ELSE [fullLock EXCEPT ![Model(frame)] = NoThread]
       /\ ret' = [ret EXCEPT ![t] =
            [kind |-> "Full", unwinds |-> FALSE, panicked |-> frame.panicked]]

-----------------------------------------------------------------------------
\* The checks before the lock have passed.  On an idle thread the program
\* calls full; under a callback the closure does, with any Params of the thread
\* it can borrow: a shared borrow, which the call it runs under does not hinder.
Begins(s, p) ==
  [state |-> s, params |-> p, at |-> "lock", abort |-> FALSE, panicked |-> FALSE,
   budget |-> Budget]

Infers(t, s, p) ==
  /\ Free(s) /\ HostOf[p] = t
  /\ Idle(t)
  /\ stack' = [stack EXCEPT ![t] = <<Begins(s, p)>>]
  /\ UNCHANGED <<fullLock, ret>>

InfersAgain(t, s, p) ==
  /\ Free(s) /\ HostOf[p] = t
  /\ At(t, "callback")
  /\ LET frame == Last(stack[t]) IN
       /\ frame.budget > 0
       /\ stack' = [stack EXCEPT ![t] =
            Front(@) \o <<[frame EXCEPT !.budget = @ - 1], Begins(s, p)>>]
  /\ UNCHANGED <<fullLock, ret>>

Locks(t) ==
  /\ At(t, "lock")
  /\ LET c == Model(Last(stack[t])) IN
       /\ fullLock[c] = NoThread
       /\ fullLock' = [fullLock EXCEPT ![c] = t]
  /\ stack' = Becomes(t, [Last(stack[t]) EXCEPT !.at = "native"])
  /\ UNCHANGED ret

\* whisper_full polls the trampoline until it is told to stop.
CallsBack(t) ==
  /\ At(t, "native")
  /\ LET frame == Last(stack[t]) IN
       /\ ~frame.abort
       /\ frame.budget > 0
       /\ stack' = Becomes(t, [frame EXCEPT !.at = "callback", !.budget = @ - 1])
  /\ UNCHANGED <<fullLock, ret>>

\* The closure answers, or panics, which the trampoline catches and turns into
\* "stop".
CallbackAnswers(t, stop, panics) ==
  /\ At(t, "callback")
  /\ panics => stop
  /\ stack' = Becomes(t, [Last(stack[t]) EXCEPT
                   !.at = "native", !.abort = stop, !.panicked = panics])
  /\ UNCHANGED <<fullLock, ret>>

\* whisper_full returns, in error when it was told to stop; the guard of
\* full_lock is dropped with the call.
NativeReturns(t) ==
  /\ At(t, "native")
  /\ LET frame == Last(stack[t]) IN
       /\ stack'    = [stack EXCEPT ![t] = Front(@)]
       /\ fullLock' = [fullLock EXCEPT ![Model(frame)] = NoThread]
       /\ \E kind \in {"Ok", "Full"} :
            /\ frame.abort => kind = "Full"
            /\ ret' = [ret EXCEPT ![t] =
                 [kind |-> kind, unwinds |-> FALSE, panicked |-> frame.panicked]]

Calls(t) == \E s \in States, p \in AllParams : Infers(t, s, p)

Continues(t) ==
  \/ Locks(t) \/ CallsBack(t) \/ NativeReturns(t)
  \/ \E stop, panics \in BOOLEAN : CallbackAnswers(t, stop, panics)
  \/ \E s \in States, p \in AllParams : InfersAgain(t, s, p)

Next == \E t \in Threads : Calls(t) \/ Continues(t)

Spec == Init /\ [][Next]_vars

\* A scheduled thread goes on and a native call returns; no lock is assumed to
\* give a waiter its turn.
FairSpec == Spec /\ \A t \in Threads : WF_vars(Continues(t))

-----------------------------------------------------------------------------
(***************************************************************************)
(* Properties.                                                             *)
(***************************************************************************)
Entered(t) == {i \in DOMAIN stack[t] : stack[t][i].at # "lock"}

\* A full_lock is held exactly as long as one of its holder's inferences is past
\* it, and one only: however deep the stack, every guard is dropped with its own call,
\* and a nested call never enters the model it is under.
LocksFollowCalls ==
  \A c \in Contexts, t \in Threads :
    LET past == {i \in Entered(t) : Model(stack[t][i]) = c} IN
      /\ fullLock[c] = t <=> past # {}
      /\ \A i, j \in past : i = j

WaitsFor(t) == IF At(t, "lock") THEN fullLock[Model(Last(stack[t]))] ELSE NoThread

\* The callbacks of t infer along the order only.
Follows(t) ==
  \A i, j \in DOMAIN stack[t] : i < j => <<Model(stack[t][i]), Model(stack[t][j])>> \in Order

\* The advice a caller can follow: while callbacks infer along an order of the
\* Contexts, no threads wait for each other's full_lock in a circle, and none
\* waits for its own.  Out of order a circle closes: the locks alone do not
\* prevent it.
NoCircularWait ==
  (\A t \in Threads : Follows(t)) =>
    ~ \E circle \in (SUBSET Threads) \ {{}} : \A t \in circle : WaitsFor(t) \in circle

\* Along such an order, every call of a thread the others leave alone comes back,
\* whatever its callbacks infer and however they end.
CallsReturn ==
  [](\A t \in Threads : Follows(t)) =>
    \A t \in Threads :
      <>[](\A u \in Threads \ {t} : Idle(u)) => []<>Idle(t)

-----------------------------------------------------------------------------
(***************************************************************************)
(* What a comment says and the code does not do (see README).              *)
(***************************************************************************)

\* params.rs: "whisper.cpp invokes the callback serially, so this is the only
\* outstanding access" to the FnMut closure.
ClosureRunsAlone ==
  \A t \in Threads : \A i, j \in DOMAIN stack[t] :
    /\ stack[t][i].at = "callback" /\ stack[t][j].at = "callback"
    /\ stack[t][i].params = stack[t][j].params
    => i = j

\* params.rs: of a panic in the closure, "callers wrapping State::full in
\* catch_unwind will see it".
PanicReachesCaller == \A t \in Threads : ret[t].panicked => ret[t].unwinds
=============================================================================
