------------------------ MODULE SharedContextContract ------------------------
(***************************************************************************)
(* Proofs about SharedContext, fourth part: the threads, with their locks, *)
(* labels and flags, implement ContextContract.  Each step of a thread is  *)
(* a step of the contract or is invisible to it; what a label knows of the *)
(* flag and of the native blocks is what SharedContextLocks,               *)
(* SharedContextLoss and SharedContextMemory have proved.                  *)
(***************************************************************************)
EXTENDS SharedContextMemory, SharedContextRefinement

\* A poisoned Context has had a State, and goes on having had it: only full
\* sets the flag, and the owner of a native state never changes.
LEMMA FlagStep ==
  ASSUME BaseInv, FlagInv, NEW t \in Threads, Calls(t) \/ Continues(t)
  PROVE  FlagInv'
<1>1. CASE UNCHANGED <<lost, owner>>
  BY <1>1 DEF FlagInv
<1>2. CASE NewPublishes(t)
  BY <1>2 DEF NewPublishes, FlagInv, BaseInv, TypeOK
<1>3. ASSUME NEW s \in States, CreateAllocates(t, s) PROVE FlagInv'
  <2>1. \A r \in States : owner[r] \in Contexts => owner'[r] = owner[r]
    BY <1>3, NamesAssumption DEF CreateAllocates, BaseInv, BirthInv, TypeOK
  <2> QED
    BY <1>3, <2>1 DEF CreateAllocates, FlagInv
<1>4. CASE FullMarks(t) \/ FullMarksFirst(t)
  <2>1. onState[t] \in States /\ owner[onState[t]] = onCtx[t]
    BY <1>4 DEF FullMarks, FullMarksFirst, BaseInv, TargetInv, Target, InFull, UnderFullLock, Losing
  <2>2. \A c \in Contexts : lost'[c] => lost[c] \/ c = onCtx[t]
    BY <1>4 DEF FullMarks, FullMarksFirst, BaseInv, TypeOK
  <2>3. UNCHANGED owner
    BY <1>4 DEF FullMarks, FullMarksFirst, refs
  <2> QED
    BY <2>1, <2>2, <2>3 DEF FlagInv
<1> QED
  BY <1>1, <1>2, <1>3, <1>4
     DEF refs, Calls, Continues, Returns, NewStarts, NewRejects, CreateRefuses, CreateStarts,
     ArcDrops, LastArcDrops, CloneArc, FullRejects, FullFindsNull, FullStarts, StateDrops,
     NewReturnsNull, CreateReturnsNull, FullIsFreed, NewLoads, NewThrows, CreateThrows,
     FullThrows, FullAnswers, NewLocks, NewRefusesModel, NewFails, CreateLocks, CreateRechecks,
     CreateDiscards, CreatePublishes, CreateFails, FullLocks, FullIsRefused, FullPasses,
     FullForgets, FullFrees, FullUnlocks, StateDropsArc, StateDropsLastArc, ContextDrops

\* For any number of threads, Contexts and States: no Context is poisoned
\* before an inference on one of its States.
THEOREM FlagInvariant == Spec => []FlagInv
<1>1. Init => FlagInv
  BY DEF Init, FlagInv
<1>2. ASSUME BaseInv, FlagInv, [Next]_vars PROVE FlagInv'
  <2>1. CASE Next
    BY <1>2, <2>1, FlagStep DEF Next
  <2>2. CASE UNCHANGED vars
    BY <1>2, <2>2 DEF FlagInv, vars, refs
  <2> QED
    BY <1>2, <2>1, <2>2
<1> QED
  BY BaseInvariant, <1>1, <1>2, PTL DEF Spec

-----------------------------------------------------------------------------
\* Poisoned in the eyes of the contract.
Doomed(c) == lost[c] \/ BeingLost(c)

\* What the contract's phase says of a native context, before and after a step.
LEMMA PhaseIs ==
  ASSUME NEW c \in Contexts
  PROVE  /\ ctx[c] = "none" => PhaseOf(c) = "absent"
         /\ ctx[c] = "live" /\ ~Doomed(c) => PhaseOf(c) = "ready"
         /\ ctx[c] = "live" /\ Doomed(c) => PhaseOf(c) = "poisoned"
         /\ ctx[c] \notin {"none", "live"} => PhaseOf(c) = "gone"
<1>1. ctx[c] = "none" => PhaseOf(c) = "absent"
  BY DEF PhaseOf, Doomed
<1>2. ctx[c] = "live" /\ ~Doomed(c) => PhaseOf(c) = "ready"
  BY DEF PhaseOf, Doomed
<1>3. ctx[c] = "live" /\ Doomed(c) => PhaseOf(c) = "poisoned"
  BY DEF PhaseOf, Doomed
<1>4. ctx[c] \notin {"none", "live"} => PhaseOf(c) = "gone"
  BY DEF PhaseOf, Doomed
<1> QED
  BY <1>1, <1>2, <1>3, <1>4

\* The state an inference of the contract runs on is the state of the one
\* thread that full_lock lets into whisper_full.
Runs(c) ==
  /\ \A t \in Threads : pc[t] = "full: native" /\ onCtx[t] = c => RunningOn(c) = onState[t]
  /\ (\A t \in Threads : pc[t] = "full: native" => onCtx[t] # c) => RunningOn(c) = NoState

AllRun == \A c \in Contexts : Runs(c)

LEMMA RunsOn == BaseInv => AllRun
<1> SUFFICES ASSUME BaseInv, NEW c \in Contexts PROVE Runs(c)
  BY DEF AllRun
<1>1. \A t, u \in Inside(c) : t = u
  BY DEF BaseInv, LockInv, HoldsLocks, UnderFullLock, Inside
<1>2. ASSUME NEW t \in Threads, pc[t] = "full: native", onCtx[t] = c
      PROVE  RunningOn(c) = onState[t]
  <2>1. t \in Inside(c)
    BY <1>2 DEF Inside
  <2>2. (CHOOSE u \in Inside(c) : TRUE) = t
    BY <1>1, <2>1
  <2> QED
    BY <2>1, <2>2 DEF RunningOn
<1> QED
  BY <1>2 DEF Runs, RunningOn, Inside

\* The same, after a step.
LEMMA RunsOnNext == BaseInv' => AllRun'
BY RunsOn, PTL

\* A step that changes neither the native context nor what its own thread
\* knows of a loss leaves the phase alone.
LEMMA PhaseStays ==
  ASSUME TypeOK, NEW t \in Threads, Calls(t) \/ Continues(t), NEW c \in Contexts,
         ctx'[c] = ctx[c], lost'[c] = lost[c],
         (onCtx'[t] = c /\ pc'[t] \in Losing) <=> (onCtx[t] = c /\ pc[t] \in Losing)
  PROVE  PhaseOf(c)' = PhaseOf(c)
<1>1. \A u \in Threads \ {t} : pc'[u] = pc[u] /\ onCtx'[u] = onCtx[u]
  BY OthersStay
<1>2. BeingLost(c)' <=> BeingLost(c)
  BY <1>1 DEF BeingLost, Losing
<1> QED
  BY <1>2 DEF PhaseOf

\* A step of a thread that is not in whisper_full and does not enter it leaves
\* the running inferences alone.
LEMMA RunsStay ==
  ASSUME BaseInv, BaseInv', NEW t \in Threads, Calls(t) \/ Continues(t), NEW c \in Contexts,
         pc[t] = "full: native" => onCtx[t] # c,
         pc'[t] = "full: native" => onCtx'[t] # c
  PROVE  RunningOn(c)' = RunningOn(c)
<1>1. \A u \in Threads \ {t} :
        pc'[u] = pc[u] /\ onCtx'[u] = onCtx[u] /\ onState'[u] = onState[u]
  BY OthersStay DEF BaseInv
<1>2. Runs(c) /\ Runs(c)'
  BY RunsOn, RunsOnNext DEF AllRun
<1>3. CASE \E u \in Threads : pc[u] = "full: native" /\ onCtx[u] = c
  <2>1. PICK u \in Threads : pc[u] = "full: native" /\ onCtx[u] = c
    BY <1>3
  <2>2. RunningOn(c) = onState[u]
    BY <1>2, <2>1 DEF Runs
  <2>3. RunningOn(c)' = onState'[u]
    BY <1>1, <1>2, <2>1 DEF Runs
  <2> QED
    BY <1>1, <2>1, <2>2, <2>3
<1>4. CASE \A u \in Threads : pc[u] = "full: native" => onCtx[u] # c
  <2>1. RunningOn(c) = NoState
    BY <1>2, <1>4 DEF Runs
  <2>2. RunningOn(c)' = NoState
    BY <1>1, <1>2, <1>4 DEF Runs
  <2> QED
    BY <2>1, <2>2
<1> QED
  BY <1>3, <1>4

-----------------------------------------------------------------------------
(***************************************************************************)
(* The visible steps, one lemma for each action of the contract.           *)
(***************************************************************************)
\* What the steps below may rely on.
ContractInv ==
  BaseInv /\ FlagInv /\ LossInv /\ PointerInv /\ ContextInv

ContractStep == [Contract!Next]_(Contract!contract)

\* While a thread holds full_lock, no other thread is in whisper_full on the
\* Context or about to record a loss there.
LEMMA HolderIsAlone ==
  ASSUME BaseInv, NEW t \in Threads, pc[t] \in UnderFullLock, NEW u \in Threads,
         pc[u] \in UnderFullLock, onCtx[u] = onCtx[t]
  PROVE  u = t
BY DEF BaseInv, LockInv, HoldsLocks

\* A Context that has had no State is not poisoned, nor about to be.
LEMMA UnusedIsClean ==
  ASSUME BaseInv, FlagInv, NEW c \in Contexts, Unused(c)
  PROVE  ~lost[c] /\ ~Doomed(c)
<1>1. ~lost[c]
  BY DEF FlagInv, Unused
<1>2. ASSUME NEW t \in Threads, onCtx[t] = c, pc[t] \in Losing PROVE FALSE
  BY <1>2 DEF BaseInv, TargetInv, Target, InFull, UnderFullLock, Unused
<1> QED
  BY <1>1, <1>2 DEF Doomed, BeingLost, Losing

\* whisper_init_from_file returns a model: the contract loads it.
LEMMA LoadsRefine ==
  ASSUME ContractInv, BaseInv', NEW t \in Threads, NEW c \in Contexts, NewLoads(t, c)
  PROVE  ContractStep
<1>a. Calls(t) \/ Continues(t)
  BY DEF Continues, Returns
<1>b. TypeOK /\ BaseInv
  BY DEF ContractInv, BaseInv
<1>1. /\ pc[t] = "new: native" /\ pc'[t] = "new: settle"
      /\ ctx[c] = "none" /\ ctx' = [ctx EXCEPT ![c] = "live"]
      /\ UNCHANGED <<lost, owner, native>>
  BY <1>b DEF NewLoads, Goto, TypeOK, refs
<1>2. ASSUME NEW d \in Contexts \ {c} PROVE PhaseOf(d)' = PhaseOf(d)
  <2>1. ctx'[d] = ctx[d]
    BY <1>b, <1>1 DEF TypeOK
  <2> QED
    BY <1>a, <1>b, <1>1, <2>1, PhaseStays DEF Losing
<1>3. ASSUME NEW d \in Contexts PROVE RunningOn(d)' = RunningOn(d)
  BY <1>a, <1>b, <1>1, RunsStay
<1>4. PhaseOf(c) = "absent"
  BY <1>1, PhaseIs
<1>5. PhaseOf(c)' = "ready"
  <2>1. ~Doomed(c)
    BY <1>b, <1>1, UnusedIsClean DEF ContractInv, BaseInv, FreshInv
  <2>2. \A u \in Threads \ {t} : pc'[u] = pc[u] /\ onCtx'[u] = onCtx[u]
    BY <1>a, <1>b, OthersStay
  <2>3. ~Doomed(c)'
    BY <1>1, <2>1, <2>2 DEF Doomed, BeingLost
  <2>4. ctx'[c] = "live"
    BY <1>b, <1>1 DEF TypeOK
  <2> QED
    BY <2>3, <2>4 DEF PhaseOf, Doomed
<1>6. Contract!Load(c)
  BY <1>1, <1>2, <1>3, <1>4, <1>5 DEF Contract!Load
<1> QED
  BY <1>6 DEF ContractStep, Contract!Next

\* whisper_init_state allocates, on a Context that may be poisoned by now: the
\* contract opens a state.
LEMMA OpensRefine ==
  ASSUME ContractInv, BaseInv', NEW t \in Threads, NEW s \in States, CreateAllocates(t, s)
  PROVE  ContractStep
<1> DEFINE c == onCtx[t]
<1>a. Calls(t) \/ Continues(t)
  BY DEF Continues, Returns
<1>b. TypeOK /\ BaseInv /\ BirthInv /\ Target(t)
  BY DEF ContractInv, BaseInv, TargetInv
<1>1. /\ pc[t] = "create: native" /\ pc'[t] = "create: recheck"
      /\ native[s] = "none" /\ native' = [native EXCEPT ![s] = "live"]
      /\ owner' = [owner EXCEPT ![s] = c]
      /\ UNCHANGED <<lost, ctx>>
  BY <1>b DEF CreateAllocates, Goto, TypeOK
<1>2. c \in Contexts /\ t \in arcs[c] /\ owner[s] = NoContext
  BY <1>b, <1>1 DEF Target, Creating, BirthInv
<1>3. ASSUME NEW d \in Contexts PROVE PhaseOf(d)' = PhaseOf(d)
  BY <1>a, <1>b, <1>1, PhaseStays DEF Losing
<1>4. ASSUME NEW d \in Contexts PROVE RunningOn(d)' = RunningOn(d)
  BY <1>a, <1>b, <1>1, RunsStay
<1>5. PhaseOf(c) \in {"ready", "poisoned"}
  <2>1. ctx[c] = "live"
    BY <1>2 DEF ContractInv, ContextInv, Referenced, Refs
  <2> QED
    BY <1>2, <2>1, PhaseIs
<1>6. {r \in States : native'[r] = "live"} = {r \in States : native[r] = "live"} \cup {s}
  BY <1>b, <1>1 DEF TypeOK
<1>7. Contract!Open(c, s)
  BY <1>1, <1>2, <1>3, <1>4, <1>5, <1>6 DEF Contract!Open
<1> QED
  BY <1>2, <1>7 DEF ContractStep, Contract!Next

\* full finds the flag unset and enters whisper_full: the contract infers, and
\* no other inference runs on the model.
LEMMA InfersRefine ==
  ASSUME ContractInv, BaseInv', NEW t \in Threads, FullPasses(t)
  PROVE  ContractStep
<1> DEFINE c == onCtx[t]
           s == onState[t]
<1>a. Calls(t) \/ Continues(t)
  BY DEF Continues
<1>b. TypeOK /\ BaseInv /\ Target(t) /\ Pointer(t)
  BY DEF ContractInv, BaseInv, TargetInv, PointerInv
<1>1. /\ pc[t] = "full: check" /\ pc'[t] = "full: native" /\ ~lost[c]
      /\ onCtx'[t] = c /\ onState'[t] = s
      /\ UNCHANGED <<lost, ctx, native, owner>>
  BY <1>b DEF FullPasses, Step, Goto, TypeOK, heap, refs
<1>2. c \in Contexts /\ s \in States /\ owner[s] = c /\ native[s] = "live" /\ Owned(s)
  BY <1>b, <1>1 DEF Target, InFull, UnderFullLock, Pointer
<1>3. ASSUME NEW u \in Threads, pc[u] \in Losing \cup {"full: native"} PROVE onCtx[u] # c
  BY <1>b, <1>1, <1>3, HolderIsAlone DEF UnderFullLock, Losing
<1>4. ASSUME NEW d \in Contexts PROVE PhaseOf(d)' = PhaseOf(d)
  BY <1>a, <1>b, <1>1, PhaseStays DEF Losing
<1>5. ASSUME NEW d \in Contexts \ {c} PROVE RunningOn(d)' = RunningOn(d)
  BY <1>a, <1>b, <1>1, RunsStay
<1>6. PhaseOf(c) = "ready"
  <2>1. s \in Refs[c]
    BY <1>2 DEF Refs, Owned
  <2>2. ctx[c] = "live"
    BY <1>2, <2>1 DEF ContractInv, ContextInv, Referenced
  <2>3. ~Doomed(c)
    BY <1>1, <1>3 DEF Doomed, BeingLost, Losing
  <2> QED
    BY <1>2, <2>2, <2>3, PhaseIs
<1>7. RunningOn(c) = NoState
  BY <1>b, <1>2, <1>3, RunsOn DEF AllRun, Runs
<1>8. RunningOn(c)' = s
  BY <1>1, <1>2, RunsOnNext DEF AllRun, Runs
<1>9. Contract!Infer(c, s)
  BY <1>1, <1>2, <1>4, <1>5, <1>6, <1>7, <1>8 DEF Contract!Infer
<1> QED
  BY <1>2, <1>9 DEF ContractStep, Contract!Next

\* The thread inside whisper_full on a Context is what the contract sees running
\* there, on a model that is neither lost nor being lost.
LEMMA RunningState ==
  ASSUME ContractInv, NEW t \in Threads, pc[t] = "full: native"
  PROVE  /\ onCtx[t] \in Contexts /\ onState[t] \in States /\ owner[onState[t]] = onCtx[t]
         /\ native[onState[t]] = "live" /\ ctx[onCtx[t]] = "live"
         /\ \A u \in Threads \ {t} :
              pc[u] \in Losing \cup {"full: native"} => onCtx[u] # onCtx[t]
         /\ RunningOn(onCtx[t]) = onState[t]
         /\ PhaseOf(onCtx[t]) = "ready"
<1> DEFINE c == onCtx[t]
<1>1. BaseInv /\ Target(t) /\ NotYetLost(t)
  BY DEF ContractInv, BaseInv, TargetInv, LossInv
<1>2. c \in Contexts /\ onState[t] \in States /\ owner[onState[t]] = c
  BY <1>1 DEF Target, InFull, UnderFullLock
<1>3. native[onState[t]] = "live" /\ ctx[c] = "live"
  BY StatesInFull DEF ContractInv
<1>4. ASSUME NEW u \in Threads \ {t}, pc[u] \in Losing \cup {"full: native"} PROVE onCtx[u] # c
  BY <1>1, <1>4, HolderIsAlone DEF UnderFullLock, Losing
<1>5. RunningOn(c) = onState[t]
  BY <1>1, <1>2, RunsOn DEF AllRun, Runs
<1>6. ~Doomed(c)
  BY <1>1, <1>4 DEF NotYetLost, Doomed, BeingLost, Losing
<1> QED
  BY <1>2, <1>3, <1>4, <1>5, <1>6, PhaseIs

\* After the thread inside whisper_full has left it, nothing runs there.
LEMMA NothingRuns ==
  ASSUME ContractInv, BaseInv', NEW t \in Threads, Calls(t) \/ Continues(t),
         pc[t] = "full: native", pc'[t] # "full: native", NEW c \in Contexts, onCtx[t] = c
  PROVE  RunningOn(c)' = NoState
<1>1. \A u \in Threads \ {t} : pc[u] = "full: native" => onCtx[u] # c
  BY RunningState
<1>2. \A u \in Threads \ {t} : pc'[u] = pc[u] /\ onCtx'[u] = onCtx[u]
  BY OthersStay DEF ContractInv, BaseInv
<1>3. \A u \in Threads : pc'[u] = "full: native" => onCtx'[u] # c
  BY <1>1, <1>2
<1>4. \A d \in Contexts : (\A u \in Threads : pc'[u] = "full: native" => onCtx'[u] # d)
                             => RunningOn(d)' = NoState
  BY RunsOnNext DEF AllRun, Runs
<1> QED
  BY <1>1, <1>3, <1>4

\* whisper_full comes back with an answer that leaves its state usable.
LEMMA FinishesRefine ==
  ASSUME ContractInv, BaseInv', NEW t \in Threads, NEW code \in Codes, FullAnswers(t, code)
  PROVE  ContractStep
<1>a. Calls(t) \/ Continues(t)
  BY DEF Continues, Returns
<1>b. TypeOK /\ BaseInv
  BY DEF ContractInv, BaseInv
<1>c. PICK c \in Contexts : c = onCtx[t]
  BY RunningState DEF FullAnswers
<1>1. /\ pc[t] = "full: native" /\ pc'[t] = "full: unlock"
      /\ UNCHANGED <<lost, ctx, native, owner>>
  BY <1>b DEF FullAnswers, Goto, TypeOK, heap, refs
<1>2. onState[t] \in States /\ RunningOn(c) = onState[t]
  BY <1>c, <1>1, RunningState
<1>3. ASSUME NEW d \in Contexts PROVE PhaseOf(d)' = PhaseOf(d)
  BY <1>a, <1>b, <1>1, PhaseStays DEF Losing
<1>4. ASSUME NEW d \in Contexts \ {c} PROVE RunningOn(d)' = RunningOn(d)
  BY <1>a, <1>b, <1>c, <1>1, RunsStay
<1>5. RunningOn(c)' = NoState
  BY <1>a, <1>c, <1>1, NothingRuns DEF ContractInv
<1>6. Contract!Finish(c)
  BY <1>1, <1>2, <1>3, <1>4, <1>5, NamesAssumption DEF Contract!Finish
<1> QED
  BY <1>2, <1>6 DEF ContractStep, Contract!Next

\* whisper_full comes back with a loss: with -7 the state is freed already,
\* after a caught exception it is not.
LEMMA LosesRefine ==
  ASSUME ContractInv, BaseInv', NEW t \in Threads,
         FullIsFreed(t) \/ \E code \in Codes : FullThrows(t, code)
  PROVE  ContractStep
<1>a. Calls(t) \/ Continues(t)
  BY DEF Continues, Returns
<1>b. TypeOK /\ BaseInv
  BY DEF ContractInv, BaseInv
<1>c. PICK c \in Contexts, s \in States : c = onCtx[t] /\ s = onState[t]
  BY RunningState DEF FullIsFreed, FullThrows
<1>1. /\ pc[t] = "full: native" /\ pc'[t] \in {"full: forget", "full: mark first"}
      /\ onCtx'[t] = c /\ UNCHANGED <<lost, ctx, owner>>
      /\ native' \in {native, [native EXCEPT ![s] = Freed(@)]}
  BY <1>b, <1>c DEF FullIsFreed, FullThrows, FreeState, BackWith, Goto, TypeOK, heap, refs
<1>2. /\ RunningOn(c) = s /\ PhaseOf(c) = "ready"
      /\ native[s] = "live" /\ ctx[c] = "live"
  BY <1>c, <1>1, RunningState
<1>3. ASSUME NEW d \in Contexts \ {c} PROVE PhaseOf(d)' = PhaseOf(d)
  BY <1>a, <1>b, <1>c, <1>1, PhaseStays
<1>4. PhaseOf(c)' = "poisoned"
  <2>1. ctx'[c] = "live" /\ BeingLost(c)'
    BY <1>1, <1>2 DEF BeingLost
  <2> QED
    BY <2>1 DEF PhaseOf
<1>5. ASSUME NEW d \in Contexts \ {c} PROVE RunningOn(d)' = RunningOn(d)
  BY <1>a, <1>b, <1>c, <1>1, RunsStay
<1>6. RunningOn(c)' = NoState
  BY <1>a, <1>c, <1>1, NothingRuns DEF ContractInv
<1>7. {r \in States : native'[r] = "live"}
        \in {{r \in States : native[r] = "live"}, {r \in States : native[r] = "live"} \ {s}}
  BY <1>b, <1>1, <1>2 DEF TypeOK, Freed
<1>8. Contract!Lose(c)
  BY <1>1, <1>2, <1>3, <1>4, <1>5, <1>6, <1>7, NamesAssumption DEF Contract!Lose
<1> QED
  BY <1>2, <1>8 DEF ContractStep, Contract!Next

\* Freeing a native state that no call is running on closes it.
LEMMA ClosesRefine ==
  ASSUME ContractInv, BaseInv', NEW t \in Threads, Calls(t) \/ Continues(t), NEW s \in States,
         native[s] = "live", native' = [native EXCEPT ![s] = Freed(@)],
         \A u \in Threads : pc[u] = "full: native" => onState[u] # s,
         UNCHANGED <<lost, ctx, owner>>,
         {pc[t], pc'[t]} \cap (Losing \cup {"full: native"}) = {}
  PROVE  ContractStep
<1>1. BaseInv /\ TypeOK /\ BirthInv
  BY DEF ContractInv, BaseInv
<1>2. owner[s] \in Contexts
  BY <1>1 DEF BirthInv, TypeOK
<1>3. ASSUME NEW d \in Contexts PROVE PhaseOf(d)' = PhaseOf(d) /\ RunningOn(d)' = RunningOn(d)
  BY <1>1, PhaseStays, RunsStay
<1>4. RunningOn(owner[s]) # s
  BY <1>1, <1>2, RunsOn, NamesAssumption DEF AllRun, Runs
<1>5. {r \in States : native'[r] = "live"} = {r \in States : native[r] = "live"} \ {s}
  BY <1>1 DEF TypeOK, Freed
<1>6. Contract!Close(s)
  BY <1>2, <1>3, <1>4, <1>5 DEF Contract!Close
<1> QED
  BY <1>6 DEF ContractStep, Contract!Next

\* create_state discards a state it will not hand out, Drop frees one nobody
\* uses, full frees the one it has lost.
LEMMA FreesRefine ==
  ASSUME ContractInv, BaseInv', NEW t \in Threads,
         \/ CreateDiscards(t) /\ onState[t] # NoState
         \/ FullFrees(t)
         \/ \E s \in States : StateDrops(t, s) /\ handle[s] = "some"
  PROVE  ContractStep
<1>a. /\ BaseInv /\ TypeOK /\ BirthInv /\ ApartInv /\ Target(t) /\ Pointer(t)
      /\ \A s \in States : InHand(s)
  BY DEF ContractInv, BaseInv, TargetInv, PointerInv
<1>b. Calls(t) \/ Continues(t)
  BY DEF Calls, Continues
<1>1. CASE (CreateDiscards(t) /\ onState[t] # NoState) \/ FullFrees(t)
  <2>1. PICK s \in States : s = onState[t]
    BY <1>a, <1>1, StatesAtWork DEF FullFrees, Target, InFull, UnderFullLock
  <2>2. native[s] = "live"
    BY <1>a, <1>1, <2>1 DEF Pointer, Creating, CreateDiscards, FullFrees
  <2>3. ASSUME NEW u \in Threads, pc[u] = "full: native" PROVE onState[u] # s
    BY <1>a, <1>1, <2>1, <2>3, NamesAssumption DEF ApartInv, CreateDiscards, FullFrees
  <2>4. /\ native' = [native EXCEPT ![s] = Freed(@)] /\ UNCHANGED <<lost, ctx, owner>>
        /\ {pc[t], pc'[t]} \cap (Losing \cup {"full: native"}) = {}
    BY <1>a, <1>1, <2>1
       DEF CreateDiscards, FullFrees, FreeState, Return, Answer, Goto, TypeOK, refs, Losing
  <2> QED
    BY <1>b, <2>2, <2>3, <2>4, ClosesRefine
<1>2. ASSUME NEW s \in States, StateDrops(t, s), handle[s] = "some" PROVE ContractStep
  <2>1. native[s] = "live"
    <3>1. InHand(s) /\ AtRest(s)
      BY <1>a, <1>2 DEF StateDrops
    <3> QED
      BY <1>2, <3>1 DEF InHand, AtRest
  <2>2. ASSUME NEW u \in Threads, pc[u] = "full: native" PROVE onState[u] # s
    BY <1>2, <2>2 DEF StateDrops, AtRest
  <2>3. /\ native' = [native EXCEPT ![s] = Freed(@)] /\ UNCHANGED <<lost, ctx, owner>>
        /\ {pc[t], pc'[t]} \cap (Losing \cup {"full: native"}) = {}
    BY <1>a, <1>2 DEF StateDrops, FreeState, Begin, Goto, TypeOK, Losing
  <2> QED
    BY <1>b, <2>1, <2>2, <2>3, ClosesRefine
<1> QED
  BY <1>1, <1>2

\* whisper_free, be it of a model new refuses or with the last Arc, runs when no
\* native state of the Context is left: the contract unloads the model.
LEMMA UnloadsRefine ==
  ASSUME ContractInv, BaseInv', NEW t \in Threads,
         (NewRefusesModel(t) /\ onCtx[t] # NoContext) \/ ContextDrops(t)
  PROVE  ContractStep
<1>a. /\ BaseInv /\ TypeOK /\ BirthInv /\ TargetInv /\ Unpublished(t) /\ AloneWith(t)
      /\ \A s \in States : InHand(s)
  BY DEF ContractInv, BaseInv, FreshInv, ContextInv, PointerInv
<1>b. Calls(t) \/ Continues(t)
  BY DEF Continues
<1>c. PICK c \in Contexts : c = onCtx[t]
  BY <1>a DEF NewRefusesModel, ContextDrops, AloneWith, TypeOK
<1>1. /\ ctx[c] = "live" /\ ctx' = [ctx EXCEPT ![c] = Freed(@)]
      /\ UNCHANGED <<lost, owner, native>>
      /\ {pc[t], pc'[t]} \cap (Losing \cup {"full: native"}) = {}
  <2>1. pc[t] \in {"new: settle", "drop: context"} /\ Return(t, ret'[t])
    BY <1>a DEF NewRefusesModel, ContextDrops, Return, TypeOK
  <2>2. pc'[t] = "idle"
    BY <1>a, <2>1 DEF Return, Goto, TypeOK
  <2>3. CASE NewRefusesModel(t)
    BY <1>a, <1>c, <2>1, <2>2, <2>3 DEF NewRefusesModel, FreeContext, AloneWith, refs, Losing
  <2>4. CASE ContextDrops(t)
    BY <1>a, <1>c, <2>1, <2>2, <2>4 DEF ContextDrops, FreeContext, AloneWith, refs, Losing
  <2> QED
    BY <2>3, <2>4
<1>2. ASSUME NEW s \in States, native[s] = "live" PROVE owner[s] # c
  <2>1. CASE NewRefusesModel(t)
    BY <1>a, <1>c, <2>1 DEF NewRefusesModel, Unpublished, Unused
  <2>2. CASE ContextDrops(t)
    <3>1. Refs[c] = {}
      BY <1>a, <1>c, <2>2 DEF ContextDrops, AloneWith
    <3>2. CASE handle[s] = "none"
      <4>1. PICK u \in Threads : onState[u] = s /\ pc[u] \in Creating
        BY <1>a, <1>2, <3>2 DEF InHand
      <4>2. onCtx[u] = owner[s] /\ u \in arcs[onCtx[u]]
        BY <1>a, <4>1, NamesAssumption DEF TargetInv, Target
      <4> QED
        BY <3>1, <4>2 DEF Refs
    <3>3. CASE handle[s] # "none"
      <4>1. InHand(s) /\ handle[s] \in Handle
        BY <1>a DEF TypeOK
      <4>2. handle[s] = "some"
        BY <1>2, <3>3, <4>1 DEF InHand, Handle
      <4> QED
        BY <3>1, <4>2 DEF Refs
    <3> QED
      BY <3>2, <3>3
  <2> QED
    BY <2>1, <2>2
<1>3. ASSUME NEW d \in Contexts PROVE RunningOn(d)' = RunningOn(d)
  BY <1>a, <1>b, <1>1, RunsStay
<1>4. ASSUME NEW d \in Contexts \ {c} PROVE PhaseOf(d)' = PhaseOf(d)
  <2>1. ctx'[d] = ctx[d]
    BY <1>a, <1>1 DEF TypeOK
  <2> QED
    BY <1>a, <1>b, <1>1, <2>1, PhaseStays
<1>5. PhaseOf(c) \in {"ready", "poisoned"}
  BY <1>1, PhaseIs
<1>6. PhaseOf(c)' = "gone"
  <2>1. ctx'[c] = "freed"
    BY <1>a, <1>1 DEF TypeOK, Freed
  <2> QED
    BY <2>1 DEF PhaseOf
<1>7. Contract!Unload(c)
  BY <1>1, <1>2, <1>3, <1>4, <1>5, <1>6 DEF Contract!Unload
<1> QED
  BY <1>7 DEF ContractStep, Contract!Next

-----------------------------------------------------------------------------
(***************************************************************************)
(* The invisible steps, and the refinement.                                *)
(***************************************************************************)
\* A step that leaves every phase, every running inference and the native
\* states as they are.
LEMMA Stutters ==
  ASSUME UNCHANGED <<owner, native>>,
         \A c \in Contexts : PhaseOf(c)' = PhaseOf(c) /\ RunningOn(c)' = RunningOn(c)
  PROVE  ContractStep
BY DEF ContractStep, Contract!contract

\* Recording a loss, in the pointer and in the flag, changes nothing for the
\* contract: the model has been lost since whisper_full came back.
LEMMA RecordsRefine ==
  ASSUME ContractInv, BaseInv', NEW t \in Threads,
         FullForgets(t) \/ FullMarks(t) \/ FullMarksFirst(t)
  PROVE  ContractStep
<1>a. BaseInv /\ TypeOK /\ Target(t)
  BY DEF ContractInv, BaseInv, TargetInv
<1>b. Calls(t) \/ Continues(t)
  BY DEF Continues
<1>c. PICK c \in Contexts : c = onCtx[t]
  BY <1>a DEF FullForgets, FullMarks, FullMarksFirst, Target, InFull, UnderFullLock, Losing
<1>1. /\ pc[t] \in Losing /\ pc'[t] # "full: native" /\ UNCHANGED <<ctx, owner, native>>
      /\ (pc'[t] \in Losing /\ onCtx'[t] = c) \/ lost'[c]
      /\ \A d \in Contexts \ {c} : lost'[d] = lost[d]
      /\ onCtx'[t] = c
  BY <1>a, <1>c
     DEF FullForgets, FullMarks, FullMarksFirst, Step, Answer, Goto, TypeOK, refs, heap, Losing
<1>2. ASSUME NEW d \in Contexts PROVE RunningOn(d)' = RunningOn(d)
  BY <1>a, <1>b, <1>1, RunsStay DEF Losing
<1>3. ASSUME NEW d \in Contexts \ {c} PROVE PhaseOf(d)' = PhaseOf(d)
  BY <1>a, <1>b, <1>c, <1>1, PhaseStays
<1>4. PhaseOf(c)' = PhaseOf(c)
  <2>1. BeingLost(c)
    BY <1>c, <1>1 DEF BeingLost, Losing
  <2>2. lost'[c] \/ BeingLost(c)'
    BY <1>1 DEF BeingLost, Losing
  <2>3. ctx'[c] = ctx[c]
    BY <1>1
  <2> QED
    BY <2>1, <2>2, <2>3 DEF PhaseOf
<1> QED
  BY <1>1, <1>2, <1>3, <1>4, Stutters

\* The steps the contract sees, those that record a loss, and new's publication,
\* which writes the flag of a Context nobody has used.
Touching(t) ==
  \/ \E c \in Contexts : NewLoads(t, c)
  \/ \E s \in States : CreateAllocates(t, s)
  \/ FullPasses(t)
  \/ \E code \in Codes : FullAnswers(t, code) \/ FullThrows(t, code)
  \/ FullIsFreed(t)
  \/ FullForgets(t) \/ FullMarks(t) \/ FullMarksFirst(t)
  \/ CreateDiscards(t) /\ onState[t] # NoState
  \/ FullFrees(t)
  \/ \E s \in States : StateDrops(t, s) /\ handle[s] = "some"
  \/ (NewRefusesModel(t) /\ onCtx[t] # NoContext) \/ ContextDrops(t)
  \/ NewPublishes(t)

Untouched(t) ==
  /\ UNCHANGED <<lost, ctx, owner, native>>
  /\ {pc[t], pc'[t]} \cap (Losing \cup {"full: native"}) = {}

\* Everything else moves locks, references, sentinels and labels only.
LEMMA OthersAreInvisible ==
  ASSUME TypeOK, NEW t \in Threads, Calls(t) \/ Continues(t), ~Touching(t)
  PROVE  Untouched(t)
<1> USE DEF Untouched, TypeOK, Losing, Goto, Begin, Refuse, Return, Step, Answer, BackWith,
            refs, heap, calls
<1>1. CASE NewStarts(t) \/ NewRejects(t)
  BY <1>1 DEF NewStarts, NewRejects
<1>2. ASSUME NEW c \in Contexts, CreateRefuses(t, c) \/ CreateStarts(t, c) PROVE Untouched(t)
  <2>1. CASE CreateRefuses(t, c)
    BY <2>1 DEF CreateRefuses
  <2>2. CASE CreateStarts(t, c)
    BY <2>2 DEF CreateStarts
  <2> QED
    BY <1>2, <2>1, <2>2
<1>3. ASSUME NEW c \in Contexts, ArcDrops(t, c) \/ LastArcDrops(t, c) PROVE Untouched(t)
  BY <1>3 DEF ArcDrops, LastArcDrops
<1>4. ASSUME NEW c \in Contexts, NEW u \in Threads, CloneArc(t, u, c) PROVE Untouched(t)
  BY <1>4 DEF CloneArc
<1>5. ASSUME NEW s \in States, FullRejects(t, s) \/ FullFindsNull(t, s) \/ FullStarts(t, s)
      PROVE  Untouched(t)
  BY <1>5 DEF FullRejects, FullFindsNull, FullStarts
<1>6. ASSUME NEW s \in States, StateDrops(t, s) PROVE Untouched(t)
  <2>1. handle[s] # "some"
    BY <1>6 DEF Touching
  <2> QED
    BY <1>6, <2>1 DEF StateDrops
<1>7. CASE NewReturnsNull(t) \/ CreateReturnsNull(t)
  BY <1>7 DEF NewReturnsNull, CreateReturnsNull
<1>8. ASSUME NEW e \in ExceptionCodes, NewThrows(t, e) \/ CreateThrows(t, e) PROVE Untouched(t)
  BY <1>8 DEF NewThrows, CreateThrows
<1>9. CASE NewLocks(t) \/ NewFails(t) \/ CreateLocks(t) \/ CreateFails(t)
  BY <1>9 DEF NewLocks, NewFails, CreateLocks, CreateFails
<1>10. CASE CreateRechecks(t)
  BY <1>10 DEF CreateRechecks
<1>11. CASE CreatePublishes(t)
  BY <1>11 DEF CreatePublishes
<1>12. CASE CreateDiscards(t)
  <2>1. onState[t] = NoState
    BY <1>12 DEF Touching
  <2> QED
    BY <1>12, <2>1 DEF CreateDiscards
<1>13. CASE FullLocks(t) \/ FullIsRefused(t) \/ FullUnlocks(t)
  BY <1>13 DEF FullLocks, FullIsRefused, FullUnlocks
<1>14. CASE StateDropsArc(t) \/ StateDropsLastArc(t)
  BY <1>14 DEF StateDropsArc, StateDropsLastArc
<1>15. ~NewRefusesModel(t)
  BY DEF Touching, NewRefusesModel
<1> QED
  BY <1>1, <1>2, <1>3, <1>4, <1>5, <1>6, <1>7, <1>8, <1>9, <1>10, <1>11, <1>12, <1>13, <1>14,
     <1>15
     DEF Touching, Calls, Continues, Returns

\* Every step of every thread is a step of the contract or invisible to it.
LEMMA StepsRefine ==
  ASSUME ContractInv, BaseInv', NEW t \in Threads, Calls(t) \/ Continues(t)
  PROVE  ContractStep
<1>a. BaseInv /\ TypeOK /\ FlagInv /\ Unpublished(t)
  BY DEF ContractInv, BaseInv, FreshInv
<1>1. CASE Untouched(t)
  <2>1. ASSUME NEW c \in Contexts PROVE PhaseOf(c)' = PhaseOf(c) /\ RunningOn(c)' = RunningOn(c)
    BY <1>a, <1>1, PhaseStays, RunsStay DEF Untouched
  <2> QED
    BY <1>1, <2>1, Stutters DEF Untouched
<1>2. CASE NewPublishes(t)
  <2>1. onCtx[t] \in Contexts /\ ~lost[onCtx[t]]
    BY <1>a, <1>2, UnusedIsClean DEF NewPublishes, Unpublished, TypeOK
  <2>2. Untouched(t)
    BY <1>a, <1>2, <2>1 DEF Untouched, NewPublishes, Return, Goto, TypeOK, heap, Losing
  <2> QED
    BY <1>1, <2>2
<1> QED
  BY <1>a, <1>1, <1>2, OthersAreInvisible, LoadsRefine, OpensRefine, InfersRefine,
     FinishesRefine, LosesRefine, RecordsRefine, FreesRefine, UnloadsRefine DEF Touching

\* Before anything is loaded the contract is in its initial state.
LEMMA InitRefines == Init => Contract!Init
<1> SUFFICES ASSUME Init PROVE Contract!Init
  OBVIOUS
<1>1. ASSUME NEW c \in Contexts PROVE PhaseOf(c) = "absent" /\ RunningOn(c) = NoState
  BY DEF Init, PhaseOf, RunningOn, Inside
<1> QED
  BY <1>1 DEF Init, Contract!Init

\* For any number of threads, Contexts and States, the program keeps the
\* contract of the safe API: on each model one inference at a time, at most one
\* loss and nothing after it, and no model unloaded under one of its states.
THEOREM Implementation == Spec => ImplementsContract
<1>1. Spec => []ContractInv
  BY BaseInvariant, FlagInvariant, LossInvariant, MemoryInvariant, PTL DEF ContractInv
<1>2. ContractInv /\ BaseInv' /\ [Next]_vars => [Contract!Next]_(Contract!contract)
  <2> SUFFICES ASSUME ContractInv, BaseInv', [Next]_vars PROVE ContractStep
    BY DEF ContractStep
  <2>1. CASE Next
    BY <2>1, StepsRefine DEF Next
  <2>2. CASE UNCHANGED vars
    <3>1. UNCHANGED <<lost, ctx, owner, native, pc, onCtx, onState>>
      BY <2>2 DEF vars, refs, heap, calls
    <3>2. ASSUME NEW c \in Contexts PROVE PhaseOf(c)' = PhaseOf(c) /\ RunningOn(c)' = RunningOn(c)
      BY <3>1 DEF PhaseOf, BeingLost, RunningOn, Inside
    <3> QED
      BY <3>1, <3>2, Stutters
  <2> QED
    BY <2>1, <2>2
<1> QED
  BY <1>1, <1>2, InitRefines, BaseInvariant, PTL DEF Spec, ImplementsContract, Contract!Spec
=============================================================================
