------------------------ MODULE SharedContextMemory ------------------------
(***************************************************************************)
(* Proofs about SharedContext, third part: native memory. PointerInv       *)
(* relates the pointer in a State to its native state at every label of a  *)
(* call, and ContextInv the references to a Context to its native context; *)
(* both rest on BaseInv, and neither on the locks excluding anything but   *)
(* what BaseInv says.                                                      *)
(***************************************************************************)
EXTENDS SharedContextLoss

\* The step of a call keeps what the call knows of the pointer of its State and
\* of the native state behind it.
LEMMA OwnPointer ==
  ASSUME BaseInv, PointerInv, NEW t \in Threads, Calls(t) \/ Continues(t)
  PROVE  Pointer(t)'
<1>a. /\ TypeOK /\ BirthInv /\ Target(t) /\ Pointer(t)
      /\ \A s \in States : InHand(s)
  BY DEF BaseInv, TargetInv, PointerInv
<1> USE <1>a, NamesAssumption, CodesAssumption
    DEF TypeOK, Target, Pointer, Owned, Creating, InFull, UnderFullLock, Losing,
        Goto, Begin, Refuse, Return, Step, Answer, BackWith, Result, Freed, FreeState,
        FreeContext, ShimEnter, ShimCatch, TakeSentinel, Owned, AtRest, locks, refs, heap, calls
<1>1. CASE NewStarts(t)
  BY <1>1 DEF NewStarts
<1>2. CASE NewRejects(t)
  BY <1>2 DEF NewRejects
<1>3. ASSUME NEW c \in Contexts, CreateRefuses(t, c) PROVE Pointer(t)'
  BY <1>3 DEF CreateRefuses
<1>4. ASSUME NEW c \in Contexts, CreateStarts(t, c) PROVE Pointer(t)'
  BY <1>4 DEF CreateStarts
<1>5. ASSUME NEW c \in Contexts, ArcDrops(t, c) PROVE Pointer(t)'
  BY <1>5 DEF ArcDrops
<1>6. ASSUME NEW c \in Contexts, LastArcDrops(t, c) PROVE Pointer(t)'
  BY <1>6 DEF LastArcDrops
<1>7. ASSUME NEW c \in Contexts, NEW u \in Threads, CloneArc(t, u, c) PROVE Pointer(t)'
  BY <1>7 DEF CloneArc
<1>8. ASSUME NEW s \in States, FullRejects(t, s) PROVE Pointer(t)'
  BY <1>8 DEF FullRejects
<1>9. ASSUME NEW s \in States, FullFindsNull(t, s) PROVE Pointer(t)'
  BY <1>9 DEF FullFindsNull
<1>10. ASSUME NEW s \in States, FullStarts(t, s) PROVE Pointer(t)'
  <2>1. handle[s] = "some" /\ \A u \in Threads : onState[u] # s
    BY <1>10 DEF FullStarts
  <2>2. InHand(s)
    OBVIOUS
  <2>3. native[s] = "live"
    BY <2>1, <2>2 DEF InHand
  <2> QED
    BY <1>10, <2>3 DEF FullStarts
<1>11. ASSUME NEW s \in States, StateDrops(t, s) PROVE Pointer(t)'
  BY <1>11 DEF StateDrops
<1>12. CASE NewReturnsNull(t)
  BY <1>12 DEF NewReturnsNull
<1>13. CASE CreateReturnsNull(t)
  BY <1>13 DEF CreateReturnsNull
<1>14. CASE FullIsFreed(t)
  BY <1>14 DEF FullIsFreed
<1>15. ASSUME NEW c \in Contexts, NewLoads(t, c) PROVE Pointer(t)'
  BY <1>15 DEF NewLoads
<1>16. ASSUME NEW s \in States, CreateAllocates(t, s) PROVE Pointer(t)'
  BY <1>16 DEF CreateAllocates
<1>17. ASSUME NEW e \in ExceptionCodes, NewThrows(t, e) PROVE Pointer(t)'
  BY <1>17 DEF NewThrows
<1>18. ASSUME NEW e \in ExceptionCodes, CreateThrows(t, e) PROVE Pointer(t)'
  BY <1>18 DEF CreateThrows
<1>19. ASSUME NEW code \in Codes, FullThrows(t, code) PROVE Pointer(t)'
  BY <1>19 DEF FullThrows
<1>20. ASSUME NEW code \in Codes, FullAnswers(t, code) PROVE Pointer(t)'
  BY <1>20 DEF FullAnswers
<1>21. CASE NewLocks(t)
  BY <1>21 DEF NewLocks
<1>22. CASE NewPublishes(t)
  BY <1>22 DEF NewPublishes
<1>23. CASE NewRefusesModel(t)
  BY <1>23 DEF NewRefusesModel
<1>24. CASE NewFails(t)
  BY <1>24 DEF NewFails
<1>25. CASE CreateLocks(t)
  BY <1>25 DEF CreateLocks
<1>26. CASE CreateRechecks(t)
  BY <1>26 DEF CreateRechecks
<1>27. CASE CreateDiscards(t)
  BY <1>27 DEF CreateDiscards
<1>28. CASE CreatePublishes(t)
  BY <1>28 DEF CreatePublishes
<1>29. CASE CreateFails(t)
  BY <1>29 DEF CreateFails
<1>30. CASE FullLocks(t)
  BY <1>30 DEF FullLocks
<1>31. CASE FullIsRefused(t)
  BY <1>31 DEF FullIsRefused
<1>32. CASE FullPasses(t)
  BY <1>32 DEF FullPasses
<1>33. CASE FullForgets(t)
  BY <1>33 DEF FullForgets
<1>34. CASE FullMarks(t)
  BY <1>34 DEF FullMarks
<1>35. CASE FullMarksFirst(t)
  BY <1>35 DEF FullMarksFirst
<1>36. CASE FullFrees(t)
  BY <1>36 DEF FullFrees
<1>37. CASE FullUnlocks(t)
  BY <1>37 DEF FullUnlocks
<1>38. CASE StateDropsArc(t)
  BY <1>38 DEF StateDropsArc
<1>39. CASE StateDropsLastArc(t)
  BY <1>39 DEF StateDropsLastArc
<1>40. CASE ContextDrops(t)
  BY <1>40 DEF ContextDrops
<1> QED
  BY <1>1, <1>2, <1>3, <1>4, <1>5, <1>6, <1>7, <1>8, <1>9, <1>10, <1>11, <1>12, <1>13, <1>14,
     <1>15, <1>16, <1>17, <1>18, <1>19, <1>20, <1>21, <1>22, <1>23, <1>24, <1>25, <1>26, <1>27,
     <1>28, <1>29, <1>30, <1>31, <1>32, <1>33, <1>34, <1>35, <1>36, <1>37, <1>38, <1>39, <1>40
     DEF Calls, Continues, Returns

\* A step of another thread does not touch the pointer of a State a call is
\* using, its native state, or its record of a loss.
LEMMA OtherPointer ==
  ASSUME BaseInv, PointerInv, NEW t \in Threads, Calls(t) \/ Continues(t), NEW u \in Threads \ {t}
  PROVE  Pointer(u)'
<1>a. /\ TypeOK /\ BirthInv /\ Target(t) /\ Target(u) /\ Pointer(t) /\ Pointer(u) /\ Unpublished(t)
      /\ pc'[u] = pc[u] /\ onCtx'[u] = onCtx[u] /\ onState'[u] = onState[u] /\ ret'[u] = ret[u]
      /\ onState[u] = onState[t] => onState[u] = NoState
  BY OthersStay DEF BaseInv, TargetInv, ApartInv, FreshInv, PointerInv
<1>b. onState[u] # NoState =>
        /\ onState[u] \in States /\ onCtx[u] \in Contexts
        /\ owner[onState[u]] = onCtx[u] /\ native[onState[u]] # "none"
  BY <1>a, StatesAtWork
<1> USE <1>b
<1> USE <1>a, NamesAssumption, CodesAssumption
    DEF TypeOK, Target, Unpublished, Unused, Pointer, Creating, InFull, UnderFullLock, Losing,
        Goto, Begin, Refuse, Return, Step, Answer, BackWith, Result, Freed, FreeState,
        FreeContext, ShimEnter, ShimCatch, TakeSentinel, Owned, AtRest, locks, refs, heap, calls
<1>0. CASE UNCHANGED <<handle, native, lost>>
  BY <1>0
<1>1. CASE NewPublishes(t)
  <2>1. onState[u] # NoState => onCtx[u] # onCtx[t]
    BY <1>1 DEF NewPublishes
  <2>2. /\ lost' = [lost EXCEPT ![onCtx[t]] = FALSE]
        /\ UNCHANGED <<handle, native>>
    BY <1>1 DEF NewPublishes
  <2>3. onState[u] # NoState => lost'[onCtx[u]] = lost[onCtx[u]]
    BY <2>1, <2>2
  <2>4. pc[u] \in {"full: unlock", "full: free"} => onState[u] # NoState
    OBVIOUS
  <2> QED
    BY <2>2, <2>3, <2>4
<1>2. ASSUME NEW s \in States, CreateAllocates(t, s) PROVE Pointer(u)'
  BY <1>2 DEF CreateAllocates
<1>3. CASE CreateDiscards(t)
  BY <1>3 DEF CreateDiscards
<1>4. CASE CreatePublishes(t)
  BY <1>4 DEF CreatePublishes
<1>5. ASSUME NEW s \in States, StateDrops(t, s) PROVE Pointer(u)'
  <2>1. onState[u] # s /\ UNCHANGED lost
    BY ONLY <1>5 DEF StateDrops, AtRest
  <2>2. \A r \in States \ {s} : native'[r] = native[r] /\ handle'[r] = handle[r]
    BY ONLY <1>a, <1>5 DEF TypeOK, StateDrops, FreeState
  <2>3. onState[u] # NoState => /\ native'[onState[u]] = native[onState[u]]
                                /\ handle'[onState[u]] = handle[onState[u]]
    BY ONLY <1>b, <2>1, <2>2
  <2>4. pc[u] \in InFull => onState[u] # NoState
    BY ONLY <1>a, NamesAssumption DEF Target
  <2> QED
    BY ONLY <1>a, <2>1, <2>3, <2>4 DEF Pointer, InFull, UnderFullLock, Losing
<1>6. CASE FullIsFreed(t)
  BY <1>6 DEF FullIsFreed
<1>7. CASE FullForgets(t)
  BY <1>7 DEF FullForgets
<1>8. CASE FullMarks(t)
  BY <1>8 DEF FullMarks
<1>9. CASE FullMarksFirst(t)
  BY <1>9 DEF FullMarksFirst
<1>10. CASE FullFrees(t)
  BY <1>10 DEF FullFrees
<1>11. CASE StateDropsArc(t)
  BY <1>11 DEF StateDropsArc
<1>12. CASE StateDropsLastArc(t)
  BY <1>12 DEF StateDropsLastArc
<1> QED
  BY <1>0, <1>1, <1>2, <1>3, <1>4, <1>5, <1>6, <1>7, <1>8, <1>9, <1>10, <1>11, <1>12
     DEF Calls, Continues, Returns, NewStarts, NewRejects, CreateRefuses, CreateStarts,
     ArcDrops, LastArcDrops, CloneArc, FullRejects, FullFindsNull, FullStarts, NewReturnsNull,
     CreateReturnsNull, NewLoads, NewThrows, CreateThrows, FullThrows, FullAnswers, NewLocks,
     NewRefusesModel, NewFails, CreateLocks, CreateRechecks, CreateFails, FullLocks,
     FullIsRefused, FullPasses, FullUnlocks, ContextDrops

\* A native state that is not what its handle says is in the hands of one call:
\* -7 was returned and the pointer is about to go, or create_state has not
\* handed it out yet.
LEMMA InHandStep ==
  ASSUME BaseInv, PointerInv, NEW t \in Threads, Calls(t) \/ Continues(t), NEW s \in States
  PROVE  InHand(s)'
<1> DEFINE Acting == {"full: forget", "drop: arc"} \cup Creating
<1>a. TypeOK /\ BirthInv /\ Target(t) /\ Pointer(t) /\ InHand(s)
  BY DEF BaseInv, TargetInv, PointerInv
<1>b. \A u \in Threads \ {t} : pc'[u] = pc[u] /\ onState'[u] = onState[u]
  BY <1>a, OthersStay
<1>c. \A u \in Threads \ {t} : onState[u] = onState[t] => onState[u] = NoState
  BY DEF BaseInv, ApartInv
<1>d. pc[t] \in {"create: lock", "create: native"} => onState[t] # s
  BY <1>a, NamesAssumption DEF Target
<1>0. CASE onState[t] # s /\ handle'[s] = handle[s] /\ native'[s] = native[s]
  BY <1>a, <1>b, <1>0 DEF InHand
<1>1. CASE onState[t] = s /\ pc[t] \notin Acting /\ handle'[s] = handle[s] /\ native'[s] = native[s]
  BY <1>a, <1>c, <1>1, NamesAssumption DEF InHand
<1>2. CASE pc[t] \notin Acting /\ UNCHANGED <<handle, native>>
  BY <1>0, <1>1, <1>2
<1>3. ASSUME NEW r \in States, StateDrops(t, r) PROVE InHand(s)'
  <2>1. onState[t] # s
    BY <1>3, <1>a, NamesAssumption DEF StateDrops, Begin, Target
  <2>2. CASE r = s
    BY <1>a, <1>b, <1>3, <2>2, NamesAssumption
       DEF StateDrops, TypeOK, InHand, AtRest, Owned, Begin, Goto, FreeState, Freed
  <2>3. CASE r # s
    <3>1. handle'[s] = handle[s] /\ native'[s] = native[s]
      BY <1>a, <1>3, <2>3 DEF StateDrops, TypeOK, FreeState
    <3> QED
      BY <1>0, <2>1, <3>1
  <2> QED
    BY <2>2, <2>3
<1>4. ASSUME NEW r \in States, CreateAllocates(t, r) PROVE InHand(s)'
  <2>1. CASE r = s
    BY <1>a, <1>b, <1>4, <2>1, NamesAssumption
       DEF CreateAllocates, BirthInv, TypeOK, InHand, Creating, Goto
  <2>2. CASE r # s
    <3>1. onState[t] # s
      BY <1>4, <1>d DEF CreateAllocates
    <3>2. handle'[s] = handle[s] /\ native'[s] = native[s]
      BY <1>a, <1>4, <2>2 DEF CreateAllocates, TypeOK
    <3> QED
      BY <1>0, <3>1, <3>2
  <2> QED
    BY <2>1, <2>2
<1>5. CASE CreateLocks(t) \/ CreateReturnsNull(t) \/ CreateFails(t)
  BY <1>0, <1>5, <1>d, NamesAssumption
     DEF CreateLocks, CreateReturnsNull, CreateFails, heap, refs
<1>6. ASSUME NEW e \in ExceptionCodes, CreateThrows(t, e) PROVE InHand(s)'
  BY <1>0, <1>6, <1>d DEF CreateThrows, heap, refs
<1>7. CASE CreateRechecks(t)
  <2>1. CASE onState[t] = s
    BY <1>a, <1>b, <1>7, <2>1, NamesAssumption
       DEF CreateRechecks, TypeOK, Target, Pointer, InHand, Creating, InFull, UnderFullLock,
           Losing, Goto, Step, BackWith, Return, FreeState, Freed, heap, refs
  <2>2. CASE onState[t] # s
    <3>1. handle'[s] = handle[s] /\ native'[s] = native[s]
      BY <1>a, <1>7, <2>2 DEF CreateRechecks, TypeOK, FreeState, heap, refs
    <3> QED
      BY <1>0, <2>2, <3>1
  <2> QED
    BY <2>1, <2>2
<1>8. CASE CreateDiscards(t)
  <2>1. CASE onState[t] = s
    BY <1>a, <1>b, <1>8, <2>1, NamesAssumption
       DEF CreateDiscards, TypeOK, Target, Pointer, InHand, Creating, InFull, UnderFullLock,
           Losing, Goto, Step, BackWith, Return, FreeState, Freed, heap, refs
  <2>2. CASE onState[t] # s
    <3>1. handle'[s] = handle[s] /\ native'[s] = native[s]
      BY <1>a, <1>8, <2>2 DEF CreateDiscards, TypeOK, FreeState, heap, refs
    <3> QED
      BY <1>0, <2>2, <3>1
  <2> QED
    BY <2>1, <2>2
<1>9. CASE CreatePublishes(t)
  <2>1. CASE onState[t] = s
    BY <1>a, <1>b, <1>9, <2>1, NamesAssumption
       DEF CreatePublishes, TypeOK, Target, Pointer, InHand, Creating, InFull, UnderFullLock,
           Losing, Goto, Step, BackWith, Return, FreeState, Freed, heap, refs
  <2>2. CASE onState[t] # s
    <3>1. handle'[s] = handle[s] /\ native'[s] = native[s]
      BY <1>a, <1>9, <2>2 DEF CreatePublishes, TypeOK, FreeState, heap, refs
    <3> QED
      BY <1>0, <2>2, <3>1
  <2> QED
    BY <2>1, <2>2
<1>10. CASE FullIsFreed(t)
  <2>1. CASE onState[t] = s
    <3>1. handle[s] = "some" /\ native[s] = "live"
      BY <1>a, <1>10, <2>1 DEF FullIsFreed, Pointer
    <3>2. handle'[s] = "some" /\ native'[s] = "freed"
      BY <1>a, <1>10, <2>1, <3>1 DEF FullIsFreed, TypeOK, FreeState, Freed, refs
    <3>3. onState'[t] = s /\ pc'[t] = "full: forget"
      BY <1>a, <1>10, <2>1 DEF FullIsFreed, TypeOK, BackWith, Goto
    <3> QED
      BY <3>2, <3>3 DEF InHand
  <2>2. CASE onState[t] # s
    <3>1. handle'[s] = handle[s] /\ native'[s] = native[s]
      BY <1>a, <1>10, <2>2 DEF FullIsFreed, TypeOK, FreeState, heap, refs
    <3> QED
      BY <1>0, <2>2, <3>1
  <2> QED
    BY <2>1, <2>2
<1>11. CASE FullForgets(t)
  <2>1. CASE onState[t] = s
    BY <1>a, <1>b, <1>11, <2>1, NamesAssumption
       DEF FullForgets, TypeOK, Target, Pointer, InHand, Creating, InFull, UnderFullLock,
           Losing, Goto, Step, BackWith, Return, FreeState, Freed, heap, refs
  <2>2. CASE onState[t] # s
    <3>1. handle'[s] = handle[s] /\ native'[s] = native[s]
      BY <1>a, <1>11, <2>2 DEF FullForgets, TypeOK, FreeState, heap, refs
    <3> QED
      BY <1>0, <2>2, <3>1
  <2> QED
    BY <2>1, <2>2
<1>12. CASE FullFrees(t)
  <2>1. CASE onState[t] = s
    BY <1>a, <1>b, <1>12, <2>1, NamesAssumption
       DEF FullFrees, TypeOK, Target, Pointer, InHand, Creating, InFull, UnderFullLock,
           Losing, Goto, Step, BackWith, Return, FreeState, Freed, heap, refs
  <2>2. CASE onState[t] # s
    <3>1. handle'[s] = handle[s] /\ native'[s] = native[s]
      BY <1>a, <1>12, <2>2 DEF FullFrees, TypeOK, FreeState, heap, refs
    <3> QED
      BY <1>0, <2>2, <3>1
  <2> QED
    BY <2>1, <2>2
<1>13. CASE StateDropsArc(t)
  <2>1. CASE onState[t] = s
    BY <1>a, <1>b, <1>13, <2>1, NamesAssumption
       DEF StateDropsArc, TypeOK, Target, Pointer, InHand, Creating, InFull, UnderFullLock,
           Losing, Goto, Step, BackWith, Return, FreeState, Freed, heap, refs
  <2>2. CASE onState[t] # s
    <3>1. handle'[s] = handle[s] /\ native'[s] = native[s]
      BY <1>a, <1>13, <2>2 DEF StateDropsArc, TypeOK, FreeState, heap, refs
    <3> QED
      BY <1>0, <2>2, <3>1
  <2> QED
    BY <2>1, <2>2
<1>14. CASE StateDropsLastArc(t)
  <2>1. CASE onState[t] = s
    BY <1>a, <1>b, <1>14, <2>1, NamesAssumption
       DEF StateDropsLastArc, TypeOK, Target, Pointer, InHand, Creating, InFull, UnderFullLock,
           Losing, Goto, Step, BackWith, Return, FreeState, Freed, heap, refs
  <2>2. CASE onState[t] # s
    <3>1. handle'[s] = handle[s] /\ native'[s] = native[s]
      BY <1>a, <1>14, <2>2 DEF StateDropsLastArc, TypeOK, FreeState, heap, refs
    <3> QED
      BY <1>0, <2>2, <3>1
  <2> QED
    BY <2>1, <2>2
<1> QED
  BY <1>2, <1>3, <1>4, <1>5, <1>6, <1>7, <1>8, <1>9, <1>10, <1>11, <1>12, <1>13, <1>14
     DEF Calls, Continues, Returns, Begin, Refuse, Acting, Creating, heap, refs, NewStarts,
     NewRejects, CreateRefuses, CreateStarts, ArcDrops, LastArcDrops, CloneArc, FullRejects,
     FullFindsNull, FullStarts, NewReturnsNull, NewLoads, NewThrows, FullThrows, FullAnswers,
     NewLocks, NewPublishes, NewRefusesModel, NewFails, FullLocks, FullIsRefused, FullPasses,
     FullMarks, FullMarksFirst, FullUnlocks, ContextDrops

\* A State with one of these handles counts as a reference to its Context.
Counted == {"some", "null", "dropping"}

\* Who refers to a Context, before and after a step, in terms of the Arcs of
\* threads and the States not yet dropped.
LEMMA RefsAre ==
  ASSUME NEW c \in Contexts
  PROVE  /\ \A x : x \in Refs[c] <=>
                  x \in arcs[c] \/ (x \in States /\ owner[x] = c /\ handle[x] \in Counted)
         /\ \A x : x \in Refs'[c] <=>
                  x \in arcs'[c] \/ (x \in States /\ owner'[x] = c /\ handle'[x] \in Counted)
BY DEF Refs, Counted

\* Dropping the last Arc, be it a thread's or the one in a State, leaves no
\* reference to the Context.
LEMMA LastReference ==
  ASSUME TypeOK, NEW t \in Threads, Target(t), NEW c \in Contexts,
         LastArcDrops(t, c) \/ (StateDropsLastArc(t) /\ onCtx[t] = c)
  PROVE  Refs'[c] = {}
<1> DEFINE Ref(x)  == x \in arcs[c] \/ (x \in States /\ owner[x] = c /\ handle[x] \in Counted)
           RefN(x) == x \in arcs'[c] \/ (x \in States /\ owner'[x] = c /\ handle'[x] \in Counted)
<1>1. (\A x : x \in Refs[c] <=> Ref(x)) /\ (\A x : x \in Refs'[c] <=> RefN(x))
  BY RefsAre
<1>2. CASE LastArcDrops(t, c)
  <2>1. \A x : Ref(x) => x = t
    BY <1>1, <1>2 DEF LastArcDrops
  <2>2. arcs'[c] = {} /\ UNCHANGED <<owner, handle>> /\ t \notin States
    BY <1>2, NamesAssumption DEF LastArcDrops, TypeOK
  <2>3. \A x : ~RefN(x)
    BY <2>1, <2>2
  <2> QED
    BY <1>1, <2>3
<1>3. CASE StateDropsLastArc(t) /\ onCtx[t] = c
  <2>1. \A x : Ref(x) => x = onState[t]
    BY <1>1, <1>3 DEF StateDropsLastArc
  <2>2. /\ onState[t] \in States /\ owner[onState[t]] = c /\ handle[onState[t]] = "dropping"
        /\ handle' = [handle EXCEPT ![onState[t]] = "gone"] /\ UNCHANGED <<arcs, owner>>
    BY <1>3 DEF StateDropsLastArc, Target
  <2>3. Ref(onState[t])
    BY <2>2 DEF Counted
  <2>4. onState[t] \notin arcs[c] /\ handle'[onState[t]] = "gone"
    BY <2>2, NamesAssumption DEF TypeOK
  <2>5. ASSUME NEW x, RefN(x) PROVE FALSE
    <3>1. x # onState[t]
      BY <2>2, <2>4, <2>5 DEF Counted
    <3>2. Ref(x)
      BY <2>2, <2>5, <3>1 DEF TypeOK
    <3> QED
      BY <2>1, <3>1, <3>2
  <2> QED
    BY <1>1, <2>5
<1> QED
  BY <1>2, <1>3

\* A Context gains its first reference only when Context::new publishes it and
\* loses its last one only when the last Arc is dropped.
LEMMA RefsStep ==
  ASSUME BaseInv, NEW t \in Threads, Calls(t) \/ Continues(t), NEW c \in Contexts
  PROVE  \/ Refs'[c] = {} <=> Refs[c] = {}
         \/ Refs'[c] = {} /\ (LastArcDrops(t, c) \/ (StateDropsLastArc(t) /\ onCtx[t] = c))
         \/ NewPublishes(t) /\ onCtx[t] = c
<1> DEFINE Last   == LastArcDrops(t, c) \/ (StateDropsLastArc(t) /\ onCtx[t] = c)
           Change == \/ Refs'[c] = {} <=> Refs[c] = {}
                     \/ Refs'[c] = {} /\ Last
                     \/ NewPublishes(t) /\ onCtx[t] = c
           Ref(x)  == x \in arcs[c] \/ (x \in States /\ owner[x] = c /\ handle[x] \in Counted)
           RefN(x) == x \in arcs'[c] \/ (x \in States /\ owner'[x] = c /\ handle'[x] \in Counted)
<1> SUFFICES Change
  OBVIOUS
<1>a. TypeOK /\ BirthInv /\ Target(t)
  BY DEF BaseInv, TargetInv
<1>b. (\A x : x \in Refs[c] <=> Ref(x)) /\ (\A x : x \in Refs'[c] <=> RefN(x))
  BY RefsAre
<1>c. ASSUME \A x : Ref(x) <=> RefN(x) PROVE Change
  BY <1>b, <1>c
<1>d. ASSUME NEW x, Ref(x), NEW y, RefN(y) PROVE Change
  BY <1>b, <1>d
<1> HIDE DEF Change
<1>0. CASE UNCHANGED <<arcs, owner, handle>>
  <2>1. \A x : Ref(x) <=> RefN(x)
    BY <1>0
  <2> QED
    BY <2>1, <1>c
<1>1. CASE NewPublishes(t)
  BY <1>1, <1>a, <1>c DEF NewPublishes, Change, TypeOK
<1>2. ASSUME NEW d \in Contexts, NEW u \in Threads, CloneArc(t, u, d) PROVE Change
  <2>1. CASE c = d
    <3>1. RefN(u)
      BY <1>2, <1>a, <2>1 DEF CloneArc, TypeOK
    <3>2. \E x : Ref(x)
      BY <1>2, <1>a, <2>1 DEF CloneArc, Owned, Counted
    <3> QED
      BY <3>1, <3>2, <1>d
  <2>2. CASE c # d
    BY <1>2, <1>a, <1>c, <2>2 DEF CloneArc, TypeOK
  <2> QED
    BY <2>1, <2>2
<1>3. ASSUME NEW d \in Contexts, ArcDrops(t, d) PROVE Change
  <2>1. CASE c = d
    <3>1. Refs[c] # {t} /\ t \in Refs[c]
      BY <1>b, <1>3, <2>1 DEF ArcDrops
    <3>2. PICK x \in Refs[c] : x # t
      BY <3>1
    <3>3. Ref(x) /\ RefN(x)
      BY <1>3, <1>a, <1>b, <2>1, <3>2 DEF ArcDrops, TypeOK
    <3> QED
      BY <3>3, <1>d
  <2>2. CASE c # d
    BY <1>3, <1>a, <1>c, <2>2 DEF ArcDrops, TypeOK
  <2> QED
    BY <2>1, <2>2
<1>4. ASSUME NEW d \in Contexts, LastArcDrops(t, d) PROVE Change
  <2>1. CASE c = d
    BY <1>4, <1>a, <2>1, LastReference DEF Change
  <2>2. CASE c # d
    BY <1>4, <1>a, <1>c, <2>2 DEF LastArcDrops, TypeOK
  <2> QED
    BY <2>1, <2>2
<1>5. ASSUME NEW s \in States, CreateAllocates(t, s) PROVE Change
  <2>1. /\ handle[s] = "none" /\ owner' = [owner EXCEPT ![s] = onCtx[t]]
        /\ UNCHANGED <<arcs, handle>>
    BY <1>5, <1>a DEF CreateAllocates, BirthInv
  <2> QED
    BY <2>1, <1>a, <1>c DEF TypeOK, Counted
<1>6. CASE CreatePublishes(t)
  <2>1. /\ onState[t] \in States /\ handle' = [handle EXCEPT ![onState[t]] = "some"]
        /\ t \in arcs[onCtx[t]] /\ owner[onState[t]] = onCtx[t]
        /\ UNCHANGED <<arcs, owner>>
    BY <1>6, <1>a DEF CreatePublishes, Target, Creating, TypeOK
  <2>2. CASE onCtx[t] = c
    <3>1. Ref(t)
      BY <2>1, <2>2
    <3>2. RefN(onState[t])
      BY <1>a, <2>1, <2>2 DEF TypeOK, Counted
    <3> QED
      BY <1>d, <3>1, <3>2
  <2>3. CASE onCtx[t] # c
    <3>1. \A x : Ref(x) <=> RefN(x)
      BY <1>a, <2>1, <2>3 DEF TypeOK
    <3> QED
      BY <1>c, <3>1
  <2> QED
    BY <2>2, <2>3
<1>7. ASSUME NEW s \in States, Owned(s) \/ handle[s] = "dropping",
             UNCHANGED <<arcs, owner>>,
             handle' \in {[handle EXCEPT ![s] = "null"], [handle EXCEPT ![s] = "dropping"]}
      PROVE  Change
  BY <1>7, <1>a, <1>c DEF Owned, Counted, TypeOK
<1>8. ASSUME NEW s \in States, StateDrops(t, s) PROVE Change
  BY <1>7, <1>8 DEF StateDrops
<1>9. CASE FullForgets(t) \/ FullFrees(t)
  <2>1. onState[t] \in States /\ Owned(onState[t])
    BY <1>9, <1>a DEF FullForgets, FullFrees, Target, InFull, UnderFullLock, Losing
  <2> QED
    BY <1>7, <1>9, <2>1 DEF FullForgets, FullFrees, Owned
<1>10. CASE StateDropsArc(t) \/ StateDropsLastArc(t)
  <2>1. /\ onState[t] \in States /\ onCtx[t] \in Contexts
        /\ owner[onState[t]] = onCtx[t] /\ handle[onState[t]] = "dropping"
        /\ handle' = [handle EXCEPT ![onState[t]] = "gone"] /\ UNCHANGED <<arcs, owner>>
    BY <1>10, <1>a DEF StateDropsArc, StateDropsLastArc, Target
  <2>2. CASE onCtx[t] # c
    <3>1. \A x : Ref(x) <=> RefN(x)
      BY <1>a, <2>1, <2>2 DEF TypeOK
    <3> QED
      BY <1>c, <3>1
  <2>3. CASE onCtx[t] = c /\ StateDropsArc(t)
    <3>1. Refs[c] # {onState[t]} /\ onState[t] \in Refs[c]
      BY <1>b, <2>1, <2>3 DEF StateDropsArc, Counted
    <3>2. PICK x \in Refs[c] : x # onState[t]
      BY <3>1
    <3>3. Ref(x) /\ RefN(x)
      BY <1>a, <1>b, <2>1, <3>2 DEF TypeOK
    <3> QED
      BY <3>3, <1>d
  <2>4. CASE onCtx[t] = c /\ StateDropsLastArc(t)
    BY <1>a, <2>4, LastReference DEF Change
  <2> QED
    BY <1>10, <2>2, <2>3, <2>4
<1> QED
  BY <1>0, <1>1, <1>2, <1>3, <1>4, <1>5, <1>6, <1>8, <1>9, <1>10
     DEF Calls, Continues, Returns, refs, heap, calls, NewStarts, NewRejects, CreateRefuses,
     CreateStarts, FullRejects, FullFindsNull, FullStarts, NewReturnsNull, CreateReturnsNull,
     FullIsFreed, NewLoads, NewThrows, CreateThrows, FullThrows, FullAnswers, NewLocks,
     NewRefusesModel, NewFails, CreateLocks, CreateRechecks, CreateDiscards, CreateFails,
     FullLocks, FullIsRefused, FullPasses, FullMarks, FullMarksFirst, FullUnlocks, ContextDrops

\* The native contexts change only when one is loaded, refused or dropped.
LEMMA OnlyTheseTouchContexts ==
  ASSUME TypeOK, NEW t \in Threads, Calls(t) \/ Continues(t)
  PROVE  \/ UNCHANGED ctx
         \/ \E c \in Contexts : NewLoads(t, c)
         \/ NewRefusesModel(t) \/ ContextDrops(t)
<1> USE DEF TypeOK, Alone, Goto, Begin, Refuse, Return, Step, Answer, BackWith, heap, calls
<1>1. CASE Calls(t)
  BY <1>1
     DEF Calls, NewStarts, NewRejects, CreateRefuses, CreateStarts, ArcDrops, LastArcDrops,
     CloneArc, FullRejects, FullFindsNull, FullStarts, StateDrops
<1>2. CASE Returns(t)
  BY <1>2
     DEF Returns, NewReturnsNull, CreateReturnsNull, FullIsFreed, CreateAllocates, NewThrows,
     CreateThrows, FullThrows, FullAnswers
<1>3. CASE Continues(t) /\ ~Returns(t)
  BY <1>3
     DEF Continues, NewLocks, NewPublishes, NewFails, CreateLocks, CreateRechecks,
     CreateDiscards, CreatePublishes, CreateFails, FullLocks, FullIsRefused, FullPasses,
     FullForgets, FullMarks, FullMarksFirst, FullFrees, FullUnlocks, StateDropsArc,
     StateDropsLastArc
<1> QED
  BY <1>1, <1>2, <1>3

\* A thread that disposes of an unreferenced Context publishes it, refuses it,
\* has none, or frees it.
LEMMA OnlyTheseLeaveAlone ==
  ASSUME TypeOK, NEW t \in Threads, Calls(t) \/ Continues(t)
  PROVE  pc[t] \in Alone =>
           NewPublishes(t) \/ NewRefusesModel(t) \/ NewFails(t) \/ ContextDrops(t)
<1> USE DEF TypeOK, Alone, Goto, Begin, Refuse, Return, Step, Answer, BackWith, heap, calls
<1>1. CASE Calls(t)
  BY <1>1
     DEF Calls, NewStarts, NewRejects, CreateRefuses, CreateStarts, ArcDrops, LastArcDrops,
     CloneArc, FullRejects, FullFindsNull, FullStarts, StateDrops
<1>2. CASE Returns(t)
  BY <1>2
     DEF Returns, NewReturnsNull, CreateReturnsNull, FullIsFreed, NewLoads, CreateAllocates,
     NewThrows, CreateThrows, FullThrows, FullAnswers
<1>3. CASE Continues(t) /\ ~Returns(t)
  BY <1>3
     DEF Continues, NewLocks, CreateLocks, CreateRechecks, CreateDiscards, CreatePublishes,
     CreateFails, FullLocks, FullIsRefused, FullPasses, FullForgets, FullMarks, FullMarksFirst,
     FullFrees, FullUnlocks, StateDropsArc, StateDropsLastArc
<1> QED
  BY <1>1, <1>2, <1>3

\* A thread comes to dispose of an unreferenced Context when
\* whisper_init_from_file returns or when it drops the last Arc.
LEMMA OnlyTheseEnterAlone ==
  ASSUME TypeOK, NEW t \in Threads, Calls(t) \/ Continues(t)
  PROVE  pc'[t] \in Alone =>
           \/ \E c \in Contexts : NewLoads(t, c) \/ LastArcDrops(t, c)
           \/ \E e \in ExceptionCodes : NewThrows(t, e)
           \/ NewReturnsNull(t) \/ StateDropsLastArc(t)
<1> USE DEF TypeOK, Alone, Goto, Begin, Refuse, Return, Step, Answer, BackWith, heap, calls
<1>1. CASE Calls(t)
  BY <1>1, CallsBegin
<1>2. CASE Returns(t)
  BY <1>2
     DEF Returns, CreateReturnsNull, FullIsFreed, CreateAllocates, CreateThrows, FullThrows,
     FullAnswers
<1>3. CASE Continues(t) /\ ~Returns(t)
  BY <1>3
     DEF Continues, NewLocks, NewPublishes, NewRefusesModel, NewFails, CreateLocks,
     CreateRechecks, CreateDiscards, CreatePublishes, CreateFails, FullLocks, FullIsRefused,
     FullPasses, FullForgets, FullMarks, FullMarksFirst, FullFrees, FullUnlocks, StateDropsArc,
     ContextDrops
<1> QED
  BY <1>1, <1>2, <1>3

\* A referenced Context stays live, and a live one without references is in the
\* hands of the thread that loaded it or dropped its last Arc.
LEMMA ReferencedStep ==
  ASSUME BaseInv, ContextInv, NEW t \in Threads, Calls(t) \/ Continues(t), NEW c \in Contexts
  PROVE  Referenced(c)'
<1>a. TypeOK /\ Target(t) /\ Unpublished(t) /\ AloneWith(t) /\ Referenced(c)
  BY DEF BaseInv, TargetInv, FreshInv, ContextInv
<1>b. \A u \in Threads \ {t} : pc'[u] = pc[u] /\ onCtx'[u] = onCtx[u]
  BY <1>a, OthersStay
<1>c. ctx[c] = "none" => Refs[c] = {}
  BY <1>a DEF BaseInv, FreshInv, Unused, Refs
<1>d. pc[t] \in Alone /\ onCtx[t] # NoContext =>
        onCtx[t] \in Contexts /\ ctx[onCtx[t]] = "live" /\ Refs[onCtx[t]] = {}
  <2>1. ASSUME pc[t] = "new: settle", onCtx[t] # NoContext PROVE Refs[onCtx[t]] = {}
    <3>1. onCtx[t] \in Contexts /\ Unused(onCtx[t])
      BY <1>a, <2>1 DEF TypeOK, Unpublished
    <3> QED
      BY <3>1 DEF Unused, Refs
  <2> QED
    BY <1>a, <2>1 DEF TypeOK, AloneWith, Alone
<1>1. CASE UNCHANGED ctx /\ (Refs'[c] = {} <=> Refs[c] = {})
  <2>1. CASE pc[t] \in Alone /\ onCtx[t] = c
    <3>1. NewPublishes(t) \/ NewFails(t) \/ NewRefusesModel(t) \/ ContextDrops(t)
      BY <1>a, <2>1, OnlyTheseLeaveAlone
    <3>2. ctx[c] = "live" /\ Refs[c] = {}
      BY <1>d, <2>1, NamesAssumption
    <3>3. ~NewFails(t)
      BY <2>1, NamesAssumption DEF NewFails
    <3>4. ~NewRefusesModel(t) /\ ~ContextDrops(t)
      BY <1>1, <1>a, <2>1, <3>2 DEF NewRefusesModel, ContextDrops, FreeContext, Freed, TypeOK
    <3>5. CASE NewPublishes(t)
      BY <1>1, <1>a, <2>1, <3>2, <3>5 DEF NewPublishes, Refs, TypeOK
    <3> QED
      BY <3>1, <3>3, <3>4, <3>5
  <2>2. CASE ~(pc[t] \in Alone /\ onCtx[t] = c)
    <3>1. \A u \in Threads : pc[u] \in Alone /\ onCtx[u] = c => pc'[u] \in Alone /\ onCtx'[u] = c
      BY <1>b, <2>2
    <3> QED
      BY <1>1, <1>a, <3>1 DEF Referenced
  <2> QED
    BY <2>1, <2>2
<1>2. CASE Refs'[c] = {} /\ LastArcDrops(t, c)
  <2>1. pc'[t] = "drop: context" /\ onCtx'[t] = c /\ UNCHANGED ctx
    BY <1>2, <1>a DEF LastArcDrops, Begin, Goto, TypeOK, heap
  <2> QED
    BY <1>2, <1>a, <2>1 DEF Referenced, Alone
<1>3. CASE Refs'[c] = {} /\ StateDropsLastArc(t) /\ onCtx[t] = c
  <2>1. pc'[t] = "drop: context" /\ onCtx'[t] = c /\ UNCHANGED ctx
    BY <1>3, <1>a DEF StateDropsLastArc, Goto, TypeOK, heap
  <2> QED
    BY <1>3, <1>a, <2>1 DEF Referenced, Alone
<1>4. CASE NewPublishes(t) /\ onCtx[t] = c
  <2>1. ctx'[c] = "live"
    BY <1>4, <1>a, <1>d, NamesAssumption DEF NewPublishes, Alone, heap
  <2>2. t \in Refs'[c]
    BY <1>4, <1>a DEF NewPublishes, Refs, TypeOK
  <2> QED
    BY <2>1, <2>2 DEF Referenced
<1>5. ASSUME NEW d \in Contexts, NewLoads(t, d), Refs'[c] = {} <=> Refs[c] = {}
      PROVE  Referenced(c)'
  <2>1. /\ ctx[d] = "none" /\ ctx' = [ctx EXCEPT ![d] = "live"]
        /\ pc'[t] = "new: settle" /\ onCtx'[t] = d /\ pc[t] \notin Alone
    BY <1>5, <1>a DEF NewLoads, Goto, TypeOK, Alone
  <2>2. CASE c = d
    <3>1. ctx'[c] = "live" /\ Refs'[c] = {}
      BY <1>5, <1>a, <1>c, <2>1, <2>2 DEF TypeOK
    <3> QED
      BY <2>1, <2>2, <3>1 DEF Referenced, Alone
  <2>3. CASE c # d
    <3>1. ctx'[c] = ctx[c]
      BY <1>a, <2>1, <2>3 DEF TypeOK
    <3>2. \A u \in Threads : pc[u] \in Alone /\ onCtx[u] = c => pc'[u] \in Alone /\ onCtx'[u] = c
      BY <1>b, <2>1
    <3> QED
      BY <1>5, <1>a, <3>1, <3>2 DEF Referenced
  <2> QED
    BY <2>2, <2>3
<1>6. CASE (NewRefusesModel(t) \/ ContextDrops(t)) /\ (Refs'[c] = {} <=> Refs[c] = {})
  <2>1. pc[t] \in Alone /\ onCtx[t] # NoContext
    BY <1>6, <1>a, NamesAssumption DEF NewRefusesModel, ContextDrops, Alone, AloneWith
  <2>2. ctx' = [ctx EXCEPT ![onCtx[t]] = "freed"]
    BY <1>6, <1>d, <2>1 DEF NewRefusesModel, ContextDrops, FreeContext, Freed
  <2>3. CASE onCtx[t] = c
    BY <1>6, <1>a, <1>d, <2>1, <2>2, <2>3 DEF Referenced, TypeOK
  <2>4. CASE onCtx[t] # c
    <3>1. ctx'[c] = ctx[c]
      BY <1>a, <2>2, <2>4 DEF TypeOK
    <3>2. \A u \in Threads : pc[u] \in Alone /\ onCtx[u] = c => pc'[u] \in Alone /\ onCtx'[u] = c
      BY <1>b, <2>4
    <3> QED
      BY <1>6, <1>a, <3>1, <3>2 DEF Referenced
  <2> QED
    BY <2>3, <2>4
<1>7. \/ Refs'[c] = {} <=> Refs[c] = {}
      \/ Refs'[c] = {} /\ (LastArcDrops(t, c) \/ (StateDropsLastArc(t) /\ onCtx[t] = c))
      \/ NewPublishes(t) /\ onCtx[t] = c
  BY RefsStep
<1>8. \/ UNCHANGED ctx
      \/ \E d \in Contexts : NewLoads(t, d)
      \/ NewRefusesModel(t) \/ ContextDrops(t)
  BY <1>a, OnlyTheseTouchContexts
<1> QED
  BY <1>1, <1>2, <1>3, <1>4, <1>5, <1>6, <1>7, <1>8

\* Nobody frees, or refers to, a Context another thread is disposing of.
LEMMA OtherAlone ==
  ASSUME BaseInv, ContextInv, NEW t \in Threads, Calls(t) \/ Continues(t), NEW u \in Threads \ {t}
  PROVE  AloneWith(u)'
<1>a. /\ TypeOK /\ Target(t) /\ Target(u)
      /\ AloneWith(u) /\ AloneWith(t)
      /\ pc'[u] = pc[u] /\ onCtx'[u] = onCtx[u]
      /\ pc[t] \in Alone /\ pc[u] \in Alone /\ onCtx[t] = onCtx[u] => onCtx[t] = NoContext
  BY OthersStay DEF BaseInv, TargetInv, ContextInv, DisposesAlone
<1>b. ASSUME onCtx[u] \in Contexts, Refs[onCtx[u]] = {}, ~(NewPublishes(t) /\ onCtx[t] = onCtx[u])
      PROVE  Refs'[onCtx[u]] = {}
  BY <1>b, RefsStep
<1>c. pc[u] = "drop: context" => Refs'[onCtx[u]] = {}
  BY <1>a, <1>b DEF AloneWith, Alone, NewPublishes
<1> USE <1>a, NamesAssumption, CodesAssumption
    DEF TypeOK, Target, AloneWith, Alone,
        Goto, Begin, Refuse, Return, Step, Answer, BackWith, Result, Freed, FreeState,
        FreeContext, ShimEnter, ShimCatch, TakeSentinel, Owned, AtRest, locks, refs, heap, calls
<1>0. CASE UNCHANGED ctx
  BY <1>0, <1>c
<1>1. ASSUME NEW c \in Contexts, NewLoads(t, c) PROVE AloneWith(u)'
  BY <1>1, <1>c DEF NewLoads
<1>2. CASE NewRefusesModel(t)
  BY <1>2, <1>c DEF NewRefusesModel
<1>3. CASE ContextDrops(t)
  BY <1>3, <1>c DEF ContextDrops
<1> QED
  BY <1>0, <1>1, <1>2, <1>3
     DEF Calls, Continues, Returns, NewStarts, NewRejects, CreateRefuses, CreateStarts,
     ArcDrops, LastArcDrops, CloneArc, FullRejects, FullFindsNull, FullStarts, StateDrops,
     NewReturnsNull, CreateReturnsNull, FullIsFreed, CreateAllocates, NewThrows, CreateThrows,
     FullThrows, FullAnswers, NewLocks, NewPublishes, NewFails, CreateLocks, CreateRechecks,
     CreateDiscards, CreatePublishes, CreateFails, FullLocks, FullIsRefused, FullPasses,
     FullForgets, FullMarks, FullMarksFirst, FullFrees, FullUnlocks, StateDropsArc,
     StateDropsLastArc

\* A thread that comes to dispose of a Context finds it live and unreferenced.
LEMMA OwnAlone ==
  ASSUME BaseInv, ContextInv, NEW t \in Threads, Calls(t) \/ Continues(t)
  PROVE  AloneWith(t)'
<1>b. TypeOK /\ Target(t) /\ \A c \in Contexts : Referenced(c)
  BY DEF BaseInv, TargetInv, ContextInv
<1> SUFFICES ASSUME pc'[t] \in Alone PROVE AloneWith(t)'
  BY DEF AloneWith, Alone
<1>1. ASSUME NEW c \in Contexts, NewLoads(t, c) PROVE AloneWith(t)'
  BY <1>1, <1>b DEF NewLoads, Goto, AloneWith, TypeOK
<1>2. ASSUME NEW c \in Contexts, LastArcDrops(t, c) PROVE AloneWith(t)'
  <2>1. t \in Refs[c] /\ ctx[c] = "live"
    BY <1>2, <1>b DEF LastArcDrops, Referenced
  <2>2. ctx' = ctx /\ onCtx'[t] = c /\ pc'[t] = "drop: context"
    BY <1>2, <1>b DEF LastArcDrops, Begin, Goto, TypeOK, heap
  <2>3. Refs'[c] = {}
    BY <1>2, <1>b, LastReference
  <2> QED
    BY <2>1, <2>2, <2>3 DEF AloneWith
<1>3. CASE NewReturnsNull(t) \/ \E e \in ExceptionCodes : NewThrows(t, e)
  <2>1. pc'[t] = "new: settle" /\ onCtx'[t] = NoContext
    BY <1>3, <1>b DEF NewReturnsNull, NewThrows, Step, BackWith, Goto, TypeOK, Target
  <2> QED
    BY <2>1 DEF AloneWith
<1>4. CASE StateDropsLastArc(t)
  <2>1. onCtx[t] \in Contexts /\ onState[t] \in Refs[onCtx[t]] /\ ctx[onCtx[t]] = "live"
    BY <1>4, <1>b DEF StateDropsLastArc, Target, Referenced
  <2>2. ctx' = ctx /\ onCtx'[t] = onCtx[t] /\ pc'[t] = "drop: context"
    BY <1>4, <1>b DEF StateDropsLastArc, Goto, TypeOK, heap
  <2>3. Refs'[onCtx[t]] = {}
    BY <1>4, <1>b, <2>1, LastReference
  <2> QED
    BY <2>1, <2>2, <2>3 DEF AloneWith
<1> QED
  BY <1>b, <1>1, <1>2, <1>3, <1>4, OnlyTheseEnterAlone

\* Two threads never dispose of one Context: a second last Arc does not exist.
LEMMA DisposesAloneStep ==
  ASSUME BaseInv, ContextInv, NEW t \in Threads, Calls(t) \/ Continues(t)
  PROVE  DisposesAlone'
<1>a. /\ TypeOK /\ Target(t) /\ DisposesAlone
      /\ \A u \in Threads : AloneWith(u) /\ Unpublished(u)
      /\ \A c \in Contexts : Referenced(c) /\ (ctx[c] = "none" => Unused(c))
  BY DEF BaseInv, TargetInv, FreshInv, ContextInv
<1>b. \A u \in Threads \ {t} : pc'[u] = pc[u] /\ onCtx'[u] = onCtx[u]
  BY <1>a, OthersStay
<1>c. ASSUME NEW u \in Threads, pc[u] \in Alone, onCtx[u] # NoContext
      PROVE  onCtx[u] \in Contexts /\ ctx[onCtx[u]] = "live" /\ Refs[onCtx[u]] = {}
  <2>1. TypeOK /\ AloneWith(u) /\ Unpublished(u)
    BY <1>a
  <2>2. pc[u] = "new: settle" => Refs[onCtx[u]] = {}
    BY <1>c, <2>1 DEF TypeOK, Unpublished, Unused, Refs
  <2> QED
    BY <1>c, <2>1, <2>2 DEF TypeOK, AloneWith, Alone
<1>d. ASSUME pc'[t] \in Alone, NEW u \in Threads \ {t}, pc[u] \in Alone, onCtx[u] = onCtx'[t]
      PROVE  onCtx[u] = NoContext
  <2>1. ASSUME NEW c \in Contexts, NewLoads(t, c) PROVE onCtx[u] = NoContext
    <3>1. onCtx'[t] = c /\ ctx[c] = "none"
      BY <2>1, <1>a DEF NewLoads, TypeOK
    <3> QED
      BY <1>c, <1>d, <3>1
  <2>2. ASSUME NEW c \in Contexts, LastArcDrops(t, c) PROVE onCtx[u] = NoContext
    <3>1. onCtx'[t] = c /\ t \in Refs[c]
      BY <2>2, <1>a DEF LastArcDrops, Begin, TypeOK
    <3> QED
      BY <1>c, <1>d, <3>1
  <2>3. CASE NewReturnsNull(t) \/ \E e \in ExceptionCodes : NewThrows(t, e)
    <3>1. onCtx'[t] = NoContext
      BY <2>3, <1>a DEF NewReturnsNull, NewThrows, Step, BackWith, TypeOK, Target
    <3> QED
      BY <1>d, <3>1
  <2>4. CASE StateDropsLastArc(t)
    <3>1. onCtx'[t] = onCtx[t] /\ onState[t] \in Refs[onCtx[t]]
      BY <2>4, <1>a DEF StateDropsLastArc
    <3> QED
      BY <1>c, <1>d, <3>1
  <2> QED
    BY <1>a, <1>d, <2>1, <2>2, <2>3, <2>4, OnlyTheseEnterAlone
<1> QED
  BY <1>a, <1>b, <1>d DEF DisposesAlone

\* The native states change only when create_state allocates or discards one,
\* full finds it freed or frees it, and a State is dropped.
LEMMA OnlyTheseTouchStates ==
  ASSUME TypeOK, NEW t \in Threads, Calls(t) \/ Continues(t)
  PROVE  \/ UNCHANGED native
         \/ \E s \in States : CreateAllocates(t, s) \/ StateDrops(t, s)
         \/ CreateDiscards(t) \/ FullIsFreed(t) \/ FullFrees(t)
<1> USE DEF TypeOK, Alone, Goto, Begin, Refuse, Return, Step, Answer, BackWith, heap, calls
<1>1. CASE Calls(t)
  BY <1>1
     DEF Calls, NewStarts, NewRejects, CreateRefuses, CreateStarts, ArcDrops, LastArcDrops,
     CloneArc, FullRejects, FullFindsNull, FullStarts
<1>2. CASE Returns(t)
  BY <1>2
     DEF Returns, NewReturnsNull, CreateReturnsNull, NewLoads, NewThrows, CreateThrows,
     FullThrows, FullAnswers
<1>3. CASE Continues(t) /\ ~Returns(t)
  BY <1>3
     DEF Continues, NewLocks, NewPublishes, NewRefusesModel, NewFails, CreateLocks,
     CreateRechecks, CreatePublishes, CreateFails, FullLocks, FullIsRefused, FullPasses,
     FullForgets, FullMarks, FullMarksFirst, FullUnlocks, StateDropsArc, StateDropsLastArc,
     ContextDrops
<1> QED
  BY <1>1, <1>2, <1>3

\* No native memory, and no reference to any, before anything is loaded.
LEMMA MemoryInit == Init => PointerInv /\ ContextInv
<1> SUFFICES ASSUME Init PROVE PointerInv /\ ContextInv
  OBVIOUS
<1>1. PointerInv
  BY DEF Init, PointerInv, Pointer, InHand, Creating
<1>2. \A c \in Contexts : Referenced(c)
  BY DEF Init, Referenced, Refs
<1>3. (\A t \in Threads : AloneWith(t)) /\ DisposesAlone
  BY DEF Init, AloneWith, DisposesAlone, Alone
<1> QED
  BY <1>1, <1>2, <1>3 DEF ContextInv

\* PointerInv and ContextInv survive a step that changes nothing.
LEMMA MemoryUnchanged ==
  ASSUME PointerInv, ContextInv, UNCHANGED vars
  PROVE  PointerInv' /\ ContextInv'
<1>a. /\ UNCHANGED <<lost, ctx, native, arcs, owner, handle>>
      /\ UNCHANGED <<pc, onCtx, onState, ret>>
  BY DEF vars, refs, heap, calls
<1> USE <1>a
<1>1. PointerInv'
  <2>1. ASSUME NEW t \in Threads PROVE Pointer(t)'
    BY DEF PointerInv, Pointer, Creating
  <2>2. ASSUME NEW s \in States PROVE InHand(s)'
    <3>1. InHand(s)
      BY DEF PointerInv
    <3> QED
      BY <3>1 DEF InHand, Creating
  <2> QED
    BY <2>1, <2>2 DEF PointerInv
<1>2. Refs' = Refs
  BY DEF Refs
<1>3. ContextInv'
  BY <1>2 DEF ContextInv, Referenced, AloneWith, DisposesAlone
<1> QED
  BY <1>1, <1>3

\* PointerInv and ContextInv survive every step of every thread.
LEMMA MemoryStep ==
  ASSUME BaseInv, PointerInv, ContextInv, NEW t \in Threads, Calls(t) \/ Continues(t)
  PROVE  PointerInv' /\ ContextInv'
<1>1. \A u \in Threads : Pointer(u)'
  BY OwnPointer, OtherPointer
<1>2. \A s \in States : InHand(s)'
  BY InHandStep
<1>3. \A c \in Contexts : Referenced(c)'
  BY ReferencedStep
<1>4. \A u \in Threads : AloneWith(u)'
  BY OwnAlone, OtherAlone
<1>5. DisposesAlone'
  BY DisposesAloneStep
<1> QED
  BY <1>1, <1>2, <1>3, <1>4, <1>5 DEF PointerInv, ContextInv

\* For any number of threads, Contexts and States: pointers, handles and native
\* states agree at every label of every call, and references keep Contexts
\* alive.
THEOREM MemoryInvariant == Spec => [](PointerInv /\ ContextInv)
<1>1. Spec => []BaseInv
  BY BaseInvariant
<1>2. BaseInv /\ PointerInv /\ ContextInv /\ [Next]_vars => (PointerInv /\ ContextInv)'
  BY MemoryStep, MemoryUnchanged DEF Next
<1> QED
  BY <1>1, <1>2, MemoryInit, PTL DEF Spec

\* Inside whisper_full both the native context and the native state are live.
LEMMA StatesInFull ==
  ASSUME BaseInv, PointerInv, ContextInv, NEW t \in Threads, pc[t] = "full: native"
  PROVE  ctx[onCtx[t]] = "live" /\ native[onState[t]] = "live"
<1>1. TypeOK /\ Target(t) /\ Pointer(t)
  BY DEF BaseInv, TargetInv, PointerInv
<1>2. /\ onCtx[t] \in Contexts /\ onState[t] \in States
      /\ owner[onState[t]] = onCtx[t] /\ handle[onState[t]] = "some"
      /\ native[onState[t]] = "live"
  BY <1>1 DEF Target, Pointer, InFull, UnderFullLock
<1>3. onState[t] \in Refs[onCtx[t]]
  BY <1>2 DEF Refs
<1> QED
  BY <1>2, <1>3 DEF ContextInv, Referenced

\* No native context or state is freed twice, for any number of threads: the
\* two loss paths of full, the discard path of create_state and the Drop impls
\* never free the same block.
THEOREM NothingFreedTwice == Spec => []FreedOnce
<1>1. PointerInv /\ ContextInv => FreedOnce
  BY DEF PointerInv, InHand, ContextInv, Referenced, FreedOnce
<1> QED
  BY MemoryInvariant, <1>1, PTL

\* whisper_init_state and whisper_full always run on live memory, whatever
\* other threads drop meanwhile.
THEOREM CallsOnLiveMemory == Spec => []NativeCallsOnLiveMemory
<1>1. ASSUME BaseInv, PointerInv, ContextInv PROVE NativeCallsOnLiveMemory
  <2>1. ASSUME NEW t \in Threads, pc[t] = "create: native" PROVE ctx[onCtx[t]] = "live"
    <3>1. onCtx[t] \in Contexts /\ t \in arcs[onCtx[t]]
      BY <1>1, <2>1 DEF BaseInv, TargetInv, Target, Creating
    <3>2. t \in Refs[onCtx[t]]
      BY <3>1 DEF Refs
    <3> QED
      BY <1>1, <3>1, <3>2 DEF ContextInv, Referenced
  <2> QED
    BY <1>1, <2>1, StatesInFull DEF NativeCallsOnLiveMemory
<1> QED
  BY BaseInvariant, MemoryInvariant, <1>1, PTL

\* A State whose pointer is Some can be dereferenced by its accessors, on
\* whatever thread it is and whatever became of its Context.
THEOREM AccessorsAreSafe == Spec => []PointersAreValid
<1>1. ASSUME BaseInv, PointerInv, ContextInv PROVE PointersAreValid
  <2> SUFFICES ASSUME NEW s \in States, Owned(s), AtRest(s)
               PROVE  ctx[owner[s]] = "live" /\ (handle[s] = "some" => native[s] = "live")
    BY DEF PointersAreValid
  <2>1. InHand(s) /\ TypeOK /\ BirthInv
    BY <1>1 DEF PointerInv, BaseInv
  <2>2. native[s] # "none" /\ owner[s] \in Contexts
    BY <2>1 DEF Owned, BirthInv, TypeOK
  <2>3. s \in Refs[owner[s]]
    BY <2>2 DEF Refs, Owned
  <2>4. ctx[owner[s]] = "live"
    BY <1>1, <2>2, <2>3 DEF ContextInv, Referenced
  <2> QED
    BY <2>1, <2>4 DEF InHand, AtRest
<1> QED
  BY BaseInvariant, MemoryInvariant, <1>1, PTL

\* whisper_free runs on a Context only after every native state made on it has
\* been freed, published or not.
THEOREM ContextsOutlive == Spec => []ContextOutlivesStates
<1>1. ASSUME BaseInv, PointerInv, ContextInv PROVE ContextOutlivesStates
  <2> SUFFICES ASSUME NEW s \in States, native[s] = "live" PROVE ctx[owner[s]] = "live"
    BY DEF ContextOutlivesStates
  <2>1. InHand(s) /\ TypeOK /\ BirthInv
    BY <1>1 DEF PointerInv, BaseInv
  <2>2. owner[s] \in Contexts
    BY <2>1 DEF BirthInv, TypeOK
  <2>3. CASE handle[s] = "none"
    <3>1. PICK t \in Threads : onState[t] = s /\ pc[t] \in Creating
      BY <2>1, <2>3 DEF InHand
    <3>2. owner[s] = onCtx[t] /\ t \in arcs[onCtx[t]]
      BY <1>1, <3>1, NamesAssumption DEF BaseInv, TargetInv, Target
    <3>3. t \in Refs[owner[s]]
      BY <2>2, <3>2 DEF Refs
    <3> QED
      BY <1>1, <2>2, <3>3 DEF ContextInv, Referenced
  <2>4. CASE handle[s] # "none"
    <3>1. handle[s] = "some"
      BY <2>1, <2>4 DEF InHand, TypeOK, Handle
    <3>2. s \in Refs[owner[s]]
      BY <2>2, <3>1 DEF Refs
    <3> QED
      BY <1>1, <2>2, <3>2 DEF ContextInv, Referenced
  <2> QED
    BY <2>3, <2>4
<1> QED
  BY BaseInvariant, MemoryInvariant, <1>1, PTL

\* When full releases full_lock with StateLost, the flag is set, the pointer is
\* None and the native state is freed: the next holder of the lock sees it all.
THEOREM LossesArePublished == Spec => []LossIsPublished
<1>1. ASSUME BaseInv, PointerInv PROVE LossIsPublished
  <2> SUFFICES ASSUME NEW t \in Threads, pc[t] = "full: unlock", ret[t].kind = "StateLost"
               PROVE  lost[onCtx[t]] /\ handle[onState[t]] = "null" /\ native[onState[t]] = "freed"
    BY DEF LossIsPublished
  <2>1. Pointer(t) /\ Target(t)
    BY <1>1 DEF PointerInv, BaseInv, TargetInv
  <2>2. onState[t] \in States /\ lost[onCtx[t]] /\ handle[onState[t]] = "null"
    BY <2>1 DEF Pointer, Target, InFull, UnderFullLock
  <2> QED
    BY <1>1, <2>2 DEF PointerInv, InHand
<1> QED
  BY BaseInvariant, MemoryInvariant, <1>1, PTL

\* When no call runs and no reference to a Context is left, its native context
\* and all its native states have been freed, on every path of every call.
THEOREM NoLeaks == Spec => []NothingLeaks
<1>1. ASSUME BaseInv, PointerInv, ContextInv PROVE NothingLeaks
  <2> SUFFICES ASSUME \A t \in Threads : pc[t] = "idle", NEW c \in Contexts, Refs[c] = {}
               PROVE  ctx[c] # "live" /\ \A s \in States : owner[s] = c => native[s] # "live"
    BY DEF NothingLeaks
  <2>1. ctx[c] # "live"
    BY <1>1 DEF ContextInv, Referenced, Alone
  <2>2. ASSUME NEW s \in States, owner[s] = c PROVE native[s] # "live"
    <3>1. handle[s] \notin {"some", "null", "dropping"}
      BY <2>2 DEF Refs
    <3>2. InHand(s) /\ TypeOK
      BY <1>1 DEF PointerInv, BaseInv
    <3> QED
      BY <3>1, <3>2 DEF InHand, TypeOK, Handle, Creating
  <2> QED
    BY <2>1, <2>2
<1> QED
  BY BaseInvariant, MemoryInvariant, <1>1, PTL

\* On a caught exception full sets the flag before it frees the native state:
\* no step frees a state lost to an exception on a Context that is not
\* poisoned.
THEOREM FlagPrecedesFree == Spec => PoisonBeforeFree
<1> DEFINE Early == \A s \in States :
                      cause[s] \in ExceptionCodes /\ native[s] = "live" /\ native'[s] = "freed"
                        => lost[owner[s]]
<1>1. ASSUME BaseInv, LossInv, PointerInv, [Next]_vars PROVE Early
  <2> SUFFICES ASSUME NEW s \in States, cause[s] \in ExceptionCodes,
                      native[s] = "live", native'[s] = "freed", ~lost[owner[s]]
               PROVE  FALSE
    OBVIOUS
  <2>1. cause[s] # NoCode
    BY CodesAssumption DEF NoCode, BadAlloc
  <2>2. PICK t \in Threads : onState[t] = s /\ pc[t] \in Losing
    BY <1>1, <2>1 DEF LossInv, OnRecord
  <2>3. pc[t] = "full: mark first" /\ handle[s] = "some"
    <3>1. Pointer(t) /\ InHand(s)
      BY <1>1 DEF PointerInv
    <3> QED
      BY <2>2, <3>1 DEF Pointer, InHand, Losing
  <2>4. PICK u \in Threads : Calls(u) \/ Continues(u)
    BY <1>1 DEF Next, vars, heap
  <2>5. \A r \in Threads : onState[r] = s => r = t
    BY <1>1, <2>2, NamesAssumption DEF BaseInv, ApartInv
  <2>6. pc[u] \in {"create: discard", "full: native", "full: free"} => onState[u] # s
    BY <2>3, <2>5
  <2>7. ~AtRest(s)
    BY <2>2 DEF AtRest
  <2>8. TypeOK
    BY <1>1 DEF BaseInv
  <2>9. ASSUME NEW r \in States, CreateAllocates(u, r) \/ StateDrops(u, r) PROVE FALSE
    <3>1. r # s
      BY <2>7, <2>9 DEF CreateAllocates, StateDrops
    <3> QED
      BY <2>8, <2>9, <3>1 DEF CreateAllocates, StateDrops, FreeState, TypeOK
  <2>10. CASE CreateDiscards(u) \/ FullIsFreed(u) \/ FullFrees(u)
    BY <2>6, <2>8, <2>10 DEF CreateDiscards, FullIsFreed, FullFrees, FreeState, TypeOK
  <2> QED
    BY <2>4, <2>8, <2>9, <2>10, OnlyTheseTouchStates
<1> QED
  BY BaseInvariant, LossInvariant, MemoryInvariant, <1>1, PTL DEF PoisonBeforeFree, Spec
=============================================================================
