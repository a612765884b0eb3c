------------------------ MODULE SharedContextLoss ------------------------
(***************************************************************************)
(* Proofs about SharedContext, second part: what full_lock and the poison  *)
(* flag bound. A loss is on record in the flag, or its finder still holds  *)
(* full_lock (LossInv); the flag is read under full_lock, so that nothing  *)
(* runs after a loss; the second check of create_state leaves room for one *)
(* late State (LateInv); and a constructor's error is its own (ReportInv). *)
(***************************************************************************)
EXTENDS SharedContextLocks

\* A loss stays on record: either the flag of its Context is set, or the thread
\* that was told of the loss has not released full_lock.
LEMMA RecordStep ==
  ASSUME BaseInv, LossInv, NEW t \in Threads, Calls(t) \/ Continues(t), NEW s \in States
  PROVE  OnRecord(s)'
<1>a. TypeOK /\ BirthInv /\ Target(t) /\ Unpublished(t)
  BY DEF BaseInv, TargetInv, FreshInv
<1>b. \A u \in Threads \ {t} : pc'[u] = pc[u] /\ onState'[u] = onState[u]
  BY <1>a, OthersStay
<1>c. OnRecord(s)
  BY DEF LossInv
<1> USE <1>b, <1>c
<1> USE <1>a, NamesAssumption, CodesAssumption
    DEF TypeOK, BirthInv, Target, Unpublished, Unused, OnRecord, NoCode, Creating, InFull,
        UnderFullLock, Losing,
        Goto, Begin, Refuse, Return, Step, Answer, BackWith, Result, Freed, FreeState,
        FreeContext, ShimEnter, ShimCatch, TakeSentinel, Owned, AtRest, locks, refs, heap, calls
<1>0. CASE pc[t] \notin Losing /\ UNCHANGED <<lost, owner, cause>>
  BY <1>0
<1>1. CASE NewPublishes(t)
  BY <1>1 DEF NewPublishes
<1>2. ASSUME NEW r \in States, CreateAllocates(t, r) PROVE OnRecord(s)'
  BY <1>2 DEF CreateAllocates
<1>3. CASE FullIsFreed(t)
  BY <1>3 DEF FullIsFreed
<1>4. ASSUME NEW code \in Codes, FullThrows(t, code) PROVE OnRecord(s)'
  BY <1>4 DEF FullThrows
<1>5. CASE FullForgets(t)
  BY <1>5 DEF FullForgets
<1>6. CASE FullMarks(t)
  <2>1. lost' = [lost EXCEPT ![onCtx[t]] = TRUE] /\ UNCHANGED <<owner, cause, onState>>
    BY <1>6 DEF FullMarks
  <2>2. onCtx[t] \in Contexts /\ owner[onState[t]] = onCtx[t]
    BY <1>6 DEF FullMarks
  <2>3. CASE lost[owner[s]] \/ onState[t] = s
    BY <2>1, <2>2, <2>3
  <2>4. CASE \E u \in Threads \ {t} : onState[u] = s /\ pc[u] \in Losing
    BY <2>1, <2>2, <2>4
  <2> QED
    BY <2>1, <2>3, <2>4
<1>7. CASE FullMarksFirst(t)
  <2>1. lost' = [lost EXCEPT ![onCtx[t]] = TRUE] /\ UNCHANGED <<owner, cause, onState>>
    BY <1>7 DEF FullMarksFirst
  <2>2. onCtx[t] \in Contexts /\ owner[onState[t]] = onCtx[t]
    BY <1>7 DEF FullMarksFirst
  <2>3. CASE lost[owner[s]] \/ onState[t] = s
    BY <2>1, <2>2, <2>3
  <2>4. CASE \E u \in Threads \ {t} : onState[u] = s /\ pc[u] \in Losing
    BY <2>1, <2>2, <2>4
  <2> QED
    BY <2>1, <2>3, <2>4
<1> QED
  BY <1>0, <1>1, <1>2, <1>3, <1>4, <1>5, <1>6, <1>7
     DEF Calls, Continues, Returns, NewStarts, NewRejects, CreateRefuses, CreateStarts,
     ArcDrops, LastArcDrops, CloneArc, FullRejects, FullFindsNull, FullStarts, StateDrops,
     NewReturnsNull, CreateReturnsNull, NewLoads, NewThrows, CreateThrows, FullAnswers,
     NewLocks, NewRefusesModel, NewFails, CreateLocks, CreateRechecks, CreateDiscards,
     CreatePublishes, CreateFails, FullLocks, FullIsRefused, FullPasses, FullFrees,
     FullUnlocks, StateDropsArc, StateDropsLastArc, ContextDrops

\* The flag of a Context is not set while another thread is inside
\* whisper_full, or has lost its state there and not recorded it: setting it
\* takes full_lock.
LEMMA OtherNotYetLost ==
  ASSUME BaseInv, LossInv, NEW t \in Threads, Calls(t) \/ Continues(t), NEW u \in Threads \ {t}
  PROVE  NotYetLost(u)'
<1>a. /\ TypeOK /\ Target(t) /\ Target(u)
      /\ HoldsLocks(t) /\ HoldsLocks(u) /\ NotYetLost(u)
      /\ pc'[u] = pc[u] /\ onCtx'[u] = onCtx[u]
  BY OthersStay DEF BaseInv, TargetInv, LockInv, LossInv
<1> USE <1>a DEF TypeOK, NotYetLost, refs, heap, calls, ShimEnter
<1>0. CASE UNCHANGED <<lost>>
  BY <1>0
<1>1. CASE NewPublishes(t)
  <2>1. lost' = [lost EXCEPT ![onCtx[t]] = FALSE]
    BY ONLY <1>1 DEF NewPublishes
  <2> QED
    BY ONLY <1>a, <2>1 DEF TypeOK, NotYetLost, Target, InFull, UnderFullLock, Losing
<1>2. ASSUME pc[t] \in Losing, lost' = [lost EXCEPT ![onCtx[t]] = TRUE] PROVE NotYetLost(u)'
  <2>1. onCtx[t] \in Contexts /\ fullLock[onCtx[t]] = t
    BY <1>2 DEF Target, HoldsLocks, InFull, UnderFullLock, Losing
  <2>2. pc[u] \in Losing \cup {"full: native"} => onCtx[u] \in Contexts /\ fullLock[onCtx[u]] = u
    BY DEF Target, HoldsLocks, InFull, UnderFullLock, Losing
  <2> QED
    BY <1>2, <2>1, <2>2
<1>3. CASE FullMarks(t) \/ FullMarksFirst(t)
  BY <1>2, <1>3 DEF FullMarks, FullMarksFirst, Losing
<1> QED
  BY <1>0, <1>1, <1>2, <1>3
     DEF Calls, Continues, Returns, NewStarts, NewRejects, CreateRefuses, CreateStarts,
     ArcDrops, LastArcDrops, CloneArc, FullRejects, FullFindsNull, FullStarts, StateDrops,
     NewReturnsNull, CreateReturnsNull, FullIsFreed, NewLoads, CreateAllocates, NewThrows,
     CreateThrows, FullThrows, FullAnswers, NewLocks, NewRefusesModel, NewFails, CreateLocks,
     CreateRechecks, CreateDiscards, CreatePublishes, CreateFails, FullLocks, FullIsRefused,
     FullPasses, FullForgets, FullFrees, FullUnlocks, StateDropsArc, StateDropsLastArc,
     ContextDrops

\* full enters whisper_full only after reading the flag as unset, under
\* full_lock.
LEMMA OwnNotYetLost ==
  ASSUME BaseInv, LossInv, NEW t \in Threads, Calls(t) \/ Continues(t)
  PROVE  NotYetLost(t)'
<1>a. TypeOK /\ Target(t) /\ NotYetLost(t)
  BY DEF BaseInv, TargetInv, LossInv
<1> USE <1>a
    DEF TypeOK, NotYetLost, Losing, Goto, Begin, Refuse, Return, Step, Answer, BackWith, heap, calls
<1>1. CASE NewStarts(t)
  BY <1>1 DEF NewStarts
<1>2. CASE NewRejects(t)
  BY <1>2 DEF NewRejects
<1>3. ASSUME NEW c \in Contexts, CreateRefuses(t, c) PROVE NotYetLost(t)'
  BY <1>3 DEF CreateRefuses
<1>4. ASSUME NEW c \in Contexts, CreateStarts(t, c) PROVE NotYetLost(t)'
  BY <1>4 DEF CreateStarts
<1>5. ASSUME NEW c \in Contexts, ArcDrops(t, c) PROVE NotYetLost(t)'
  BY <1>5 DEF ArcDrops
<1>6. ASSUME NEW c \in Contexts, LastArcDrops(t, c) PROVE NotYetLost(t)'
  BY <1>6 DEF LastArcDrops
<1>7. ASSUME NEW c \in Contexts, NEW u \in Threads, CloneArc(t, u, c) PROVE NotYetLost(t)'
  BY <1>7 DEF CloneArc
<1>8. ASSUME NEW s \in States, FullRejects(t, s) PROVE NotYetLost(t)'
  BY <1>8 DEF FullRejects
<1>9. ASSUME NEW s \in States, FullFindsNull(t, s) PROVE NotYetLost(t)'
  BY <1>9 DEF FullFindsNull
<1>10. ASSUME NEW s \in States, FullStarts(t, s) PROVE NotYetLost(t)'
  BY <1>10 DEF FullStarts
<1>11. ASSUME NEW s \in States, StateDrops(t, s) PROVE NotYetLost(t)'
  BY <1>11 DEF StateDrops
<1>12. CASE NewReturnsNull(t)
  BY <1>12 DEF NewReturnsNull
<1>13. CASE CreateReturnsNull(t)
  BY <1>13 DEF CreateReturnsNull
<1>14. CASE FullIsFreed(t)
  BY <1>14 DEF FullIsFreed
<1>15. ASSUME NEW c \in Contexts, NewLoads(t, c) PROVE NotYetLost(t)'
  BY <1>15 DEF NewLoads
<1>16. ASSUME NEW s \in States, CreateAllocates(t, s) PROVE NotYetLost(t)'
  BY <1>16 DEF CreateAllocates
<1>17. ASSUME NEW e \in ExceptionCodes, NewThrows(t, e) PROVE NotYetLost(t)'
  BY <1>17 DEF NewThrows
<1>18. ASSUME NEW e \in ExceptionCodes, CreateThrows(t, e) PROVE NotYetLost(t)'
  BY <1>18 DEF CreateThrows
<1>19. ASSUME NEW code \in Codes, FullThrows(t, code) PROVE NotYetLost(t)'
  BY <1>19 DEF FullThrows
<1>20. ASSUME NEW code \in Codes, FullAnswers(t, code) PROVE NotYetLost(t)'
  BY <1>20 DEF FullAnswers
<1>21. CASE NewLocks(t)
  BY <1>21 DEF NewLocks
<1>22. CASE NewPublishes(t)
  BY <1>22 DEF NewPublishes
<1>23. CASE NewRefusesModel(t)
  BY <1>23 DEF NewRefusesModel
<1>24. CASE NewFails(t)
  BY <1>24 DEF NewFails
<1>25. CASE CreateLocks(t)
  BY <1>25 DEF CreateLocks
<1>26. CASE CreateRechecks(t)
  BY <1>26 DEF CreateRechecks
<1>27. CASE CreateDiscards(t)
  BY <1>27 DEF CreateDiscards
<1>28. CASE CreatePublishes(t)
  BY <1>28 DEF CreatePublishes
<1>29. CASE CreateFails(t)
  BY <1>29 DEF CreateFails
<1>30. CASE FullLocks(t)
  BY <1>30 DEF FullLocks
<1>31. CASE FullIsRefused(t)
  BY <1>31 DEF FullIsRefused
<1>32. CASE FullPasses(t)
  BY <1>32 DEF FullPasses
<1>33. CASE FullForgets(t)
  BY <1>33 DEF FullForgets
<1>34. CASE FullMarks(t)
  BY <1>34 DEF FullMarks
<1>35. CASE FullMarksFirst(t)
  BY <1>35 DEF FullMarksFirst
<1>36. CASE FullFrees(t)
  BY <1>36 DEF FullFrees
<1>37. CASE FullUnlocks(t)
  BY <1>37 DEF FullUnlocks
<1>38. CASE StateDropsArc(t)
  BY <1>38 DEF StateDropsArc
<1>39. CASE StateDropsLastArc(t)
  BY <1>39 DEF StateDropsLastArc
<1>40. CASE ContextDrops(t)
  BY <1>40 DEF ContextDrops
<1> QED
  BY <1>1, <1>2, <1>3, <1>4, <1>5, <1>6, <1>7, <1>8, <1>9, <1>10, <1>11, <1>12, <1>13, <1>14,
     <1>15, <1>16, <1>17, <1>18, <1>19, <1>20, <1>21, <1>22, <1>23, <1>24, <1>25, <1>26, <1>27,
     <1>28, <1>29, <1>30, <1>31, <1>32, <1>33, <1>34, <1>35, <1>36, <1>37, <1>38, <1>39, <1>40
     DEF Calls, Continues, Returns

\* A second State of a Context is not lost: the first loss is on record, so
\* whisper_full does not run again.
LEMMA BudgetStep ==
  ASSUME BaseInv, LossInv, NEW t \in Threads, Calls(t) \/ Continues(t)
  PROVE  LossBudget'
<1>a. TypeOK /\ BirthInv /\ Target(t) /\ HoldsLocks(t) /\ NotYetLost(t) /\ LossBudget
  BY DEF BaseInv, TargetInv, LockInv, LossInv
<1>b. ASSUME NEW s \in States, cause[s] # NoCode, owner[s] = onCtx[t], pc[t] = "full: native"
      PROVE  FALSE
  <2>1. ~lost[owner[s]]
    BY <1>a, <1>b DEF NotYetLost
  <2>2. PICK u \in Threads : onState[u] = s /\ pc[u] \in Losing
    BY <1>b, <2>1 DEF LossInv, OnRecord
  <2>3. onCtx[u] = onCtx[t]
    BY <1>b, <2>2 DEF BaseInv, TargetInv, Target, InFull, UnderFullLock
  <2>4. fullLock[onCtx[t]] = u /\ fullLock[onCtx[t]] = t
    BY <1>b, <2>2, <2>3 DEF BaseInv, LockInv, HoldsLocks, UnderFullLock
  <2> QED
    BY <1>b, <2>2, <2>4 DEF Losing
<1> USE <1>a DEF TypeOK, LossBudget, NoCode, refs, FreedUpstream
<1>0. CASE UNCHANGED <<owner, cause>>
  BY <1>0
<1>1. ASSUME NEW s \in States, CreateAllocates(t, s) PROVE LossBudget'
  BY <1>1 DEF CreateAllocates, BirthInv
<1>2. ASSUME NEW code \in Codes, pc[t] = "full: native", UNCHANGED owner,
             cause' = [cause EXCEPT ![onState[t]] = code]
      PROVE  LossBudget'
  <2>1. onState[t] \in States /\ owner[onState[t]] = onCtx[t]
    BY <1>2 DEF Target, InFull, UnderFullLock
  <2> QED
    BY <1>b, <1>2, <2>1
<1>3. CASE FullIsFreed(t)
  BY <1>2, <1>3 DEF FullIsFreed, Codes
<1>4. ASSUME NEW code \in Codes, FullThrows(t, code) PROVE LossBudget'
  BY <1>2, <1>4 DEF FullThrows
<1> QED
  BY <1>0, <1>1, <1>3, <1>4
     DEF Calls, Continues, Returns, calls, NewStarts, NewRejects, CreateRefuses, CreateStarts,
     ArcDrops, LastArcDrops, CloneArc, FullRejects, FullFindsNull, FullStarts, StateDrops,
     NewReturnsNull, CreateReturnsNull, NewLoads, NewThrows, CreateThrows, FullAnswers,
     NewLocks, NewPublishes, NewRefusesModel, NewFails, CreateLocks, CreateRechecks,
     CreateDiscards, CreatePublishes, CreateFails, FullLocks, FullIsRefused, FullPasses,
     FullForgets, FullMarks, FullMarksFirst, FullFrees, FullUnlocks, StateDropsArc,
     StateDropsLastArc, ContextDrops

\* create_state reaches its publication only through its second check of the
\* flag.
LEMMA OnlyRecheckPublishes ==
  ASSUME TypeOK, NEW t \in Threads, Calls(t) \/ Continues(t)
  PROVE  pc'[t] # "create: publish" \/ CreateRechecks(t)
<1> USE DEF TypeOK, Goto, Begin, Refuse, Return, Step, Answer, BackWith, calls
<1>1. CASE Calls(t)
  BY <1>1, CallsBegin
<1>2. CASE Returns(t)
  BY <1>2
     DEF Returns, NewReturnsNull, CreateReturnsNull, FullIsFreed, NewLoads, CreateAllocates,
     NewThrows, CreateThrows, FullThrows, FullAnswers
<1>3. CASE Continues(t) /\ ~Returns(t) /\ ~CreateRechecks(t)
  BY <1>3
     DEF Continues, NewLocks, NewPublishes, NewRefusesModel, NewFails, CreateLocks,
     CreateDiscards, CreatePublishes, CreateFails, FullLocks, FullIsRefused, FullPasses,
     FullForgets, FullMarks, FullMarksFirst, FullFrees, FullUnlocks, StateDropsArc,
     StateDropsLastArc, ContextDrops
<1> QED
  BY <1>1, <1>2, <1>3

\* A second late State cannot be published: the first one was published by the
\* last create_state that passed its second check.
LEMMA LateOneStep ==
  ASSUME BaseInv, LateInv, NEW t \in Threads, Calls(t) \/ Continues(t)
  PROVE  AtMostOneLateState'
<1>a. TypeOK /\ BirthInv /\ Target(t) /\ AtMostOneLateState
  BY DEF BaseInv, TargetInv, LateInv
<1>b. \A s \in late : LastPublished(s)
  BY DEF LateInv
<1> USE <1>a, <1>b, NamesAssumption DEF TypeOK, AtMostOneLateState, LastPublished, refs
<1>0. CASE UNCHANGED <<owner, late>>
  BY <1>0
<1>1. ASSUME NEW s \in States, CreateAllocates(t, s) PROVE AtMostOneLateState'
  <2>1. owner[s] = NoContext
    BY <1>1 DEF CreateAllocates, BirthInv
  <2>2. s \notin late
    BY <2>1
  <2> QED
    BY <1>1, <2>2 DEF CreateAllocates
<1>2. CASE CreatePublishes(t)
  <2>1. UNCHANGED owner /\ \A r \in late' : r \in late \/ r = onState[t]
    BY <1>2 DEF CreatePublishes
  <2>2. owner[onState[t]] = onCtx[t]
    BY <1>2 DEF CreatePublishes, Target, Creating
  <2>3. \A r \in late : owner[r] # onCtx[t]
    BY <1>2 DEF CreatePublishes
  <2> QED
    BY <2>1, <2>2, <2>3
<1> QED
  BY <1>0, <1>1, <1>2
     DEF Calls, Continues, Returns, NewStarts, NewRejects, CreateRefuses, CreateStarts,
     ArcDrops, LastArcDrops, CloneArc, FullRejects, FullFindsNull, FullStarts, StateDrops,
     NewReturnsNull, CreateReturnsNull, FullIsFreed, NewLoads, NewThrows, CreateThrows,
     FullThrows, FullAnswers, NewLocks, NewPublishes, NewRefusesModel, NewFails, CreateLocks,
     CreateRechecks, CreateDiscards, CreateFails, FullLocks, FullIsRefused, FullPasses,
     FullForgets, FullMarks, FullMarksFirst, FullFrees, FullUnlocks, StateDropsArc,
     StateDropsLastArc, ContextDrops

\* Once a late State is out, no create_state on its Context is past its second
\* check, and none gets there again.
LEMMA LateStep ==
  ASSUME BaseInv, LateInv, NEW t \in Threads, Calls(t) \/ Continues(t), NEW s \in late'
  PROVE  LastPublished(s)'
<1>a. /\ TypeOK /\ BirthInv /\ Target(t) /\ Unpublished(t) /\ HoldsLocks(t)
      /\ s \in late => LastPublished(s)
  BY DEF BaseInv, TargetInv, FreshInv, LockInv, LateInv
<1>b. \A u \in Threads \ {t} : pc'[u] = pc[u] /\ onCtx'[u] = onCtx[u] /\ HoldsLocks(u)
  BY <1>a, OthersStay DEF BaseInv, LockInv
<1>c. pc'[t] # "create: publish" \/ CreateRechecks(t)
  BY <1>a, OnlyRecheckPublishes
<1>d. s \in late =>
        owner[s] \in Contexts /\ lost[owner[s]]
        /\ \A u \in Threads : pc[u] = "create: publish" => onCtx[u] # owner[s]
  BY <1>a DEF LastPublished
<1>e. TypeOK
  BY <1>a
<1> USE <1>b, <1>d, <1>e, NamesAssumption
    DEF TypeOK, LastPublished, Goto, Begin, Refuse, Step, Return, Answer, BackWith, refs, calls
<1>0. CASE pc'[t] # "create: publish" /\ UNCHANGED <<lost, owner, late>>
  BY <1>0
<1>1. CASE NewPublishes(t)
  <2>1. /\ UNCHANGED <<owner, late>>
        /\ lost' = [lost EXCEPT ![onCtx[t]] = FALSE]
        /\ pc'[t] = "idle"
    BY <1>1, <1>a DEF NewPublishes
  <2>2. owner[s] # onCtx[t]
    BY <1>1, <1>a DEF NewPublishes, Unpublished, Unused
  <2>3. owner[s] \in Contexts /\ lost'[owner[s]]
    BY <2>1, <2>2
  <2> QED
    BY <2>1, <2>3
<1>2. ASSUME NEW r \in States, CreateAllocates(t, r) PROVE LastPublished(s)'
  <2>1. owner[r] = NoContext /\ UNCHANGED <<lost, late>> /\ pc'[t] = "create: recheck"
        /\ \A v \in States \ {r} : owner'[v] = owner[v]
    BY <1>2, <1>a DEF CreateAllocates, BirthInv
  <2>2. r # s /\ s \in States
    BY <2>1
  <2>3. pc'[t] # "create: publish" /\ owner'[s] = owner[s] /\ UNCHANGED <<lost, late>>
    BY <2>1, <2>2
  <2> QED
    BY <2>3
<1>3. CASE CreateRechecks(t)
  <2>1. UNCHANGED <<lost, owner, late, onCtx>> /\ (lost[onCtx[t]] => pc'[t] = "create: discard")
    BY <1>3, <1>a DEF CreateRechecks, refs
  <2>2. lost[owner[s]]
    BY <2>1
  <2>3. pc'[t] = "create: publish" => onCtx[t] # owner[s]
    BY <2>1, <2>2
  <2> QED
    BY <2>1, <2>3
<1>4. CASE CreatePublishes(t)
  <2>1. owner[onState[t]] = onCtx[t] /\ onCtx[t] \in Contexts
    BY <1>4, <1>a DEF CreatePublishes, Target, Creating
  <2>2. /\ UNCHANGED <<lost, owner>>
        /\ pc'[t] = "idle"
        /\ late' = IF lost[onCtx[t]] THEN late \cup {onState[t]} ELSE late
    BY <1>4 DEF CreatePublishes
  <2>3. CASE s \in late
    BY <2>3, <2>2
  <2>4. CASE s \notin late
    <3>1. s = onState[t] /\ lost[onCtx[t]]
      BY <2>2, <2>4
    <3>2. owner[s] \in Contexts /\ lost[owner[s]]
      BY <3>1, <2>1
    <3>3. \A u \in Threads \ {t} : pc[u] # "create: publish"
      BY <1>4, <1>a DEF CreatePublishes, HoldsLocks, UnderInitLock
    <3>4. \A u \in Threads : pc'[u] # "create: publish"
      BY <2>2, <3>3
    <3> QED
      BY <2>2, <3>2, <3>4
  <2> QED
    BY <2>3, <2>4
<1>5. CASE FullMarks(t)
  <2>1. lost' = [lost EXCEPT ![onCtx[t]] = TRUE] /\ UNCHANGED <<owner, late>>
    BY <1>5 DEF FullMarks
  <2>2. pc'[t] # "create: publish"
    BY <1>5, <1>c DEF FullMarks, CreateRechecks
  <2>3. owner[s] \in Contexts /\ lost[owner[s]]
    BY <2>1
  <2>4. lost'[owner[s]]
    BY <2>1, <2>3
  <2> QED
    BY <2>1, <2>2, <2>3, <2>4
<1>6. CASE FullMarksFirst(t)
  <2>1. lost' = [lost EXCEPT ![onCtx[t]] = TRUE] /\ UNCHANGED <<owner, late>>
    BY <1>6 DEF FullMarksFirst
  <2>2. pc'[t] # "create: publish"
    BY <1>6, <1>c DEF FullMarksFirst, CreateRechecks
  <2>3. owner[s] \in Contexts /\ lost[owner[s]]
    BY <2>1
  <2>4. lost'[owner[s]]
    BY <2>1, <2>3
  <2> QED
    BY <2>1, <2>2, <2>3, <2>4
<1> QED
  BY <1>c, <1>0, <1>1, <1>2, <1>3, <1>4, <1>5, <1>6
     DEF Calls, Continues, Returns, NewStarts, NewRejects, CreateRefuses, CreateStarts,
     ArcDrops, LastArcDrops, CloneArc, FullRejects, FullFindsNull, FullStarts, StateDrops,
     NewReturnsNull, CreateReturnsNull, FullIsFreed, NewLoads, NewThrows, CreateThrows,
     FullThrows, FullAnswers, NewLocks, NewRefusesModel, NewFails, CreateLocks, CreateDiscards,
     CreateFails, FullLocks, FullIsRefused, FullPasses, FullForgets, FullFrees, FullUnlocks,
     StateDropsArc, StateDropsLastArc, ContextDrops

\* The exception slot a constructor call takes holds what this call threw: the
\* shim clears it on entry, and init_lock lasts until it is taken.
LEMMA OwnReports ==
  ASSUME BaseInv, ReportInv, NEW t \in Threads, Calls(t) \/ Continues(t)
  PROVE  Reports(t)'
<1>a. TypeOK /\ Target(t) /\ Reports(t) /\ NoResult.kind = "none"
  BY DEF BaseInv, TargetInv, ReportInv, NoResult, Result
<1> USE <1>a, NamesAssumption, CodesAssumption
    DEF TypeOK, Target, Reports, UnderInitLock, Creating, InFull, UnderFullLock, Losing,
        Goto, Begin, Refuse, Return, Step, Answer, BackWith, Result, Freed, FreeState,
        FreeContext, ShimEnter, ShimCatch, TakeSentinel, Owned, AtRest, locks, refs, heap, calls
<1>1. CASE NewStarts(t)
  BY <1>1 DEF NewStarts
<1>2. CASE NewRejects(t)
  BY <1>2 DEF NewRejects
<1>3. ASSUME NEW c \in Contexts, CreateRefuses(t, c) PROVE Reports(t)'
  BY <1>3 DEF CreateRefuses
<1>4. ASSUME NEW c \in Contexts, CreateStarts(t, c) PROVE Reports(t)'
  BY <1>4 DEF CreateStarts
<1>5. ASSUME NEW c \in Contexts, ArcDrops(t, c) PROVE Reports(t)'
  BY <1>5 DEF ArcDrops
<1>6. ASSUME NEW c \in Contexts, LastArcDrops(t, c) PROVE Reports(t)'
  BY <1>6 DEF LastArcDrops
<1>7. ASSUME NEW c \in Contexts, NEW u \in Threads, CloneArc(t, u, c) PROVE Reports(t)'
  BY <1>7 DEF CloneArc
<1>8. ASSUME NEW s \in States, FullRejects(t, s) PROVE Reports(t)'
  BY <1>8 DEF FullRejects
<1>9. ASSUME NEW s \in States, FullFindsNull(t, s) PROVE Reports(t)'
  BY <1>9 DEF FullFindsNull
<1>10. ASSUME NEW s \in States, FullStarts(t, s) PROVE Reports(t)'
  BY <1>10 DEF FullStarts
<1>11. ASSUME NEW s \in States, StateDrops(t, s) PROVE Reports(t)'
  BY <1>11 DEF StateDrops
<1>12. CASE NewReturnsNull(t)
  BY <1>12 DEF NewReturnsNull
<1>13. CASE CreateReturnsNull(t)
  BY <1>13 DEF CreateReturnsNull
<1>14. CASE FullIsFreed(t)
  BY <1>14 DEF FullIsFreed
<1>15. ASSUME NEW c \in Contexts, NewLoads(t, c) PROVE Reports(t)'
  BY <1>15 DEF NewLoads
<1>16. ASSUME NEW s \in States, CreateAllocates(t, s) PROVE Reports(t)'
  BY <1>16 DEF CreateAllocates
<1>17. ASSUME NEW e \in ExceptionCodes, NewThrows(t, e) PROVE Reports(t)'
  BY <1>17 DEF NewThrows
<1>18. ASSUME NEW e \in ExceptionCodes, CreateThrows(t, e) PROVE Reports(t)'
  BY <1>18 DEF CreateThrows
<1>19. ASSUME NEW code \in Codes, FullThrows(t, code) PROVE Reports(t)'
  BY <1>19 DEF FullThrows
<1>20. ASSUME NEW code \in Codes, FullAnswers(t, code) PROVE Reports(t)'
  BY <1>20 DEF FullAnswers
<1>21. CASE NewLocks(t)
  BY <1>21 DEF NewLocks
<1>22. CASE NewPublishes(t)
  BY <1>22 DEF NewPublishes
<1>23. CASE NewRefusesModel(t)
  BY <1>23 DEF NewRefusesModel
<1>24. CASE NewFails(t)
  BY <1>24 DEF NewFails
<1>25. CASE CreateLocks(t)
  BY <1>25 DEF CreateLocks
<1>26. CASE CreateRechecks(t)
  BY <1>26 DEF CreateRechecks
<1>27. CASE CreateDiscards(t)
  BY <1>27 DEF CreateDiscards
<1>28. CASE CreatePublishes(t)
  BY <1>28 DEF CreatePublishes
<1>29. CASE CreateFails(t)
  BY <1>29 DEF CreateFails
<1>30. CASE FullLocks(t)
  BY <1>30 DEF FullLocks
<1>31. CASE FullIsRefused(t)
  BY <1>31 DEF FullIsRefused
<1>32. CASE FullPasses(t)
  BY <1>32 DEF FullPasses
<1>33. CASE FullForgets(t)
  BY <1>33 DEF FullForgets
<1>34. CASE FullMarks(t)
  BY <1>34 DEF FullMarks
<1>35. CASE FullMarksFirst(t)
  BY <1>35 DEF FullMarksFirst
<1>36. CASE FullFrees(t)
  BY <1>36 DEF FullFrees
<1>37. CASE FullUnlocks(t)
  BY <1>37 DEF FullUnlocks
<1>38. CASE StateDropsArc(t)
  BY <1>38 DEF StateDropsArc
<1>39. CASE StateDropsLastArc(t)
  BY <1>39 DEF StateDropsLastArc
<1>40. CASE ContextDrops(t)
  BY <1>40 DEF ContextDrops
<1> QED
  BY <1>1, <1>2, <1>3, <1>4, <1>5, <1>6, <1>7, <1>8, <1>9, <1>10, <1>11, <1>12, <1>13, <1>14,
     <1>15, <1>16, <1>17, <1>18, <1>19, <1>20, <1>21, <1>22, <1>23, <1>24, <1>25, <1>26, <1>27,
     <1>28, <1>29, <1>30, <1>31, <1>32, <1>33, <1>34, <1>35, <1>36, <1>37, <1>38, <1>39, <1>40
     DEF Calls, Continues, Returns

\* No thread writes the exception slot, or the pending answer, of another.
LEMMA OtherReports ==
  ASSUME BaseInv, ReportInv, NEW t \in Threads, Calls(t) \/ Continues(t), NEW u \in Threads \ {t}
  PROVE  Reports(u)'
<1>1. /\ pc'[u] = pc[u] /\ onCtx'[u] = onCtx[u]
      /\ rc'[u] = rc[u] /\ ret'[u] = ret[u] /\ sentinel'[u] = sentinel[u]
  BY OthersStay DEF BaseInv
<1>2. Reports(u)
  BY DEF ReportInv
<1> QED
  BY <1>1, <1>2 DEF Reports

\* Nothing is lost or late before anything is loaded.
LEMMA LossInit == Init => LossInv /\ LateInv /\ ReportInv
BY DEF Init, LossInv, OnRecord, NotYetLost, LossBudget, LateInv, LastPublished, AtMostOneLateState,
       ReportInv, Reports, Losing, UnderInitLock, NoResult, Result

\* LossInv, LateInv and ReportInv survive every step.
LEMMA LossStep ==
  ASSUME BaseInv, LossInv, LateInv, ReportInv, [Next]_vars
  PROVE  LossInv' /\ LateInv' /\ ReportInv'
<1>1. CASE UNCHANGED vars
  <2> USE <1>1 DEF vars, locks, refs, heap, calls
  <2>1. LossInv'
    BY DEF LossInv, OnRecord, NotYetLost, LossBudget
  <2>2. LateInv' /\ ReportInv'
    BY DEF LateInv, LastPublished, AtMostOneLateState, ReportInv, Reports
  <2> QED
    BY <2>1, <2>2
<1>2. ASSUME NEW t \in Threads, Calls(t) \/ Continues(t)
      PROVE  LossInv' /\ LateInv' /\ ReportInv'
  <2>1. LossInv'
    BY <1>2, RecordStep, OtherNotYetLost, OwnNotYetLost, BudgetStep DEF LossInv
  <2>2. LateInv'
    BY <1>2, LateOneStep, LateStep DEF LateInv
  <2>3. ReportInv'
    BY <1>2, OwnReports, OtherReports DEF ReportInv
  <2> QED
    BY <2>1, <2>2, <2>3
<1> QED
  BY <1>1, <1>2 DEF Next

\* For any number of threads, Contexts and States: losses are on record, late
\* States are accounted for and errors are own.
THEOREM LossInvariant == Spec => [](LossInv /\ LateInv /\ ReportInv)
<1>1. Spec => []BaseInv
  BY BaseInvariant
<1>2. BaseInv /\ LossInv /\ LateInv /\ ReportInv /\ [Next]_vars
        => (LossInv /\ LateInv /\ ReportInv)'
  BY LossStep
<1> QED
  BY <1>1, <1>2, LossInit, PTL DEF Spec

\* However many workers share a Context, at most one of its States is ever lost
\* in whisper_full: the loss budget of State::full.
THEOREM LossIsBounded == Spec => []LossBudget
<1>1. LossInv => LossBudget
  BY DEF LossInv
<1> QED
  BY LossInvariant, <1>1, PTL

\* No inference is inside whisper_full on a Context whose flag is set, for any
\* number of workers: the flag a call of full read under full_lock is not stale
\* when it is used.
THEOREM NothingRunsAfterLoss == Spec => []NoInferenceOnLostContext
<1>1. LossInv => NoInferenceOnLostContext
  BY DEF LossInv, NotYetLost, NoInferenceOnLostContext
<1> QED
  BY LossInvariant, <1>1, PTL

\* create_state without full_lock hands out at most one State on a Context that
\* was poisoned meanwhile, for any number of threads in create_state.
THEOREM LateStatesAreBounded == Spec => []AtMostOneLateState
<1>1. LateInv => AtMostOneLateState
  BY DEF LateInv
<1> QED
  BY LossInvariant, <1>1, PTL

\* The code in ContextLoad or StateInit is the exception this very call of
\* Context::new or create_state caught, for any number of threads and in any
\* order of calls.
THEOREM ErrorsAreOwn == Spec => []OwnExceptionReported
<1>1. ReportInv => OwnExceptionReported
  BY DEF ReportInv, Reports, OwnExceptionReported
<1> QED
  BY LossInvariant, <1>1, PTL
=============================================================================
