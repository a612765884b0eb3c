------------------------ MODULE SharedContextLocks ------------------------
(***************************************************************************)
(* Proofs about SharedContext, first part: types, and who works on what    *)
(* under which lock (BaseInv of SharedContextInvariant). Every step is a   *)
(* step of one thread t. The lemmas therefore come in pairs: what the step *)
(* does to the facts about t, by cases on the action, and that the facts   *)
(* about any other thread u survive it, which needs looking at the few     *)
(* actions that write what those facts read. No step changes where u is    *)
(* (OthersStay).                                                           *)
(***************************************************************************)
EXTENDS SharedContextInvariant, TLAPS

\* The initial state, no Context and no State yet, is well typed.
LEMMA TypeInit == Init => TypeOK
BY NamesAssumption DEF Init, TypeOK, Block, Handle, Kinds, Codes, Labels, NoResult, Result

\* Every action of Context and State keeps the types, by cases on the actions.
LEMMA TypeStep ==
  ASSUME TypeOK, NEW t \in Threads, Calls(t) \/ Continues(t)
  PROVE  TypeOK'
<1> USE NamesAssumption, CodesAssumption
    DEF TypeOK, Block, Handle, Kinds, Codes, Labels, NoResult, NoCode, FreedUpstream, BadAlloc,
        Goto, Begin, Refuse, Return, Step, Answer, BackWith, Result, Freed, FreeState,
        FreeContext, ShimEnter, ShimCatch, TakeSentinel, Owned, AtRest, locks, refs, heap, calls
<1>1. CASE NewStarts(t)
  BY <1>1 DEF NewStarts
<1>2. CASE NewRejects(t)
  <2>1. PICK kind \in {"Rejected", "ContextLoad"} : Refuse(t, Result(kind, NoCode))
    BY <1>2 DEF NewRejects
  <2>2. CASE kind = "Rejected"
    BY <1>2, <2>1, <2>2 DEF NewRejects
  <2>3. CASE kind = "ContextLoad"
    BY <1>2, <2>1, <2>3 DEF NewRejects
  <2> QED
    BY <2>1, <2>2, <2>3
<1>3. ASSUME NEW c \in Contexts, CreateRefuses(t, c) PROVE TypeOK'
  BY <1>3 DEF CreateRefuses
<1>4. ASSUME NEW c \in Contexts, CreateStarts(t, c) PROVE TypeOK'
  BY <1>4 DEF CreateStarts
<1>5. ASSUME NEW c \in Contexts, ArcDrops(t, c) PROVE TypeOK'
  BY <1>5 DEF ArcDrops
<1>6. ASSUME NEW c \in Contexts, LastArcDrops(t, c) PROVE TypeOK'
  BY <1>6 DEF LastArcDrops
<1>7. ASSUME NEW c \in Contexts, NEW u \in Threads, CloneArc(t, u, c) PROVE TypeOK'
  BY <1>7 DEF CloneArc
<1>8. ASSUME NEW s \in States, FullRejects(t, s) PROVE TypeOK'
  BY <1>8 DEF FullRejects
<1>9. ASSUME NEW s \in States, FullFindsNull(t, s) PROVE TypeOK'
  BY <1>9 DEF FullFindsNull
<1>10. ASSUME NEW s \in States, FullStarts(t, s) PROVE TypeOK'
  BY <1>10 DEF FullStarts
<1>11. ASSUME NEW s \in States, StateDrops(t, s) PROVE TypeOK'
  BY <1>11 DEF StateDrops
<1>12. CASE NewReturnsNull(t)
  BY <1>12 DEF NewReturnsNull
<1>13. CASE CreateReturnsNull(t)
  BY <1>13 DEF CreateReturnsNull
<1>14. CASE FullIsFreed(t)
  BY <1>14 DEF FullIsFreed
<1>15. ASSUME NEW c \in Contexts, NewLoads(t, c) PROVE TypeOK'
  BY <1>15 DEF NewLoads
<1>16. ASSUME NEW s \in States, CreateAllocates(t, s) PROVE TypeOK'
  BY <1>16 DEF CreateAllocates
<1>17. ASSUME NEW e \in ExceptionCodes, NewThrows(t, e) PROVE TypeOK'
  BY <1>17 DEF NewThrows
<1>18. ASSUME NEW e \in ExceptionCodes, CreateThrows(t, e) PROVE TypeOK'
  BY <1>18 DEF CreateThrows
<1>19. ASSUME NEW code \in Codes, FullThrows(t, code) PROVE TypeOK'
  BY <1>19 DEF FullThrows
<1>20. ASSUME NEW code \in Codes, FullAnswers(t, code) PROVE TypeOK'
  BY <1>20 DEF FullAnswers
<1>21. CASE NewLocks(t)
  BY <1>21 DEF NewLocks
<1>22. CASE NewPublishes(t)
  BY <1>22 DEF NewPublishes
<1>23. CASE NewRefusesModel(t)
  BY <1>23 DEF NewRefusesModel
<1>24. CASE NewFails(t)
  BY <1>24 DEF NewFails
<1>25. CASE CreateLocks(t)
  BY <1>25 DEF CreateLocks
<1>26. CASE CreateRechecks(t)
  BY <1>26 DEF CreateRechecks
<1>27. CASE CreateDiscards(t)
  BY <1>27 DEF CreateDiscards
<1>28. CASE CreatePublishes(t)
  <2>1. handle' \in [States -> Handle]
    BY ONLY TypeOK, <1>28 DEF CreatePublishes, TypeOK, Handle
  <2>2. late' \in SUBSET States
    BY ONLY TypeOK, <1>28 DEF CreatePublishes, TypeOK
  <2>3. ret' \in [Threads -> [kind : Kinds, code : Codes]]
    BY <1>28 DEF CreatePublishes
  <2> QED
    BY <1>28, <2>1, <2>2, <2>3 DEF CreatePublishes
<1>29. CASE CreateFails(t)
  BY <1>29 DEF CreateFails
<1>30. CASE FullLocks(t)
  BY <1>30 DEF FullLocks
<1>31. CASE FullIsRefused(t)
  BY <1>31 DEF FullIsRefused
<1>32. CASE FullPasses(t)
  BY <1>32 DEF FullPasses
<1>33. CASE FullForgets(t)
  BY <1>33 DEF FullForgets
<1>34. CASE FullMarks(t)
  BY <1>34 DEF FullMarks
<1>35. CASE FullMarksFirst(t)
  BY <1>35 DEF FullMarksFirst
<1>36. CASE FullFrees(t)
  BY <1>36 DEF FullFrees
<1>37. CASE FullUnlocks(t)
  BY <1>37 DEF FullUnlocks
<1>38. CASE StateDropsArc(t)
  BY <1>38 DEF StateDropsArc
<1>39. CASE StateDropsLastArc(t)
  BY <1>39 DEF StateDropsLastArc
<1>40. CASE ContextDrops(t)
  BY <1>40 DEF ContextDrops
<1> QED
  BY <1>1, <1>2, <1>3, <1>4, <1>5, <1>6, <1>7, <1>8, <1>9, <1>10, <1>11, <1>12, <1>13, <1>14,
     <1>15, <1>16, <1>17, <1>18, <1>19, <1>20, <1>21, <1>22, <1>23, <1>24, <1>25, <1>26, <1>27,
     <1>28, <1>29, <1>30, <1>31, <1>32, <1>33, <1>34, <1>35, <1>36, <1>37, <1>38, <1>39, <1>40
     DEF Calls, Continues, Returns

\* A step of one thread moves no other thread: its call, the answer it holds
\* and its thread-local exception slot stay as they are.
LEMMA OthersStay ==
  ASSUME TypeOK, NEW t \in Threads, Calls(t) \/ Continues(t), NEW u \in Threads \ {t}
  PROVE  /\ pc'[u] = pc[u] /\ onCtx'[u] = onCtx[u] /\ onState'[u] = onState[u]
         /\ rc'[u] = rc[u] /\ ret'[u] = ret[u] /\ sentinel'[u] = sentinel[u]
<1> DEFINE Stays == /\ pc'[u] = pc[u] /\ onCtx'[u] = onCtx[u] /\ onState'[u] = onState[u]
                    /\ rc'[u] = rc[u] /\ ret'[u] = ret[u] /\ sentinel'[u] = sentinel[u]
<1> USE NamesAssumption, CodesAssumption
    DEF TypeOK,
        Goto, Begin, Refuse, Return, Step, Answer, BackWith, Result, Freed, FreeState,
        FreeContext, ShimEnter, ShimCatch, TakeSentinel, Owned, AtRest, locks, refs, heap, calls
<1>1. CASE NewStarts(t)
  BY <1>1 DEF NewStarts
<1>2. CASE NewRejects(t)
  BY <1>2 DEF NewRejects
<1>3. ASSUME NEW c \in Contexts, CreateRefuses(t, c) PROVE Stays
  BY <1>3 DEF CreateRefuses
<1>4. ASSUME NEW c \in Contexts, CreateStarts(t, c) PROVE Stays
  BY <1>4 DEF CreateStarts
<1>5. ASSUME NEW c \in Contexts, ArcDrops(t, c) PROVE Stays
  BY <1>5 DEF ArcDrops
<1>6. ASSUME NEW c \in Contexts, LastArcDrops(t, c) PROVE Stays
  BY <1>6 DEF LastArcDrops
<1>7. ASSUME NEW c \in Contexts, NEW v \in Threads, CloneArc(t, v, c) PROVE Stays
  BY <1>7 DEF CloneArc
<1>8. ASSUME NEW s \in States, FullRejects(t, s) PROVE Stays
  BY <1>8 DEF FullRejects
<1>9. ASSUME NEW s \in States, FullFindsNull(t, s) PROVE Stays
  BY <1>9 DEF FullFindsNull
<1>10. ASSUME NEW s \in States, FullStarts(t, s) PROVE Stays
  BY <1>10 DEF FullStarts
<1>11. ASSUME NEW s \in States, StateDrops(t, s) PROVE Stays
  BY <1>11 DEF StateDrops
<1>12. CASE NewReturnsNull(t)
  BY <1>12 DEF NewReturnsNull
<1>13. CASE CreateReturnsNull(t)
  BY <1>13 DEF CreateReturnsNull
<1>14. CASE FullIsFreed(t)
  BY <1>14 DEF FullIsFreed
<1>15. ASSUME NEW c \in Contexts, NewLoads(t, c) PROVE Stays
  BY <1>15 DEF NewLoads
<1>16. ASSUME NEW s \in States, CreateAllocates(t, s) PROVE Stays
  BY <1>16 DEF CreateAllocates
<1>17. ASSUME NEW e \in ExceptionCodes, NewThrows(t, e) PROVE Stays
  BY <1>17 DEF NewThrows
<1>18. ASSUME NEW e \in ExceptionCodes, CreateThrows(t, e) PROVE Stays
  BY <1>18 DEF CreateThrows
<1>19. ASSUME NEW code \in Codes, FullThrows(t, code) PROVE Stays
  BY <1>19 DEF FullThrows
<1>20. ASSUME NEW code \in Codes, FullAnswers(t, code) PROVE Stays
  BY <1>20 DEF FullAnswers
<1>21. CASE NewLocks(t)
  BY <1>21 DEF NewLocks
<1>22. CASE NewPublishes(t)
  BY <1>22 DEF NewPublishes
<1>23. CASE NewRefusesModel(t)
  BY <1>23 DEF NewRefusesModel
<1>24. CASE NewFails(t)
  BY <1>24 DEF NewFails
<1>25. CASE CreateLocks(t)
  BY <1>25 DEF CreateLocks
<1>26. CASE CreateRechecks(t)
  BY <1>26 DEF CreateRechecks
<1>27. CASE CreateDiscards(t)
  BY <1>27 DEF CreateDiscards
<1>28. CASE CreatePublishes(t)
  BY <1>28 DEF CreatePublishes
<1>29. CASE CreateFails(t)
  BY <1>29 DEF CreateFails
<1>30. CASE FullLocks(t)
  BY <1>30 DEF FullLocks
<1>31. CASE FullIsRefused(t)
  BY <1>31 DEF FullIsRefused
<1>32. CASE FullPasses(t)
  BY <1>32 DEF FullPasses
<1>33. CASE FullForgets(t)
  BY <1>33 DEF FullForgets
<1>34. CASE FullMarks(t)
  BY <1>34 DEF FullMarks
<1>35. CASE FullMarksFirst(t)
  BY <1>35 DEF FullMarksFirst
<1>36. CASE FullFrees(t)
  BY <1>36 DEF FullFrees
<1>37. CASE FullUnlocks(t)
  BY <1>37 DEF FullUnlocks
<1>38. CASE StateDropsArc(t)
  BY <1>38 DEF StateDropsArc
<1>39. CASE StateDropsLastArc(t)
  BY <1>39 DEF StateDropsLastArc
<1>40. CASE ContextDrops(t)
  BY <1>40 DEF ContextDrops
<1> QED
  BY <1>1, <1>2, <1>3, <1>4, <1>5, <1>6, <1>7, <1>8, <1>9, <1>10, <1>11, <1>12, <1>13, <1>14,
     <1>15, <1>16, <1>17, <1>18, <1>19, <1>20, <1>21, <1>22, <1>23, <1>24, <1>25, <1>26, <1>27,
     <1>28, <1>29, <1>30, <1>31, <1>32, <1>33, <1>34, <1>35, <1>36, <1>37, <1>38, <1>39, <1>40
     DEF Calls, Continues, Returns

\* A call begins outside native code and without a lock, or drops the last Arc.
LEMMA CallsBegin ==
  ASSUME TypeOK, NEW t \in Threads, Calls(t)
  PROVE  \/ pc'[t] \in {"idle", "new: lock", "create: lock", "full: lock", "drop: arc"}
         \/ \E c \in Contexts : LastArcDrops(t, c) /\ pc'[t] = "drop: context"
<1> DEFINE Goal == \/ pc'[t] \in {"idle", "new: lock", "create: lock", "full: lock", "drop: arc"}
                   \/ \E c \in Contexts : LastArcDrops(t, c) /\ pc'[t] = "drop: context"
<1> USE DEF TypeOK, Goto, Begin, Refuse, calls
<1>1. CASE NewStarts(t) \/ NewRejects(t)
  <2>1. CASE NewStarts(t)
    BY <2>1 DEF NewStarts
  <2>2. CASE NewRejects(t)
    BY <2>2 DEF NewRejects
  <2> QED
    BY <1>1, <2>1, <2>2
<1>2. ASSUME NEW c \in Contexts, CreateRefuses(t, c) \/ CreateStarts(t, c) PROVE Goal
  BY <1>2 DEF CreateRefuses, CreateStarts
<1>3. ASSUME NEW c \in Contexts, ArcDrops(t, c) PROVE Goal
  BY <1>3 DEF ArcDrops
<1>4. ASSUME NEW c \in Contexts, LastArcDrops(t, c) PROVE Goal
  <2>1. pc'[t] = "drop: context"
    BY <1>4 DEF LastArcDrops
  <2> QED
    BY <1>4, <2>1
<1>5. ASSUME NEW c \in Contexts, NEW u \in Threads, CloneArc(t, u, c) PROVE Goal
  BY <1>5 DEF CloneArc
<1>6. ASSUME NEW s \in States, FullRejects(t, s) \/ FullFindsNull(t, s) \/ FullStarts(t, s)
      PROVE  Goal
  BY <1>6 DEF FullRejects, FullFindsNull, FullStarts
<1>7. ASSUME NEW s \in States, StateDrops(t, s) PROVE Goal
  BY <1>7 DEF StateDrops
<1> QED
  BY <1>1, <1>2, <1>3, <1>4, <1>5, <1>6, <1>7 DEF Calls

\* Whatever native state a call works on has been allocated, and on the Context
\* the call works on.
LEMMA StatesAtWork ==
  ASSUME TypeOK, BirthInv, NEW t \in Threads, Target(t), onState[t] # NoState
  PROVE  /\ onState[t] \in States /\ onCtx[t] \in Contexts
         /\ owner[onState[t]] = onCtx[t] /\ native[onState[t]] # "none"
<1>1. pc[t] \in Creating \cup InFull \cup {"drop: arc"}
  BY DEF TypeOK, Labels, Target, Creating, InFull, UnderFullLock, Losing
<1>2. onState[t] \in States
  BY DEF TypeOK
<1>3. onCtx[t] \in Contexts /\ owner[onState[t]] = onCtx[t]
  BY <1>1 DEF Target
<1> QED
  BY <1>2, <1>3, NamesAssumption DEF BirthInv

\* A native state gets its Context when whisper_init_state returns it, and
\* nothing happens to it before.
LEMMA BirthStep ==
  ASSUME BaseInv, NEW t \in Threads, Calls(t) \/ Continues(t)
  PROVE  BirthInv'
<1>a. TypeOK /\ BirthInv /\ Target(t)
  BY DEF BaseInv, TargetInv
<1> USE <1>a, NamesAssumption, CodesAssumption
    DEF TypeOK, Codes, Target, BirthInv, Creating, InFull, UnderFullLock, Losing, NoCode,
        FreedUpstream,
        Goto, Begin, Refuse, Return, Step, Answer, BackWith, Result, Freed, FreeState,
        FreeContext, ShimEnter, ShimCatch, TakeSentinel, Owned, AtRest, locks, refs, heap, calls
<1>0. CASE UNCHANGED <<native, owner, handle, cause>>
  BY <1>0
<1>1. ASSUME NEW s \in States, StateDrops(t, s) PROVE BirthInv'
  BY <1>1 DEF StateDrops
<1>2. ASSUME NEW s \in States, CreateAllocates(t, s) PROVE BirthInv'
  BY <1>2 DEF CreateAllocates
<1>b. onState[t] # NoState => onState[t] \in States /\ native[onState[t]] # "none"
  BY StatesAtWork
<1>3. CASE CreateDiscards(t)
  <2>1. UNCHANGED <<owner, handle, cause>>
    BY <1>3 DEF CreateDiscards
  <2>2. \A s \in States : native'[s] = "none" <=> native[s] = "none"
    <3>1. CASE onState[t] # NoState /\ native' = [native EXCEPT ![onState[t]] = Freed(@)]
      BY ONLY <1>a, <1>b, <3>1 DEF TypeOK, Freed
    <3> QED
      BY ONLY <1>3, <3>1 DEF CreateDiscards, FreeState
  <2> QED
    BY ONLY <1>a, <2>1, <2>2 DEF BirthInv
<1>4. CASE CreatePublishes(t)
  <2>1. handle' = [handle EXCEPT ![onState[t]] = "some"] /\ UNCHANGED <<owner, native, cause>>
    BY ONLY <1>4 DEF CreatePublishes, heap
  <2>2. \A s \in States : native[s] = "none" => handle'[s] = handle[s]
    BY ONLY <1>a, <1>b, <1>4, <2>1 DEF TypeOK, CreatePublishes
  <2> QED
    BY ONLY <1>a, <2>1, <2>2 DEF BirthInv
<1>5. CASE FullIsFreed(t)
  BY <1>5 DEF FullIsFreed
<1>6. ASSUME NEW code \in Codes, FullThrows(t, code) PROVE BirthInv'
  BY <1>6 DEF FullThrows
<1>7. CASE FullForgets(t)
  BY <1>7 DEF FullForgets
<1>8. CASE FullFrees(t)
  BY <1>8 DEF FullFrees
<1>9. CASE StateDropsArc(t)
  BY <1>9 DEF StateDropsArc
<1>10. CASE StateDropsLastArc(t)
  BY <1>10 DEF StateDropsLastArc
<1> QED
  BY <1>0, <1>1, <1>2, <1>3, <1>4, <1>5, <1>6, <1>7, <1>8, <1>9, <1>10
     DEF Calls, Continues, Returns, NewStarts, NewRejects, CreateRefuses, CreateStarts,
     ArcDrops, LastArcDrops, CloneArc, FullRejects, FullFindsNull, FullStarts, NewReturnsNull,
     CreateReturnsNull, NewLoads, NewThrows, CreateThrows, FullAnswers, NewLocks, NewPublishes,
     NewRefusesModel, NewFails, CreateLocks, CreateRechecks, CreateFails, FullLocks,
     FullIsRefused, FullPasses, FullMarks, FullMarksFirst, FullUnlocks, ContextDrops

\* The step of a call keeps what the call works on: create_state goes on with
\* its Context, full and drop with their State and its Context.
LEMMA OwnTarget ==
  ASSUME BaseInv, NEW t \in Threads, Calls(t) \/ Continues(t)
  PROVE  Target(t)'
<1>a. TypeOK /\ BirthInv /\ Target(t)
  BY DEF BaseInv, TargetInv
<1> USE <1>a, NamesAssumption, CodesAssumption
    DEF TypeOK, Codes, Target, BirthInv, Creating, InFull, UnderFullLock, Losing, NoCode,
        FreedUpstream, BadAlloc,
        Goto, Begin, Refuse, Return, Step, Answer, BackWith, Result, Freed, FreeState,
        FreeContext, ShimEnter, ShimCatch, TakeSentinel, Owned, AtRest, locks, refs, heap, calls
<1>1. CASE NewStarts(t)
  BY <1>1 DEF NewStarts
<1>2. CASE NewRejects(t)
  BY <1>2 DEF NewRejects
<1>3. ASSUME NEW c \in Contexts, CreateRefuses(t, c) PROVE Target(t)'
  BY <1>3 DEF CreateRefuses
<1>4. ASSUME NEW c \in Contexts, CreateStarts(t, c) PROVE Target(t)'
  BY <1>4 DEF CreateStarts
<1>5. ASSUME NEW c \in Contexts, ArcDrops(t, c) PROVE Target(t)'
  BY <1>5 DEF ArcDrops
<1>6. ASSUME NEW c \in Contexts, LastArcDrops(t, c) PROVE Target(t)'
  BY <1>6 DEF LastArcDrops
<1>7. ASSUME NEW c \in Contexts, NEW u \in Threads, CloneArc(t, u, c) PROVE Target(t)'
  BY <1>7 DEF CloneArc
<1>8. ASSUME NEW s \in States, FullRejects(t, s) PROVE Target(t)'
  BY <1>8 DEF FullRejects
<1>9. ASSUME NEW s \in States, FullFindsNull(t, s) PROVE Target(t)'
  BY <1>9 DEF FullFindsNull
<1>10. ASSUME NEW s \in States, FullStarts(t, s) PROVE Target(t)'
  BY <1>10 DEF FullStarts
<1>11. ASSUME NEW s \in States, StateDrops(t, s) PROVE Target(t)'
  BY <1>11 DEF StateDrops
<1>12. CASE NewReturnsNull(t)
  BY <1>12 DEF NewReturnsNull
<1>13. CASE CreateReturnsNull(t)
  BY <1>13 DEF CreateReturnsNull
<1>14. CASE FullIsFreed(t)
  BY <1>14 DEF FullIsFreed
<1>15. ASSUME NEW c \in Contexts, NewLoads(t, c) PROVE Target(t)'
  BY <1>15 DEF NewLoads
<1>16. ASSUME NEW s \in States, CreateAllocates(t, s) PROVE Target(t)'
  BY <1>16 DEF CreateAllocates
<1>17. ASSUME NEW e \in ExceptionCodes, NewThrows(t, e) PROVE Target(t)'
  BY <1>17 DEF NewThrows
<1>18. ASSUME NEW e \in ExceptionCodes, CreateThrows(t, e) PROVE Target(t)'
  BY <1>18 DEF CreateThrows
<1>19. ASSUME NEW code \in Codes, FullThrows(t, code) PROVE Target(t)'
  BY <1>19 DEF FullThrows
<1>20. ASSUME NEW code \in Codes, FullAnswers(t, code) PROVE Target(t)'
  BY <1>20 DEF FullAnswers
<1>21. CASE NewLocks(t)
  BY <1>21 DEF NewLocks
<1>22. CASE NewPublishes(t)
  BY <1>22 DEF NewPublishes
<1>23. CASE NewRefusesModel(t)
  BY <1>23 DEF NewRefusesModel
<1>24. CASE NewFails(t)
  BY <1>24 DEF NewFails
<1>25. CASE CreateLocks(t)
  BY <1>25 DEF CreateLocks
<1>26. CASE CreateRechecks(t)
  BY <1>26 DEF CreateRechecks
<1>27. CASE CreateDiscards(t)
  BY <1>27 DEF CreateDiscards
<1>28. CASE CreatePublishes(t)
  BY <1>28 DEF CreatePublishes
<1>29. CASE CreateFails(t)
  BY <1>29 DEF CreateFails
<1>30. CASE FullLocks(t)
  BY <1>30 DEF FullLocks
<1>31. CASE FullIsRefused(t)
  BY <1>31 DEF FullIsRefused
<1>32. CASE FullPasses(t)
  BY <1>32 DEF FullPasses
<1>33. CASE FullForgets(t)
  BY <1>33 DEF FullForgets
<1>34. CASE FullMarks(t)
  BY <1>34 DEF FullMarks
<1>35. CASE FullMarksFirst(t)
  BY <1>35 DEF FullMarksFirst
<1>36. CASE FullFrees(t)
  BY <1>36 DEF FullFrees
<1>37. CASE FullUnlocks(t)
  BY <1>37 DEF FullUnlocks
<1>38. CASE StateDropsArc(t)
  BY <1>38 DEF StateDropsArc
<1>39. CASE StateDropsLastArc(t)
  BY <1>39 DEF StateDropsLastArc
<1>40. CASE ContextDrops(t)
  BY <1>40 DEF ContextDrops
<1> QED
  BY <1>1, <1>2, <1>3, <1>4, <1>5, <1>6, <1>7, <1>8, <1>9, <1>10, <1>11, <1>12, <1>13, <1>14,
     <1>15, <1>16, <1>17, <1>18, <1>19, <1>20, <1>21, <1>22, <1>23, <1>24, <1>25, <1>26, <1>27,
     <1>28, <1>29, <1>30, <1>31, <1>32, <1>33, <1>34, <1>35, <1>36, <1>37, <1>38, <1>39, <1>40
     DEF Calls, Continues, Returns

\* What another call works on is not taken from under it: a State in use is
\* neither moved to another Context nor dropped, and a thread inside
\* create_state keeps its Arc.
LEMMA OtherTarget ==
  ASSUME BaseInv, NEW t \in Threads, Calls(t) \/ Continues(t), NEW u \in Threads \ {t}
  PROVE  Target(u)'
<1>a. /\ TypeOK /\ BirthInv
      /\ Target(u) /\ Target(t)
      /\ Unpublished(t)
      /\ pc'[u] = pc[u] /\ onCtx'[u] = onCtx[u] /\ onState'[u] = onState[u]
      /\ onState[u] = onState[t] => onState[u] = NoState
  BY OthersStay DEF BaseInv, TargetInv, BirthInv, ApartInv, FreshInv
<1> USE <1>a, NamesAssumption, CodesAssumption
    DEF TypeOK, Target, Unpublished, Unused, Creating, InFull, UnderFullLock, Losing,
        Goto, Begin, Refuse, Return, Step, Answer, BackWith, Result, Freed, FreeState,
        FreeContext, ShimEnter, ShimCatch, TakeSentinel, Owned, AtRest, locks, refs, heap, calls
<1>0. CASE UNCHANGED <<arcs, owner, handle>>
  BY <1>0
<1>1. ASSUME NEW c \in Contexts, NEW v \in Threads, CloneArc(t, v, c) PROVE Target(u)'
  BY <1>1 DEF CloneArc
<1>2. ASSUME NEW c \in Contexts, ArcDrops(t, c) PROVE Target(u)'
  BY <1>2 DEF ArcDrops
<1>3. ASSUME NEW c \in Contexts, LastArcDrops(t, c) PROVE Target(u)'
  <2>1. u \notin arcs[c]
    BY ONLY <1>3 DEF LastArcDrops, Refs
  <2>2. arcs' = [arcs EXCEPT ![c] = {}] /\ UNCHANGED <<owner, handle>>
    BY ONLY <1>3 DEF LastArcDrops
  <2>3. \A d \in Contexts : u \in arcs[d] => u \in arcs'[d]
    BY ONLY <1>a, <2>1, <2>2 DEF TypeOK
  <2> QED
    BY ONLY <1>a, <2>2, <2>3 DEF TypeOK, Target
<1>4. CASE NewPublishes(t)
  BY <1>4 DEF NewPublishes
<1>5. ASSUME NEW s \in States, CreateAllocates(t, s) PROVE Target(u)'
  <2>1. onState[u] # s
    BY <1>5, StatesAtWork DEF CreateAllocates
  <2>2. /\ owner' = [owner EXCEPT ![s] = onCtx[t]]
        /\ UNCHANGED <<arcs, handle>>
    BY <1>5 DEF CreateAllocates
  <2> QED
    BY <2>1, <2>2
<1>6. ASSUME NEW s \in States, StateDrops(t, s) PROVE Target(u)'
  BY <1>6 DEF StateDrops
<1>7. CASE CreatePublishes(t)
  BY <1>7 DEF CreatePublishes
<1>8. CASE FullForgets(t)
  BY <1>8 DEF FullForgets
<1>9. CASE FullFrees(t)
  BY <1>9 DEF FullFrees
<1>10. CASE StateDropsArc(t)
  BY <1>10 DEF StateDropsArc
<1>11. CASE StateDropsLastArc(t)
  BY <1>11 DEF StateDropsLastArc
<1> QED
  BY <1>0, <1>1, <1>2, <1>3, <1>4, <1>5, <1>6, <1>7, <1>8, <1>9, <1>10, <1>11
     DEF Calls, Continues, Returns, NewStarts, NewRejects, CreateRefuses, CreateStarts,
     FullRejects, FullFindsNull, FullStarts, NewReturnsNull, CreateReturnsNull, FullIsFreed,
     NewLoads, NewThrows, CreateThrows, FullThrows, FullAnswers, NewLocks, NewRefusesModel,
     NewFails, CreateLocks, CreateRechecks, CreateDiscards, CreateFails, FullLocks,
     FullIsRefused, FullPasses, FullMarks, FullMarksFirst, FullUnlocks, ContextDrops

\* No step makes two calls use one State: full and drop take only a State no
\* call is using, and create_state gets one nobody has seen.
LEMMA ApartStep ==
  ASSUME BaseInv, NEW t \in Threads, Calls(t) \/ Continues(t)
  PROVE  ApartInv'
<1>a. /\ TypeOK /\ BirthInv /\ ApartInv
      /\ \A u \in Threads : Target(u)
  BY DEF BaseInv, TargetInv
<1>b. onState \in [Threads -> States \cup {NoState}]
  BY <1>a DEF TypeOK
<1>c. \A u \in Threads \ {t} : onState'[u] = onState[u]
  BY <1>a, OthersStay
<1> DEFINE Free(s) == \A u \in Threads : onState[u] # s
           Goal == onState'[t] \in {onState[t], NoState} \/ Free(onState'[t])
<1>d. SUFFICES Goal
  BY <1>a, <1>c DEF ApartInv
<1> USE <1>b DEF Goto, Begin, Refuse, Return, Step, Answer, BackWith, AtRest, calls
<1>0. CASE UNCHANGED <<onState>>
  BY <1>0
<1>1. CASE NewStarts(t)
  BY <1>1 DEF NewStarts
<1>2. ASSUME NEW c \in Contexts, CreateStarts(t, c) PROVE Goal
  BY <1>2 DEF CreateStarts
<1>3. ASSUME NEW c \in Contexts, LastArcDrops(t, c) PROVE Goal
  BY <1>3 DEF LastArcDrops
<1>4. ASSUME NEW s \in States, FullStarts(t, s) PROVE Goal
  BY <1>4 DEF FullStarts
<1>5. ASSUME NEW s \in States, StateDrops(t, s) PROVE Goal
  BY <1>5 DEF StateDrops
<1>6. CASE NewPublishes(t)
  BY <1>6 DEF NewPublishes
<1>7. CASE NewRefusesModel(t)
  BY <1>7 DEF NewRefusesModel
<1>8. CASE NewFails(t)
  BY <1>8 DEF NewFails
<1>9. ASSUME NEW s \in States, CreateAllocates(t, s) PROVE Goal
  <2>1. ASSUME NEW u \in Threads, onState[u] = s PROVE FALSE
    <3>1. onState[u] # NoState
      BY <2>1, NamesAssumption
    <3>2. native[onState[u]] # "none"
      BY <1>a, <3>1, StatesAtWork
    <3> QED
      BY <1>9, <2>1, <3>2 DEF CreateAllocates
  <2> QED
    BY <1>9, <2>1 DEF CreateAllocates
<1>10. CASE CreateDiscards(t)
  BY <1>10 DEF CreateDiscards
<1>11. CASE CreatePublishes(t)
  BY <1>11 DEF CreatePublishes
<1>12. CASE CreateFails(t)
  BY <1>12 DEF CreateFails
<1>13. CASE FullUnlocks(t)
  BY <1>13 DEF FullUnlocks
<1>14. CASE StateDropsArc(t)
  BY <1>14 DEF StateDropsArc
<1>15. CASE StateDropsLastArc(t)
  BY <1>15 DEF StateDropsLastArc
<1>16. CASE ContextDrops(t)
  BY <1>16 DEF ContextDrops
<1> QED
  BY <1>0, <1>1, <1>2, <1>3, <1>4, <1>5, <1>6, <1>7, <1>8, <1>9, <1>10, <1>11, <1>12, <1>13,
     <1>14, <1>15, <1>16
     DEF Calls, Continues, Returns, NewRejects, CreateRefuses, ArcDrops, CloneArc, FullRejects,
     FullFindsNull, NewReturnsNull, CreateReturnsNull, FullIsFreed, NewLoads, NewThrows,
     CreateThrows, FullThrows, FullAnswers, NewLocks, CreateLocks, CreateRechecks, FullLocks,
     FullIsRefused, FullPasses, FullForgets, FullMarks, FullMarksFirst, FullFrees

\* A thread that reaches a label under a lock has acquired that lock.
LEMMA OwnLocks ==
  ASSUME BaseInv, NEW t \in Threads, Calls(t) \/ Continues(t)
  PROVE  HoldsLocks(t)'
<1>a. TypeOK /\ Target(t) /\ HoldsLocks(t)
  BY DEF BaseInv, TargetInv, LockInv
<1> USE <1>a, NamesAssumption, CodesAssumption
    DEF TypeOK, Codes, Target, HoldsLocks, UnderInitLock, Creating, InFull, UnderFullLock,
        Losing, NoCode, FreedUpstream, BadAlloc,
        Goto, Begin, Refuse, Return, Step, Answer, BackWith, Result, Freed, FreeState,
        FreeContext, ShimEnter, ShimCatch, TakeSentinel, Owned, AtRest, locks, refs, heap, calls
<1>0. CASE UNCHANGED <<pc, onCtx, initLock, fullLock>>
  BY <1>0
<1>1. CASE NewStarts(t)
  BY <1>1 DEF NewStarts
<1>2. ASSUME NEW c \in Contexts, CreateStarts(t, c) PROVE HoldsLocks(t)'
  BY <1>2 DEF CreateStarts
<1>3. ASSUME NEW c \in Contexts, LastArcDrops(t, c) PROVE HoldsLocks(t)'
  BY <1>3 DEF LastArcDrops
<1>4. ASSUME NEW s \in States, FullStarts(t, s) PROVE HoldsLocks(t)'
  BY <1>4 DEF FullStarts
<1>5. ASSUME NEW s \in States, StateDrops(t, s) PROVE HoldsLocks(t)'
  BY <1>5 DEF StateDrops
<1>6. CASE NewReturnsNull(t)
  BY <1>6 DEF NewReturnsNull
<1>7. CASE CreateReturnsNull(t)
  BY <1>7 DEF CreateReturnsNull
<1>8. CASE FullIsFreed(t)
  BY <1>8 DEF FullIsFreed
<1>9. ASSUME NEW c \in Contexts, NewLoads(t, c) PROVE HoldsLocks(t)'
  BY <1>9 DEF NewLoads
<1>10. ASSUME NEW s \in States, CreateAllocates(t, s) PROVE HoldsLocks(t)'
  BY <1>10 DEF CreateAllocates
<1>11. ASSUME NEW e \in ExceptionCodes, NewThrows(t, e) PROVE HoldsLocks(t)'
  BY <1>11 DEF NewThrows
<1>12. ASSUME NEW e \in ExceptionCodes, CreateThrows(t, e) PROVE HoldsLocks(t)'
  BY <1>12 DEF CreateThrows
<1>13. ASSUME NEW code \in Codes, FullThrows(t, code) PROVE HoldsLocks(t)'
  BY <1>13 DEF FullThrows
<1>14. ASSUME NEW code \in Codes, FullAnswers(t, code) PROVE HoldsLocks(t)'
  BY <1>14 DEF FullAnswers
<1>15. CASE NewLocks(t)
  BY <1>15 DEF NewLocks
<1>16. CASE NewPublishes(t)
  BY <1>16 DEF NewPublishes
<1>17. CASE NewRefusesModel(t)
  BY <1>17 DEF NewRefusesModel
<1>18. CASE NewFails(t)
  BY <1>18 DEF NewFails
<1>19. CASE CreateLocks(t)
  BY <1>19 DEF CreateLocks
<1>20. CASE CreateRechecks(t)
  BY <1>20 DEF CreateRechecks
<1>21. CASE CreateDiscards(t)
  BY <1>21 DEF CreateDiscards
<1>22. CASE CreatePublishes(t)
  BY <1>22 DEF CreatePublishes
<1>23. CASE CreateFails(t)
  BY <1>23 DEF CreateFails
<1>24. CASE FullLocks(t)
  BY <1>24 DEF FullLocks
<1>25. CASE FullIsRefused(t)
  BY <1>25 DEF FullIsRefused
<1>26. CASE FullPasses(t)
  BY <1>26 DEF FullPasses
<1>27. CASE FullForgets(t)
  BY <1>27 DEF FullForgets
<1>28. CASE FullMarks(t)
  BY <1>28 DEF FullMarks
<1>29. CASE FullMarksFirst(t)
  BY <1>29 DEF FullMarksFirst
<1>30. CASE FullFrees(t)
  BY <1>30 DEF FullFrees
<1>31. CASE FullUnlocks(t)
  BY <1>31 DEF FullUnlocks
<1>32. CASE StateDropsArc(t)
  BY <1>32 DEF StateDropsArc
<1>33. CASE StateDropsLastArc(t)
  <2>1. pc'[t] = "drop: context"
    BY ONLY <1>a, <1>33 DEF TypeOK, StateDropsLastArc, Goto
  <2> QED
    BY <2>1
<1>34. CASE ContextDrops(t)
  BY <1>34 DEF ContextDrops
<1> QED
  BY <1>0, <1>1, <1>2, <1>3, <1>4, <1>5, <1>6, <1>7, <1>8, <1>9, <1>10, <1>11, <1>12, <1>13,
     <1>14, <1>15, <1>16, <1>17, <1>18, <1>19, <1>20, <1>21, <1>22, <1>23, <1>24, <1>25, <1>26,
     <1>27, <1>28, <1>29, <1>30, <1>31, <1>32, <1>33, <1>34
     DEF Calls, Continues, Returns, NewRejects, CreateRefuses, ArcDrops, CloneArc, FullRejects,
     FullFindsNull

\* No thread releases, or takes, a lock another thread holds.
LEMMA OtherLocks ==
  ASSUME BaseInv, NEW t \in Threads, Calls(t) \/ Continues(t), NEW u \in Threads \ {t}
  PROVE  HoldsLocks(u)'
<1>a. /\ TypeOK
      /\ Target(t) /\ HoldsLocks(t)
      /\ Target(u) /\ HoldsLocks(u)
      /\ pc'[u] = pc[u] /\ onCtx'[u] = onCtx[u]
  BY OthersStay DEF BaseInv, TargetInv, LockInv
<1> USE <1>a, NamesAssumption, CodesAssumption
    DEF TypeOK, Target, HoldsLocks, UnderInitLock, Creating, InFull, UnderFullLock, Losing,
        Goto, Begin, Refuse, Return, Step, Answer, BackWith, Result, Freed, FreeState,
        FreeContext, ShimEnter, ShimCatch, TakeSentinel, Owned, AtRest, locks, refs, heap, calls
<1>0. CASE UNCHANGED <<initLock, fullLock>>
  BY <1>0
<1>1. CASE NewLocks(t)
  BY <1>1 DEF NewLocks
<1>2. CASE NewPublishes(t)
  BY <1>2 DEF NewPublishes
<1>3. CASE NewRefusesModel(t)
  BY <1>3 DEF NewRefusesModel
<1>4. CASE NewFails(t)
  BY <1>4 DEF NewFails
<1>5. CASE CreateLocks(t)
  BY <1>5 DEF CreateLocks
<1>6. CASE CreateDiscards(t)
  BY <1>6 DEF CreateDiscards
<1>7. CASE CreatePublishes(t)
  BY <1>7 DEF CreatePublishes
<1>8. CASE CreateFails(t)
  BY <1>8 DEF CreateFails
<1>9. CASE FullLocks(t)
  BY <1>9 DEF FullLocks
<1>10. CASE FullUnlocks(t)
  BY <1>10 DEF FullUnlocks
<1> QED
  BY <1>0, <1>1, <1>2, <1>3, <1>4, <1>5, <1>6, <1>7, <1>8, <1>9, <1>10
     DEF Calls, Continues, Returns, NewStarts, NewRejects, CreateRefuses, CreateStarts,
     ArcDrops, LastArcDrops, CloneArc, FullRejects, FullFindsNull, FullStarts, StateDrops,
     NewReturnsNull, CreateReturnsNull, FullIsFreed, NewLoads, CreateAllocates, NewThrows,
     CreateThrows, FullThrows, FullAnswers, CreateRechecks, FullIsRefused, FullPasses,
     FullForgets, FullMarks, FullMarksFirst, FullFrees, StateDropsArc, StateDropsLastArc,
     ContextDrops

\* An allocation whisper_init_from_file has not returned yet has no Arc and no
\* State.
LEMMA FreshContexts ==
  ASSUME BaseInv, NEW t \in Threads, Calls(t) \/ Continues(t)
  PROVE  (\A d \in Contexts : ctx[d] = "none" => Unused(d))'
<1>a. /\ TypeOK
      /\ Target(t) /\ Unpublished(t)
      /\ \A c \in Contexts : ctx[c] = "none" => Unused(c)
  BY DEF BaseInv, TargetInv, FreshInv
<1> USE <1>a, NamesAssumption, CodesAssumption
    DEF TypeOK, Target, Creating, Unused, Unpublished,
        Goto, Begin, Refuse, Return, Step, Answer, BackWith, Result, Freed, FreeState,
        FreeContext, ShimEnter, ShimCatch, TakeSentinel, Owned, AtRest, locks, refs, heap, calls
<1>0. CASE UNCHANGED <<ctx, arcs, owner>>
  BY <1>0
<1>1. ASSUME NEW c \in Contexts, NEW u \in Threads, CloneArc(t, u, c)
      PROVE  (\A d \in Contexts : ctx[d] = "none" => Unused(d))'
  BY <1>1 DEF CloneArc
<1>2. ASSUME NEW c \in Contexts, ArcDrops(t, c)
      PROVE  (\A d \in Contexts : ctx[d] = "none" => Unused(d))'
  BY <1>2 DEF ArcDrops
<1>3. ASSUME NEW c \in Contexts, LastArcDrops(t, c)
      PROVE  (\A d \in Contexts : ctx[d] = "none" => Unused(d))'
  BY <1>3 DEF LastArcDrops
<1>4. ASSUME NEW c \in Contexts, NewLoads(t, c)
      PROVE  (\A d \in Contexts : ctx[d] = "none" => Unused(d))'
  BY <1>4 DEF NewLoads
<1>5. CASE NewPublishes(t)
  BY <1>5 DEF NewPublishes
<1>6. CASE NewRefusesModel(t)
  BY <1>6 DEF NewRefusesModel
<1>7. ASSUME NEW s \in States, CreateAllocates(t, s)
      PROVE  (\A d \in Contexts : ctx[d] = "none" => Unused(d))'
  BY <1>7 DEF CreateAllocates
<1>8. CASE ContextDrops(t)
  BY <1>8 DEF ContextDrops
<1> QED
  BY <1>0, <1>1, <1>2, <1>3, <1>4, <1>5, <1>6, <1>7, <1>8
     DEF Calls, Continues, Returns, NewStarts, NewRejects, CreateRefuses, CreateStarts,
     FullRejects, FullFindsNull, FullStarts, StateDrops, NewReturnsNull, CreateReturnsNull,
     FullIsFreed, NewThrows, CreateThrows, FullThrows, FullAnswers, NewLocks, NewFails,
     CreateLocks, CreateRechecks, CreateDiscards, CreatePublishes, CreateFails, FullLocks,
     FullIsRefused, FullPasses, FullForgets, FullMarks, FullMarksFirst, FullFrees, FullUnlocks,
     StateDropsArc, StateDropsLastArc

\* A Context being settled by one Context::new gets no Arc and no State from
\* another thread.
LEMMA OtherUnpublished ==
  ASSUME BaseInv, NEW t \in Threads, Calls(t) \/ Continues(t), NEW u \in Threads \ {t}
  PROVE  Unpublished(u)'
<1>a. /\ TypeOK
      /\ Target(t)
      /\ Unpublished(u) /\ Unpublished(t)
      /\ pc'[u] = pc[u] /\ onCtx'[u] = onCtx[u]
      /\ pc[u] = "new: settle" => pc[t] # "new: settle"
  BY OthersStay DEF BaseInv, TargetInv, FreshInv, LockInv, HoldsLocks, UnderInitLock
<1> USE <1>a, NamesAssumption, CodesAssumption
    DEF TypeOK, Target, Creating, Unused, Unpublished,
        Goto, Begin, Refuse, Return, Step, Answer, BackWith, Result, Freed, FreeState,
        FreeContext, ShimEnter, ShimCatch, TakeSentinel, Owned, AtRest, locks, refs, heap, calls
<1>0. CASE UNCHANGED <<ctx, arcs, owner>>
  BY <1>0
<1>1. ASSUME NEW c \in Contexts, NEW v \in Threads, CloneArc(t, v, c) PROVE Unpublished(u)'
  BY <1>1 DEF CloneArc
<1>2. ASSUME NEW c \in Contexts, ArcDrops(t, c) PROVE Unpublished(u)'
  BY <1>2 DEF ArcDrops
<1>3. ASSUME NEW c \in Contexts, LastArcDrops(t, c) PROVE Unpublished(u)'
  BY <1>3 DEF LastArcDrops
<1>4. ASSUME NEW c \in Contexts, NewLoads(t, c) PROVE Unpublished(u)'
  BY <1>4 DEF NewLoads
<1>5. CASE NewPublishes(t)
  BY <1>5 DEF NewPublishes
<1>6. CASE NewRefusesModel(t)
  BY <1>6 DEF NewRefusesModel
<1>7. ASSUME NEW s \in States, CreateAllocates(t, s) PROVE Unpublished(u)'
  BY <1>7 DEF CreateAllocates
<1>8. CASE ContextDrops(t)
  BY <1>8 DEF ContextDrops
<1> QED
  BY <1>0, <1>1, <1>2, <1>3, <1>4, <1>5, <1>6, <1>7, <1>8
     DEF Calls, Continues, Returns, NewStarts, NewRejects, CreateRefuses, CreateStarts,
     FullRejects, FullFindsNull, FullStarts, StateDrops, NewReturnsNull, CreateReturnsNull,
     FullIsFreed, NewThrows, CreateThrows, FullThrows, FullAnswers, NewLocks, NewFails,
     CreateLocks, CreateRechecks, CreateDiscards, CreatePublishes, CreateFails, FullLocks,
     FullIsRefused, FullPasses, FullForgets, FullMarks, FullMarksFirst, FullFrees, FullUnlocks,
     StateDropsArc, StateDropsLastArc

\* The Context that Context::new has just loaded is its own: nobody else has an
\* Arc of it or a State on it.
LEMMA OwnUnpublished ==
  ASSUME BaseInv, NEW t \in Threads, Calls(t) \/ Continues(t)
  PROVE  Unpublished(t)'
<1>a. /\ TypeOK
      /\ \A c \in Contexts : ctx[c] = "none" => Unused(c)
      /\ pc[t] = "new: native" => onCtx[t] = NoContext
  BY DEF BaseInv, TargetInv, Target, FreshInv
<1> USE <1>a, NamesAssumption, CodesAssumption
    DEF TypeOK, Unused, Unpublished,
        Goto, Begin, Refuse, Return, Step, Answer, BackWith, Result, Freed, FreeState,
        FreeContext, ShimEnter, ShimCatch, TakeSentinel, Owned, AtRest, locks, refs, heap, calls
<1>1. CASE NewStarts(t)
  BY <1>1 DEF NewStarts
<1>2. CASE NewRejects(t)
  BY <1>2 DEF NewRejects
<1>3. ASSUME NEW c \in Contexts, CreateRefuses(t, c) PROVE Unpublished(t)'
  BY <1>3 DEF CreateRefuses
<1>4. ASSUME NEW c \in Contexts, CreateStarts(t, c) PROVE Unpublished(t)'
  BY <1>4 DEF CreateStarts
<1>5. ASSUME NEW c \in Contexts, ArcDrops(t, c) PROVE Unpublished(t)'
  BY <1>5 DEF ArcDrops
<1>6. ASSUME NEW c \in Contexts, LastArcDrops(t, c) PROVE Unpublished(t)'
  BY <1>6 DEF LastArcDrops
<1>7. ASSUME NEW c \in Contexts, NEW u \in Threads, CloneArc(t, u, c) PROVE Unpublished(t)'
  BY <1>7 DEF CloneArc
<1>8. ASSUME NEW s \in States, FullRejects(t, s) PROVE Unpublished(t)'
  BY <1>8 DEF FullRejects
<1>9. ASSUME NEW s \in States, FullFindsNull(t, s) PROVE Unpublished(t)'
  BY <1>9 DEF FullFindsNull
<1>10. ASSUME NEW s \in States, FullStarts(t, s) PROVE Unpublished(t)'
  BY <1>10 DEF FullStarts
<1>11. ASSUME NEW s \in States, StateDrops(t, s) PROVE Unpublished(t)'
  BY <1>11 DEF StateDrops
<1>12. CASE NewReturnsNull(t)
  BY <1>12 DEF NewReturnsNull
<1>13. CASE CreateReturnsNull(t)
  BY <1>13 DEF CreateReturnsNull
<1>14. CASE FullIsFreed(t)
  BY <1>14 DEF FullIsFreed
<1>15. ASSUME NEW c \in Contexts, NewLoads(t, c) PROVE Unpublished(t)'
  BY <1>15 DEF NewLoads
<1>16. ASSUME NEW s \in States, CreateAllocates(t, s) PROVE Unpublished(t)'
  BY <1>16 DEF CreateAllocates
<1>17. ASSUME NEW e \in ExceptionCodes, NewThrows(t, e) PROVE Unpublished(t)'
  BY <1>17 DEF NewThrows
<1>18. ASSUME NEW e \in ExceptionCodes, CreateThrows(t, e) PROVE Unpublished(t)'
  BY <1>18 DEF CreateThrows
<1>19. ASSUME NEW code \in Codes, FullThrows(t, code) PROVE Unpublished(t)'
  BY <1>19 DEF FullThrows
<1>20. ASSUME NEW code \in Codes, FullAnswers(t, code) PROVE Unpublished(t)'
  BY <1>20 DEF FullAnswers
<1>21. CASE NewLocks(t)
  BY <1>21 DEF NewLocks
<1>22. CASE NewPublishes(t)
  BY <1>22 DEF NewPublishes
<1>23. CASE NewRefusesModel(t)
  BY <1>23 DEF NewRefusesModel
<1>24. CASE NewFails(t)
  BY <1>24 DEF NewFails
<1>25. CASE CreateLocks(t)
  BY <1>25 DEF CreateLocks
<1>26. CASE CreateRechecks(t)
  BY <1>26 DEF CreateRechecks
<1>27. CASE CreateDiscards(t)
  BY <1>27 DEF CreateDiscards
<1>28. CASE CreatePublishes(t)
  BY <1>28 DEF CreatePublishes
<1>29. CASE CreateFails(t)
  BY <1>29 DEF CreateFails
<1>30. CASE FullLocks(t)
  BY <1>30 DEF FullLocks
<1>31. CASE FullIsRefused(t)
  BY <1>31 DEF FullIsRefused
<1>32. CASE FullPasses(t)
  BY <1>32 DEF FullPasses
<1>33. CASE FullForgets(t)
  BY <1>33 DEF FullForgets
<1>34. CASE FullMarks(t)
  BY <1>34 DEF FullMarks
<1>35. CASE FullMarksFirst(t)
  BY <1>35 DEF FullMarksFirst
<1>36. CASE FullFrees(t)
  BY <1>36 DEF FullFrees
<1>37. CASE FullUnlocks(t)
  BY <1>37 DEF FullUnlocks
<1>38. CASE StateDropsArc(t)
  BY <1>38 DEF StateDropsArc
<1>39. CASE StateDropsLastArc(t)
  BY <1>39 DEF StateDropsLastArc
<1>40. CASE ContextDrops(t)
  BY <1>40 DEF ContextDrops
<1> QED
  BY <1>1, <1>2, <1>3, <1>4, <1>5, <1>6, <1>7, <1>8, <1>9, <1>10, <1>11, <1>12, <1>13, <1>14,
     <1>15, <1>16, <1>17, <1>18, <1>19, <1>20, <1>21, <1>22, <1>23, <1>24, <1>25, <1>26, <1>27,
     <1>28, <1>29, <1>30, <1>31, <1>32, <1>33, <1>34, <1>35, <1>36, <1>37, <1>38, <1>39, <1>40
     DEF Calls, Continues, Returns

\* BaseInv holds before anything is loaded.
LEMMA BaseInit == Init => BaseInv
<1> SUFFICES ASSUME Init PROVE BaseInv
  OBVIOUS
<1>1. TypeOK
  BY TypeInit
<1> QED
  BY <1>1, NamesAssumption
  DEF Init, BaseInv, BirthInv, TargetInv, Target, ApartInv, LockInv, HoldsLocks, FreshInv, Unused,
      Unpublished, UnderInitLock, UnderFullLock, Losing, Creating, InFull, Owned

\* BaseInv survives a step that changes nothing.
LEMMA BaseUnchanged == ASSUME BaseInv, UNCHANGED vars PROVE BaseInv'
<1> USE DEF vars, locks, refs, heap, calls, BaseInv
<1>1. TypeOK'
  BY DEF TypeOK
<1>2. BirthInv' /\ ApartInv'
  BY DEF BirthInv, ApartInv
<1>3. TargetInv'
  BY DEF TargetInv, Target, Owned
<1>4. LockInv' /\ FreshInv'
  BY DEF LockInv, HoldsLocks, FreshInv, Unused, Unpublished
<1> QED
  BY <1>1, <1>2, <1>3, <1>4

\* BaseInv survives every step of every thread.
LEMMA BaseStep ==
  ASSUME BaseInv, NEW t \in Threads, Calls(t) \/ Continues(t)
  PROVE  BaseInv'
<1>1. TypeOK'
  BY TypeStep DEF BaseInv
<1>2. BirthInv' /\ ApartInv'
  BY BirthStep, ApartStep
<1>3. TargetInv'
  BY OwnTarget, OtherTarget DEF TargetInv
<1>4. LockInv'
  BY OwnLocks, OtherLocks DEF LockInv
<1>5. FreshInv'
  BY FreshContexts, OwnUnpublished, OtherUnpublished DEF FreshInv
<1> QED
  BY <1>1, <1>2, <1>3, <1>4, <1>5 DEF BaseInv

\* For any number of threads, Contexts and States: every reachable state is
\* well typed, calls work on States of their own, and a label between acquiring
\* and releasing init_lock or full_lock belongs to the thread that holds it.
THEOREM BaseInvariant == Spec => []BaseInv
<1>1. BaseInv /\ [Next]_vars => BaseInv'
  BY BaseStep, BaseUnchanged DEF Next
<1> QED
  BY BaseInit, <1>1, PTL DEF Spec

\* For any number of threads, Contexts and States the variables keep their
\* types.
THEOREM TypeCorrect == Spec => []TypeOK
<1>1. BaseInv => TypeOK
  BY DEF BaseInv
<1> QED
  BY BaseInvariant, <1>1, PTL

\* init_lock does its work for any number of threads: two native constructors
\* never run at once, be they in Context::new or in Context::create_state.
THEOREM ConstructorsExclude == Spec => []OneConstructorAtATime
<1>1. BaseInv => OneConstructorAtATime
  BY DEF BaseInv, LockInv, HoldsLocks, UnderInitLock, OneConstructorAtATime
<1> QED
  BY BaseInvariant, <1>1, PTL

\* full_lock does its work for any number of threads: two calls of State::full
\* are never inside whisper_full on one Context.
THEOREM InferencesExclude == Spec => []OneInferencePerContext
<1>1. BaseInv => OneInferencePerContext
  BY DEF BaseInv, LockInv, HoldsLocks, UnderFullLock, OneInferencePerContext
<1> QED
  BY BaseInvariant, <1>1, PTL
=============================================================================
