-------------------------- MODULE InferenceAnswers --------------------------
(***************************************************************************)
(* Four components that answer the program from what native code says: the *)
(* tokens of a text, the timestamps and their arena, the system            *)
(* information, and the segments of an inference.  They share no variable, *)
(* so that they are stated side by side, and any of them may take a step.  *)
(***************************************************************************)
EXTENDS Integers

CONSTANTS
  \* Tokenize
  IntMax, InitialCapacity, MaxLength,
  \* DtwBudget
  UsizeMax, MaxDtwMemSize, ObjectSize, Wishes, TextCtxs,
  \* SystemInfo
  Threads, NoThread,
  \* SegmentViews
  SegmentIterators, TokenIterators, NoItem, MaxSegments, MaxTokens

VARIABLES
  pc, call, capacity, filled, written, passes, failed, answer,
  params, context, needed,
  at, cache, initLock, builds, raw, got,
  result, live, views, iter, said

Text  == INSTANCE Tokenize
Dtw   == INSTANCE DtwBudget
Sys   == INSTANCE SystemInfo WITH pc <- at, answer <- got
Views == INSTANCE SegmentViews

ASSUME WidthAssumption     == Text!WidthAssumption
ASSUME SizesAssumption     == Dtw!SizesAssumption
ASSUME NoThreadAssumption  == Sys!NoThreadAssumption
ASSUME IteratorsAssumption == Views!IteratorsAssumption /\ Views!BoundsAssumption

textVars  == <<pc, call, capacity, filled, written, passes, failed, answer>>
dtwVars   == <<params, context, needed>>
sysVars   == <<at, cache, initLock, builds, raw, got>>
viewsVars == <<result, live, views, iter, said>>
vars == <<textVars, dtwVars, sysVars, viewsVars>>

Init == Text!Init /\ Dtw!Init /\ Sys!Init /\ Views!Init

TextStep  == Text!Next  /\ UNCHANGED <<dtwVars, sysVars, viewsVars>>
DtwStep   == Dtw!Next   /\ UNCHANGED <<textVars, sysVars, viewsVars>>
SysStep   == Sys!Next   /\ UNCHANGED <<textVars, dtwVars, viewsVars>>
ViewsStep == Views!Next /\ UNCHANGED <<textVars, dtwVars, sysVars>>

Next == TextStep \/ DtwStep \/ SysStep \/ ViewsStep

Spec == Init /\ [][Next]_vars /\ Sys!Fairness

-----------------------------------------------------------------------------
\* tokenize gives all the tokens of a text, or None for a reason.
CompleteOrNone == Text!CompleteOrNone

\* The arena native code allocates is large enough for every decode.
DecodesFit == Dtw!DecodesFit

\* DTW is on exactly if it was asked for in a way native code takes.
DtwAsAsked == Dtw!DtwAsAsked

\* One native call per process, and its one answer for every caller.
OneAnswerPerProcess == Sys!OneAnswerPerProcess

\* Every call of system_info comes back.
CallsReturn == Sys!CallsReturn

\* What Segments, tokens and iterators name is in the native result.
IndicesInRange == Views!IndicesInRange

\* The iterators of segments and tokens give every item once.
IteratesAll == Views!IteratesAll
=============================================================================
