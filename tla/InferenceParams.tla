-------------------------- MODULE InferenceParams ---------------------------
(***************************************************************************)
(* The five components that decide with what Params native code works:     *)
(* what full checks, the temperature ladder, the threads, the memory       *)
(* behind the raw pointers, and the language.  They share no variable, so  *)
(* that they are stated side by side, and any of them may take a step.     *)
(***************************************************************************)
EXTENDS Integers, Sequences

CONSTANTS
  \* FullPreflight
  I32Max, MinSamples, Models, LanguageIds, Lengths, Millis, Prompts,
  \* TemperatureLadder
  Precision, One, Eps, MinInc, DefaultInc, Quanta, RungCap,
  \* DecodeThreads
  Concurrency, Counts, MaxBeamSize,
  \* ParamsOwnership
  CStrings, TokenBuffers, Closures, Null, EnLiteral, MaxTokens, MaxDepth,
  \* Languages
  Texts, Length, NonLetters, UpToNul, Named, Table, Tongues

VARIABLES
  checked, result, call,
  heated, phase, rung, rungs,
  counted, unchecked, pc, joinable,
  heap, raw, trampoline, count, length, owner, setting, incoming, calls, gone,
  lang, file, hint, forced, detect, answer, detected

Preflight == INSTANCE FullPreflight WITH params <- checked, Languages <- LanguageIds
Ladder    == INSTANCE TemperatureLadder WITH params <- heated
Decode    == INSTANCE DecodeThreads WITH params <- counted
Ownership == INSTANCE ParamsOwnership WITH Texts <- CStrings
Language  == INSTANCE Languages WITH Models <- Tongues

ASSUME PreflightAssumption == Preflight!PreflightAssumption
ASSUME FloatsAssumption    == Ladder!FloatsAssumption
ASSUME CountsAssumption    == Decode!CountsAssumption
ASSUME OwnershipAssumption == Ownership!PayloadsAssumption /\ Ownership!BoundsAssumption
ASSUME LanguagesAssumption == Language!LanguagesAssumption

preflightVars == <<checked, result, call>>
ladderVars    == <<heated, phase, rung, rungs>>
decodeVars    == <<counted, unchecked, pc, joinable>>
ownershipVars == <<heap, raw, trampoline, count, length, owner, setting, incoming, calls, gone>>
languageVars  == <<lang, file, hint, forced, detect, answer, detected>>
vars == <<preflightVars, ladderVars, decodeVars, ownershipVars, languageVars>>

Init == Preflight!Init /\ Ladder!Init /\ Decode!Init /\ Ownership!Init /\ Language!Init

PreflightStep ==
  Preflight!Next /\ UNCHANGED <<ladderVars, decodeVars, ownershipVars, languageVars>>
LadderStep ==
  Ladder!Next /\ UNCHANGED <<preflightVars, decodeVars, ownershipVars, languageVars>>
DecodeStep ==
  Decode!Next /\ UNCHANGED <<preflightVars, ladderVars, ownershipVars, languageVars>>
OwnershipStep ==
  Ownership!Next /\ UNCHANGED <<preflightVars, ladderVars, decodeVars, languageVars>>
LanguageStep ==
  Language!Next /\ UNCHANGED <<preflightVars, ladderVars, decodeVars, ownershipVars>>

Next == PreflightStep \/ LadderStep \/ DecodeStep \/ OwnershipStep \/ LanguageStep

Spec == Init /\ [][Next]_vars

-----------------------------------------------------------------------------
\* The frames native code decodes are frames of the buffer.
WindowInsideAudio == Preflight!WindowInsideAudio

\* Prompt tokens and language are of the model they are used with.
TokensSuitTheModel == Preflight!TokensSuitTheModel

\* full refuses no window that ends with the audio, and no language native code would
\* have understood, save where the lookup of a hint met an exception.
RefusalsAreJust == Preflight!RefusalsAreJust

\* full tries at least one temperature, and few.
LadderIsShort == Ladder!LadderIsShort

\* No failure to start a thread and no exception in one ends the process.
FailuresAreCaught == Decode!FailuresAreCaught

\* The raw struct points at memory its fields own, all of it, after any setter.
PointersAreOwned == Ownership!PointersAreOwned

\* An inference's copy of the raw struct is whole, and valid to its end.
CallsReadLiveMemory == Ownership!CallsReadLiveMemory

\* The language of a hint is the one detected_lang gives, and survives the config,
\* unless native code was told to detect.
ForcedLanguageComesBack == Language!ForcedLanguageComesBack

\* A Lang has a token in exactly the multilingual models that take it as a hint, with
\* detection off.
HintAndTokenAgree == Language!HintAndTokenAgree
=============================================================================
