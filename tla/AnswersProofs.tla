--------------------------- MODULE AnswersProofs ----------------------------
(***************************************************************************)
(* Proofs about the components that answer the program from what native    *)
(* code says, for every width of a C int and of usize, every capacity of   *)
(* the first buffer, any number of threads and of iterators, and results   *)
(* of any size.                                                            *)
(*                                                                         *)
(* Each component has an inductive invariant of its own variables, which   *)
(* the steps of the other three leave alone.                               *)
(***************************************************************************)
EXTENDS InferenceAnswers, SequenceTheorems, TLAPS

(***************************************************************************)
(* Tokenize.  What the native call said, and how much it wrote, is a       *)
(* function of the text and of the buffer, or an exception was caught; the *)
(* second buffer is as long as the text.                                   *)
(***************************************************************************)
FirstCapacity == IF call.one THEN 1 ELSE InitialCapacity

Said(size) == IF call.length > IntMax THEN Text!IntMin
              ELSE IF call.length <= size THEN call.length ELSE -call.length

TextInv ==
  /\ Text!TypeOK
  /\ pc \in {"copy", "reserve"} => passes = 0 /\ ~failed /\ ~call.nul /\ filled = 0 /\ capacity = 0
  /\ pc = "reserve" => ~call.one
  /\ pc = "native" => passes < 2 /\ filled = 0 /\ ~failed
  /\ pc = "look" =>
       /\ passes > 0
       /\ IF failed THEN written = Text!IntMin
                    ELSE /\ written = Said(capacity)
                         /\ filled = IF call.length <= capacity THEN call.length ELSE 0
  /\ pc \in {"native", "look"} /\ passes = (IF pc = "native" THEN 0 ELSE 1) =>
       capacity = FirstCapacity
  /\ pc \in {"native", "look"} /\ passes = (IF pc = "native" THEN 1 ELSE 2) =>
       capacity = call.length /\ ~call.one
  /\ Text!CompleteOrNone

LEMMA TextInit == Text!Init => TextInv
<1> SUFFICES ASSUME Text!Init PROVE TextInv
  OBVIOUS
<1>1. IntMax \in Nat /\ MaxLength \in Nat
  BY WidthAssumption DEF Text!WidthAssumption
<1>2. call \in Text!Calls
  BY <1>1 DEF Text!Init, Text!Calls
<1>3. /\ pc \in Text!Labels /\ capacity \in 0..IntMax /\ passes \in 0..2 /\ answer \in 0..IntMax
  BY <1>1 DEF Text!Init, Text!Labels
<1>4. filled \in 0..capacity /\ written \in Text!IntMin..IntMax
  BY <1>1 DEF Text!Init, Text!IntMin
<1>5. failed \in BOOLEAN
  BY DEF Text!Init
<1>6. Text!TypeOK
  BY <1>2, <1>3, <1>4, <1>5 DEF Text!TypeOK
<1> QED
  BY <1>6 DEF Text!Init, TextInv, Text!CompleteOrNone, Text!None

\* What a step may assume of the numbers.
LEMMA TextTypes ==
  ASSUME TextInv
  PROVE  /\ IntMax \in Nat /\ InitialCapacity \in 1..IntMax /\ MaxLength \in Nat
         /\ Text!IntMin = -IntMax - 1 /\ Text!None = -1
         /\ call = [one |-> call.one, length |-> call.length, nul |-> call.nul]
         /\ call.one \in BOOLEAN /\ call.length \in Nat /\ call.length <= MaxLength
         /\ call.nul \in BOOLEAN
         /\ capacity \in Nat /\ capacity <= IntMax /\ filled \in Nat /\ filled <= capacity
         /\ written \in Int /\ passes \in 0..2 /\ failed \in BOOLEAN
<1>1. /\ call \in Text!Calls /\ capacity \in 0..IntMax /\ filled \in 0..capacity
      /\ written \in Text!IntMin..IntMax /\ passes \in 0..2 /\ failed \in BOOLEAN
  BY DEF TextInv, Text!TypeOK
<1> QED
  BY <1>1, WidthAssumption DEF Text!WidthAssumption, Text!IntMin, Text!None, Text!Calls

LEMMA TextNative == ASSUME TextInv, Text!Native \/ Text!NativeThrows PROVE TextInv'
<1> USE TextTypes
<1>1. /\ pc = "native" /\ pc' = "look" /\ passes' = passes + 1
      /\ UNCHANGED <<call, capacity, answer>>
  BY DEF Text!Native, Text!NativeThrows
<1>2. passes \in 0..1 /\ ~failed
  BY <1>1 DEF TextInv
<1>3. /\ passes = 0 => capacity = FirstCapacity
      /\ passes = 1 => capacity = call.length /\ ~call.one
  BY <1>1 DEF TextInv
<1>4. /\ written' \in Text!IntMin..IntMax /\ filled' \in 0..capacity /\ failed' \in BOOLEAN
      /\ IF failed' THEN written' = Text!IntMin
                    ELSE /\ written' = Said(capacity)
                         /\ filled' = IF call.length <= capacity THEN call.length ELSE 0
  <2>1. CASE Text!NativeThrows
    BY <2>1 DEF Text!NativeThrows
  <2>2. CASE Text!Native
    <3>1. /\ written' = Said(capacity) /\ failed' = failed
          /\ filled' = IF call.length <= capacity THEN call.length ELSE 0
      BY <2>2 DEF Text!Native, Said
    <3>2. Said(capacity) \in Text!IntMin..IntMax
      BY DEF Said
    <3> QED
      BY <1>2, <3>1, <3>2
  <2> QED
    BY <2>1, <2>2
<1>5. Text!TypeOK'
  BY <1>1, <1>2, <1>4 DEF TextInv, Text!TypeOK, Text!Labels
<1>6. /\ passes' = 1 => capacity' = FirstCapacity'
      /\ passes' = 2 => capacity' = call'.length /\ ~call'.one
      /\ passes' > 0
  BY <1>1, <1>2, <1>3 DEF FirstCapacity
<1> QED
  BY <1>1, <1>4, <1>5, <1>6 DEF TextInv, Said, Text!CompleteOrNone

LEMMA TextBuffers ==
  ASSUME TextInv, Text!Copies \/ Text!Reserves \/ Text!Grows \/ \E c \in Text!Calls : Text!Starts(c)
  PROVE  TextInv'
<1> USE TextTypes
<1>1. CASE Text!Copies
  <2>1. /\ pc = "copy" /\ pc' = (IF call.one THEN "native" ELSE "reserve")
        /\ capacity' = IF call.one THEN 1 ELSE capacity
        /\ UNCHANGED <<call, filled, written, passes, failed, answer>>
    BY <1>1 DEF Text!Copies
  <2>2. passes = 0 /\ ~failed /\ ~call.nul /\ filled = 0 /\ capacity = 0
    BY <2>1 DEF TextInv
  <2>3. Text!TypeOK'
    BY <2>1, <2>2 DEF TextInv, Text!TypeOK, Text!Labels
  <2> QED
    BY <2>1, <2>2, <2>3 DEF TextInv, FirstCapacity, Text!CompleteOrNone
<1>2. CASE Text!Reserves
  <2>1. /\ pc = "reserve" /\ pc' = "native" /\ capacity' = InitialCapacity
        /\ UNCHANGED <<call, filled, written, passes, failed, answer>>
    BY <1>2 DEF Text!Reserves
  <2>2. passes = 0 /\ ~failed /\ ~call.nul /\ filled = 0 /\ ~call.one
    BY <2>1 DEF TextInv
  <2>3. Text!TypeOK'
    BY <2>1, <2>2 DEF TextInv, Text!TypeOK, Text!Labels
  <2> QED
    BY <2>1, <2>2, <2>3 DEF TextInv, FirstCapacity, Text!CompleteOrNone
<1>3. CASE Text!Grows
  <2>1. /\ pc = "look" /\ ~call.one /\ passes = 1 /\ written < 0 /\ written # Text!IntMin
        /\ pc' = "native" /\ capacity' = -written /\ filled' = 0
        /\ UNCHANGED <<call, written, passes, failed, answer>>
    BY <1>3 DEF Text!Grows, Text!Caught
  <2>2. ~failed /\ written = -call.length /\ call.length <= IntMax
    BY <2>1 DEF TextInv, Said
  <2>3. Text!TypeOK'
    BY <2>1, <2>2 DEF TextInv, Text!TypeOK, Text!Labels
  <2> QED
    BY <2>1, <2>2, <2>3 DEF TextInv, Text!CompleteOrNone
<1>4. ASSUME NEW c \in Text!Calls, Text!Starts(c) PROVE TextInv'
  <2>1. /\ call' = c /\ capacity' = 0 /\ filled' = 0 /\ passes' = 0 /\ failed' = FALSE
        /\ IF c.nul THEN answer' = Text!None /\ pc' = "idle"
                    ELSE pc' = "copy" /\ answer' = answer
        /\ written' = written
    BY <1>4 DEF Text!Starts
  <2>2. failed' \in BOOLEAN
    BY <2>1
  <2>3. filled' \in 0..capacity'
    BY <2>1
  <2>4. /\ pc' \in Text!Labels /\ call' \in Text!Calls /\ capacity' \in 0..IntMax
        /\ filled' \in 0..capacity' /\ passes' \in 0..2 /\ failed' \in BOOLEAN
    BY <2>1, <2>2, <2>3 DEF Text!Labels
  <2>5. Text!TypeOK'
    BY <2>1, <2>4 DEF TextInv, Text!TypeOK
  <2> QED
    BY <2>1, <2>5 DEF TextInv, Text!CompleteOrNone
<1> QED
  BY <1>1, <1>2, <1>3, <1>4

LEMMA TextAnswers ==
  ASSUME TextInv,
         Text!AllocationFails \/ Text!Takes \/ Text!GivesUp \/ Text!LooksAtOne
  PROVE  TextInv'
<1> USE TextTypes
<1>1. /\ pc' = "idle" /\ UNCHANGED <<call, capacity, filled, written, passes>>
      /\ failed' \in BOOLEAN
  BY DEF Text!AllocationFails, Text!Takes, Text!GivesUp, Text!LooksAtOne, Text!Answers
<1>2. answer' \in {Text!None} \cup 0..IntMax /\ Text!CompleteOrNone'
  <2>1. CASE Text!AllocationFails
    BY <1>1, <2>1 DEF Text!AllocationFails, Text!Answers, Text!CompleteOrNone
  <2>2. ASSUME Text!Takes \/ Text!GivesUp \/ Text!LooksAtOne
        PROVE  /\ pc = "look" /\ failed' = failed
               /\ IF failed THEN written = Text!IntMin
                            ELSE /\ written = Said(capacity)
                                 /\ filled = IF call.length <= capacity THEN call.length ELSE 0
    BY <2>2 DEF TextInv, Text!Takes, Text!GivesUp, Text!LooksAtOne
  <2>3. CASE Text!Takes
    <3>1. answer' = written /\ written >= 0 /\ written <= capacity /\ ~call.one
      BY <2>3 DEF Text!Takes, Text!Answers
    <3>2. ~failed /\ written = call.length /\ filled = call.length
      BY <2>2, <2>3, <3>1 DEF Said
    <3> QED
      BY <1>1, <3>1, <3>2 DEF Text!CompleteOrNone
  <2>4. CASE Text!GivesUp
    <3>1. /\ answer' = Text!None /\ ~call.one
          /\ written = Text!IntMin \/ written > capacity \/ (passes = 2 /\ written < 0)
      BY <2>4 DEF Text!GivesUp, Text!Answers, Text!Caught
    <3>2. passes = 2 => capacity = call.length
      BY <2>2, <2>4 DEF TextInv
    <3>3. failed \/ call.length > IntMax
      BY <2>2, <2>4, <3>1, <3>2 DEF Said
    <3> QED
      BY <1>1, <2>2, <2>4, <3>1, <3>3 DEF Text!CompleteOrNone
  <2>5. CASE Text!LooksAtOne
    <3>1. call.one /\ answer' = IF written = 1 THEN 1 ELSE Text!None
      BY <2>5 DEF Text!LooksAtOne, Text!Answers
    <3>2. capacity = 1
      BY <2>2, <2>5, <3>1 DEF TextInv, FirstCapacity
    <3>3. CASE written = 1
      <4>1. ~failed /\ call.length = 1 /\ filled = 1
        BY <2>2, <2>5, <3>2, <3>3 DEF Said
      <4> QED
        BY <1>1, <3>1, <3>3, <4>1 DEF Text!CompleteOrNone
    <3>4. CASE written # 1
      <4>1. failed \/ call.length # 1
        BY <2>2, <2>5, <3>2, <3>4 DEF Said
      <4> QED
        BY <1>1, <2>2, <2>5, <3>1, <3>4, <4>1 DEF Text!CompleteOrNone
    <3> QED
      BY <3>3, <3>4
  <2> QED
    BY <2>1, <2>3, <2>4, <2>5
<1>3. Text!TypeOK'
  BY <1>1, <1>2 DEF TextInv, Text!TypeOK, Text!Labels
<1> QED
  BY <1>1, <1>2, <1>3 DEF TextInv

LEMMA TextKept == TextInv /\ (Text!Next \/ UNCHANGED textVars) => TextInv'
<1>1. ASSUME TextInv, UNCHANGED textVars PROVE TextInv'
  BY <1>1 DEF textVars, TextInv, Text!TypeOK, FirstCapacity, Said, Text!CompleteOrNone
<1> QED
  BY <1>1, TextNative, TextBuffers, TextAnswers DEF Text!Next

-----------------------------------------------------------------------------
(***************************************************************************)
(* DtwBudget.  A loaded model has the DTW its parameters asked for, a text *)
(* context the sizes were computed for, and an arena of what they require. *)
(***************************************************************************)
DtwInv ==
  /\ Dtw!TypeOK
  /\ context.phase = "none" => context.mem = 0 /\ needed = 0 /\ ~context.dtw
  /\ context.phase = "loaded" =>
       /\ context.mem \in Dtw!MinDtwMemSize..MaxDtwMemSize
       /\ context.dtw <=> Dtw!DtwOn
       /\ context.dtw =>
            /\ context.preset # "None" /\ ~context.flash
            /\ context.textCtx <= Dtw!SupportedDtwNTextCtx
            /\ context.mem >= Dtw!RequiredDtwMemSize(context.preset)
  /\ needed <= context.mem

\* No preset has more than 23 heads.
LEMMA HeadsAreFew == \A preset \in Dtw!Presets : Dtw!HeadCount[preset] \in 0..23
  BY DEF Dtw!Presets, Dtw!HeadCount

LEMMA ClampBounds ==
  ASSUME NEW n \in Nat
  PROVE  /\ Dtw!ClampDtwMemSize(n) \in Dtw!MinDtwMemSize..MaxDtwMemSize
         /\ n <= MaxDtwMemSize => Dtw!ClampDtwMemSize(n) >= n
  BY SizesAssumption DEF Dtw!SizesAssumption, Dtw!ClampDtwMemSize, Dtw!MinDtwMemSize, Dtw!MiB

\* A decode of at most as many tokens as the supported models have takes no more
\* than what the preset requires, which the clamp does not cut.
LEMMA BudgetSuffices ==
  ASSUME NEW preset \in Dtw!Presets, NEW tokens \in Nat, tokens <= Dtw!SupportedDtwNTextCtx
  PROVE  /\ 3 * Dtw!TensorBytes(tokens, Dtw!AudioTokens, Dtw!HeadCount[preset]) \in Nat
         /\ 3 * Dtw!TensorBytes(tokens, Dtw!AudioTokens, Dtw!HeadCount[preset])
              <= Dtw!RequiredDtwMemSize(preset)
<1> DEFINE heads == Dtw!HeadCount[preset]
           bytes == 3 * Dtw!TensorBytes(tokens, Dtw!AudioTokens, heads)
<1>1. heads \in 0..23
  BY HeadsAreFew
<1>2. bytes = 18000 * (tokens * heads)
  BY <1>1 DEF Dtw!TensorBytes, Dtw!AudioTokens
<1>3. tokens * heads \in Nat /\ tokens * heads <= 448 * heads
  BY <1>1 DEF Dtw!SupportedDtwNTextCtx
<1>4. Dtw!WithSafety(preset) = 12096000 * heads
  BY <1>1 DEF Dtw!WithSafety, Dtw!TensorBytes, Dtw!SupportedDtwNTextCtx, Dtw!AudioTokens
<1>5. bytes \in Nat /\ bytes <= Dtw!WithSafety(preset)
  BY <1>1, <1>2, <1>3, <1>4
<1>6. CASE heads = 0
  BY <1>2, <1>3, <1>6 DEF Dtw!RequiredDtwMemSize
<1>7. CASE heads # 0
  <2>1. Dtw!WithSafety(preset) \in Nat /\ Dtw!WithSafety(preset) <= 1024 * 1024 * 1024
    BY <1>1, <1>4
  <2>2. Dtw!WithSafety(preset) <= MaxDtwMemSize /\ MaxDtwMemSize \in Nat
    BY <2>1, SizesAssumption DEF Dtw!SizesAssumption, Dtw!MiB
  <2>3. Dtw!ClampDtwMemSize(Dtw!WithSafety(preset)) >= Dtw!WithSafety(preset)
    BY <2>1, <2>2, ClampBounds
  <2>4. Dtw!ClampDtwMemSize(Dtw!WithSafety(preset)) \in Int
    BY <2>1, ClampBounds, SizesAssumption
       DEF Dtw!SizesAssumption, Dtw!MinDtwMemSize, Dtw!MiB
  <2> QED
    BY <1>5, <1>7, <2>1, <2>3, <2>4 DEF Dtw!RequiredDtwMemSize
<1> QED
  BY <1>5, <1>6, <1>7

LEMMA DtwTypes ==
  /\ MaxDtwMemSize \in Nat /\ UsizeMax \in Nat /\ ObjectSize \in Nat
  /\ MaxDtwMemSize + ObjectSize <= UsizeMax
  /\ Dtw!MinDtwMemSize \in Nat /\ Dtw!MinDtwMemSize <= MaxDtwMemSize
  /\ Dtw!DefaultDtwMemSize \in 0..UsizeMax
  /\ Dtw!MinDtwMemSize..MaxDtwMemSize \subseteq 0..UsizeMax
  /\ Wishes \subseteq 0..UsizeMax /\ TextCtxs \subseteq Nat
  BY SizesAssumption
     DEF Dtw!SizesAssumption, Dtw!MinDtwMemSize, Dtw!DefaultDtwMemSize, Dtw!MiB

LEMMA DtwInit == Dtw!Init => DtwInv
<1> SUFFICES ASSUME Dtw!Init PROVE DtwInv
  OBVIOUS
<1>1. /\ params = [flash |-> FALSE, dtw |-> FALSE, preset |-> "None",
                   mem |-> Dtw!DefaultDtwMemSize]
      /\ context = [phase |-> "none", flash |-> FALSE, dtw |-> FALSE, preset |-> "None",
                    mem |-> 0, textCtx |-> 0]
      /\ needed = 0
  BY DEF Dtw!Init, Dtw!NoContext
<1>2. Dtw!DefaultDtwMemSize \in 0..UsizeMax
  BY DtwTypes
<1>3. "None" \in Dtw!Presets
  BY DEF Dtw!Presets, Dtw!HeadCount
<1>4. params \in Dtw!Params
  BY <1>1, <1>2, <1>3 DEF Dtw!Params
<1>5. 0 \in 0..UsizeMax
  BY DtwTypes
<1>6. Dtw!TypeOK
  BY <1>1, <1>3, <1>4, <1>5 DEF Dtw!TypeOK
<1> QED
  BY <1>1, <1>6 DEF DtwInv

LEMMA DtwSetters ==
  ASSUME DtwInv,
         \/ \E on \in BOOLEAN : Dtw!WithFlashAttn(on) \/ Dtw!WithDtwTokenTimestamps(on)
         \/ \E preset \in Dtw!Presets : Dtw!WithDtwAheadsPreset(preset)
         \/ \E n \in Wishes : Dtw!WithDtwMemSize(n)
  PROVE  DtwInv'
<1>1. context.phase = "none" /\ UNCHANGED <<context, needed>>
  BY DEF Dtw!WithFlashAttn, Dtw!WithDtwTokenTimestamps, Dtw!WithDtwAheadsPreset,
         Dtw!WithDtwMemSize
<1>2. params \in Dtw!Params
  BY DEF DtwInv, Dtw!TypeOK
<1>3. \A n \in Wishes : Dtw!ClampDtwMemSize(n) \in 0..UsizeMax
  BY DtwTypes, ClampBounds
<1>4. params' \in Dtw!Params
  <2>1. ASSUME NEW on \in BOOLEAN, Dtw!WithFlashAttn(on) \/ Dtw!WithDtwTokenTimestamps(on)
        PROVE  params' \in Dtw!Params
    BY <1>2, <2>1 DEF Dtw!WithFlashAttn, Dtw!WithDtwTokenTimestamps, Dtw!Params
  <2>2. ASSUME NEW preset \in Dtw!Presets, Dtw!WithDtwAheadsPreset(preset)
        PROVE  params' \in Dtw!Params
    BY <1>2, <2>2 DEF Dtw!WithDtwAheadsPreset, Dtw!Params
  <2>3. ASSUME NEW n \in Wishes, Dtw!WithDtwMemSize(n) PROVE params' \in Dtw!Params
    BY <1>2, <1>3, <2>3 DEF Dtw!WithDtwMemSize, Dtw!Params
  <2> QED
    BY <2>1, <2>2, <2>3
<1> QED
  BY <1>1, <1>4 DEF DtwInv, Dtw!TypeOK

LEMMA DtwLoads == ASSUME DtwInv, NEW textCtx \in TextCtxs, Dtw!Loads(textCtx) PROVE DtwInv'
<1> DEFINE clamped == Dtw!ClampDtwMemSize(params.mem)
           mem == IF Dtw!DtwOn THEN Dtw!AtLeast(clamped, Dtw!RequiredDtwMemSize(params.preset))
                  ELSE clamped
<1>1. /\ ~(Dtw!DtwOn /\ params.flash)
      /\ Dtw!DtwOn => textCtx <= Dtw!SupportedDtwNTextCtx
      /\ context' = [phase |-> "loaded", flash |-> params.flash, dtw |-> Dtw!DtwOn,
                     preset |-> IF Dtw!DtwOn THEN params.preset ELSE "None",
                     mem |-> mem, textCtx |-> textCtx]
      /\ UNCHANGED <<params, needed>>
  BY DEF Dtw!Loads
<1>2. /\ params.mem \in Nat /\ params.mem <= UsizeMax /\ params.preset \in Dtw!Presets
      /\ params.flash \in BOOLEAN /\ Dtw!DtwOn \in BOOLEAN
  BY DtwTypes DEF DtwInv, Dtw!TypeOK, Dtw!Params, Dtw!DtwOn
<1>3. clamped \in Dtw!MinDtwMemSize..MaxDtwMemSize
  BY <1>2, ClampBounds
<1>4. Dtw!RequiredDtwMemSize(params.preset) \in 0..MaxDtwMemSize
  <2>1. Dtw!HeadCount[params.preset] \in 0..23
    BY <1>2, HeadsAreFew
  <2>2. Dtw!WithSafety(params.preset) \in Nat
    BY <2>1 DEF Dtw!WithSafety, Dtw!TensorBytes, Dtw!SupportedDtwNTextCtx, Dtw!AudioTokens
  <2> QED
    BY <2>2, ClampBounds, DtwTypes DEF Dtw!RequiredDtwMemSize
<1>5. /\ mem \in Dtw!MinDtwMemSize..MaxDtwMemSize
      /\ Dtw!DtwOn => mem >= Dtw!RequiredDtwMemSize(params.preset)
  BY <1>3, <1>4, DtwTypes DEF Dtw!AtLeast
<1> HIDE DEF mem
<1>6. /\ context'.phase = "loaded" /\ context'.flash = params.flash
      /\ context'.dtw = Dtw!DtwOn /\ context'.mem = mem /\ context'.textCtx = textCtx
      /\ context'.preset = IF Dtw!DtwOn THEN params.preset ELSE "None"
  BY <1>1
<1>7. Dtw!TypeOK'
  <2>1. mem \in 0..UsizeMax
    BY <1>5, DtwTypes
  <2>2. (IF Dtw!DtwOn THEN params.preset ELSE "None") \in Dtw!Presets
    BY <1>2 DEF Dtw!Presets, Dtw!HeadCount
  <2> QED
    BY <1>1, <1>2, <2>1, <2>2 DEF DtwInv, Dtw!TypeOK
<1>8. needed' <= context'.mem
  <2>1. needed = 0
    BY DEF DtwInv, Dtw!Loads
  <2> QED
    BY <1>1, <1>5, <1>6, <2>1, DtwTypes
<1>9. Dtw!DtwOn' = Dtw!DtwOn
  BY <1>1 DEF Dtw!DtwOn
<1>10. context'.dtw => params.preset # "None"
  BY <1>6 DEF Dtw!DtwOn
<1> QED
  BY <1>1, <1>5, <1>6, <1>7, <1>8, <1>9, <1>10 DEF DtwInv

LEMMA DtwDecodes ==
  ASSUME DtwInv, NEW tokens \in Nat, NEW audio \in {1, Dtw!AudioTokens},
         audio = 1 => tokens = 1, Dtw!Decodes(tokens, audio)
  PROVE  DtwInv'
<1>1. /\ context.phase = "loaded" /\ context.dtw /\ tokens <= context.textCtx
      /\ needed' = 3 * Dtw!TensorBytes(tokens, audio, Dtw!HeadCount[context.preset])
      /\ UNCHANGED <<params, context>>
  BY DEF Dtw!Decodes
<1>2. /\ context.preset \in Dtw!Presets /\ context.textCtx \in Nat /\ context.mem \in Int
      /\ context.textCtx <= Dtw!SupportedDtwNTextCtx
      /\ context.mem >= Dtw!RequiredDtwMemSize(context.preset)
  <2>1. /\ context.preset \in Dtw!Presets /\ context.mem \in 0..UsizeMax
        /\ context.textCtx \in TextCtxs \cup {0}
    BY DEF DtwInv, Dtw!TypeOK
  <2>2. TextCtxs \cup {0} \subseteq Nat /\ 0..UsizeMax \subseteq Int
    BY DtwTypes
  <2>3. context.textCtx \in Nat /\ context.mem \in Int
    BY <2>1, <2>2
  <2> QED
    BY <1>1, <2>1, <2>3 DEF DtwInv
<1> DEFINE bytes == 3 * Dtw!TensorBytes(tokens, Dtw!AudioTokens, Dtw!HeadCount[context.preset])
<1>3. tokens <= Dtw!SupportedDtwNTextCtx
  BY <1>1, <1>2 DEF Dtw!SupportedDtwNTextCtx
<1>4. bytes \in Nat /\ bytes <= Dtw!RequiredDtwMemSize(context.preset)
  BY <1>2, <1>3, BudgetSuffices
<1>5. needed' \in Nat /\ needed' <= bytes
  <2>1. Dtw!HeadCount[context.preset] \in 0..23
    BY <1>2, HeadsAreFew
  <2>2. CASE audio = Dtw!AudioTokens
    BY <1>1, <1>4, <2>2
  <2>3. CASE audio = 1
    BY <1>1, <2>1, <2>3 DEF Dtw!TensorBytes, Dtw!AudioTokens
  <2> QED
    BY <2>2, <2>3
<1>6. needed' <= context'.mem
  <2>1. Dtw!RequiredDtwMemSize(context.preset) \in Int
    BY <1>2, HeadsAreFew, ClampBounds, DtwTypes
       DEF Dtw!RequiredDtwMemSize, Dtw!WithSafety, Dtw!TensorBytes, Dtw!SupportedDtwNTextCtx,
           Dtw!AudioTokens
  <2> QED
    BY <1>1, <1>2, <1>4, <1>5, <2>1
<1> QED
  BY <1>1, <1>5, <1>6 DEF DtwInv, Dtw!TypeOK, Dtw!DtwOn

LEMMA DtwKept == DtwInv /\ (Dtw!Next \/ UNCHANGED dtwVars) => DtwInv'
<1> SUFFICES ASSUME DtwInv, Dtw!Next \/ UNCHANGED dtwVars PROVE DtwInv'
  OBVIOUS
<1>1. CASE Dtw!ContextDrops
  <2>1. /\ context' = Dtw!NoContext /\ needed' = 0 /\ params' = params
    BY <1>1 DEF Dtw!ContextDrops
  <2>2. Dtw!TypeOK'
    BY <2>1, DtwTypes DEF DtwInv, Dtw!TypeOK, Dtw!NoContext, Dtw!Presets, Dtw!HeadCount
  <2> QED
    BY <2>1, <2>2 DEF DtwInv, Dtw!NoContext
<1>2. ASSUME NEW textCtx \in TextCtxs, Dtw!Decodes(textCtx, Dtw!AudioTokens) \/ Dtw!Decodes(1, 1)
      PROVE  DtwInv'
  BY <1>2, DtwDecodes, DtwTypes DEF Dtw!AudioTokens
<1>3. CASE UNCHANGED dtwVars
  BY <1>3 DEF dtwVars, DtwInv, Dtw!TypeOK, Dtw!DtwOn
<1> QED
  BY <1>1, <1>2, <1>3, DtwSetters, DtwLoads DEF Dtw!Next

-----------------------------------------------------------------------------
(***************************************************************************)
(* SystemInfo.  The mutex is held from the second look to the return; the  *)
(* cache is unset while its holder goes on to the native call, and no      *)
(* thread has an answer before it is set, but the holder that will set it. *)
(***************************************************************************)
Holding == {"re-check", "call", "building", "copy", "set"}
Built   == {"building", "copy", "set"}

SysInv ==
  /\ Sys!TypeOK
  /\ \A t \in Threads : at[t] \in Holding <=> initLock = t
  /\ \A t \in Threads : at[t] \in Holding \ {"re-check"} => cache = "unset"
  /\ \A t \in Threads : at[t] = "call" => builds = 0
  /\ builds # 0 => builds = 1 /\ (cache # "unset" \/ \E t \in Threads : at[t] \in Built)
  /\ \A t \in Threads : got[t] # "unset" => cache = got[t] \/ (cache = "unset" /\ at[t] = "set")
  /\ \A t \in Threads : at[t] = "set" => got[t] # "unset"

LEMMA SysInit == Sys!Init => SysInv
<1> SUFFICES ASSUME Sys!Init PROVE SysInv
  OBVIOUS
<1>1. Sys!TypeOK
  BY DEF Sys!Init, Sys!TypeOK, Sys!Labels, Sys!Results
<1>2. \A t \in Threads : t # NoThread
  BY NoThreadAssumption DEF Sys!NoThreadAssumption
<1> QED
  BY <1>1, <1>2 DEF Sys!Init, SysInv, Holding

\* What a step of t leaves of the other threads.
LEMMA SysGoes ==
  ASSUME SysInv, NEW t \in Threads, NEW from, NEW to, Sys!Goes(t, from, to)
  PROVE  at[t] = from /\ at'[t] = to /\ \A u \in Threads \ {t} : at'[u] = at[u]
  BY DEF SysInv, Sys!TypeOK, Sys!Goes

\* The holder of the mutex is alone.
LEMMA SysAlone ==
  ASSUME SysInv, NEW t \in Threads, at[t] \in Holding
  PROVE  initLock = t /\ \A u \in Threads \ {t} : at[u] \notin Holding
  BY DEF SysInv

LEMMA SysKept == SysInv /\ (Sys!Next \/ UNCHANGED sysVars) => SysInv'
<1>1. ASSUME SysInv, UNCHANGED sysVars PROVE SysInv'
  BY <1>1 DEF sysVars, SysInv, Sys!TypeOK
<1>2. ASSUME SysInv, NEW t \in Threads, Sys!Calls(t) \/ Sys!Continues(t) PROVE SysInv'
  <2>a. Sys!TypeOK /\ t # NoThread
    BY <1>2, NoThreadAssumption DEF SysInv, Sys!NoThreadAssumption
  <2>b. /\ at \in [Threads -> Sys!Labels] /\ got \in [Threads -> Sys!Results \cup {"unset"}]
        /\ builds \in Nat /\ cache \in Sys!Results \cup {"unset"}
        /\ raw \in [Threads -> {"NULL", "buffer"}]
    BY <2>a DEF Sys!TypeOK
  <2>1. CASE Sys!Hits(t)
    <3>1. cache # "unset" /\ got' = [got EXCEPT ![t] = cache]
          /\ UNCHANGED <<at, cache, initLock, builds, raw>>
      BY <2>1 DEF Sys!Hits, Sys!Answers
    <3>2. Sys!TypeOK'
      BY <2>a, <3>1 DEF Sys!TypeOK
    <3> QED
      BY <1>2, <2>b, <3>1, <3>2 DEF SysInv
  <2>2. CASE Sys!Misses(t)
    <3>1. Sys!Goes(t, "idle", "lock") /\ UNCHANGED <<cache, initLock, builds, raw, got>>
      BY <2>2 DEF Sys!Misses
    <3>2. at[t] = "idle" /\ at'[t] = "lock" /\ \A u \in Threads \ {t} : at'[u] = at[u]
      BY <1>2, <3>1, SysGoes
    <3>3. Sys!TypeOK'
      BY <2>a, <3>1 DEF Sys!TypeOK, Sys!Goes, Sys!Labels
    <3> QED
      BY <1>2, <3>1, <3>2, <3>3 DEF SysInv, Holding, Built
  <2>3. CASE Sys!Locks(t)
    <3>1. /\ Sys!Goes(t, "lock", "re-check") /\ initLock = NoThread /\ initLock' = t
          /\ UNCHANGED <<cache, builds, raw, got>>
      BY <2>3 DEF Sys!Locks
    <3>2. at[t] = "lock" /\ at'[t] = "re-check" /\ \A u \in Threads \ {t} : at'[u] = at[u]
      BY <1>2, <3>1, SysGoes
    <3>3. Sys!TypeOK'
      BY <2>a, <3>1 DEF Sys!TypeOK, Sys!Goes, Sys!Labels
    <3>4. \A u \in Threads : initLock # u
      BY <3>1, NoThreadAssumption DEF Sys!NoThreadAssumption
    <3> QED
      BY <1>2, <3>1, <3>2, <3>3, <3>4 DEF SysInv, Holding, Built
  <2>4. CASE Sys!FindsSet(t)
    <3>1. /\ Sys!Goes(t, "re-check", "idle") /\ cache # "unset" /\ initLock' = NoThread
          /\ got' = [got EXCEPT ![t] = cache]
          /\ UNCHANGED <<cache, builds, raw>>
      BY <2>4 DEF Sys!FindsSet, Sys!Answers
    <3>2. at[t] = "re-check" /\ at'[t] = "idle" /\ \A u \in Threads \ {t} : at'[u] = at[u]
      BY <1>2, <3>1, SysGoes
    <3>3. Sys!TypeOK'
      BY <2>a, <3>1 DEF Sys!TypeOK, Sys!Goes, Sys!Labels
    <3>4. \A u \in Threads \ {t} : at[u] \notin Holding
      BY <1>2, <3>2, SysAlone DEF Holding
    <3>5. \A u \in Threads : u # NoThread
      BY NoThreadAssumption DEF Sys!NoThreadAssumption
    <3> QED
      BY <1>2, <2>b, <3>1, <3>2, <3>3, <3>4, <3>5 DEF SysInv, Holding, Built
  <2>5. CASE Sys!FindsUnset(t)
    <3>1. /\ Sys!Goes(t, "re-check", "call") /\ cache = "unset"
          /\ UNCHANGED <<cache, initLock, builds, raw, got>>
      BY <2>5 DEF Sys!FindsUnset
    <3>2. at[t] = "re-check" /\ at'[t] = "call" /\ \A u \in Threads \ {t} : at'[u] = at[u]
      BY <1>2, <3>1, SysGoes
    <3>3. Sys!TypeOK'
      BY <2>a, <3>1 DEF Sys!TypeOK, Sys!Goes, Sys!Labels
    <3>4. \A u \in Threads \ {t} : at[u] \notin Holding
      BY <1>2, <3>2, SysAlone DEF Holding
    <3>5. builds = 0
      BY <1>2, <3>1, <3>2, <3>4 DEF SysInv, Holding, Built
    <3> QED
      BY <1>2, <3>1, <3>2, <3>3, <3>4, <3>5 DEF SysInv, Holding, Built
  <2>6. CASE Sys!Builds(t)
    <3>1. /\ Sys!Goes(t, "call", "building") /\ builds' = builds + 1
          /\ UNCHANGED <<cache, initLock, raw, got>>
      BY <2>6 DEF Sys!Builds
    <3>2. at[t] = "call" /\ at'[t] = "building" /\ \A u \in Threads \ {t} : at'[u] = at[u]
      BY <1>2, <3>1, SysGoes
    <3>3. Sys!TypeOK'
      BY <2>a, <3>1 DEF Sys!TypeOK, Sys!Goes, Sys!Labels
    <3>4. \A u \in Threads \ {t} : at[u] \notin Holding
      BY <1>2, <3>2, SysAlone DEF Holding
    <3>5. builds' = 1
      BY <1>2, <3>1, <3>2 DEF SysInv
    <3> QED
      BY <1>2, <3>1, <3>2, <3>3, <3>4, <3>5 DEF SysInv, Holding, Built
  <2>7. CASE Sys!ShimReturns(t)
    <3>1. /\ Sys!Goes(t, "building", "copy") /\ UNCHANGED <<cache, initLock, builds, got>>
          /\ raw' \in [Threads -> {"NULL", "buffer"}]
      BY <2>b, <2>7 DEF Sys!ShimReturns
    <3>2. at[t] = "building" /\ at'[t] = "copy" /\ \A u \in Threads \ {t} : at'[u] = at[u]
      BY <1>2, <3>1, SysGoes
    <3>3. Sys!TypeOK'
      BY <2>a, <3>1 DEF Sys!TypeOK, Sys!Goes, Sys!Labels
    <3> QED
      BY <1>2, <3>1, <3>2, <3>3 DEF SysInv, Holding, Built
  <2>8. CASE Sys!Copies(t)
    <3>1. PICK found \in Sys!Results : Sys!Answers(t, found)
      BY <2>8 DEF Sys!Copies
    <3>2. /\ Sys!Goes(t, "copy", "set") /\ got' = [got EXCEPT ![t] = found]
          /\ UNCHANGED <<cache, initLock, builds, raw>>
      BY <2>8, <3>1 DEF Sys!Copies, Sys!Answers
    <3>3. at[t] = "copy" /\ at'[t] = "set" /\ \A u \in Threads \ {t} : at'[u] = at[u]
      BY <1>2, <3>2, SysGoes
    <3>4. Sys!TypeOK'
      BY <2>a, <3>2 DEF Sys!TypeOK, Sys!Goes, Sys!Labels
    <3>5. found # "unset"
      BY DEF Sys!Results
    <3> QED
      BY <1>2, <2>b, <3>2, <3>3, <3>4, <3>5 DEF SysInv, Holding, Built
  <2>9. CASE Sys!Sets(t)
    <3>1. /\ Sys!Goes(t, "set", "idle") /\ initLock' = NoThread
          /\ cache' = IF cache = "unset" THEN got[t] ELSE cache
          /\ UNCHANGED <<builds, raw, got>>
      BY <2>9 DEF Sys!Sets
    <3>2. at[t] = "set" /\ at'[t] = "idle" /\ \A u \in Threads \ {t} : at'[u] = at[u]
      BY <1>2, <3>1, SysGoes
    <3>3. cache = "unset" /\ cache' = got[t] /\ got[t] # "unset"
      BY <1>2, <3>1, <3>2 DEF SysInv, Holding
    <3>4. Sys!TypeOK'
      BY <2>a, <2>b, <3>1, <3>3 DEF Sys!TypeOK, Sys!Goes, Sys!Labels
    <3>5. \A u \in Threads \ {t} : at[u] \notin Holding
      BY <1>2, <3>2, SysAlone DEF Holding
    <3>6. \A u \in Threads : u # NoThread
      BY NoThreadAssumption DEF Sys!NoThreadAssumption
    <3>7. \A u \in Threads : got[u] # "unset" => u = t
      BY <1>2, <3>3, <3>5 DEF SysInv, Holding
    <3> QED
      BY <1>2, <3>1, <3>2, <3>3, <3>4, <3>5, <3>6, <3>7 DEF SysInv, Holding, Built
  <2> QED
    BY <1>2, <2>1, <2>2, <2>3, <2>4, <2>5, <2>6, <2>7, <2>8, <2>9
       DEF Sys!Calls, Sys!Continues
<1> QED
  BY <1>1, <1>2 DEF Sys!Next

-----------------------------------------------------------------------------
(***************************************************************************)
(* SegmentViews.  An iterator is made with the count of what is under it,  *)
(* and both its ends stay inside: the result cannot change under it, since *)
(* it borrows the State.                                                   *)
(***************************************************************************)
\* What an open iterator i goes through: items 0 to UnderEnd(i) - 1.
UnderEnd(i) == IF i \in SegmentIterators THEN Views!NSegments ELSE Views!NTokens(iter[i].of)

OpenInv(i) ==
  /\ iter[i].next \in Nat /\ iter[i].end \in Nat
  /\ iter[i].next <= iter[i].end /\ iter[i].end <= UnderEnd(i)
  /\ i \in TokenIterators => live /\ iter[i].of \in 0..Len(result) - 1

SaidInv(i) ==
  \/ said[i] = NoItem
  \/ \E k \in 0..UnderEnd(i) - 1 :
       said[i] = IF i \in SegmentIterators THEN <<k>> ELSE <<iter[i].of, k>>

ViewsInv ==
  /\ result \in Views!Results /\ live \in BOOLEAN
  /\ iter \in [Views!Iterators ->
                 [open : BOOLEAN, of : Views!Indices, next : Views!Indices, end : Views!Indices]]
  /\ said = [i \in Views!Iterators |-> said[i]]
  /\ \A s \in views : live /\ s \in 0..Len(result) - 1
  /\ \A i \in Views!Iterators :
       /\ iter[i].open => OpenInv(i) /\ SaidInv(i)
       /\ ~iter[i].open => said[i] = NoItem

\* The sizes of a result.
LEMMA ResultSizes ==
  ASSUME ViewsInv
  PROVE  /\ Len(result) \in Nat /\ Len(result) <= MaxSegments
         /\ result \in Seq(0..MaxTokens)
         /\ \A s \in 0..Len(result) - 1 : Views!NTokens(s) \in 0..MaxTokens
         /\ Views!NSegments \in 0..MaxSegments
         /\ MaxSegments \in Nat /\ MaxTokens \in Nat
<1>1. MaxSegments \in Nat /\ MaxTokens \in Nat
  BY IteratorsAssumption DEF Views!BoundsAssumption
<1>2. PICK n \in 0..MaxSegments : result \in [1..n -> 0..MaxTokens]
  BY DEF ViewsInv, Views!Results
<1>3. Len(result) = n /\ result \in Seq(0..MaxTokens)
  BY <1>1, <1>2
<1>4. \A s \in 0..Len(result) - 1 : Views!NTokens(s) \in 0..MaxTokens
  BY <1>1, <1>2, <1>3 DEF Views!NTokens
<1>5. Views!NSegments \in 0..MaxSegments
  BY <1>1, <1>3 DEF Views!NSegments
<1> QED
  BY <1>1, <1>2, <1>3, <1>4, <1>5

\* The numbers of an open iterator.
LEMMA OpenSizes ==
  ASSUME ViewsInv, NEW i \in Views!Iterators, iter[i].open
  PROVE  /\ iter[i].next \in Nat /\ iter[i].end \in Nat /\ iter[i].next <= iter[i].end
         /\ iter[i].end <= UnderEnd(i) /\ UnderEnd(i) \in Nat
         /\ UnderEnd(i) <= MaxSegments + MaxTokens
         /\ iter[i] = [open |-> TRUE, of |-> iter[i].of, next |-> iter[i].next,
                       end |-> iter[i].end]
         /\ iter[i].of \in Views!Indices
<1>1. OpenInv(i)
  BY DEF ViewsInv
<1>2. UnderEnd(i) \in Nat /\ UnderEnd(i) <= MaxSegments + MaxTokens
  <2>1. CASE i \in SegmentIterators
    BY <2>1, ResultSizes DEF UnderEnd
  <2>2. CASE i \notin SegmentIterators
    <3>1. iter[i].of \in 0..Len(result) - 1
      BY <1>1, <2>2 DEF OpenInv, Views!Iterators
    <3> QED
      BY <2>2, <3>1, ResultSizes DEF UnderEnd
  <2> QED
    BY <2>1, <2>2
<1>3. iter[i] \in [open : BOOLEAN, of : Views!Indices, next : Views!Indices, end : Views!Indices]
  BY DEF ViewsInv
<1> QED
  BY <1>1, <1>2, <1>3 DEF OpenInv

\* Only what is open, or given out, borrows.
LEMMA UnborrowedIsClosed ==
  ASSUME ViewsInv, Views!Unborrowed
  PROVE  views = {} /\ \A i \in Views!Iterators : ~iter[i].open /\ said[i] = NoItem
  BY DEF ViewsInv, Views!Unborrowed

LEMMA ViewsInit == Views!Init => ViewsInv
<1> SUFFICES ASSUME Views!Init PROVE ViewsInv
  OBVIOUS
<1>1. MaxSegments \in Nat /\ MaxTokens \in Nat
  BY IteratorsAssumption DEF Views!BoundsAssumption
<1>2. result \in Views!Results
  <2>1. << >> \in [1..0 -> 0..MaxTokens] /\ 0 \in 0..MaxSegments
    BY <1>1
  <2> QED
    BY <2>1 DEF Views!Init, Views!Results
<1>3. 0 \in Views!Indices
  BY <1>1 DEF Views!Indices
<1>4. Views!Closed \in
        [open : BOOLEAN, of : Views!Indices, next : Views!Indices, end : Views!Indices]
  BY <1>3 DEF Views!Closed
<1>5. \A i \in Views!Iterators : ~iter[i].open /\ said[i] = NoItem
  BY DEF Views!Init, Views!Closed
<1> QED
  BY <1>2, <1>4, <1>5 DEF Views!Init, ViewsInv

\* An iterator no step touches keeps its part of the invariant.
Untouched(i) == iter'[i] = iter[i] /\ said'[i] = said[i]

LEMMA UntouchedKeeps ==
  ASSUME ViewsInv, NEW i \in Views!Iterators, Untouched(i), UNCHANGED <<result, live>>
  PROVE  /\ iter'[i].open => OpenInv(i)' /\ SaidInv(i)'
         /\ ~iter'[i].open => said'[i] = NoItem
<1>1. /\ iter[i].open => OpenInv(i) /\ SaidInv(i)
      /\ ~iter[i].open => said[i] = NoItem
  BY DEF ViewsInv
<1>2. UnderEnd(i)' = UnderEnd(i)
  BY DEF UnderEnd, Views!NSegments, Views!NTokens, Untouched
<1>3. (OpenInv(i) => OpenInv(i)') /\ (SaidInv(i) => SaidInv(i)')
  BY <1>2 DEF OpenInv, SaidInv, Untouched
<1> QED
  BY <1>1, <1>3 DEF Untouched

\* A step that moves one iterator keeps the invariant if that one is right.
LEMMA OneMoves ==
  ASSUME ViewsInv, NEW i \in Views!Iterators, NEW to, NEW answer_,
         iter' = [iter EXCEPT ![i] = to], said' = [said EXCEPT ![i] = answer_],
         to \in [open : BOOLEAN, of : Views!Indices, next : Views!Indices, end : Views!Indices],
         UNCHANGED <<result, live>>,
         \A s \in views' : s \in views \/ (live /\ s \in 0..Len(result) - 1),
         to.open => OpenInv(i)' /\ SaidInv(i)',
         ~to.open => answer_ = NoItem
  PROVE  ViewsInv'
<1>1. /\ iter \in [Views!Iterators ->
                     [open : BOOLEAN, of : Views!Indices, next : Views!Indices, end : Views!Indices]]
      /\ said = [j \in Views!Iterators |-> said[j]]
  BY DEF ViewsInv
<1>2. iter'[i] = to /\ said'[i] = answer_
  BY <1>1
<1>3. \A j \in Views!Iterators \ {i} : Untouched(j)
  BY <1>1 DEF Untouched
<1>4. /\ iter' \in [Views!Iterators ->
                     [open : BOOLEAN, of : Views!Indices, next : Views!Indices, end : Views!Indices]]
      /\ said' = [j \in Views!Iterators |-> said'[j]]
  BY <1>1
<1>5. \A j \in Views!Iterators :
        /\ iter'[j].open => OpenInv(j)' /\ SaidInv(j)'
        /\ ~iter'[j].open => said'[j] = NoItem
  BY <1>2, <1>3, UntouchedKeeps
<1> QED
  BY <1>4, <1>5 DEF ViewsInv

\* What both ends of an iterator do: they take item k and leave the others.
LEMMA TakesItem ==
  ASSUME ViewsInv, NEW i \in Views!Iterators, iter[i].open, iter[i].next < iter[i].end,
         NEW to, NEW k,
         \/ to = [iter[i] EXCEPT !.next = iter[i].next + 1] /\ k = iter[i].next
         \/ to = [iter[i] EXCEPT !.end = iter[i].end - 1] /\ k = to.end,
         iter' = [iter EXCEPT ![i] = to],
         Views!Gives(i, k), UNCHANGED <<result, live>>
  PROVE  ViewsInv'
<1>1. /\ iter[i].next \in Nat /\ iter[i].end \in Nat /\ iter[i].end <= UnderEnd(i)
      /\ UnderEnd(i) \in Nat /\ UnderEnd(i) <= MaxSegments + MaxTokens
      /\ iter[i].of \in Views!Indices /\ OpenInv(i)
  BY OpenSizes DEF ViewsInv
<1>2. MaxSegments \in Nat /\ MaxTokens \in Nat
  BY ResultSizes
<1>3. /\ to.open /\ to.of = iter[i].of
      /\ to.next \in Nat /\ to.end \in Nat /\ to.next <= to.end /\ to.end <= UnderEnd(i)
      /\ k \in 0..UnderEnd(i) - 1
  <2>1. iter[i] \in [open : BOOLEAN, of : Views!Indices, next : Views!Indices, end : Views!Indices]
    BY DEF ViewsInv
  <2>2. \/ to.next = iter[i].next + 1 /\ to.end = iter[i].end /\ k = iter[i].next
        \/ to.next = iter[i].next /\ to.end = iter[i].end - 1 /\ k = to.end
    BY <2>1
  <2>3. to.open = iter[i].open /\ to.of = iter[i].of
    BY <2>1
  <2> QED
    BY <1>1, <2>2, <2>3
<1>4. to \in [open : BOOLEAN, of : Views!Indices, next : Views!Indices, end : Views!Indices]
  <2>1. iter[i] \in [open : BOOLEAN, of : Views!Indices, next : Views!Indices, end : Views!Indices]
    BY DEF ViewsInv
  <2>2. to.next \in Views!Indices /\ to.end \in Views!Indices
    BY <1>1, <1>2, <1>3 DEF Views!Indices
  <2>3. CASE to = [iter[i] EXCEPT !.next = iter[i].next + 1]
    <3>1. iter[i].next + 1 \in Views!Indices
      BY <2>1, <2>2, <2>3
    <3> QED
      BY <2>1, <2>3, <3>1
  <2>4. CASE to = [iter[i] EXCEPT !.end = iter[i].end - 1]
    <3>1. iter[i].end - 1 \in Views!Indices
      BY <2>1, <2>2, <2>4
    <3> QED
      BY <2>1, <2>4, <3>1
  <2> QED
    BY <2>3, <2>4
<1>5. iter'[i] = to
  BY DEF ViewsInv
<1>6. UnderEnd(i)' = UnderEnd(i)
  BY <1>3, <1>5 DEF UnderEnd, Views!NSegments, Views!NTokens
<1> DEFINE item == IF i \in SegmentIterators THEN <<k>> ELSE <<iter[i].of, k>>
<1>7. said' = [said EXCEPT ![i] = item]
      /\ views' = IF i \in SegmentIterators THEN views \cup {k} ELSE views
  BY DEF Views!Gives
<1> HIDE DEF item
<1>8. said'[i] = item
  BY <1>7 DEF ViewsInv
<1>9. OpenInv(i)' /\ SaidInv(i)'
  <2>1. OpenInv(i)'
    BY <1>1, <1>3, <1>5, <1>6 DEF OpenInv
  <2>2. SaidInv(i)'
    BY <1>3, <1>5, <1>6, <1>8 DEF SaidInv, item
  <2> QED
    BY <2>1, <2>2
<1>10. \A s \in views' : s \in views \/ (live /\ s \in 0..Len(result) - 1)
  <2>1. i \in SegmentIterators => live /\ k \in 0..Len(result) - 1
    BY <1>3 DEF UnderEnd, Views!NSegments
  <2> QED
    BY <1>7, <2>1
<1> QED
  BY <1>4, <1>7, <1>9, <1>10, OneMoves

LEMMA ViewsIterate ==
  ASSUME ViewsInv, NEW i \in Views!Iterators,
         \/ Views!SegmentsIter(i) \/ Views!NextFront(i) \/ Views!NextBack(i)
         \/ Views!Exhausted(i) \/ Views!IteratorDrops(i)
         \/ \E s \in views : Views!TokensIter(i, s)
  PROVE  ViewsInv'
<1>1. /\ iter \in [Views!Iterators ->
                     [open : BOOLEAN, of : Views!Indices, next : Views!Indices, end : Views!Indices]]
      /\ said = [j \in Views!Iterators |-> said[j]]
      /\ MaxSegments \in Nat /\ MaxTokens \in Nat
  BY ResultSizes DEF ViewsInv
<1>2. \A s \in views : live /\ s \in 0..Len(result) - 1
  BY DEF ViewsInv
<1>3. CASE Views!SegmentsIter(i)
  <2> DEFINE to == [open |-> TRUE, of |-> 0, next |-> 0, end |-> Views!NSegments]
  <2>1. /\ i \in SegmentIterators /\ ~iter[i].open
        /\ iter' = [iter EXCEPT ![i] = to] /\ UNCHANGED <<result, live, views, said>>
    BY <1>3 DEF Views!SegmentsIter
  <2>2. said[i] = NoItem /\ said' = [said EXCEPT ![i] = NoItem]
    BY <1>1, <2>1 DEF ViewsInv
  <2>3. Views!NSegments \in Nat /\ Views!NSegments <= MaxSegments
    BY ResultSizes
  <2>4. to \in [open : BOOLEAN, of : Views!Indices, next : Views!Indices, end : Views!Indices]
    BY <1>1, <2>3 DEF Views!Indices
  <2>5. iter'[i] = to /\ said'[i] = NoItem
    BY <1>1, <2>1, <2>2
  <2>6. i \notin TokenIterators
    BY <2>1, IteratorsAssumption DEF Views!IteratorsAssumption
  <2>7. UnderEnd(i)' = Views!NSegments
    BY <2>1 DEF UnderEnd, Views!NSegments
  <2>8. OpenInv(i)' /\ SaidInv(i)'
    BY <2>3, <2>5, <2>6, <2>7 DEF OpenInv, SaidInv
  <2> QED
    BY <1>2, <2>1, <2>2, <2>4, <2>8, OneMoves
<1>4. ASSUME NEW s \in views, Views!TokensIter(i, s) PROVE ViewsInv'
  <2> DEFINE to == [open |-> TRUE, of |-> s, next |-> 0, end |-> Views!NTokens(s)]
  <2>1. /\ i \in TokenIterators /\ ~iter[i].open
        /\ iter' = [iter EXCEPT ![i] = to] /\ UNCHANGED <<result, live, views, said>>
    BY <1>4 DEF Views!TokensIter
  <2>2. said[i] = NoItem /\ said' = [said EXCEPT ![i] = NoItem]
    BY <1>1, <2>1 DEF ViewsInv
  <2>3. /\ live /\ s \in 0..Len(result) - 1 /\ s \in 0..MaxSegments
        /\ Views!NTokens(s) \in Nat /\ Views!NTokens(s) <= MaxTokens
    BY <1>1, <1>2, ResultSizes
  <2>4. to \in [open : BOOLEAN, of : Views!Indices, next : Views!Indices, end : Views!Indices]
    BY <1>1, <2>3 DEF Views!Indices
  <2>5. iter'[i] = to /\ said'[i] = NoItem
    BY <1>1, <2>1, <2>2
  <2>6. i \notin SegmentIterators
    BY <2>1, IteratorsAssumption DEF Views!IteratorsAssumption
  <2>7. UnderEnd(i)' = Views!NTokens(s)
    BY <2>1, <2>5, <2>6 DEF UnderEnd, Views!NTokens
  <2>8. OpenInv(i)' /\ SaidInv(i)'
    BY <2>1, <2>3, <2>5, <2>7 DEF OpenInv, SaidInv
  <2> QED
    BY <1>2, <2>1, <2>2, <2>4, <2>8, OneMoves
<1>5. CASE Views!NextFront(i)
  <2>1. iter' = [iter EXCEPT ![i] = [iter[i] EXCEPT !.next = iter[i].next + 1]]
    BY <1>1, <1>5 DEF Views!NextFront
  <2> QED
    BY <1>5, <2>1, TakesItem DEF Views!NextFront
<1>6. CASE Views!NextBack(i)
  <2>1. iter' = [iter EXCEPT ![i] = [iter[i] EXCEPT !.end = iter[i].end - 1]]
    BY <1>1, <1>6 DEF Views!NextBack
  <2>2. iter'[i] = [iter[i] EXCEPT !.end = iter[i].end - 1]
    BY <1>1, <2>1
  <2> QED
    BY <1>6, <2>1, <2>2, TakesItem DEF Views!NextBack
<1>7. CASE Views!Exhausted(i)
  <2>1. iter[i].open /\ said' = [said EXCEPT ![i] = NoItem] /\ UNCHANGED <<result, live, views, iter>>
    BY <1>7 DEF Views!Exhausted
  <2>2. iter' = [iter EXCEPT ![i] = iter[i]] /\ said'[i] = NoItem
    BY <1>1, <2>1
  <2>3. OpenInv(i)' /\ SaidInv(i)'
    <3>1. OpenInv(i) /\ UnderEnd(i)' = UnderEnd(i)
      BY <2>1 DEF ViewsInv, UnderEnd, Views!NSegments, Views!NTokens
    <3> QED
      BY <2>1, <2>2, <3>1 DEF OpenInv, SaidInv
  <2> QED
    BY <1>1, <1>2, <2>1, <2>2, <2>3, OneMoves
<1>8. CASE Views!IteratorDrops(i)
  <2>1. /\ iter' = [iter EXCEPT ![i] = Views!Closed] /\ said' = [said EXCEPT ![i] = NoItem]
        /\ UNCHANGED <<result, live, views>>
    BY <1>8 DEF Views!IteratorDrops
  <2>2. /\ ~Views!Closed.open
        /\ Views!Closed \in
             [open : BOOLEAN, of : Views!Indices, next : Views!Indices, end : Views!Indices]
    BY <1>1 DEF Views!Closed, Views!Indices
  <2> QED
    BY <1>2, <2>1, <2>2, OneMoves
<1> QED
  BY <1>3, <1>4, <1>5, <1>6, <1>7, <1>8

LEMMA ViewsKept == ViewsInv /\ (Views!Next \/ UNCHANGED viewsVars) => ViewsInv'
<1> SUFFICES ASSUME ViewsInv, Views!Next \/ UNCHANGED viewsVars PROVE ViewsInv'
  OBVIOUS
<1>1. ASSUME \A i \in Views!Iterators : Untouched(i), UNCHANGED <<result, live, iter, said>>,
             \A s \in views' : live /\ s \in 0..Len(result) - 1
      PROVE  ViewsInv'
  BY <1>1, UntouchedKeeps DEF ViewsInv
<1>2. CASE Views!Infers \/ Views!Loses
  <2>1. /\ views = {} /\ \A i \in Views!Iterators : ~iter[i].open /\ said[i] = NoItem
        /\ UNCHANGED <<views, iter, said>>
    BY <1>2, UnborrowedIsClosed DEF Views!Infers, Views!Loses
  <2>2. result' \in Views!Results /\ live' \in BOOLEAN
    BY <1>2 DEF ViewsInv, Views!Infers, Views!Loses
  <2> QED
    BY <2>1, <2>2 DEF ViewsInv
<1>3. ASSUME NEW s \in -1..MaxSegments, Views!Segment(s) \/ Views!ViewDrops(s) PROVE ViewsInv'
  <2>1. UNCHANGED <<result, live, iter, said>>
    BY <1>3 DEF Views!Segment, Views!ViewDrops
  <2>2. \A q \in views' : live /\ q \in 0..Len(result) - 1
    BY <1>3, ResultSizes DEF ViewsInv, Views!Segment, Views!ViewDrops, Views!NSegments
  <2> QED
    BY <1>1, <2>1, <2>2 DEF Untouched
<1>4. CASE UNCHANGED viewsVars
  BY <1>1, <1>4 DEF viewsVars, Untouched, ViewsInv
<1> QED
  BY <1>2, <1>3, <1>4, ViewsIterate DEF Views!Next

-----------------------------------------------------------------------------
(***************************************************************************)
(* The four together.                                                      *)
(***************************************************************************)
AnswersInv == TextInv /\ DtwInv /\ SysInv /\ ViewsInv

LEMMA AnswersKept == AnswersInv /\ [Next]_vars => AnswersInv'
  BY TextKept, DtwKept, SysKept, ViewsKept
  DEF Next, TextStep, DtwStep, SysStep, ViewsStep, vars, AnswersInv

\* Every component keeps its invariant, for every value of the constants.
THEOREM AnswersInvariant == Spec => []AnswersInv
<1>1. Init => AnswersInv
  BY TextInit, DtwInit, SysInit, ViewsInit DEF Init, AnswersInv
<1> QED
  BY <1>1, AnswersKept, PTL DEF Spec

\* tokenize answers with all the tokens of a text, or with None for a reason:
\* for every width of a C int, first capacity and length of the text.
THEOREM TokensAreComplete == Spec => []CompleteOrNone
<1>1. AnswersInv => CompleteOrNone
  BY DEF AnswersInv, TextInv, CompleteOrNone
<1> QED
  BY <1>1, AnswersInvariant, PTL

\* No decode needs more than the arena, and no size overflows a usize, whatever
\* sizes the program wishes and whatever models it loads.
THEOREM EveryDecodeFits == Spec => []DecodesFit
<1>1. AnswersInv => DecodesFit
  <2> SUFFICES ASSUME DtwInv PROVE Dtw!DecodesFit
    BY DEF AnswersInv, DecodesFit
  <2>1. context.mem <= UsizeMax - ObjectSize
    <3>1. CASE context.phase = "none"
      BY <3>1, DtwTypes DEF DtwInv
    <3>2. CASE context.phase = "loaded"
      BY <3>2, DtwTypes DEF DtwInv
    <3> QED
      BY <3>1, <3>2 DEF DtwInv, Dtw!TypeOK
  <2>2. ASSUME NEW preset \in Dtw!Presets
        PROVE  Dtw!TensorBytes(Dtw!SupportedDtwNTextCtx, Dtw!AudioTokens, Dtw!HeadCount[preset]) * 9
                 <= UsizeMax
    <3>1. Dtw!HeadCount[preset] \in 0..23
      BY HeadsAreFew
    <3>2. Dtw!TensorBytes(Dtw!SupportedDtwNTextCtx, Dtw!AudioTokens, Dtw!HeadCount[preset]) * 9
            <= 1024 * (1024 * 1024)
      BY <3>1 DEF Dtw!TensorBytes, Dtw!SupportedDtwNTextCtx, Dtw!AudioTokens
    <3>3. 1024 * (1024 * 1024) <= UsizeMax
      BY SizesAssumption DEF Dtw!SizesAssumption, Dtw!MiB
    <3>4. Dtw!TensorBytes(Dtw!SupportedDtwNTextCtx, Dtw!AudioTokens, Dtw!HeadCount[preset]) * 9 \in Nat
      BY <3>1 DEF Dtw!TensorBytes, Dtw!SupportedDtwNTextCtx, Dtw!AudioTokens
    <3> QED
      BY <3>2, <3>3, <3>4, DtwTypes
  <2> QED
    BY <2>1, <2>2 DEF DtwInv, Dtw!DecodesFit
<1> QED
  BY <1>1, AnswersInvariant, PTL

\* A loaded model computes DTW exactly if it was asked for properly.
THEOREM DtwFollowsParams == Spec => []DtwAsAsked
<1>1. AnswersInv => DtwAsAsked
  BY DEF AnswersInv, DtwInv, DtwAsAsked, Dtw!DtwAsAsked, Dtw!DtwOn
<1> QED
  BY <1>1, AnswersInvariant, PTL

\* The native function is entered once, and its answer is everyone's, however
\* many threads ask together.
THEOREM OneAnswerForAll == Spec => []OneAnswerPerProcess
<1>1. AnswersInv => OneAnswerPerProcess
  <2> SUFFICES ASSUME SysInv PROVE Sys!OneAnswerPerProcess
    BY DEF AnswersInv, OneAnswerPerProcess
  <2>1. builds <= 1
    BY DEF SysInv
  <2>2. ASSUME NEW t \in Threads, NEW u \in Threads, got[t] # "unset", got[u] # "unset"
        PROVE  got[t] = got[u]
    <3>1. CASE cache # "unset"
      BY <2>2, <3>1 DEF SysInv
    <3>2. CASE cache = "unset"
      <4>1. at[t] = "set" /\ at[u] = "set"
        BY <2>2, <3>2 DEF SysInv
      <4>2. t = u
        BY <4>1 DEF SysInv, Holding
      <4> QED
        BY <4>2
    <3> QED
      BY <3>1, <3>2
  <2> QED
    BY <2>1, <2>2 DEF Sys!OneAnswerPerProcess
<1> QED
  BY <1>1, AnswersInvariant, PTL

\* What the program holds an index of is in the result, for results of any size
\* and any number of iterators over them.
THEOREM IndicesStayInRange == Spec => []IndicesInRange
<1>1. AnswersInv => IndicesInRange
  <2> SUFFICES ASSUME ViewsInv PROVE Views!IndicesInRange
    BY DEF AnswersInv, IndicesInRange
  <2>1. \A s \in views : live /\ s \in 0..Len(result) - 1
    BY DEF ViewsInv
  <2>2. ASSUME NEW i \in Views!Iterators, said[i] # NoItem
        PROVE  /\ live /\ said[i][1] \in 0..Len(result) - 1
               /\ i \in TokenIterators => said[i][2] \in 0..Views!NTokens(said[i][1]) - 1
    <3>1. iter[i].open /\ OpenInv(i) /\ SaidInv(i)
      BY <2>2 DEF ViewsInv
    <3>2. PICK k \in 0..UnderEnd(i) - 1 :
            said[i] = IF i \in SegmentIterators THEN <<k>> ELSE <<iter[i].of, k>>
      BY <2>2, <3>1 DEF SaidInv
    <3>3. CASE i \in SegmentIterators
      <4>1. live /\ k \in 0..Len(result) - 1
        BY <3>2, <3>3 DEF UnderEnd, Views!NSegments
      <4>2. i \notin TokenIterators
        BY <3>3, IteratorsAssumption DEF Views!IteratorsAssumption
      <4> QED
        BY <3>2, <3>3, <4>1, <4>2
    <3>4. CASE i \notin SegmentIterators
      <4>1. live /\ iter[i].of \in 0..Len(result) - 1
        BY <3>1, <3>4 DEF OpenInv, Views!Iterators
      <4> QED
        BY <3>2, <3>4, <4>1 DEF UnderEnd
    <3> QED
      BY <3>3, <3>4
  <2> QED
    BY <2>1, <2>2 DEF Views!IndicesInRange
<1> QED
  BY <1>1, AnswersInvariant, PTL

-----------------------------------------------------------------------------
(***************************************************************************)
(* Every step of the program is, for every iterator, a step of Deque or    *)
(* changes nothing Deque speaks about.                                     *)
(***************************************************************************)
\* A sequence is its first item and the others,
LEMMA TakesFirst ==
  ASSUME NEW S, NEW n \in Nat \ {0}, NEW f \in [1..n -> S]
  PROVE  f = <<f[1]>> \o [k \in 1..(n - 1) |-> f[k + 1]]
<1> DEFINE g == [k \in 1..(n - 1) |-> f[k + 1]]
<1>1. f \in Seq(S) /\ Len(f) = n
  OBVIOUS
<1>2. g \in Seq(S) /\ Len(g) = n - 1
  <2>1. g \in [1..(n - 1) -> S] /\ n - 1 \in Nat
    OBVIOUS
  <2> QED
    BY <2>1
<1>3. <<f[1]>> \in Seq(S) /\ Len(<<f[1]>>) = 1 /\ <<f[1]>>[1] = f[1]
  OBVIOUS
<1>4. \A k \in 2..n : g[k - 1] = f[k]
  OBVIOUS
<1> HIDE DEF g
<1>5. /\ <<f[1]>> \o g \in Seq(S) /\ Len(<<f[1]>> \o g) = n
      /\ \A k \in 1..n : (<<f[1]>> \o g)[k] = IF k <= 1 THEN f[1] ELSE g[k - 1]
  BY <1>2, <1>3, ConcatProperties
<1>6. \A k \in 1..n : f[k] = (<<f[1]>> \o g)[k]
  BY <1>4, <1>5
<1>7. f = <<f[1]>> \o g
  BY <1>1, <1>5, <1>6, SeqEqual
<1> QED
  BY <1>7 DEF g

\* and its last one after the others.
LEMMA TakesLast ==
  ASSUME NEW S, NEW n \in Nat \ {0}, NEW f \in [1..n -> S]
  PROVE  f = Append([k \in 1..(n - 1) |-> f[k]], f[n])
<1> DEFINE g == [k \in 1..(n - 1) |-> f[k]]
<1>1. f \in Seq(S) /\ Len(f) = n /\ f[n] \in S
  OBVIOUS
<1>2. g \in Seq(S) /\ Len(g) = n - 1
  <2>1. g \in [1..(n - 1) -> S] /\ n - 1 \in Nat
    OBVIOUS
  <2> QED
    BY <2>1
<1>3. \A k \in 1..(n - 1) : g[k] = f[k]
  OBVIOUS
<1> HIDE DEF g
<1>4. /\ Append(g, f[n]) \in Seq(S) /\ Len(Append(g, f[n])) = n
      /\ \A k \in 1..n : Append(g, f[n])[k] = IF k = n THEN f[n] ELSE g[k]
  BY <1>1, <1>2, AppendProperties
<1>5. f = Append(g, f[n])
  BY <1>1, <1>3, <1>4, SeqEqual
<1> QED
  BY <1>5 DEF g

\* Deque's view of iterator i, and its actions.
Source(i) == IF iter[i].open THEN Views!Under(i) ELSE <<>>
Left(i)   == IF iter[i].open THEN Views!LeftOf(i) ELSE <<>>
Item(i, of, k) == IF i \in SegmentIterators THEN <<k>> ELSE <<of, k>>

Rests(i)  == UNCHANGED <<iter[i].open, Source(i), Left(i), said[i]>>
Opens(i)  == /\ ~iter[i].open /\ iter'[i].open
             /\ Source(i)' \in Seq(Views!Answers) /\ Left(i)' = Source(i)' /\ said'[i] = NoItem
Takes(i)  == /\ iter[i].open /\ Left(i) # <<>>
             /\ Left(i) = <<said'[i]>> \o Left(i)' \/ Left(i) = Append(Left(i)', said'[i])
             /\ iter'[i].open /\ Source(i)' = Source(i)
Ends(i)   == /\ iter[i].open /\ Left(i) = <<>> /\ said'[i] = NoItem
             /\ iter'[i].open /\ Source(i)' = Source(i) /\ Left(i)' = Left(i)
Closes(i) == /\ iter[i].open /\ ~iter'[i].open
             /\ Source(i)' = <<>> /\ Left(i)' = <<>> /\ said'[i] = NoItem

LEMMA DequeSteps ==
  ASSUME ViewsInv, ViewsInv', NEW i \in Views!Iterators,
         Rests(i) \/ Opens(i) \/ Takes(i) \/ Ends(i) \/ Closes(i)
  PROVE  Views!IterationStep(i)
<1>1. iter[i].open \in BOOLEAN /\ iter'[i].open \in BOOLEAN
  BY DEF ViewsInv
<1>2. CASE Rests(i)
  BY <1>2 DEF Rests, Source, Left, Views!IterationStep, Views!Iteration!deque
<1>3. CASE Opens(i)
  BY <1>3 DEF Opens, Source, Left, Views!IterationStep, Views!Iteration!Next,
              Views!Iteration!Opens
<1>4. CASE Takes(i)
  BY <1>1, <1>4 DEF Takes, Source, Left, Views!IterationStep, Views!Iteration!Next,
                    Views!Iteration!Takes
<1>5. CASE Ends(i)
  BY <1>1, <1>5 DEF Ends, Source, Left, Views!IterationStep, Views!Iteration!Next,
                    Views!Iteration!Ends
<1>6. CASE Closes(i)
  BY <1>6 DEF Closes, Source, Left, Views!IterationStep, Views!Iteration!Next,
              Views!Iteration!Closes
<1> QED
  BY <1>2, <1>3, <1>4, <1>5, <1>6

\* What is left of an open iterator, and what it goes through, item by item.
OpenView(i) ==
  /\ UnderEnd(i) \in Nat
  /\ Source(i) = [k \in 1..UnderEnd(i) |-> Item(i, iter[i].of, k - 1)]
  /\ Left(i) = [k \in 1..(iter[i].end - iter[i].next) |-> Item(i, iter[i].of, iter[i].next + k - 1)]
  /\ Source(i) \in Seq(Views!Answers)
  /\ \A k \in 0..UnderEnd(i) - 1 : Item(i, iter[i].of, k) \in Views!Answers

AllViews == \A i \in Views!Iterators : iter[i].open => OpenView(i)

LEMMA FunctionIsSeq ==
  ASSUME NEW S, NEW n \in Nat, NEW f \in [1..n -> S] PROVE f \in Seq(S)
  OBVIOUS

LEMMA OpenViews == ViewsInv => AllViews
<1> SUFFICES ASSUME ViewsInv, NEW i \in Views!Iterators, iter[i].open PROVE OpenView(i)
  BY DEF AllViews
<1>1. /\ Source(i) = [k \in 1..UnderEnd(i) |-> Item(i, iter[i].of, k - 1)]
      /\ Left(i) = [k \in 1..(iter[i].end - iter[i].next) |-> Item(i, iter[i].of, iter[i].next + k - 1)]
  BY DEF Source, Left, Views!Under, Views!LeftOf, UnderEnd, Item
<1>2. /\ UnderEnd(i) \in Nat /\ UnderEnd(i) <= MaxSegments + MaxTokens
      /\ iter[i].of \in Views!Indices /\ MaxSegments \in Nat /\ MaxTokens \in Nat
  BY OpenSizes, ResultSizes
<1>3. \A k \in 0..UnderEnd(i) - 1 : Item(i, iter[i].of, k) \in Views!Answers
  BY <1>2 DEF Item, Views!Answers, Views!Indices
<1>4. [k \in 1..UnderEnd(i) |-> Item(i, iter[i].of, k - 1)] \in [1..UnderEnd(i) -> Views!Answers]
  BY <1>2, <1>3
<1>5. Source(i) \in Seq(Views!Answers)
  BY <1>1, <1>2, <1>4, FunctionIsSeq
<1> QED
  BY <1>1, <1>2, <1>3, <1>5 DEF OpenView

LEMMA OpenViewsNext == ViewsInv' => AllViews'
  BY OpenViews, PTL

\* An iterator no step touches rests.
LEMMA UntouchedRests ==
  ASSUME NEW i \in Views!Iterators, Untouched(i), UNCHANGED <<result, live>>
  PROVE  Rests(i)
  BY DEF Untouched, Rests, Source, Left, Views!Under, Views!LeftOf, Views!NSegments, Views!NTokens

\* A new iterator has all its items left.
LEMMA NewOpens ==
  ASSUME ViewsInv', NEW i \in Views!Iterators, ~iter[i].open, iter'[i].open,
         iter'[i].next = 0, iter'[i].end = UnderEnd(i)', said'[i] = NoItem
  PROVE  Opens(i)
<1>1. OpenView(i)'
  BY OpenViewsNext DEF AllViews
<1>2. UnderEnd(i)' \in Nat
  BY <1>1 DEF OpenView
<1>3. \A k \in 1..UnderEnd(i)' : 0 + k - 1 = k - 1
  BY <1>2
<1>4. Left(i)' = Source(i)'
  BY <1>1, <1>2, <1>3 DEF OpenView
<1> QED
  BY <1>1, <1>4 DEF OpenView, Opens

\* The front: the first item is answered, the others are left.
LEMMA FrontTakes ==
  ASSUME ViewsInv, ViewsInv', NEW i \in Views!Iterators,
         iter[i].open, iter'[i].open, iter[i].next < iter[i].end,
         iter'[i].next = iter[i].next + 1, iter'[i].end = iter[i].end,
         iter'[i].of = iter[i].of, UNCHANGED <<result, live>>,
         said'[i] = Item(i, iter[i].of, iter[i].next)
  PROVE  Takes(i)
<1> DEFINE n == iter[i].end - iter[i].next
           f == [k \in 1..n |-> Item(i, iter[i].of, iter[i].next + k - 1)]
           g == [k \in 1..(n - 1) |-> f[k + 1]]
<1>1. /\ OpenView(i) /\ OpenView(i)'
      /\ iter[i].next \in Nat /\ iter[i].end \in Nat /\ iter[i].end <= UnderEnd(i)
  BY OpenViews, OpenViewsNext, OpenSizes DEF AllViews
<1>2. Left(i) = f /\ n \in Nat \ {0}
  BY <1>1 DEF OpenView
<1>3. f \in [1..n -> Views!Answers]
  <2>1. ASSUME NEW k \in 1..n PROVE Item(i, iter[i].of, iter[i].next + k - 1) \in Views!Answers
    <3>1. UnderEnd(i) \in Nat /\ k \in Nat /\ 1 <= k /\ k <= iter[i].end - iter[i].next
      BY <1>1 DEF OpenView
    <3>2. iter[i].next + k - 1 \in 0..UnderEnd(i) - 1
      BY <1>1, <3>1
    <3> QED
      BY <1>1, <3>2 DEF OpenView
  <2> QED
    BY <2>1
<1>4. f = <<f[1]>> \o g
  BY <1>2, <1>3, TakesFirst
<1>5. f[1] = said'[i]
  BY <1>1, <1>2
<1>6. Left(i)' = g
  <2>1. Left(i)' = [k \in 1..(iter'[i].end - iter'[i].next) |->
                      Item(i, iter'[i].of, iter'[i].next + k - 1)]
    BY <1>1 DEF OpenView
  <2>2. iter'[i].end - iter'[i].next = n - 1
    BY <1>1
  <2>3. \A k \in 1..(n - 1) : f[k + 1] = Item(i, iter[i].of, iter[i].next + (k + 1) - 1)
    BY <1>2
  <2>4. \A k \in 1..(n - 1) : iter'[i].next + k - 1 = iter[i].next + (k + 1) - 1
    BY <1>1
  <2> QED
    BY <2>1, <2>2, <2>3, <2>4
<1>7. Left(i) # <<>>
  <2>1. 1 \in DOMAIN f
    BY <1>2
  <2> QED
    BY <1>2, <2>1
<1>8. Source(i)' = Source(i)
  BY DEF Source, Views!Under, Views!NSegments, Views!NTokens
<1> QED
  BY <1>2, <1>4, <1>5, <1>6, <1>7, <1>8 DEF Takes

\* The back: the last item is answered, those before it are left.
LEMMA BackTakes ==
  ASSUME ViewsInv, ViewsInv', NEW i \in Views!Iterators,
         iter[i].open, iter'[i].open, iter[i].next < iter[i].end,
         iter'[i].next = iter[i].next, iter'[i].end = iter[i].end - 1,
         iter'[i].of = iter[i].of, UNCHANGED <<result, live>>,
         said'[i] = Item(i, iter[i].of, iter'[i].end)
  PROVE  Takes(i)
<1> DEFINE n == iter[i].end - iter[i].next
           f == [k \in 1..n |-> Item(i, iter[i].of, iter[i].next + k - 1)]
           g == [k \in 1..(n - 1) |-> f[k]]
<1>1. /\ OpenView(i) /\ OpenView(i)'
      /\ iter[i].next \in Nat /\ iter[i].end \in Nat /\ iter[i].end <= UnderEnd(i)
  BY OpenViews, OpenViewsNext, OpenSizes DEF AllViews
<1>2. Left(i) = f /\ n \in Nat \ {0}
  BY <1>1 DEF OpenView
<1>3. f \in [1..n -> Views!Answers]
  <2>1. ASSUME NEW k \in 1..n PROVE Item(i, iter[i].of, iter[i].next + k - 1) \in Views!Answers
    <3>1. UnderEnd(i) \in Nat /\ k \in Nat /\ 1 <= k /\ k <= iter[i].end - iter[i].next
      BY <1>1 DEF OpenView
    <3>2. iter[i].next + k - 1 \in 0..UnderEnd(i) - 1
      BY <1>1, <3>1
    <3> QED
      BY <1>1, <3>2 DEF OpenView
  <2> QED
    BY <2>1
<1>4. f = Append(g, f[n])
  BY <1>2, <1>3, TakesLast
<1>5. f[n] = said'[i]
  <2>1. iter[i].next + n - 1 = iter'[i].end /\ n \in 1..n
    BY <1>1, <1>2
  <2> QED
    BY <2>1
<1>6. Left(i)' = g
  <2>1. Left(i)' = [k \in 1..(iter'[i].end - iter'[i].next) |->
                      Item(i, iter'[i].of, iter'[i].next + k - 1)]
    BY <1>1 DEF OpenView
  <2>2. iter'[i].end - iter'[i].next = n - 1
    BY <1>1
  <2>3. \A k \in 1..(n - 1) : f[k] = Item(i, iter[i].of, iter[i].next + k - 1)
    BY <1>2
  <2> QED
    BY <2>1, <2>2, <2>3
<1>7. Left(i) # <<>>
  <2>1. 1 \in DOMAIN f
    BY <1>2
  <2> QED
    BY <1>2, <2>1
<1>8. Source(i)' = Source(i)
  BY DEF Source, Views!Under, Views!NSegments, Views!NTokens
<1> QED
  BY <1>2, <1>4, <1>5, <1>6, <1>7, <1>8 DEF Takes

\* A step of an iterator itself.
LEMMA OwnStep ==
  ASSUME ViewsInv, ViewsInv', NEW i \in Views!Iterators,
         \/ Views!SegmentsIter(i) \/ Views!NextFront(i) \/ Views!NextBack(i)
         \/ Views!Exhausted(i) \/ Views!IteratorDrops(i)
         \/ \E s \in views : Views!TokensIter(i, s)
  PROVE  Views!IterationStep(i)
<1>1. /\ iter \in [Views!Iterators ->
                     [open : BOOLEAN, of : Views!Indices, next : Views!Indices, end : Views!Indices]]
      /\ said = [j \in Views!Iterators |-> said[j]]
      /\ ~iter[i].open => said[i] = NoItem
  BY DEF ViewsInv
<1>2. CASE Views!SegmentsIter(i)
  <2>1. /\ i \in SegmentIterators /\ ~iter[i].open /\ UNCHANGED <<result, live, said>>
        /\ iter'[i] = [open |-> TRUE, of |-> 0, next |-> 0, end |-> Views!NSegments]
    BY <1>1, <1>2 DEF Views!SegmentsIter
  <2>2. UnderEnd(i)' = Views!NSegments
    BY <2>1 DEF UnderEnd, Views!NSegments
  <2>3. Opens(i)
    BY <1>1, <2>1, <2>2, NewOpens
  <2> QED
    BY <2>3, DequeSteps
<1>3. ASSUME NEW s \in views, Views!TokensIter(i, s) PROVE Views!IterationStep(i)
  <2>1. /\ i \in TokenIterators /\ ~iter[i].open /\ UNCHANGED <<result, live, said>>
        /\ iter'[i] = [open |-> TRUE, of |-> s, next |-> 0, end |-> Views!NTokens(s)]
    BY <1>1, <1>3 DEF Views!TokensIter
  <2>2. UnderEnd(i)' = Views!NTokens(s)
    BY <2>1, IteratorsAssumption DEF UnderEnd, Views!NTokens, Views!IteratorsAssumption
  <2>3. Opens(i)
    BY <1>1, <2>1, <2>2, NewOpens
  <2> QED
    BY <2>3, DequeSteps
<1>4. CASE Views!NextFront(i)
  <2>1. /\ iter[i].open /\ iter[i].next < iter[i].end /\ UNCHANGED <<result, live>>
        /\ iter'[i] = [iter[i] EXCEPT !.next = iter[i].next + 1]
    BY <1>1, <1>4 DEF Views!NextFront
  <2>2. /\ iter'[i].open /\ iter'[i].next = iter[i].next + 1 /\ iter'[i].end = iter[i].end
        /\ iter'[i].of = iter[i].of
    BY <1>1, <2>1
  <2>3. said'[i] = Item(i, iter[i].of, iter[i].next)
    BY <1>1, <1>4 DEF Views!NextFront, Views!Gives, Item
  <2>4. Takes(i)
    BY <2>1, <2>2, <2>3, FrontTakes
  <2> QED
    BY <2>4, DequeSteps
<1>5. CASE Views!NextBack(i)
  <2>1. /\ iter[i].open /\ iter[i].next < iter[i].end /\ UNCHANGED <<result, live>>
        /\ iter'[i] = [iter[i] EXCEPT !.end = iter[i].end - 1]
    BY <1>1, <1>5 DEF Views!NextBack
  <2>2. /\ iter'[i].open /\ iter'[i].next = iter[i].next /\ iter'[i].end = iter[i].end - 1
        /\ iter'[i].of = iter[i].of
    BY <1>1, <2>1
  <2>3. said'[i] = Item(i, iter[i].of, iter'[i].end)
    BY <1>1, <1>5 DEF Views!NextBack, Views!Gives, Item
  <2>4. Takes(i)
    BY <2>1, <2>2, <2>3, BackTakes
  <2> QED
    BY <2>4, DequeSteps
<1>6. CASE Views!Exhausted(i)
  <2>1. /\ iter[i].open /\ iter[i].next >= iter[i].end
        /\ said'[i] = NoItem /\ UNCHANGED <<result, live, iter>>
    BY <1>1, <1>6 DEF Views!Exhausted
  <2>2. OpenView(i) /\ iter[i].end - iter[i].next = 0
    <3>1. OpenView(i)
      BY <2>1, OpenViews DEF AllViews
    <3>2. iter[i].next \in Nat /\ iter[i].end \in Nat /\ iter[i].next <= iter[i].end
      BY <2>1, OpenSizes
    <3> QED
      BY <2>1, <3>1, <3>2
  <2>3. Left(i) = <<>>
    <3>1. Left(i) = [k \in 1..0 |-> Item(i, iter[i].of, iter[i].next + k - 1)]
      BY <2>2 DEF OpenView
    <3> QED
      BY <3>1
  <2>4. Source(i)' = Source(i) /\ Left(i)' = Left(i)
    BY <2>1 DEF Source, Left, Views!Under, Views!LeftOf, Views!NSegments, Views!NTokens
  <2>5. Ends(i)
    BY <2>1, <2>3, <2>4 DEF Ends
  <2> QED
    BY <2>5, DequeSteps
<1>7. CASE Views!IteratorDrops(i)
  <2>1. iter[i].open /\ iter'[i] = Views!Closed /\ said'[i] = NoItem
    BY <1>1, <1>7 DEF Views!IteratorDrops
  <2>2. ~iter'[i].open
    BY <2>1 DEF Views!Closed
  <2>3. Closes(i)
    BY <2>1, <2>2 DEF Closes, Source, Left
  <2> QED
    BY <2>3, DequeSteps
<1> QED
  BY <1>2, <1>3, <1>4, <1>5, <1>6, <1>7

LEMMA IterationSteps ==
  ASSUME ViewsInv, ViewsInv', Views!Next, NEW i \in Views!Iterators
  PROVE  Views!IterationStep(i)
<1>1. ASSUME Rests(i) PROVE Views!IterationStep(i)
  BY <1>1, DequeSteps
<1>2. CASE Views!Infers \/ Views!Loses
  <2>1. ~iter[i].open /\ UNCHANGED <<iter, said>>
    BY <1>2, UnborrowedIsClosed DEF Views!Infers, Views!Loses
  <2>2. Rests(i)
    BY <2>1 DEF Rests, Source, Left
  <2> QED
    BY <1>1, <2>2
<1>3. ASSUME NEW s \in -1..MaxSegments, Views!Segment(s) \/ Views!ViewDrops(s)
      PROVE  Views!IterationStep(i)
  <2>1. Untouched(i) /\ UNCHANGED <<result, live>>
    BY <1>3 DEF Views!Segment, Views!ViewDrops, Untouched
  <2> QED
    BY <1>1, <2>1, UntouchedRests
<1>4. ASSUME NEW j \in Views!Iterators,
             \/ Views!SegmentsIter(j) \/ Views!NextFront(j) \/ Views!NextBack(j)
             \/ Views!Exhausted(j) \/ Views!IteratorDrops(j)
             \/ \E s \in views : Views!TokensIter(j, s)
      PROVE  Views!IterationStep(i)
  <2>1. CASE i = j
    BY <1>4, <2>1, OwnStep
  <2>2. CASE i # j
    <3>1. Untouched(i) /\ UNCHANGED <<result, live>>
      BY <1>4, <2>2
         DEF ViewsInv, Untouched, Views!SegmentsIter, Views!NextFront, Views!NextBack,
             Views!Exhausted, Views!IteratorDrops, Views!TokensIter, Views!Gives
    <3> QED
      BY <1>1, <3>1, UntouchedRests
  <2> QED
    BY <2>1, <2>2
<1> QED
  BY <1>2, <1>3, <1>4 DEF Views!Next

\* Segments and Tokens implement Deque: each gives every item of its sequence
\* once, from either end, however many iterators there are.
THEOREM IteratorsAreDeques == Spec => IteratesAll
<1>1. AnswersInv /\ AnswersInv' /\ [Next]_vars
        => [\A i \in Views!Iterators : Views!IterationStep(i)]_(Views!vars)
  <2>1. CASE Views!Next
    BY <2>1, IterationSteps DEF AnswersInv
  <2>2. CASE UNCHANGED viewsVars
    BY <2>2 DEF viewsVars, Views!vars
  <2> QED
    BY <2>1, <2>2 DEF Next, TextStep, DtwStep, SysStep, ViewsStep, vars
<1> QED
  BY <1>1, AnswersInvariant, PTL DEF Spec, IteratesAll, Views!IteratesAll
=============================================================================
