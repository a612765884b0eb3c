---------------------------- MODULE ParamsProofs ----------------------------
(***************************************************************************)
(* Proofs about what Params hands to native code, for every table of       *)
(* models, languages and texts, all buffers, any precision of the floats   *)
(* and any number of nested inferences.                                    *)
(*                                                                         *)
(* The five components share no variable, and each has an inductive        *)
(* invariant of its own; the theorems at the end put them together.        *)
(***************************************************************************)
EXTENDS InferenceParams, SequenceTheorems, TLAPS

-----------------------------------------------------------------------------
(***************************************************************************)
(* What full checks.  What native code is handed was computed from the     *)
(* Params, model and buffer that passed the checks, and no setter can have *)
(* changed the Params since: a setter forgets the call.                    *)
(***************************************************************************)
Passed(model, samples) ==
  \E found \in BOOLEAN :
    /\ Preflight!Verdict(model, samples, found) = "ran"
    /\ \E prefix \in Preflight!Prefixes(model) :
         call = Preflight!CallOf({model}, samples, found, checked.tokens, prefix,
                                 Preflight!SeekStart, Preflight!SeekEnd(samples))

Refused(model, samples) ==
  /\ Preflight!Verdict(model, samples, call.found) = result
  /\ call.samples = samples /\ call.models = {model} /\ call.found \in BOOLEAN

PreflightInv ==
  /\ Preflight!TypeOK
  /\ result = "ran" => \E model \in Models, samples \in Lengths : Passed(model, samples)
  /\ result \in Preflight!Errors =>
       \E model \in Models, samples \in Lengths : Refused(model, samples)

\* AudioMs(samples) without its detour over seconds.
LEMMA AudioLength ==
  ASSUME NEW samples \in Nat
  PROVE  /\ Preflight!AudioMs(samples) \in Nat
         /\ 16 * Preflight!AudioMs(samples) <= samples
         /\ \A ms \in Int : ms > Preflight!AudioMs(samples) => 16 * ms > samples
<1> DEFINE ms0 == (samples * 1000) \div 16000
<1>1. ms0 \in Nat /\ 16 * ms0 <= samples /\ samples < 16 * (ms0 + 1)
  OBVIOUS
<1> HIDE DEF ms0
<1>2. \A ms \in Int : ms > ms0 => 16 * ms > samples
  BY <1>1
<1> QED BY <1>1, <1>2 DEF Preflight!AudioMs, ms0

\* A window that does not leave the audio in ms does not in frames.
LEMMA FramesInAudio ==
  ASSUME NEW samples \in Nat, NEW limit \in Nat, 16 * limit <= samples,
         NEW offset \in Nat, NEW duration \in Nat, offset + duration <= limit
  PROVE  /\ offset \div 10 >= 0
         /\ 160 * (offset \div 10) <= samples
         /\ 160 * (samples \div 160) <= samples
         /\ 160 * (offset \div 10 + duration \div 10) <= samples
  OBVIOUS

\* Verdict's order of checks, read backwards.
LEMMA RanMeansChecked ==
  ASSUME NEW model \in Models, NEW samples \in Lengths, NEW found \in BOOLEAN,
         Preflight!Verdict(model, samples, found) = "ran"
  PROVE  /\ \A i \in DOMAIN checked.tokens :
              ~Preflight!HasNoEmbedding(model, checked.tokens[i])
         /\ ~Preflight!LanguageMismatch(checked, model, found)
         /\ ~Preflight!LeavesAudio(checked, samples)
<1>1. samples \in Nat /\ MinSamples \in Nat /\ I32Max \in Nat
  BY PreflightAssumption DEF Preflight!PreflightAssumption
<1>2. samples >= MinSamples /\ samples <= I32Max
  BY <1>1 DEF Preflight!Verdict
<1>3. samples \in MinSamples..I32Max /\ ~(samples < MinSamples) /\ ~(samples > I32Max)
  BY <1>1, <1>2
<1> QED BY <1>3 DEF Preflight!Verdict

LEMMA PreflightStarts == Preflight!Init => PreflightInv
<1> SUFFICES ASSUME Preflight!Init PROVE PreflightInv
  OBVIOUS
<1>1. checked = Preflight!Fresh /\ result = "none" /\ call = Preflight!NotCalled
  BY DEF Preflight!Init
<1>2. checked \in [language : LanguageIds \cup {Preflight!Auto, Preflight!Unset},
                   detect : BOOLEAN, offset : 0..I32Max,
                   duration : -(I32Max + 1)..I32Max, tokens : Prompts \cup {<<>>}]
  <2>1. 0 \in 0..I32Max /\ 0 \in -(I32Max + 1)..I32Max
    BY PreflightAssumption DEF Preflight!PreflightAssumption
  <2> QED BY <1>1, <2>1 DEF Preflight!Fresh
<1> QED BY <1>1, <1>2 DEF PreflightInv, Preflight!TypeOK, Preflight!Errors

LEMMA SetterKeeps ==
  ASSUME NEW p \in [language : LanguageIds \cup {Preflight!Auto, Preflight!Unset},
                    detect : BOOLEAN, offset : 0..I32Max,
                    duration : -(I32Max + 1)..I32Max, tokens : Prompts \cup {<<>>}],
         Preflight!Set(p)
  PROVE  PreflightInv'
  BY DEF PreflightInv, Preflight!TypeOK, Preflight!Set, Preflight!Errors, Preflight!NotCalled,
         Preflight!Auto, Preflight!Unset

LEMMA PreflightKept == PreflightInv /\ [Preflight!Next]_preflightVars => PreflightInv'
<1> SUFFICES ASSUME PreflightInv, [Preflight!Next]_preflightVars PROVE PreflightInv'
  OBVIOUS
<1> DEFINE Types == [language : LanguageIds \cup {Preflight!Auto, Preflight!Unset},
                     detect : BOOLEAN, offset : 0..I32Max,
                     duration : -(I32Max + 1)..I32Max, tokens : Prompts \cup {<<>>}]
<1>T. checked \in Types
  BY DEF PreflightInv, Preflight!TypeOK
<1>A. I32Max \in Nat /\ Millis \subseteq -(I32Max + 1)..I32Max
  BY PreflightAssumption DEF Preflight!PreflightAssumption
<1>1. ASSUME NEW language \in LanguageIds \cup {Preflight!Auto}, Preflight!SetLanguage(language)
      PROVE  PreflightInv'
  <2>1. [checked EXCEPT !.language = language] \in Types
    BY <1>T
  <2> QED BY <1>1, <2>1, SetterKeeps DEF Preflight!SetLanguage
<1>2. ASSUME NEW on \in BOOLEAN, Preflight!SetDetectLanguage(on) PROVE PreflightInv'
  <2>1. [checked EXCEPT !.detect = on] \in Types
    BY <1>T
  <2> QED BY <1>2, <2>1, SetterKeeps DEF Preflight!SetDetectLanguage
<1>3. ASSUME NEW tokens \in Prompts \cup {<<>>}, Preflight!SetTokens(tokens) PROVE PreflightInv'
  <2>1. [checked EXCEPT !.tokens = tokens] \in Types
    BY <1>T
  <2> QED BY <1>3, <2>1, SetterKeeps DEF Preflight!SetTokens
<1>4. ASSUME NEW ms \in Millis, Preflight!SetOffsetMs(ms) PROVE PreflightInv'
  <2>1. (IF ms < 0 THEN 0 ELSE ms) \in 0..I32Max
    BY <1>A
  <2>2. [checked EXCEPT !.offset = IF ms < 0 THEN 0 ELSE ms] \in Types
    BY <1>T, <2>1
  <2> QED BY <1>4, <2>2, SetterKeeps DEF Preflight!SetOffsetMs
<1>5. ASSUME NEW ms \in Millis, Preflight!SetDurationMs(ms) PROVE PreflightInv'
  <2>1. [checked EXCEPT !.duration = ms] \in Types
    BY <1>T, <1>A
  <2> QED BY <1>5, <2>1, SetterKeeps DEF Preflight!SetDurationMs
<1>6. ASSUME NEW model \in Models, NEW samples \in Lengths, NEW found \in BOOLEAN,
             Preflight!FullRejects(model, samples, found)
      PROVE  PreflightInv'
  <2>1. checked' = checked /\ result' = Preflight!Verdict(model, samples, found)
    BY <1>6 DEF Preflight!FullRejects
  <2>2. result' \in Preflight!Errors
    BY <1>6, <2>1, PreflightAssumption
    DEF Preflight!FullRejects, Preflight!Verdict, Preflight!Errors, Preflight!PreflightAssumption
  <2>4. /\ call'.samples = samples /\ call'.models = {model} /\ call'.found = found
        /\ call' # Preflight!NotCalled
    BY <1>6 DEF Preflight!FullRejects, Preflight!CallOf, Preflight!NotCalled
  <2>3. Preflight!Verdict(model, samples, call.found)' = Preflight!Verdict(model, samples, found)
    BY <2>1, <2>4 DEF Preflight!Verdict
  <2>5. Refused(model, samples)'
    BY <2>1, <2>3, <2>4 DEF Refused
  <2> QED BY <2>1, <2>2, <2>4, <2>5 DEF PreflightInv, Preflight!TypeOK, Preflight!Errors
<1>7. ASSUME NEW model \in Models, NEW samples \in Lengths, NEW found \in BOOLEAN,
             Preflight!FullRuns(model, samples, found)
      PROVE  PreflightInv'
  <2>1. checked' = checked /\ result' = "ran"
    BY <1>7 DEF Preflight!FullRuns
  <2>2. Passed(model, samples)'
    <3>1. PICK prefix \in Preflight!Prefixes(model) :
            call' = Preflight!CallOf({model}, samples, found, checked.tokens, prefix,
                                     Preflight!SeekStart, Preflight!SeekEnd(samples))
      BY <1>7 DEF Preflight!FullRuns
    <3>2. Preflight!Verdict(model, samples, found) = "ran"
      BY <1>7 DEF Preflight!FullRuns
    <3>3. Preflight!Verdict(model, samples, found)' = Preflight!Verdict(model, samples, found)
      BY <2>1 DEF Preflight!Verdict
    <3>4. Preflight!Prefixes(model)' = Preflight!Prefixes(model)
      BY <2>1 DEF Preflight!Prefixes
    <3>5. /\ Preflight!SeekStart' = Preflight!SeekStart
          /\ Preflight!SeekEnd(samples)' = Preflight!SeekEnd(samples)
      BY <2>1 DEF Preflight!SeekStart, Preflight!SeekEnd
    <3> QED BY <2>1, <3>1, <3>2, <3>3, <3>4, <3>5 DEF Passed
  <2>3. call' # Preflight!NotCalled
    BY <1>7 DEF Preflight!FullRuns, Preflight!CallOf, Preflight!NotCalled
  <2> QED BY <2>1, <2>2, <2>3 DEF PreflightInv, Preflight!TypeOK, Preflight!Errors
<1>8. CASE UNCHANGED preflightVars
  <2>1. checked' = checked /\ result' = result /\ call' = call
    BY <1>8 DEF preflightVars
  <2>2. \A model \in Models, samples \in Lengths :
          /\ Passed(model, samples) => Passed(model, samples)'
          /\ Refused(model, samples) => Refused(model, samples)'
    <3> SUFFICES ASSUME NEW model \in Models, NEW samples \in Lengths
                 PROVE  /\ Passed(model, samples) => Passed(model, samples)'
                        /\ Refused(model, samples) => Refused(model, samples)'
      OBVIOUS
    <3>1. \A found \in BOOLEAN :
            Preflight!Verdict(model, samples, found)' = Preflight!Verdict(model, samples, found)
      BY <2>1 DEF Preflight!Verdict
    <3>4. Preflight!Verdict(model, samples, call.found)' = Preflight!Verdict(model, samples, call.found)
      BY <2>1 DEF Preflight!Verdict
    <3>2. Preflight!Prefixes(model)' = Preflight!Prefixes(model)
      BY <2>1 DEF Preflight!Prefixes
    <3>3. Passed(model, samples) => Passed(model, samples)'
      BY <2>1, <3>1, <3>2 DEF Passed, Preflight!SeekStart, Preflight!SeekEnd
    <3>5. Refused(model, samples) => Refused(model, samples)'
      BY <2>1, <3>4 DEF Refused
    <3> QED BY <3>3, <3>5
  <2>3. Preflight!TypeOK'
    BY <2>1 DEF PreflightInv, Preflight!TypeOK
  <2> QED BY <2>1, <2>2, <2>3 DEF PreflightInv, Preflight!Errors
<1> QED BY <1>1, <1>2, <1>3, <1>4, <1>5, <1>6, <1>7, <1>8 DEF Preflight!Next

LEMMA WindowFits == PreflightInv => WindowInsideAudio
<1> SUFFICES ASSUME PreflightInv, result = "ran"
             PROVE  /\ call.seekStart >= 0
                    /\ 160 * call.seekStart <= call.samples
                    /\ 160 * call.seekEnd <= call.samples
  BY DEF WindowInsideAudio, Preflight!WindowInsideAudio
<1>1. PICK model \in Models, samples \in Lengths : Passed(model, samples)
  BY DEF PreflightInv
<1>2. samples \in Nat /\ checked.offset \in Nat /\ checked.duration \in Int
  BY PreflightAssumption DEF Preflight!PreflightAssumption, PreflightInv, Preflight!TypeOK
<1>3. ~Preflight!LeavesAudio(checked, samples)
  BY <1>1, RanMeansChecked DEF Passed
<1> DEFINE limit == Preflight!AudioMs(samples)
<1>4. limit \in Nat /\ 16 * limit <= samples
  BY <1>2, AudioLength
<1>5. checked.duration \in Nat /\ checked.offset + checked.duration <= limit
  <2> HIDE DEF limit
  <2>1. ~(checked.duration < 0) /\ ~(checked.duration > 0 /\ checked.offset + checked.duration > limit)
        /\ ~(checked.duration = 0 /\ checked.offset > limit)
    BY <1>3 DEF Preflight!LeavesAudio, limit
  <2> QED BY <1>2, <1>4, <2>1
<1>6. /\ checked.offset \div 10 >= 0
      /\ 160 * (checked.offset \div 10) <= samples
      /\ 160 * (samples \div 160) <= samples
      /\ 160 * (checked.offset \div 10 + checked.duration \div 10) <= samples
  BY <1>2, <1>4, <1>5, FramesInAudio
<1>7. /\ call.samples = samples /\ call.seekStart = Preflight!SeekStart
      /\ call.seekEnd = Preflight!SeekEnd(samples)
  BY <1>1 DEF Passed, Preflight!CallOf
<1> QED BY <1>6, <1>7 DEF Preflight!SeekStart, Preflight!SeekEnd

LEMMA TokensSuit == PreflightInv => TokensSuitTheModel
<1> SUFFICES ASSUME PreflightInv, result = "ran"
             PROVE  Preflight!TokensSuitTheModel
  BY DEF TokensSuitTheModel, Preflight!TokensSuitTheModel
<1>1. PICK model \in Models, samples \in Lengths : Passed(model, samples)
  BY DEF PreflightInv
<1>a. PICK found \in BOOLEAN, prefix \in Preflight!Prefixes(model) :
        /\ Preflight!Verdict(model, samples, found) = "ran"
        /\ call = Preflight!CallOf({model}, samples, found, checked.tokens, prefix,
                                   Preflight!SeekStart, Preflight!SeekEnd(samples))
  BY <1>1 DEF Passed
<1>2. /\ call.models = {model} /\ call.prompt = checked.tokens /\ call.prefix = prefix
      /\ prefix \in Preflight!Prefixes(model)
  BY <1>a DEF Preflight!CallOf
<1>3. /\ \A i \in DOMAIN checked.tokens : ~Preflight!HasNoEmbedding(model, checked.tokens[i])
      /\ ~Preflight!LanguageMismatch(checked, model, found)
  BY <1>a, RanMeansChecked
<1>4. model.nVocab \in Nat /\ model.sot \in Nat /\ model.translate \in Nat
      /\ model.multilingual \in BOOLEAN
  BY PreflightAssumption DEF Preflight!PreflightAssumption
<1>5. \A i \in DOMAIN call.prompt : call.prompt[i] \in 0..model.nVocab - 1
  <2> SUFFICES ASSUME NEW i \in DOMAIN checked.tokens
               PROVE  checked.tokens[i] \in 0..model.nVocab - 1
    BY <1>2
  <2>1. checked.tokens \in Seq(Int)
    <3>1. <<>> \in Seq(Int) /\ \A prompt \in Prompts : prompt \in Seq(Int)
      BY PreflightAssumption DEF Preflight!PreflightAssumption
    <3> QED BY <3>1 DEF PreflightInv, Preflight!TypeOK
  <2>2. checked.tokens[i] \in Int
    BY <2>1
  <2> QED BY <1>3, <1>4, <2>2 DEF Preflight!HasNoEmbedding
<1>6. IF model.multilingual THEN call.prefix \in model.sot + 1 .. model.translate - 1
                            ELSE call.prefix = Preflight!NoPrefix
  <2>1. CASE ~model.multilingual
    BY <1>2, <2>1 DEF Preflight!Prefixes
  <2>2. CASE model.multilingual /\ (checked.detect \/ Preflight!RawHint(checked) = Preflight!Auto)
    BY <1>2, <2>2 DEF Preflight!Prefixes
  <2>3. CASE /\ model.multilingual
             /\ ~checked.detect /\ Preflight!RawHint(checked) # Preflight!Auto
    <3> DEFINE id == Preflight!RawHint(checked)
    <3>1. Preflight!HintOf(checked) = id
      BY DEF Preflight!HintOf, Preflight!RawHint
    <3>2. Preflight!Supports(model, id, found)
      BY <1>3, <2>3, <3>1 DEF Preflight!LanguageMismatch, Preflight!AutoDetects
    <3>3. id \in Int
      <4>1. checked.language \in LanguageIds \cup {Preflight!Auto, Preflight!Unset}
        BY DEF PreflightInv, Preflight!TypeOK
      <4>2. \A language \in LanguageIds : language \in Int
        BY PreflightAssumption DEF Preflight!PreflightAssumption
      <4>3. checked.language \in Int
        <5>1. Preflight!Auto \in Int /\ Preflight!Unset \in Int
          BY DEF Preflight!Auto, Preflight!Unset
        <5> QED BY <4>1, <4>2, <5>1
      <4> QED BY <4>3 DEF Preflight!RawHint, Preflight!English
    <3>4. call.prefix = model.sot + 1 + id
      BY <1>2, <2>3 DEF Preflight!Prefixes
    <3> HIDE DEF id
    <3>5. model.sot + 1 + id > model.sot /\ model.sot + 1 + id < model.translate
      BY <2>3, <3>2 DEF Preflight!Supports
    <3> QED BY <1>4, <2>3, <3>3, <3>4, <3>5
  <2> QED BY <1>4, <2>1, <2>2, <2>3
<1> QED BY <1>2, <1>5, <1>6 DEF Preflight!TokensSuitTheModel

LEMMA RefusalsJust == PreflightInv => RefusalsAreJust
<1> SUFFICES ASSUME PreflightInv PROVE Preflight!RefusalsAreJust
  BY DEF RefusalsAreJust
<1>1. ASSUME result = "InvalidDuration"
      PROVE  \/ checked.offset < 0 \/ checked.duration < 0
             \/ 16 * (checked.offset + checked.duration) > call.samples
  <2>1. PICK model \in Models, samples \in Lengths : Refused(model, samples)
    BY <1>1 DEF PreflightInv, Preflight!Errors
  <2>2. samples \in Nat /\ checked.offset \in Int /\ checked.duration \in Int
    BY PreflightAssumption DEF Preflight!PreflightAssumption, PreflightInv, Preflight!TypeOK
  <2>3. Preflight!LeavesAudio(checked, samples)
    <3>1. MinSamples \in Nat /\ I32Max \in Nat
      BY PreflightAssumption DEF Preflight!PreflightAssumption
    <3>2. Preflight!Verdict(model, samples, call.found) = "InvalidDuration"
      BY <1>1, <2>1 DEF Refused
    <3>3. samples \in MinSamples..I32Max /\ ~(samples < MinSamples) /\ ~(samples > I32Max)
      BY <2>2, <3>1, <3>2 DEF Preflight!Verdict
    <3> QED BY <3>2, <3>3 DEF Preflight!Verdict
  <2> DEFINE limit == Preflight!AudioMs(samples)
  <2>4. limit \in Nat /\ \A ms \in Int : ms > limit => 16 * ms > samples
    BY <2>2, AudioLength
  <2>5. \/ checked.offset < 0 \/ checked.duration < 0
        \/ checked.offset + checked.duration > limit
    <3>1. \/ checked.offset < 0 \/ checked.duration < 0
          \/ checked.duration > 0 /\ checked.offset + checked.duration > limit
          \/ checked.duration = 0 /\ checked.offset > limit
      BY <2>3 DEF Preflight!LeavesAudio
    <3> HIDE DEF limit
    <3> QED BY <2>2, <2>4, <3>1
  <2>6. call.samples = samples
    BY <2>1 DEF Refused
  <2> HIDE DEF limit
  <2> QED BY <2>2, <2>4, <2>5, <2>6
<1>2. ASSUME result = "LanguageNotSupportedByModel", NEW model \in call.models
      PROVE  \/ Preflight!Misleads(model)
             \/ ~call.found /\ ~checked.detect /\ Preflight!RawHint(checked) # Preflight!Auto
  <2>1. PICK m \in Models, samples \in Lengths : Refused(m, samples)
    BY <1>2 DEF PreflightInv, Preflight!Errors
  <2>2. m = model
    BY <1>2, <2>1 DEF Refused
  <2>3. Preflight!LanguageMismatch(checked, model, call.found)
    BY <1>2, <2>1, <2>2, PreflightAssumption
    DEF Refused, Preflight!Verdict, Preflight!PreflightAssumption
  <2>4. Preflight!HintOf(checked) = Preflight!RawHint(checked)
    BY DEF Preflight!HintOf, Preflight!RawHint
  <2>5. CASE Preflight!AutoDetects(checked)
    <3>1. ~model.multilingual
      BY <2>3, <2>5 DEF Preflight!LanguageMismatch
    <3>2. checked.detect \/ Preflight!RawHint(checked) = Preflight!Auto
      BY <2>4, <2>5 DEF Preflight!AutoDetects
    <3> QED BY <3>1, <3>2 DEF Preflight!Misleads, Preflight!English, Preflight!Auto
  <2>6. CASE ~Preflight!AutoDetects(checked)
    <3>1. ~checked.detect /\ Preflight!RawHint(checked) # Preflight!Auto
      BY <2>4, <2>6 DEF Preflight!AutoDetects
    <3>2. ~Preflight!Supports(model, Preflight!RawHint(checked), call.found)
      BY <2>3, <2>4, <2>6 DEF Preflight!LanguageMismatch
    <3>3. CASE call.found /\ ~model.multilingual
      BY <3>2, <3>3 DEF Preflight!Supports, Preflight!Misleads
    <3>4. CASE call.found /\ model.multilingual
      <4> DEFINE token == model.sot + 1 + Preflight!RawHint(checked)
      <4>1. ~(token > model.sot /\ token < model.translate)
        BY <3>2, <3>4 DEF Preflight!Supports
      <4>2. token \in Preflight!Prefixes(model)
        BY <3>1, <3>4 DEF Preflight!Prefixes
      <4>3. model.sot \in Nat /\ model.translate \in Nat
        BY <2>1, <2>2, PreflightAssumption DEF Preflight!PreflightAssumption
      <4> HIDE DEF token
      <4>4. token \notin model.sot + 1 .. model.translate - 1
        BY <4>1, <4>3
      <4> QED BY <3>4, <4>2, <4>4 DEF Preflight!Misleads
    <3>5. call.found \in BOOLEAN
      BY <2>1 DEF Refused
    <3> QED BY <3>1, <3>3, <3>4, <3>5
  <2> QED BY <2>5, <2>6
<1> QED BY <1>1, <1>2 DEF Preflight!RefusalsAreJust

-----------------------------------------------------------------------------
(***************************************************************************)
(* The threads.  With one thread the loops start none, and only the unsafe *)
(* setter makes it more than one.                                          *)
(***************************************************************************)
DecodeInv ==
  /\ Decode!TypeOK
  /\ counted.threads >= 1 /\ counted.decoders >= 1
  /\ ~unchecked => counted.threads = 1 /\ joinable = 0
  /\ pc \in {"new", "idle"} => joinable = 0
  /\ pc = "terminated" => unchecked
  /\ pc # "length_error"

\* What the clamps make of any argument.
LEMMA ClampsBound ==
  ASSUME NEW n \in Int
  PROVE  /\ Decode!AtLeastOne(n) \in Int /\ Decode!AtLeastOne(n) >= 1
         /\ Decode!ClampNThreads(n) = 1
         /\ Decode!ClampTopk(n) \in Int /\ Decode!ClampTopk(n) >= 1
  BY CountsAssumption
  DEF Decode!CountsAssumption, Decode!AtLeastOne, Decode!ClampNThreads, Decode!ClampTopk,
      Decode!MaxNThreads

\* No loop starts more than the threads of Params, less the caller.
LEMMA WorkersBound ==
  ASSUME Decode!TypeOK PROVE Decode!Workers \in Int /\ Decode!Workers <= counted.threads
<1>1. counted.threads \in Int /\ counted.decoders \in Int
  BY DEF Decode!TypeOK
<1>2. Decode!Workers = counted.threads \/ Decode!Workers = Decode!Least(counted.threads, counted.decoders)
  BY DEF Decode!Workers
<1>3. Decode!Least(counted.threads, counted.decoders) \in Int
      /\ Decode!Least(counted.threads, counted.decoders) <= counted.threads
  BY <1>1 DEF Decode!Least
<1> QED BY <1>1, <1>2, <1>3

LEMMA DecodeStarts == Decode!Init => DecodeInv
<1> SUFFICES ASSUME Decode!Init PROVE DecodeInv
  OBVIOUS
<1>1. /\ counted.threads = 1 /\ counted.decoders = 1
      /\ counted \in [threads : Int, decoders : Int]
      /\ ~unchecked /\ pc = "new" /\ joinable = 0
  BY DEF Decode!Init
<1>2. unchecked \in BOOLEAN
  BY DEF Decode!Init
<1> QED BY <1>1, <1>2 DEF DecodeInv, Decode!TypeOK

\* With one thread neither loop starts another.
LEMMA NobodyToSpawn ==
  ASSUME Decode!TypeOK, joinable \in Nat, joinable < Decode!Workers - 1
  PROVE  counted.threads # 1
<1>1. counted.threads \in Int
  BY DEF Decode!TypeOK
<1> QED BY <1>1, WorkersBound

LEMMA DecodeKept == DecodeInv /\ [Decode!Next]_decodeVars => DecodeInv'
<1> SUFFICES ASSUME DecodeInv, [Decode!Next]_decodeVars PROVE DecodeInv'
  OBVIOUS
<1>A. \A c \in Concurrency : c \in Int
  BY CountsAssumption DEF Decode!CountsAssumption
<1>B. \A n \in Counts : n \in Int
  BY CountsAssumption DEF Decode!CountsAssumption
<1> DEFINE Counted == [threads : Int, decoders : Int]
           Labels == {"new", "idle", "mel", "mel join", "decode", "process", "process join"}
<1>C. counted \in Counted /\ counted.threads >= 1 /\ counted.decoders >= 1
  BY DEF DecodeInv, Decode!TypeOK
<1>J. joinable \in Nat
  BY DEF DecodeInv, Decode!TypeOK
<1>I. counted.threads \in Int /\ counted.decoders \in Int
  BY <1>C
<1>D. unchecked \in BOOLEAN
  BY DEF DecodeInv, Decode!TypeOK
<1>E. ~unchecked => counted.threads = 1 /\ joinable = 0
  BY DEF DecodeInv
<1>F. pc \in Labels \/ (pc = "terminated" /\ unchecked)
  BY DEF DecodeInv, Decode!TypeOK
<1>K. pc \in {"new", "idle"} => joinable = 0
  BY DEF DecodeInv
<1>G. ASSUME counted' \in Counted, counted'.threads >= 1, counted'.decoders >= 1,
             joinable' \in Nat, unchecked' \in BOOLEAN,
             ~unchecked' => counted'.threads = 1 /\ joinable' = 0,
             pc' \in {"new", "idle"} => joinable' = 0,
             pc' \in Labels \/ (pc' = "terminated" /\ unchecked')
      PROVE  DecodeInv'
  BY <1>G DEF DecodeInv, Decode!TypeOK
<1>1. ASSUME NEW c \in Concurrency, NEW k \in Counts, Decode!New(c, k) PROVE DecodeInv'
  <2>1. Decode!Least(4, c) \in Int
    BY <1>A DEF Decode!Least
  <2>2. counted' = [threads |-> Decode!ClampNThreads(Decode!Least(4, c)),
                    decoders |-> Decode!ClampTopk(k)]
    BY <1>1 DEF Decode!New
  <2>3. counted' \in Counted /\ counted'.threads = 1 /\ counted'.decoders >= 1
    BY <1>B, <2>1, <2>2, ClampsBound
  <2>4. pc = "new" /\ pc' = "idle" /\ unchecked' = unchecked /\ joinable' = joinable
    BY <1>1 DEF Decode!New
  <2> QED BY <1>C, <1>J, <1>D, <1>E, <1>G, <1>K, <2>3, <2>4
<1>2. ASSUME NEW n \in Counts, Decode!SetNThreads(n) PROVE DecodeInv'
  <2>1. counted' = [counted EXCEPT !.threads = Decode!ClampNThreads(n)]
    BY <1>2 DEF Decode!SetNThreads
  <2>2. counted' \in Counted /\ counted'.threads = 1 /\ counted'.decoders >= 1
    BY <1>B, <1>C, <2>1, ClampsBound
  <2>3. pc = "idle" /\ pc' = pc /\ unchecked' = unchecked /\ joinable' = joinable
    BY <1>2 DEF Decode!SetNThreads
  <2> QED BY <1>C, <1>J, <1>D, <1>E, <1>G, <1>K, <2>2, <2>3
<1>3. ASSUME NEW n \in Counts, Decode!SetNThreadsUnchecked(n) PROVE DecodeInv'
  <2>1. counted' = [counted EXCEPT !.threads = Decode!AtLeastOne(n)]
    BY <1>3 DEF Decode!SetNThreadsUnchecked
  <2>2. counted' \in Counted /\ counted'.threads >= 1 /\ counted'.decoders >= 1
    BY <1>B, <1>C, <2>1, ClampsBound
  <2>3. pc = "idle" /\ pc' = pc /\ unchecked' = TRUE /\ joinable' = joinable
    BY <1>3 DEF Decode!SetNThreadsUnchecked
  <2> QED BY <1>C, <1>J, <1>G, <1>K, <2>2, <2>3
<1>4. ASSUME NEW n \in Counts, Decode!SetDecodersUnchecked(n) PROVE DecodeInv'
  <2>1. counted' = [counted EXCEPT !.decoders = Decode!AtLeastOne(n)]
    BY <1>4 DEF Decode!SetDecodersUnchecked
  <2>2. counted' \in Counted /\ counted'.threads = counted.threads /\ counted'.decoders >= 1
    BY <1>B, <1>C, <2>1, ClampsBound
  <2>3. pc = "idle" /\ pc' = pc /\ unchecked' = unchecked /\ joinable' = joinable
    BY <1>4 DEF Decode!SetDecodersUnchecked
  <2> QED BY <1>C, <1>J, <1>D, <1>E, <1>G, <1>K, <2>2, <2>3
<1>H. ASSUME counted' = [threads |-> 1, decoders |-> 1], unchecked' = FALSE, joinable' = 0, pc' = "new"
      PROVE  DecodeInv'
  <2>1. counted' \in Counted /\ counted'.threads = 1 /\ counted'.decoders = 1
    BY <1>H
  <2>2. joinable' \in Nat /\ unchecked' \in BOOLEAN
    BY <1>H
  <2>3. pc' \in Labels /\ joinable' = 0
    BY <1>H
  <2>4. counted'.threads >= 1 /\ counted'.decoders >= 1
    BY <2>1
  <2> QED BY <1>G, <2>1, <2>2, <2>3, <2>4
<1>5. CASE Decode!ParamsDrops
  <2>1. counted' = [threads |-> 1, decoders |-> 1] /\ unchecked' = FALSE /\ pc' = "new"
        /\ pc = "idle" /\ joinable' = joinable
    BY <1>5 DEF Decode!ParamsDrops
  <2> QED BY <1>H, <1>K, <2>1
<1>6. CASE Decode!FullStarts
  <2>1. /\ counted' = counted /\ unchecked' = unchecked /\ joinable' = joinable
        /\ ~(counted.threads < 1) => pc' = "mel"
    BY <1>6 DEF Decode!FullStarts, Decode!Goes
  <2>2. ~(counted.threads < 1)
    BY <1>C, <1>I
  <2>3. pc' \in Labels
    BY <2>1, <2>2
  <2>4. ~unchecked' => counted'.threads = 1 /\ joinable' = 0
    BY <1>E, <2>1
  <2>5. unchecked' \in BOOLEAN
    BY <1>D, <2>1
  <2>6. joinable' \in Nat
    BY <1>J, <2>1
  <2>7. pc' \in {"new", "idle"} => joinable' = 0
    BY <2>1, <2>2
  <2> QED BY <1>C, <1>G, <2>1, <2>3, <2>4, <2>5, <2>6, <2>7
<1>7. CASE Decode!Spawns
  <2>1. /\ joinable < Decode!Workers - 1 /\ joinable' = joinable + 1
        /\ counted' = counted /\ unchecked' = unchecked /\ pc' = pc
    BY <1>7 DEF Decode!Spawns
  <2>2. counted.threads # 1
    BY <1>J, <2>1, NobodyToSpawn DEF DecodeInv
  <2>3. joinable' \in Nat
    BY <1>J, <2>1
  <2>4. unchecked
    BY <1>E, <2>2
  <2>5. unchecked'
    BY <2>1, <2>4
  <2>6. pc' \in Labels \/ (pc' = "terminated" /\ unchecked')
    BY <1>F, <2>1, <2>5
  <2>7. unchecked' \in BOOLEAN
    BY <1>D, <2>1
  <2>8. pc' \in {"new", "idle"} => joinable' = 0
    BY <1>7, <2>1 DEF Decode!Spawns
  <2> QED BY <1>C, <1>G, <2>1, <2>3, <2>5, <2>6, <2>7, <2>8
<1>8. CASE Decode!MelRuns \/ Decode!MelJoins \/ Decode!Processes \/ Decode!ProcessReturns
           \/ Decode!DecodesOn \/ Decode!FullReturns
  <2>1. /\ counted' = counted /\ unchecked' = unchecked /\ pc' \in Labels
    BY <1>8 DEF Decode!MelRuns, Decode!MelJoins, Decode!Processes, Decode!ProcessReturns,
                Decode!DecodesOn, Decode!FullReturns, Decode!Goes
  <2>2. joinable' \in {joinable, 0}
    BY <1>8 DEF Decode!MelRuns, Decode!MelJoins, Decode!Processes, Decode!ProcessReturns,
                Decode!DecodesOn, Decode!FullReturns, Decode!Goes
  <2>3. joinable' \in Nat
    BY <1>J, <2>2
  <2>4. ~unchecked' => counted'.threads = 1 /\ joinable' = 0
    BY <1>E, <2>1, <2>2
  <2>5. unchecked' \in BOOLEAN
    BY <1>D, <2>1
  <2>6. pc' \in {"new", "idle"} => joinable' = 0
    BY <1>8 DEF Decode!MelRuns, Decode!MelJoins, Decode!Processes, Decode!ProcessReturns,
                Decode!DecodesOn, Decode!FullReturns, Decode!Goes
  <2> QED BY <1>C, <1>G, <2>1, <2>3, <2>4, <2>5, <2>6
<1>9. CASE Decode!Throws
  <2>1. /\ counted' = counted /\ unchecked' = unchecked /\ joinable' = joinable
        /\ pc' = IF joinable > 0 THEN "terminated" ELSE "idle"
    BY <1>9 DEF Decode!Throws
  <2>2. joinable > 0 => unchecked
    BY <1>E
  <2>3. pc' \in Labels \/ (pc' = "terminated" /\ unchecked)
    BY <2>1, <2>2
  <2>4. pc' \in {"new", "idle"} => joinable' = 0
    <3>1. ~(joinable > 0) => joinable = 0
      BY <1>J
    <3> QED BY <2>1, <3>1
  <2>5. ~unchecked' => counted'.threads = 1 /\ joinable' = 0
    BY <1>E, <2>1
  <2>6. unchecked' \in BOOLEAN /\ (unchecked' <=> unchecked)
    BY <1>D, <2>1
  <2>7. joinable' \in Nat
    BY <1>J, <2>1
  <2>8. pc' \in Labels \/ (pc' = "terminated" /\ unchecked')
    BY <2>3, <2>6
  <2> QED BY <1>C, <1>G, <2>1, <2>4, <2>5, <2>6, <2>7, <2>8
<1>10. CASE Decode!Restarts
  BY <1>10, <1>H DEF Decode!Restarts
<1>11. CASE UNCHANGED decodeVars
  <2>1. counted' = counted /\ unchecked' = unchecked /\ joinable' = joinable /\ pc' = pc
    BY <1>11 DEF decodeVars
  <2> QED BY <2>1 DEF DecodeInv, Decode!TypeOK
<1> QED BY <1>1, <1>2, <1>3, <1>4, <1>5, <1>6, <1>7, <1>8, <1>9, <1>10, <1>11 DEF Decode!Next

LEMMA FailuresCaught == DecodeInv => FailuresAreCaught
  BY DEF DecodeInv, FailuresAreCaught, Decode!FailuresAreCaught

-----------------------------------------------------------------------------
(***************************************************************************)
(* The language.  A Lang in the program is what from_iso639_1 makes of its *)
(* own text, and so is the one a hint was written from.                    *)
(***************************************************************************)
Readable == [word : Language!Words \cup Named, casing : {"lower", "Title", "tAIL", "UPPER", "mIx"}]

IsLang(l) ==
  \/ \E code \in Named : l = Language!Variant(code)
  \/ \E text \in Readable : ~Language!IsListed(text) /\ l = Language!Other(text)

Ran(model) ==
  Language!Suits(hint, detect, model) /\ detected \in Language!IdsOf(hint, detect, model)

LanguageInv ==
  /\ lang # Language!NoLang => IsLang(lang)
  /\ file # Language!NoText => file \in Readable
  /\ forced # Language!NoLang => IsLang(forced) /\ hint = Language!AsStr(forced)
  /\ answer = "ran" => \E model \in Tongues : Ran(model)

LEMMA TextsAreReadable == Texts \subseteq Readable
  BY LanguagesAssumption DEF Language!LanguagesAssumption, Readable

LEMMA LangsAreReadable ==
  ASSUME NEW l, IsLang(l)
  PROVE  /\ Language!AsStr(l) \in Readable
         /\ Language!FromIso639_1(Language!AsStr(l)) = l
         /\ l # Language!NoLang
<1>1. CASE \E code \in Named : l = Language!Variant(code)
  <2>1. PICK code \in Named : l = Language!Variant(code)
    BY <1>1
  <2>2. Language!AsStr(l) = Language!Written(code) /\ l.kind = "named"
    BY <2>1 DEF Language!AsStr, Language!Variant
  <2>5. Language!Written(code) \in Readable /\ Language!NoLang.kind = "none"
    BY DEF Readable, Language!Written, Language!NoLang
  <2>3. Language!IsListed(Language!Written(code)) /\ Language!Written(code).word = code
    BY DEF Language!IsListed, Language!Written
  <2>4. Language!FromIso639_1(Language!Written(code)) = Language!Variant(code)
    BY <2>3 DEF Language!FromIso639_1
  <2> QED BY <2>1, <2>2, <2>4, <2>5
<1>2. CASE \E text \in Readable : ~Language!IsListed(text) /\ l = Language!Other(text)
  <2>1. PICK text \in Readable : ~Language!IsListed(text) /\ l = Language!Other(text)
    BY <1>2
  <2>2. Language!AsStr(l) = text /\ l.kind = "other"
    BY <2>1 DEF Language!AsStr, Language!Other
  <2>3. Language!FromIso639_1(text) = Language!Other(text) /\ Language!NoLang.kind = "none"
    BY <2>1 DEF Language!FromIso639_1, Language!NoLang
  <2> QED BY <2>1, <2>2, <2>3
<1> QED BY <1>1, <1>2 DEF IsLang

\* Whatever the program constructs, tries or reads is a Lang of that shape.
LEMMA ReadsLangs ==
  ASSUME NEW text \in Readable
  PROVE  /\ IsLang(Language!FromIso639_1(text))
         /\ Language!TryFromIso639_1(text) # Language!NoLang => IsLang(Language!TryFromIso639_1(text))
         /\ IsLang(Language!Deserialize(text))
<1>1. \A t \in Readable :
        /\ IsLang(Language!FromIso639_1(t))
        /\ Language!IsListed(t) => IsLang(Language!TryFromIso639_1(t))
        /\ ~Language!IsListed(t) => Language!TryFromIso639_1(t) = Language!NoLang
  BY DEF IsLang, Language!FromIso639_1, Language!TryFromIso639_1, Language!IsListed
<1>2. Language!Lower(text) \in Readable
  BY DEF Language!Lower, Readable
<1>3. IsLang(Language!Deserialize(text))
  <2>1. CASE text.casing = "lower"
    BY <1>1, <2>1 DEF Language!Deserialize
  <2>2. CASE text.casing # "lower" /\ Language!IsListed(Language!Lower(text))
    <3>1. IsLang(Language!TryFromIso639_1(Language!Lower(text)))
      BY <1>1, <1>2, <2>2
    <3>2. Language!TryFromIso639_1(Language!Lower(text)) # Language!NoLang
      BY <3>1, LangsAreReadable
    <3> QED BY <2>2, <3>1, <3>2 DEF Language!Deserialize
  <2>3. CASE text.casing # "lower" /\ ~Language!IsListed(Language!Lower(text))
    <3>1. Language!TryFromIso639_1(Language!Lower(text)) = Language!NoLang
      BY <1>1, <1>2, <2>3
    <3>2. Language!Deserialize(text) = Language!Other(Language!Lower(text))
      BY <2>3, <3>1 DEF Language!Deserialize
    <3> QED BY <1>2, <2>3, <3>2 DEF IsLang
  <2> QED BY <2>1, <2>2, <2>3
<1> QED BY <1>1, <1>3

LEMMA LanguageStarts == Language!Init => LanguageInv
  BY DEF Language!Init, LanguageInv

LEMMA TableWords ==
  ASSUME NEW id \in Language!Ids
  PROVE  /\ id + 1 \in DOMAIN Table
         /\ Table[id + 1].code \in Language!Words /\ Table[id + 1].name \in Language!Words
         /\ Language!Written(Table[id + 1].code) \in Readable
<1>1. Table \in Seq([code : Language!Words, name : Language!Words])
  BY LanguagesAssumption DEF Language!LanguagesAssumption
<1>2. id + 1 \in DOMAIN Table
  BY <1>1 DEF Language!Ids
<1>3. Table[id + 1] \in [code : Language!Words, name : Language!Words]
  <2> HIDE DEF Language!Words
  <2>1. ASSUME NEW S, Table \in Seq(S) PROVE Table[id + 1] \in S
    BY <1>2, <2>1
  <2> QED BY <1>1, <2>1
<1> QED BY <1>2, <1>3 DEF Readable, Language!Written

LEMMA LanguageKept == LanguageInv /\ [Language!Next]_languageVars => LanguageInv'
<1> SUFFICES ASSUME LanguageInv, [Language!Next]_languageVars PROVE LanguageInv'
  OBVIOUS
<1>R. \A text \in Texts : text \in Readable
  BY TextsAreReadable
<1>1. ASSUME UNCHANGED <<file, hint, forced, detect, answer, detected>>, IsLang(lang') PROVE LanguageInv'
  BY <1>1 DEF LanguageInv, Ran
<1>2. ASSUME NEW text \in Texts, Language!Constructs(text) PROVE LanguageInv'
  BY <1>R, <1>1, <1>2, ReadsLangs DEF Language!Constructs
<1>3. ASSUME NEW text \in Texts, Language!Tries(text) PROVE LanguageInv'
  BY <1>R, <1>1, <1>3, ReadsLangs DEF Language!Tries
<1>4. CASE Language!Detects
  <2>1. detected \in Language!Ids
    BY <1>4 DEF Language!Detects, Language!Ids, Language!LangMaxId
  <2>2. IsLang(Language!DetectedLang)
    BY <2>1, TableWords, ReadsLangs DEF Language!DetectedLang
  <2> QED BY <1>1, <1>4, <2>2 DEF Language!Detects
<1>5. ASSUME NEW text \in Texts, Language!Edits(text) PROVE LanguageInv'
  BY <1>R, <1>5 DEF Language!Edits, LanguageInv, Ran
<1>6. CASE Language!Saves
  <2>1. Language!AsStr(lang) \in Readable
    BY <1>6, LangsAreReadable DEF LanguageInv, Language!Saves
  <2> QED BY <1>6, <2>1 DEF Language!Saves, LanguageInv, Ran
<1>7. CASE Language!Loads
  <2>1. lang' = Language!NoLang \/ IsLang(lang')
    BY <1>7, ReadsLangs DEF Language!Loads, LanguageInv
  <2> QED BY <1>7, <2>1 DEF Language!Loads, LanguageInv, Ran
<1>8. ASSUME NEW text \in Texts, Language!SetLanguage(text) PROVE LanguageInv'
  BY <1>8 DEF Language!SetLanguage, LanguageInv
<1>9. CASE Language!SetLanguageOf
  BY <1>9 DEF Language!SetLanguageOf, LanguageInv
<1>10. ASSUME NEW model \in Tongues, Language!FullRejects(model) PROVE LanguageInv'
  BY <1>10 DEF Language!FullRejects, LanguageInv
<1>11. ASSUME NEW model \in Tongues, Language!FullRuns(model) PROVE LanguageInv'
  BY <1>11 DEF Language!FullRuns, LanguageInv, Ran
<1>12. ASSUME NEW on \in BOOLEAN, Language!SetDetectLanguage(on) PROVE LanguageInv'
  BY <1>12 DEF Language!SetDetectLanguage, LanguageInv
<1>13. CASE UNCHANGED languageVars
  BY <1>13 DEF languageVars, LanguageInv, Ran
<1> QED BY <1>2, <1>3, <1>4, <1>5, <1>6, <1>7, <1>8, <1>9, <1>10, <1>11, <1>12, <1>13
        DEF Language!Next

\* What whisper_lang_id finds is a code or a name of the table, in lower case.
LEMMA FoundInTable ==
  ASSUME NEW text, Language!LangIdFor(text) # Language!None
  PROVE  /\ Language!LangIdFor(text) = Language!WhisperLangId(text)
         /\ Language!LangIdFor(text) \in Language!Ids
         /\ ~(Length[text.word] > 32) /\ ~Language!HasNul(text)
         /\ text.casing = "lower"
         /\ text.word \in {Table[Language!LangIdFor(text) + 1].code,
                           Table[Language!LangIdFor(text) + 1].name}
<1>1. /\ ~(Length[text.word] > 32) /\ ~Language!HasNul(text)
      /\ Language!LangIdFor(text) = Language!WhisperLangId(text)
  BY DEF Language!LangIdFor
<1> DEFINE matches == {id \in Language!Ids : text.word \in {Table[id + 1].code, Table[id + 1].name}}
<1>2. /\ text.casing = "lower" /\ matches # {}
      /\ Language!WhisperLangId(text) = CHOOSE id \in matches : TRUE
  BY <1>1 DEF Language!WhisperLangId, Language!HasNul
<1>3. Language!WhisperLangId(text) \in matches
  BY <1>2
<1> QED BY <1>1, <1>2, <1>3

LEMMA ForcedComesBack == LanguageInv => ForcedLanguageComesBack
<1> SUFFICES ASSUME LanguageInv, answer = "ran", ~detect, forced # Language!NoLang,
                    ~Language!IsAuto(hint), ~Language!IsEnglishName(hint)
             PROVE  /\ Language!DetectedLang = forced
                    /\ ~Language!IsRefused(Language!AsStr(forced))
                    /\ Language!Deserialize(Language!AsStr(forced)) = forced
  BY DEF ForcedLanguageComesBack, Language!ForcedLanguageComesBack
<1>1. PICK model \in Tongues : Ran(model)
  BY DEF LanguageInv
<1>2. /\ hint = Language!AsStr(forced) /\ hint \in Readable
      /\ Language!FromIso639_1(hint) = forced
  BY LangsAreReadable DEF LanguageInv
<1> DEFINE id == Language!LangIdFor(hint)
<1>3. id # Language!None /\ (~model.multilingual => id = 0)
  BY <1>1 DEF Ran, Language!Suits, Language!AutoDetects
<1>4. /\ id = Language!WhisperLangId(hint) /\ id \in Language!Ids /\ hint.casing = "lower"
      /\ hint.word \in {Table[id + 1].code, Table[id + 1].name}
  BY <1>3, FoundInTable
<1>5. detected = id
  BY <1>1, <1>3, <1>4 DEF Ran, Language!IdsOf, Language!AutoDetects
<1> HIDE DEF id
<1>6. hint.word = Table[id + 1].code /\ id + 1 \in DOMAIN Table
  BY <1>4, TableWords DEF Language!IsEnglishName
<1>7. hint = Language!Written(Table[id + 1].code)
  BY <1>2, <1>4, <1>6 DEF Readable, Language!Written
<1>8. Language!DetectedLang = forced
  BY <1>2, <1>5, <1>7 DEF Language!DetectedLang
<1>9. ~Language!IsRefused(hint)
  BY <1>6, LanguagesAssumption DEF Language!IsRefused, Language!LanguagesAssumption
<1>10. Language!Deserialize(hint) = forced
  BY <1>2, <1>4 DEF Language!Deserialize
<1> QED BY <1>2, <1>8, <1>9, <1>10

LEMMA HintsAgree == HintAndTokenAgree
<1> SUFFICES ASSUME NEW model \in Tongues
             PROVE  LET token == Language!TokenForLang(lang, model)
                        text  == Language!AsStr(lang)
                    IN /\ token # Language!None <=>
                            /\ model.multilingual /\ ~Language!IsAuto(text)
                            /\ Language!Accepts(text) /\ Language!Suits(text, FALSE, model)
                       /\ token # Language!None =>
                            /\ token \in model.sot + 1 .. model.translate - 1
                            /\ Language!FullName(lang) = Table[token - model.sot].name
  BY DEF HintAndTokenAgree, Language!HintAndTokenAgree
<1> DEFINE token == Language!TokenForLang(lang, model)
           text  == Language!AsStr(lang)
           id    == Language!LangIdFor(text)
<1>1. model.sot \in Nat /\ model.translate \in Nat /\ model.multilingual \in BOOLEAN
  BY LanguagesAssumption DEF Language!LanguagesAssumption
<1>2. CASE id = Language!None
  <2>1. token = Language!None
    BY <1>2 DEF Language!TokenForLang
  <2>2. Language!IsAuto(text) \/ ~Language!Suits(text, FALSE, model)
    BY <1>2 DEF Language!Suits, Language!AutoDetects
  <2> QED BY <2>1, <2>2
<1>3. CASE id # Language!None
  <2>1. /\ id \in Language!Ids /\ ~(Length[text.word] > 32) /\ ~Language!HasNul(text)
        /\ text.word \in {Table[id + 1].code, Table[id + 1].name}
    BY <1>3, FoundInTable
  <2>2. ~Language!IsAuto(text)
    <3>1. {"", "auto"} \cap {Table[id + 1].code, Table[id + 1].name} = {}
      BY <2>1, TableWords, LanguagesAssumption DEF Language!LanguagesAssumption
    <3> QED BY <2>1, <3>1 DEF Language!IsAuto
  <2>3. id \in Nat /\ Length[text.word] <= 32
    <3>1. id \in Nat
      BY <2>1 DEF Language!Ids
    <3>2. text.word \in Language!Words
      BY <2>1, TableWords
    <3>3. Length[text.word] \in Nat
      BY <3>2, LanguagesAssumption DEF Language!Words, Language!LanguagesAssumption
    <3> QED BY <2>1, <3>1, <3>3
  <2>4. Language!Accepts(text)
    BY <1>3, <2>1, <2>3 DEF Language!Accepts
  <2>5. Language!TokenLang(model, id) = model.sot + 1 + id
    BY DEF Language!TokenLang
  <2>6. Language!Suits(text, FALSE, model) <=>
          IF model.multilingual THEN Language!IsLanguageToken(model, model.sot + 1 + id) ELSE id = 0
    BY <1>3, <2>2, <2>5 DEF Language!Suits, Language!AutoDetects
  <2>7. token = IF ~model.multilingual THEN Language!None
                ELSE IF Language!IsLanguageToken(model, model.sot + 1 + id) THEN model.sot + 1 + id
                ELSE Language!None
    BY <1>3, <2>5 DEF Language!TokenForLang, Language!RangeChecked
  <2>8. Language!FullName(lang) = Table[id + 1].name
    BY <1>3 DEF Language!FullName
  <2> HIDE DEF id, text, token
  <2>9. model.sot + 1 + id # Language!None
    BY <1>1, <2>3 DEF Language!None
  <2>10. token # Language!None <=>
           model.multilingual /\ Language!IsLanguageToken(model, model.sot + 1 + id)
    BY <2>7, <2>9
  <2>11. ASSUME token # Language!None
         PROVE  /\ token \in model.sot + 1 .. model.translate - 1
                /\ Language!FullName(lang) = Table[token - model.sot].name
    <3>1. token = model.sot + 1 + id /\ Language!IsLanguageToken(model, token)
      BY <2>7, <2>10, <2>11
    <3>2. token - model.sot = id + 1
      BY <1>1, <2>3, <3>1
    <3>3. token \in model.sot + 1 .. model.translate - 1
      BY <1>1, <2>3, <3>1 DEF Language!IsLanguageToken
    <3> QED BY <2>8, <3>2, <3>3
  <2> QED BY <2>2, <2>4, <2>6, <2>10, <2>11 DEF token, text
<1> QED BY <1>2, <1>3

-----------------------------------------------------------------------------
(***************************************************************************)
(* The temperature ladder.                                                 *)
(***************************************************************************)
Sizes == {1, 2, 4, 8, 16, 32, 64, 128, 256, 512, 1024, 2048}

\* u is the distance between floats of the size of n.
UlpOf(u, n) == n < u * Precision /\ (u = 1 \/ n >= (u \div 2) * Precision)

LEMMA SizesDouble ==
  ASSUME NEW u \in Sizes, NEW v \in Sizes
  PROVE  /\ u \in Nat /\ u > 0 /\ u \div 2 \in Nat
         /\ u > v => u \div 2 >= v /\ u >= 2 * v
         /\ u <= v => u \div 2 <= v \div 2
         /\ u = 2 * (u \div 2) \/ u = 1
  BY SMT DEF Sizes

LEMMA UlpExists ==
  ASSUME NEW p \in Nat, NEW n \in Nat, n < 2048 * p
  PROVE  \E u \in Sizes : n < u * p /\ (u = 1 \/ n >= (u \div 2) * p)
<1>1. CASE n < p
  BY <1>1, SMT DEF Sizes
<1>2. CASE n >= p /\ n < 2 * p
  BY <1>2, SMT DEF Sizes
<1>3. CASE n >= 2 * p /\ n < 4 * p
  BY <1>3, SMT DEF Sizes
<1>4. CASE n >= 4 * p /\ n < 8 * p
  BY <1>4, SMT DEF Sizes
<1>5. CASE n >= 8 * p /\ n < 16 * p
  BY <1>5, SMT DEF Sizes
<1>6. CASE n >= 16 * p /\ n < 32 * p
  BY <1>6, SMT DEF Sizes
<1>7. CASE n >= 32 * p /\ n < 64 * p
  BY <1>7, SMT DEF Sizes
<1>8. CASE n >= 64 * p /\ n < 128 * p
  BY <1>8, SMT DEF Sizes
<1>9. CASE n >= 128 * p /\ n < 256 * p
  BY <1>9, SMT DEF Sizes
<1>10. CASE n >= 256 * p /\ n < 512 * p
  BY <1>10, SMT DEF Sizes
<1>11. CASE n >= 512 * p /\ n < 1024 * p
  BY <1>11, SMT DEF Sizes
<1>12. CASE n >= 1024 * p /\ n < 2048 * p
  BY <1>12, SMT DEF Sizes
<1> QED BY <1>1, <1>2, <1>3, <1>4, <1>5, <1>6, <1>7, <1>8, <1>9, <1>10, <1>11, <1>12, SMT

LEMMA UlpFits ==
  ASSUME NEW n \in Nat, n < 2048 * Precision
  PROVE  Ladder!Ulp(n) \in Sizes /\ UlpOf(Ladder!Ulp(n), n)
<1>1. Precision \in Nat
  BY FloatsAssumption DEF Ladder!FloatsAssumption
<1>2. \E u \in Sizes : UlpOf(u, n)
  BY <1>1, UlpExists DEF UlpOf
<1>3. Ladder!Magnitude(n) = n
  BY SMT DEF Ladder!Magnitude
<1>4. Ladder!Ulp(n) = CHOOSE u \in Sizes : UlpOf(u, n)
  BY <1>3 DEF Ladder!Ulp, Sizes, UlpOf
<1> QED BY <1>2, <1>4

\* Division with rest.
LEMMA DivisionWithRest ==
  ASSUME NEW n \in Nat, NEW u \in Nat, u > 0
  PROVE  n \div u \in Nat /\ n % u \in Nat /\ n % u < u /\ n = (n \div u) * u + (n % u)
  BY SMT

LEMMA RoundsNearest ==
  ASSUME NEW n \in Nat, n < 2048 * Precision
  PROVE  Ladder!Round(n) \in Nat /\ Ladder!Round(n) >= n - Ladder!Ulp(n) \div 2
<1> DEFINE u == Ladder!Ulp(n)
           down == n \div u
           rest == n % u
           down1 == (down + 1) * u
<1>1. u \in Nat /\ u > 0 /\ u \div 2 \in Nat /\ (u = 2 * (u \div 2) \/ u = 1)
  BY UlpFits, SizesDouble
<1>2. Ladder!Round(n) = IF 2 * rest < u \/ (2 * rest = u /\ down % 2 = 0) THEN down * u ELSE (down + 1) * u
  BY DEF Ladder!Round
<1> HIDE DEF u
<1>3. down \in Nat /\ rest \in Nat /\ rest < u /\ n = down * u + rest
  BY <1>1, DivisionWithRest
<1> HIDE DEF down, rest
<1>4. down * u = n - rest /\ (down + 1) * u = n - rest + u
  BY <1>1, <1>3, SMT
<1>5. n - rest \in Nat /\ n - rest + u \in Nat
  BY <1>1, <1>3, <1>4, SMT
<1>6. n - rest + u >= n - u \div 2
  BY <1>1, <1>3, SMT
<1>7. 2 * rest <= u => n - rest >= n - u \div 2
  BY <1>1, <1>3, SMT
<1> QED BY <1>1, <1>2, <1>3, <1>4, <1>5, <1>6, <1>7, SMT DEF u

\* The least that a rung is above the one before: no increment is rounded away.
Rise == MinInc - Ladder!Ulp(One) \div 2
Top  == One + Eps

LEMMA LadderNumbers ==
  /\ Precision \in Nat /\ One \in Nat /\ Eps \in Nat /\ MinInc \in Nat /\ DefaultInc \in Nat
  /\ RungCap \in Nat /\ RungCap >= 1 /\ Eps > 0 /\ Precision > 0
  /\ Ladder!Ulp(One) \in Sizes
  /\ 2 * One = Ladder!Ulp(One) * Precision /\ 3 * One < 2048 * Precision
  /\ Eps + Ladder!Ulp(One) <= One
  /\ MinInc <= DefaultInc /\ DefaultInc <= One
  /\ Rise \in Nat /\ Rise > 0 /\ Top \in Nat
<1>1. /\ Precision \in Nat /\ One \in Nat /\ Eps \in Nat /\ MinInc \in Nat /\ DefaultInc \in Nat
      /\ RungCap \in Nat /\ RungCap >= 1 /\ Eps > 0 /\ Precision > 0
  BY FloatsAssumption DEF Ladder!FloatsAssumption
<1>2. /\ 2 * One = Ladder!Ulp(One) * Precision /\ 3 * One < 2048 * Precision
      /\ Eps + Ladder!Ulp(One) <= One /\ Ladder!Ulp(One) < MinInc
      /\ MinInc <= DefaultInc /\ DefaultInc <= One
  BY FloatsAssumption DEF Ladder!FloatsAssumption
<1>3. Ladder!Ulp(One) \in Sizes
  <2>1. One < 2048 * Precision
    BY <1>1, <1>2, SMT
  <2> QED BY <1>1, <2>1, UlpFits
<1> DEFINE u == Ladder!Ulp(One)
<1>4. u \in Nat /\ u \div 2 \in Nat /\ (u = 2 * (u \div 2) \/ u = 1)
  BY <1>3, SizesDouble
<1>5. u < MinInc
  BY <1>2
<1> HIDE DEF u
<1>6. MinInc - u \div 2 \in Nat /\ MinInc - u \div 2 > 0
  BY <1>1, <1>4, <1>5, SMT
<1>7. One + Eps \in Nat
  BY <1>1, SMT
<1> QED BY <1>1, <1>2, <1>3, <1>6, <1>7 DEF Rise, Top, u

\* A sum below the top of the ladder loses no more than half a quantum of 1.0.
LEMMA RungsRise ==
  ASSUME NEW t \in Nat, NEW inc \in Nat, t < Top, MinInc <= inc, inc <= One
  PROVE  /\ Ladder!Round(t + inc) \in Nat
         /\ Ladder!Round(t + inc) < Top => Ladder!Round(t + inc) >= t + Rise
<1> DEFINE n == t + inc
           u == Ladder!Ulp(n)
           u1 == Ladder!Ulp(One)
           r == Ladder!Round(n)
<1>1. n \in Nat /\ n < 3 * One /\ n < 2048 * Precision
  <2>1. u1 \in Sizes /\ u1 \in Nat
    BY LadderNumbers, SizesDouble
  <2> HIDE DEF u1
  <2>2. Eps + u1 <= One
    BY LadderNumbers DEF u1
  <2>3. One \in Nat /\ Eps \in Nat /\ Precision \in Nat /\ 3 * One < 2048 * Precision
    BY LadderNumbers
  <2>4. t < One + Eps
    BY DEF Top
  <2>5. n \in Nat /\ n < 3 * One
    BY <2>1, <2>2, <2>3, <2>4, SMT
  <2> HIDE DEF n
  <2> QED BY <2>3, <2>5, SMT
<1>2. r \in Nat /\ r >= n - u \div 2
  BY <1>1, RoundsNearest
<1>3. u \in Sizes /\ n < u * Precision /\ (u = 1 \/ n >= (u \div 2) * Precision)
  BY <1>1, UlpFits DEF UlpOf
<1>4. u1 \in Sizes /\ 2 * One = u1 * Precision /\ Eps + u1 <= One
  BY LadderNumbers
<1>5. /\ u \in Nat /\ u > 0 /\ u \div 2 \in Nat /\ u1 \in Nat /\ u1 > 0 /\ u1 \div 2 \in Nat
      /\ u > u1 => u \div 2 >= u1 /\ u >= 2 * u1
      /\ u <= u1 => u \div 2 <= u1 \div 2
      /\ u = 2 * (u \div 2) \/ u = 1
  BY <1>3, <1>4, SizesDouble
<1>6. Rise = MinInc - u1 \div 2
  BY DEF Rise
<1> HIDE DEF n, u, u1, r
<1>7. CASE u <= u1
  <2>1. n >= t + MinInc
    BY LadderNumbers, SMT DEF n
  <2> QED BY <1>2, <1>5, <1>6, <1>7, <2>1, LadderNumbers, SMT DEF r, n
<1>8. CASE u > u1
  <2>1. u \div 2 >= u1 /\ u # 1
    BY <1>5, <1>8, SMT
  <2>2. n >= (u \div 2) * Precision
    BY <1>3, <2>1
  <2>3. u \div 2 <= u1
    <3> DEFINE h == u \div 2
    <3>1. h \in Nat /\ h >= u1 /\ n >= h * Precision
      BY <1>5, <2>1, <2>2
    <3> SUFFICES ASSUME h > u1 PROVE FALSE
      BY <1>5, <3>1, SMT
    <3>2. h >= 2 * u1
      <4>1. h \in Sizes
        BY <1>3, <2>1, SMT DEF Sizes
      <4> HIDE DEF h
      <4> QED BY <1>4, <4>1, SizesDouble
    <3> HIDE DEF h
    <3>3. h * Precision >= (2 * u1) * Precision
      BY <1>5, <3>1, <3>2, LadderNumbers, SMT
    <3>4. (2 * u1) * Precision = 4 * One
      BY <1>4, <1>5, LadderNumbers, SMT
    <3>5. h * Precision \in Nat
      BY <3>1, LadderNumbers, SMT
    <3> QED BY <1>1, <3>1, <3>3, <3>4, <3>5, LadderNumbers, SMT DEF n
  <2>4. (u \div 2) * Precision >= 2 * One
    <3>1. u \div 2 = u1
      BY <1>5, <2>1, <2>3, SMT
    <3>2. (u \div 2) * Precision = u1 * Precision
      BY <3>1
    <3> QED BY <1>4, <3>2, LadderNumbers, SMT
  <2>5. n >= 2 * One
    <3> DEFINE m == (u \div 2) * Precision
    <3>1. m \in Nat
      BY <1>5, LadderNumbers, SMT
    <3> HIDE DEF m
    <3> QED BY <1>1, <2>2, <2>4, <3>1, LadderNumbers, SMT DEF m
  <2>6. r >= 2 * One - u1
    BY <1>1, <1>2, <1>5, <2>3, <2>5, LadderNumbers, SMT
  <2>7. ~(r < Top)
    BY <1>2, <1>4, <1>5, <2>6, LadderNumbers, SMT DEF Top
  <2> QED BY <1>2, <2>7 DEF r, n
<1> QED BY <1>5, <1>7, <1>8, SMT

\* The ladder has a rung for each rise, and the one it ends with.
Steepest == Top \div Rise + 1

RungsInv ==
  /\ rung.n \in Nat
  /\ rungs = 0 => rung.n < Top
  /\ rung.n < Top => rungs * Rise <= rung.n
  /\ rungs > 0 => (rungs - 1) * Rise <= Top

LadderInv ==
  /\ heated \in [temperature : {Ladder!Finite(n) : n \in 0..One},
                 inc : {Ladder!Finite(n) : n \in {0} \cup MinInc..One}]
  /\ phase \in {"idle", "building", "trying"}
  /\ rung.kind = "finite"
  /\ rungs \in 0..RungCap
  /\ phase = "building" => IF heated.inc.n > 0 THEN RungsInv ELSE rungs = 0
  /\ phase = "trying" => rungs >= 1
  /\ rungs <= Steepest

LEMMA DivisionBounds ==
  ASSUME NEW a \in Nat, NEW d \in Nat, d > 0, NEW k \in Nat, k * d <= a
  PROVE  k <= a \div d
<1> DEFINE q == a \div d
<1>1. q \in Nat /\ a < (q + 1) * d
  <2>1. q \in Nat /\ a % d \in Nat /\ a % d < d /\ a = q * d + (a % d)
    BY DivisionWithRest
  <2> DEFINE r == a % d
  <2> HIDE DEF q, r
  <2>2. q \in Nat /\ r \in Nat /\ r < d /\ a = q * d + r
    BY <2>1 DEF r
  <2> QED BY <2>2, SMT
<1> HIDE DEF q
<1> SUFFICES ASSUME k >= q + 1 PROVE FALSE
  BY <1>1, SMT DEF q
<1>2. k * d >= (q + 1) * d
  BY <1>1, SMT
<1> QED BY <1>1, <1>2, SMT

\* What the clamps make of any float.
LEMMA ClampedFloats ==
  ASSUME NEW x \in Ladder!Floats
  PROVE  /\ Ladder!ClampTemperature(x) \in {Ladder!Finite(n) : n \in 0..One}
         /\ Ladder!ClampTemperatureInc(x) \in {Ladder!Finite(n) : n \in {0} \cup MinInc..One}
<1>1. /\ One \in Nat /\ MinInc \in Nat /\ MinInc <= One /\ Quanta \subseteq Int
  <2>1. MinInc <= DefaultInc /\ DefaultInc <= One
        /\ MinInc \in Nat /\ DefaultInc \in Nat /\ One \in Nat
    BY LadderNumbers
  <2>2. MinInc <= One
    BY <2>1
  <2> QED BY <2>1, <2>2, FloatsAssumption DEF Ladder!FloatsAssumption
<1>2. CASE ~Ladder!IsFinite(x)
  <2>1. Ladder!ClampTemperature(x) = Ladder!Finite(0) /\ Ladder!ClampTemperatureInc(x) = Ladder!Finite(0)
    BY <1>2 DEF Ladder!ClampTemperature, Ladder!ClampTemperatureInc
  <2> QED BY <1>1, <2>1
<1>3. CASE Ladder!IsFinite(x)
  <2>1. PICK n \in Quanta : x = Ladder!Finite(n)
    BY <1>3 DEF Ladder!Floats, Ladder!IsFinite, Ladder!NaN, Ladder!Infinity, Ladder!MinusInf
  <2>2. x.n = n /\ n \in Int
    BY <1>1, <2>1 DEF Ladder!Finite
  <2>3. /\ Ladder!ClampTemperature(x) = IF n < 0 THEN Ladder!Finite(0)
                                       ELSE IF n > One THEN Ladder!Finite(One) ELSE Ladder!Finite(n)
        /\ Ladder!ClampTemperatureInc(x) = IF n < MinInc THEN Ladder!Finite(0)
                                          ELSE IF n > One THEN Ladder!Finite(One) ELSE Ladder!Finite(n)
    BY <1>3, <2>1, <2>2 DEF Ladder!ClampTemperature, Ladder!ClampTemperatureInc
  <2>4. /\ 0 \in 0..One /\ One \in 0..One /\ (~(n < 0) /\ ~(n > One) => n \in 0..One)
        /\ One \in MinInc..One /\ (~(n < MinInc) /\ ~(n > One) => n \in MinInc..One)
    BY <1>1, <2>2
  <2> HIDE DEF Ladder!Finite
  <2> QED BY <2>3, <2>4
<1> QED BY <1>2, <1>3

LEMMA LadderStarts == Ladder!Init => LadderInv
<1> SUFFICES ASSUME Ladder!Init PROVE LadderInv
  OBVIOUS
<1>1. /\ heated = [temperature |-> Ladder!Finite(0), inc |-> Ladder!Finite(DefaultInc)]
      /\ phase = "idle" /\ rung.kind = "finite" /\ rungs = 0
  BY DEF Ladder!Init, Ladder!Finite
<1>2. 0 \in 0..One /\ DefaultInc \in MinInc..One /\ 0 \in 0..RungCap /\ 0 <= Steepest
  <2>1. Top \div Rise \in Nat
    BY LadderNumbers, DivisionWithRest
  <2> QED BY <2>1, LadderNumbers DEF Steepest
<1>3. heated \in [temperature : {Ladder!Finite(n) : n \in 0..One},
                  inc : {Ladder!Finite(n) : n \in {0} \cup MinInc..One}]
  <2> HIDE DEF Ladder!Finite
  <2>1. DefaultInc \in {0} \cup MinInc..One
    BY <1>2
  <2> QED BY <1>1, <1>2, <2>1
<1> QED BY <1>1, <1>2, <1>3 DEF LadderInv

\* One turn of the loop, in numbers.
LEMMA PushRises ==
  ASSUME NEW t \in Nat, NEW k \in Nat, NEW next \in Nat, NEW after \in {k, k + 1},
         t < Top, k * Rise <= t, k > 0 => (k - 1) * Rise <= Top,
         next < Top => next >= t + Rise
  PROVE  /\ next < Top => after * Rise <= next
         /\ after > 0 => (after - 1) * Rise <= Top
         /\ after <= Steepest
<1>1. Rise \in Nat /\ Rise > 0 /\ Top \in Nat
  BY LadderNumbers
<1> DEFINE rise == k * Rise
<1>2. rise \in Nat /\ (k + 1) * Rise = rise + Rise
  BY <1>1, SMT
<1>3. ASSUME next < Top PROVE after * Rise <= next
  <2>1. next >= t + Rise
    BY <1>3
  <2>2. after * Rise = rise \/ after * Rise = rise + Rise
    BY <1>2
  <2> HIDE DEF rise
  <2>3. rise <= t
    BY DEF rise
  <2> QED BY <1>1, <1>2, <2>1, <2>2, <2>3, SMT
<1>4. ASSUME after > 0 PROVE (after - 1) * Rise <= Top
  <2>1. CASE after = k
    BY <1>4, <2>1
  <2>2. CASE after = k + 1
    <3>1. after - 1 = k
      BY <2>2, SMT
    <3>2. (after - 1) * Rise = rise
      BY <3>1
    <3> HIDE DEF rise
    <3>3. rise <= t
      BY DEF rise
    <3> QED BY <1>1, <1>2, <3>2, <3>3, SMT
  <2> QED BY <2>1, <2>2
<1>5. after <= Steepest
  <2>1. after \in Nat /\ Top \div Rise \in Nat
    BY <1>1, DivisionWithRest
  <2>2. CASE after = 0
    BY <2>1, <2>2 DEF Steepest
  <2>3. CASE after > 0
    <3>1. after - 1 \in Nat /\ (after - 1) * Rise <= Top
      BY <1>4, <2>1, <2>3
    <3>2. after - 1 <= Top \div Rise
      BY <1>1, <3>1, DivisionBounds
    <3> QED BY <2>1, <3>2 DEF Steepest
  <2> QED BY <2>1, <2>2, <2>3
<1> QED BY <1>3, <1>4, <1>5

LEMMA LadderKept == LadderInv /\ [Ladder!Next]_ladderVars => LadderInv'
<1> SUFFICES ASSUME LadderInv, [Ladder!Next]_ladderVars PROVE LadderInv'
  OBVIOUS
<1> DEFINE Temperatures == {Ladder!Finite(n) : n \in 0..One}
           Incs == {Ladder!Finite(n) : n \in {0} \cup MinInc..One}
<1>T. heated \in [temperature : Temperatures, inc : Incs]
  BY DEF LadderInv
<1>R. rungs \in 0..RungCap /\ rung.kind = "finite" /\ rungs <= Steepest
  BY DEF LadderInv
<1>S. Steepest \in Nat /\ Steepest >= 1
  <2>1. Top \div Rise \in Nat
    BY LadderNumbers, DivisionWithRest
  <2> QED BY <2>1 DEF Steepest
<1>N. /\ heated.inc.n \in Nat
      /\ heated.inc.n > 0 => MinInc <= heated.inc.n /\ heated.inc.n <= One
      /\ heated.temperature.n \in Nat /\ heated.temperature.n < Top
      /\ heated.temperature.kind = "finite"
  <2>1. PICK t \in 0..One : heated.temperature = Ladder!Finite(t)
    BY <1>T
  <2>2. PICK n \in {0} \cup MinInc..One : heated.inc = Ladder!Finite(n)
    BY <1>T
  <2>3. /\ heated.temperature.n = t /\ heated.temperature.kind = "finite" /\ heated.inc.n = n
    BY <2>1, <2>2 DEF Ladder!Finite
  <2>4. t \in Nat /\ t < Top
    BY LadderNumbers DEF Top
  <2>5. n \in Nat /\ (n > 0 => MinInc <= n /\ n <= One)
    BY LadderNumbers
  <2> QED BY <2>3, <2>4, <2>5
<1>1. ASSUME NEW x \in Ladder!Floats, Ladder!SetTemperature(x) PROVE LadderInv'
  <2>1. /\ heated' = [heated EXCEPT !.temperature = Ladder!ClampTemperature(x)]
        /\ phase = "idle" /\ phase' = phase /\ rung' = rung /\ rungs' = rungs
    BY <1>1 DEF Ladder!SetTemperature
  <2>2. heated' \in [temperature : Temperatures, inc : Incs]
    <3>1. Ladder!ClampTemperature(x) \in Temperatures
      BY ClampedFloats
    <3> HIDE DEF Temperatures, Incs
    <3> QED BY <1>T, <2>1, <3>1
  <2> QED BY <1>R, <2>1, <2>2 DEF LadderInv
<1>2. ASSUME NEW x \in Ladder!Floats, Ladder!SetTemperatureInc(x) PROVE LadderInv'
  <2>1. /\ heated' = [heated EXCEPT !.inc = Ladder!ClampTemperatureInc(x)]
        /\ phase = "idle" /\ phase' = phase /\ rung' = rung /\ rungs' = rungs
    BY <1>2 DEF Ladder!SetTemperatureInc
  <2>2. heated' \in [temperature : Temperatures, inc : Incs]
    <3>1. Ladder!ClampTemperatureInc(x) \in Incs
      BY ClampedFloats
    <3> HIDE DEF Temperatures, Incs
    <3> QED BY <1>T, <2>1, <3>1
  <2> QED BY <1>R, <2>1, <2>2 DEF LadderInv
<1>3. CASE Ladder!FullStarts
  <2>1. /\ phase' = "building" /\ rung' = heated.temperature /\ rungs' = 0 /\ heated' = heated
    BY <1>3 DEF Ladder!FullStarts
  <2>2. 0 \in 0..RungCap /\ 0 <= Steepest
    BY <1>S, LadderNumbers
  <2>3. RungsInv'
    <3>1. 0 * Rise = 0
      BY LadderNumbers, SMT
    <3> QED BY <1>N, <2>1, <3>1 DEF RungsInv, Top, Rise
  <2> QED BY <1>T, <1>N, <2>1, <2>2, <2>3 DEF LadderInv
<1>4. CASE Ladder!Pushes
  <2>1. /\ phase = "building" /\ heated.inc.n > 0 /\ Ladder!Less(rung, Top)
        /\ rung' = Ladder!Plus(rung, heated.inc)
        /\ rungs' = IF rungs < RungCap THEN rungs + 1 ELSE rungs
        /\ heated' = heated /\ phase' = phase
    BY <1>4 DEF Ladder!Pushes, Top
  <2>2. RungsInv
    BY <2>1 DEF LadderInv
  <2>3. rung.n \in Nat /\ rung.n < Top
    <3>1. rung.kind # "-inf"
      BY <1>R
    <3> QED BY <2>1, <2>2, <3>1 DEF Ladder!Less, RungsInv
  <2>4. rung'.n = Ladder!Round(rung.n + heated.inc.n) /\ rung'.kind = "finite"
    BY <1>R, <2>1 DEF Ladder!Plus, Ladder!IsFinite, Ladder!Finite
  <2>5. /\ rung'.n \in Nat
        /\ rung'.n < Top => rung'.n >= rung.n + Rise
    BY <1>N, <2>1, <2>3, <2>4, RungsRise
  <2>6. rungs \in Nat /\ rungs' \in {rungs, rungs + 1} /\ rungs' \in 0..RungCap /\ rungs' >= 1
    <3>1. RungCap \in Nat /\ RungCap >= 1
      BY LadderNumbers
    <3> QED BY <1>R, <2>1, <3>1
  <2>7. /\ rung'.n < Top => rungs' * Rise <= rung'.n
        /\ rungs' > 0 => (rungs' - 1) * Rise <= Top
        /\ rungs' <= Steepest
    <3>1. rungs * Rise <= rung.n /\ (rungs > 0 => (rungs - 1) * Rise <= Top)
      BY <2>2, <2>3 DEF RungsInv
    <3> QED BY <2>3, <2>5, <2>6, <3>1, PushRises
  <2>8. rungs' # 0
    BY <2>6
  <2>9. RungsInv'
    BY <2>5, <2>7, <2>8 DEF RungsInv, Top, Rise
  <2>10. heated'.inc.n > 0
    BY <2>1
  <2>11. Steepest' = Steepest
    BY DEF Steepest, Top, Rise
  <2> QED BY <1>T, <2>1, <2>4, <2>6, <2>7, <2>9, <2>10 DEF LadderInv
<1>5. CASE Ladder!LadderEnds
  <2>1. /\ phase = "building" /\ heated.inc.n > 0 /\ ~Ladder!Less(rung, Top)
        /\ phase' = "trying" /\ heated' = heated /\ rung' = rung /\ rungs' = rungs
    BY <1>5 DEF Ladder!LadderEnds, Top
  <2>2. RungsInv
    BY <2>1 DEF LadderInv
  <2>3. ~(rung.n < Top)
    BY <1>R, <2>1 DEF Ladder!Less, Ladder!IsFinite
  <2>4. rungs >= 1
    BY <1>R, <2>2, <2>3, LadderNumbers DEF RungsInv
  <2> QED BY <1>T, <1>R, <2>1, <2>4 DEF LadderInv
<1>6. CASE Ladder!SingleAttempt
  <2>1. /\ phase' = "trying" /\ rungs' = 1 /\ heated' = heated /\ rung' = rung
    BY <1>6 DEF Ladder!SingleAttempt
  <2>2. 1 \in 0..RungCap
    BY LadderNumbers
  <2> QED BY <1>T, <1>R, <1>S, <2>1, <2>2 DEF LadderInv
<1>7. CASE Ladder!Returns
  <2>1. phase' = "idle" /\ rung'.kind = "finite" /\ rungs' = 0 /\ heated' = heated
    BY <1>7 DEF Ladder!Returns, Ladder!Finite
  <2>2. 0 \in 0..RungCap
    BY LadderNumbers
  <2> QED BY <1>T, <1>S, <2>1, <2>2 DEF LadderInv
<1>8. CASE UNCHANGED ladderVars
  BY <1>8 DEF ladderVars, LadderInv, RungsInv
<1> QED BY <1>1, <1>2, <1>3, <1>4, <1>5, <1>6, <1>7, <1>8 DEF Ladder!Next

LEMMA LadderShort == LadderInv => LadderIsShort
  BY DEF LadderInv, LadderIsShort, Ladder!LadderIsShort, Steepest, Top, Rise

-----------------------------------------------------------------------------
(***************************************************************************)
(* The memory behind the raw pointers.                                     *)
(***************************************************************************)
Slots    == Ownership!Slots
Payloads == Ownership!Payloads
Hook     == "abort_callback"
Prompt   == "prompt_tokens"

\* An owner is of the type of its field, and owns alone.
OwnersInv ==
  /\ \A slot \in Slots : owner[slot] # Null => owner[slot] \in Ownership!PayloadsOf(slot)
  /\ \A s, t \in Slots : s # t /\ owner[s] # Null => owner[s] # owner[t]

\* What is live is owned, or on its way to its field.
HeapInv ==
  \A p \in Payloads : heap[p] = "live" <=> (p = incoming \/ \E slot \in Slots : owner[slot] = p)

\* set_abort_callback unpublishes the hook before anything else.
SetterInv ==
  /\ setting = "rest" => incoming = Null
  /\ setting # "rest" => /\ ~gone /\ calls = <<>>
                         /\ incoming \in Closures /\ raw[Hook] = Null
  /\ setting = "drop old" => owner[Hook] # incoming
  /\ setting \in {"box", "store"} => owner[Hook] = Null
  /\ setting = "publish" => owner[Hook] = incoming

Matches(slot) ==
  \/ raw[slot] = owner[slot]
  \/ slot = "language" /\ owner[slot] = Null /\ raw[slot] = EnLiteral

\* Pointer and owner agree, and so do the fields that travel in pairs.
RawInv ==
  /\ gone => calls = <<>> /\ \A slot \in Slots : owner[slot] = Null
  /\ ~gone => /\ \A slot \in Slots : Matches(slot) \/ (slot = Hook /\ setting # "rest")
              /\ trampoline = (raw[Hook] # Null)
              /\ count = IF raw[Prompt] = Null THEN 0 ELSE length[raw[Prompt]]

\* While an inference borrows the Params, nothing in raw changes.
Copied(copy) == copy.raw = raw /\ copy.trampoline = trampoline /\ copy.count = count
CallsInv == \A i \in DOMAIN calls : Copied(calls[i])

OwnershipInv ==
  Ownership!TypeOK /\ OwnersInv /\ HeapInv /\ SetterInv /\ RawInv /\ CallsInv

-----------------------------------------------------------------------------
\* Payloads of a field are payloads, and only the two texts share a type.
LEMMA PayloadTypes ==
  /\ Null \notin Payloads /\ EnLiteral \notin Payloads /\ Null # EnLiteral
  /\ Hook \in Slots /\ Prompt \in Slots /\ Hook # Prompt
  /\ \A slot \in Slots : Ownership!PayloadsOf(slot) \subseteq Payloads
  /\ Ownership!PayloadsOf(Hook) = Closures
  /\ Ownership!PayloadsOf(Prompt) = TokenBuffers
  /\ \A slot \in Slots : slot # Hook => Ownership!PayloadsOf(slot) \cap Closures = {}
<1>1. Null \notin Payloads /\ EnLiteral \notin Payloads /\ Null # EnLiteral
  BY OwnershipAssumption DEF Ownership!PayloadsAssumption, Payloads, Ownership!Payloads
<1>2. Hook \in Slots /\ Prompt \in Slots /\ Hook # Prompt
  BY DEF Hook, Prompt, Slots, Ownership!Slots
<1>3. /\ Ownership!PayloadsOf("language") = CStrings
      /\ Ownership!PayloadsOf("initial_prompt") = CStrings
      /\ Ownership!PayloadsOf("prompt_tokens") = TokenBuffers
      /\ Ownership!PayloadsOf("abort_callback") = Closures
  BY DEF Ownership!PayloadsOf
<1>4. /\ CStrings \subseteq Payloads /\ TokenBuffers \subseteq Payloads
      /\ Closures \subseteq Payloads
      /\ CStrings \cap Closures = {} /\ TokenBuffers \cap Closures = {}
  BY OwnershipAssumption DEF Ownership!PayloadsAssumption, Payloads, Ownership!Payloads
<1> QED BY <1>1, <1>2, <1>3, <1>4 DEF Slots, Ownership!Slots, Hook, Prompt

LEMMA OwnershipStarts == Ownership!Init => OwnershipInv
<1> SUFFICES ASSUME Ownership!Init PROVE OwnershipInv
  OBVIOUS
<1>1. /\ heap = [p \in Payloads |-> "none"]
      /\ raw = [slot \in Slots |-> IF slot = "language" THEN EnLiteral ELSE Null]
      /\ trampoline = FALSE /\ count = 0
      /\ length = [b \in TokenBuffers |-> 0]
      /\ owner = [slot \in Slots |-> Null]
      /\ setting = "rest" /\ incoming = Null /\ calls = <<>> /\ gone = FALSE
  BY DEF Ownership!Init, Payloads, Slots
<1>2. Ownership!TypeOK
  <2>1. 0 \in 0..MaxTokens
    BY OwnershipAssumption DEF Ownership!BoundsAssumption
  <2>2. heap \in [Ownership!Payloads -> {"none", "live", "freed"}]
    BY <1>1 DEF Payloads
  <2>3. raw \in [Ownership!Slots -> Ownership!Payloads \cup {Null, EnLiteral}]
    BY <1>1 DEF Slots
  <2>4. owner \in [Ownership!Slots -> Ownership!Payloads \cup {Null}]
    BY <1>1 DEF Slots
  <2>5. length \in [TokenBuffers -> 0..MaxTokens]
    BY <1>1, <2>1
  <2>6. setting \in Ownership!Steps /\ calls \in Seq(Ownership!Frame)
    BY <1>1 DEF Ownership!Steps
  <2>7. trampoline \in BOOLEAN /\ gone \in BOOLEAN
    BY <1>1
  <2> QED BY <1>1, <2>1, <2>2, <2>3, <2>4, <2>5, <2>6, <2>7 DEF Ownership!TypeOK
<1>3. OwnersInv
  BY <1>1 DEF OwnersInv
<1>4. HeapInv
  BY <1>1, PayloadTypes DEF HeapInv
<1>5. SetterInv
  BY <1>1 DEF SetterInv
<1>6. raw[Hook] = Null /\ raw[Prompt] = Null
  BY <1>1, PayloadTypes DEF Hook, Prompt
<1>7. \A slot \in Slots : Matches(slot)
  BY <1>1 DEF Matches
<1>8. RawInv
  BY <1>1, <1>6, <1>7 DEF RawInv
<1>9. CallsInv
  BY <1>1 DEF CallsInv
<1> QED BY <1>2, <1>3, <1>4, <1>5, <1>8, <1>9 DEF OwnershipInv

\* A field takes a new value and drops the old one.
LEMMA OwnerExchanged ==
  ASSUME OwnershipInv, NEW slot \in Slots, NEW x \in Ownership!PayloadsOf(slot), heap[x] = "none",
         incoming = Null, incoming' = Null,
         owner' = [owner EXCEPT ![slot] = x],
         heap' = Ownership!Exchanged(x, owner[slot])
  PROVE  OwnersInv' /\ HeapInv'
<1>1. x \in Payloads /\ x # Null
  BY PayloadTypes
<1>2. \A s \in Slots : owner[s] # x
  BY <1>1 DEF OwnershipInv, HeapInv
<1>3. /\ owner'[slot] = x
      /\ \A s \in Slots : s # slot => owner'[s] = owner[s]
  BY DEF OwnershipInv, Ownership!TypeOK, Slots
<1>4. OwnersInv'
  BY <1>1, <1>2, <1>3 DEF OwnershipInv, OwnersInv
<1>5. HeapInv'
  <2> SUFFICES ASSUME NEW p \in Payloads
               PROVE  heap'[p] = "live" <=> (p = incoming' \/ \E s \in Slots : owner'[s] = p)
    BY DEF HeapInv
  <2>1. heap'[p] = IF p = x THEN "live" ELSE IF p = owner[slot] THEN "freed" ELSE heap[p]
    BY DEF Ownership!Exchanged, Payloads
  <2>2. p # Null
    BY PayloadTypes
  <2>3. CASE p = x
    BY <1>3, <2>1, <2>3
  <2>4. CASE p # x /\ p = owner[slot]
    <3>1. \A s \in Slots : s # slot => owner[s] # p
      BY <2>2, <2>4 DEF OwnershipInv, OwnersInv
    <3> QED BY <1>3, <2>1, <2>2, <2>4, <3>1
  <2>5. CASE p # x /\ p # owner[slot]
    <3>1. heap[p] = "live" <=> \E s \in Slots : owner[s] = p
      BY <2>2 DEF OwnershipInv, HeapInv
    <3>2. (\E s \in Slots : owner[s] = p) <=> (\E s \in Slots : owner'[s] = p)
      BY <1>3, <2>5
    <3> QED BY <2>1, <2>2, <2>5, <3>1, <3>2
  <2> QED BY <2>3, <2>4, <2>5
<1> QED BY <1>4, <1>5

\* A field drops its value; set_abort_callback may drop its argument with it.
LEMMA OwnerDropped ==
  ASSUME OwnershipInv, NEW slot \in Slots,
         incoming' \in {incoming, Null},
         \A s \in Slots : owner[s] = incoming => incoming = Null,
         owner' = [owner EXCEPT ![slot] = Null],
         \A p \in Payloads :
           heap'[p] = IF p = owner[slot] \/ (p = incoming /\ incoming' = Null)
                      THEN "freed" ELSE heap[p]
  PROVE  OwnersInv' /\ HeapInv'
<1>1. /\ owner'[slot] = Null
      /\ \A s \in Slots : s # slot => owner'[s] = owner[s]
  BY DEF OwnershipInv, Ownership!TypeOK, Slots
<1>2. OwnersInv'
  BY <1>1 DEF OwnershipInv, OwnersInv
<1>3. HeapInv'
  <2> SUFFICES ASSUME NEW p \in Payloads
               PROVE  heap'[p] = "live" <=> (p = incoming' \/ \E s \in Slots : owner'[s] = p)
    BY DEF HeapInv
  <2>1. heap'[p] = IF p = owner[slot] \/ (p = incoming /\ incoming' = Null)
                   THEN "freed" ELSE heap[p]
    OBVIOUS
  <2>2. p # Null
    BY PayloadTypes
  <2>3. CASE p = owner[slot]
    <3>1. \A s \in Slots : s # slot => owner[s] # p
      BY <2>2, <2>3 DEF OwnershipInv, OwnersInv
    <3>2. p # incoming'
      BY <2>2, <2>3
    <3> QED BY <1>1, <2>1, <2>2, <2>3, <3>1, <3>2
  <2>4. CASE p # owner[slot] /\ p = incoming /\ incoming' = Null
    BY <1>1, <2>1, <2>2, <2>4
  <2>5. CASE p # owner[slot] /\ ~(p = incoming /\ incoming' = Null)
    <3>1. heap'[p] = heap[p]
      BY <2>1, <2>5
    <3>2. heap[p] = "live" <=> (p = incoming \/ \E s \in Slots : owner[s] = p)
      BY DEF OwnershipInv, HeapInv
    <3>3. (\E s \in Slots : owner[s] = p) <=> (\E s \in Slots : owner'[s] = p)
      BY <1>1, <2>2, <2>5
    <3>4. p = incoming <=> p = incoming'
      BY <2>2, <2>5
    <3> QED BY <3>1, <3>2, <3>3, <3>4
  <2> QED BY <2>3, <2>4, <2>5
<1> QED BY <1>2, <1>3

-----------------------------------------------------------------------------
\* The heap stays a heap.
LEMMA ExchangedHeap ==
  ASSUME NEW x, NEW y, heap \in [Payloads -> {"none", "live", "freed"}],
         heap' = Ownership!Exchanged(x, y)
  PROVE  heap' \in [Payloads -> {"none", "live", "freed"}]
  BY DEF Ownership!Exchanged, Payloads

LEMMA DroppedHeap ==
  ASSUME NEW D, heap \in [Payloads -> {"none", "live", "freed"}], heap' = Ownership!Dropped(D)
  PROVE  heap' \in [Payloads -> {"none", "live", "freed"}]
  BY DEF Ownership!Dropped, Payloads

\* A setter that stores a text or tokens, up to the type of what it stores.
LEMMA SetterRests ==
  ASSUME OwnershipInv, Ownership!Exclusive,
         Ownership!TypeOK', OwnersInv', HeapInv',
         UNCHANGED <<setting, incoming, calls, gone>>,
         \A slot \in Slots : Matches(slot)',
         (trampoline = (raw[Hook] # Null))',
         (count = IF raw[Prompt] = Null THEN 0 ELSE length[raw[Prompt]])'
  PROVE  OwnershipInv'
<1>1. setting' = "rest" /\ calls' = <<>> /\ ~gone' /\ incoming' = Null
  BY DEF Ownership!Exclusive, OwnershipInv, SetterInv
<1>2. SetterInv'
  BY <1>1 DEF SetterInv
<1>3. RawInv'
  BY <1>1 DEF RawInv
<1>4. CallsInv'
  BY <1>1 DEF CallsInv
<1> QED BY <1>2, <1>3, <1>4 DEF OwnershipInv

LEMMA SetTextKeeps ==
  ASSUME OwnershipInv, NEW slot \in {"language", "initial_prompt"}, NEW x \in CStrings,
         Ownership!SetText(slot, x)
  PROVE  OwnershipInv'
<1>1. /\ Ownership!Exclusive /\ heap[x] = "none"
      /\ raw' = [raw EXCEPT ![slot] = x] /\ owner' = [owner EXCEPT ![slot] = x]
      /\ heap' = Ownership!Exchanged(x, owner[slot])
      /\ UNCHANGED <<trampoline, count, length, setting, incoming, calls, gone>>
  BY DEF Ownership!SetText
<1>2. slot \in Slots /\ slot # Hook /\ slot # Prompt
      /\ Ownership!PayloadsOf(slot) = CStrings /\ x \in Payloads
  BY DEF Slots, Ownership!Slots, Hook, Prompt, Ownership!PayloadsOf, Payloads, Ownership!Payloads
<1>3. incoming = Null /\ incoming' = Null
  BY <1>1 DEF Ownership!Exclusive, OwnershipInv, SetterInv
<1>4. OwnersInv' /\ HeapInv'
  BY <1>1, <1>2, <1>3, OwnerExchanged
<1>5. Ownership!TypeOK'
  BY <1>1, <1>2, ExchangedHeap DEF OwnershipInv, Ownership!TypeOK, Payloads
<1>6. /\ raw'[slot] = x /\ owner'[slot] = x
      /\ \A s \in Slots : s # slot => raw'[s] = raw[s] /\ owner'[s] = owner[s]
  BY <1>1, <1>2 DEF OwnershipInv, Ownership!TypeOK, Slots
<1>7. \A s \in Slots : Matches(s)'
  BY <1>1, <1>6 DEF OwnershipInv, RawInv, Ownership!Exclusive, Matches
<1>8. raw'[Hook] = raw[Hook] /\ raw'[Prompt] = raw[Prompt]
  BY <1>2, <1>6, PayloadTypes
<1>9. /\ (trampoline = (raw[Hook] # Null))'
      /\ (count = IF raw[Prompt] = Null THEN 0 ELSE length[raw[Prompt]])'
  BY <1>1, <1>8 DEF OwnershipInv, RawInv, Ownership!Exclusive
<1> QED BY <1>1, <1>4, <1>5, <1>7, <1>9, SetterRests

LEMMA SetTokensKeeps ==
  ASSUME OwnershipInv, NEW b \in TokenBuffers, NEW n \in 1..MaxTokens, Ownership!SetTokens(b, n)
  PROVE  OwnershipInv'
<1>1. /\ Ownership!Exclusive /\ heap[b] = "none"
      /\ raw' = [raw EXCEPT ![Prompt] = b] /\ owner' = [owner EXCEPT ![Prompt] = b]
      /\ heap' = Ownership!Exchanged(b, owner[Prompt])
      /\ count' = n /\ length' = [length EXCEPT ![b] = n]
      /\ UNCHANGED <<trampoline, setting, incoming, calls, gone>>
  BY DEF Ownership!SetTokens, Prompt
<1>2. b \in Payloads /\ b \in Ownership!PayloadsOf(Prompt)
  BY PayloadTypes DEF Payloads, Ownership!Payloads
<1>3. incoming = Null /\ incoming' = Null
  BY <1>1 DEF Ownership!Exclusive, OwnershipInv, SetterInv
<1>4. OwnersInv' /\ HeapInv'
  BY <1>1, <1>2, <1>3, OwnerExchanged, PayloadTypes
<1>5. Ownership!TypeOK'
  <2>1. count' \in 0..MaxTokens /\ length' \in [TokenBuffers -> 0..MaxTokens]
    <3>1. n \in 0..MaxTokens
      BY OwnershipAssumption DEF Ownership!BoundsAssumption
    <3> QED BY <1>1, <3>1 DEF OwnershipInv, Ownership!TypeOK
  <2> QED BY <1>1, <1>2, <2>1, ExchangedHeap DEF OwnershipInv, Ownership!TypeOK, Payloads
<1>6. /\ raw'[Prompt] = b /\ owner'[Prompt] = b /\ length'[b] = n
      /\ \A s \in Slots : s # Prompt => raw'[s] = raw[s] /\ owner'[s] = owner[s]
  BY <1>1, PayloadTypes DEF OwnershipInv, Ownership!TypeOK, Slots
<1>7. \A s \in Slots : Matches(s)'
  BY <1>1, <1>6 DEF OwnershipInv, RawInv, Ownership!Exclusive, Matches
<1>8. raw'[Hook] = raw[Hook] /\ b # Null
  BY <1>2, <1>6, PayloadTypes
<1>9. /\ (trampoline = (raw[Hook] # Null))'
      /\ (count = IF raw[Prompt] = Null THEN 0 ELSE length[raw[Prompt]])'
  BY <1>1, <1>6, <1>8 DEF OwnershipInv, RawInv, Ownership!Exclusive
<1> QED BY <1>1, <1>4, <1>5, <1>7, <1>9, SetterRests

LEMMA ClearTokensKeeps ==
  ASSUME OwnershipInv, Ownership!ClearTokens PROVE OwnershipInv'
<1>1. /\ Ownership!Exclusive
      /\ raw' = [raw EXCEPT ![Prompt] = Null] /\ owner' = [owner EXCEPT ![Prompt] = Null]
      /\ heap' = Ownership!Dropped({owner[Prompt]})
      /\ count' = 0
      /\ UNCHANGED <<trampoline, length, setting, incoming, calls, gone>>
  BY DEF Ownership!ClearTokens, Prompt
<1>2. incoming = Null /\ incoming' = Null
  BY <1>1 DEF Ownership!Exclusive, OwnershipInv, SetterInv
<1>3. \A p \in Payloads :
        heap'[p] = IF p = owner[Prompt] \/ (p = incoming /\ incoming' = Null)
                   THEN "freed" ELSE heap[p]
  BY <1>1, <1>2, PayloadTypes DEF Ownership!Dropped, Payloads
<1>4. OwnersInv' /\ HeapInv'
  <2>1. /\ Prompt \in Slots /\ incoming' \in {incoming, Null}
        /\ \A s \in Slots : owner[s] = incoming => incoming = Null
    BY <1>2, PayloadTypes
  <2>2. owner' = [owner EXCEPT ![Prompt] = Null]
    BY <1>1
  <2> QED BY <1>3, <2>1, <2>2, OwnerDropped
<1>5. Ownership!TypeOK'
  <2>1. count' \in 0..MaxTokens
    BY <1>1, OwnershipAssumption DEF Ownership!BoundsAssumption
  <2> QED BY <1>1, <2>1, DroppedHeap DEF OwnershipInv, Ownership!TypeOK, Payloads
<1>6. /\ raw'[Prompt] = Null /\ owner'[Prompt] = Null
      /\ \A s \in Slots : s # Prompt => raw'[s] = raw[s] /\ owner'[s] = owner[s]
  BY <1>1, PayloadTypes DEF OwnershipInv, Ownership!TypeOK, Slots
<1>7. \A s \in Slots : Matches(s)'
  BY <1>1, <1>6 DEF OwnershipInv, RawInv, Ownership!Exclusive, Matches
<1>8. raw'[Hook] = raw[Hook]
  BY <1>6, PayloadTypes
<1>9. /\ (trampoline = (raw[Hook] # Null))'
      /\ (count = IF raw[Prompt] = Null THEN 0 ELSE length[raw[Prompt]])'
  BY <1>1, <1>6, <1>8 DEF OwnershipInv, RawInv, Ownership!Exclusive
<1> QED BY <1>1, <1>4, <1>5, <1>7, <1>9, SetterRests

-----------------------------------------------------------------------------
\* A step of set_abort_callback: nothing but the hook and its way changes.
LEMMA HookStep ==
  ASSUME OwnershipInv, ~gone, calls = <<>>,
         Ownership!TypeOK', OwnersInv', HeapInv', SetterInv',
         UNCHANGED <<count, length, calls, gone>>,
         \A slot \in Slots : slot # Hook => raw'[slot] = raw[slot] /\ owner'[slot] = owner[slot],
         setting' = "rest" => raw'[Hook] = owner'[Hook],
         trampoline' = (raw'[Hook] # Null)
  PROVE  OwnershipInv'
<1>1. raw'[Prompt] = raw[Prompt]
  BY PayloadTypes
<1>2. \A slot \in Slots : Matches(slot)' \/ (slot = Hook /\ setting' # "rest")
  BY DEF OwnershipInv, RawInv, Matches
<1>3. RawInv'
  BY <1>1, <1>2 DEF OwnershipInv, RawInv
<1>4. CallsInv'
  BY DEF CallsInv
<1> QED BY <1>3, <1>4 DEF OwnershipInv

\* No field holds a closure on its way to one.
LEMMA IncomingIsNew ==
  ASSUME OwnershipInv, setting \in {"drop old", "box", "store"}
  PROVE  \A s \in Slots : owner[s] # incoming
<1>1. incoming \in Closures /\ owner[Hook] # incoming
  BY PayloadTypes DEF OwnershipInv, SetterInv, Payloads, Ownership!Payloads
<1>2. ASSUME NEW s \in Slots, s # Hook, owner[s] = incoming PROVE FALSE
  <2>1. owner[s] # Null /\ owner[s] \in Closures
    BY <1>1, <1>2, PayloadTypes DEF Payloads, Ownership!Payloads
  <2>2. owner[s] \in Ownership!PayloadsOf(s)
    BY <2>1 DEF OwnershipInv, OwnersInv
  <2> QED BY <1>2, <2>1, <2>2, PayloadTypes
<1> QED BY <1>1, <1>2

LEMMA NullsHooksKeeps ==
  ASSUME OwnershipInv, NEW k \in Closures, Ownership!NullsHooks(k) PROVE OwnershipInv'
<1>1. /\ Ownership!Exclusive /\ heap[k] = "none"
      /\ heap' = [heap EXCEPT ![k] = "live"] /\ incoming' = k
      /\ raw' = [raw EXCEPT ![Hook] = Null] /\ trampoline' = FALSE /\ setting' = "drop old"
      /\ UNCHANGED <<count, length, owner, calls, gone>>
  BY DEF Ownership!NullsHooks, Hook
<1>2. k \in Payloads /\ k # Null
  BY PayloadTypes DEF Payloads, Ownership!Payloads
<1>3. incoming = Null /\ setting = "rest" /\ calls = <<>> /\ ~gone
  BY <1>1 DEF Ownership!Exclusive, OwnershipInv, SetterInv
<1>4. raw'[Hook] = Null /\ \A s \in Slots : s # Hook => raw'[s] = raw[s]
  BY <1>1, PayloadTypes DEF OwnershipInv, Ownership!TypeOK, Slots
<1>5. \A s \in Slots : owner[s] # k
  BY <1>1, <1>2 DEF OwnershipInv, HeapInv
<1>6. OwnersInv'
  BY <1>1 DEF OwnershipInv, OwnersInv
<1>7. HeapInv'
  <2> SUFFICES ASSUME NEW p \in Payloads
               PROVE  heap'[p] = "live" <=> (p = k \/ \E s \in Slots : owner[s] = p)
    BY <1>1 DEF HeapInv
  <2>1. heap'[p] = IF p = k THEN "live" ELSE heap[p]
    BY <1>1, <1>2 DEF OwnershipInv, Ownership!TypeOK, Payloads
  <2>2. heap[p] = "live" <=> \E s \in Slots : owner[s] = p
    BY <1>3, PayloadTypes DEF OwnershipInv, HeapInv
  <2> QED BY <2>1, <2>2
<1>8. SetterInv'
  BY <1>1, <1>3, <1>4, <1>5, PayloadTypes DEF SetterInv
<1>9. Ownership!TypeOK'
  <2>1. heap' \in [Payloads -> {"none", "live", "freed"}]
    BY <1>1, <1>2 DEF OwnershipInv, Ownership!TypeOK, Payloads
  <2>2. raw' \in [Slots -> Payloads \cup {Null, EnLiteral}]
    BY <1>1 DEF OwnershipInv, Ownership!TypeOK, Payloads, Slots
  <2>3. setting' \in Ownership!Steps /\ trampoline' \in BOOLEAN /\ incoming' \in Closures \cup {Null}
    BY <1>1 DEF Ownership!Steps
  <2> QED BY <1>1, <2>1, <2>2, <2>3 DEF OwnershipInv, Ownership!TypeOK, Payloads, Slots
<1> QED BY <1>1, <1>3, <1>4, <1>6, <1>7, <1>8, <1>9, HookStep

\* The old closure goes, and with it, where its Drop panics, the new one.
LEMMA DropKeeps ==
  ASSUME OwnershipInv, setting = "drop old", NEW D,
         heap' = Ownership!Dropped(D),
         owner' = [owner EXCEPT ![Hook] = Null],
         UNCHANGED <<raw, trampoline, count, length, calls, gone>>,
         \/ D = {owner[Hook]} /\ setting' = "box" /\ incoming' = incoming
         \/ D = {owner[Hook], incoming} /\ setting' = "rest" /\ incoming' = Null
  PROVE  OwnershipInv'
<1>1. \A s \in Slots : owner[s] # incoming
  BY IncomingIsNew
<1>2. ~gone /\ calls = <<>> /\ incoming \in Closures /\ raw[Hook] = Null
  BY DEF OwnershipInv, SetterInv
<1>3. incoming # Null /\ Hook \in Slots
  BY <1>2, PayloadTypes DEF Payloads, Ownership!Payloads
<1>4. \A p \in Payloads :
        heap'[p] = IF p = owner[Hook] \/ (p = incoming /\ incoming' = Null)
                   THEN "freed" ELSE heap[p]
  BY <1>3 DEF Ownership!Dropped, Payloads
<1>5. OwnersInv' /\ HeapInv'
  <2>1. /\ incoming' \in {incoming, Null}
        /\ \A s \in Slots : owner[s] = incoming => incoming = Null
    BY <1>1
  <2> QED BY <1>3, <1>4, <2>1, OwnerDropped
<1>6. owner'[Hook] = Null /\ \A s \in Slots : s # Hook => owner'[s] = owner[s]
  BY <1>3 DEF OwnershipInv, Ownership!TypeOK, Slots
<1>7. SetterInv'
  BY <1>2, <1>6 DEF SetterInv
<1>8. Ownership!TypeOK'
  <2>1. heap' \in [Payloads -> {"none", "live", "freed"}]
    BY DroppedHeap DEF OwnershipInv, Ownership!TypeOK, Payloads
  <2>2. owner' \in [Slots -> Payloads \cup {Null}]
    BY DEF OwnershipInv, Ownership!TypeOK, Payloads, Slots
  <2>3. setting' \in Ownership!Steps /\ incoming' \in Closures \cup {Null}
    BY <1>2 DEF Ownership!Steps
  <2> QED BY <2>1, <2>2, <2>3 DEF OwnershipInv, Ownership!TypeOK, Payloads, Slots
<1>9. trampoline' = (raw'[Hook] # Null)
  BY <1>2 DEF OwnershipInv, RawInv
<1> QED BY <1>2, <1>5, <1>6, <1>7, <1>8, <1>9, HookStep

LEMMA BoxesKeeps ==
  ASSUME OwnershipInv, Ownership!Boxes PROVE OwnershipInv'
<1>1. /\ setting = "box" /\ setting' = "store"
      /\ UNCHANGED <<heap, raw, trampoline, count, length, owner, incoming, calls, gone>>
  BY DEF Ownership!Boxes
<1>2. setting' \in Ownership!Steps
  BY <1>1 DEF Ownership!Steps
<1>3. Ownership!TypeOK'
  BY <1>1, <1>2 DEF OwnershipInv, Ownership!TypeOK
<1>4. OwnersInv' /\ HeapInv' /\ SetterInv'
  BY <1>1 DEF OwnershipInv, OwnersInv, HeapInv, SetterInv
<1>5. ~gone /\ calls = <<>> /\ trampoline' = (raw'[Hook] # Null)
  BY <1>1 DEF OwnershipInv, SetterInv, RawInv
<1> QED BY <1>1, <1>3, <1>4, <1>5, HookStep

LEMMA BoxPanicsKeeps ==
  ASSUME OwnershipInv, Ownership!BoxPanics PROVE OwnershipInv'
<1>1. /\ setting = "box" /\ setting' = "rest" /\ incoming' = Null
      /\ heap' = Ownership!Dropped({incoming})
      /\ UNCHANGED <<raw, trampoline, count, length, owner, calls, gone>>
  BY DEF Ownership!BoxPanics
<1>2. ~gone /\ calls = <<>> /\ raw[Hook] = Null /\ owner[Hook] = Null
  BY <1>1 DEF OwnershipInv, SetterInv
<1>3. \A s \in Slots : owner[s] # incoming
  BY <1>1, IncomingIsNew
<1>4. OwnersInv'
  BY <1>1 DEF OwnershipInv, OwnersInv
<1>5. HeapInv'
  <2> SUFFICES ASSUME NEW p \in Payloads
               PROVE  heap'[p] = "live" <=> \E s \in Slots : owner[s] = p
    BY <1>1, PayloadTypes DEF HeapInv
  <2>1. heap'[p] = IF p = incoming THEN "freed" ELSE heap[p]
    BY <1>1 DEF Ownership!Dropped, Payloads
  <2>2. heap[p] = "live" <=> (p = incoming \/ \E s \in Slots : owner[s] = p)
    BY DEF OwnershipInv, HeapInv
  <2> QED BY <1>3, <2>1, <2>2
<1>6. SetterInv'
  BY <1>1 DEF SetterInv
<1>7. Ownership!TypeOK'
  <2>1. heap' \in [Payloads -> {"none", "live", "freed"}]
    BY <1>1, DroppedHeap DEF OwnershipInv, Ownership!TypeOK, Payloads
  <2>2. setting' \in Ownership!Steps /\ incoming' \in Closures \cup {Null}
    BY <1>1 DEF Ownership!Steps
  <2> QED BY <1>1, <2>1, <2>2 DEF OwnershipInv, Ownership!TypeOK, Payloads
<1>8. trampoline' = (raw'[Hook] # Null) /\ raw'[Hook] = owner'[Hook]
  BY <1>1, <1>2 DEF OwnershipInv, RawInv
<1> QED BY <1>1, <1>2, <1>4, <1>5, <1>6, <1>7, <1>8, HookStep

LEMMA StoresKeeps ==
  ASSUME OwnershipInv, Ownership!Stores PROVE OwnershipInv'
<1>1. /\ setting = "store" /\ setting' = "publish"
      /\ owner' = [owner EXCEPT ![Hook] = incoming]
      /\ UNCHANGED <<heap, raw, trampoline, count, length, incoming, calls, gone>>
  BY DEF Ownership!Stores, Hook
<1>2. ~gone /\ calls = <<>> /\ raw[Hook] = Null /\ owner[Hook] = Null /\ incoming \in Closures
  BY <1>1 DEF OwnershipInv, SetterInv
<1>3. \A s \in Slots : owner[s] # incoming
  BY <1>1, IncomingIsNew
<1>4. /\ owner'[Hook] = incoming
      /\ \A s \in Slots : s # Hook => owner'[s] = owner[s]
  BY <1>1, PayloadTypes DEF OwnershipInv, Ownership!TypeOK, Slots
<1>5. OwnersInv'
  BY <1>2, <1>3, <1>4, PayloadTypes DEF OwnershipInv, OwnersInv
<1>6. HeapInv'
  <2> SUFFICES ASSUME NEW p \in Payloads
               PROVE  heap[p] = "live" <=> (p = incoming \/ \E s \in Slots : owner'[s] = p)
    BY <1>1 DEF HeapInv
  <2>1. heap[p] = "live" <=> (p = incoming \/ \E s \in Slots : owner[s] = p)
    BY DEF OwnershipInv, HeapInv
  <2>2. p # Null
    BY PayloadTypes
  <2> QED BY <1>2, <1>4, <2>1, <2>2
<1>7. SetterInv'
  BY <1>1, <1>2, <1>4 DEF SetterInv
<1>8. Ownership!TypeOK'
  <2>1. owner' \in [Slots -> Payloads \cup {Null}]
    BY <1>1, <1>2 DEF OwnershipInv, Ownership!TypeOK, Payloads, Slots, Ownership!Payloads
  <2>2. setting' \in Ownership!Steps
    BY <1>1 DEF Ownership!Steps
  <2> QED BY <1>1, <2>1, <2>2 DEF OwnershipInv, Ownership!TypeOK, Payloads, Slots
<1>9. trampoline' = (raw'[Hook] # Null)
  BY <1>1, <1>2 DEF OwnershipInv, RawInv
<1> QED BY <1>1, <1>2, <1>4, <1>5, <1>6, <1>7, <1>8, <1>9, HookStep

LEMMA PublishesKeeps ==
  ASSUME OwnershipInv, Ownership!Publishes PROVE OwnershipInv'
<1>1. /\ setting = "publish" /\ setting' = "rest"
      /\ raw' = [raw EXCEPT ![Hook] = incoming]
      /\ trampoline' = TRUE /\ incoming' = Null
      /\ UNCHANGED <<heap, count, length, owner, calls, gone>>
  BY DEF Ownership!Publishes, Hook
<1>2. ~gone /\ calls = <<>> /\ owner[Hook] = incoming /\ incoming \in Closures
  BY <1>1 DEF OwnershipInv, SetterInv
<1>3. raw'[Hook] = incoming /\ \A s \in Slots : s # Hook => raw'[s] = raw[s]
  BY <1>1, PayloadTypes DEF OwnershipInv, Ownership!TypeOK, Slots
<1>4. OwnersInv'
  BY <1>1 DEF OwnershipInv, OwnersInv
<1>5. HeapInv'
  BY <1>1, <1>2, PayloadTypes DEF OwnershipInv, HeapInv
<1>6. SetterInv'
  BY <1>1 DEF SetterInv
<1>7. Ownership!TypeOK'
  <2>1. raw' \in [Slots -> Payloads \cup {Null, EnLiteral}]
    BY <1>1, <1>2 DEF OwnershipInv, Ownership!TypeOK, Payloads, Slots, Ownership!Payloads
  <2>2. setting' \in Ownership!Steps /\ incoming' \in Closures \cup {Null} /\ trampoline' \in BOOLEAN
    BY <1>1 DEF Ownership!Steps
  <2> QED BY <1>1, <2>1, <2>2 DEF OwnershipInv, Ownership!TypeOK, Payloads, Slots
<1>8. trampoline' = (raw'[Hook] # Null)
  BY <1>1, <1>2, <1>3, PayloadTypes DEF Payloads, Ownership!Payloads
<1> QED BY <1>1, <1>2, <1>3, <1>4, <1>5, <1>6, <1>7, <1>8, HookStep

-----------------------------------------------------------------------------
\* The inferences that are under way, with one more, one less or one changed.
LEMMA LastCount ==
  ASSUME NEW n \in Nat, n > 0
  PROVE  /\ n - 1 \in Int /\ (IF 1 <= n - 1 THEN n - 1 - 1 + 1 ELSE 0) = n - 1
         /\ \A i \in 1..(n - 1) : i \in 1..(n - 1 - 1 + 1) /\ 1 + i - 1 = i /\ i \in 1..n
  OBVIOUS

LEMMA OtherCalls ==
  ASSUME NEW S, NEW s \in Seq(S), s # <<>>
  PROVE  /\ Len(s) \in DOMAIN s
         /\ Ownership!Last(s) = s[Len(s)]
         /\ Ownership!Front(s) \in Seq(S)
         /\ \A i \in DOMAIN Ownership!Front(s) : i \in DOMAIN s /\ Ownership!Front(s)[i] = s[i]
<1> DEFINE n == Len(s)
           front == SubSeq(s, 1, n - 1)
<1>1. n \in Nat /\ n > 0 /\ DOMAIN s = 1..n
  BY EmptySeq, LenProperties
<1>2. \A i \in 1..n : s[i] \in S
  BY ElementOfSeq
<1>3. Ownership!Front(s) = front /\ Ownership!Last(s) = s[n]
  BY DEF Ownership!Front, Ownership!Last
<1> HIDE DEF n
<1>4. /\ n - 1 \in Int /\ (IF 1 <= n - 1 THEN n - 1 - 1 + 1 ELSE 0) = n - 1
      /\ \A i \in 1..(n - 1) : i \in 1..(n - 1 - 1 + 1) /\ 1 + i - 1 = i /\ i \in 1..n
  BY <1>1, LastCount
<1>5. /\ front \in Seq(S)
      /\ Len(front) = IF 1 <= n - 1 THEN n - 1 - 1 + 1 ELSE 0
      /\ \A i \in 1..(n - 1 - 1 + 1) : front[i] = s[1 + i - 1]
  BY <1>2, <1>4, SubSeqProperties
<1> HIDE DEF front
<1>6. Len(front) = n - 1
  BY <1>4, <1>5
<1>7. DOMAIN front = 1..(n - 1)
  BY <1>5, <1>6, LenProperties
<1>8. ASSUME NEW i \in 1..(n - 1) PROVE i \in 1..n /\ front[i] = s[i]
  <2>1. i \in 1..(n - 1 - 1 + 1) /\ 1 + i - 1 = i /\ i \in 1..n
    BY <1>4, Zenon
  <2>2. front[i] = s[1 + i - 1]
    BY <1>5, <2>1, Zenon
  <2> QED BY <2>1, <2>2, Zenon
<1>9. n \in 1..n
  BY <1>1
<1> QED BY <1>1, <1>3, <1>5, <1>7, <1>8, <1>9 DEF n

LEMMA CallStep ==
  ASSUME OwnershipInv, setting = "rest", ~gone, calls' \in Seq(Ownership!Frame),
         \A i \in DOMAIN calls' : Copied(calls'[i]),
         UNCHANGED <<heap, raw, trampoline, count, length, owner, setting, incoming, gone>>
  PROVE  OwnershipInv'
<1>1. Ownership!TypeOK'
  BY DEF OwnershipInv, Ownership!TypeOK
<1>2. OwnersInv' /\ HeapInv' /\ SetterInv'
  BY DEF OwnershipInv, OwnersInv, HeapInv, SetterInv
<1>3. RawInv'
  BY DEF OwnershipInv, RawInv, Matches
<1>4. CallsInv'
  BY DEF CallsInv, Copied
<1> QED BY <1>1, <1>2, <1>3, <1>4 DEF OwnershipInv

LEMMA InfersKeeps ==
  ASSUME OwnershipInv, Ownership!Infers PROVE OwnershipInv'
<1> DEFINE frame == [raw |-> raw, trampoline |-> trampoline, count |-> count, inside |-> FALSE]
<1>1. /\ setting = "rest" /\ ~gone /\ calls' = Append(calls, frame)
      /\ UNCHANGED <<heap, raw, trampoline, count, length, owner, setting, incoming, gone>>
  BY DEF Ownership!Infers
<1>2. calls \in Seq(Ownership!Frame) /\ \A i \in DOMAIN calls : Copied(calls[i])
  BY DEF OwnershipInv, CallsInv, Ownership!TypeOK
<1>3. frame \in Ownership!Frame
  BY DEF OwnershipInv, Ownership!TypeOK, Ownership!Frame
<1>4. Copied(frame)
  BY DEF Copied
<1> HIDE DEF frame
<1>5. /\ Append(calls, frame) \in Seq(Ownership!Frame)
      /\ Len(Append(calls, frame)) = Len(calls) + 1
      /\ \A i \in 1..(Len(calls) + 1) :
           Append(calls, frame)[i] = IF i <= Len(calls) THEN calls[i] ELSE frame
  BY <1>2, <1>3, AppendProperties
<1>6. \A i \in DOMAIN calls' : Copied(calls'[i])
  BY <1>1, <1>2, <1>4, <1>5
<1> QED BY <1>1, <1>5, <1>6, CallStep

\* The callback of the innermost inference, entered or left.
LEMMA InsideStep ==
  ASSUME OwnershipInv, calls # <<>>, NEW inside \in BOOLEAN,
         calls' = Append(Ownership!Front(calls),
                         [Ownership!Last(calls) EXCEPT !.inside = inside]),
         UNCHANGED <<heap, raw, trampoline, count, length, owner, setting, incoming, gone>>
  PROVE  OwnershipInv'
<1> DEFINE frame == [Ownership!Last(calls) EXCEPT !.inside = inside]
           front == Ownership!Front(calls)
<1>1. calls \in Seq(Ownership!Frame) /\ \A i \in DOMAIN calls : Copied(calls[i])
  BY DEF OwnershipInv, CallsInv, Ownership!TypeOK
<1>2. /\ Ownership!Last(calls) \in Ownership!Frame /\ Copied(Ownership!Last(calls))
      /\ front \in Seq(Ownership!Frame)
      /\ \A i \in DOMAIN front : Copied(front[i])
  <2> HIDE DEF front
  <2>1. /\ Len(calls) \in DOMAIN calls
        /\ Ownership!Last(calls) = calls[Len(calls)]
        /\ front \in Seq(Ownership!Frame)
        /\ \A i \in DOMAIN front : i \in DOMAIN calls /\ front[i] = calls[i]
    BY <1>1, OtherCalls DEF front
  <2>2. calls[Len(calls)] \in Ownership!Frame
    <3> HIDE DEF Ownership!Frame
    <3> QED BY <1>1, <2>1, ElementOfSeq
  <2> QED BY <1>1, <2>1, <2>2
<1>3. frame \in Ownership!Frame
  BY <1>2 DEF Ownership!Frame
<1>4. Copied(frame)
  <2>1. /\ frame.raw = Ownership!Last(calls).raw
        /\ frame.trampoline = Ownership!Last(calls).trampoline
        /\ frame.count = Ownership!Last(calls).count
    BY <1>2 DEF Ownership!Frame
  <2> QED BY <1>2, <2>1 DEF Copied
<1>5. setting = "rest" /\ ~gone
  BY DEF OwnershipInv, SetterInv, RawInv
<1> HIDE DEF frame, front
<1>6. /\ Append(front, frame) \in Seq(Ownership!Frame)
      /\ Len(Append(front, frame)) = Len(front) + 1
      /\ \A i \in 1..(Len(front) + 1) :
           Append(front, frame)[i] = IF i <= Len(front) THEN front[i] ELSE frame
  BY <1>2, <1>3, AppendProperties
<1>7. calls' = Append(front, frame)
  BY DEF front, frame
<1>8. \A i \in DOMAIN calls' : Copied(calls'[i])
  BY <1>2, <1>4, <1>6, <1>7
<1>9. calls' \in Seq(Ownership!Frame)
  BY <1>6, <1>7
<1> QED BY <1>5, <1>8, <1>9, CallStep

LEMMA ReturnsKeeps ==
  ASSUME OwnershipInv, Ownership!Returns PROVE OwnershipInv'
<1>1. /\ calls # <<>> /\ calls' = Ownership!Front(calls)
      /\ UNCHANGED <<heap, raw, trampoline, count, length, owner, setting, incoming, gone>>
  BY DEF Ownership!Returns
<1>2. calls \in Seq(Ownership!Frame) /\ \A i \in DOMAIN calls : Copied(calls[i])
  BY DEF OwnershipInv, CallsInv, Ownership!TypeOK
<1>3. /\ calls' \in Seq(Ownership!Frame)
      /\ \A i \in DOMAIN calls' : i \in DOMAIN calls /\ calls'[i] = calls[i]
  BY <1>1, <1>2, OtherCalls
<1>4. \A i \in DOMAIN calls' : Copied(calls'[i])
  BY <1>2, <1>3
<1>5. setting = "rest" /\ ~gone
  BY <1>1 DEF OwnershipInv, SetterInv, RawInv
<1> QED BY <1>1, <1>3, <1>4, <1>5, CallStep

-----------------------------------------------------------------------------
LEMMA ParamsDropsKeeps ==
  ASSUME OwnershipInv, Ownership!ParamsDrops PROVE OwnershipInv'
<1>1. /\ Ownership!Exclusive
      /\ heap' = Ownership!Dropped({owner[slot] : slot \in Slots})
      /\ owner' = [slot \in Slots |-> Null] /\ gone' = TRUE
      /\ UNCHANGED <<raw, trampoline, count, length, setting, incoming, calls>>
  BY DEF Ownership!ParamsDrops, Slots
<1>2. setting = "rest" /\ incoming = Null /\ calls = <<>>
  BY <1>1 DEF Ownership!Exclusive, OwnershipInv, SetterInv
<1>3. OwnersInv'
  BY <1>1 DEF OwnersInv
<1>4. HeapInv'
  <2> SUFFICES ASSUME NEW p \in Payloads
               PROVE  heap'[p] # "live" /\ p # Null
    BY <1>1, <1>2 DEF HeapInv
  <2>1. heap'[p] = IF \E slot \in Slots : owner[slot] = p THEN "freed" ELSE heap[p]
    BY <1>1 DEF Ownership!Dropped, Payloads
  <2>2. heap[p] = "live" <=> (p = incoming \/ \E s \in Slots : owner[s] = p)
    BY DEF OwnershipInv, HeapInv
  <2> QED BY <1>2, <2>1, <2>2, PayloadTypes
<1>5. SetterInv' /\ RawInv' /\ CallsInv'
  BY <1>1, <1>2 DEF SetterInv, RawInv, CallsInv
<1>6. Ownership!TypeOK'
  <2>1. heap' \in [Payloads -> {"none", "live", "freed"}]
    BY <1>1, DroppedHeap DEF OwnershipInv, Ownership!TypeOK, Payloads
  <2>2. owner' \in [Slots -> Payloads \cup {Null}] /\ gone' \in BOOLEAN
    BY <1>1
  <2> QED BY <1>1, <2>1, <2>2 DEF OwnershipInv, Ownership!TypeOK, Payloads, Slots
<1> QED BY <1>3, <1>4, <1>5, <1>6 DEF OwnershipInv

LEMMA ParamsRenewsKeeps ==
  ASSUME OwnershipInv, Ownership!ParamsRenews PROVE OwnershipInv'
<1>1. /\ gone /\ gone' = FALSE
      /\ heap' = [p \in Payloads |-> "none"]
      /\ raw' = [slot \in Slots |-> IF slot = "language" THEN EnLiteral ELSE Null]
      /\ trampoline' = FALSE /\ count' = 0 /\ length' = [b \in TokenBuffers |-> 0]
      /\ UNCHANGED <<owner, setting, incoming, calls>>
  BY DEF Ownership!ParamsRenews, Payloads, Slots
<1>2. calls = <<>> /\ setting = "rest" /\ incoming = Null /\ \A slot \in Slots : owner[slot] = Null
  BY <1>1 DEF OwnershipInv, RawInv, SetterInv
<1>3. OwnersInv'
  BY <1>1, <1>2 DEF OwnersInv
<1>4. HeapInv'
  BY <1>1, <1>2, PayloadTypes DEF HeapInv
<1>5. SetterInv' /\ CallsInv'
  BY <1>1, <1>2 DEF SetterInv, CallsInv
<1>6. raw'[Hook] = Null /\ raw'[Prompt] = Null
  BY <1>1, PayloadTypes DEF Hook, Prompt
<1>7. \A slot \in Slots : Matches(slot)'
  BY <1>1, <1>2 DEF Matches
<1>8. RawInv'
  BY <1>1, <1>6, <1>7 DEF RawInv
<1>9. Ownership!TypeOK'
  <2>1. 0 \in 0..MaxTokens
    BY OwnershipAssumption DEF Ownership!BoundsAssumption
  <2>2. heap' \in [Payloads -> {"none", "live", "freed"}]
    BY <1>1
  <2>3. raw' \in [Slots -> Payloads \cup {Null, EnLiteral}]
    BY <1>1
  <2>4. count' \in 0..MaxTokens /\ length' \in [TokenBuffers -> 0..MaxTokens]
    BY <1>1, <2>1
  <2>5. trampoline' \in BOOLEAN /\ gone' \in BOOLEAN
    BY <1>1
  <2> QED BY <1>1, <2>2, <2>3, <2>4, <2>5 DEF OwnershipInv, Ownership!TypeOK, Payloads, Slots
<1> QED BY <1>3, <1>4, <1>5, <1>8, <1>9 DEF OwnershipInv

LEMMA OwnershipKept == OwnershipInv /\ [Ownership!Next]_ownershipVars => OwnershipInv'
<1> SUFFICES ASSUME OwnershipInv, [Ownership!Next]_ownershipVars PROVE OwnershipInv'
  OBVIOUS
<1>1. CASE Ownership!Setters
  <2>1. ASSUME NEW slot \in {"language", "initial_prompt"}, NEW x \in CStrings,
               Ownership!SetText(slot, x)
        PROVE  OwnershipInv'
    BY <2>1, SetTextKeeps
  <2>2. ASSUME NEW b \in TokenBuffers, NEW n \in 1..MaxTokens, Ownership!SetTokens(b, n)
        PROVE  OwnershipInv'
    BY <2>2, SetTokensKeeps
  <2>3. CASE Ownership!ClearTokens
    BY <2>3, ClearTokensKeeps
  <2>4. ASSUME NEW k \in Closures, Ownership!NullsHooks(k) PROVE OwnershipInv'
    BY <2>4, NullsHooksKeeps
  <2>5. CASE Ownership!DropsOld
    BY <2>5, DropKeeps DEF Ownership!DropsOld, Hook
  <2>6. CASE Ownership!DropPanics
    BY <2>6, DropKeeps DEF Ownership!DropPanics, Hook
  <2>7. CASE Ownership!Boxes
    BY <2>7, BoxesKeeps
  <2>8. CASE Ownership!BoxPanics
    BY <2>8, BoxPanicsKeeps
  <2>9. CASE Ownership!Stores
    BY <2>9, StoresKeeps
  <2>10. CASE Ownership!Publishes
    BY <2>10, PublishesKeeps
  <2> QED BY <1>1, <2>1, <2>2, <2>3, <2>4, <2>5, <2>6, <2>7, <2>8, <2>9, <2>10
          DEF Ownership!Setters
<1>2. CASE Ownership!Infers
  BY <1>2, InfersKeeps
<1>3. CASE Ownership!CallsBack
  BY <1>3, InsideStep DEF Ownership!CallsBack
<1>4. CASE Ownership!CallbackAnswers
  BY <1>4, InsideStep DEF Ownership!CallbackAnswers
<1>5. CASE Ownership!Returns
  BY <1>5, ReturnsKeeps
<1>6. CASE Ownership!ParamsDrops
  BY <1>6, ParamsDropsKeeps
<1>7. CASE Ownership!ParamsRenews
  BY <1>7, ParamsRenewsKeeps
<1>8. CASE UNCHANGED ownershipVars
  BY <1>8
  DEF ownershipVars, OwnershipInv, Ownership!TypeOK, OwnersInv, HeapInv, SetterInv, RawInv,
      Matches, CallsInv, Copied
<1> QED BY <1>1, <1>2, <1>3, <1>4, <1>5, <1>6, <1>7, <1>8 DEF Ownership!Next, Ownership!Inferences

LEMMA PointersOwned == OwnershipInv => PointersAreOwned
<1> SUFFICES ASSUME OwnershipInv, setting = "rest"
             PROVE  /\ gone \/ \A slot \in Slots : Matches(slot)
                    /\ \A p \in Payloads : heap[p] = "live" => \E slot \in Slots : owner[slot] = p
  BY DEF PointersAreOwned, Ownership!PointersAreOwned, Matches, Slots, Payloads
<1>1. gone \/ \A slot \in Slots : Matches(slot)
  BY DEF OwnershipInv, RawInv
<1>2. \A p \in Payloads : heap[p] = "live" => \E slot \in Slots : owner[slot] = p
  BY PayloadTypes DEF OwnershipInv, HeapInv, SetterInv
<1> QED BY <1>1, <1>2

LEMMA CallsReadLive == OwnershipInv => CallsReadLiveMemory
<1> SUFFICES ASSUME OwnershipInv, NEW i \in DOMAIN calls
             PROVE  /\ \A slot \in Slots : Ownership!Points(calls[i].raw[slot])
                    /\ calls[i].trampoline <=> calls[i].raw[Hook] \in Closures
                    /\ calls[i].count = IF calls[i].raw[Prompt] = Null THEN 0
                                        ELSE length[calls[i].raw[Prompt]]
  BY DEF CallsReadLiveMemory, Ownership!CallsReadLiveMemory, Slots, Hook, Prompt
<1>1. calls[i].raw = raw /\ calls[i].trampoline = trampoline /\ calls[i].count = count
  BY DEF OwnershipInv, CallsInv, Copied
<1>2. calls # <<>>
  OBVIOUS
<1>3. setting = "rest" /\ ~gone
  BY <1>2 DEF OwnershipInv, SetterInv, RawInv
<1>4. ASSUME NEW slot \in Slots PROVE Ownership!Points(raw[slot])
  <2>1. Matches(slot)
    BY <1>3 DEF OwnershipInv, RawInv
  <2>2. CASE owner[slot] # Null
    <3>1. owner[slot] \in Payloads
      BY <2>2, PayloadTypes DEF OwnershipInv, OwnersInv
    <3>2. heap[owner[slot]] = "live"
      BY <3>1 DEF OwnershipInv, HeapInv
    <3> QED BY <2>1, <2>2, <3>2 DEF Matches, Ownership!Points
  <2>3. CASE owner[slot] = Null
    BY <2>1, <2>3 DEF Matches, Ownership!Points
  <2> QED BY <2>2, <2>3
<1>5. raw[Hook] # Null <=> raw[Hook] \in Closures
  <2>1. raw[Hook] = owner[Hook]
    BY <1>3, PayloadTypes DEF OwnershipInv, RawInv, Matches, Hook
  <2>2. owner[Hook] # Null => owner[Hook] \in Closures
    BY PayloadTypes DEF OwnershipInv, OwnersInv
  <2>3. Null \notin Closures
    BY PayloadTypes DEF Payloads, Ownership!Payloads
  <2> QED BY <2>1, <2>2, <2>3
<1>6. trampoline = (raw[Hook] # Null)
  BY <1>3 DEF OwnershipInv, RawInv
<1>7. count = IF raw[Prompt] = Null THEN 0 ELSE length[raw[Prompt]]
  BY <1>3 DEF OwnershipInv, RawInv
<1> QED BY <1>1, <1>4, <1>5, <1>6, <1>7

-----------------------------------------------------------------------------
(***************************************************************************)
(* The specification.                                                      *)
(***************************************************************************)
ParamsInv == PreflightInv /\ LadderInv /\ DecodeInv /\ OwnershipInv /\ LanguageInv

LEMMA ParamsStart == Init => ParamsInv
  BY PreflightStarts, LadderStarts, DecodeStarts, OwnershipStarts, LanguageStarts
  DEF Init, ParamsInv

LEMMA ParamsKept == ParamsInv /\ [Next]_vars => ParamsInv'
<1> SUFFICES ASSUME ParamsInv, [Next]_vars PROVE ParamsInv'
  OBVIOUS
<1>1. /\ [Preflight!Next]_preflightVars /\ [Ladder!Next]_ladderVars /\ [Decode!Next]_decodeVars
      /\ [Ownership!Next]_ownershipVars /\ [Language!Next]_languageVars
  <2>1. CASE PreflightStep
    BY <2>1 DEF PreflightStep
  <2>2. CASE LadderStep
    BY <2>2 DEF LadderStep
  <2>3. CASE DecodeStep
    BY <2>3 DEF DecodeStep
  <2>4. CASE OwnershipStep
    BY <2>4 DEF OwnershipStep
  <2>5. CASE LanguageStep
    BY <2>5 DEF LanguageStep
  <2>6. CASE UNCHANGED vars
    BY <2>6 DEF vars
  <2> QED BY <2>1, <2>2, <2>3, <2>4, <2>5, <2>6 DEF Next
<1> QED BY <1>1, PreflightKept, LadderKept, DecodeKept, OwnershipKept, LanguageKept DEF ParamsInv

\* The five invariants hold of the Params, natively used or not, in any order of
\* setters, inferences and drops.
THEOREM ParamsInvariant == Spec => []ParamsInv
<1>1. Init => ParamsInv
  BY ParamsStart
<1>2. ParamsInv /\ [Next]_vars => ParamsInv'
  BY ParamsKept
<1> QED BY <1>1, <1>2, PTL DEF Spec

\* The window that State::full lets through is inside the samples of the call, of
\* any length up to i32 and with any offset and duration that setters store.
THEOREM WindowsFit == Spec => []WindowInsideAudio
<1>1. ParamsInv => WindowInsideAudio
  BY WindowFits DEF ParamsInv
<1> QED BY <1>1, ParamsInvariant, PTL

\* Prompt tokens and language token that State::full lets through are of the model
\* of the call, whichever model they were set for.
THEOREM ParamsSuitTheModel == Spec => []TokensSuitTheModel
<1>1. ParamsInv => TokensSuitTheModel
  BY TokensSuit DEF ParamsInv
<1> QED BY <1>1, ParamsInvariant, PTL

\* State::full refuses no window that ends with the audio, and no language that native
\* code would read rightly, unless the lookup of an explicit or default hint met an
\* exception.
THEOREM RefusalsAreFounded == Spec => []RefusalsAreJust
<1>1. ParamsInv => RefusalsAreJust
  BY RefusalsJust DEF ParamsInv
<1> QED BY <1>1, ParamsInvariant, PTL

\* With floats of any precision the clamps of the two temperature setters keep the
\* ladder from running empty and from growing past the bound.
THEOREM LadderStaysShort == Spec => []LadderIsShort
<1>1. ParamsInv => LadderIsShort
  BY LadderShort DEF ParamsInv
<1> QED BY <1>1, ParamsInvariant, PTL

\* Without the unsafe setter no thread of full is joinable where an exception can
\* pass, on any machine and with any counts.
THEOREM FailuresReachTheShim == Spec => []FailuresAreCaught
<1>1. ParamsInv => FailuresAreCaught
  BY FailuresCaught DEF ParamsInv
<1> QED BY <1>1, ParamsInvariant, PTL

\* Whatever setter ran last, and whether it returned or unwound, raw pointers and
\* owners agree and nothing is leaked.
THEOREM PointersHaveOwners == Spec => []PointersAreOwned
<1>1. ParamsInv => PointersAreOwned
  BY PointersOwned DEF ParamsInv
<1> QED BY <1>1, ParamsInvariant, PTL

\* The copy of raw that an inference works with stays valid and whole until it
\* returns, however deep inferences nest through the abort callback.
THEOREM CopiesStayWhole == Spec => []CallsReadLiveMemory
<1>1. ParamsInv => CallsReadLiveMemory
  BY CallsReadLive DEF ParamsInv
<1> QED BY <1>1, ParamsInvariant, PTL

\* A forced language comes back from detected_lang and from the config as the same
\* Lang, for every table of native code and every set of named variants, in an
\* inference that was not told to detect.
THEOREM LanguageComesBack == Spec => []ForcedLanguageComesBack
<1>1. ParamsInv => ForcedLanguageComesBack
  BY ForcedComesBack DEF ParamsInv
<1> QED BY <1>1, ParamsInvariant, PTL

\* token_for_lang, set_language and the check that full makes of a hint, with detection
\* off, agree on every Lang and model.
THEOREM TokensFollowHints == Spec => []HintAndTokenAgree
<1>1. ParamsInv => HintAndTokenAgree
  BY HintsAgree DEF ParamsInv
<1> QED BY <1>1, ParamsInvariant, PTL
=============================================================================
