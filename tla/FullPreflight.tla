--------------------------- MODULE FullPreflight ----------------------------
(***************************************************************************)
(* What State::full checks before it takes the lock.                       *)
(*                                                                         *)
(* A Params belongs to no model and no buffer: setters run in any order,   *)
(* and one Params is passed with different models and buffers.  Native     *)
(* code checks none of what it is handed, so everything it relies on has   *)
(* to be decided here, between a Params that may be old and the model and  *)
(* samples of this call.                                                   *)
(***************************************************************************)
EXTENDS Integers, Sequences

CONSTANTS
  I32Max,      (* the largest i32                                          *)
  MinSamples,  (* MIN_SAMPLES_FOR_REFLECTIVE_PAD                           *)
  Models,      (* the loaded models: vocabulary size, special tokens       *)
  Languages,   (* ids of whisper.cpp's language table                      *)
  Lengths,     (* sample counts of the buffers                             *)
  Millis,      (* arguments of set_offset_ms and set_duration_ms           *)
  Prompts      (* arguments of set_tokens                                  *)

PreflightAssumption ==
  /\ I32Max \in Nat /\ MinSamples \in Nat
  /\ \A model \in Models : /\ {model.nVocab, model.sot, model.translate} \subseteq 0..I32Max
                           /\ model.multilingual \in BOOLEAN
                           \* whatever a model lacks, it has English
                           /\ model.sot + 1 < model.translate
  /\ Languages \subseteq Nat /\ 0 \in Languages
  /\ Lengths \subseteq Nat
  /\ Millis \subseteq -(I32Max + 1)..I32Max
  /\ \A prompt \in Prompts : prompt \in Seq(Int)

VARIABLES
  params,  \* the fields of whisper_full_params that full validates
  result,  \* what the last full with these params answered
  call     \* its model and buffer, and what it handed to native code

vars == <<params, result, call>>

English   == 0
Auto      == -1   \* the hints "" and "auto", and a null language
Unset     == -2   \* set_language was not called
NoPrefix  == -1   \* no language token is pushed

\* found: the shim's lookup of the hint met no exception.
CallOf(models, samples, found, prompt, prefix, start, end) ==
  [models |-> models, samples |-> samples, found |-> found, prompt |-> prompt,
   prefix |-> prefix, seekStart |-> start, seekEnd |-> end]
NotCalled == CallOf({}, 0, TRUE, <<>>, NoPrefix, 0, 0)

Errors == {"SamplesTooShort", "SamplesOverflow", "TokenOutOfRange",
           "LanguageNotSupportedByModel", "InvalidDuration"}

\* Params::new.
Fresh == [language |-> Unset, detect |-> FALSE, offset |-> 0, duration |-> 0, tokens |-> <<>>]

TypeOK ==
  /\ params \in [language : Languages \cup {Auto, Unset}, detect : BOOLEAN, offset : 0..I32Max,
                 duration : -(I32Max + 1)..I32Max, tokens : Prompts \cup {<<>>}]
  /\ result \in Errors \cup {"none", "ran"}
  /\ (result = "none") = (call = NotCalled)

Init == params = Fresh /\ result = "none" /\ call = NotCalled

-----------------------------------------------------------------------------
(***************************************************************************)
(* The checks.                                                             *)
(***************************************************************************)
\* The length of a buffer in ms, at 16 kHz, rounded down.
AudioMs(samples) == (samples * 1000) \div 16000

\* Mutated forms of definitions below, in no specification.
SupportsById(model, id, found) == found /\ model.sot + 1 + id > model.sot
HintOfOwned(p) == IF p.language # Unset THEN p.language ELSE Auto
LeavesAudioInI32(p, samples) ==
  LET sum     == p.offset + p.duration
      wrapped == IF sum > I32Max THEN sum - 2 * (I32Max + 1) ELSE sum
  IN \/ p.offset < 0 \/ p.duration < 0
     \/ p.duration > 0 /\ wrapped > AudioMs(samples)
     \/ p.duration = 0 /\ p.offset > AudioMs(samples)
LeavesAudioAtItsEnd(p, samples) ==
  p.offset < 0 \/ p.duration < 0 \/ p.offset + p.duration >= AudioMs(samples)

HasNoEmbedding(model, token) == token < 0 \/ token >= model.nVocab

\* lang_id_for knows every hint that set_language took, but None also stands for
\* an exception the shim caught.  whisper_token_lang adds without a bound; what
\* lies past the model's languages are its task tokens.
Supports(model, id, found) ==
  /\ found
  /\ IF model.multilingual
     THEN model.sot + 1 + id > model.sot /\ model.sot + 1 + id < model.translate
     ELSE id = English

\* What the raw pointer names: the hint, or native code's literal "en".
RawHint(p) == IF p.language = Unset THEN English ELSE p.language

\* Params::language: the owned hint, else what the pointer names.
HintOf(p) == IF p.language # Unset THEN p.language ELSE RawHint(p)

AutoDetects(p) == p.detect \/ HintOf(p) = Auto

LanguageMismatch(p, model, found) ==
  IF AutoDetects(p) THEN ~model.multilingual ELSE ~Supports(model, HintOf(p), found)

\* Sums in i64 do not wrap.
LeavesAudio(p, samples) ==
  \/ p.offset < 0 \/ p.duration < 0
  \/ p.duration > 0 /\ p.offset + p.duration > AudioMs(samples)
  \/ p.duration = 0 /\ p.offset > AudioMs(samples)

\* The first check that fails, or "ran".
Verdict(model, samples, found) ==
  CASE samples < MinSamples -> "SamplesTooShort"
    [] samples > I32Max     -> "SamplesOverflow"
    [] samples \in MinSamples..I32Max ->
         IF \E i \in DOMAIN params.tokens : HasNoEmbedding(model, params.tokens[i])
           THEN "TokenOutOfRange"
         ELSE IF LanguageMismatch(params, model, found) THEN "LanguageNotSupportedByModel"
         ELSE IF LeavesAudio(params, samples) THEN "InvalidDuration"
         ELSE "ran"

-----------------------------------------------------------------------------
(***************************************************************************)
(* Native code, on what it is given.                                       *)
(***************************************************************************)
\* The language tokens it may push before it decodes.
Prefixes(model) ==
  IF ~model.multilingual THEN {NoPrefix}
  ELSE IF params.detect \/ RawHint(params) = Auto THEN model.sot + 1 .. model.translate - 1
  ELSE {model.sot + 1 + RawHint(params)}

\* Its window, in frames of 10 ms.
SeekStart == params.offset \div 10
SeekEnd(samples) ==
  IF params.duration = 0 THEN samples \div 160 ELSE SeekStart + params.duration \div 10

-----------------------------------------------------------------------------
(***************************************************************************)
(* The setters, and full.                                                  *)
(***************************************************************************)
Set(p) == params' = p /\ result' = "none" /\ call' = NotCalled

\* set_language refuses what the table does not know.
SetLanguage(language)  == Set([params EXCEPT !.language = language])
SetDetectLanguage(on)  == Set([params EXCEPT !.detect = on])
SetTokens(tokens)      == Set([params EXCEPT !.tokens = tokens])
SetDurationMs(ms)      == Set([params EXCEPT !.duration = ms])

SetOffsetMs(ms)        == Set([params EXCEPT !.offset = IF ms < 0 THEN 0 ELSE ms])

FullRejects(model, samples, found) ==
  /\ Verdict(model, samples, found) # "ran"
  /\ result' = Verdict(model, samples, found)
  /\ call' = CallOf({model}, samples, found, <<>>, NoPrefix, 0, 0)
  /\ UNCHANGED params

FullRuns(model, samples, found) ==
  /\ Verdict(model, samples, found) = "ran"
  /\ result' = "ran"
  /\ \E prefix \in Prefixes(model) :
       call' = CallOf({model}, samples, found, params.tokens, prefix,
                      SeekStart, SeekEnd(samples))
  /\ UNCHANGED params

Next ==
  \/ \E language \in Languages \cup {Auto} : SetLanguage(language)
  \/ \E on \in BOOLEAN : SetDetectLanguage(on)
  \/ \E tokens \in Prompts \cup {<<>>} : SetTokens(tokens)
  \/ \E ms \in Millis : SetOffsetMs(ms) \/ SetDurationMs(ms)
  \/ \E model \in Models, samples \in Lengths, found \in BOOLEAN :
       FullRejects(model, samples, found) \/ FullRuns(model, samples, found)

Spec == Init /\ [][Next]_vars

-----------------------------------------------------------------------------
(***************************************************************************)
(* Properties.                                                             *)
(***************************************************************************)
\* The frames native code decodes are frames of this buffer: it pads reads past
\* the end with silence and would decode it for hours, and reads before the
\* start are out of bounds.  The check is in ms and i64, the window in frames
\* and i32.
WindowInsideAudio ==
  result = "ran" => /\ call.seekStart >= 0
                    /\ 160 * call.seekStart <= call.samples
                    /\ 160 * call.seekEnd <= call.samples

\* Every prompt token has a row in the embeddings of the model it is used with,
\* whichever model it was meant for; and what stands in the place of the language
\* is a language of this model, never the task token behind the last of them, or
\* nothing on an English-only model.
TokensSuitTheModel ==
  result = "ran" => \A model \in call.models :
    /\ \A i \in DOMAIN call.prompt : call.prompt[i] \in 0..model.nVocab - 1
    /\ IF model.multilingual THEN call.prefix \in model.sot + 1 .. model.translate - 1
                             ELSE call.prefix = NoPrefix

\* What native code would make of these params on this model: a language token that
\* is none, or a language on an English-only model.
Misleads(model) ==
  IF model.multilingual
  THEN \E token \in Prefixes(model) : token \notin model.sot + 1 .. model.translate - 1
  ELSE params.detect \/ RawHint(params) # English

\* No refusal is unjust of its kind: a window that ends with the last sample is in
\* the audio, and where a language is refused, native code, which reads the raw
\* pointer and not the hint the check sees, would have been misled.  So a fresh
\* Params suits every model, English-only ones included, and detection every
\* multilingual one.  The exception is an explicit hint or the default whose lookup
\* met an exception: it is refused as if the model did not have it.
RefusalsAreJust ==
  /\ result = "InvalidDuration" =>
       \/ params.offset < 0 \/ params.duration < 0
       \/ 16 * (params.offset + params.duration) > call.samples
  /\ result = "LanguageNotSupportedByModel" =>
       \A model \in call.models :
         \/ Misleads(model)
         \/ ~call.found /\ ~params.detect /\ RawHint(params) # Auto
=============================================================================
