----------------------------- MODULE DtwBudget ------------------------------
(***************************************************************************)
(* The arena of token-level timestamps (DTW).                              *)
(*                                                                         *)
(* Native code allocates dtw_mem_size bytes when the model is loaded and   *)
(* aborts the process when a decode needs more.  The size is the program's *)
(* wish, corrected three times: by the setter, and twice by Context::new,  *)
(* which also refuses models and options the correction does not cover.    *)
(* Sizes are in bytes; usize has a width.                                  *)
(***************************************************************************)
EXTENDS Integers

CONSTANTS
  UsizeMax,       (* the largest usize                                     *)
  MaxDtwMemSize,  (* MAX_DTW_MEM_SIZE: 4 GiB, or 1 GiB where usize is smaller *)
  ObjectSize,     (* what ggml_init adds to the size it is given           *)
  Wishes,         (* sizes a program asks for                              *)
  TextCtxs        (* n_text_ctx of the models it loads                     *)

MiB           == 1024 * 1024
MinDtwMemSize == 128 * MiB
DefaultDtwMemSize      == 128 * MiB
SupportedDtwNTextCtx   == 448
AudioTokens            == 1500   \* of a 30 s chunk

SizesAssumption ==
  /\ UsizeMax \in Nat /\ ObjectSize \in Nat
  /\ MaxDtwMemSize \in Nat /\ MaxDtwMemSize >= 1024 * MiB
  /\ MaxDtwMemSize + ObjectSize <= UsizeMax
  /\ Wishes \subseteq 0..UsizeMax
  /\ TextCtxs \subseteq Nat

HeadCount ==
  [None |-> 0, TinyEn |-> 8, Tiny |-> 6, BaseEn |-> 5, Base |-> 8, SmallEn |-> 19,
   Small |-> 10, MediumEn |-> 18, Medium |-> 6, LargeV1 |-> 9, LargeV2 |-> 23,
   LargeV3 |-> 10, LargeV3Turbo |-> 6]
Presets == DOMAIN HeadCount

VARIABLES
  params,   \* ContextParams as the program has set it so far
  context,  \* what native code loaded: its DTW parameters and n_text_ctx
  needed    \* the bytes the largest tensors of the last decode took

vars == <<params, context, needed>>

Params == [flash : BOOLEAN, dtw : BOOLEAN, preset : Presets, mem : 0..UsizeMax]
NoContext == [phase |-> "none", flash |-> FALSE, dtw |-> FALSE, preset |-> "None",
              mem |-> 0, textCtx |-> 0]

TypeOK ==
  /\ params  \in Params
  /\ context \in [phase : {"none", "loaded"}, flash : BOOLEAN, dtw : BOOLEAN,
                  preset : Presets, mem : 0..UsizeMax, textCtx : TextCtxs \cup {0}]
  /\ needed  \in Nat

Init ==
  /\ params  = [flash |-> FALSE, dtw |-> FALSE, preset |-> "None", mem |-> DefaultDtwMemSize]
  /\ context = NoContext
  /\ needed  = 0

-----------------------------------------------------------------------------
ClampDtwMemSize(n) ==
  IF n < MinDtwMemSize THEN MinDtwMemSize
  ELSE IF n > MaxDtwMemSize THEN MaxDtwMemSize ELSE n

\* One of the three tensors a decode keeps alive.
TensorBytes(tokens, audio, heads) == tokens * audio * heads * 4

\* Mutated form: WithSafety as if a chunk had half its audio tokens.
WithSafetyOfHalf(preset) ==
  (TensorBytes(SupportedDtwNTextCtx, AudioTokens \div 2, HeadCount[preset]) * 3 * 3) \div 2

WithSafety(preset) ==
  (TensorBytes(SupportedDtwNTextCtx, AudioTokens, HeadCount[preset]) * 3 * 3) \div 2

RequiredDtwMemSize(preset) ==
  IF HeadCount[preset] = 0 THEN 0 ELSE ClampDtwMemSize(WithSafety(preset))

AtLeast(a, b) == IF a >= b THEN a ELSE b

DtwOn == params.dtw /\ params.preset # "None"

-----------------------------------------------------------------------------
(***************************************************************************)
(* Mutated forms, in no specification.                                     *)
(***************************************************************************)
\* Loads that forwards DTW without a preset.
LoadsAsAsked(textCtx) ==
  /\ context.phase = "none"
  /\ ~(params.dtw /\ params.flash)
  /\ params.dtw => textCtx <= SupportedDtwNTextCtx
  /\ context' = [phase |-> "loaded", flash |-> params.flash, dtw |-> params.dtw,
                 preset |-> params.preset, textCtx |-> textCtx,
                 mem |-> AtLeast(ClampDtwMemSize(params.mem), RequiredDtwMemSize(params.preset))]
  /\ UNCHANGED <<params, needed>>

-----------------------------------------------------------------------------
\* The setters, in any order and any number.
WithFlashAttn(on) ==
  /\ context.phase = "none"
  /\ params' = [params EXCEPT !.flash = on]
  /\ UNCHANGED <<context, needed>>

WithDtwTokenTimestamps(on) ==
  /\ context.phase = "none"
  /\ params' = [params EXCEPT !.dtw = on]
  /\ UNCHANGED <<context, needed>>

WithDtwAheadsPreset(preset) ==
  /\ context.phase = "none"
  /\ params' = [params EXCEPT !.preset = preset]
  /\ UNCHANGED <<context, needed>>

WithDtwMemSize(n) ==
  /\ context.phase = "none"
  /\ params' = [params EXCEPT !.mem = ClampDtwMemSize(n)]
  /\ UNCHANGED <<context, needed>>

\* Context::new, for a model that loads.  Flash attention with DTW is refused
\* before the native call, too long a text context after it.
Loads(textCtx) ==
  /\ context.phase = "none"
  /\ ~(DtwOn /\ params.flash)
  /\ DtwOn => textCtx <= SupportedDtwNTextCtx
  /\ context' =
       [phase |-> "loaded", flash |-> params.flash, dtw |-> DtwOn,
        preset |-> IF DtwOn THEN params.preset ELSE "None",
        mem |-> LET clamped == ClampDtwMemSize(params.mem) IN
                IF DtwOn THEN AtLeast(clamped, RequiredDtwMemSize(params.preset)) ELSE clamped,
        textCtx |-> textCtx]
  /\ UNCHANGED <<params, needed>>

ContextDrops ==
  /\ context.phase = "loaded"
  /\ context' = NoContext /\ needed' = 0
  /\ UNCHANGED params

\* A decode takes three tensors as long as what it decoded, at most the model's
\* text context and a chunk of audio.
Decodes(tokens, audio) ==
  /\ context.phase = "loaded" /\ context.dtw
  /\ tokens <= context.textCtx /\ audio <= AudioTokens
  /\ needed' = 3 * TensorBytes(tokens, audio, HeadCount[context.preset])
  /\ UNCHANGED <<params, context>>

Next ==
  \/ \E on \in BOOLEAN : WithFlashAttn(on) \/ WithDtwTokenTimestamps(on)
  \/ \E preset \in Presets : WithDtwAheadsPreset(preset)
  \/ \E n \in Wishes : WithDtwMemSize(n)
  \/ \E textCtx \in TextCtxs :
       Loads(textCtx) \/ Decodes(textCtx, AudioTokens) \/ Decodes(1, 1)
  \/ ContextDrops

Spec == Init /\ [][Next]_vars

-----------------------------------------------------------------------------
(***************************************************************************)
(* Properties.                                                             *)
(***************************************************************************)
\* ggml_new_tensor_3d never finds its arena full, for any model Context::new
\* accepts, whatever was asked for and in whatever order it was set; and ggml_init
\* can add its header: no wish overflows a usize, and neither does the product that
\* computes what a preset needs.
DecodesFit ==
  /\ needed <= context.mem
  /\ context.mem <= UsizeMax - ObjectSize
  /\ \A preset \in Presets :
       TensorBytes(SupportedDtwNTextCtx, AudioTokens, HeadCount[preset]) * 9 <= UsizeMax

\* A loaded model computes DTW exactly if its parameters ask for it in a way
\* native code takes: never without heads, which it aborts on, and never under
\* flash attention, which would turn it off unnoticed.
DtwAsAsked ==
  context.phase = "loaded" =>
    /\ context.dtw => context.preset # "None" /\ ~context.flash
    /\ context.dtw <=> params.dtw /\ params.preset # "None"
=============================================================================
