-------------------------- MODULE ParamsOwnership --------------------------
(***************************************************************************)
(* The raw pointers of a Params and the Rust values that own what they     *)
(* point to.                                                               *)
(*                                                                         *)
(* whisper_full_params holds bare pointers: to a language, to a prompt, to *)
(* prompt tokens, and to the closure that abort_trampoline dereferences.   *)
(* A setter exchanges a pointer and its owner in some order; full copies   *)
(* the pointers and native code uses the copy until it returns.            *)
(* set_abort_callback runs the Drop of a closure the program chose, which  *)
(* may panic, and the program may catch the panic and keep the Params.     *)
(*                                                                         *)
(* An element of Payloads is one heap allocation, used once, so that a     *)
(* pointer to freed memory is never valid again by accident.               *)
(***************************************************************************)
EXTENDS Integers, Sequences, SequencesExt

CONSTANTS
  Texts,          (* CString buffers of a language or a prompt             *)
  TokenBuffers,   (* Vec<whisper_token> buffers                            *)
  Closures,       (* boxed abort closures                                  *)
  Null,           (* the null pointer, and an owner that is None           *)
  EnLiteral,      (* the "en" literal of whisper_full_default_params       *)
  MaxTokens,      (* bound: length of a prompt                             *)
  MaxDepth        (* bound: inferences nested through the callback         *)

Payloads == Texts \cup TokenBuffers \cup Closures

PayloadsAssumption ==
  /\ Null \notin Payloads \cup {EnLiteral}
  /\ EnLiteral \notin Payloads
  /\ Texts \cap TokenBuffers = {}
  /\ Texts \cap Closures = {}
  /\ TokenBuffers \cap Closures = {}

BoundsAssumption == MaxTokens \in Nat /\ MaxDepth \in Nat

Slots == {"language", "initial_prompt", "prompt_tokens", "abort_callback"}

PayloadsOf(slot) ==
  CASE slot \in {"language", "initial_prompt"} -> Texts
    [] slot = "prompt_tokens"                  -> TokenBuffers
    [] slot = "abort_callback"                 -> Closures

VARIABLES
  heap,       \* of each allocation: none, live, freed
  raw,        \* Params.raw: the pointer in each slot
  trampoline, \* Params.raw.abort_callback is abort_trampoline, not None
  count,      \* Params.raw.prompt_n_tokens
  length,     \* the number of tokens in each buffer
  owner,      \* Params._language, ..., Params._abort_callback
  setting,    \* where set_abort_callback is
  incoming,   \* its argument, or the box made of it
  calls,      \* the inferences that borrow the Params, the innermost last
  gone        \* the Params has been dropped

vars == <<heap, raw, trampoline, count, length, owner, setting, incoming, calls, gone>>

Steps == {"rest", "drop old", "box", "store", "publish"}
Frame == [raw : [Slots -> Payloads \cup {Null, EnLiteral}], trampoline : BOOLEAN,
          count : 0..MaxTokens, inside : BOOLEAN]

TypeOK ==
  /\ heap       \in [Payloads -> {"none", "live", "freed"}]
  /\ raw        \in [Slots -> Payloads \cup {Null, EnLiteral}]
  /\ trampoline \in BOOLEAN
  /\ count      \in 0..MaxTokens
  /\ length     \in [TokenBuffers -> 0..MaxTokens]
  /\ owner      \in [Slots -> Payloads \cup {Null}]
  /\ setting    \in Steps
  /\ incoming   \in Closures \cup {Null}
  /\ calls      \in Seq(Frame)
  /\ gone       \in BOOLEAN

\* Params::new over whisper_full_default_params.
Init ==
  /\ heap       = [p \in Payloads |-> "none"]
  /\ raw        = [slot \in Slots |-> IF slot = "language" THEN EnLiteral ELSE Null]
  /\ trampoline = FALSE
  /\ count      = 0
  /\ length     = [b \in TokenBuffers |-> 0]
  /\ owner      = [slot \in Slots |-> Null]
  /\ setting    = "rest"
  /\ incoming   = Null
  /\ calls      = <<>>
  /\ gone       = FALSE

\* A setter borrows the Params mutably: no setter and no inference has it.
Exclusive == setting = "rest" /\ calls = <<>> /\ ~gone

\* The heap once x is allocated and y, unless it is Null, freed.
Exchanged(x, y) == [p \in Payloads |-> IF p = x THEN "live" ELSE IF p = y THEN "freed" ELSE heap[p]]

Dropped(S) == [p \in Payloads |-> IF p \in S THEN "freed" ELSE heap[p]]

-----------------------------------------------------------------------------
(***************************************************************************)
(* Mutated forms, in no specification.                                     *)
(***************************************************************************)
\* NullsHooks that leaves the old closure published while it is dropped.
KeepsHooks(k) ==
  /\ Exclusive
  /\ heap[k] = "none"
  /\ heap'     = [heap EXCEPT ![k] = "live"]
  /\ incoming' = k
  /\ setting'  = "drop old"
  /\ UNCHANGED <<raw, trampoline, count, length, owner, calls, gone>>

\* ClearTokens that forgets the count.
ClearKeepsCount ==
  /\ Exclusive
  /\ raw'   = [raw EXCEPT !["prompt_tokens"] = Null]
  /\ owner' = [owner EXCEPT !["prompt_tokens"] = Null]
  /\ heap'  = Dropped({owner["prompt_tokens"]})
  /\ UNCHANGED <<trampoline, count, length, setting, incoming, calls, gone>>

\* DropsOld that leaks the old closure.
DropForgets ==
  /\ setting = "drop old"
  /\ owner'   = [owner EXCEPT !["abort_callback"] = Null]
  /\ setting' = "box"
  /\ UNCHANGED <<heap, raw, trampoline, count, length, incoming, calls, gone>>

-----------------------------------------------------------------------------
(***************************************************************************)
(* set_language, set_initial_prompt and set_tokens.  Everything that can   *)
(* fail (length, interior NUL, unknown language, allocation) comes before  *)
(* the first write; then the pointer and the owner are exchanged, and the  *)
(* assignment of the owner drops the old one, which cannot panic.          *)
(***************************************************************************)
SetText(slot, x) ==
  /\ Exclusive
  /\ slot \in {"language", "initial_prompt"} /\ heap[x] = "none"
  /\ raw'   = [raw EXCEPT ![slot] = x]
  /\ owner' = [owner EXCEPT ![slot] = x]
  /\ heap'  = Exchanged(x, owner[slot])
  /\ UNCHANGED <<trampoline, count, length, setting, incoming, calls, gone>>

SetTokens(b, n) ==
  /\ Exclusive
  /\ heap[b] = "none" /\ n > 0
  /\ raw'    = [raw EXCEPT !["prompt_tokens"] = b]
  /\ count'  = n
  /\ length' = [length EXCEPT ![b] = n]
  /\ owner'  = [owner EXCEPT !["prompt_tokens"] = b]
  /\ heap'   = Exchanged(b, owner["prompt_tokens"])
  /\ UNCHANGED <<trampoline, setting, incoming, calls, gone>>

ClearTokens ==
  /\ Exclusive
  /\ raw'   = [raw EXCEPT !["prompt_tokens"] = Null]
  /\ count' = 0
  /\ owner' = [owner EXCEPT !["prompt_tokens"] = Null]
  /\ heap'  = Dropped({owner["prompt_tokens"]})
  /\ UNCHANGED <<trampoline, length, setting, incoming, calls, gone>>

-----------------------------------------------------------------------------
(***************************************************************************)
(* set_abort_callback, statement by statement.                             *)
(***************************************************************************)
NullsHooks(k) ==
  /\ Exclusive
  /\ heap[k] = "none"
  /\ heap'       = [heap EXCEPT ![k] = "live"]
  /\ incoming'   = k
  /\ raw'        = [raw EXCEPT !["abort_callback"] = Null]
  /\ trampoline' = FALSE
  /\ setting'    = "drop old"
  /\ UNCHANGED <<count, length, owner, calls, gone>>

DropsOld ==
  /\ setting = "drop old"
  /\ heap'    = Dropped({owner["abort_callback"]})
  /\ owner'   = [owner EXCEPT !["abort_callback"] = Null]
  /\ setting' = "box"
  /\ UNCHANGED <<raw, trampoline, count, length, incoming, calls, gone>>

\* The old closure's Drop panics: its box is freed all the same, and unwinding
\* drops the argument.
DropPanics ==
  /\ setting = "drop old"
  /\ owner["abort_callback"] # Null
  /\ heap'     = Dropped({owner["abort_callback"], incoming})
  /\ owner'    = [owner EXCEPT !["abort_callback"] = Null]
  /\ incoming' = Null
  /\ setting'  = "rest"
  /\ UNCHANGED <<raw, trampoline, count, length, calls, gone>>

Boxes ==
  /\ setting = "box"
  /\ setting' = "store"
  /\ UNCHANGED <<heap, raw, trampoline, count, length, owner, incoming, calls, gone>>

\* Box::new finds no memory, in a program whose allocation errors unwind.
BoxPanics ==
  /\ setting = "box"
  /\ heap'     = Dropped({incoming})
  /\ incoming' = Null
  /\ setting'  = "rest"
  /\ UNCHANGED <<raw, trampoline, count, length, owner, calls, gone>>

Stores ==
  /\ setting = "store"
  /\ owner'   = [owner EXCEPT !["abort_callback"] = incoming]
  /\ setting' = "publish"
  /\ UNCHANGED <<heap, raw, trampoline, count, length, incoming, calls, gone>>

Publishes ==
  /\ setting = "publish"
  /\ raw'        = [raw EXCEPT !["abort_callback"] = incoming]
  /\ trampoline' = TRUE
  /\ incoming'   = Null
  /\ setting'    = "rest"
  /\ UNCHANGED <<heap, count, length, owner, calls, gone>>

-----------------------------------------------------------------------------
(***************************************************************************)
(* Inferences.  full borrows the Params and hands native code a copy of    *)
(* raw; the callback may borrow the same Params again for an inference on  *)
(* another State.                                                          *)
(***************************************************************************)
Infers ==
  /\ setting = "rest" /\ ~gone
  /\ calls # <<>> => Last(calls).inside
  /\ Len(calls) < MaxDepth
  /\ calls' = Append(calls, [raw |-> raw, trampoline |-> trampoline, count |-> count,
                             inside |-> FALSE])
  /\ UNCHANGED <<heap, raw, trampoline, count, length, owner, setting, incoming, gone>>

CallsBack ==
  /\ calls # <<>>
  /\ Last(calls).trampoline /\ ~Last(calls).inside
  /\ calls' = Append(Front(calls), [Last(calls) EXCEPT !.inside = TRUE])
  /\ UNCHANGED <<heap, raw, trampoline, count, length, owner, setting, incoming, gone>>

CallbackAnswers ==
  /\ calls # <<>>
  /\ Last(calls).inside
  /\ calls' = Append(Front(calls), [Last(calls) EXCEPT !.inside = FALSE])
  /\ UNCHANGED <<heap, raw, trampoline, count, length, owner, setting, incoming, gone>>

Returns ==
  /\ calls # <<>>
  /\ ~Last(calls).inside
  /\ calls' = Front(calls)
  /\ UNCHANGED <<heap, raw, trampoline, count, length, owner, setting, incoming, gone>>

\* The fields drop their values; raw is plain data.
ParamsDrops ==
  /\ Exclusive
  /\ heap'  = Dropped({owner[slot] : slot \in Slots})
  /\ owner' = [slot \in Slots |-> Null]
  /\ gone'  = TRUE
  /\ UNCHANGED <<raw, trampoline, count, length, setting, incoming, calls>>

\* The program makes another, with names of its own for new memory.
ParamsRenews ==
  /\ gone
  /\ gone'   = FALSE
  /\ heap'   = [p \in Payloads |-> "none"]
  /\ raw'    = [slot \in Slots |-> IF slot = "language" THEN EnLiteral ELSE Null]
  /\ trampoline' = FALSE /\ count' = 0 /\ length' = [b \in TokenBuffers |-> 0]
  /\ UNCHANGED <<owner, setting, incoming, calls>>

Setters ==
  \/ \E slot \in {"language", "initial_prompt"}, x \in Texts : SetText(slot, x)
  \/ \E b \in TokenBuffers, n \in 1..MaxTokens : SetTokens(b, n)
  \/ ClearTokens
  \/ \E k \in Closures : NullsHooks(k)
  \/ DropsOld \/ DropPanics \/ Boxes \/ BoxPanics \/ Stores \/ Publishes

Inferences == Infers \/ CallsBack \/ CallbackAnswers \/ Returns

Next == Setters \/ Inferences \/ ParamsDrops \/ ParamsRenews

Spec == Init /\ [][Next]_vars

-----------------------------------------------------------------------------
(***************************************************************************)
(* Properties.                                                             *)
(***************************************************************************)
Points(p) == p \in {Null, EnLiteral} \/ heap[p] = "live"

\* Between setters, however the last one ended, one that unwound included, what a
\* pointer points to is what its field owns, since language() may read raw.language
\* when _language is None, and no live buffer or closure has lost its owner; a
\* dropped Params leaves none.
PointersAreOwned ==
  setting = "rest" =>
    /\ gone \/ \A slot \in Slots :
         \/ raw[slot] = owner[slot]
         \/ slot = "language" /\ owner[slot] = Null /\ raw[slot] = EnLiteral
    /\ \A p \in Payloads : heap[p] = "live" => \E slot \in Slots : owner[slot] = p

\* The copy native code works with stays valid until its call returns, whatever
\* the callbacks of that call do to the same Params, and each pair of fields reaches
\* it whole: the trampoline with a closure, the token count with its buffer.
CallsReadLiveMemory ==
  \A i \in DOMAIN calls :
    LET copy == calls[i] IN
      /\ \A slot \in Slots : Points(copy.raw[slot])
      /\ copy.trampoline <=> copy.raw["abort_callback"] \in Closures
      /\ copy.count = IF copy.raw["prompt_tokens"] = Null THEN 0
                      ELSE length[copy.raw["prompt_tokens"]]
=============================================================================
