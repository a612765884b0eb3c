------------------------------ MODULE Tokenize ------------------------------
(***************************************************************************)
(* Context::tokenize and tokenize_one over one native function, which      *)
(* fills the buffer, or says by a negative number how long it must be, or  *)
(* says by INT_MIN that it caught an exception.                            *)
(*                                                                         *)
(* A text is the number of tokens it has and whether it has an interior    *)
(* NUL; a C int has a width.                                               *)
(***************************************************************************)
EXTENDS Integers

CONSTANTS
  IntMax,           \* the largest C int
  InitialCapacity,  \* INITIAL_CAPACITY
  MaxLength         \* bound: tokens of a text, which may be more than a C int counts

WidthAssumption ==
  IntMax \in Nat /\ InitialCapacity \in 1..IntMax /\ MaxLength \in Nat

IntMin == -IntMax - 1
None   == -1          \* as an answer; the others are the length of the Vec

VARIABLES
  pc,        \* where the call is
  call,      \* what is called, and the text
  capacity,  \* of the output buffer
  filled,    \* how many elements of it native code wrote
  written,   \* what whispercpp_tokenize returned
  passes,    \* how often it tokenized the text
  failed,    \* an allocation failed, or an exception was caught
  answer     \* what the last call answered

vars == <<pc, call, capacity, filled, written, passes, failed, answer>>

Calls  == [one : BOOLEAN, length : 0..MaxLength, nul : BOOLEAN]
Labels == {"idle", "copy", "reserve", "native", "look"}

TypeOK ==
  /\ pc       \in Labels
  /\ call     \in Calls
  /\ capacity \in 0..IntMax
  /\ filled   \in 0..capacity
  /\ written  \in IntMin..IntMax
  /\ passes   \in 0..2
  /\ failed   \in BOOLEAN
  /\ answer   \in {None} \cup 0..IntMax

Init ==
  /\ pc = "idle"
  /\ call = [one |-> FALSE, length |-> 0, nul |-> FALSE]
  /\ capacity = 0 /\ filled = 0 /\ written = 0 /\ passes = 0
  /\ failed = FALSE
  /\ answer = 0

Answers(a) == answer' = a /\ pc' = "idle" /\ UNCHANGED <<call, capacity, filled, written, passes>>

-----------------------------------------------------------------------------
(***************************************************************************)
(* Mutated forms, in no specification.                                     *)
(***************************************************************************)
\* Caught in the design that shared the codes of the other shims, here -5.
CaughtByLadder(w) == w \in {IntMin, -5}

\* Takes whose Vec is as long as its capacity.
TakesCapacity ==
  /\ pc = "look" /\ ~call.one
  /\ written >= 0 /\ written <= capacity
  /\ Answers(capacity)
  /\ UNCHANGED failed

-----------------------------------------------------------------------------
(***************************************************************************)
(* whispercpp_tokenize.  A count that no C int holds is reported as an     *)
(* exception is.                                                           *)
(***************************************************************************)
Caught(w) == w = IntMin

Native ==
  /\ pc = "native"
  /\ pc' = "look" /\ passes' = passes + 1
  /\ written' = IF call.length > IntMax THEN IntMin
                ELSE IF call.length <= capacity THEN call.length ELSE -call.length
  /\ filled'  = IF call.length <= capacity THEN call.length ELSE 0
  /\ UNCHANGED <<call, capacity, failed, answer>>

NativeThrows ==
  /\ pc = "native"
  /\ pc' = "look" /\ passes' = passes + 1
  /\ written' = IntMin /\ filled' = 0 /\ failed' = TRUE
  /\ UNCHANGED <<call, capacity, answer>>

-----------------------------------------------------------------------------
\* A text with an interior NUL gets no further.
Starts(c) ==
  /\ pc = "idle"
  /\ call' = c /\ capacity' = 0 /\ filled' = 0 /\ passes' = 0 /\ failed' = FALSE
  /\ IF c.nul THEN answer' = None /\ pc' = "idle"
              ELSE pc' = "copy" /\ UNCHANGED answer
  /\ UNCHANGED written

\* try_reserve_exact of the copy, of the first buffer or of the second.
AllocationFails ==
  /\ \/ pc \in {"copy", "reserve"}
     \/ pc = "look" /\ ~call.one /\ passes = 1 /\ written < 0 /\ ~Caught(written)
  /\ failed' = TRUE
  /\ Answers(None)

Copies ==
  /\ pc = "copy"
  /\ IF call.one THEN pc' = "native" /\ capacity' = 1
                 ELSE pc' = "reserve" /\ UNCHANGED capacity
  /\ UNCHANGED <<call, filled, written, passes, failed, answer>>

Reserves ==
  /\ pc = "reserve"
  /\ pc' = "native"
  /\ capacity' = InitialCapacity
  /\ UNCHANGED <<call, filled, written, passes, failed, answer>>

\* The answer fits: the Vec is as long as native code says it wrote.
Takes ==
  /\ pc = "look" /\ ~call.one
  /\ written >= 0 /\ written <= capacity
  /\ Answers(written)
  /\ UNCHANGED failed

\* A new buffer of the length asked for, once.
Grows ==
  /\ pc = "look" /\ ~call.one /\ passes = 1
  /\ written < 0 /\ ~Caught(written)
  /\ pc' = "native"
  /\ capacity' = -written /\ filled' = 0
  /\ UNCHANGED <<call, written, passes, failed, answer>>

GivesUp ==
  /\ pc = "look" /\ ~call.one
  /\ \/ Caught(written)
     \/ written > capacity
     \/ passes = 2 /\ written < 0
  /\ Answers(None)
  /\ UNCHANGED failed

LooksAtOne ==
  /\ pc = "look" /\ call.one
  /\ Answers(IF written = 1 THEN 1 ELSE None)
  /\ UNCHANGED failed

Next ==
  \/ \E c \in Calls : Starts(c)
  \/ AllocationFails \/ Copies \/ Reserves \/ Native \/ NativeThrows
  \/ Takes \/ Grows \/ GivesUp \/ LooksAtOne

Spec == Init /\ [][Next]_vars

-----------------------------------------------------------------------------
(***************************************************************************)
(* Properties.                                                             *)
(***************************************************************************)
\* An answer has all the tokens of the text and no element that native code did
\* not write, through the short buffer and through the second one; and None is never
\* the answer for a text that could be tokenized: no count of tokens is mistaken for
\* the sentinel.
CompleteOrNone ==
  pc = "idle" =>
    /\ answer # None /\ passes > 0 => /\ answer = call.length /\ answer = filled
                                      /\ call.one => answer = 1
    /\ answer = None => \/ call.nul \/ failed
                        \/ call.length > IntMax
                        \/ call.one /\ call.length # 1
=============================================================================
