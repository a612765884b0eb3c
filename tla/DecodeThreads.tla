--------------------------- MODULE DecodeThreads ----------------------------
(***************************************************************************)
(* The threads native code starts in one full, and what becomes of an      *)
(* exception among them.                                                   *)
(*                                                                         *)
(* Two loops start threads: one for the spectrogram, which starts all its  *)
(* workers in a row, and one for the decoders, which runs a share of the   *)
(* work on the caller while its workers run.  An exception that leaves     *)
(* either with a worker unjoined destroys a joinable std::thread, and the  *)
(* process ends before the shim can catch anything.  Only the counts that  *)
(* Params hands over decide whether that can happen.                       *)
(***************************************************************************)
EXTENDS Integers

CONSTANTS
  Concurrency,  \* what hardware_concurrency says, where 0 means unknown
  Counts,       \* arguments of the setters
  MaxBeamSize   \* MAX_BEAM_SIZE

CountsAssumption ==
  /\ Concurrency \subseteq Nat /\ Counts \subseteq Int
  /\ MaxBeamSize \in Nat \ {0}

VARIABLES
  params,     \* n_threads, and beam_size or best_of, the number of decoders
  unchecked,  \* an unsafe setter was used
  pc,         \* of full
  joinable    \* threads started and not joined

vars == <<params, unchecked, pc, joinable>>

TypeOK ==
  /\ params \in [threads : Int, decoders : Int]
  /\ unchecked \in BOOLEAN
  /\ pc \in {"new", "idle", "mel", "mel join", "decode", "process", "process join",
             "length_error", "terminated"}
  /\ joinable \in Nat

-----------------------------------------------------------------------------
(***************************************************************************)
(* The clamps.                                                             *)
(***************************************************************************)
\* Mutated form of MaxNThreads, in no specification: an earlier value.
FormerMaxNThreads == 2

MaxNThreads == 1

AtLeastOne(n) == IF n < 1 THEN 1 ELSE n

\* Mutated form of ClampNThreads, in no specification.
ClampFromAbove(n) == IF n > MaxNThreads THEN MaxNThreads ELSE n

ClampNThreads(n) == IF n > MaxNThreads THEN MaxNThreads ELSE AtLeastOne(n)
ClampTopk(k)     == IF k > MaxBeamSize THEN MaxBeamSize ELSE AtLeastOne(k)

Least(a, b) == IF a <= b THEN a ELSE b

-----------------------------------------------------------------------------
Init ==
  /\ params = [threads |-> 1, decoders |-> 1]
  /\ unchecked = FALSE
  /\ pc = "new"
  /\ joinable = 0

\* Params::new, over native defaults.
New(concurrency, decoders) ==
  /\ pc = "new"
  /\ params' = [threads |-> ClampNThreads(Least(4, concurrency)), decoders |-> ClampTopk(decoders)]
  /\ pc' = "idle"
  /\ UNCHANGED <<unchecked, joinable>>

SetNThreads(n) ==
  /\ pc = "idle"
  /\ params' = [params EXCEPT !.threads = ClampNThreads(n)]
  /\ UNCHANGED <<unchecked, pc, joinable>>

SetNThreadsUnchecked(n) ==
  /\ pc = "idle"
  /\ params' = [params EXCEPT !.threads = AtLeastOne(n)]
  /\ unchecked' = TRUE
  /\ UNCHANGED <<pc, joinable>>

\* set_beam_size_unchecked and set_best_of_unchecked.
SetDecodersUnchecked(n) ==
  /\ pc = "idle"
  /\ params' = [params EXCEPT !.decoders = AtLeastOne(n)]
  /\ UNCHANGED <<unchecked, pc, joinable>>

ParamsDrops ==
  /\ pc = "idle"
  /\ pc' = "new"
  /\ params' = [threads |-> 1, decoders |-> 1] /\ unchecked' = FALSE
  /\ UNCHANGED joinable

-----------------------------------------------------------------------------
(***************************************************************************)
(* Native code.  A vector of n - 1 threads, of an unsigned type, comes     *)
(* first in both loops.                                                    *)
(***************************************************************************)
Goes(from, to) == pc = from /\ pc' = to /\ UNCHANGED <<params, unchecked>>

Workers == IF pc = "mel" THEN params.threads ELSE Least(params.threads, params.decoders)

FullStarts ==
  /\ Goes("idle", IF params.threads < 1 THEN "length_error" ELSE "mel")
  /\ UNCHANGED joinable

Spawns ==
  /\ pc \in {"mel", "decode"} /\ joinable < Workers - 1
  /\ joinable' = joinable + 1
  /\ UNCHANGED <<params, unchecked, pc>>

\* The spectrogram's share of the caller cannot throw.
MelRuns   == joinable >= Workers - 1 /\ Goes("mel", "mel join") /\ UNCHANGED joinable
MelJoins  == Goes("mel join", "decode") /\ joinable' = 0

\* With one thread the caller does the work and starts nothing.
Processes      == joinable >= Workers - 1 /\ Goes("decode", "process") /\ UNCHANGED joinable
ProcessReturns == Goes("process", "process join") /\ UNCHANGED joinable

\* After the last decoders, or before the next ones.
DecodesOn   == Goes("process join", "decode") /\ joinable' = 0
FullReturns == Goes("process join", "idle") /\ joinable' = 0

\* The constructor of a thread, or process on the caller, throws: the shim's
\* catch makes an error of it, unless unwinding meets a joinable thread.
Throws ==
  /\ \/ pc \in {"mel", "decode"} /\ joinable < Workers - 1
     \/ pc = "process"
  /\ pc' = IF joinable > 0 THEN "terminated" ELSE "idle"
  /\ UNCHANGED <<params, unchecked, joinable>>

\* Another process.
Restarts ==
  /\ pc \in {"terminated", "length_error"}
  /\ pc' = "new" /\ params' = [threads |-> 1, decoders |-> 1]
  /\ unchecked' = FALSE /\ joinable' = 0

Next ==
  \/ \E c \in Concurrency, k \in Counts : New(c, k)
  \/ \E n \in Counts : SetNThreads(n) \/ SetNThreadsUnchecked(n) \/ SetDecodersUnchecked(n)
  \/ ParamsDrops
  \/ FullStarts \/ Spawns \/ MelRuns \/ MelJoins \/ Processes \/ ProcessReturns
  \/ DecodesOn \/ FullReturns \/ Throws \/ Restarts

Spec == Init /\ [][Next]_vars

-----------------------------------------------------------------------------
(***************************************************************************)
(* Properties.                                                             *)
(***************************************************************************)
\* Wherever a thread cannot be started or process throws, with any number of
\* decoders and on any machine, the shim is left to catch it; only the unsafe
\* setter can end the process.  And no setter, the unsafe ones included, nor a
\* machine that does not know its threads, starts fewer than none or samples the
\* best of no candidate.
FailuresAreCaught ==
  /\ pc = "terminated" => unchecked
  /\ pc # "length_error"
  /\ params.decoders >= 1
=============================================================================
