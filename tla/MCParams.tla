------------------------------ MODULE MCParams ------------------------------
(***************************************************************************)
(* InferenceParams on small data, each component running while the others  *)
(* have not started, so that the states add up instead of multiplying.     *)
(***************************************************************************)
EXTENDS InferenceParams, TLC

\* Three models, of two languages, of three, and English-only, under a table of
\* four; windows around the ends of a buffer and around the wrap of an i32 sum.
MCModels ==
  {[nVocab |-> 20, sot |-> 10, translate |-> 13, multilingual |-> TRUE],
   [nVocab |-> 21, sot |-> 10, translate |-> 14, multilingual |-> TRUE],
   [nVocab |-> 19, sot |->  9, translate |-> 13, multilingual |-> FALSE]}
MCPrompts == {<<0, 18>>, <<19>>, <<0, 20>>, <<-1>>}
MCMillis  == {-1, 0, 13, 195, 200, 4095}

\* Floats of six bits, 1.0 with 32 quanta to its next: increments from those
\* that do not move 1.0, over the smallest legal one, to the largest.
MCQuanta == {-1024, -1, 0, 1, 8, 32, 63, 64, 66, 480, 1024, 1056, 2048}

MCCounts == {-1, 0, 1, 2, 3, 5}

\* English and Hawaiian have named variants, "zz" is newer than Lang, "xx" is
\* nobody's; and texts that only a part of the program takes.
MCLength ==
  [word \in {"en", "zz", "xx"} |-> 2] @@
  ("" :> 0 @@ "haw" :> 3 @@ "auto" :> 4 @@ "en\\0x" :> 4 @@
   "english" :> 7 @@ "zedish" :> 6 @@ "hawaiian" :> 8 @@ "forty bytes" :> 40)
MCNonLetters == {"en\\0x"}
MCUpToNul == "en\\0x" :> "en"
MCTable ==
  <<[code |-> "en", name |-> "english"], [code |-> "haw", name |-> "hawaiian"],
    [code |-> "zz", name |-> "zedish"]>>
Cased(words, casings) == {[word |-> word, casing |-> casing] : word \in words, casing \in casings}
MCTexts ==
  Cased(DOMAIN MCLength, {"lower"})
    \cup Cased({"en"}, {"UPPER"}) \cup Cased({"haw"}, {"tAIL", "mIx"})
MCTongues ==
  {[sot |-> 10, translate |-> 12, multilingual |-> TRUE],
   [sot |-> 10, translate |-> 14, multilingual |-> TRUE],
   [sot |->  9, translate |-> 12, multilingual |-> FALSE]}

\* A component runs alone.
MCNext ==
  \/ Ladder!Init /\ Decode!Init /\ Ownership!Init /\ Language!Init /\ PreflightStep
  \/ Preflight!Init /\ Decode!Init /\ Ownership!Init /\ Language!Init /\ LadderStep
  \/ Preflight!Init /\ Ladder!Init /\ Ownership!Init /\ Language!Init /\ DecodeStep
  \/ Preflight!Init /\ Ladder!Init /\ Decode!Init /\ Language!Init /\ OwnershipStep
  \/ Preflight!Init /\ Ladder!Init /\ Decode!Init /\ Ownership!Init /\ LanguageStep

MCSpec == Init /\ [][MCNext]_vars
=============================================================================
