------------------------------ MODULE MCAnswers -----------------------------
(***************************************************************************)
(* InferenceAnswers for TLC.  Each component runs while the others have    *)
(* not started, so that their states add up instead of multiplying.        *)
(***************************************************************************)
EXTENDS InferenceAnswers

\* A component runs alone.
MCNext ==
  \/ Dtw!Init /\ Sys!Init /\ Views!Init /\ TextStep
  \/ Text!Init /\ Sys!Init /\ Views!Init /\ DtwStep
  \/ Text!Init /\ Dtw!Init /\ Views!Init /\ SysStep
  \/ Text!Init /\ Dtw!Init /\ Sys!Init /\ ViewsStep

MCSpec == Init /\ [][MCNext]_vars /\ Sys!Fairness
=============================================================================
