------------------------------- MODULE Deque --------------------------------
(***************************************************************************)
(* What a double-ended, fused iterator promises: from the moment it is     *)
(* opened until it is closed the sequence under it does not change, it     *)
(* takes the items from either end, each once and none left out, and after *)
(* the last one it says NoItem for ever.                                     *)
(***************************************************************************)
EXTENDS Sequences

CONSTANTS Items, NoItem

VARIABLES
  open,    \* the iterator exists
  source,  \* the sequence under it
  left,    \* the items it has not taken
  said     \* the last answer of next or next_back, NoItem before the first

deque == <<open, source, left, said>>

Init == ~open /\ source = <<>> /\ left = <<>> /\ said = NoItem

Opens ==
  /\ ~open /\ open'
  /\ source' \in Seq(Items)
  /\ left' = source'
  /\ said' = NoItem

Takes ==
  /\ open /\ left # <<>>
  /\ \/ left = <<said'>> \o left'
     \/ left = Append(left', said')
  /\ UNCHANGED <<open, source>>

Ends ==
  /\ open /\ left = <<>>
  /\ said' = NoItem
  /\ UNCHANGED <<open, source, left>>

Closes == open /\ ~open' /\ source' = <<>> /\ left' = <<>> /\ said' = NoItem

Next == Opens \/ Takes \/ Ends \/ Closes

Spec == Init /\ [][Next]_deque
=============================================================================
