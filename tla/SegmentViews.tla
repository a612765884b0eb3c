---------------------------- MODULE SegmentViews ----------------------------
(***************************************************************************)
(* Segments, tokens and their iterators: indices into the native result of *)
(* the last inference on one State.                                        *)
(*                                                                         *)
(* A Segment is a pointer and an index, checked when State::segment makes  *)
(* it; an iterator reads the native count once, when it is made, and then  *)
(* makes Segments, or reads tokens, without asking again.  What keeps all  *)
(* of them valid is the borrow: full takes the State exclusively.          *)
(***************************************************************************)
EXTENDS Integers, Sequences

CONSTANTS
  SegmentIterators,   \* values of type Segments
  TokenIterators,     \* values of type Tokens
  NoItem,             \* the answer of an exhausted iterator
  MaxSegments,        \* bound: segments of an inference
  MaxTokens           \* bound: tokens of a segment

IteratorsAssumption == SegmentIterators \cap TokenIterators = {}
BoundsAssumption == MaxSegments \in Nat /\ MaxTokens \in Nat

Iterators == SegmentIterators \cup TokenIterators

VARIABLES
  result,  \* the native result: the number of tokens of each segment
  live,    \* State.ptr is Some
  views,   \* the Segments in the program's hands, by index
  iter,    \* the iterators: whether one exists, its segment, next and end
  said     \* what each iterator answered last: <<segment>> or <<segment, token>>

vars == <<result, live, views, iter, said>>

Results == UNION {[1..n -> 0..MaxTokens] : n \in 0..MaxSegments}
Indices == 0..MaxSegments + MaxTokens
Answers == {<<k>> : k \in Indices} \cup (Indices \X Indices)

TypeOK ==
  /\ result \in Results
  /\ live   \in BOOLEAN
  /\ views  \subseteq 0..MaxSegments - 1
  /\ iter   \in [Iterators -> [open : BOOLEAN, of : Indices, next : Indices, end : Indices]]
  /\ said   \in [Iterators -> Answers \cup {NoItem}]

Closed == [open |-> FALSE, of |-> 0, next |-> 0, end |-> 0]

Init ==
  /\ result = <<>>
  /\ live   = TRUE
  /\ views  = {}
  /\ iter   = [i \in Iterators |-> Closed]
  /\ said   = [i \in Iterators |-> NoItem]

\* What the native accessors say of the result; indices count from 0.  A lost
\* State has no segments.
NSegments   == IF live THEN Len(result) ELSE 0
NTokens(s)  == result[s + 1]

\* Nothing borrows the State.
Unborrowed == views = {} /\ \A i \in Iterators : ~iter[i].open

-----------------------------------------------------------------------------
(***************************************************************************)
(* Mutated forms, in no specification.                                     *)
(***************************************************************************)
\* Infers with iterators that do not borrow their State.
InfersUnderIterators ==
  /\ live /\ views = {}
  /\ result' \in Results
  /\ UNCHANGED <<live, views, iter, said>>

\* NextBack that answers before it steps back.
NextBackStepsLate(i) ==
  /\ iter[i].open /\ iter[i].next < iter[i].end
  /\ iter' = [iter EXCEPT ![i].end = @ - 1]
  /\ said' = [said EXCEPT ![i] =
       IF i \in SegmentIterators THEN <<iter[i].end>> ELSE <<iter[i].of, iter[i].end>>]
  /\ views' = IF i \in SegmentIterators THEN views \cup {iter[i].end} ELSE views
  /\ UNCHANGED <<result, live>>

-----------------------------------------------------------------------------
\* full: native code replaces the result, or the State is lost.
Infers ==
  /\ live /\ Unborrowed
  /\ result' \in Results
  /\ UNCHANGED <<live, views, iter, said>>

Loses ==
  /\ live /\ Unborrowed
  /\ live' = FALSE
  /\ UNCHANGED <<result, views, iter, said>>

\* State::segment with an index in range; with another it is None.
Segment(s) ==
  /\ s >= 0 /\ s < NSegments
  /\ views' = views \cup {s}
  /\ UNCHANGED <<result, live, iter, said>>

\* The copies of a Segment are gone.
ViewDrops(s) ==
  /\ s \in views
  /\ views' = views \ {s}
  /\ UNCHANGED <<result, live, iter, said>>

\* State::segments_iter and Segment::tokens_iter.  A Tokens has a copy of its
\* Segment, whose own copies the program may drop.
SegmentsIter(i) ==
  /\ i \in SegmentIterators /\ ~iter[i].open
  /\ iter' = [iter EXCEPT ![i] = [open |-> TRUE, of |-> 0, next |-> 0, end |-> NSegments]]
  /\ UNCHANGED <<result, live, views, said>>

TokensIter(i, s) ==
  /\ i \in TokenIterators /\ ~iter[i].open
  /\ s \in views
  /\ iter' = [iter EXCEPT ![i] = [open |-> TRUE, of |-> s, next |-> 0, end |-> NTokens(s)]]
  /\ UNCHANGED <<result, live, views, said>>

\* What i answers for index k: a Segment, which the program then has, or the
\* data of a token, read now.
Gives(i, k) ==
  /\ said'  = [said EXCEPT ![i] = IF i \in SegmentIterators THEN <<k>> ELSE <<iter[i].of, k>>]
  /\ views' = IF i \in SegmentIterators THEN views \cup {k} ELSE views

NextFront(i) ==
  /\ iter[i].open /\ iter[i].next < iter[i].end
  /\ Gives(i, iter[i].next)
  /\ iter' = [iter EXCEPT ![i].next = @ + 1]
  /\ UNCHANGED <<result, live>>

NextBack(i) ==
  /\ iter[i].open /\ iter[i].next < iter[i].end
  /\ iter' = [iter EXCEPT ![i].end = @ - 1]
  /\ Gives(i, iter'[i].end)
  /\ UNCHANGED <<result, live>>

\* next or next_back of an exhausted iterator.
Exhausted(i) ==
  /\ iter[i].open /\ iter[i].next >= iter[i].end
  /\ said' = [said EXCEPT ![i] = NoItem]
  /\ UNCHANGED <<result, live, views, iter>>

IteratorDrops(i) ==
  /\ iter[i].open
  /\ iter' = [iter EXCEPT ![i] = Closed]
  /\ said' = [said EXCEPT ![i] = NoItem]
  /\ UNCHANGED <<result, live, views>>

Next ==
  \/ Infers \/ Loses
  \/ \E s \in -1..MaxSegments : Segment(s) \/ ViewDrops(s)
  \/ \E i \in Iterators :
       \/ SegmentsIter(i) \/ NextFront(i) \/ NextBack(i) \/ Exhausted(i) \/ IteratorDrops(i)
       \/ \E s \in views : TokensIter(i, s)

Spec == Init /\ [][Next]_vars

-----------------------------------------------------------------------------
(***************************************************************************)
(* Properties.                                                             *)
(***************************************************************************)
\* Every index in the hands of the program, in a Segment, in an iterator or in
\* what an iterator answered, is one the native result of the living State has,
\* although it was checked once, long before, or never.
IndicesInRange ==
  LET InRange(s) == live /\ s \in 0..Len(result) - 1 IN
    /\ \A s \in views : InRange(s)
    /\ \A i \in Iterators : said[i] # NoItem =>
         /\ InRange(said[i][1])
         /\ i \in TokenIterators => said[i][2] \in 0..NTokens(said[i][1]) - 1

\* The items under an iterator: the segments of the result or the tokens of one.
Under(i) ==
  IF i \in SegmentIterators THEN [k \in 1..NSegments |-> <<k - 1>>]
  ELSE [k \in 1..NTokens(iter[i].of) |-> <<iter[i].of, k - 1>>]

\* ExactSizeIterator::len items are left, from next to before end.
LeftOf(i) ==
  [k \in 1..(iter[i].end - iter[i].next) |->
     IF i \in SegmentIterators THEN <<iter[i].next + k - 1>>
     ELSE <<iter[i].of, iter[i].next + k - 1>>]

Iteration(i) == INSTANCE Deque WITH
  Items  <- Answers,
  open   <- iter[i].open,
  source <- IF iter[i].open THEN Under(i) ELSE <<>>,
  left   <- IF iter[i].open THEN LeftOf(i) ELSE <<>>,
  said   <- said[i]

IterationStep(i) == [Iteration(i)!Next]_(Iteration(i)!deque)

\* Segments and Tokens are double-ended iterators: whatever mix of next and
\* next_back, and however many of them are in use at once, each gives every item
\* of its sequence once, and exactly len() more.
IteratesAll == [][\A i \in Iterators : IterationStep(i)]_vars
=============================================================================
