----------------------- MODULE InferenceCallbacksProofs -----------------------
(***************************************************************************)
(* Proofs about InferenceCallbacks: for any number of threads, Contexts    *)
(* and States and callbacks nested to any depth, the guards of full_lock   *)
(* follow the calls on the stacks, and callbacks that infer along an order *)
(* of the Contexts never wait for each other in a circle.                  *)
(***************************************************************************)
EXTENDS InferenceCallbacks, SequenceTheorems, TLAPS

\* The innermost inference of a stack, and the stack below it.
LEMMA LastAndFront ==
  ASSUME NEW S, NEW s \in Seq(S), s # <<>>
  PROVE  /\ Len(s) \in Nat \ {0}
         /\ Last(s) \in S
         /\ Last(s) = s[Len(s)]
         /\ Front(s) \in Seq(S)
         /\ Len(Front(s)) = Len(s) - 1
         /\ \A i \in 1..Len(s) - 1 : Front(s)[i] = s[i]
<1>1. Len(s) \in Nat \ {0}
  OBVIOUS
<1>2. Last(s) = s[Len(s)] /\ Last(s) \in S
  BY <1>1 DEF Last
<1>3. Front(s) = SubSeq(s, 1, Len(s) - 1)
  BY DEF Front
<1>4. \A i \in 1..Len(s) - 1 : s[i] \in S
  BY <1>1
<1> DEFINE n == Len(s) - 1
<1>5. /\ SubSeq(s, 1, n) \in Seq(S)
      /\ Len(SubSeq(s, 1, n)) = IF 1 <= n THEN n - 1 + 1 ELSE 0
      /\ \A i \in 1..n - 1 + 1 : SubSeq(s, 1, n)[i] = s[1 + i - 1]
  <2>1. n \in Int
    BY <1>1
  <2> HIDE DEF n
  <2>2. \A i \in 1..n : s[i] \in S
    BY <1>4 DEF n
  <2> QED
    BY <2>1, <2>2, SubSeqProperties
<1>6. Len(SubSeq(s, 1, n)) = n /\ \A i \in 1..n : SubSeq(s, 1, n)[i] = s[i]
  <2>1. n \in Nat
    BY <1>1
  <2> HIDE DEF n
  <2>2. n - 1 + 1 = n /\ (IF 1 <= n THEN n - 1 + 1 ELSE 0) = n /\ \A i \in 1..n : 1 + i - 1 = i
    BY <2>1
  <2> QED
    BY <1>5, <2>2
<1> QED
  BY <1>1, <1>2, <1>3, <1>5, <1>6

\* The innermost inference is replaced; those under it stay.
LEMMA Replaced ==
  ASSUME NEW S, NEW s \in Seq(S), s # <<>>, NEW e \in S
  PROVE  /\ Append(Front(s), e) \in Seq(S)
         /\ Len(Append(Front(s), e)) = Len(s)
         /\ \A i \in 1..Len(s) : Append(Front(s), e)[i] = IF i = Len(s) THEN e ELSE s[i]
BY LastAndFront

\* The innermost inference is replaced, and one more put on top of it.
LEMMA ReplacedAndPushed ==
  ASSUME NEW S, NEW s \in Seq(S), s # <<>>, NEW e \in S, NEW f \in S
  PROVE  /\ Front(s) \o <<e, f>> \in Seq(S)
         /\ Len(Front(s) \o <<e, f>>) = Len(s) + 1
         /\ \A i \in 1..Len(s) + 1 : (Front(s) \o <<e, f>>)[i] =
              IF i = Len(s) + 1 THEN f ELSE IF i = Len(s) THEN e ELSE s[i]
<1> DEFINE r == Front(s)
<1>1. r \in Seq(S) /\ Len(s) \in Nat \ {0} /\ Len(r) = Len(s) - 1 /\ \A i \in 1..Len(s) - 1 : r[i] = s[i]
  BY LastAndFront
<1>2. <<e, f>> \in Seq(S) /\ Len(<<e, f>>) = 2 /\ <<e, f>>[1] = e /\ <<e, f>>[2] = f
  OBVIOUS
<1> HIDE DEF r
<1>3. /\ r \o <<e, f>> \in Seq(S) /\ Len(r \o <<e, f>>) = Len(r) + 2
      /\ \A i \in 1..Len(r) + 2 :
           (r \o <<e, f>>)[i] = IF i <= Len(r) THEN r[i] ELSE <<e, f>>[i - Len(r)]
  BY <1>1, <1>2, ConcatProperties
<1> QED
  BY <1>1, <1>2, <1>3 DEF r

-----------------------------------------------------------------------------
\* A fresh inference, and every change of the innermost one, is a frame.
LEMMA TypeStep ==
  ASSUME TypeOK, NEW t \in Threads, Calls(t) \/ Continues(t)
  PROVE  TypeOK'
<1> USE InstanceAssumption
<1>a. stack[t] \in Seq(Frame)
  BY DEF TypeOK
<1>b. \A s \in States, p \in AllParams : Begins(s, p) \in Frame
  BY DEF Begins, Frame, Places
<1>c. ASSUME ~Idle(t)
      PROVE  /\ Last(stack[t]) \in Frame /\ Front(stack[t]) \in Seq(Frame)
             /\ \A frame \in Frame : Append(Front(stack[t]), frame) \in Seq(Frame)
             /\ \A f, g \in Frame : Front(stack[t]) \o <<f, g>> \in Seq(Frame)
  BY <1>a, <1>c, LastAndFront, Replaced, ReplacedAndPushed DEF Idle
<1>1. ASSUME NEW s \in States, NEW p \in AllParams, Infers(t, s, p) PROVE TypeOK'
  <2>1. <<Begins(s, p)>> \in Seq(Frame)
    BY <1>b
  <2> QED
    BY <1>1, <2>1 DEF Infers, TypeOK
<1>2. ASSUME NEW s \in States, NEW p \in AllParams, InfersAgain(t, s, p) PROVE TypeOK'
  <2> DEFINE frame == Last(stack[t])
  <2>1. frame \in Frame /\ frame.budget > 0
    BY <1>2, <1>c DEF InfersAgain, At
  <2>2. [frame EXCEPT !.budget = @ - 1] \in Frame
    BY <2>1 DEF Frame
  <2>3. Front(stack[t]) \o <<[frame EXCEPT !.budget = @ - 1], Begins(s, p)>> \in Seq(Frame)
    BY <1>2, <1>b, <1>c, <2>2 DEF InfersAgain, At
  <2>4. stack' = [stack EXCEPT ![t] =
                    Front(stack[t]) \o <<[frame EXCEPT !.budget = @ - 1], Begins(s, p)>>]
        /\ UNCHANGED <<fullLock, ret>>
    BY <1>2 DEF InfersAgain
  <2> QED
    BY <2>3, <2>4 DEF TypeOK
<1>3. CASE Locks(t)
  <2>1. [Last(stack[t]) EXCEPT !.at = "native"] \in Frame
    BY <1>3, <1>c DEF Locks, At, Frame, Places
  <2> QED
    BY <1>3, <1>c, <2>1 DEF Locks, At, Becomes, TypeOK
<1>4. CASE CallsBack(t)
  <2>1. Last(stack[t]) \in Frame /\ Last(stack[t]).budget > 0
    BY <1>4, <1>c DEF CallsBack, At
  <2>2. Last(stack[t]).budget - 1 \in 0..Budget
    BY <2>1 DEF Frame
  <2>3. [Last(stack[t]) EXCEPT !.at = "callback", !.budget = Last(stack[t]).budget - 1] \in Frame
    BY <2>1, <2>2 DEF Frame, Places
  <2> QED
    BY <1>4, <1>c, <2>3 DEF CallsBack, At, Becomes, TypeOK
<1>5. ASSUME NEW stop \in BOOLEAN, NEW panics \in BOOLEAN, CallbackAnswers(t, stop, panics)
      PROVE  TypeOK'
  <2>1. [Last(stack[t]) EXCEPT !.at = "native", !.abort = stop, !.panicked = panics] \in Frame
    BY <1>5, <1>c DEF CallbackAnswers, At, Frame, Places
  <2> QED
    BY <1>5, <1>c, <2>1 DEF CallbackAnswers, At, Becomes, TypeOK
<1>6. CASE NativeReturns(t)
  <2>1. Last(stack[t]).panicked \in BOOLEAN
    BY <1>6, <1>c DEF NativeReturns, At, Frame
  <2>2. ret' \in [Threads -> Answers]
    BY <1>6, <2>1 DEF NativeReturns, Answers, TypeOK
  <2> QED
    BY <1>6, <1>c, <2>2 DEF NativeReturns, At, TypeOK
<1> QED
  BY <1>1, <1>2, <1>3, <1>4, <1>5, <1>6 DEF Calls, Continues

\* Type correctness: whatever the callbacks do, a stack holds inferences with
\* a budget left within its bound, and a lock a thread or none.
THEOREM TypeCorrect == Spec => []TypeOK
<1>1. Init => TypeOK
  BY DEF Init, TypeOK, Answers
<1>2. TypeOK /\ [Next]_vars => TypeOK'
  BY TypeStep DEF Next, vars, TypeOK
<1> QED
  BY <1>1, <1>2, PTL DEF Spec

-----------------------------------------------------------------------------
\* The inferences of t that are past the lock of c: they hold it.
Past(t, c) == {i \in Entered(t) : Model(stack[t][i]) = c}

\* Every inference on a stack is on a State, and a Context.
LEMMA StacksAre ==
  ASSUME TypeOK, NEW t \in Threads
  PROVE  /\ Len(stack[t]) \in Nat /\ DOMAIN stack[t] = 1..Len(stack[t])
         /\ Idle(t) <=> Len(stack[t]) = 0
         /\ \A i \in 1..Len(stack[t]) :
              stack[t][i] \in Frame /\ Model(stack[t][i]) \in Contexts
         /\ ~Idle(t) => Last(stack[t]) = stack[t][Len(stack[t])]
<1>1. stack[t] \in Seq(Frame)
  BY DEF TypeOK
<1>2. \A i \in 1..Len(stack[t]) : stack[t][i] \in Frame
  BY <1>1
<1>3. \A frame \in Frame : Model(frame) \in Contexts
  BY InstanceAssumption DEF Model, Frame
<1>4. /\ Len(stack[t]) \in Nat /\ DOMAIN stack[t] = 1..Len(stack[t])
      /\ stack[t] = <<>> <=> Len(stack[t]) = 0
  BY <1>1
<1>5. ~Idle(t) => Last(stack[t]) = stack[t][Len(stack[t])]
  BY <1>1, LastAndFront DEF Idle
<1> QED
  BY <1>2, <1>3, <1>4, <1>5 DEF Idle

\* A step of a thread leaves the other stacks alone.
LEMMA OthersStay ==
  ASSUME TypeOK, NEW t \in Threads, Calls(t) \/ Continues(t), NEW u \in Threads \ {t}
  PROVE  stack'[u] = stack[u]
BY DEF TypeOK, Calls, Continues, Infers, InfersAgain, Locks, CallsBack, CallbackAnswers,
       NativeReturns, Becomes

\* Which inferences of a thread are past a lock, before and after a step.
LEMMA PastIs ==
  ASSUME TypeOK, NEW t \in Threads, NEW c \in Contexts
  PROVE  \A i : i \in Past(t, c) <=> /\ i \in 1..Len(stack[t]) /\ stack[t][i].at # "lock"
                                     /\ Model(stack[t][i]) = c
BY StacksAre DEF Past, Entered

\* The same, of a stack known after a step.
LEMMA PastWillBe ==
  ASSUME NEW t \in Threads, NEW c \in Contexts, NEW s \in Seq(Frame), stack'[t] = s
  PROVE  \A i : i \in Past(t, c)' <=> i \in 1..Len(s) /\ s[i].at # "lock" /\ Model(s[i]) = c
<1>1. DOMAIN s = 1..Len(s)
  OBVIOUS
<1> QED
  BY <1>1 DEF Past, Entered, Model

\* A change of the innermost inference lets it past its lock, or changes
\* nothing of who is past one.
LEMMA PastBecomes ==
  ASSUME TypeOK, NEW t \in Threads, NEW c \in Contexts, ~Idle(t), NEW f \in Frame,
         stack' = Becomes(t, f), f.state = Last(stack[t]).state, f.at # "lock"
  PROVE  Past(t, c)' = IF Last(stack[t]).at = "lock" /\ Model(Last(stack[t])) = c
                       THEN Past(t, c) \cup {Len(stack[t])} ELSE Past(t, c)
<1> DEFINE n     == Len(stack[t])
           frame == Last(stack[t])
           s     == Append(Front(stack[t]), f)
<1>1. /\ stack[t] \in Seq(Frame) /\ n \in Nat \ {0} /\ frame = stack[t][n] /\ stack[t] # <<>>
  BY StacksAre DEF TypeOK, Idle
<1>2. /\ s \in Seq(Frame) /\ Len(s) = n
      /\ \A i \in 1..n : s[i] = IF i = n THEN f ELSE stack[t][i]
  BY <1>1, Replaced
<1>3. stack'[t] = s
  BY DEF Becomes, TypeOK
<1>4. Model(f) = Model(frame)
  BY DEF Model
<1>5. \A i : i \in Past(t, c)' <=> i \in 1..n /\ s[i].at # "lock" /\ Model(s[i]) = c
  BY <1>2, <1>3, PastWillBe
<1>6. \A i : i \in Past(t, c) <=> i \in 1..n /\ stack[t][i].at # "lock" /\ Model(stack[t][i]) = c
  BY PastIs
<1>7. s[n] = f /\ n \in 1..n /\ \A i \in 1..n : i # n => s[i] = stack[t][i]
  BY <1>1, <1>2
<1>8. ASSUME NEW i
      PROVE  i \in Past(t, c)' <=> \/ i \in Past(t, c)
                                   \/ i = n /\ frame.at = "lock" /\ Model(frame) = c
  <2>1. CASE i = n
    BY <1>1, <1>4, <1>5, <1>6, <1>7, <2>1
  <2>2. CASE i # n
    BY <1>5, <1>6, <1>7, <2>2
  <2> QED
    BY <2>1, <2>2
<1> QED
  BY <1>8

\* An inference begun under a callback is not past its lock yet.
LEMMA PastNested ==
  ASSUME TypeOK, NEW t \in Threads, NEW c \in Contexts, NEW s \in States, NEW p \in AllParams,
         InfersAgain(t, s, p)
  PROVE  Past(t, c)' = Past(t, c)
<1> DEFINE n     == Len(stack[t])
           frame == Last(stack[t])
           e     == [frame EXCEPT !.budget = @ - 1]
           f     == Begins(s, p)
           q     == Front(stack[t]) \o <<e, f>>
<1>1. /\ stack[t] \in Seq(Frame) /\ n \in Nat \ {0} /\ frame = stack[t][n] /\ stack[t] # <<>>
      /\ frame \in Frame
  BY StacksAre DEF InfersAgain, At, TypeOK, Idle
<1>2. frame.at = "callback" /\ frame.budget > 0 /\ stack' = [stack EXCEPT ![t] = q]
  BY DEF InfersAgain, At
<1>3. e \in Frame /\ e.at = frame.at /\ e.state = frame.state
  <2>1. frame.budget - 1 \in 0..Budget
    BY <1>1, <1>2, InstanceAssumption DEF Frame
  <2> QED
    BY <1>1, <2>1 DEF Frame
<1>4. f \in Frame /\ f.at = "lock"
  BY InstanceAssumption DEF Begins, Frame, Places
<1>5. /\ q \in Seq(Frame) /\ Len(q) = n + 1
      /\ \A i \in 1..n + 1 : q[i] = IF i = n + 1 THEN f ELSE IF i = n THEN e ELSE stack[t][i]
  <2> HIDE DEF e, f, n
  <2>1. /\ Front(stack[t]) \o <<e, f>> \in Seq(Frame)
        /\ Len(Front(stack[t]) \o <<e, f>>) = Len(stack[t]) + 1
        /\ \A i \in 1..Len(stack[t]) + 1 : (Front(stack[t]) \o <<e, f>>)[i] =
             IF i = Len(stack[t]) + 1 THEN f ELSE IF i = Len(stack[t]) THEN e ELSE stack[t][i]
    BY <1>1, <1>3, <1>4, ReplacedAndPushed
  <2> QED
    BY <2>1 DEF n
<1>6. stack'[t] = q
  BY <1>2 DEF TypeOK
<1>7. Model(e) = Model(frame)
  BY <1>3 DEF Model
<1>8. \A i : i \in Past(t, c)' <=> i \in 1..n + 1 /\ q[i].at # "lock" /\ Model(q[i]) = c
  <2> HIDE DEF q
  <2>1. \A i : i \in Past(t, c)' <=> i \in 1..Len(q) /\ q[i].at # "lock" /\ Model(q[i]) = c
    BY <1>5, <1>6, PastWillBe
  <2> QED
    BY <1>5, <2>1
<1>9. \A i : i \in Past(t, c) <=> i \in 1..n /\ stack[t][i].at # "lock" /\ Model(stack[t][i]) = c
  BY PastIs
<1>10. /\ q[n] = e /\ n \in 1..n /\ q[n + 1] = f /\ n + 1 \notin 1..n
       /\ 1..n + 1 = 1..n \cup {n + 1}
       /\ \A i \in 1..n : i # n => q[i] = stack[t][i]
  <2> HIDE DEF q, e, f
  <2>1. n \in 1..n /\ n \in 1..n + 1 /\ n + 1 \in 1..n + 1 /\ n + 1 \notin 1..n /\ n # n + 1
    BY <1>1
  <2>2. 1..n + 1 = 1..n \cup {n + 1}
    BY <1>1
  <2> QED
    BY <1>5, <2>1, <2>2
<1>11. ASSUME NEW i PROVE i \in Past(t, c)' <=> i \in Past(t, c)
  <2>1. CASE i = n
    BY <1>1, <1>2, <1>3, <1>7, <1>8, <1>9, <1>10, <2>1
  <2>2. CASE i = n + 1
    BY <1>4, <1>8, <1>9, <1>10, <2>2
  <2>3. CASE i # n /\ i # n + 1
    BY <1>8, <1>9, <1>10, <2>3
  <2> QED
    BY <2>1, <2>2, <2>3
<1> QED
  BY <1>11

\* A call that returns takes itself, which was past its lock, off the stack.
LEMMA PastReturned ==
  ASSUME TypeOK, NEW t \in Threads, NEW c \in Contexts, NativeReturns(t)
  PROVE  /\ Past(t, c)' = Past(t, c) \ {Len(stack[t])}
         /\ Len(stack[t]) \in Past(t, Model(Last(stack[t])))
         /\ Model(Last(stack[t])) \in Contexts
<1> DEFINE n     == Len(stack[t])
           frame == Last(stack[t])
           s     == Front(stack[t])
<1>1. /\ stack[t] \in Seq(Frame) /\ n \in Nat \ {0} /\ frame = stack[t][n] /\ stack[t] # <<>>
      /\ n \in 1..n /\ Model(frame) \in Contexts
  BY StacksAre DEF NativeReturns, At, TypeOK, Idle
<1>2. frame.at = "native" /\ stack' = [stack EXCEPT ![t] = s]
  BY DEF NativeReturns, At
<1>3. s \in Seq(Frame) /\ Len(s) = n - 1 /\ \A i \in 1..n - 1 : s[i] = stack[t][i]
  BY <1>1, LastAndFront
<1>4. stack'[t] = s
  BY <1>2 DEF TypeOK
<1>5. \A i : i \in Past(t, c)' <=> i \in 1..n - 1 /\ s[i].at # "lock" /\ Model(s[i]) = c
  BY <1>3, <1>4, PastWillBe
<1>6. \A i : i \in Past(t, c) <=> i \in 1..n /\ stack[t][i].at # "lock" /\ Model(stack[t][i]) = c
  BY PastIs
<1>7. 1..n - 1 = (1..n) \ {n}
  BY <1>1
<1>8. Past(t, c)' = Past(t, c) \ {n}
  BY <1>3, <1>5, <1>6, <1>7
<1> QED
  BY <1>1, <1>2, <1>8, PastIs

-----------------------------------------------------------------------------
\* A lock is its thread's exactly as long as one inference of the thread is
\* past it.
GuardOf(t, c) ==
  /\ fullLock[c] = t <=> Past(t, c) # {}
  /\ \A i, j \in Past(t, c) : i = j

LEMMA GuardsAre == LocksFollowCalls <=> \A c \in Contexts, t \in Threads : GuardOf(t, c)
BY DEF LocksFollowCalls, GuardOf, Past

\* Taking a lock nobody holds, giving back the lock of the call that returns,
\* and everything else, which touches no lock, keep locks and calls together.
LEMMA GuardStep ==
  ASSUME TypeOK, \A c \in Contexts, t \in Threads : GuardOf(t, c),
         NEW t \in Threads, Calls(t) \/ Continues(t), NEW u \in Threads, NEW c \in Contexts
  PROVE  GuardOf(u, c)'
<1> DEFINE n     == Len(stack[t])
           frame == Last(stack[t])
<1>a. GuardOf(t, c) /\ GuardOf(u, c) /\ (Model(frame) \in Contexts => GuardOf(t, Model(frame)))
  OBVIOUS
<1>b. u # t => Past(u, c)' = Past(u, c)
  <2> SUFFICES ASSUME u # t PROVE Past(u, c)' = Past(u, c)
    OBVIOUS
  <2>1. stack'[u] = stack[u]
    BY OthersStay
  <2> QED
    BY <2>1 DEF Past, Entered, Model
<1>c. fullLock \in [Contexts -> Threads \cup {NoThread}] /\ NoThread \notin Threads
  BY InstanceAssumption DEF TypeOK
<1>1. CASE fullLock' = fullLock /\ Past(t, c)' = Past(t, c)
  <2>1. Past(u, c)' = Past(u, c)
    BY <1>1, <1>b
  <2> QED
    BY <1>1, <2>1 DEF GuardOf
<1>2. CASE Locks(t)
  <2>1. /\ ~Idle(t) /\ frame.at = "lock" /\ fullLock[Model(frame)] = NoThread
        /\ fullLock' = [fullLock EXCEPT ![Model(frame)] = t]
        /\ stack' = Becomes(t, [frame EXCEPT !.at = "native"])
    BY <1>2 DEF Locks, At
  <2>2. frame \in Frame /\ Model(frame) \in Contexts
    BY <2>1, StacksAre
  <2>3. [frame EXCEPT !.at = "native"] \in Frame
    BY <2>2 DEF Frame, Places
  <2>4. Past(t, c)' = IF Model(frame) = c THEN Past(t, c) \cup {n} ELSE Past(t, c)
    BY <2>1, <2>2, <2>3, PastBecomes DEF Frame
  <2>5. CASE Model(frame) = c
    <3>1. Past(t, c) = {} /\ Past(u, c) = {} /\ fullLock'[c] = t
      BY <1>c, <2>1, <2>5 DEF GuardOf
    <3>2. Past(t, c)' = {n}
      BY <2>4, <2>5, <3>1
    <3>3. CASE u = t
      BY <3>1, <3>2, <3>3 DEF GuardOf
    <3>4. CASE u # t
      <4>1. Past(u, c)' = {} /\ fullLock'[c] # u
        BY <1>b, <3>1, <3>4
      <4> QED
        BY <4>1 DEF GuardOf
    <3> QED
      BY <3>3, <3>4
  <2>6. CASE Model(frame) # c
    <3>1. Past(u, c)' = Past(u, c) /\ fullLock'[c] = fullLock[c]
      BY <1>b, <1>c, <2>1, <2>2, <2>4, <2>6
    <3> QED
      BY <3>1 DEF GuardOf
  <2> QED
    BY <2>5, <2>6
<1>3. CASE NativeReturns(t)
  <2>1. fullLock' = [fullLock EXCEPT ![Model(frame)] = NoThread]
    BY <1>3 DEF NativeReturns
  <2>2. /\ Past(t, c)' = Past(t, c) \ {n} /\ Model(frame) \in Contexts
        /\ n \in Past(t, Model(frame))
    BY <1>3, PastReturned
  <2>3. CASE Model(frame) = c
    <3>1. fullLock[c] = t /\ Past(t, c) = {n} /\ fullLock'[c] = NoThread
      BY <1>c, <2>1, <2>2, <2>3 DEF GuardOf
    <3>2. u # t => Past(u, c) = {}
      BY <3>1 DEF GuardOf
    <3>3. Past(u, c)' = {}
      BY <1>b, <2>2, <3>1, <3>2
    <3>4. fullLock'[c] # u
      BY <1>c, <3>1
    <3> QED
      BY <3>3, <3>4 DEF GuardOf
  <2>4. CASE Model(frame) # c
    <3>1. n \notin Past(t, c)
      BY <2>2, <2>4 DEF Past
    <3>2. Past(u, c)' = Past(u, c) /\ fullLock'[c] = fullLock[c]
      BY <1>b, <1>c, <2>1, <2>2, <2>4, <3>1
    <3> QED
      BY <3>2 DEF GuardOf
  <2> QED
    BY <2>3, <2>4
<1>4. ASSUME NEW s \in States, NEW p \in AllParams, InfersAgain(t, s, p) PROVE GuardOf(u, c)'
  BY <1>1, <1>4, PastNested DEF InfersAgain
<1>5. ASSUME NEW s \in States, NEW p \in AllParams, Infers(t, s, p) PROVE GuardOf(u, c)'
  <2>1. stack[t] = <<>> /\ stack'[t] = <<Begins(s, p)>> /\ fullLock' = fullLock
    BY <1>5 DEF Infers, Idle, TypeOK
  <2>2. Past(t, c) = {} /\ Past(t, c)' = {}
    BY <2>1 DEF Past, Entered, Begins
  <2> QED
    BY <1>1, <2>1, <2>2
<1>6. ASSUME NEW f \in Frame, ~Idle(t), frame.at # "lock", f.at # "lock", f.state = frame.state,
             stack' = Becomes(t, f), fullLock' = fullLock
      PROVE  GuardOf(u, c)'
  BY <1>1, <1>6, PastBecomes
<1>7. CASE CallsBack(t)
  <2> DEFINE f == [frame EXCEPT !.at = "callback", !.budget = frame.budget - 1]
  <2>1. /\ ~Idle(t) /\ frame.at = "native" /\ frame.budget > 0
        /\ stack' = Becomes(t, f) /\ fullLock' = fullLock
    BY <1>7 DEF CallsBack, At
  <2>2. frame \in Frame
    BY <2>1, StacksAre
  <2>3. frame.budget - 1 \in 0..Budget
    BY <2>1, <2>2, InstanceAssumption DEF Frame
  <2>4. f \in Frame /\ f.at = "callback" /\ f.state = frame.state
    BY <2>2, <2>3 DEF Frame, Places
  <2> QED
    BY <1>6, <2>1, <2>4
<1>8. ASSUME NEW stop \in BOOLEAN, NEW panics \in BOOLEAN, CallbackAnswers(t, stop, panics)
      PROVE  GuardOf(u, c)'
  <2> DEFINE f == [frame EXCEPT !.at = "native", !.abort = stop, !.panicked = panics]
  <2>1. /\ ~Idle(t) /\ frame.at = "callback"
        /\ stack' = Becomes(t, f) /\ fullLock' = fullLock
    BY <1>8 DEF CallbackAnswers, At
  <2>2. frame \in Frame
    BY <2>1, StacksAre
  <2>3. f \in Frame /\ f.at = "native" /\ f.state = frame.state
    BY <2>2 DEF Frame, Places
  <2> QED
    BY <1>6, <2>1, <2>3
<1> QED
  BY <1>2, <1>3, <1>4, <1>5, <1>7, <1>8 DEF Calls, Continues

\* For any number of threads and callbacks nested to any depth, full_lock is
\* held as long as one inference of its holder is past it, and one only: no
\* path of a nested call leaves a guard behind or drops one that is not its own.
THEOREM GuardsFollowCalls == Spec => []LocksFollowCalls
<1>1. Init => LocksFollowCalls
  BY InstanceAssumption DEF Init, LocksFollowCalls, Entered
<1>2. ASSUME TypeOK, LocksFollowCalls, [Next]_vars PROVE LocksFollowCalls'
  <2>1. CASE Next
    <3>1. \A c \in Contexts, t \in Threads : GuardOf(t, c)'
      BY <1>2, <2>1, GuardStep, GuardsAre DEF Next
    <3> QED
      BY <3>1 DEF LocksFollowCalls, GuardOf, Past
  <2>2. CASE UNCHANGED vars
    BY <1>2, <2>2 DEF vars, LocksFollowCalls, Entered, Model
  <2> QED
    BY <1>2, <2>1, <2>2
<1> QED
  BY TypeCorrect, <1>1, <1>2, PTL DEF Spec

-----------------------------------------------------------------------------
\* A thread that waits does so for a Context further along the order than every
\* Context it holds the lock of.
LEMMA WaitsFurtherOn ==
  ASSUME TypeOK, LocksFollowCalls, NEW t \in Threads, Follows(t), At(t, "lock"),
         NEW c \in Contexts, fullLock[c] = t
  PROVE  <<c, Model(Last(stack[t]))>> \in Order
<1> DEFINE n == Len(stack[t])
<1>1. /\ n \in Nat \ {0} /\ n \in 1..n /\ DOMAIN stack[t] = 1..n
      /\ Last(stack[t]) = stack[t][n] /\ stack[t][n].at = "lock"
  BY StacksAre DEF At
<1>2. PICK i \in Past(t, c) : TRUE
  BY GuardsAre DEF GuardOf
<1>3. i \in 1..n /\ stack[t][i].at # "lock" /\ Model(stack[t][i]) = c
  BY <1>2, PastIs
<1>4. i < n
  BY <1>1, <1>3
<1> QED
  BY <1>1, <1>3, <1>4 DEF Follows

\* The advice to callers is sound for any number of threads and Contexts: along
\* an order no threads wait for each other's full_lock in a circle. Of the
\* Contexts a circle waits for, one is under no other; the holder of its lock
\* waits for one further along.
THEOREM OrderPreventsCircles == Spec => []NoCircularWait
<1>1. ASSUME TypeOK, LocksFollowCalls PROVE NoCircularWait
  <2> SUFFICES ASSUME \A t \in Threads : Follows(t),
                      NEW circle \in (SUBSET Threads) \ {{}},
                      \A t \in circle : WaitsFor(t) \in circle
               PROVE  FALSE
    BY DEF NoCircularWait
  <2> DEFINE Awaited(t) == Model(Last(stack[t]))
             awaited    == {Awaited(t) : t \in circle}
  <2>1. ASSUME NEW t \in circle
        PROVE  At(t, "lock") /\ Awaited(t) \in Contexts /\ fullLock[Awaited(t)] \in circle
    <3>1. At(t, "lock") /\ fullLock[Awaited(t)] \in circle
      BY InstanceAssumption DEF WaitsFor
    <3>2. Awaited(t) \in Contexts
      BY <1>1, <3>1, StacksAre DEF At
    <3> QED
      BY <3>1, <3>2
  <2>2. awaited \in (SUBSET Contexts) \ {{}}
    BY <2>1
  <2>3. PICK c \in awaited : \A d \in awaited : <<c, d>> \notin Order
    BY <2>2, OrderAssumption
  <2>4. PICK t \in circle : c = Awaited(t)
    BY <2>3
  <2>5. PICK u \in circle : fullLock[c] = u
    BY <2>1, <2>4
  <2>6. <<c, Awaited(u)>> \in Order
    BY <1>1, <2>1, <2>2, <2>3, <2>5, WaitsFurtherOn
  <2> QED
    BY <2>3, <2>6
<1> QED
  BY TypeCorrect, GuardsFollowCalls, <1>1, PTL
=============================================================================
