----------------------- MODULE SharedContextRefinement -----------------------
(***************************************************************************)
(* SharedContext implements ContextContract.                               *)
(***************************************************************************)
EXTENDS SharedContext

\* The Context is poisoned, or a call has come back from whisper_full with a
\* loss and, holding full_lock, has not set the flag yet.
BeingLost(c) ==
  \E t \in Threads :
    onCtx[t] = c /\ pc[t] \in {"full: forget", "full: mark", "full: mark first"}

PhaseOf(c) ==
  CASE ctx[c] = "none"                               -> "absent"
    [] ctx[c] = "live" /\ (lost[c] \/ BeingLost(c))     -> "poisoned"
    [] ctx[c] = "live" /\ ~(lost[c] \/ BeingLost(c))    -> "ready"
    [] OTHER                                         -> "gone"

Inside(c) == {t \in Threads : pc[t] = "full: native" /\ onCtx[t] = c}

RunningOn(c) ==
  IF Inside(c) = {} THEN NoState ELSE onState[CHOOSE t \in Inside(c) : TRUE]

Contract == INSTANCE ContextContract WITH
  phase   <- [c \in Contexts |-> PhaseOf(c)],
  running <- [c \in Contexts |-> RunningOn(c)],
  home    <- owner,
  open    <- {s \in States : native[s] = "live"}

\* Every step of the threads is a step of the contract or changes nothing it
\* speaks about: one inference and one loss per model, none after the loss,
\* and a model that outlives its states.
ImplementsContract == Contract!Spec
=============================================================================
