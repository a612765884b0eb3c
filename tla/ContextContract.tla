-------------------------- MODULE ContextContract --------------------------
(***************************************************************************)
(* What the safe API promises about one process's models, without locks,   *)
(* threads or sentinels: a model is loaded, states are opened on it and    *)
(* closed, inferences run on it one at a time, at most one of them ever    *)
(* loses its state, nothing runs after that, and the model is unloaded     *)
(* when no state of it is left.                                            *)
(***************************************************************************)
CONSTANTS Contexts, States, NoContext, NoState

VARIABLES
  phase,     \* of each model: absent, ready, poisoned, gone
  running,   \* the state a model's inference runs on, or NoState
  home,      \* the model a state was opened on
  open       \* the states that hold native memory

contract == <<phase, running, home, open>>

Init ==
  /\ phase   = [c \in Contexts |-> "absent"]
  /\ running = [c \in Contexts |-> NoState]
  /\ home    = [s \in States |-> NoContext]
  /\ open    = {}

Load(c) ==
  /\ phase[c] = "absent"
  /\ phase' = [phase EXCEPT ![c] = "ready"]
  /\ UNCHANGED <<running, home, open>>

\* Also on a poisoned model: a creation that had begun may still allocate.
Open(c, s) ==
  /\ phase[c] \in {"ready", "poisoned"}
  /\ home[s] = NoContext
  /\ home' = [home EXCEPT ![s] = c]
  /\ open' = open \cup {s}
  /\ UNCHANGED <<phase, running>>

Infer(c, s) ==
  /\ phase[c] = "ready"
  /\ running[c] = NoState
  /\ s \in open /\ home[s] = c
  /\ running' = [running EXCEPT ![c] = s]
  /\ UNCHANGED <<phase, home, open>>

Finish(c) ==
  /\ running[c] # NoState
  /\ running' = [running EXCEPT ![c] = NoState]
  /\ UNCHANGED <<phase, home, open>>

\* The inference fails for good; its memory is given back now or later.
Lose(c) ==
  /\ phase[c] = "ready"
  /\ running[c] # NoState
  /\ phase'   = [phase EXCEPT ![c] = "poisoned"]
  /\ running' = [running EXCEPT ![c] = NoState]
  /\ open'    \in {open, open \ {running[c]}}
  /\ UNCHANGED home

Close(s) ==
  /\ s \in open
  /\ running[home[s]] # s
  /\ open' = open \ {s}
  /\ UNCHANGED <<phase, running, home>>

Unload(c) ==
  /\ phase[c] \in {"ready", "poisoned"}
  /\ \A s \in open : home[s] # c
  /\ phase' = [phase EXCEPT ![c] = "gone"]
  /\ UNCHANGED <<running, home, open>>

Next ==
  \/ \E c \in Contexts : \/ Load(c) \/ Finish(c) \/ Lose(c) \/ Unload(c)
                         \/ \E s \in States : Open(c, s) \/ Infer(c, s)
  \/ \E s \in States : Close(s)

Spec == Init /\ [][Next]_contract
=============================================================================
