----------------------------- MODULE SystemInfo -----------------------------
(***************************************************************************)
(* system_info(): one native call per process, cached for every caller.    *)
(*                                                                         *)
(* The native call rebuilds a static buffer in place, under no lock, and   *)
(* returns a pointer into it, which the next call leaves dangling.  The    *)
(* crate therefore looks at a OnceLock, takes a mutex, looks again, calls, *)
(* copies, and fills the OnceLock.                                         *)
(***************************************************************************)
EXTENDS Integers

CONSTANTS Threads, NoThread

NoThreadAssumption == NoThread \notin Threads

Results == {"text", "None"}   \* the SmolStr, or the None of a failed call

VARIABLES
  pc,        \* where each thread is in system_info
  cache,     \* CACHE, "unset" until its one set
  initLock,  \* INIT_LOCK: the thread holding it
  builds,    \* how often the static buffer was rebuilt
  raw,       \* the native result in each thread's hands: the buffer, or NULL
  answer     \* what each thread got last, "unset" if nothing yet

vars == <<pc, cache, initLock, builds, raw, answer>>

Labels == {"idle", "lock", "re-check", "call", "building", "copy", "set"}

TypeOK ==
  /\ pc       \in [Threads -> Labels]
  /\ cache    \in Results \cup {"unset"}
  /\ initLock \in Threads \cup {NoThread}
  /\ builds   \in Nat
  /\ raw      \in [Threads -> {"NULL", "buffer"}]
  /\ answer   \in [Threads -> Results \cup {"unset"}]

Init ==
  /\ pc       = [t \in Threads |-> "idle"]
  /\ cache    = "unset"
  /\ initLock = NoThread
  /\ builds   = 0
  /\ raw      = [t \in Threads |-> "NULL"]
  /\ answer   = [t \in Threads |-> "unset"]

Goes(t, from, to) == pc[t] = from /\ pc' = [pc EXCEPT ![t] = to]
Answers(t, result) == answer' = [answer EXCEPT ![t] = result]

-----------------------------------------------------------------------------
(***************************************************************************)
(* Mutated forms, in no specification.                                     *)
(***************************************************************************)
\* Locks without the mutex, trusting the OnceLock alone.
DoesNotLock(t) ==
  /\ Goes(t, "lock", "re-check")
  /\ UNCHANGED <<cache, initLock, builds, raw, answer>>

\* Locks that answers None when the mutex is taken.
GivesUp(t) ==
  \/ /\ Goes(t, "lock", "re-check")
     /\ initLock = NoThread
     /\ initLock' = t
     /\ UNCHANGED <<cache, builds, raw, answer>>
  \/ /\ Goes(t, "lock", "idle")
     /\ initLock # NoThread
     /\ Answers(t, "None")
     /\ UNCHANGED <<cache, initLock, builds, raw>>

\* FindsSet that keeps the mutex.
FindsSetLocked(t) ==
  /\ Goes(t, "re-check", "idle")
  /\ cache # "unset"
  /\ Answers(t, cache)
  /\ UNCHANGED <<cache, initLock, builds, raw>>

-----------------------------------------------------------------------------
\* The first look, with no lock.
Hits(t) ==
  /\ pc[t] = "idle" /\ cache # "unset"
  /\ Answers(t, cache)
  /\ UNCHANGED <<pc, cache, initLock, builds, raw>>

Misses(t) ==
  /\ Goes(t, "idle", "lock")
  /\ cache = "unset"
  /\ UNCHANGED <<cache, initLock, builds, raw, answer>>

Locks(t) ==
  /\ Goes(t, "lock", "re-check")
  /\ initLock = NoThread
  /\ initLock' = t
  /\ UNCHANGED <<cache, builds, raw, answer>>

\* Another thread filled the cache meanwhile; the guard drops on return.
FindsSet(t) ==
  /\ Goes(t, "re-check", "idle")
  /\ cache # "unset"
  /\ initLock' = NoThread
  /\ Answers(t, cache)
  /\ UNCHANGED <<cache, builds, raw>>

FindsUnset(t) ==
  /\ Goes(t, "re-check", "call")
  /\ cache = "unset"
  /\ UNCHANGED <<cache, initLock, builds, raw, answer>>

\* whisper_print_system_info empties the buffer and appends to it.
Builds(t) ==
  /\ Goes(t, "call", "building")
  /\ builds' = builds + 1
  /\ UNCHANGED <<cache, initLock, raw, answer>>

\* It is done, or an append threw and the shim returned NULL.
ShimReturns(t) ==
  /\ Goes(t, "building", "copy")
  /\ \E result \in {"NULL", "buffer"} : raw' = [raw EXCEPT ![t] = result]
  /\ UNCHANGED <<cache, initLock, builds, answer>>

\* The bytes behind the pointer are copied if they are UTF-8.
Copies(t) ==
  /\ Goes(t, "copy", "set")
  /\ \E result \in Results :
       /\ raw[t] = "NULL" => result = "None"
       /\ Answers(t, result)
  /\ UNCHANGED <<cache, initLock, builds, raw>>

\* CACHE.set keeps the value it has; the guard drops on return.
Sets(t) ==
  /\ Goes(t, "set", "idle")
  /\ cache' = IF cache = "unset" THEN answer[t] ELSE cache
  /\ initLock' = NoThread
  /\ UNCHANGED <<builds, raw, answer>>

Calls(t) == Hits(t) \/ Misses(t)

Continues(t) ==
  \/ Locks(t) \/ FindsSet(t) \/ FindsUnset(t)
  \/ Builds(t) \/ ShimReturns(t) \/ Copies(t) \/ Sets(t)

Next == \E t \in Threads : Calls(t) \/ Continues(t)

Spec == Init /\ [][Next]_vars

\* A scheduled thread goes on and the native call returns.  The mutex need not be
\* fair: only the callers that came first ever wait for it.
Fairness == \A t \in Threads : WF_vars(Continues(t))

-----------------------------------------------------------------------------
(***************************************************************************)
(* Properties.                                                             *)
(***************************************************************************)
\* However many threads come first together, the native function is entered at
\* most once per process, a failed call included, so that no pointer into its static
\* buffer is read while, or after, it is rebuilt; and every caller gets the one
\* answer it left, those that waited for it included.
OneAnswerPerProcess ==
  /\ builds <= 1
  /\ \A t, u \in Threads :
       "unset" \notin {answer[t], answer[u]} => answer[t] = answer[u]

\* Every call comes back, although its thread may wait for a mutex.
CallsReturn == \A t \in Threads : []<>(pc[t] = "idle")
=============================================================================
