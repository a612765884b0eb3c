----------------------- MODULE SharedContextInvariant -----------------------
(***************************************************************************)
(* The inductive invariant behind the safety properties of SharedContext.  *)
(* The safety properties are not inductive: that a State's pointer is      *)
(* valid, say, rests on what every label of every call knows about the     *)
(* State and the Context it works on.  Each part below is one such body of *)
(* knowledge; together they are preserved by every step.                   *)
(***************************************************************************)
EXTENDS SharedContext

UnderInitLock == {"new: native", "new: settle", "create: native",
                  "create: recheck", "create: discard", "create: publish"}
Losing        == {"full: forget", "full: mark", "full: mark first"}
UnderFullLock == {"full: check", "full: native", "full: free", "full: unlock"} \cup Losing
Creating      == {"create: lock", "create: native", "create: recheck",
                  "create: discard", "create: publish"}
Alone         == {"new: settle", "drop: context"}
InFull        == {"full: lock"} \cup UnderFullLock

\* A native state has a Context from its allocation on, and nothing else
\* happens to a state before that.
BirthInv ==
  \A s \in States :
    /\ native[s] = "none" <=> owner[s] = NoContext
    /\ native[s] = "none" => handle[s] = "none" /\ cause[s] = NoCode

\* What a call works on: create_state borrows an Arc of its thread, full and
\* drop borrow or own a State of the Context.
Target(t) ==
  /\ pc[t] \in {"idle", "new: lock", "new: native"} => onCtx[t] = NoContext
  /\ pc[t] \in {"idle", "new: lock", "new: native", "new: settle",
                "create: lock", "create: native", "drop: context"} => onState[t] = NoState
  /\ pc[t] \in Creating =>
       /\ onCtx[t] \in Contexts
       /\ t \in arcs[onCtx[t]]
       /\ onState[t] # NoState =>
            owner[onState[t]] = onCtx[t] /\ handle[onState[t]] = "none"
  /\ pc[t] \in InFull \cup {"drop: arc"} =>
       /\ onCtx[t] \in Contexts
       /\ onState[t] \in States
       /\ owner[onState[t]] = onCtx[t]
  /\ pc[t] = "drop: arc" => handle[onState[t]] = "dropping"
  /\ pc[t] \in InFull => Owned(onState[t])

TargetInv == \A t \in Threads : Target(t)

\* No two calls use one State.
ApartInv ==
  \A t, u \in Threads : onState[t] = onState[u] => t = u \/ onState[t] = NoState

\* A label between acquiring and releasing a lock belongs to its holder.
HoldsLocks(t) ==
  /\ pc[t] \in UnderInitLock => initLock = t
  /\ pc[t] \in UnderFullLock => fullLock[onCtx[t]] = t

LockInv == \A t \in Threads : HoldsLocks(t)

\* Before its constructor returns and until new publishes it, a Context has no
\* Arc and no State.
Unused(c) == arcs[c] = {} /\ \A s \in States : owner[s] # c

Unpublished(t) ==
  pc[t] = "new: settle" /\ onCtx[t] # NoContext => ctx[onCtx[t]] # "none" /\ Unused(onCtx[t])

FreshInv ==
  /\ \A c \in Contexts : ctx[c] = "none" => Unused(c)
  /\ \A t \in Threads  : Unpublished(t)

\* Who works on what under which lock; everything below rests on it.
BaseInv == TypeOK /\ BirthInv /\ TargetInv /\ ApartInv /\ LockInv /\ FreshInv

\* A loss is on record in the flag, or its finder still holds full_lock.
OnRecord(s) ==
  cause[s] # NoCode =>
    \/ lost[owner[s]]
    \/ \E t \in Threads : onState[t] = s /\ pc[t] \in Losing

NotYetLost(t) == pc[t] \in Losing \cup {"full: native"} => ~lost[onCtx[t]]

\* Only an inference poisons: a poisoned Context has had a State.
FlagInv ==
  \A c \in Contexts : lost[c] => \E s \in States : owner[s] = c

LossInv ==
  /\ \A s \in States  : OnRecord(s)
  /\ \A t \in Threads : NotYetLost(t)
  /\ LossBudget

\* A late State was published by the last create_state past its second check.
LastPublished(s) ==
  /\ owner[s] \in Contexts /\ lost[owner[s]]
  /\ \A t \in Threads : pc[t] = "create: publish" => onCtx[t] # owner[s]

LateInv ==
  /\ AtMostOneLateState
  /\ \A s \in late : LastPublished(s)

\* The sentinel of a constructor call is what that call threw.
Reports(t) ==
  /\ ret[t].kind \in {"ContextLoad", "StateInit"} => ret[t].code = rc[t]
  /\ pc[t] \in UnderInitLock => sentinel[t] = rc[t]
  /\ pc[t] \in {"new: lock", "new: native", "create: lock", "create: native"} => rc[t] = NoCode
  /\ pc[t] = "new: settle" /\ onCtx[t] # NoContext => rc[t] = NoCode
  /\ pc[t] \notin {"idle", "full: unlock"} => ret[t] = NoResult
  /\ pc[t] = "full: unlock" => ret[t].kind \notin {"ContextLoad", "StateInit"}

ReportInv == \A t \in Threads : Reports(t)

\* The pointer of a State and its native block, at every label of a call.
Pointer(t) ==
  /\ pc[t] \in {"full: lock", "full: check", "full: native", "full: mark first", "full: free"} =>
       handle[onState[t]] = "some" /\ native[onState[t]] = "live"
  /\ pc[t] = "full: forget" => handle[onState[t]] = "some" /\ native[onState[t]] = "freed"
  /\ pc[t] = "full: mark"   => handle[onState[t]] = "null"
  /\ pc[t] = "full: free"   => lost[onCtx[t]]
  /\ pc[t] = "full: unlock" /\ ret[t].kind = "StateLost" =>
       lost[onCtx[t]] /\ handle[onState[t]] = "null"
  /\ pc[t] \in Creating /\ onState[t] # NoState => native[onState[t]] = "live"

\* A native state that is not what its handle says is in the hands of a call.
InHand(s) ==
  /\ native[s] # "freed twice"
  /\ handle[s] \in {"null", "dropping", "gone"} => native[s] = "freed"
  /\ handle[s] = "some" /\ native[s] # "live" =>
       \E t \in Threads : onState[t] = s /\ pc[t] = "full: forget"
  /\ handle[s] = "none" /\ native[s] = "live" =>
       \E t \in Threads : onState[t] = s /\ pc[t] \in Creating
  /\ handle[s] = "dropping" => \E t \in Threads : onState[t] = s /\ pc[t] = "drop: arc"

PointerInv ==
  /\ \A t \in Threads : Pointer(t)
  /\ \A s \in States  : InHand(s)

\* A referenced Context is live; a live one without references is between its
\* constructor and its first Arc, or its last Arc and whisper_free.
Referenced(c) ==
  /\ ctx[c] # "freed twice"
  /\ Refs[c] # {} => ctx[c] = "live"
  /\ ctx[c] = "live" /\ Refs[c] = {} =>
       \E t \in Threads : onCtx[t] = c /\ pc[t] \in Alone

\* The thread that disposes of an unreferenced Context does so alone.
AloneWith(t) ==
  /\ pc[t] = "new: settle" /\ onCtx[t] # NoContext => ctx[onCtx[t]] = "live"
  /\ pc[t] = "drop: context" =>
       onCtx[t] \in Contexts /\ ctx[onCtx[t]] = "live" /\ Refs[onCtx[t]] = {}

DisposesAlone ==
  \A t, u \in Threads :
    pc[t] \in Alone /\ pc[u] \in Alone /\ onCtx[t] = onCtx[u] => t = u \/ onCtx[t] = NoContext

ContextInv ==
  /\ \A c \in Contexts : Referenced(c)
  /\ \A t \in Threads  : AloneWith(t)
  /\ DisposesAlone

IndInv ==
  /\ BaseInv
  /\ FlagInv
  /\ LossInv
  /\ LateInv
  /\ ReportInv
  /\ PointerInv
  /\ ContextInv
=============================================================================
