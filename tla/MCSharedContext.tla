-------------------------- MODULE MCSharedContext --------------------------
(***************************************************************************)
(* Constants for model checking SharedContext.                             *)
(***************************************************************************)
EXTENDS SharedContextInvariant, SharedContextRefinement, TLC

CONSTANTS t1, t2, t3, c1, c2, s1, s2, s3

MCThreads2  == {t1, t2}
MCThreads3  == {t1, t2, t3}
MCContexts1 == {c1}
MCContexts2 == {c1, c2}
MCStates2   == {s1, s2}
MCStates3   == {s1, s2, s3}

\* One caught exception that is not the first sentinel, one encode failure.
MCExceptionCodes   == {-101}
MCRecoverableCodes == {-6}

\* Names only: no action tells two threads, contexts or states apart.
MCSymmetry == Permutations(Threads) \cup Permutations(Contexts) \cup Permutations(States)
=============================================================================
