------------------------ MODULE MCInferenceCallbacks ------------------------
(***************************************************************************)
(* Constants for model checking InferenceCallbacks.                        *)
(***************************************************************************)
EXTENDS InferenceCallbacks, TLC

CONSTANTS t1, t2, c1, c2, s1, s2, s3, p1, p2

MCThreads   == {t1, t2}
MCContexts  == {c1, c2}
MCStates    == {s1, s2, s3}
MCAllParams == {p1, p2}
MCHostOf    == (p1 :> t1) @@ (p2 :> t2)

\* Two States on one model and one on another, so that a callback can infer on
\* the model it is under, on another, and against a second thread.
MCContextOf == (s1 :> c1) @@ (s2 :> c1) @@ (s3 :> c2)
MCOrder     == {<<c1, c2>>}
=============================================================================
