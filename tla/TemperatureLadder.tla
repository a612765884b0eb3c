------------------------- MODULE TemperatureLadder --------------------------
(***************************************************************************)
(* The loop of native code that is most sensitive to the numbers of a      *)
(* Params, the temperature ladder,                                         *)
(*                                                                         *)
(*     for (float t = temperature; t < 1.0 + 1e-6; t += inc) push(t);      *)
(*                                                                         *)
(* which full builds before it decodes, to retry hotter what failed, and   *)
(* the two setters that keep it short.                                     *)
(*                                                                         *)
(* A float is a count of quanta with Precision significant bits, so that   *)
(* adding a little to a lot changes nothing, or one of the three others.   *)
(***************************************************************************)
EXTENDS Integers

CONSTANTS
  Precision,   \* the values below it are exact: 2 ^ significant bits
  One, Eps,    \* 1.0 and 1e-6
  MinInc,      \* MIN_TEMPERATURE_INC
  DefaultInc,  \* what native code's default parameters hold
  Quanta,      \* finite arguments of the setters
  RungCap      \* the counter of rungs stops here

VARIABLES
  params,  \* the fields of whisper_full_params this module is about
  phase,   \* of full: "idle", "building" the ladder or "trying" it
  rung,    \* t of the loop
  rungs    \* how often it pushed

vars == <<params, phase, rung, rungs>>

Finite(n) == [kind |-> "finite", n |-> n]
NaN       == [kind |-> "nan",    n |-> 0]
Infinity  == [kind |-> "inf",    n |-> 0]
MinusInf  == [kind |-> "-inf",   n |-> 0]
Floats    == {Finite(n) : n \in Quanta} \cup {NaN, Infinity, MinusInf}

IsFinite(x) == x.kind = "finite"

Magnitude(n) == IF n < 0 THEN -n ELSE n

\* The distance between floats of the size of n.
Ulp(n) ==
  CHOOSE u \in {1, 2, 4, 8, 16, 32, 64, 128, 256, 512, 1024, 2048} :
    /\ Magnitude(n) < u * Precision
    /\ u = 1 \/ Magnitude(n) >= (u \div 2) * Precision

\* To the nearest float, ties to even.
Round(n) ==
  LET u    == Ulp(n)
      down == n \div u
      rest == n % u
  IN IF 2 * rest < u \/ (2 * rest = u /\ down % 2 = 0) THEN down * u ELSE (down + 1) * u

\* x + y for a y that is finite: what else x is, it stays.
Plus(x, y) == IF IsFinite(x) THEN Finite(Round(x.n + y.n)) ELSE x

Less(x, n) == x.kind = "-inf" \/ (IsFinite(x) /\ x.n < n)

FloatsAssumption ==
  /\ {Precision, One, Eps, MinInc, DefaultInc, RungCap} \subseteq Nat \ {0} /\ Quanta \subseteq Int
  \* 1.0 is the smallest float of its size, and sums of the loop are of sizes that Ulp knows
  /\ 2 * One = Ulp(One) * Precision /\ 3 * One < 2048 * Precision
  /\ Eps + Ulp(One) <= One
  /\ Ulp(One) < MinInc /\ MinInc <= DefaultInc /\ DefaultInc <= One
  /\ \A n \in Quanta \cup {One, MinInc, DefaultInc} : Round(n) = n

TypeOK ==
  /\ params \in [temperature : {Finite(n) : n \in 0..One}, inc : {Finite(n) : n \in 0..One}]
  /\ phase \in {"idle", "building", "trying"}
  /\ rung \in [kind : {"finite"}, n : Int]
  /\ rungs \in 0..RungCap

-----------------------------------------------------------------------------
(***************************************************************************)
(* The clamps.                                                             *)
(***************************************************************************)
\* Mutated form of ClampTemperatureInc, in no specification.
ClampIncByHalf(inc) ==
  IF ~IsFinite(inc) \/ 2 * inc.n < MinInc THEN Finite(0)
  ELSE IF inc.n > One THEN Finite(One) ELSE inc

ClampTemperature(t) ==
  IF ~IsFinite(t) \/ t.n < 0 THEN Finite(0) ELSE IF t.n > One THEN Finite(One) ELSE t

ClampTemperatureInc(inc) ==
  IF ~IsFinite(inc) \/ inc.n < MinInc THEN Finite(0)
  ELSE IF inc.n > One THEN Finite(One) ELSE inc

-----------------------------------------------------------------------------
\* Params::new.
Init ==
  /\ params = [temperature |-> Finite(0), inc |-> Finite(DefaultInc)]
  /\ phase = "idle" /\ rung = Finite(0) /\ rungs = 0

SetTemperature(t) ==
  /\ phase = "idle"
  /\ params' = [params EXCEPT !.temperature = ClampTemperature(t)]
  /\ UNCHANGED <<phase, rung, rungs>>

SetTemperatureInc(inc) ==
  /\ phase = "idle"
  /\ params' = [params EXCEPT !.inc = ClampTemperatureInc(inc)]
  /\ UNCHANGED <<phase, rung, rungs>>

-----------------------------------------------------------------------------
(***************************************************************************)
(* Native code.                                                            *)
(***************************************************************************)
FullStarts ==
  /\ phase = "idle"
  /\ phase' = "building" /\ rung' = params.temperature /\ rungs' = 0
  /\ UNCHANGED params

\* One turn of the loop.
Pushes ==
  /\ phase = "building" /\ params.inc.n > 0 /\ Less(rung, One + Eps)
  /\ rung' = Plus(rung, params.inc)
  /\ rungs' = IF rungs < RungCap THEN rungs + 1 ELSE rungs
  /\ UNCHANGED <<params, phase>>

LadderEnds ==
  /\ phase = "building" /\ params.inc.n > 0 /\ ~Less(rung, One + Eps)
  /\ phase' = "trying"
  /\ UNCHANGED <<params, rung, rungs>>

\* No increment, no ladder.
SingleAttempt ==
  /\ phase = "building" /\ params.inc.n <= 0
  /\ phase' = "trying" /\ rungs' = 1
  /\ UNCHANGED <<params, rung>>

\* It decodes at each rung in turn until the outcome is good enough.
Returns ==
  /\ phase = "trying"
  /\ phase' = "idle" /\ rung' = Finite(0) /\ rungs' = 0
  /\ UNCHANGED params

Next ==
  \/ \E x \in Floats : SetTemperature(x) \/ SetTemperatureInc(x)
  \/ FullStarts \/ Pushes \/ LadderEnds \/ SingleAttempt \/ Returns

Spec == Init /\ [][Next]_vars

-----------------------------------------------------------------------------
(***************************************************************************)
(* Properties.                                                             *)
(***************************************************************************)
\* The ladder has at least one rung, or full would decode nothing and succeed,
\* and about One / MinInc of them at most, rounding included: each is at least
\* the increment less a rounding error above the one before.
LadderIsShort ==
  /\ phase = "trying" => rungs >= 1
  /\ rungs <= (One + Eps) \div (MinInc - Ulp(One) \div 2) + 1
=============================================================================
