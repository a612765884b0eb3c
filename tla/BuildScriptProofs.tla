-------------------------- MODULE BuildScriptProofs --------------------------
(***************************************************************************)
(* Proofs about BuildScript, for every configuration, every set of marked  *)
(* files and every bound on the edits: what a program is linked with is    *)
(* patched, is current, and resolves.                                      *)
(*                                                                         *)
(* The three properties look at quiet builds only, but what such a build   *)
(* links was made by earlier runs, raced with edits and survived failures. *)
(* The inductive invariant therefore dates everything by the start of a    *)
(* run: what the run has seen of the source holds as long as the source    *)
(* has not changed since, and what it made is at least as old as its start.*)
(***************************************************************************)
EXTENDS BuildScript, TLAPS

InScript == phase \in {"find", "verify", "cmake", "shim", "bindgen"}
Links    == {"whispercpp_shim"} \cup Linked(config)

\* The source has not changed since r began.
Unmoved(r) == tree.changed["source"] <= r.at

\* What a run that watches the source has verified, and the library it made.
Seen(r)    == "source" \in r.watched /\ Unmoved(r) => Complete
Library(r) == out.lib >= r.at /\ (Unmoved(r) => out.patched)

\* Records are records, and time does not run ahead of the clock.
ShapeInv ==
  /\ run     = [at |-> run.at, watched |-> run.watched, links |-> run.links]
  /\ record  = [at |-> record.at, watched |-> record.watched, links |-> record.links]
  /\ program = [result |-> program.result, out |-> program.out]
  /\ \A part \in Parts : tree.changed[part] <= edits
  /\ record.at <= edits
  /\ record.at = Never => record = Nothing

\* The run under way; cargo has forgotten the one before.
RunInv ==
  /\ ~InScript => run = Nothing
  /\ InScript =>
       /\ record = Nothing
       /\ run.at \in 0..edits
       /\ settled => run.at = edits
       /\ "script" \in run.watched
       /\ "source" \in run.watched <=> phase \in {"cmake", "shim", "bindgen"}
       /\ Seen(run)
       /\ phase \in {"shim", "bindgen"} => Library(run)
       /\ phase = "bindgen" =>
            "shim" \in run.watched /\ run.links = Links /\ out.shim >= run.at
       /\ phase # "bindgen" => run.links = {}

\* The last successful run: it found no source, or it made all there is.
RecordInv ==
  record.at # Never =>
    /\ "script" \in record.watched
    /\ "source" \notin record.watched => record.links = {}
    /\ "source" \in record.watched =>
         /\ Seen(record) /\ Library(record)
         /\ "shim" \in record.watched /\ record.links = Links
         /\ out.shim >= record.at /\ out.bindings >= record.at

\* What cargo compiles with, and what it compiled, nobody having edited since.
ProgramInv ==
  /\ phase = "compile" => record.at # Never /\ (settled => ~Stale)
  /\ Quiet /\ program.result \notin {"none", "failed"} =>
       /\ record.at # Never /\ ~Stale
       /\ program.out = out
       /\ program.result = IF out.bindings = Never THEN "no bindings"
                           ELSE IF Resolves(config, record.links) THEN "linked" ELSE "unresolved"

BuildInv == TypeOK /\ ShapeInv /\ RunInv /\ RecordInv /\ ProgramInv

-----------------------------------------------------------------------------
\* An edit moves the clock: what it touches has changed since any run began.
LEMMA EditStep ==
  ASSUME BuildInv, NEW part \in Parts, NEW present \in BOOLEAN, NEW files \in SUBSET Files,
         Edited(part, present, files),
         part # "source" => present = tree.present /\ files = tree.files
  PROVE  BuildInv'
<1>a. TypeOK /\ ShapeInv /\ RunInv /\ RecordInv /\ ProgramInv
  BY DEF BuildInv
<1> USE BuildAssumption
<1>1. /\ edits \in Nat /\ edits < MaxEdits /\ edits' = edits + 1
      /\ tree' = [present |-> present, files |-> files,
                  changed |-> [tree.changed EXCEPT ![part] = edits + 1]]
      /\ settled' = FALSE
      /\ UNCHANGED <<config, phase, run, record, out, program>>
  BY <1>a DEF Edited, TypeOK
<1>2. /\ tree.changed \in [Parts -> 0..MaxEdits]
      /\ tree'.changed = [tree.changed EXCEPT ![part] = edits + 1]
      /\ tree'.present = present /\ tree'.files = files
  BY <1>a, <1>1 DEF TypeOK
<1>3. \A p \in Parts : tree'.changed[p] = IF p = part THEN edits + 1 ELSE tree.changed[p]
  BY <1>2
<1>4. TypeOK'
  <2>1. [tree.changed EXCEPT ![part] = edits + 1] \in [Parts -> 0..MaxEdits]
    BY <1>1, <1>2
  <2>2. tree' \in [present : BOOLEAN, files : SUBSET Files, changed : [Parts -> 0..MaxEdits]]
    BY <1>1, <2>1
  <2>3. edits' \in 0..MaxEdits
    BY <1>1
  <2>4. \A p \in {run', record'} : p.at \in Times /\ p.watched \subseteq Parts
    BY <1>a, <1>1 DEF TypeOK
  <2> QED
    BY <1>a, <1>1, <2>2, <2>3, <2>4 DEF TypeOK
<1>5. ShapeInv'
  BY <1>a, <1>1, <1>2, <1>3 DEF ShapeInv, TypeOK, Times, Never
<1>6. ASSUME NEW at \in Int, at <= edits, tree'.changed["source"] <= at
      PROVE  tree.changed["source"] <= at /\ part # "source"
  BY <1>1, <1>3, <1>6 DEF Parts
<1>7. RunInv'
  <2>1. (InScript' <=> InScript) /\ Links' = Links
    BY <1>1 DEF InScript, Links
  <2>2. CASE InScript
    <3>1. run.at \in Int /\ run.at <= edits
      BY <1>a, <1>1, <2>2 DEF RunInv
    <3>2. Unmoved(run)' => Unmoved(run) /\ part # "source"
      BY <1>1, <1>6, <3>1 DEF Unmoved
    <3>3. Seen(run)'
      BY <1>a, <1>1, <1>2, <2>2, <3>2 DEF RunInv, Seen, Complete
    <3>4. phase \in {"shim", "bindgen"} => Library(run)'
      BY <1>a, <1>1, <2>2, <3>2 DEF RunInv, Library
    <3>5. run'.at \in 0..edits'
      BY <1>a, <1>1, <2>2 DEF RunInv
    <3> QED
      BY <1>a, <1>1, <2>1, <2>2, <3>3, <3>4, <3>5 DEF RunInv
  <2> QED
    BY <1>a, <1>1, <2>1, <2>2 DEF RunInv
<1>8. RecordInv'
  <2>1. record.at \in Int /\ record.at <= edits
    BY <1>a DEF TypeOK, ShapeInv, Times, Never
  <2>2. Unmoved(record)' => Unmoved(record) /\ part # "source"
    BY <1>1, <1>6, <2>1 DEF Unmoved
  <2>3. (Seen(record) => Seen(record)') /\ (Library(record) => Library(record)') /\ Links' = Links
    BY <1>1, <1>2, <2>2 DEF Seen, Complete, Library, Links
  <2> QED
    BY <1>a, <1>1, <2>3 DEF RecordInv
<1>9. ProgramInv'
  BY <1>a, <1>1 DEF ProgramInv, Quiet
<1> QED
  BY <1>4, <1>5, <1>7, <1>8, <1>9 DEF BuildInv

\* cargo finds nothing stale and goes on with its record, or forgets it and
\* starts the script, at the present time.
LEMMA StartStep == ASSUME BuildInv, CargoStarts PROVE BuildInv'
<1>a. TypeOK /\ ShapeInv /\ RunInv /\ RecordInv /\ ProgramInv
  BY DEF BuildInv
<1> USE BuildAssumption
<1>1. /\ phase = "idle" /\ settled' = TRUE
      /\ UNCHANGED <<config, tree, edits, out, program>>
  BY DEF CargoStarts
<1>2. CASE Stale
  <2>1. /\ phase' = "find" /\ record' = Nothing
        /\ run' = [at |-> edits, watched |-> {"script"}, links |-> {}]
    BY <1>2 DEF CargoStarts
  <2>2. edits \in Nat /\ edits \in Times
    BY <1>a DEF TypeOK, Times, Never
  <2>3. TypeOK'
    BY <1>a, <1>1, <2>1, <2>2 DEF TypeOK, Nothing, Parts, Times, Never
  <2>4. ShapeInv'
    BY <1>a, <1>1, <2>1, <2>2 DEF ShapeInv, Nothing, Never
  <2>5. RunInv'
    BY <1>1, <2>1, <2>2 DEF RunInv, InScript, Seen
  <2>6. RecordInv' /\ ProgramInv'
    BY <2>1 DEF RecordInv, ProgramInv, Nothing, Quiet
  <2> QED
    BY <2>3, <2>4, <2>5, <2>6 DEF BuildInv
<1>3. CASE ~Stale
  <2>1. phase' = "compile" /\ record' = record /\ run' = run
    BY <1>3 DEF CargoStarts
  <2>2. TypeOK' /\ ShapeInv'
    BY <1>a, <1>1, <2>1 DEF TypeOK, ShapeInv
  <2>3. RunInv'
    BY <1>a, <1>1, <2>1 DEF RunInv, InScript
  <2>4. RecordInv'
    BY <1>a, <1>1, <2>1 DEF RecordInv, Seen, Unmoved, Complete, Library, Links
  <2>5. ProgramInv'
    BY <1>1, <1>3, <2>1 DEF ProgramInv, Quiet, Stale
  <2> QED
    BY <2>2, <2>3, <2>4, <2>5 DEF BuildInv
<1> QED
  BY <1>2, <1>3

\* cargo compiles and links what the recorded run left.
LEMMA CompileStep == ASSUME BuildInv, CargoCompiles PROVE BuildInv'
<1>a. TypeOK /\ ShapeInv /\ RunInv /\ RecordInv /\ ProgramInv
  BY DEF BuildInv
<1> DEFINE result == IF out.bindings = Never THEN "no bindings"
                     ELSE IF Resolves(config, record.links) THEN "linked" ELSE "unresolved"
<1>1. /\ phase = "compile" /\ phase' = "idle"
      /\ program' = [out |-> out, result |-> result]
      /\ UNCHANGED <<config, tree, edits, run, record, out, settled>>
  BY DEF CargoCompiles
<1>2. program'.result = result /\ program'.out = out /\ result \in Outcomes
  BY <1>1 DEF Outcomes
<1>3. TypeOK'
  BY <1>a, <1>1, <1>2 DEF TypeOK
<1>4. ShapeInv'
  BY <1>a, <1>1 DEF ShapeInv
<1>5. RunInv'
  BY <1>a, <1>1 DEF RunInv, InScript
<1>6. RecordInv'
  BY <1>a, <1>1 DEF RecordInv, Seen, Unmoved, Complete, Library, Links
<1>7. ProgramInv'
  BY <1>a, <1>1, <1>2 DEF ProgramInv, Quiet, Stale
<1> QED
  BY <1>3, <1>4, <1>5, <1>6, <1>7 DEF BuildInv

\* What every step of the script that goes on leaves alone.
Continues ==
  /\ InScript /\ InScript'
  /\ UNCHANGED <<config, tree, edits, record, settled, program>>

\* A step of the script within a run leaves cargo's side of the invariant as it
\* is: there is no record, and no program is compiled.
LEMMA ScriptSide ==
  ASSUME BuildInv, Continues
  PROVE  RecordInv' /\ ProgramInv' /\ record = Nothing /\ run.at \in Nat /\ run.at <= edits
<1>1. record = Nothing /\ run.at \in 0..edits /\ edits \in Nat
  BY DEF BuildInv, RunInv, Continues, TypeOK
<1> QED
  BY <1>1 DEF RecordInv, ProgramInv, Nothing, Continues, InScript, Quiet

\* The steps of a run, up to the last: what it has verified, watches and made.
LEMMA ScriptStep ==
  ASSUME BuildInv, FindsSource \/ WatchesSource \/ BuildsWhisper \/ BuildsShim
  PROVE  BuildInv'
<1>a. TypeOK /\ ShapeInv /\ RunInv
  BY DEF BuildInv
<1> USE BuildAssumption
<1>b. Continues
  BY DEF Continues, InScript, FindsSource, WatchesSource, BuildsWhisper, BuildsShim
<1>c. RecordInv' /\ ProgramInv' /\ record = Nothing /\ run.at \in Nat /\ run.at <= edits
  BY <1>b, ScriptSide
<1>d. /\ edits \in Nat /\ edits \in Times /\ run.watched \subseteq Parts
      /\ out = [lib |-> out.lib, shim |-> out.shim, bindings |-> out.bindings,
                patched |-> out.patched]
      /\ tree.changed["source"] <= edits
  BY <1>a DEF TypeOK, ShapeInv, Parts, Times, Never
<1>1. CASE FindsSource
  <2>1. /\ phase = "find" /\ phase' = "verify"
        /\ UNCHANGED <<config, tree, edits, run, record, out, settled, program>>
    BY <1>1 DEF FindsSource
  <2>2. TypeOK' /\ ShapeInv'
    BY <1>a, <2>1 DEF TypeOK, ShapeInv
  <2>3. RunInv'
    BY <1>a, <1>b, <2>1 DEF RunInv, Continues, InScript, Seen, Unmoved, Complete, Library, Links
  <2> QED
    BY <1>c, <2>2, <2>3 DEF BuildInv
<1>2. CASE WatchesSource
  <2>1. /\ phase = "verify" /\ phase' = "cmake" /\ tree.present /\ tree.files = Files
        /\ run' = [run EXCEPT !.watched = @ \cup {"source"}]
        /\ UNCHANGED <<config, tree, edits, record, out, settled, program>>
    BY <1>2 DEF WatchesSource, Marked
  <2>2. run' = [at |-> run.at, watched |-> run.watched \cup {"source"}, links |-> run.links]
    BY <1>a, <2>1 DEF ShapeInv
  <2>3. TypeOK'
    BY <1>a, <1>d, <2>1, <2>2 DEF TypeOK, Parts
  <2>4. ShapeInv'
    BY <1>a, <2>1, <2>2 DEF ShapeInv
  <2>5. RunInv'
    BY <1>a, <1>b, <2>1, <2>2 DEF RunInv, Continues, InScript, Seen, Complete
  <2> QED
    BY <1>c, <2>3, <2>4, <2>5 DEF BuildInv
<1>3. CASE BuildsWhisper
  <2>1. /\ phase = "cmake" /\ phase' = "shim"
        /\ out' = [out EXCEPT !.lib = edits, !.patched = (tree.files = Files)]
        /\ UNCHANGED <<config, tree, edits, run, record, settled, program>>
    BY <1>3 DEF BuildsWhisper
  <2>2. out' = [lib |-> edits, shim |-> out.shim, bindings |-> out.bindings,
                patched |-> (tree.files = Files)]
    BY <1>d, <2>1
  <2>3. TypeOK'
    BY <1>a, <1>d, <2>1, <2>2 DEF TypeOK
  <2>4. ShapeInv'
    BY <1>a, <2>1 DEF ShapeInv
  <2>5. Library(run)' /\ Seen(run)'
    BY <1>a, <1>b, <1>c, <2>1, <2>2 DEF Library, Seen, RunInv, Continues, Unmoved, Complete
  <2>6. RunInv'
    BY <1>a, <1>b, <2>1, <2>2, <2>5 DEF RunInv, Continues, InScript
  <2> QED
    BY <1>c, <2>3, <2>4, <2>6 DEF BuildInv
<1>4. CASE BuildsShim
  <2>1. /\ phase = "shim" /\ phase' = "bindgen"
        /\ out' = [out EXCEPT !.shim = edits]
        /\ run' = [run EXCEPT !.watched = @ \cup {"shim"},
                              !.links = @ \cup {"whispercpp_shim"} \cup Linked(config)]
        /\ UNCHANGED <<config, tree, edits, record, settled, program>>
    BY <1>4 DEF BuildsShim
  <2>2. run.links = {} /\ "source" \in run.watched /\ Library(run) /\ Seen(run)
    BY <1>a, <1>b, <2>1 DEF RunInv, Continues
  <2>3. run' = [at |-> run.at, watched |-> run.watched \cup {"shim"}, links |-> Links]
    BY <1>a, <2>1, <2>2 DEF ShapeInv, Links
  <2>4. out' = [lib |-> out.lib, shim |-> edits, bindings |-> out.bindings,
                patched |-> out.patched]
    BY <1>d, <2>1
  <2>5. TypeOK'
    BY <1>a, <1>d, <2>1, <2>3, <2>4 DEF TypeOK, Parts
  <2>6. ShapeInv'
    BY <1>a, <2>1, <2>3 DEF ShapeInv
  <2>7. Library(run)' /\ Seen(run)' /\ Links' = Links
    BY <2>1, <2>2, <2>3, <2>4 DEF Library, Seen, Unmoved, Complete, Links
  <2>8. /\ run'.at = run.at /\ run'.watched = run.watched \cup {"shim"} /\ run'.links = Links
        /\ out'.shim = edits
    BY <2>3, <2>4
  <2>9. run.at \in 0..edits /\ (settled => run.at = edits) /\ "script" \in run.watched
    BY <1>a, <1>b DEF RunInv, Continues
  <2>10. run'.at \in 0..edits' /\ (settled' => run'.at = edits') /\ out'.shim >= run'.at
    BY <1>c, <1>d, <2>1, <2>8, <2>9
  <2>11. InScript' /\ record' = Nothing /\ Library(run)' /\ Seen(run)' /\ run'.links = Links'
    BY <1>b, <1>c, <2>1, <2>7, <2>8 DEF Continues
  <2>12. "script" \in run'.watched /\ "source" \in run'.watched /\ "shim" \in run'.watched
    BY <2>2, <2>8, <2>9
  <2>13. RunInv'
    BY <2>1, <2>10, <2>11, <2>12 DEF RunInv
  <2> QED
    BY <1>c, <2>5, <2>6, <2>13 DEF BuildInv
<1> QED
  BY <1>1, <1>2, <1>3, <1>4

\* The run succeeds and cargo records it, with the bindings made or without a
\* source; nobody having edited, nothing it watches is younger than its start.
LEMMA SuccessStep == ASSUME BuildInv, GeneratesBindings \/ FindsNoSource PROVE BuildInv'
<1>a. TypeOK /\ ShapeInv /\ RunInv
  BY DEF BuildInv
<1> USE BuildAssumption
<1>1. /\ InScript /\ phase' = "compile" /\ run' = Nothing /\ record' = run
      /\ UNCHANGED <<config, tree, edits, settled, program>>
  BY DEF GeneratesBindings, FindsNoSource, Succeeds, InScript
<1>2. /\ run.at \in 0..edits /\ edits \in Nat /\ (settled => run.at = edits)
      /\ "script" \in run.watched /\ run.watched \subseteq Parts
  BY <1>a, <1>1 DEF RunInv, TypeOK
<1>3. /\ out' \in [lib : Times, shim : Times, bindings : Times, patched : BOOLEAN]
      /\ out'.lib = out.lib /\ out'.shim = out.shim /\ out'.patched = out.patched
      /\ phase = "bindgen" => out'.bindings = edits
  BY <1>a DEF TypeOK, GeneratesBindings, FindsNoSource, Succeeds, Times, Never
<1>4. TypeOK'
  <2>1. Nothing.at \in Times /\ Nothing.watched \subseteq Parts
    BY <1>a DEF Nothing, Times, Never, TypeOK
  <2>2. \A p \in {run', record'} : p.at \in Times /\ p.watched \subseteq Parts
    BY <1>a, <1>1, <2>1 DEF TypeOK
  <2> QED
    BY <1>a, <1>1, <1>3, <2>2 DEF TypeOK
<1>5. ShapeInv'
  BY <1>a, <1>1, <1>2 DEF ShapeInv, Nothing, Never
<1>6. RunInv'
  BY <1>1 DEF RunInv, InScript
<1>7. RecordInv'
  <2>1. CASE FindsNoSource
    <3>1. "source" \notin run.watched /\ run.links = {}
      BY <1>a, <1>1, <2>1 DEF RunInv, FindsNoSource
    <3> QED
      BY <1>1, <1>2, <3>1 DEF RecordInv
  <2>2. CASE GeneratesBindings
    <3>1. phase = "bindgen"
      BY <2>2 DEF GeneratesBindings
    <3>2. /\ Seen(run) /\ Library(run) /\ "shim" \in run.watched
          /\ run.links = Links /\ out.shim >= run.at /\ "source" \in run.watched
      BY <1>a, <1>1, <3>1 DEF RunInv
    <3>3. Seen(record)' /\ Library(record)' /\ Links' = Links
      BY <1>1, <1>3, <3>2 DEF Seen, Library, Unmoved, Complete, Links
    <3>4. out'.shim >= record'.at /\ out'.bindings >= record'.at
      BY <1>1, <1>2, <1>3, <3>1, <3>2
    <3> QED
      BY <1>1, <1>2, <3>2, <3>3, <3>4 DEF RecordInv
  <2> QED
    BY <2>1, <2>2
<1>8. ProgramInv'
  <2>1. record'.at # Never
    BY <1>1, <1>2 DEF Never
  <2>2. settled' => ~Stale'
    BY <1>a, <1>1, <1>2, <2>1 DEF ShapeInv, TypeOK, Stale
  <2> QED
    BY <1>1, <2>1, <2>2 DEF ProgramInv, Quiet
<1> QED
  BY <1>4, <1>5, <1>6, <1>7, <1>8 DEF BuildInv

\* The run fails and leaves what it has made, but no record and no program.
LEMMA FailureStep == ASSUME BuildInv, ScriptFails PROVE BuildInv'
<1>a. TypeOK /\ ShapeInv /\ RunInv
  BY DEF BuildInv
<1> USE BuildAssumption
<1>1. /\ InScript /\ phase' = "idle" /\ run' = Nothing
      /\ program' = [result |-> "failed", out |-> out']
      /\ UNCHANGED <<config, tree, edits, record, settled>>
  BY DEF ScriptFails, InScript
<1>2. record = Nothing
  BY <1>a, <1>1 DEF RunInv
<1>3. out' \in [lib : Times, shim : Times, bindings : Times, patched : BOOLEAN]
  <2>1. /\ edits \in Times /\ (tree.files = Files) \in BOOLEAN
        /\ out \in [lib : Times, shim : Times, bindings : Times, patched : BOOLEAN]
    BY <1>a DEF TypeOK, Times, Never
  <2>2. [out EXCEPT !.lib = edits, !.patched = (tree.files = Files)]
          \in [lib : Times, shim : Times, bindings : Times, patched : BOOLEAN]
    BY <2>1
  <2> QED
    BY <2>1, <2>2 DEF ScriptFails
<1>4. TypeOK'
  <2>1. Nothing.at \in Times /\ Nothing.watched \subseteq Parts
    BY <1>a DEF Nothing, Times, Never, TypeOK
  <2>2. \A p \in {run', record'} : p.at \in Times /\ p.watched \subseteq Parts
    BY <1>1, <1>2, <2>1
  <2> QED
    BY <1>a, <1>1, <1>3, <2>2 DEF TypeOK, Outcomes
<1>5. ShapeInv'
  BY <1>a, <1>1 DEF ShapeInv, Nothing
<1>6. RunInv' /\ RecordInv' /\ ProgramInv'
  BY <1>1, <1>2 DEF RunInv, RecordInv, ProgramInv, InScript, Quiet, Nothing
<1> QED
  BY <1>4, <1>5, <1>6 DEF BuildInv

LEMMA InitialBuild == Init => BuildInv
<1> SUFFICES ASSUME Init PROVE BuildInv
  OBVIOUS
<1> USE BuildAssumption
<1>1. /\ tree = [present |-> FALSE, files |-> {}, changed |-> [p \in Parts |-> 0]]
      /\ out = [lib |-> Never, shim |-> Never, bindings |-> Never, patched |-> FALSE]
  BY DEF Init
<1>2. TypeOK
  BY <1>1 DEF Init, TypeOK, Times, Never, Nothing, Outcomes
<1>3. ShapeInv
  BY <1>1 DEF Init, ShapeInv, Nothing, Never
<1>4. RunInv /\ RecordInv /\ ProgramInv
  BY DEF Init, RunInv, RecordInv, ProgramInv, InScript, Nothing, Quiet
<1> QED
  BY <1>2, <1>3, <1>4 DEF BuildInv

LEMMA BuildStep == BuildInv /\ [Next]_vars => BuildInv'
<1> SUFFICES ASSUME BuildInv, [Next]_vars PROVE BuildInv'
  OBVIOUS
<1>a. tree.present \in BOOLEAN /\ tree.files \in SUBSET Files
  BY DEF BuildInv, TypeOK
<1>b. "source" \in Parts
  BY DEF Parts
<1>1. ASSUME NEW files \in SUBSET Files, UpdateSource(files) PROVE BuildInv'
  <2>1. Edited("source", TRUE, files)
    BY <1>1 DEF UpdateSource
  <2> QED
    BY <1>b, <2>1, EditStep
<1>2. CASE RemoveSource
  <2>1. Edited("source", FALSE, {}) /\ FALSE \in BOOLEAN /\ {} \in SUBSET Files
    BY <1>2 DEF RemoveSource
  <2> QED
    BY <1>b, <2>1, EditStep
<1>3. ASSUME NEW part \in Parts, EditOther(part) PROVE BuildInv'
  BY <1>3, <1>a, EditStep DEF EditOther
<1>4. CASE CargoStarts
  BY <1>4, StartStep
<1>5. CASE CargoCompiles
  BY <1>5, CompileStep
<1>6. CASE Script
  BY <1>6, ScriptStep, SuccessStep, FailureStep DEF Script
<1>7. CASE UNCHANGED vars
  <2>1. TypeOK' /\ ShapeInv' /\ RunInv'
    BY <1>7 DEF vars, BuildInv, TypeOK, ShapeInv, RunInv, InScript, Links,
                Seen, Unmoved, Complete, Library
  <2>2. RecordInv' /\ ProgramInv'
    BY <1>7 DEF vars, BuildInv, RecordInv, ProgramInv, Links, Seen, Unmoved, Complete,
                Library, Quiet, Stale
  <2> QED
    BY <2>1, <2>2 DEF BuildInv
<1> QED
  BY <1>1, <1>2, <1>3, <1>4, <1>5, <1>6, <1>7 DEF Next

\* What cargo's record, OUT_DIR and the run under way say of the source tree
\* holds always, through every edit, failure and rerun.
THEOREM BuildInvariant == Spec => []BuildInv
  BY InitialBuild, BuildStep, PTL DEF Spec

-----------------------------------------------------------------------------
\* A quiet build that links had a record, and one that watches all the parts:
\* had it found no source, there would be nothing to link.
LEMMA LinkedWatchesAll ==
  ASSUME BuildInv, Quiet, program.result = "linked"
  PROVE  /\ record.at # Never /\ ~Stale /\ program.out = out
         /\ Parts \subseteq record.watched
<1>1. /\ record.at # Never /\ ~Stale /\ program.out = out
      /\ Resolves(config, record.links)
  BY DEF BuildInv, ProgramInv
<1>2. record.links # {}
  BY <1>1 DEF Resolves
<1> QED
  BY <1>1, <1>2 DEF BuildInv, RecordInv, Parts

\* Nothing has changed since the recorded run began.
LEMMA NothingMoved ==
  ASSUME BuildInv, record.at # Never, ~Stale, Parts \subseteq record.watched
  PROVE  \A part \in Parts : tree.changed[part] <= record.at
  BY BuildAssumption DEF BuildInv, TypeOK, Times, Never, Stale

\* No program is linked with a library built from a source that lacks a patch.
THEOREM PatchedSourceIsLinked == Spec => []LinksPatchedSource
<1>1. BuildInv => LinksPatchedSource
  <2> SUFFICES ASSUME BuildInv, Quiet, program.result = "linked"
               PROVE  Complete /\ program.out.patched
    BY DEF LinksPatchedSource
  <2>1. /\ record.at # Never /\ program.out = out /\ "source" \in record.watched
        /\ tree.changed["source"] <= record.at
    BY LinkedWatchesAll, NothingMoved DEF Parts
  <2> QED
    BY <2>1 DEF BuildInv, RecordInv, Seen, Library, Unmoved
<1> QED
  BY <1>1, BuildInvariant, PTL

\* What is linked is as young as all it is made from.
THEOREM CurrentSourceIsLinked == Spec => []LinksCurrentSource
<1>1. BuildInv => LinksCurrentSource
  <2> SUFFICES ASSUME BuildInv, Quiet, program.result = "linked"
               PROVE  /\ program.out.lib >= tree.changed["source"]
                      /\ \A part \in {"shim", "source"} : program.out.shim >= tree.changed[part]
                      /\ \A part \in Parts : program.out.bindings >= tree.changed[part]
    BY DEF LinksCurrentSource
  <2>1. /\ record.at # Never /\ program.out = out /\ "source" \in record.watched
        /\ \A part \in Parts : tree.changed[part] <= record.at
    BY LinkedWatchesAll, NothingMoved DEF Parts
  <2>2. out.lib >= record.at /\ out.shim >= record.at /\ out.bindings >= record.at
    BY <2>1 DEF BuildInv, RecordInv, Library
  <2>3. /\ record.at \in Int /\ out.lib \in Int /\ out.shim \in Int /\ out.bindings \in Int
        /\ \A part \in Parts : tree.changed[part] \in Int
    BY BuildAssumption DEF BuildInv, TypeOK, Times, Never
  <2> QED
    BY <2>1, <2>2, <2>3 DEF Parts
<1> QED
  BY <1>1, BuildInvariant, PTL

\* The script and cmake name the library of a feature alike, save for openblas, for
\* which the script links none.
LEMMA NamesAgree ==
  ASSUME NEW f \in Features, f # "openblas" PROVE LibraryOf[f] = TargetOf[f]
  BY DEF Features, LibraryOf, TargetOf

\* What the script asks cmake for, what ggml adds and what is linked agree.
LEMMA ListsAgree ==
  ASSUME NEW c \in Configs, c.host = c.target,
         "openblas" \in c.features => c.target = "apple"
  PROVE  Linked(c) = Built(c)
<1>1. c.features \subseteq Features /\ c.target \in {"apple", "other"}
  BY BuildAssumption
<1>2. LibrariesOf(c.features) = TargetsOf(c.features \ {"openblas"})
  BY <1>1, NamesAgree DEF LibrariesOf, TargetsOf
<1>3. Core = CoreTargets
  BY DEF Core, CoreTargets
<1>4. CASE c.target = "apple"
  <2>1. TargetOf["openblas"] = "ggml-blas" /\ TargetOf["metal"] = "ggml-metal"
    BY DEF TargetOf
  <2>2. TargetsOf(c.features \ {"openblas"}) \cup {"ggml-blas"}
          = TargetsOf(c.features) \cup {"ggml-blas"}
    BY <2>1 DEF TargetsOf
  <2>3. "metal" \in c.features => "ggml-metal" \in TargetsOf(c.features)
    BY <2>1 DEF TargetsOf
  <2> QED
    BY <1>2, <1>3, <1>4, <2>2, <2>3 DEF Linked, Built, Asked, Refused, DefaultsOf
<1>5. CASE c.target = "other"
  <2>1. c.features \ {"openblas"} = c.features
    BY <1>5
  <2> QED
    BY <1>2, <1>3, <1>5, <2>1 DEF Linked, Built, Asked, Refused, DefaultsOf
<1> QED
  BY <1>1, <1>4, <1>5

\* What was made after a run began was made.
LEMMA NoTimeBeforeStart ==
  ASSUME NEW began \in Times, NEW made \in Times, began # Never, made >= began
  PROVE  made # Never
  BY BuildAssumption DEF Times, Never

\* A native build that went through a complete source links, with any features of the
\* crate on Apple, and elsewhere with any but openblas: whose library is made there and
\* not linked (FeaturesAreLinked).
THEOREM BuildsLink == Spec => []LinksResolve
<1>1. BuildInv => LinksResolve
  <2> SUFFICES ASSUME BuildInv, Quiet, "source" \in record.watched,
                      config.host = config.target,
                      "openblas" \in config.features => config.target = "apple",
                      program.result \in {"no bindings", "unresolved"}
               PROVE  FALSE
    BY DEF LinksResolve
  <2>1. /\ record.at # Never
        /\ program.result = IF out.bindings = Never THEN "no bindings"
                            ELSE IF Resolves(config, record.links) THEN "linked" ELSE "unresolved"
    BY DEF BuildInv, ProgramInv
  <2>2. record.links = Links /\ out.bindings >= record.at
    BY <2>1 DEF BuildInv, RecordInv
  <2>3. out.bindings # Never
    BY <2>1, <2>2, NoTimeBeforeStart DEF BuildInv, TypeOK
  <2>4. Linked(config) = Built(config)
    BY ListsAgree DEF BuildInv, TypeOK
  <2> QED
    BY <2>1, <2>2, <2>3, <2>4 DEF Resolves, Links
<1> QED
  BY <1>1, BuildInvariant, PTL
=============================================================================
