---------------------------- MODULE BuildScript -----------------------------
(***************************************************************************)
(* The build script of whispercpp-sys between a source tree that people    *)
(* edit and cargo, which runs the script when it thinks it has to.         *)
(*                                                                         *)
(* Three things have a memory: the tree, OUT_DIR with the artefacts of     *)
(* every earlier run, failed ones included, and cargo's record of the last *)
(* successful run with the parts of the tree it was told to watch.  The    *)
(* safe wrapper is sound with the patched fork only, so the question is    *)
(* what a program is linked with in the end.                               *)
(*                                                                         *)
(* Time is counted in edits: a part of the tree has the time it was last   *)
(* changed, an artefact the time it was made.                              *)
(***************************************************************************)
EXTENDS Integers

CONSTANTS
  Configs,   (* features with the vendor of the host and of the target     *)
  Files,     (* the source files REQUIRED_MARKERS looks into               *)
  MaxEdits   (* bound: edits of the tree                                   *)

Features == {"metal", "coreml", "openblas", "cuda", "hipblas", "sycl", "musa", "vulkan",
             "opencl", "openvino"}

ASSUME BuildAssumption ==
  /\ MaxEdits \in Nat
  /\ \A c \in Configs :
       /\ c.features \subseteq Features
       /\ {c.host, c.target} \subseteq {"apple", "other"}
       /\ c.target = "other" => c.features \cap {"metal", "coreml"} = {}

\* Of the script: build.rs and wrapper.h, the shim's two files, the submodule.
Parts == {"script", "shim", "source"}
Never == -1

VARIABLES
  config,   \* of the build directory: another configuration has another OUT_DIR
  tree,     \* is there a submodule, which files carry their markers, and when
            \* each part changed last
  edits,    \* the clock
  phase,    \* of cargo: "idle", a step of the script, or "compile"
  run,      \* of the script: its start, and what it printed so far
  record,   \* cargo's of the last run: its start (Never if it did not succeed)
            \* and what it printed
  out,      \* OUT_DIR: when each artefact was made, and whether lib is patched
  settled,  \* nobody edited since cargo started
  program   \* the last cargo build's result and artefacts

vars == <<config, tree, edits, phase, run, record, out, settled, program>>

Times    == Never..MaxEdits
Nothing  == [at |-> Never, watched |-> {}, links |-> {}]
Outcomes == {"none", "failed", "no bindings", "unresolved", "linked"}

\* Mutated form of Marked, in no specification.
MarkedInOneFile(files) == "whisper.cpp" \in files

\* verify_patched_source: every file it looks into can be read and has every
\* marker it looks for.
Marked(files) == files = Files

-----------------------------------------------------------------------------
(***************************************************************************)
(* What cmake builds and what the script links.  cfg! in a build script    *)
(* speaks of the host, cmake of the target.                                *)
(***************************************************************************)
\* The names the script gives the linker.  openblas brings the system's library alone.
Core == {"whisper", "ggml", "ggml-base", "ggml-cpu"}

LibraryOf == [metal |-> "ggml-metal", coreml |-> "whisper.coreml", cuda |-> "ggml-cuda",
              hipblas |-> "ggml-hip", sycl |-> "ggml-sycl", musa |-> "ggml-musa",
              vulkan |-> "ggml-vulkan", opencl |-> "ggml-opencl",
              openvino |-> "whisper.openvino"]

\* Mutated form of LibrariesOf, in no specification: from before upstream's renaming.
LibrariesOnceNamed(features) ==
  {IF f = "hipblas" THEN "ggml-hipblas" ELSE LibraryOf[f] : f \in features \ {"openblas"}}

LibrariesOf(features) == {LibraryOf[f] : f \in features \ {"openblas"}}

\* The names cmake gives what it makes, always, of each option, and of those ggml
\* turns on by itself.
CoreTargets == {"ggml", "ggml-base", "ggml-cpu", "whisper"}

TargetOf == [cuda |-> "ggml-cuda", hipblas |-> "ggml-hip", metal |-> "ggml-metal",
             musa |-> "ggml-musa", openblas |-> "ggml-blas", opencl |-> "ggml-opencl",
             sycl |-> "ggml-sycl", vulkan |-> "ggml-vulkan",
             coreml |-> "whisper.coreml", openvino |-> "whisper.openvino"]
TargetsOf(features) == {TargetOf[f] : f \in features}

DefaultsOf(target) == IF target = "apple" THEN {"ggml-metal", "ggml-blas"} ELSE {}

\* Mutated form of Refused, in no specification.
RefusesNothing(c) == {}

\* The -D..=ON and -D..=OFF of build_whisper_cpp.
Asked(c) ==
  TargetsOf(c.features)
    \cup IF c.host = "apple" /\ "metal" \notin c.features THEN {"ggml-blas"} ELSE {}
Refused(c) == IF "metal" \in c.features THEN {} ELSE {"ggml-metal"}

Built(c) == CoreTargets \cup Asked(c) \cup (DefaultsOf(c.target) \ Refused(c))

Linked(c) ==
  Core \cup LibrariesOf(c.features)
    \cup IF c.host = "apple" THEN {"ggml-blas"} ELSE {}

\* A reference into a library that is not linked, or a library that is not there.
Resolves(c, links) == links = Built(c) \cup {"whispercpp_shim"}

-----------------------------------------------------------------------------
TypeOK ==
  /\ config \in Configs
  /\ tree \in [present : BOOLEAN, files : SUBSET Files, changed : [Parts -> 0..MaxEdits]]
  /\ edits \in 0..MaxEdits
  /\ phase \in {"idle", "find", "verify", "cmake", "shim", "bindgen", "compile"}
  /\ \A p \in {run, record} : p.at \in Times /\ p.watched \subseteq Parts
  /\ out \in [lib : Times, shim : Times, bindings : Times, patched : BOOLEAN]
  /\ settled \in BOOLEAN
  /\ program.result \in Outcomes

Init ==
  /\ config \in Configs
  /\ tree \in [present : {FALSE}, files : {{}}, changed : {[p \in Parts |-> 0]}]
  /\ edits = 0
  /\ phase = "idle"
  /\ run = Nothing /\ record = Nothing
  /\ out = [lib |-> Never, shim |-> Never, bindings |-> Never, patched |-> FALSE]
  /\ settled = TRUE
  /\ program = [result |-> "none", out |-> out]

-----------------------------------------------------------------------------
(***************************************************************************)
(* Edits, at any time.                                                     *)
(***************************************************************************)
Edited(part, present, files) ==
  /\ edits < MaxEdits
  /\ edits' = edits + 1
  /\ tree' = [present |-> present, files |-> files,
              changed |-> [tree.changed EXCEPT ![part] = edits + 1]]
  /\ settled' = FALSE
  /\ UNCHANGED <<config, phase, run, record, out, program>>

\* A submodule update, of the fork, of upstream or by hand.
UpdateSource(files) == Edited("source", TRUE, files)
RemoveSource        == tree.present /\ Edited("source", FALSE, {})
EditOther(part)     == part # "source" /\ Edited(part, tree.present, tree.files)

-----------------------------------------------------------------------------
(***************************************************************************)
(* cargo: it runs the script if it has no record or something watched has  *)
(* changed since the recorded run began, and forgets the record first.     *)
(***************************************************************************)
Stale == record.at = Never \/ \E part \in record.watched : tree.changed[part] > record.at

CargoStarts ==
  /\ phase = "idle"
  /\ settled' = TRUE
  /\ phase' = IF Stale THEN "find" ELSE "compile"
  /\ record' = IF Stale THEN Nothing ELSE record
  /\ run' = IF Stale THEN [at |-> edits, watched |-> {"script"}, links |-> {}] ELSE run
  /\ UNCHANGED <<config, tree, edits, out, program>>

\* It compiles the crate with the bindings of OUT_DIR and links the libraries
\* the recorded run printed.
CargoCompiles ==
  /\ phase = "compile"
  /\ phase' = "idle"
  /\ program' = [out |-> out,
                 result |-> IF out.bindings = Never THEN "no bindings"
                            ELSE IF Resolves(config, record.links) THEN "linked" ELSE "unresolved"]
  /\ UNCHANGED <<config, tree, edits, run, record, out, settled>>

-----------------------------------------------------------------------------
(***************************************************************************)
(* Mutated forms, in no specification.                                     *)
(***************************************************************************)
\* WatchesSource that does not.
WatchesNothing ==
  /\ phase = "verify" /\ tree.present /\ Marked(tree.files)
  /\ phase' = "cmake"
  /\ UNCHANGED <<config, tree, edits, run, record, out, settled, program>>

-----------------------------------------------------------------------------
(***************************************************************************)
(* The script.  What it prints counts if it succeeds; what it writes stays *)
(* in any case.                                                            *)
(***************************************************************************)
Succeeds(printed) ==
  /\ phase' = "compile" /\ run' = Nothing /\ record' = printed
  /\ UNCHANGED <<config, tree, edits, settled, program>>

\* No CMakeLists.txt: warnings, and an early return.
FindsNoSource ==
  /\ phase = "find" /\ ~tree.present
  /\ Succeeds(run)
  /\ UNCHANGED out

FindsSource ==
  /\ phase = "find" /\ tree.present
  /\ phase' = "verify"
  /\ UNCHANGED <<config, tree, edits, run, record, out, settled, program>>

\* verify_patched_source returns; the directories are watched from here on.
WatchesSource ==
  /\ phase = "verify" /\ tree.present /\ Marked(tree.files)
  /\ phase' = "cmake"
  /\ run' = [run EXCEPT !.watched = @ \cup {"source"}]
  /\ UNCHANGED <<config, tree, edits, record, out, settled, program>>

BuildsWhisper ==
  /\ phase = "cmake" /\ tree.present
  /\ phase' = "shim"
  /\ out' = [out EXCEPT !.lib = edits, !.patched = (tree.files = Files)]
  /\ UNCHANGED <<config, tree, edits, run, record, settled, program>>

BuildsShim ==
  /\ phase = "shim" /\ tree.present
  /\ phase' = "bindgen"
  /\ out' = [out EXCEPT !.shim = edits]
  /\ run' = [run EXCEPT !.watched = @ \cup {"shim"},
                        !.links = @ \cup {"whispercpp_shim"} \cup Linked(config)]
  /\ UNCHANGED <<config, tree, edits, record, settled, program>>

GeneratesBindings ==
  /\ phase = "bindgen" /\ tree.present
  /\ out' = [out EXCEPT !.bindings = edits]
  /\ Succeeds(run)

\* A marker is absent, a tool fails, the script is killed.  cmake may have
\* installed some of its libraries, whisper among them.
ScriptFails ==
  /\ phase \in {"find", "verify", "cmake", "shim", "bindgen"}
  /\ phase' = "idle" /\ run' = Nothing
  /\ \/ UNCHANGED out
     \/ phase = "cmake" /\ tree.present
        /\ out' = [out EXCEPT !.lib = edits, !.patched = (tree.files = Files)]
  /\ program' = [result |-> "failed", out |-> out']
  /\ UNCHANGED <<config, tree, edits, record, settled>>

Script ==
  \/ FindsNoSource \/ FindsSource \/ WatchesSource
  \/ BuildsWhisper \/ BuildsShim \/ GeneratesBindings \/ ScriptFails

Next ==
  \/ \E files \in SUBSET Files : UpdateSource(files)
  \/ RemoveSource
  \/ \E part \in Parts : EditOther(part)
  \/ CargoStarts \/ CargoCompiles
  \/ Script

Spec == Init /\ [][Next]_vars

-----------------------------------------------------------------------------
(***************************************************************************)
(* Properties, of builds during which nobody edited, whatever happened in  *)
(* earlier ones.                                                           *)
(***************************************************************************)
Quiet == phase = "idle" /\ settled
Complete == tree.present /\ tree.files = Files

\* No program is linked with a library built from a source that lacks a patch:
\* not after an update to upstream, nor from what a failed run or one that raced
\* with an update left in OUT_DIR, nor with the old library once the source is gone.
LinksPatchedSource ==
  Quiet /\ program.result = "linked" => Complete /\ program.out.patched

\* What is linked was made after the last change of all it is made from: the
\* parts each run tells cargo to watch are enough to rerun it.
LinksCurrentSource ==
  Quiet /\ program.result = "linked" =>
    /\ program.out.lib >= tree.changed["source"]
    /\ \A part \in {"shim", "source"} : program.out.shim >= tree.changed[part]
    /\ \A part \in Parts : program.out.bindings >= tree.changed[part]

\* Once the script has been through a complete source, the link resolves, for
\* every set of features, if the build is native and OpenBLAS is not asked for
\* outside Apple: what the script turns on, what ggml turns on by itself and what
\* is linked are three lists.
LinksResolve ==
  Quiet /\ "source" \in record.watched
        /\ config.host = config.target
        /\ ("openblas" \in config.features => config.target = "apple") =>
    program.result \notin {"no bindings", "unresolved"}

\* Contradicted by the code: "Tell cargo to rerun build.rs when files in the
\* submodule change so git submodule update picks up automatically".
UpdatesArePickedUp ==
  Quiet /\ Complete => program.result \notin {"no bindings", "unresolved"}

\* Contradicted by the code: "Each feature toggles the matching flag plus the link
\* directives for the static library cmake produces".
FeaturesAreLinked ==
  Quiet /\ "source" \in record.watched => program.result # "unresolved"
=============================================================================
