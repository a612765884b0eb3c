# whispercpp, specified

TLA+ specifications, model-checking configurations and machine-checked proofs
for the `whispercpp` crate (`src/whispercpp`) and the exception shim below it
(`src/whispercpp-sys`), down to the script that builds it. The crate is a safe
Rust wrapper of whisper.cpp: its own logic is about who may touch which native block, when, and what is left of a
model when native code fails. That is what is specified here.

## The system

| Component | Where | State it keeps | Operations | What makes it right |
|---|---|---|---|---|
| Context | `context.rs` | native `whisper_context*`, `lost` (poison flag), `full_lock`; process-wide `init_lock` | `new`, `create_state`, `mark_lost`, `is_poisoned`, `Drop` | one constructor at a time; nothing freed twice or early; a poisoned Context starts nothing new |
| State | `state.rs` | `ptr: Option<native whisper_state*>`, an `Arc<Context>` | `full` and its two loss paths, accessors, `Drop` | `Some` means live memory; one inference per Context; at most one lost state per Context |
| Exception shim | `whispercpp_shim.{cpp,h}` | one thread-local slot for the last constructor exception | the three guarded entry points, take-the-slot | the code reported is the one this call caught |
| Inference parameters | `params.rs` | a C struct of raw pointers, and the Rust owners of what they point to | setters, abort callback and its trampoline | no raw pointer outlives its owner, on any path |
| Preflight of `full` | `state.rs` | none | checks of samples, prompt tokens, language, duration | nothing reaches native code that it would read out of bounds |
| Segment and token iterators | `state.rs` | front and back index | `next`, `next_back`, `len` | every index once, in range, whatever mix of ends |
| DTW memory budget | `context.rs` | none | requirement of a preset, clamp of the user's budget | the native allocation stays within its bound, without overflow |
| Tokenizer | `context.rs` | none | `tokenize` with its retry | the answer is complete or an error |
| System information | `context.rs` | process-wide cache and its lock | `system_info` | one native call per process, one answer for all |
| Threads of an inference | `params.rs` | `n_threads` and the number of decoders | the clamps of `new` and of the setters, the unsafe setters | an exception among native threads reaches the shim |
| Languages | `lang.rs`, `context.rs`, `params.rs`, `state.rs` | none of their own | from a code, from and to a config, native id, English name, hint, token | a language that goes through the program is the same language at its end |
| Errors | `error.rs` | none | | kinds and codes mean what they are documented to mean |
| Build script | `whispercpp-sys/build.rs` | cargo's record of the last run, `OUT_DIR` | verify, cmake, shim, bindgen, link directives | what is linked is patched, current and complete |
| Bindings, CI, example, audit comments | | none at run time | | out of scope |

How they interact: workers share a model through `Arc<Context>`; each owns a
`State`, which owns a clone of the `Arc`. `create_state` and `new` serialise on
`init_lock`; `full` serialises on the `full_lock` of its Context. The poison flag
connects the two: `full` writes it under `full_lock`, `create_state` reads it
under `init_lock`. Native code reports failure three ways: a null pointer, a
return code, or a C++ exception that the shim turns into a code `<= -100` and, for
constructors, a thread-local slot. Native code calls back into Rust through the
abort trampoline, with a raw pointer `Params` published. All of it rests on the
patched fork of whisper.cpp, which only the build script tells from upstream.

Hard behaviours: the interleaving of those two locks around one flag; which side
owns the native state after each failure; the last `Arc` falling on any thread;
unwinding in the middle of a setter; a callback that re-enters the crate; an
exception that meets a running thread; a source tree that changes while, and
between, builds.
`PROJECT.json` lists each at its line, under `hazards`.

## Modules

| Module | Role |
|---|---|
| `SharedContext` | Context, State and shim, one action per step between locks and native calls |
| `SharedContextInvariant` | the inductive invariant `IndInv`, in named parts |
| `ContextContract` | what the API promises of a model, without threads, locks or sentinels |
| `SharedContextRefinement` | the mapping under which `SharedContext` implements it |
| `SharedContextLocks`, `SharedContextLoss`, `SharedContextMemory`, `SharedContextContract` | theorems and proofs; the last, that the mapping is one |
| `InferenceCallbacks` | the same `full_lock` when callbacks infer again: each thread a stack of inferences |
| `ParamsOwnership` | the raw pointers of a `Params`, their owners, setters that unwind, inferences that borrow |
| `FullPreflight` | the checks of `full` between one Params, any model and any buffer |
| `SegmentViews`, `Deque` | segments, tokens and their iterators; what a double-ended iterator promises |
| `SystemInfo` | the double-checked cache over a static native buffer |
| `Tokenize`, `DtwBudget`, `TemperatureLadder` | the three components whose hazards are numbers |
| `DecodeThreads` | the threads native code starts, and the exceptions among them |
| `Languages` | a language between config, `Lang`, hint, token and detection |
| `BuildScript` | the script between cargo, the source tree and `OUT_DIR` |
| `InferenceParams` | what goes into an inference, side by side: `FullPreflight`, `TemperatureLadder`, `DecodeThreads`, `ParamsOwnership`, `Languages` |
| `InferenceAnswers` | what comes out: `Tokenize`, `DtwBudget`, `SystemInfo`, `SegmentViews` |
| `InferenceCallbacksProofs`, `BuildScriptProofs`, `ParamsProofs`, `AnswersProofs` | theorems and proofs |
| `MCSharedContext`, `MCInferenceCallbacks`, `MCBuildScript`, `MCParams`, `MCAnswers` | constants of the model-checking runs, and in the last two what keeps their states few |

`SharedContext` is the centre. `InferenceCallbacks` takes up its `full` where it
leaves off, at the native call: it keeps the lock and the stack and drops losses
and drops. `ParamsOwnership`, `FullPreflight`, `TemperatureLadder`,
`DecodeThreads` and `Languages` model what `full` is given, by the kinds of hazard
a Params has: its pointers, its values against model and audio, and what native
code makes of its numbers and its language. `SegmentViews` models what `full`
leaves behind. `BuildScript` comes before all of them. The others stand alone.

### SharedContext and the code

An element of `Contexts` or `States` is one native allocation. `ctx` and
`native` say whether it exists, lives or was freed (`"freed twice"` is recorded
rather than assumed away). `handle[s]` is the Rust side: `"some"` / `"null"` are
`State.ptr` being `Some` / `None`, `"dropping"` is between the body of `Drop` and
the drop of the `ctx` field, `"gone"` after it. `arcs[c]` are the threads that
hold an `Arc` of their own; with the undropped States they make `Refs[c]`, the
strong count. `pc`, `onCtx`, `onState`, `rc`, `ret` are each thread's call.

| Actions | Code |
|---|---|
| `NewStarts` ... `NewFails` | `Context::new`, its refusals, the lock, the native call and the four ways out |
| `CreateRefuses` ... `CreateFails` | `create_state`: first check, lock, native call, second check, discard or publish |
| `FullRejects` ... `FullUnlocks` | `full`: preflight, lock, check, native call, the `-7` path, the exception path, release |
| `StateDrops` ... `ContextDrops` | the two `Drop` impls and the `Arc` between them |
| `CloneArc` | what a program does with its `Arc` |
| `ShimEnter`, `ShimCatch`, `TakeSentinel` | the shim's slot |

The program is arbitrary safe Rust: any idle thread may use any State no other
call uses (a State is `Send`, not `Sync`, and its methods take it exclusively).
What a native call returns is a choice over everything the shim's header allows.
Atomics are sequentially consistent here; the code uses Acquire/Release, and
every decision the properties rely on is also ordered by one of the two mutexes,
save the re-check of `create_state`, whose race the model has anyway.

`cause` and `late` are history variables: no action reads them.

### The other modules and the code

`InferenceCallbacks`. `stack[t]` is the call stack of a thread, one frame per
`full`: at the lock, in native code or in the callback. `CallsBack` and
`CallbackAnswers` are `abort_trampoline` (the panic it catches is the answer
"stop"); `InfersAgain` is the closure calling `full`, on any State it owns, and
with any Params of its thread, since `full` takes `&Params`. `HostOf` is
`!Send`. `Follows` is a discipline of the program, not of the crate: the
properties about progress are stated for programs that keep it.

`ParamsOwnership`. `raw`, `trampoline` and `count` are the C struct, `owner` the
Rust fields, `heap` what the allocator did. The setters that cannot unwind once
they write are one action; `set_abort_callback` is one action per statement
(`NullsHooks`, `DropsOld`, `Boxes`, `Stores`, `Publishes`), with the two places
where a panic leaves it (`DropPanics`, `BoxPanics`). `calls` holds the copy of
`raw` that native code works with.

`FullPreflight`. A model is its vocabulary size, the tokens between which its
languages lie and whether it is multilingual. `Verdict` is the sequence of checks
in their order, `found` whether the lookup of the hint met no exception: the shim
catches one, `lang_id_for` answers `None` and the hint is refused. `Prefixes`,
`SeekStart` and `SeekEnd` are native code, external, and say what it does with what
passed, from the raw pointer where the checks see the owned hint. The i32 sums have
a width. `RefusalsAreJust` is the converse of the two properties before it: what is
refused would have gone wrong, save where that exception is the reason.

`SegmentViews`. `views` are the indices of the `Segment`s in use, `iter` the
fields of `Segments` and `Tokens`, `said` their last answers. `Infers` and
`Loses` need `Unborrowed`: `full` takes `&mut self`. The refinement mapping
`Iteration(i)` makes each iterator, on its own, an instance of `Deque`.

`SystemInfo`. The labels are the statements of `system_info`; `"building"` lasts
as long as the native call, so that two of them can overlap if nothing prevents
it.

`Tokenize`. A text is its number of tokens; `Native` is the shim with its guard
for counts no C int holds. `DtwBudget` computes the sizes with the formulas of
the source; `Decodes` is what native code takes of them. `TemperatureLadder` is
the loop `for (t = temperature; t < 1 + 1e-6; t += inc)` in floats of a few bits,
rounded to even, with NaN and the infinities.

`DecodeThreads`. `joinable` are the threads in native code's two plain vectors,
`pc` the two loops that fill them. What native code does there is external and
taken from the analysis at `params.rs:53`; the clamps are the source's, and
`"terminated"` is the process after `std::terminate`.

`Languages`. A text is a word in one of five casings, so that the match arms
(all casings of two letters, four of the eight of three) are one definition,
`IsListed`. `Deserialize`, `FromIso639_1` and `TryFromIso639_1` are three
functions because the source has three. `LangIdFor` is the lookup that finds
memory; where one that does not is told apart, in `full`, it is a choice. `detect`
is the flag of `set_detect_language`: with it, as with the hints of `IsAuto`, `full`
asks of a model only that it is multilingual and native code picks one of its
languages. `Table` and `Models` are native code's, each a size of its own.

`BuildScript`. `tree` is the submodule with the files that carry their markers,
`record` what cargo keeps of the last successful script, `out` the artefacts in
`OUT_DIR`, with the time each was made. An edit happens between any two steps. The
script's steps are its calls in `bundled_build`; `ScriptFails` is a panic, a tool
that fails or a killed build at any of them. `Linked` are the libraries
`emit_bundled_link_directives` names (`LibraryOf`), `Built` the targets cmake
makes of the options `build_whisper_cpp` passes. How cmake names them (`TargetOf`)
and what ggml turns on by itself (`DefaultsOf`) are external and have lists of their
own, so that a wrong name on either side shows.

## Runs

| Run | Instance | Question |
|---|---|---|
| `reload` | 2 threads, 2 Contexts, 2 States | memory safety, leaks and the shim's slot, when models are loaded, lost, dropped and loaded again |
| `workers` | 3 threads, 1 Context, 3 States | three workers on one model: exclusion, the loss budget, the poison flag |
| `liveness` | 2 threads, 1 Context, 2 States, `FairSpec` | locks are given back, lost memory is reclaimed, calls return |
| `callbacks` | 2 threads, 2 Contexts, 3 States, 2 Params, `FairSpec` | exclusion, and locks that follow calls, under nested inference; freedom from circular waiting and progress for callbacks that keep an order |
| `params` | see below | what an inference is given: windows, prompts and languages a model and a buffer have, a ladder that ends, no thread an exception can meet, pointers to live memory, one language from end to end |
| `answers` | see below, `SystemInfo` fair | what comes back: all tokens or none, an arena large enough, one system information for all, iterators that give every item once |
| `build` | 7 configurations, 2 files with markers, 3 edits | whatever happened before, a program is linked with patched, current and complete libraries, or not at all |
| `late` | 2 threads, 1 Context, 2 States | a statement of a comment that the code does not keep |
| `closure`, `panic` | as `callbacks` | two more |
| `build_rerun`, `build_openblas` | 1 configuration each | two more |

`reload` also checks `ImplementsContract`: a caller of `SharedContext` sees no more than
`ContextContract`.

Bounds of `SharedContext`. Two Contexts are what exclusion across Contexts and reloading need;
three workers on one Context are one more than any race between a loser, a
waiter and a creator involves; a State per worker is the documented pattern.
Native allocations are used once and nothing else is counted, so the state space
is finite without a further bound. One exception code (`-101`, so that the first
sentinel `-100` is not special) and one recoverable code (`-6`) stand for all:
the code compares with `-7`, `-100` and `0` only. Threads, Contexts and States
are interchangeable names, so they are symmetric in the runs without liveness.
A run ends when every allocation is used up and dropped; a thread may still call
`NewRejects`, so there is no deadlock to excuse and the check for it stays on.

Bounds of the others. `Budget` (3) counts polls and nested inferences of one
call, so that a stack of three, and a call after a nested one, occur: with two
threads and two Contexts that is what a circle, a self-wait and a re-entered
closure take. `MaxTokens` and `MaxDepth` (2) of `ParamsOwnership` give a count
that can be wrong and a nested borrow; each allocation is used once, so two of a
kind give one replacement. `MaxSegments` and `MaxTokens` (2) of `SegmentViews`
let the ends of an iterator meet from both sides, and three threads in
`SystemInfo` are a builder, a waiter and one that comes after. `I32Max` (4095) of
`FullPreflight` is an i32 of 13 bits, wide enough for a buffer of 200 ms and
small enough that `offset + duration` wraps; the buffers are one sample short of
and exactly the least, one that is no whole number of ms, and one too long; the
windows end before, with and past the audio. `IntMax` (7), `InitialCapacity` (3)
and `MaxLength` (9) of `Tokenize` have texts below and above each limit.
`UsizeMax` and `MaxDtwMemSize` are those of a 32-bit target with one bit less,
where overflow is nearest; `Wishes` and `TextCtxs` lie around each limit, and the
head counts are the source's. `Precision` (64) and `One` (1024) of
`TemperatureLadder` are floats of six bits with the smallest legal increment two
of their steps at 1.0; `RungCap` (40) is where counting rungs stops, well above
the bound `LadderIsShort` states.

Counts of `DecodeThreads` go from -1 to above `MaxBeamSize` (4, where the source
has 64); with five threads every loop starts several, so that an exception finds
none, some or all of them. The texts of `Languages` are words with a named variant
(of two and of three letters), with none but in the table, in no table, with a
NUL after a word of the table, English names, the two spellings of auto-detection
and one over the 32 bytes; the models have as many languages as the table, fewer,
and one. In `BuildScript` three edits are an update, its loss and another update,
or two updates around a step of the script and one after it; two files with
markers are what verifying some and missing others takes; the configurations are
native and cross builds in which the lists of libraries differ, one of them with
every backend at once that is neither Apple's nor `openblas`.

In `InferenceParams` and `InferenceAnswers` any component may step. For the runs
`MCSpec` lets each step only while the others are in their initial states: they
share no variable, so nothing is lost, and their states add up instead of
multiplying. The theorems are about the free `Spec`. The assumptions of the
constants are definitions in the components and asserted in the two
compositions.

Deadlock is checked except in `callbacks`, `closure` and `panic`, where a callback
may wait for the lock of its own thread (nothing in the crate prevents it, and
`NoCircularWait` says when it cannot happen).

Fairness. `FairSpec` assumes weak fairness of `Continues(t)` for each thread: a
scheduled thread goes on and a native call comes back. Nothing obliges a program
to call anything, and no lock is assumed fair, so `CallsReturn` only speaks of a
thread the others leave alone from some point on. That shows that no path of either
lock's returns with it held; of two threads that wait for each other it says
nothing, since neither becomes idle. `FullLockReleased` has no such proviso: threads that
took the two locks in opposite orders would keep a `full_lock`. `InferenceCallbacks` and `SystemInfo` assume the
same of their threads; in `SystemInfo` every call returns without the proviso,
since only the callers that came first ever meet the mutex.

## Proofs

Every safety property of a passing run is a theorem, for every value of the
constants, and so are the two refinements.

| Module | Theorems |
|---|---|
| `SharedContextLocks` | `BaseInvariant`, `TypeCorrect`, `ConstructorsExclude`, `InferencesExclude` |
| `SharedContextLoss` | `LossInvariant`, `LossIsBounded`, `NothingRunsAfterLoss`, `LateStatesAreBounded`, `ErrorsAreOwn` |
| `SharedContextMemory` | `MemoryInvariant`, `NothingFreedTwice`, `CallsOnLiveMemory`, `AccessorsAreSafe`, `ContextsOutlive`, `LossesArePublished`, `NoLeaks`, `FlagPrecedesFree` |
| `SharedContextContract` | `FlagInvariant`; `Implementation`: `SharedContext` implements `ContextContract` |
| `InferenceCallbacksProofs` | `TypeCorrect`, `GuardsFollowCalls`, `OrderPreventsCircles` |
| `ParamsProofs` | `ParamsInvariant`, `WindowsFit`, `ParamsSuitTheModel`, `RefusalsAreFounded`, `LadderStaysShort`, `FailuresReachTheShim`, `PointersHaveOwners`, `CopiesStayWhole`, `LanguageComesBack`, `TokensFollowHints` |
| `AnswersProofs` | `AnswersInvariant`, `TokensAreComplete`, `EveryDecodeFits`, `DtwFollowsParams`, `OneAnswerForAll`, `IndicesStayInRange`; `IteratorsAreDeques`: each iterator implements `Deque` |
| `BuildScriptProofs` | `BuildInvariant`, `PatchedSourceIsLinked`, `CurrentSourceIsLinked`, `BuildsLink` |

### Assumptions

| Assumption | What it says | Why the code justifies it |
|---|---|---|
| `NamesAssumption`, `NoThreadAssumption`, `InstanceAssumption`, `PayloadsAssumption`, `IteratorsAssumption` | names differ, constant functions have their types | naming only |
| `CodesAssumption` | the shim's codes are at most `-100`, the others above it, and neither `-7` nor `0` | the header of the shim reserves them |
| `OrderAssumption` | among any Contexts one is under no other in `Order` | the order is the program's; only `OrderPreventsCircles` uses it |
| `PreflightAssumption` | buffers have natural lengths, settings fit an i32, a model has English and its language tokens lie between two others | types of the source, and native code's vocabulary |
| `FloatsAssumption` | 1.0 is the least float of its size, `Ulp` knows the sizes up to 3.0, the least increment is larger than the distance of floats at 1.0 and is a float, `Eps` is less than 1.0 | f32 and `params.rs:204`: with quanta of `2^-33` (`One` = `2^33`, `Precision` = `2^24`) all of it holds and every legal increment is exact; only a first temperature under `2^-10` can be finer, and is then a quantum off |
| `CountsAssumption` | a machine has a natural number of cores, counts are integers | types |
| `LanguagesAssumption` | the native table has codes of two or three ASCII letters, and neither `""` nor `auto` as a code or name | `lang.rs:658` and `params.rs:456` rely on it |
| `WidthAssumption`, `SizesAssumption` | the first capacity fits a C int; the least cap is 1 GiB and a `usize` holds the cap and one object more | the constants of `context.rs`, on targets of 32 and of 64 bits |
| `BuildAssumption` | the features are the crate's; `metal` and `coreml` are only asked for on Apple targets | `Cargo.toml`; Apple's frameworks, without which the cmake step fails |

TLC evaluates each on the instance of a run, so none is empty.

### SharedContext

None of the safety properties is inductive. That `Some` means a live state
(`PointersAreValid`), for instance, is preserved by `FullUnlocks` only if a call
at `"full: unlock"` with a lost state is known to have nulled the pointer, which
rests on what holds at `"full: forget"`, and so on back to the call's start; and
none of that is of use unless no other call works on the same State. The
invariant therefore says what every label knows:

1. `BaseInv`: types, which State and Context a call works on and that no two
   calls share a State, which labels hold which lock, and that nothing refers to
   an allocation before it is published.
2. `LossInv`, `LateInv`, `ReportInv`, over `BaseInv`: a loss is in the flag or in
   the hands of the holder of `full_lock`; a late State was the last one
   published; a constructor's slot is its own.
3. `PointerInv` and `ContextInv`, over both: pointer, handle and native block
   agree at each label; a referenced Context is live, and a live one without
   references is in the hands of exactly one call.
4. `FlagInv`: a poisoned Context has had a State. Only the refinement needs it.

Each part is proved by cases on the actions, the thread that moves apart from
the others (`OthersStay`).

`Implementation` takes each action to the step of `ContextContract` it looks like
from outside: `NewLoads` loads the model, `CreateAllocates` opens a State, `FullPasses`
begins an inference, the return of its native call ends or loses it, `ContextDrops`
unloads. All other steps change nothing a caller sees. The invariants
supply the guards of the contract, for instance that no inference runs on the
Context when another begins.

### The others

`InferenceCallbacks`. `LocksFollowCalls` is inductive once the types are there: a
frame past the lock holds it, and a holder has exactly one such frame. For
`NoCircularWait` suppose threads that wait for each other in a circle. Of the Contexts
they wait for, one is under no other in the order. The holder of its lock is in the
circle too, so it waits for a Context which by `Follows` its held one is under.

`Params`. `PreflightInv` keeps, with the last answer, that there was a model and
a buffer for which `Verdict` gave it; that the checks pass or refuse rightly is
then arithmetic, wrap-around included. `LadderInv` counts rungs by what they have
risen: each rise, rounded, is at least `Rise`, so the rungs so far times `Rise`
lie below the rung. `DecodeInv` says that without the unsafe setter there is one thread
and nothing joinable. `OwnershipInv` has an invariant for owners, heap, the
labels of `set_abort_callback`, pointers and borrowed copies; a panic leaves the
setter only where the hook is null. `LanguageInv` says that every `Lang` of the
program is what `FromIso639_1` makes of its own text, which is what makes the
way through hint and detection come back; with `detect` on native code may leave
any language of the model, and the theorem says nothing.

`Answers`. `TextInv` fixes what the native call wrote as a function of text and
buffer; `DtwInv` says a loaded arena meets the requirement of its preset;
`SysInv` says between which labels `cache` is unset and who is past building;
`ViewsInv` bounds both ends of an open iterator and says that the item it gave last
lies under its end. `IteratorsAreDeques` shows that an action steps one iterator
as `Deque` does and leaves each other one as it is.

`BuildScript`. `BuildsLink` is about native builds and leaves out `openblas` outside
Apple, which does not link (`FeaturesAreLinked` below). `BuildInv` dates everything by the start of a run: what a run has
watched has not changed since or is seen to have, and what it made is younger
than its start. The record of a successful run inherits this, and so does the
program compiled with it.

Before it was proved each of these invariants was model-checked on the instance of
its run; they are in no run, since the theorems subsume them.

## Model-checked only

- Liveness: `FullLockReleased`, `LostStateReclaimed` and the `CallsReturn` of three
  modules. They rest on weak fairness, hence on ENABLED, which the prover does not handle.
- What the code does not keep (next section): a theorem about it would be false.

## Where code and comments part

- `NoLateState` (run `late`). The comment at `state.rs:443` says that a
  concurrent `create_state` either sees the flag or completes first. It may pass
  its second check, and publish after the flag is set. The effect is bounded: at
  most one such State (`AtMostOneLateState`), and no inference ever runs on it
  (`NoInferenceOnLostContext`).
- `ClosureRunsAlone` (run `closure`). The comment at `params.rs:1178` says that
  native code "invokes the callback serially, so this is the only outstanding
  access" to the closure. `full` takes `&Params`: a callback that can reach its
  own Params and a State of another model runs inside itself.
- `PanicReachesCaller` (run `panic`). The comment at `params.rs:1187` says that
  a caller who wraps `full` in `catch_unwind` sees the panic of its callback. The
  trampoline turns it into "stop", and `full` returns an error.

- `UpdatesArePickedUp` (run `build_rerun`). The comment at `build.rs:76` says that
  cargo reruns the script when the submodule changes. A build without the
  submodule returns at `build.rs:67` with success, before anything of the source
  is watched; once `git submodule update` has brought it, cargo still uses the
  record of that run, and the build fails until something else changes.
- `FeaturesAreLinked` (run `build_openblas`). `Cargo.toml:33` says that each feature
  links the static library cmake produces for it. For `openblas` outside Apple
  cmake builds `ggml-blas` (`build.rs:454`) and only the system's library is linked
  (`build.rs:535`).

Smaller ones, met in reading, that no run is spent on:

- `error.rs:255` documents `StateLost.code` as what triggered the poisoning; a
  second `full` on a lost State reports `-7` whatever lost it (`state.rs:323`).
- `error.rs:22` documents `ContextLoad` as the outcome without an exception;
  `Context::new` also returns it with one (`context.rs:848`).
- `full` reports a hint as `LanguageNotSupportedByModel`, `"en"` on any model
  included, when its lookup ran out of memory (`state.rs:267`): the comment there
  names only `Default` and struct update as a way to that branch. `RefusalsAreJust`
  excepts it.
- `context.rs:320` says that every preset "comfortably fits" the default DTW
  memory of 128 MiB; `required_dtw_mem_size_for` gives three of them more.
- `state.rs:292` says that the setter clamps negative durations, so that only an
  unsafe path leaves one; `set_duration_ms` stores its argument (`params.rs:840`).
- `error.rs:364` says that a zero duration is always accepted; with an offset past
  the audio it is not (`state.rs:309`).
- `build.rs:11` and the header it gives the bindings (`build.rs:798`) describe a
  patched copy in `OUT_DIR`; the source is built in place. `build.rs:22` says that
  `cargo check` resolves the API without the submodule; without bindings nothing
  compiles.
- `build.rs` asks `cfg!` for the vendor and the operating system, which in a build
  script are the host's, where its comments speak of targets: a cross build to
  Apple links no `ggml-blas`. `LinksResolve` is about native builds.
- `lang.rs:899` says that no `Lang::Other("XX")` ever exists; `from_iso639_1` keeps
  the case of what it does not know, and of a three-letter code it knows four of
  the eight casings (`Other("HaW")`), while `deserialize` lowers both. An English
  name is `Other("english")`, whose id is that of `En` and which is not equal to
  it. `ForcedLanguageComesBack` excepts the name.
- `params.rs:580`, the contract of `set_n_threads_unchecked`, names failures to
  start a thread in the spectrogram's loop; an exception in `process`, in the
  decoders' loop, ends the process as well (`params.rs:64`), and `DecodeThreads`
  has both.
- `params.rs:230` says that infinity becomes the hottest temperature; it becomes 0.

## Not modelled

- Mutex poisoning: the locks recover the guard with `into_inner`.
- Read-only accessors of the model and of a State: they change nothing, and
  `PointersAreValid` is what makes them safe.
- What whisper.cpp computes. Where a component hands values to native code, what
  it does with them is modelled from how `src/` uses it and marked external.
- The clamp of `max_initial_ts`, one comparison, and setters that store a flag or
  a threshold unchecked: nothing else in the crate depends on them.
- The hundred codes of `lang.rs` one by one, and the 80-odd markers of `build.rs`:
  the models have a few of each, since all of a kind are treated alike.
- serde formats that own their strings: `deserialize` asks for a borrowed one and
  fails with them before any code of the crate runs.
- Bindings, CI, the example.

## Plan

1. Proofs: what follows from the two refinements for a caller, stated of the abstract
   specifications themselves (a poisoned model stays poisoned and nothing runs on it;
   an iterator gives each item once), and then for the code by refinement.
2. Extend, where it still pays: losses (`SharedContext`) under nested inferences
   (`InferenceCallbacks`).
