# A TLA+ development of @ambire/react-native-crypto

The package serves six hot ethers and viem functions from Rust. A call leaves
JavaScript through generated TypeScript, crosses JSI in generated C++ and runs in
a Rust crate; an error hands the call back to the JavaScript original. Most of
what can go wrong is between those layers: who frees a buffer, what a number is
after it went through JSON, what an error means to bindings that are older than
the crate. Around them are the ways the package gets into a JavaScript runtime and
out of it, and onto npm. That is what is modelled here.

Source paths below are those of the repository: `rust/src/lib.rs`,
`cpp/generated/ambire_crypto.cpp`, `src/generated/ambire_crypto.ts`, ...

## The system

| Component | State it keeps | Operations | Talks to |
|---|---|---|---|
| RustBuffer bridge (`ambire_crypto.ts`, `ambire_crypto.cpp`) | heap blocks under views and RustBuffers; the locals of a call; the call status | `lower`, `rustbuffer_alloc`, `fromJs`, the native call, `copyIntoJs`, `toJs`, the status check, `lift`, `rustbuffer_free` | JSI host functions, the uniffi scaffolding of the crate |
| ABI and hex implementation (`rust/src/lib.rs`) | none: pure functions | `bytes_to_hex`, `hex_to_bytes`, `checksum_address`, `decode_function_result`, `encode_function_data`, `keccak256` | alloy, serde_json |
| Fallback to ethers and viem (the shims, in the consuming app) | whether the native module loaded | call natively, or the original on any error | the exported functions, the richJson codec |
| Generated bindings and boot check (`src/generated`) | the interface they were generated from | generate, build, `uniffiEnsureInitialized`, `FfiConverterTypeAbiError` | the crate's checksums and contract version |
| Module installation (`index.ts`, `react-native-ambire-crypto.cpp`, Kotlin, Objective-C++) | the global host object and its table, two module flags | `installRustCrate`, `registerModule`, `get`, the destructor, `initialize` | the runtime, its garbage collector, its call invoker |
| Callbacks and futures (`ambire_crypto.cpp`) | two callback slots of the process | `makeCallbackFunction`, `callback`, `body`, `cleanup` | threads of Rust, the call invoker; dormant: no exported function is async |
| String decoder patch (`scripts/`) | the generated file | patch, refuse, skip when patched | `bindings:generate` |
| Release workflow (`.github/workflows`) | main, artifacts, the staged package | check the bindings, merge, build, check, pack, stage, approve | npm |
| Build configuration | none | | |

What makes each of them correct, and what is hard about it:

* **Bridge.** Every block is freed once, by its owner, with the capacity it was
  allocated with, on every path: normal, error, panic, a conversion that throws
  half-way. Ownership changes hands five times in a call and no layer sees the
  whole path. C++ leaves the order of the argument conversions open. Two runtimes
  share the heap.
* **Implementation.** "Returning a value the JS would not have returned never is
  [safe]" (`lib.rs`): a native answer is the original's, and refusal is the only
  other outcome. The edges are numeric (48, 53, 64 and 256 bits, signs, words wider
  than their type), lexical (prefixes, case, checksums) and structural (which tuple
  is an object, which dimension is outermost).
* **Bindings.** They are generated apart from the library they run against. What
  drifts must be noticed: at link time, at boot, or when an error is read.
* **Installation.** `index.ts` runs again on every reload, while the old runtime is
  torn down, and again in the same runtime when a module is refreshed. An evaluation
  that fails half way has already replaced the host object that earlier code calls.
* **Callbacks.** The slots belong to the process, what they hold to a runtime, and
  what empties them is a destructor that the garbage collector runs. Rust calls on
  threads of its own, without a lock.
* **Patch, release.** Several steps, hours and machines apart, of which one may fail,
  be skipped or be run again; what is staged must be one commit with its bindings.

## Modules

| Module | Models | Kind |
|---|---|---|
| `RustBufferBridge` | the bridge, one action per step of a call | state machine |
| `Lending` | what the bridge promises: a block is lent, and given back before the call ends | abstract specification |
| `RustBufferBridgeProofs` | the bridge's inductive invariant and six theorems | proofs |
| `LendingProofs` (extends `RustBufferBridgeProofs`) | the bridge implements `Lending` | proofs |
| `AbiScalars` | hex, addresses, integers, `coerce_scalar` | operators |
| `AbiCoding` (extends `AbiScalars`) | tuples, arrays, the two ABI functions; alloy | operators |
| `HexReference` (extends `AbiScalars`) | what ethers and viem answer to hex and addresses | reference relations |
| `ViemReference` (extends `AbiCoding`, `HexReference`) | doubles, richJson, what viem answers to ABI values | reference relations |
| `NativeOrOriginal` (extends `HexReference`) | a shim call, native or handed over, whatever the ABI functions do | state machine |
| `NativeOrOriginalProofs` | its inductive invariant and three theorems | proofs |
| `NativeOrViem` (extends `ViemReference`, `NativeOrOriginal`) | the ABI functions of a shim call, and its ABI properties | properties |
| `NativeOrViemProofs` (extends `NativeOrViem`, `NativeOrOriginalProofs`, `NatRecursion`) | a theorem for each of them, however types nest | proofs |
| `Bindings` | crate, bindings and app drifting apart; AbiError's wire format | state machine |
| `NatRecursion` | induction and recursive functions on the naturals | lemmas |
| `BindingsProofs` (extends `Bindings`, `NatRecursion`) | what is written is what is read; the two inductive invariants of `Bindings` and four theorems | proofs |
| `CallbackSlots` | the two callback slots: how Rust calls into JavaScript | actions, for its users |
| `NativeInstall` (extends `CallbackSlots`) | loading, reload, teardown, and futures over them | state machine, with fairness |
| `NativeInstallProofs` | its inductive invariant and four theorems | proofs |
| `Release` | bindings, CI, merge and the release workflow | state machine |
| `ReleaseProofs` | its inductive invariant and four theorems | proofs |
| `MCRustBufferBridge`, `MCNativeOrViem`, `MCBindings`, `MCNativeInstall`, `MCRelease` | small instances | instances |

### RustBufferBridge

`heap` maps a live block to who allocated it (Rust or C++), its capacity, the call
it was made in and its purpose. The other variables are the references the three
layers hold: `lowered` (the argument views), `copies` (the RustBuffers `fromJs`
made), `status` and `ret` (locals of the native function), `jsStatus` and `view`
(what JavaScript gets back). `pc` is the control point.

| Action | Code |
|---|---|
| `Call`, `LowerArg`, `LowerThrows` | entering an exported function; `lower(..., rustbuffer_alloc)`, in order |
| `fromJs`, `fromJsThrows` | the argument conversions, in any order; any of them may throw, with any of the siblings done |
| `RustReturns`, `RustRefuses`, `RustPanics` | the scaffolding consumes every copy and lowers a result, an AbiError or a panic message |
| `copyIntoJs`, `toJs` | the error is copied out and freed; the result becomes a view with its capacity hint |
| `CheckThrows`, `CheckPasses` | `rustCall` reads the status before there is a `__rb` |
| `Lift`, `rustbuffer_free` | the `try` and its `finally` |
| `ProcessDies` | no block is left: Rust aborts and the app starts again |

Contents of buffers are abstracted, lengths are not: `ToInt32` is the wrapping cast
of `fromJs` on a machine whose `int32` ends at `IntMax`.

External, and modelled from how the code uses it: the uniffi scaffolding (it
consumes its arguments whatever the outcome), `UniffiRustCaller` (it throws for
every code but 0), `CMutableBuffer` (non-owning, as two comments of the generated
C++ say) and `lower()`. Whether `lower()` uses the allocator it is handed is inside
`@ubjs/core`, so it is the parameter `AllocKinds`: the runs take byte arrays only or
both kinds, and the proofs hold for any choice. The assumption `NonEmptyResults` says that Rust
returns no empty buffer with room to spare, which holds of the six functions and
which the early return of `rustbuffer_free` needs. Arguments of length zero allocate
nothing and are left out (`ArgLengths`).

### Lending

The promise of the bridge in one sentence, as a specification of its own: a caller
asks, Rust may lend it a block that nobody has, and the block is given back by the
time the call ends (an error before, a result as it ends). There is no status, view,
hint, copy or `finally` in it. The refinement is at the end of `RustBufferBridge`:
`Borrowed(c)` is read off the heap (the blocks of Rust's that were made in this call as a
result or an error, whoever still points to them), `Phase(c)` off `pc` and `Borrowed`,
and `KeepsThePromise` is `Lending!Spec` of the two. A leak, a second free or a free of
another call's block is a step `Lending` does not have.

### AbiScalars, AbiCoding

One operator per Rust function, under its name. A text is a hex literal (a run of
prefixes, then digits with and without case), a decimal, a decimal with underscores
among its digits (which Rust's integer parsers skip and JavaScript's `BigInt` does not
take), or words after byte order marks: what the code tells apart and no more. Types are
`[base, size, dims]`, the dimensions in writing order. Wire data is what it holds (a
word, bytes, a text, items), without offsets and padding, which are alloy's. A decoded
word may be any, whatever its type: alloy compares it with no width, and takes every
word for a bool, true unless it is 0.

Types, values and JSON nest, and `value_to_json`, `json_to_value` and alloy's two
directions call themselves. The provers here can do nothing in a module that declares a
RECURSIVE operator, so each of them is split into what one level does and how a level
reaches the next: `value_to_json_at` is the body of the Rust function, with its calls to
itself going to the constant operator `value_to_json`. The same is done in
`ViemReference` for the codec and for viem. `MCNativeOrViem` ties the knot
(`MCValue_to_json(param, value) == LET level == value_to_json_at(param, value) IN level`
is what the configurations give for `value_to_json`), and the assumptions of
`NativeOrViem` say that it is tied: on the values that can come up,
`value_to_json = value_to_json_at`, and so on (`DecodingAssumption`,
`EncodingAssumption`, `ReencodingAssumption`, `ComponentsAssumption`, `CallsAssumption`).
These are the equations of the recursion and nothing more, and TLC evaluates each of them
over the whole instance.

### HexReference, ViemReference, NativeOrOriginal and NativeOrViem

The originals are not in this repository. `ViemEncodes(param, js, wire)` and
`ViemDecodes(param, wire, js)` are relations between JavaScript values and wire
values, written from the comments and the tests of the crate and not from its code
paths, so that they can disagree with it. `Double` and `Printed` are rounding to a
double and the shortest decimal that reads back as it.

`HexReference` does the same for hex texts and addresses, where no type nests.

`NativeOrOriginal` is one call of the app: asked, answered natively (`Decode`,
`Encode`, `HexToBytes`, `BytesToHex`, `ChecksumAddress`, then `AnswerNatively`) or
handed over, because the module is missing or the function returned an error. What the
two ABI functions return for a request, and what the app reads in their JSON, are the
parameters `Decoded`, `Encoded` and `Parsed`: the machine and the three functions on hex
do not depend on them, and are proved about without types. `NativeOrViem` has the values
that the configurations give them (`NativeDecoded`, `NativeEncoded`, `richJsonParseAt`),
and the assumptions on what can be asked: `ParamsAssumption` (nesting ends),
`WiresAssumption` (padding, lengths and offsets are right, a word may be any),
`JsAssumption`, `AbiRequestsAssumption`. Both directions are stated: a native
answer is the original's, and a call the original would serve is not handed over.

### Bindings

`crate`, `bindings` and `app` each hold an interface: contract version, functions
with their checksums, variants of `AbiError`. Developers edit the crate, generate
or forget to, build; the app boots, or is refused, and reads the errors of its
library. Errors are sequences of words, so that reading one with other bindings
really walks the payload. The layout of a payload is written down three times, as it is
in the code: in the declaration of `AbiError`, which Rust writes and `read` reads by
(`lower`, `ReadFields`); in the twelve arms of `write` (`WrittenFields`); and in the
twelve arms of `allocationSize` (`SizedFields`). `KnownErrorsAreWrittenAsInRust` says
that the three agree: an arm that loses a field, or has two in another order, is told
from the others. Variants are appended only, as the comment on `AbiError` demands.

### CallbackSlots and NativeInstall

`js[r]` is a runtime: live, being taken down or gone; where its thread is in an
evaluation of `index.ts`; the two flags of that module; the bundles whose `index.ts`
came to its end; and how many host objects were made in it, the global holding the
last. `destroyed` are the host objects whose destructor has run.

| Action | Code |
|---|---|
| `Evaluate` | `index.ts`, up to the install: the import throws without a library; the flags are new, because they are variables of the module |
| `installRustCrate`, `registerModule` | the Kotlin or Objective-C++ method and `nativeInstallRustCrate`; a new host object whatever the global holds. On Android the pointer is null once the instance is being taken down: `ProcessDies` |
| `initialize` | `uniffiEnsureInitialized` over the host object's table; it throws and the import with it |
| `Collect`, `EndTeardown` | the destructor, run by the collector for a replaced object, by the end of the runtime for all of them; both empty the slots (`Destroy`) |
| `PollFuture`, `PassForeignFuture` | `makeCallbackFunction`: fills the slot if it is empty |
| `FutureWakes`, `FutureDropped` | `callback`, up to its test of the slot |
| `WakeUpQueued`, `DropQueued`, `CallbackThrows` | the call of the slot: into the call invoker, or of an empty `std::function` |
| `WakeUpRuns`, `DropRuns` | `body`, on the JavaScript thread of the runtime the lambda captured |

The handle that a wake-up carries is known to the runtime that polled, so a wake-up
that went to another one is lost. `build` is chosen once per behaviour: platform,
whether the package has a library for the device, and `async`. Today's crate exports no
async function; what the callback code does is modelled for the builds in which one is
exported (`build.async`), since the code is there, compiled and emptied by every
destructor, and waits for the first one.

`get` and the table are modelled because a failed evaluation is survived by the code of
an earlier one, which calls through the global, and so through the new object.

### Release

A commit is the crate (as a counter of its changes of signature), the version, the shape
of ubrn's template, and the committed bindings: what they were generated from and whose
decoder they call. A contributor edits, generates (with or without the last step, the
patch) and proposes; `CheckBindings` is CI's job, which regenerates and compares; only
what it passes is merged. A run of the release workflow is started by a tag, pushed on
main or on what is not merged, or by hand on either. Each of its three jobs checks out a
commit by itself (`checkout`) and its artifact keeps which; `BuildAndroid` uploads
libraries of some targets, `BuildIos` those for iOS, and `Package` looks for one library
of each platform, compares the tag and packs a checkout of its own. Every step may fail,
and the failed jobs, or all of them, may be run again.

Three things the model takes as given. A build yields at least one library, since the
upload refuses an empty path, but no target is promised: nothing in the workflow fails
when `ubrn.config.yaml` drops one, as `release.yml:38-40` and README say, so no property
says that a package has them all. `Merge` puts on main the commit CI passed: one pull
request is open at a time, and what GitHub does when main has moved under an open one is
outside the repository. And `TaggedReleasesWork` speaks of tags on main (README has the
tag pushed after the merge); a tag elsewhere is packed and staged as well.

What the model shows beside its properties, for the reader of the workflow: the release
workflow does not ask CI. A manual run with `stage` on stages the commit of any branch,
bindings unchecked and version unchecked, since its tag check is for pushes only. README
offers manual runs for exercising the path with `stage` off, so this is no disagreement,
but the properties speak of tags for that reason.

## Runs

| Run | Shows | Distinct states |
|---|---|---|
| `RustBufferTwoRuntimes` | ownership with two runtimes on one heap; results and errors never leak; copies leak on one path only; the whole implements `Lending` | 556,604 |
| `RustBufferOneRuntime` | the same with three arguments, in any order of conversion, all of them allocated | 1,236 |
| `RustBufferErrorCopies` | finding: the copy of an error is never freed | |
| `RustBufferLoweredViews` | finding: argument buffers outlive a normal return | |
| `NativeCalls` | results are viem's and can be encoded back; calldata is viem's, and no scalar is handed over in vain; hex as ethers', checksums as viem's | 56,982 |
| `NativeResultsDiffer` | findings, `DecodesAsViem`: a component named `$bigint`; a bool that is neither 0 nor 1 | |
| `NativeCalldataDiffers` | findings, `EncodesAsViem`: a number beyond the safe range; an integer with underscores; an object keyed `$bigint` | |
| `Bindings` | an error is read as itself or as unexpected, and written by the bindings as by Rust; a running app agrees with its library on what it knows | 170,290 |
| `BindingsAddedFunction` | finding: an added function is not noticed at boot | |
| `NativeInstall` | loaded code fits the library, no slot outlives its runtime, a runtime alone loses nothing, a woken future resumes | 337,932 |
| `NativeInstallReload` | finding: a host object is destroyed in a runtime that goes on | |
| `Release` | what a run stages is one commit; what a tag stages has its version, and on main its bindings, patched | 1,219,290 |

A run that ends in a violation checks one statement the repository makes of itself;
`PROJECT.json` quotes it under `findings`. The runs that pass leave out exactly what
those need: no claim that leaked blocks come back, no component named `$bigint`, no bool
word but 0 and 1, no unsafe number, no underscored text for an integer and no argument
keyed `$bigint`. The two violated ABI runs put two outputs, or three arguments, in one
call, and each of them differs from viem's by itself: `ViemDecodes` and `ViemEncodes` are
asked of each place, and with the others taken out TLC finds the same invariant violated.

### Bounds

* **Bridge.** Two functions (one infallible with one byte argument, one fallible with
  two or three string arguments), lengths 1 and 2 with `IntMax` 1, so that 2 is the
  first length that overflows; results with and without spare capacity; four blocks
  for two runtimes, so that the heap fills in the middle of a call, seven for one, so
  that a whole failing call fits. Blocks and callers are symmetric: they are only
  compared for equality. The proofs cover all other values.
* **ABI.** The small machine keeps the order of the real widths: 2-bit types are the
  widest that become numbers (48), safe integers end at 7 (2^53 - 1), an i64 at 15, a
  u64 at 31, a word at 63. Every word is tried for every integer type, both for a bool, and
  every integer at and around each edge. Tuples go one inside another and dimensions two deep with
  different lengths: the recursion has no other case.
* **Texts.** Up to three digits of four characters, with up to two prefixes; an address
  has two digits, so that a checksum can have one upper-case letter or two letters of different case.
* **Bindings.** The real twelve variants and two that may be appended, one with the
  fields of an existing variant and one without; strings of length 0 and 2, words 0 and
  1, which are also ordinals and lengths. Two functions, two signatures, two contract versions. The
  constraint `OneDriftAtATime` lets the enum or the functions drift, not both at once:
  the boot check reads one part of an interface, the error converter the other.
  `MaxVariants` caps the enum at 14.
* **Installation.** Two runtimes are a reload, or an app with a second runtime. Three
  evaluations (`MaxEvaluations`) are two in one runtime, so that an object is replaced, and
  one in the other; a process that dies starts counting again. Two callbacks on their
  way (`MaxOwed`) can be two of one runtime or one of each. One bundle knows one function of
  the library's two, and boots; the others have that function with another checksum, one
  function too many, or another contract.
* **Release.** Two targets, one of which is looked for; one change of the crate, so that
  main can move past a commit and libraries be older than bindings; one change of version,
  so that a tag can be wrong.
  Runs of the workflow share nothing but npm's list, so one run (`Runs`) shows what each
  does.

### Fairness

`NativeInstall` alone states fairness, weak, and only on steps of a thread that is in the
middle of something: JavaScript runs `index.ts` to its end (`installRustCrate`,
`initialize`), a thread of Rust that has found the slot full makes its call
(`WakeUpQueued`, `DropQueued`), and the JavaScript thread takes the next task from its
queue when it is free (`WakeUpRuns`, `DropRuns`). That is what a JavaScript thread does
and what a native call does. Nothing is owed by the environment: no evaluation, reload,
collection or progress of a future has to happen, and a runtime that is being taken down
may never end. Weak fairness is enough for the queue because evaluations are bounded:
what an unbounded stream of them does to the queue is React Native's affair.
`WokenFuturesResume` excuses a future whose runtime is taken down, and those that
shared the slots with another runtime or a replaced object, which is where a future is
really lost.

The other modules claim no liveness: a shim call is synchronous on the JavaScript thread
and the code schedules nothing; a release waits for people. Deadlock is checked in every
run. A call that finds the heap full does not wait: `ProcessDies`.

## Proofs

`RustBufferBridgeProofs`, for any sets of runtimes, functions, arities, blocks and
sizes, from the assumptions of `RustBufferBridge`:

* The inductive invariant is `Inv == TypeOK /\ \A c : CallInv(c)`. The safety
  invariants are not inductive by themselves. That the pointer in `view` is good when
  `rustbuffer_free` runs follows from what `ret` was when `toJs` made the view, so
  `LocalsInv` relates the locals to each other by control point. That no result is
  left when a call ends needs that every result block is the one its call refers to,
  which is `TrackedInv`. `ArgsInv` carries the length bound from `rustbuffer_alloc`
  to `fromJs`. `HoldsInv` is `ReferencesAreGood` for one call.
* A step of `c` keeps `CallInv(c)` by what it does (one lemma per action) and
  `CallInv(d)` because it leaves `d`'s locals and blocks alone (`OtherCalls`).
* Theorems: `TypeCorrect`, `NoBadReference`, `FreeIsExact`, `NothingReturnedIsLost`,
  `ArgumentsArriveWhole`, and the action property `CopiesAreConsumed`.

`LendingProofs`: `PromiseKept`, that the bridge implements `Lending`. What a call has
borrowed is read off the heap all calls share. The invariant of the bridge turns it
into the call's own two pointers (`BorrowedIsTheDebt`), of which one at most is set
(`OneDebt`), in this state and in the next. From there each action of a call is one
action of `Lending` or a stutter (`CallPromises`), and the step lemmas of the invariant
proof (`StepOK`) say that other calls' loans stand still (`Shift`). That a lent block was
free is the one step that looks at two calls (`LendStep`).

`BindingsProofs`: `RunningAppsAgree`. The check at boot reads the checksum of every
function it knows out of the library. That is sound only because the app was linked:
`Linked` says that a built app's bindings know no function its library lacks, and is
the strengthening. The type part needs that `AbiError`, as it is written, is a sequence of variants.

`BindingsProofs` on errors: `ErrorsAreNeverMisread`, `CurrentBindingsSuffice` and
`WritingsAgreeWithRust`, for any lengths of strings, any words, any variants that may be
appended and any bound on them.

* The three properties speak of the last error raised, which leaves nothing to carry over
  from step to step but who knows which enum. `EnumsOnlyGrow` is that: the cases of an enum
  are told apart, an app's bindings know a beginning of its library's enum, and the
  bindings that are in the tree a beginning of the crate's. `WireInv` is the invariant,
  kept by a step of `Inv`.
* What `Raise` needs comes first in the module. A field that was written is read as it was,
  and the words after it are what remains (`FieldsAreReadAsWritten`); so is a payload, by
  induction on its fields (`PayloadsAreReadAsWritten`); so is an error, by bindings that
  know its variant, and bindings that do not say that it is unknown
  (`ErrorsAreReadAsWritten`). `WordsAreCounted` is the size.
* `WritingsAgreeWithRust` is about three tables. `ArmsFollowTheDeclaration` goes through
  the variants and finds the fields of the declaration in the arm of `write` and in the arm
  of `allocationSize`; from there the words are Rust's, and counted.
* Induction theorems of the library take an operator as a parameter, which these provers
  do not instantiate. `NatRecursion` states induction for a set instead
  (`NatSetInduction`), and proves it: of a number that an inductive set lacks, all the
  numbers that are lacking up to it have a predecessor that is lacking, which is one
  pigeon too many (`FS_PigeonHole`). `RecursionOnInterval` is that a recursive function
  is what its equation says, which `Sizes`, `Writings` and `Readings` use for the three of
  `Bindings`.

`NativeOrOriginalProofs`: `HexIsReadAsEthers`, `BytesRoundTrip` and `ChecksumsAreAsViem`,
for texts of any length with any prefixes, any length of an address, any choice of the
letters that a checksum writes in upper case, and whatever the ABI functions do.
`RequestsAssumption` is that the app asks about texts (prefixes, digits of hex or not,
numbers, with underscores or without, words after byte order marks) and whole bytes.

* The invariant says of a result that it is what the function of the request returned
  (`Returned`), and of an answer that it is that result, or the original's if there is none.
* What remains is about the functions: `hex_to_bytes` refuses what ethers refuses, and
  returns its bytes (`HexToBytesIsEthers`); `bytes_to_hex` is its inverse
  (`BytesComeBack`); an address is parsed where viem would and is nothing else
  (`ParsingIsViem`), and what its checksum is compared with is the text as it came
  (`ChecksumsAreSound`). Repeated prefixes are the case to watch: one is taken off, a
  second is no digit (`OnePrefix`, `RepeatedPrefixes`).

`ReleaseProofs`, for any targets, versions, changes of the crate and number of runs:
`TypeCorrect`, `TaggedReleasesAreGood`, `OneCommitPerPackage`, `StagedTagsAreVersions`.
The properties are about what is staged, which no step changes afterwards; the invariant
says what leads there. `GoodInv` is the way to a tag: what CI passed has its own bindings,
patched, and is what is merged, so main is good whenever it is tagged. `RunInv(i)` is a
run on its way: a run of a tag on main is of a good commit; each library was built of the
run's commit, in whichever attempt; and when it has packed, what it packed is of that
commit too, it has libraries of both platforms, and its tag was compared. Each survives
the failure of a job and a second attempt at it (`JobsKeep`).

`NativeInstallProofs`, for any runtimes, bundles, libraries and bound on the
evaluations, from `SlotAssumption` and `InstallAssumption`: `TypeCorrect`,
`LoadedCodeFits`, `SlotsAreOfTheLiving` and `AloneKeepsEverything`.

* The inductive invariant is
  `Inv == TypeInv /\ (\A r \in Runtimes : RuntimeInv(r)) /\ SlotInv /\ AloneInv`.
* `SlotsOutliveNoRuntime` is not inductive: the teardown that ends a runtime empties the
  slots only if it runs a destructor. `SlotInv` adds that who fills a slot has made a
  host object, and `GlobalInv` that the last one it made is not collected while it lives.
  So the end of that runtime has a destructor left to run.
* `LoadedCodeFitsTheLibrary` needs `EvaluatingInv` (an evaluation past its install has
  an object, and began with flags of its own) and the lemma
  `CheckedBindingsFindWhatTheyCall`: the boot check reads checksums only, and the table
  holds a checksum for no function it does not hold.
* `AloneNothingIsLost`, which says nothing of slots that a second runtime or a destroyed
  object has shared (there a future is lost, by design of the slots), adds to itself that a future's slot holds the lambda of its own
  runtime, and that a queued call is in that runtime's queue (`AloneInv`).
* An evaluation makes one host object at most (`CountInv`), which bounds `made`.

`NativeOrViemProofs`, for any widths of words, types and safe integers, any ABI however
its types nest, any data and any JavaScript values: `ResultsAreAsViem`,
`ContractResultsAreServed`, `CalldataIsAsViem`, `ScalarArgumentsAreServed` and
`DecodedComesBack`.

* Three of them have hypotheses, and every hypothesis is what a finding drops.

  | Hypothesis | of | dropped by |
  |---|---|---|
  | `NoTagNames`: no parameter is called `$bigint` | `ResultsAreAsViem`, `CalldataIsAsViem` | `NativeResultsDiffer`, its tuple |
  | `BoolsAreBits`: a bool's word is 0 or 1 | `ResultsAreAsViem` | `NativeResultsDiffer`, its bool |
  | `PlainValues`: no number the caller passes is unsafe, no object has the tag for a key | `CalldataIsAsViem`, `ScalarArgumentsAreServed` | `NativeCalldataDiffers`, its number and its object |
  | `NoUnderscores`: no string the caller passes is an integer with underscores | `CalldataIsAsViem` | `NativeCalldataDiffers`, its string |

  The findings are of `DecodesAsViem` and `EncodesAsViem`. No run shows that
  `CalldataIsAsViem` needs `NoTagNames` or that `ScalarArgumentsAreServed` needs
  `PlainValues`: their proofs use them. The first three hold in the instance of
  `NativeCalls`, the fourth for its integer arguments. So of what is modelled, nothing
  else makes a native ABI answer differ from viem's. `ContractResultsAreServed` and
  `DecodedComesBack` have no hypothesis, and hold for every word of a bool, where
  `NativeCalls` has two: a bool comes back as the word of its truth (`AsRead`), and the
  results that `DecodesAsViem` is violated by come back as they were read, too.
* The invariant is that of `NativeOrOriginal`. The work is about the functions. A fact
  about a parameter is by induction on how deep it nests (`NestingInduction`, from
  `NatSetInduction`): one lemma for scalars, one for arrays, one for tuples, each from the
  facts about elements or components and the equations of one level.
* The facts are these. `DecodedRight`: the JSON that is written of a wire value is parsed
  as what viem reads. `ServedRight`: there is JSON for each canonical wire value.
  `EncodedRight`: what the native code makes of the JSON of a JavaScript value is on the
  wire what viem puts there. `Survives`: the JSON is the same once JavaScript has parsed
  and stringified it. `ReadBack`: the native code puts back what it read on the wire, given
  the JSON it wrote of it, and declines nothing canonical. All but
  `EncodedRight` are of a parameter and any other with the same components: `value_to_json`
  hands the parameter of an array on to the elements as it is, and reads only the
  components of it.
* Scalars are arithmetic: `Pow2` is a recursive function, of which `Powers` and
  `PowersGrow` say by `NatRecursion` what its equation does. A type that becomes a number
  holds safe integers only (`NarrowNumbersAreSafe`), which `Double` and `Printed` leave as
  they are (`SafeNumbersSurvive`); a signed word comes back (`SignedWordsComeBack`).
  `IntegerArguments` says what text the native code parses for each kind of argument, and
  `DecimalsAreParsed` what it reads in it.
* Tuples are where names matter: an object has the last field of a repeated name
  (`LastOfItsName`), which is why `DecodedReencodes` asks for `DistinctNames`; and an
  object whose only key is the tag is read as a BigInt, which is why there is `NoTagNames`.
  (The way back needs it not: such an object is stringified as it was parsed.)

Model-checked only: `WokenFuturesResume`, since liveness under fairness is out of the
prover's reach. The violated properties are TLC's by nature. What no machine checks is
that the equations of the recursion have the solution one means for every set of
parameters; that is the termination of the Rust functions, which follow a type that
nests finitely (`ParamsAssumption`), and induction on data to define an operator is beyond
these provers.

## Not modelled

* `keccak256` (alloy's hash, nothing around it), JSON and type-string syntax, alloy's
  offsets and padding, the text of error messages.
* The results of foreign futures (`ambire_crypto.cpp:729-1530`): conversions of twelve
  result records and of the callbacks that complete them, with no state of their own,
  reached only from callback interfaces, of which the crate has none. `RustCallStatus::fromJs` and `copyFromJs`
  belong to them.
* The vtable registry (`ambire_crypto.cpp:417-465`): `putTable` is never called, so there
  is nothing in it to clear. `unregisterModule` and `cleanupRustCrate` have no caller in
  the package, and the host object's `set` (which stores the address of its argument) none
  either: no generated code assigns to a property of the global.
* What a torn read of `rsLambda` may do when a destructor races a callback: the model has
  the two outcomes of the race that leave the `std::function` whole, the call made and
  the empty call thrown. A third would end the process as the second does.
* CI's lint, type check and Rust tests, and the rest of the build configuration, which
  is declarative.

## Plan

Done, in this order: the bridge with its proofs, the implementation against viem, the
bindings with their boot check, the abstract specification of lending with its proof,
installation and callbacks with their proofs, generate and release; then the proofs of
`Release`, of the wire format of errors, of the functions on hex and addresses, and of the
ABI functions against viem. Every property of a passing run is a theorem, but for the one
liveness property.

Next:

1. The liveness of a woken future rests on facts that are not temporal, and can be proved
   as such: a call in a runtime's queue stays there until it runs or the runtime ends.
2. Compound arguments that viem takes and the native code declines: `ScalarArgumentsServed`
   and its theorem for arrays and tuples, once it is settled which JavaScript values viem
   takes for them beyond what the tests of the crate say.
