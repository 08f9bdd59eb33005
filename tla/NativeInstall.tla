--------------------------- MODULE NativeInstall ---------------------------
(***************************************************************************)
(* How the package gets into a JavaScript runtime, and out of it.          *)
(*                                                                         *)
(* Evaluating src/index.ts asks the turbo module to install the crate,     *)
(* which puts a host object in the global NativeAmbireCrypto, and then     *)
(* checks that the bindings in the bundle and the library agree.  A host   *)
(* object lives until the garbage collector or the end of its runtime      *)
(* destroys it; its destructor empties the callback slots, which are of    *)
(* the process (CallbackSlots).  A reload starts a runtime while the old   *)
(* one is still ending; Metro may also evaluate index.ts again in the same *)
(* runtime, for instance when the generated bindings change beneath it.    *)
(***************************************************************************)
EXTENDS CallbackSlots, FiniteSets

CONSTANTS
    Library,        \* what the native library exports, as an interface (below)
    Bundles,        \* the interfaces that bundles of the app were generated from
    MaxEvaluations, \* Bound: evaluations of index.ts in a process
    MaxOwed         \* Bound: callbacks Rust has a pointer to

(* An interface: the version of the uniffi contract, and the checksum of each
   exported function. *)
ASSUME InstallAssumption == MaxEvaluations \in Nat /\ MaxOwed \in Nat

VARIABLES
    build,      \* the build of the app that runs (fixed)
    js,         \* the runtimes, see NewRuntime
    evaluations,\* how often index.ts was evaluated, for the bound
    destroyed   \* the host objects whose destructor has run

vars == <<build, js, evaluations, destroyed, rsLambda, owed>>

---------------------------------------------------------------------------

\* hasLibrary: the package holds a library for the device.  async: the crate exports an
\* async function, which is when the callback code comes to life; today's does not.
Builds == [platform : {"android", "ios"}, hasLibrary : BOOLEAN, async : BOOLEAN]

(* The host object *)

StringHelpers == {"string_to_byte_length", "string_to_buffer", "string_from_buffer",
                  "read_string_from_buffer"}
BufferHelpers == {"rustbuffer_alloc", "rustbuffer_free"}

\* The constructor's table, from JavaScript names to host functions.
helperProps == {<<"helper", h>> : h \in StringHelpers}
functionProps == {<<"fn", f>> : f \in DOMAIN Library.functions}
checksumProps == {<<"checksum", f>> : f \in DOMAIN Library.functions}
contractProps == {<<"contract", "version">>}
bufferProps == {<<"rustbuffer", h>> : h \in BufferHelpers}

\* The slip: the functions are declared and checked, and left out of the table.
propsWithoutFunctions == helperProps \cup checksumProps \cup contractProps \cup bufferProps

props == helperProps \cup functionProps \cup checksumProps \cup contractProps \cup bufferProps

\* Reading a name that is not in the table gives undefined, and calling that throws.
get(name) == name \in props

\* The names that the bindings of a bundle call.
Called(b) ==
    {<<"fn", f>> : f \in DOMAIN b.functions}
        \cup {<<"helper", h>> : h \in StringHelpers}
        \cup {<<"rustbuffer", h>> : h \in BufferHelpers}

\* made: the host objects registerModule has made; the global holds the last.
\* rustInstalled, initialized: the flags of index.ts.  loaded: the bundles whose
\* index.ts came to its end; their code runs from then on.
NewRuntime ==
    [status |-> "none", thread |-> "free", evaluating |-> Library,
     rustInstalled |-> FALSE, initialized |-> FALSE, loaded |-> {}, made |-> 0]

Objects(r) == {<<r, n>> : n \in 1 .. js[r].made}

\* The global of that name, if any.
NativeAmbireCrypto(r) == <<r, js[r].made>>

\* The destructor of a host object empties the slots, whoever filled them.
Destroy(objects) ==
    /\ destroyed' = destroyed \cup objects
    /\ rsLambda' = IF objects \subseteq destroyed THEN rsLambda ELSE cleanup

---------------------------------------------------------------------------

Init ==
    /\ build \in Builds
    /\ js = [r \in Runtimes |-> NewRuntime]
    /\ evaluations = 0
    /\ destroyed = {}
    /\ SlotsInit

Set(r, field, value) == js' = [js EXCEPT ![r][field] = value]

\* With the process everything goes, and no destructor runs; the app is started again.
ProcessDies ==
    /\ js' = [r \in Runtimes |-> NewRuntime]
    /\ evaluations' = 0
    /\ destroyed' = {}
    /\ rsLambda' = cleanup
    /\ owed' = [s \in Slots |-> [r \in Runtimes |-> At("none")]]
    /\ UNCHANGED build

---------------------------------------------------------------------------
(* React Native *)

StartRuntime(r) ==
    /\ js[r].status = "none"
    /\ Set(r, "status", "live")
    /\ UNCHANGED <<build, evaluations, destroyed, rsLambda, owed>>

\* Another thread starts to take the instance down; JavaScript may still be running.
BeginTeardown(r) ==
    /\ js[r].status = "live"
    /\ Set(r, "status", "ending")
    /\ UNCHANGED <<build, evaluations, destroyed, rsLambda, owed>>

\* The runtime is destroyed between two tasks, and every host object of its with it.
EndTeardown(r) ==
    /\ js[r].status = "ending"
    /\ js[r].thread = "free"
    /\ js' = [js EXCEPT ![r] = [NewRuntime EXCEPT !.status = "dead", !.made = js[r].made]]
    /\ Destroy(Objects(r))
    /\ owed' = Forget(r)
    /\ UNCHANGED <<build, evaluations>>

\* The garbage collector finds a host object that a later one has replaced.
Collect(r) ==
    /\ js[r].status \in {"live", "ending"}
    /\ \E o \in Objects(r) \ (destroyed \cup {NativeAmbireCrypto(r)}) : Destroy({o})
    /\ UNCHANGED <<build, js, evaluations, owed>>

---------------------------------------------------------------------------
(* Evaluating src/index.ts *)

Available(r) == js[r].status \in {"live", "ending"} /\ js[r].thread = "free"

CanEvaluate(r) ==
    js[r].status = "live" /\ js[r].thread = "free" /\ evaluations < MaxEvaluations

\* The slip the comments suggest: flags that outlive a reload of the module.
EvaluateKeepingFlags(r) ==
    /\ CanEvaluate(r)
    /\ \E b \in Bundles :
        js' = [js EXCEPT ![r].evaluating = b,
                         ![r].thread = IF build.hasLibrary THEN "install" ELSE "free"]
    /\ evaluations' = evaluations + 1
    /\ UNCHANGED <<build, destroyed, rsLambda, owed>>

\* The import of the turbo module throws if there is none: the class cannot be
\* initialised without the library.  The flags are variables of the module, so each
\* evaluation has its own.
Evaluate(r) ==
    /\ CanEvaluate(r)
    /\ \E b \in Bundles :
        js' = [js EXCEPT ![r].evaluating = b,
                         ![r].rustInstalled = FALSE, ![r].initialized = FALSE,
                         ![r].thread = IF build.hasLibrary THEN "install" ELSE "free"]
    /\ evaluations' = evaluations + 1
    /\ UNCHANGED <<build, destroyed, rsLambda, owed>>

\* The pointer to the runtime.  The instance that is being taken down has cleared the
\* holder Android reads; iOS is handed the runtime it is called from.
runtimePointer(r) ==
    IF build.platform = "android" /\ js[r].status = "ending" THEN nullptr ELSE r

\* The slip: what unregisterModule was meant for, when the next one stands up.
registerModuleClears(r) ==
    /\ js' = [js EXCEPT ![r].made = @ + 1, ![r].rustInstalled = TRUE, ![r].thread = "initialize"]
    /\ rsLambda' = cleanup
    /\ UNCHANGED <<build, evaluations, destroyed, owed>>

\* A new host object, whatever the global holds.
registerModule(r) ==
    /\ js' = [js EXCEPT ![r].made = @ + 1, ![r].rustInstalled = TRUE, ![r].thread = "initialize"]
    /\ UNCHANGED <<build, evaluations, destroyed, rsLambda, owed>>

installRustCrate(r) ==
    /\ js[r].thread = "install"
    /\ \/ js[r].rustInstalled
          /\ Set(r, "thread", "initialize")
          /\ UNCHANGED <<build, evaluations, destroyed, rsLambda, owed>>
       \/ ~js[r].rustInstalled /\ runtimePointer(r) = nullptr /\ ProcessDies
       \/ ~js[r].rustInstalled /\ runtimePointer(r) # nullptr /\ registerModule(r)

\* What the host functions behind the table answer to the boot check.
uniffi_contract_version == Library.contract
checksum_func(f) == Library.functions[f]

\* Does uniffiEnsureInitialized return?  It calls what the host object lists.
uniffiEnsureInitialized(b) ==
    /\ b.contract = uniffi_contract_version
    /\ \A f \in DOMAIN b.functions :
        get(<<"checksum", f>>) /\ b.functions[f] = checksum_func(f)

\* The slip: a check that fails is tried again until it holds.
initializeRetries(r) ==
    LET b == js[r].evaluating IN
    /\ js[r].thread = "initialize"
    /\ js' = IF js[r].initialized \/ uniffiEnsureInitialized(b)
             THEN [js EXCEPT ![r].thread = "free", ![r].initialized = TRUE,
                             ![r].evaluating = Library, ![r].loaded = @ \cup {b}]
             ELSE js
    /\ UNCHANGED <<build, evaluations, destroyed, rsLambda, owed>>

\* Otherwise it throws, and so does the import of index.ts: the app goes on without it.
initialize(r) ==
    LET b == js[r].evaluating IN
    /\ js[r].thread = "initialize"
    /\ js' = IF js[r].initialized \/ uniffiEnsureInitialized(b)
             THEN [js EXCEPT ![r].thread = "free", ![r].initialized = TRUE,
                             ![r].evaluating = Library, ![r].loaded = @ \cup {b}]
             ELSE [js EXCEPT ![r].thread = "free", ![r].evaluating = Library]
    /\ UNCHANGED <<build, evaluations, destroyed, rsLambda, owed>>

---------------------------------------------------------------------------
(* Futures: the code of a loaded bundle waits for Rust, once the crate is async *)

FutureStep == UNCHANGED <<build, js, evaluations, destroyed>>

CanOwe(r) ==
    /\ build.async
    /\ Available(r)
    /\ js[r].loaded # {}
    /\ Cardinality({w \in Slots \X Runtimes : owed[w[1]][w[2]].at # "none"}) < MaxOwed

\* rust_future_poll is given uniffiFutureContinuationCallback.
PollFuture(r) ==
    CanOwe(r) /\ fromJsCallback("continuation", r) /\ FutureStep

\* Rust is given a foreign future, with what to call when it is dropped.
PassForeignFuture(r) ==
    CanOwe(r) /\ fromJsCallback("dropped", r) /\ FutureStep

FutureWakes(r) == callback("continuation", r) /\ FutureStep
FutureDropped(r) == callback("dropped", r) /\ FutureStep

WakeUpQueued(r) == invokeNonBlocking("continuation", r) /\ FutureStep
DropQueued(r) == invokeNonBlocking("dropped", r) /\ FutureStep

\* An exception that no frame of Rust's can handle.
CallbackThrows(r) == (\E s \in Slots : CallsEmptySlot(s, r)) /\ ProcessDies

\* A queued task waits until its runtime is between two others.
WakeUpRuns(r) ==
    body("continuation", r) /\ Available(owed["continuation"][r].to) /\ FutureStep
DropRuns(r) ==
    body("dropped", r) /\ Available(owed["dropped"][r].to) /\ FutureStep

---------------------------------------------------------------------------

Loading(r) == Evaluate(r) \/ installRustCrate(r) \/ initialize(r)

Waiting(r) ==
    \/ PollFuture(r) \/ FutureWakes(r) \/ WakeUpQueued(r) \/ WakeUpRuns(r)
    \/ PassForeignFuture(r) \/ FutureDropped(r) \/ DropQueued(r) \/ DropRuns(r)
    \/ CallbackThrows(r)

Environment(r) == StartRuntime(r) \/ BeginTeardown(r) \/ EndTeardown(r) \/ Collect(r)

Next ==
    \/ \E r \in Runtimes : Loading(r) \/ Waiting(r) \/ Environment(r)
    \/ ProcessDies

\* A thread that is in the middle of something goes on: JavaScript to the end of its
\* task, and to its next task; Rust out of a callback it has begun.  Nothing is owed by
\* the environment, nor by Rust before a future makes progress.
Fairness ==
    \A r \in Runtimes :
        /\ WF_vars(installRustCrate(r) \/ initialize(r))
        /\ WF_vars(WakeUpQueued(r)) /\ WF_vars(WakeUpRuns(r))
        /\ WF_vars(DropQueued(r)) /\ WF_vars(DropRuns(r))

Spec == Init /\ [][Next]_vars /\ Fairness

---------------------------------------------------------------------------
(* Properties *)

TypeOK ==
    /\ build \in Builds
    /\ \A r \in Runtimes :
        /\ js[r].status \in {"none", "live", "ending", "dead"}
        /\ js[r].thread \in {"free", "install", "initialize"}
        /\ js[r].evaluating \in Bundles \cup {Library}
        /\ js[r].loaded \subseteq Bundles
        /\ js[r].rustInstalled \in BOOLEAN /\ js[r].initialized \in BOOLEAN
        /\ js[r].made \in 0 .. MaxEvaluations
    /\ evaluations \in 0 .. MaxEvaluations
    /\ destroyed \subseteq UNION {Objects(r) : r \in Runtimes}
    /\ SlotsTypeOK

\* Whatever was evaluated before, in however many reloads, code that runs was generated
\* for this library and finds each function it calls: an evaluation that fails leaves the
\* code of the earlier ones running against the new host object.
LoadedCodeFitsTheLibrary ==
    \A r \in Runtimes : \A b \in js[r].loaded :
        /\ uniffiEnsureInitialized(b)
        /\ NativeAmbireCrypto(r) \in Objects(r)
        /\ \A name \in Called(b) : get(name)

\* No slot holds a lambda that would call into a runtime that is gone: the destructor of
\* its host objects has emptied it, also when another runtime filled it in between.
SlotsOutliveNoRuntime ==
    \A s \in Slots : rsLambda[s] # nullptr => js[rsLambda[s]].status \in {"live", "ending"}

\* Another runtime has installed the crate, or a host object was destroyed.
Shared == destroyed # {} \/ \E q, r \in Runtimes : q # r /\ js[q].made > 0 /\ js[r].made > 0

\* While one runtime has the slots to itself and no host object was replaced and
\* collected, what Rust calls back on is the lambda of the runtime that waits, so that no
\* future is forgotten: also across evaluations that fail, and while the runtime is being
\* taken down.
AloneNothingIsLost ==
    ~Shared =>
        \A s \in Slots, r \in Runtimes :
            /\ owed[s][r].at # "lost"
            /\ owed[s][r].at \in {"waiting", "checked"} => rsLambda[s] = r

\* A wake-up Rust has begun comes to the JavaScript that waits for it, unless its runtime
\* is taken down or the slots were shared: whatever evaluations its thread is in the
\* middle of, they end, also those that fail.
WokenFuturesResume ==
    \A s \in Slots, r \in Runtimes :
        owed[s][r].at \in {"checked", "queued"}
            ~> owed[s][r].at = "none" \/ Shared \/ js[r].status # "live"

\* "This method is called from the destructor of NativeAmbireCrypto, which only happens
\* when the jsi::Runtime is being destroyed", says the comment on cleanup.  It happens
\* while the runtime and its futures go on, once a second evaluation replaced the object.
DestroyedWithTheirRuntime == \A o \in destroyed : js[o[1]].status \in {"ending", "dead"}

===========================================================================
