------------------------ MODULE NativeInstallProofs ------------------------
(***************************************************************************)
(* What holds of loading and of the callback slots for any number of       *)
(* runtimes, whatever the library exports and whatever bundles there are.  *)
(*                                                                         *)
(* None of the three properties is inductive.  That a slot outlives no     *)
(* runtime needs that a runtime which could fill it has a host object      *)
(* whose destructor is still to come; that loaded code finds what it calls *)
(* needs that a failed evaluation leaves an object in the global.          *)
(***************************************************************************)
EXTENDS NativeInstall, TLAPS

---------------------------------------------------------------------------
(* The inductive invariant *)

Alive == {"live", "ending"}

Runtime ==
    [status : {"none", "live", "ending", "dead"},
     thread : {"free", "install", "initialize"},
     evaluating : Bundles \cup {Library},
     rustInstalled : BOOLEAN, initialized : BOOLEAN,
     loaded : SUBSET Bundles, made : Nat]

TypeInv ==
    /\ build \in Builds
    /\ js \in [Runtimes -> Runtime]
    /\ evaluations \in Nat /\ evaluations <= MaxEvaluations
    /\ destroyed \subseteq UNION {Objects(r) : r \in Runtimes}
    /\ SlotsTypeOK

\* An evaluation makes one host object at most.
CountInv(r) ==
    js[r].made + (IF js[r].thread = "install" THEN 1 ELSE 0) <= evaluations

\* An evaluation that is under way began with new flags, and has a host object once it
\* is past the install.
EvaluatingInv(r) ==
    /\ js[r].thread # "free" =>
        /\ js[r].status \in Alive
        /\ js[r].evaluating \in Bundles
        /\ ~js[r].initialized
    /\ js[r].thread = "install" => ~js[r].rustInstalled
    /\ js[r].thread = "initialize" => js[r].made > 0

\* Code runs in a runtime that is alive, has an object, and fits.
LoadedInv(r) ==
    js[r].loaded # {} =>
        /\ js[r].status \in Alive
        /\ js[r].made > 0
        /\ \A b \in js[r].loaded : uniffiEnsureInitialized(b)

\* The object in the global goes last.
GlobalInv(r) ==
    /\ js[r].status = "none" => js[r].made = 0
    /\ js[r].status \in Alive => NativeAmbireCrypto(r) \notin destroyed

RuntimeInv(r) == CountInv(r) /\ EvaluatingInv(r) /\ LoadedInv(r) /\ GlobalInv(r)

\* Who fills a slot has an object that will empty it.
SlotInv ==
    \A s \in Slots : rsLambda[s] # nullptr =>
        js[rsLambda[s]].status \in Alive /\ js[rsLambda[s]].made > 0

\* Alone, a callback goes to where it is waited for.
AloneInv ==
    ~Shared =>
        \A s \in Slots, r \in Runtimes :
            owed[s][r].at # "none" =>
                /\ owed[s][r].at # "lost"
                /\ rsLambda[s] = r
                /\ owed[s][r].at = "queued" => owed[s][r].to = r

Inv == TypeInv /\ (\A r \in Runtimes : RuntimeInv(r)) /\ SlotInv /\ AloneInv

---------------------------------------------------------------------------
(* What the invariant says *)

\* The table holds a checksum for each function it holds, and for no other.
LEMMA ChecksumsAreOfFunctions ==
    ASSUME NEW f, get(<<"checksum", f>>)
    PROVE  get(<<"fn", f>>)
BY DEF get, props, helperProps, functionProps, checksumProps, contractProps, bufferProps

\* Bindings that pass the boot check find every host function they call.
LEMMA CheckedBindingsFindWhatTheyCall ==
    ASSUME NEW b, uniffiEnsureInitialized(b)
    PROVE  \A name \in Called(b) : get(name)
<1>1. \A f \in DOMAIN b.functions : get(<<"fn", f>>)
  BY ChecksumsAreOfFunctions DEF uniffiEnsureInitialized
<1>2. /\ \A h \in StringHelpers : get(<<"helper", h>>)
      /\ \A h \in BufferHelpers : get(<<"rustbuffer", h>>)
  BY DEF get, props, helperProps, bufferProps
<1> QED BY <1>1, <1>2 DEF Called

\* The invariant implies the three properties and the types.
LEMMA InvIsEnough ==
    ASSUME Inv
    PROVE  /\ TypeOK
           /\ LoadedCodeFitsTheLibrary
           /\ SlotsOutliveNoRuntime
           /\ AloneNothingIsLost
<1>1. TypeOK
  <2>1. \A r \in Runtimes : js[r].made \in 0 .. MaxEvaluations
    <3> TAKE r \in Runtimes
    <3>1. js[r].made \in Nat /\ evaluations \in Nat /\ evaluations <= MaxEvaluations
      BY DEF Inv, TypeInv, Runtime
    <3>2. js[r].made <= evaluations
      BY <3>1 DEF Inv, RuntimeInv, CountInv
    <3> QED BY <3>1, <3>2, InstallAssumption
  <2> QED BY <2>1, InstallAssumption DEF Inv, TypeInv, TypeOK, Runtime
<1>2. LoadedCodeFitsTheLibrary
  <2>1. \A r \in Runtimes : js[r].loaded # {} => NativeAmbireCrypto(r) \in Objects(r)
    BY DEF Inv, TypeInv, Runtime, RuntimeInv, LoadedInv, NativeAmbireCrypto, Objects
  <2> QED BY <2>1, CheckedBindingsFindWhatTheyCall
          DEF LoadedCodeFitsTheLibrary, Inv, RuntimeInv, LoadedInv
<1>3. SlotsOutliveNoRuntime
  BY DEF SlotsOutliveNoRuntime, Inv, SlotInv, Alive
<1>4. AloneNothingIsLost
  BY DEF AloneNothingIsLost, Inv, AloneInv
<1> QED BY <1>1, <1>2, <1>3, <1>4

---------------------------------------------------------------------------
(* Steps of one runtime, with the slots and the destructors at rest *)

\* What a step leaves alone of another runtime, its invariant survives.
LEMMA OtherRuntime ==
    ASSUME Inv, NEW q \in Runtimes, RuntimeInv(q), js'[q] = js[q],
           evaluations' \in Nat, evaluations <= evaluations',
           NativeAmbireCrypto(q) \in destroyed' => NativeAmbireCrypto(q) \in destroyed
    PROVE  RuntimeInv(q)'
<1>1. js[q].made \in Nat /\ evaluations \in Nat
  BY DEF Inv, TypeInv, Runtime
<1>2. CountInv(q)'
  BY <1>1 DEF RuntimeInv, CountInv
<1>3. EvaluatingInv(q)' /\ LoadedInv(q)'
  BY DEF RuntimeInv, EvaluatingInv, LoadedInv
<1>4. NativeAmbireCrypto(q)' = NativeAmbireCrypto(q)
  BY DEF NativeAmbireCrypto
<1>5. GlobalInv(q)'
  BY <1>4 DEF RuntimeInv, GlobalInv
<1> QED BY <1>2, <1>3, <1>5 DEF RuntimeInv

\* A runtime that goes on, and makes host objects but loses none.
LEMMA RuntimeStep ==
    ASSUME Inv, NEW r \in Runtimes, NEW new \in Runtime,
           js' = [js EXCEPT ![r] = new],
           new.made >= js[r].made,
           js[r].status \in Alive => new.status \in Alive,
           evaluations' \in Nat, evaluations <= evaluations', evaluations' <= MaxEvaluations,
           UNCHANGED <<build, destroyed, rsLambda, owed>>,
           RuntimeInv(r)'
    PROVE  Inv'
<1>1. /\ js' \in [Runtimes -> Runtime] /\ js'[r] = new
      /\ \A q \in Runtimes : q # r => js'[q] = js[q]
  BY DEF Inv, TypeInv
<1>2. \A q \in Runtimes : js[q].made \in Nat /\ js'[q].made \in Nat /\ js[q].made <= js'[q].made
  BY <1>1 DEF Inv, TypeInv, Runtime
<1>3. TypeInv'
  <2>1. \A q \in Runtimes : Objects(q) \subseteq Objects(q)'
    BY <1>2 DEF Objects
  <2>2. destroyed' \subseteq UNION {Objects(q)' : q \in Runtimes}
    BY <2>1 DEF Inv, TypeInv
  <2>3. SlotsTypeOK'
    BY DEF Inv, TypeInv, SlotsTypeOK
  <2> QED BY <1>1, <2>2, <2>3 DEF Inv, TypeInv
<1>4. \A q \in Runtimes : RuntimeInv(q)'
  <2>1. ASSUME NEW q \in Runtimes, q # r
        PROVE  RuntimeInv(q)'
    BY <1>1, <2>1, OtherRuntime DEF Inv
  <2> QED BY <2>1
<1>5. SlotInv'
  <2>1. ASSUME NEW s \in Slots, rsLambda[s] # nullptr
        PROVE  js'[rsLambda[s]].status \in Alive /\ js'[rsLambda[s]].made > 0
    <3>1. /\ rsLambda[s] \in Runtimes
          /\ js[rsLambda[s]].status \in Alive /\ js[rsLambda[s]].made > 0
      BY <2>1 DEF Inv, TypeInv, SlotsTypeOK, SlotInv
    <3> QED BY <1>1, <1>2, <3>1
  <2> QED BY <2>1 DEF SlotInv
<1>6. Shared => Shared'
  BY <1>2 DEF Shared
<1>7. AloneInv'
  BY <1>6 DEF Inv, AloneInv
<1> QED BY <1>3, <1>4, <1>5, <1>7 DEF Inv

\* A runtime starts, or begins to be taken down.
LEMMA StatusKeeps ==
    ASSUME Inv, NEW r \in Runtimes, StartRuntime(r) \/ BeginTeardown(r)
    PROVE  Inv'
<1>1. PICK status \in Alive :
        js' = [js EXCEPT ![r].status = status]
  BY DEF StartRuntime, BeginTeardown, Set, Alive
<1> DEFINE new == [js[r] EXCEPT !.status = status]
<1>2. js[r] \in Runtime /\ RuntimeInv(r) /\ js[r].status \in {"none", "live"}
  BY DEF Inv, TypeInv, StartRuntime, BeginTeardown
<1>3. /\ new \in Runtime /\ js' = [js EXCEPT ![r] = new] /\ js'[r] = new
      /\ new.made = js[r].made /\ new.thread = js[r].thread /\ new.loaded = js[r].loaded
      /\ new.evaluating = js[r].evaluating /\ new.initialized = js[r].initialized
      /\ new.rustInstalled = js[r].rustInstalled /\ new.status = status
  BY <1>1, <1>2 DEF Runtime, Alive, Inv, TypeInv
<1>4. UNCHANGED <<build, evaluations, destroyed, rsLambda, owed>>
  BY DEF StartRuntime, BeginTeardown
<1>5. EvaluatingInv(r)' /\ LoadedInv(r)' /\ CountInv(r)'
  BY <1>2, <1>3, <1>4 DEF RuntimeInv, EvaluatingInv, LoadedInv, CountInv
<1>6. NativeAmbireCrypto(r) \notin destroyed
  <2>1. CASE js[r].status = "none"
    BY <1>2, <2>1 DEF RuntimeInv, GlobalInv, NativeAmbireCrypto, Inv, TypeInv, Objects
  <2>2. CASE js[r].status = "live"
    BY <1>2, <2>2 DEF RuntimeInv, GlobalInv, Alive
  <2> QED BY <1>2, <2>1, <2>2
<1> HIDE DEF new
<1>7. NativeAmbireCrypto(r)' = NativeAmbireCrypto(r)
  BY <1>3 DEF NativeAmbireCrypto
<1>8. GlobalInv(r)'
  BY <1>3, <1>4, <1>6, <1>7 DEF GlobalInv, Alive
<1>9. RuntimeInv(r)'
  BY <1>5, <1>8 DEF RuntimeInv
<1>10. /\ evaluations' \in Nat /\ evaluations <= evaluations'
       /\ evaluations' <= MaxEvaluations
       /\ new.made >= js[r].made
  BY <1>3, <1>4 DEF Inv, TypeInv, Runtime
<1> QED BY <1>3, <1>4, <1>9, <1>10, RuntimeStep

\* What RuntimeStep asks of a runtime r that goes on from js[r] to new.
GoesOn(r, new) ==
    /\ new \in Runtime
    /\ js' = [js EXCEPT ![r] = new]
    /\ new.status = js[r].status
    /\ evaluations' \in Nat /\ evaluations <= evaluations' /\ evaluations' <= MaxEvaluations
    /\ UNCHANGED <<build, destroyed, rsLambda, owed>>

\* A step of the evaluation in r, which lives and has not destroyed its object.
LEMMA EvaluationStep ==
    ASSUME Inv, NEW r \in Runtimes, NEW new, GoesOn(r, new),
           js[r].status \in Alive,
           \/ new.made = js[r].made
           \/ new.made = js[r].made + 1,
           CountInv(r)', EvaluatingInv(r)', LoadedInv(r)'
    PROVE  Inv'
<1>1. js'[r] = new /\ js[r].made \in Nat
  BY DEF GoesOn, Inv, TypeInv, Runtime
<1>2. NativeAmbireCrypto(r)' \notin destroyed
  <2>1. CASE new.made = js[r].made
    BY <1>1, <2>1 DEF Inv, RuntimeInv, GlobalInv, NativeAmbireCrypto
  <2>2. CASE new.made = js[r].made + 1
    <3>1. NativeAmbireCrypto(r)' = <<r, js[r].made + 1>>
      BY <1>1, <2>2 DEF NativeAmbireCrypto
    <3>2. \A q \in Runtimes : <<r, js[r].made + 1>> \notin Objects(q)
      BY <1>1 DEF Objects
    <3> QED BY <3>1, <3>2 DEF Inv, TypeInv
  <2> QED BY <2>1, <2>2
<1>3. GlobalInv(r)'
  BY <1>1, <1>2 DEF GlobalInv, GoesOn, Alive
<1>4. RuntimeInv(r)'
  BY <1>3 DEF RuntimeInv
<1>5. new.made >= js[r].made
  BY <1>1
<1> QED BY <1>4, <1>5, RuntimeStep DEF GoesOn

\* index.ts begins.
LEMMA EvaluateKeeps ==
    ASSUME Inv, NEW r \in Runtimes, Evaluate(r)
    PROVE  Inv'
<1>1. PICK b \in Bundles :
        js' = [js EXCEPT ![r].evaluating = b,
                         ![r].rustInstalled = FALSE, ![r].initialized = FALSE,
                         ![r].thread = IF build.hasLibrary THEN "install" ELSE "free"]
  BY DEF Evaluate
<1> DEFINE thread == IF build.hasLibrary THEN "install" ELSE "free"
           new == [js[r] EXCEPT !.evaluating = b, !.rustInstalled = FALSE,
                                !.initialized = FALSE, !.thread = thread]
<1>2. js[r] \in Runtime /\ RuntimeInv(r) /\ js[r].status = "live" /\ js[r].thread = "free"
  BY DEF Inv, TypeInv, Evaluate, CanEvaluate
<1>3. /\ new \in Runtime /\ js' = [js EXCEPT ![r] = new] /\ js'[r] = new
      /\ new.status = js[r].status /\ new.made = js[r].made /\ new.loaded = js[r].loaded
      /\ new.thread \in {"free", "install"} /\ new.evaluating \in Bundles
      /\ ~new.initialized /\ ~new.rustInstalled
  BY <1>1, <1>2 DEF Runtime, Inv, TypeInv
<1> HIDE DEF new
<1>4. evaluations \in Nat /\ evaluations' = evaluations + 1 /\ evaluations' <= MaxEvaluations
  BY InstallAssumption DEF Evaluate, CanEvaluate, Inv, TypeInv
<1>5. GoesOn(r, new)
  <2>1. UNCHANGED <<build, destroyed, rsLambda, owed>> /\ evaluations' \in Nat
    BY <1>4 DEF Evaluate
  <2>2. evaluations <= evaluations'
    BY <1>4
  <2> QED BY <1>3, <1>4, <2>1, <2>2 DEF GoesOn
<1>6. CountInv(r)'
  <2>1. js[r].made <= evaluations /\ js[r].made \in Nat
    BY <1>2 DEF RuntimeInv, CountInv, Runtime
  <2> QED BY <1>3, <1>4, <2>1 DEF CountInv
<1>7. EvaluatingInv(r)' /\ LoadedInv(r)'
  BY <1>2, <1>3 DEF RuntimeInv, EvaluatingInv, LoadedInv, Alive
<1>8. js[r].status \in Alive
  BY <1>2 DEF Alive
<1> QED BY <1>3, <1>5, <1>6, <1>7, <1>8, EvaluationStep

\* The crate is installed, in a new host object.
LEMMA RegisterKeeps ==
    ASSUME Inv, NEW r \in Runtimes, js[r].thread = "install", registerModule(r)
    PROVE  Inv'
<1> DEFINE new == [js[r] EXCEPT !.made = @ + 1, !.rustInstalled = TRUE,
                                !.thread = "initialize"]
<1>1. js[r] \in Runtime /\ RuntimeInv(r) /\ js[r].made \in Nat
  BY DEF Inv, TypeInv, Runtime
<1>2. /\ new \in Runtime /\ js' = [js EXCEPT ![r] = new] /\ js'[r] = new
      /\ new.status = js[r].status /\ new.made = js[r].made + 1 /\ new.loaded = js[r].loaded
      /\ new.thread = "initialize" /\ new.evaluating = js[r].evaluating
      /\ new.initialized = js[r].initialized
  BY <1>1 DEF registerModule, Runtime, Inv, TypeInv
<1> HIDE DEF new
<1>3. GoesOn(r, new)
  <2>1. UNCHANGED <<build, evaluations, destroyed, rsLambda, owed>>
    BY DEF registerModule
  <2>2. evaluations \in Nat /\ evaluations <= MaxEvaluations
    BY DEF Inv, TypeInv
  <2>3. evaluations <= evaluations' /\ evaluations' \in Nat /\ evaluations' <= MaxEvaluations
    BY <2>1, <2>2
  <2> QED BY <1>2, <2>1, <2>3 DEF GoesOn
<1>4. CountInv(r)'
  BY <1>1, <1>2 DEF RuntimeInv, CountInv, registerModule
<1>5. EvaluatingInv(r)' /\ LoadedInv(r)' /\ js[r].status \in Alive
  BY <1>1, <1>2 DEF RuntimeInv, EvaluatingInv, LoadedInv
<1> QED BY <1>2, <1>3, <1>4, <1>5, EvaluationStep

\* index.ts comes to its end, or throws.
LEMMA InitializeKeeps ==
    ASSUME Inv, NEW r \in Runtimes, initialize(r)
    PROVE  Inv'
<1> DEFINE b == js[r].evaluating
           fits == uniffiEnsureInitialized(b)
           done == [js[r] EXCEPT !.thread = "free", !.initialized = TRUE,
                                 !.evaluating = Library, !.loaded = @ \cup {b}]
           thrown == [js[r] EXCEPT !.thread = "free", !.evaluating = Library]
           new == IF fits THEN done ELSE thrown
<1>1. /\ js[r] \in Runtime /\ RuntimeInv(r) /\ js[r].thread = "initialize"
      /\ js[r].status \in Alive /\ b \in Bundles /\ ~js[r].initialized /\ js[r].made > 0
  BY DEF Inv, TypeInv, initialize, RuntimeInv, EvaluatingInv
<1>2. new \in Runtime
  BY <1>1 DEF Runtime
<1>3. js' = [js EXCEPT ![r] = new]
  BY <1>1 DEF initialize, Inv, TypeInv
<1>4. /\ js'[r] = new /\ new.status = js[r].status /\ new.made = js[r].made
      /\ new.thread = "free"
      /\ new.loaded = IF fits THEN js[r].loaded \cup {b} ELSE js[r].loaded
  BY <1>1, <1>3 DEF Runtime, Inv, TypeInv
<1> HIDE DEF new
<1>5. GoesOn(r, new)
  <2>1. UNCHANGED <<build, evaluations, destroyed, rsLambda, owed>>
    BY DEF initialize
  <2>2. evaluations \in Nat /\ evaluations <= MaxEvaluations
    BY DEF Inv, TypeInv
  <2>3. evaluations <= evaluations' /\ evaluations' \in Nat /\ evaluations' <= MaxEvaluations
    BY <2>1, <2>2
  <2> QED BY <1>2, <1>3, <1>4, <2>1, <2>3 DEF GoesOn
<1>6. CountInv(r)'
  BY <1>1, <1>4 DEF RuntimeInv, CountInv, initialize
<1>7. EvaluatingInv(r)'
  BY <1>4 DEF EvaluatingInv
<1>8. LoadedInv(r)'
  BY <1>1, <1>4 DEF RuntimeInv, LoadedInv
<1> QED BY <1>1, <1>4, <1>5, <1>6, <1>7, <1>8, EvaluationStep

---------------------------------------------------------------------------
(* Crashes and destructors *)

\* The app that is started again is like new.
LEMMA DeathKeeps ==
    ASSUME Inv, ProcessDies
    PROVE  Inv'
<1>1. NewRuntime \in Runtime
  BY DEF NewRuntime, Runtime
<1>2. /\ \A r \in Runtimes : js'[r] = NewRuntime
      /\ js' \in [Runtimes -> Runtime]
      /\ evaluations' = 0 /\ destroyed' = {} /\ build' = build
  BY <1>1 DEF ProcessDies
<1>3. /\ rsLambda' = [s \in Slots |-> nullptr]
      /\ owed' = [s \in Slots |-> [r \in Runtimes |-> At("none")]]
  BY DEF ProcessDies, cleanup
<1>4. SlotsTypeOK'
  BY <1>3 DEF SlotsTypeOK, Owed, At
<1>5. TypeInv'
  BY <1>2, <1>4, InstallAssumption DEF Inv, TypeInv
<1>6. ASSUME NEW r \in Runtimes
      PROVE  RuntimeInv(r)'
  <2>1. js'[r] = NewRuntime
    BY <1>2
  <2>2. CountInv(r)' /\ EvaluatingInv(r)' /\ LoadedInv(r)'
    BY <1>2, <2>1 DEF CountInv, EvaluatingInv, LoadedInv, NewRuntime
  <2>3. GlobalInv(r)'
    BY <1>2, <2>1 DEF GlobalInv, NewRuntime, Alive
  <2> QED BY <2>2, <2>3 DEF RuntimeInv
<1>7. SlotInv' /\ AloneInv'
  BY <1>3 DEF SlotInv, AloneInv, At
<1> QED BY <1>5, <1>6, <1>7 DEF Inv

\* With no runtime in the way, the destructor of a replaced object only takes from the
\* slots.
LEMMA CollectKeeps ==
    ASSUME Inv, NEW r \in Runtimes, Collect(r)
    PROVE  Inv'
<1>1. PICK o \in Objects(r) \ (destroyed \cup {NativeAmbireCrypto(r)}) : Destroy({o})
  BY DEF Collect
<1>2. UNCHANGED <<build, js, evaluations, owed>>
  BY DEF Collect
<1>3. destroyed' = destroyed \cup {o} /\ rsLambda' = [s \in Slots |-> nullptr]
  BY <1>1 DEF Destroy, cleanup
<1>4. TypeInv'
  <2>1. SlotsTypeOK'
    BY <1>2, <1>3 DEF Inv, TypeInv, SlotsTypeOK
  <2>2. \A q \in Runtimes : Objects(q)' = Objects(q)
    BY <1>2 DEF Objects
  <2> QED BY <1>1, <1>2, <1>3, <2>1, <2>2 DEF Inv, TypeInv
<1>5. ASSUME NEW q \in Runtimes
      PROVE  RuntimeInv(q)'
  <2>1. o # NativeAmbireCrypto(q)
    BY <1>1 DEF Objects, NativeAmbireCrypto
  <2>2. evaluations' \in Nat /\ evaluations <= evaluations'
    BY <1>2 DEF Inv, TypeInv
  <2>3. RuntimeInv(q)
    BY DEF Inv
  <2>4. js'[q] = js[q]
    BY <1>2
  <2>5. NativeAmbireCrypto(q) \in destroyed' => NativeAmbireCrypto(q) \in destroyed
    BY <1>3, <2>1
  <2> QED BY <2>2, <2>3, <2>4, <2>5, OtherRuntime
<1>6. SlotInv'
  BY <1>3 DEF SlotInv
<1>7. Shared'
  BY <1>3 DEF Shared
<1> QED BY <1>4, <1>5, <1>6, <1>7 DEF Inv, AloneInv

\* A runtime ends.  If a slot holds its lambda, the object in its global is destroyed
\* just now, and the slot is empty; if it never had an object, it never waited.
LEMMA EndTeardownKeeps ==
    ASSUME Inv, NEW r \in Runtimes, EndTeardown(r)
    PROVE  Inv'
<1> DEFINE new == [NewRuntime EXCEPT !.status = "dead", !.made = js[r].made]
<1>1. /\ js[r] \in Runtime /\ RuntimeInv(r) /\ js[r].made \in Nat
      /\ js[r].status = "ending" /\ js[r].thread = "free"
  BY DEF Inv, TypeInv, EndTeardown, Runtime
<1>2. /\ new \in Runtime /\ js' = [js EXCEPT ![r] = new]
      /\ new.status = "dead" /\ new.made = js[r].made /\ new.thread = "free" /\ new.loaded = {}
  BY <1>1 DEF EndTeardown, NewRuntime, Runtime
<1> HIDE DEF new
<1>3. /\ js' \in [Runtimes -> Runtime] /\ js'[r] = new
      /\ \A q \in Runtimes : q # r => js'[q] = js[q]
  BY <1>2 DEF Inv, TypeInv
<1>4. /\ UNCHANGED <<build, evaluations>> /\ owed' = Forget(r)
      /\ destroyed' = destroyed \cup Objects(r)
      /\ rsLambda' = IF Objects(r) \subseteq destroyed THEN rsLambda
                     ELSE [s \in Slots |-> nullptr]
  BY DEF EndTeardown, Destroy, cleanup
<1>5. \A q \in Runtimes : js'[q].made = js[q].made
  BY <1>2, <1>3
<1>6. \A q \in Runtimes : Objects(q)' = Objects(q)
  BY <1>5 DEF Objects
<1>7. TypeInv'
  <2>1. owed' \in [Slots -> [Runtimes -> Owed]]
    <3>1. At("lost") \in Owed
      BY DEF At, Owed
    <3>2. owed \in [Slots -> [Runtimes -> Owed]]
      BY DEF Inv, TypeInv, SlotsTypeOK
    <3>3. ASSUME NEW s \in Slots, NEW q \in Runtimes
          PROVE  owed[s][q] \in Owed
      BY <3>2
    <3> QED BY <1>4, <3>1, <3>3 DEF Forget
  <2>2. SlotsTypeOK'
    BY <1>4, <2>1 DEF Inv, TypeInv, SlotsTypeOK
  <2> QED BY <1>3, <1>4, <1>6, <2>2 DEF Inv, TypeInv
<1>8. ASSUME NEW q \in Runtimes
      PROVE  RuntimeInv(q)'
  <2>1. evaluations' = evaluations /\ evaluations \in Nat
    BY <1>4 DEF Inv, TypeInv
  <2>2. CASE q = r
    <3>1. CountInv(r)'
      BY <1>1, <1>2, <1>3, <2>1 DEF RuntimeInv, CountInv
    <3>2. EvaluatingInv(r)' /\ LoadedInv(r)' /\ GlobalInv(r)'
      BY <1>2, <1>3 DEF EvaluatingInv, LoadedInv, GlobalInv, Alive
    <3> QED BY <2>2, <3>1, <3>2 DEF RuntimeInv
  <2>3. CASE q # r
    <3>1. NativeAmbireCrypto(q) \notin Objects(r)
      BY <2>3 DEF NativeAmbireCrypto, Objects
    <3>2. RuntimeInv(q) /\ js'[q] = js[q]
      BY <1>3, <2>3 DEF Inv
    <3>3. NativeAmbireCrypto(q) \in destroyed' => NativeAmbireCrypto(q) \in destroyed
      BY <1>4, <3>1
    <3>4. evaluations' \in Nat /\ evaluations <= evaluations'
      BY <2>1
    <3> QED BY <3>2, <3>3, <3>4, OtherRuntime
  <2> QED BY <2>2, <2>3
<1>9. SlotInv'
  <2>1. ASSUME NEW s \in Slots, rsLambda'[s] # nullptr
        PROVE  js'[rsLambda'[s]].status \in Alive /\ js'[rsLambda'[s]].made > 0
    <3>1. rsLambda' = rsLambda /\ Objects(r) \subseteq destroyed
      BY <1>4, <2>1
    <3>2. /\ rsLambda[s] \in Runtimes
          /\ js[rsLambda[s]].status \in Alive /\ js[rsLambda[s]].made > 0
      BY <2>1, <3>1 DEF Inv, TypeInv, SlotsTypeOK, SlotInv
    <3>3. rsLambda[s] # r
      <4> SUFFICES ASSUME rsLambda[s] = r PROVE FALSE
        OBVIOUS
      <4>1. NativeAmbireCrypto(r) \in Objects(r)
        BY <1>1, <3>2 DEF NativeAmbireCrypto, Objects
      <4> QED BY <1>1, <3>1, <4>1 DEF RuntimeInv, GlobalInv, Alive
    <3> QED BY <1>3, <3>1, <3>2, <3>3
  <2> QED BY <2>1 DEF SlotInv
<1>10. AloneInv'
  <2>1. CASE js[r].made > 0
    <3>1. <<r, 1>> \in Objects(r)
      BY <1>1, <2>1 DEF Objects
    <3>2. destroyed' # {}
      BY <1>4, <3>1
    <3> QED BY <3>2 DEF AloneInv, Shared
  <2>2. CASE js[r].made = 0
    <3>1. Objects(r) = {}
      BY <2>2 DEF Objects
    <3>2. rsLambda' = rsLambda /\ destroyed' = destroyed
      BY <1>4, <3>1
    <3>3. Shared' <=> Shared
      BY <1>5, <3>2 DEF Shared
    <3>4. ASSUME ~Shared, NEW s \in Slots, NEW q \in Runtimes, owed'[s][q].at # "none"
          PROVE  /\ owed'[s][q].at # "lost" /\ rsLambda[s] = q
                 /\ owed'[s][q].at = "queued" => owed'[s][q].to = q
      <4>1. CASE owed[s][q].at = "none"
        <5>1. owed'[s][q] = owed[s][q]
          BY <1>4, <4>1 DEF Forget
        <5> QED BY <3>4, <4>1, <5>1
      <4>2. CASE owed[s][q].at # "none"
        <5>1. /\ owed[s][q].at # "lost" /\ rsLambda[s] = q
              /\ owed[s][q].at = "queued" => owed[s][q].to = q
          BY <3>4, <4>2 DEF Inv, AloneInv
        <5>2. q # r
          BY <2>2, <5>1, SlotAssumption DEF Inv, SlotInv
        <5>3. owed'[s][q] = owed[s][q]
          BY <1>4, <5>1, <5>2 DEF Forget
        <5> QED BY <5>1, <5>3
      <4> QED BY <4>1, <4>2
    <3> QED BY <3>2, <3>3, <3>4 DEF AloneInv
  <2> QED BY <1>1, <2>1, <2>2
<1> QED BY <1>7, <1>8, <1>9, <1>10 DEF Inv

---------------------------------------------------------------------------
(* Futures *)

\* A step of the slots alone.
LEMMA SlotsKeep ==
    ASSUME Inv, FutureStep, SlotsTypeOK', SlotInv', AloneInv'
    PROVE  Inv'
<1>1. UNCHANGED <<build, js, evaluations, destroyed>>
  BY DEF FutureStep
<1>2. \A q \in Runtimes : Objects(q)' = Objects(q)
  BY <1>1 DEF Objects
<1>3. TypeInv'
  BY <1>1, <1>2 DEF Inv, TypeInv
<1>4. ASSUME NEW q \in Runtimes
      PROVE  RuntimeInv(q)'
  <2>1. evaluations' \in Nat /\ evaluations <= evaluations' /\ js'[q] = js[q]
    BY <1>1 DEF Inv, TypeInv
  <2>2. RuntimeInv(q)
    BY DEF Inv
  <2> QED BY <1>1, <2>1, <2>2, OtherRuntime
<1> QED BY <1>3, <1>4 DEF Inv

\* A callback that moves on in a full slot moves on alone.
LEMMA MoveKeeps ==
    ASSUME Inv, FutureStep, UNCHANGED rsLambda,
           NEW s \in Slots, NEW r \in Runtimes, NEW next \in Owed, Owe(s, r, next),
           ~Shared /\ next.at # "none" =>
               /\ next.at # "lost" /\ rsLambda[s] = r
               /\ next.at = "queued" => next.to = r
    PROVE  Inv'
<1>1. owed' = [owed EXCEPT ![s][r] = next] /\ owed \in [Slots -> [Runtimes -> Owed]]
  BY DEF Owe, Inv, TypeInv, SlotsTypeOK
<1>2. /\ owed' \in [Slots -> [Runtimes -> Owed]] /\ owed'[s][r] = next
      /\ \A t \in Slots, q \in Runtimes : t # s \/ q # r => owed'[t][q] = owed[t][q]
  BY <1>1
<1>3. SlotsTypeOK'
  BY <1>2 DEF Inv, TypeInv, SlotsTypeOK
<1>4. js' = js /\ destroyed' = destroyed
  BY DEF FutureStep
<1>5. SlotInv'
  BY <1>4 DEF Inv, SlotInv
<1>6. Shared' <=> Shared
  BY <1>4 DEF Shared
<1>7. ASSUME ~Shared, NEW t \in Slots, NEW q \in Runtimes, owed'[t][q].at # "none"
      PROVE  /\ owed'[t][q].at # "lost" /\ rsLambda[t] = q
             /\ owed'[t][q].at = "queued" => owed'[t][q].to = q
  <2>1. CASE t = s /\ q = r
    BY <1>2, <1>7, <2>1
  <2>2. CASE t # s \/ q # r
    <3>1. owed'[t][q] = owed[t][q]
      BY <1>2, <2>2
    <3> QED BY <1>7, <3>1 DEF Inv, AloneInv
  <2> QED BY <2>1, <2>2
<1>8. AloneInv'
  BY <1>6, <1>7 DEF AloneInv
<1> QED BY <1>3, <1>5, <1>8, SlotsKeep

\* Rust tests the slot, calls it, and the JavaScript thread runs what was queued.
LEMMA CallbackKeeps ==
    ASSUME Inv, FutureStep, NEW s \in Slots, NEW r \in Runtimes,
           callback(s, r) \/ invokeNonBlocking(s, r) \/ body(s, r)
    PROVE  Inv'
<1>1. /\ ~Shared /\ owed[s][r].at # "none" =>
            rsLambda[s] = r /\ (owed[s][r].at = "queued" => owed[s][r].to = r)
      /\ rsLambda[s] \in Runtimes \cup {nullptr}
  BY DEF Inv, AloneInv, TypeInv, SlotsTypeOK
<1>2. UNCHANGED rsLambda
  BY DEF callback, invokeNonBlocking, body
<1>3. CASE callback(s, r)
  <2> DEFINE next == IF rsLambda[s] = nullptr THEN At("lost") ELSE At("checked")
  <2>1. next \in Owed /\ Owe(s, r, next) /\ next.at # "queued" /\ owed[s][r].at = "waiting"
    BY <1>3 DEF At, Owed, callback
  <2>2. ~Shared => next.at # "lost" /\ rsLambda[s] = r
    BY <1>1, <2>1, SlotAssumption DEF At
  <2> HIDE DEF next
  <2> QED BY <1>2, <2>1, <2>2, MoveKeeps
<1>4. CASE invokeNonBlocking(s, r)
  <2> DEFINE next == [at |-> "queued", to |-> rsLambda[s]]
  <2>1. /\ next \in Owed /\ Owe(s, r, next) /\ next.at = "queued" /\ next.to = rsLambda[s]
        /\ owed[s][r].at = "checked"
    BY <1>1, <1>4 DEF Owed, invokeNonBlocking
  <2>2. ~Shared => rsLambda[s] = r
    BY <1>1, <2>1
  <2> HIDE DEF next
  <2> QED BY <1>2, <2>1, <2>2, MoveKeeps
<1>5. CASE body(s, r)
  <2> DEFINE next == IF owed[s][r].to = r THEN At("none") ELSE At("lost")
  <2>1. next \in Owed /\ Owe(s, r, next) /\ owed[s][r].at = "queued"
    BY <1>5 DEF At, Owed, body
  <2>2. ~Shared => next.at = "none"
    BY <1>1, <2>1 DEF At
  <2> HIDE DEF next
  <2> QED BY <1>2, <2>1, <2>2, MoveKeeps
<1> QED BY <1>3, <1>4, <1>5

\* Who waits has an object, and fills a slot that is empty; alone, a full slot is its own.
LEMMA WaitKeeps ==
    ASSUME Inv, FutureStep, NEW s \in Slots, NEW r \in Runtimes,
           CanOwe(r), fromJsCallback(s, r)
    PROVE  Inv'
<1>1. /\ js[r].status \in Alive /\ js[r].made > 0
  BY DEF Inv, RuntimeInv, LoadedInv, CanOwe
<1>2. /\ rsLambda' = IF rsLambda[s] = nullptr THEN [rsLambda EXCEPT ![s] = r] ELSE rsLambda
      /\ rsLambda \in [Slots -> Runtimes \cup {nullptr}]
      /\ owed' = [owed EXCEPT ![s][r] = At("waiting")]
      /\ owed \in [Slots -> [Runtimes -> Owed]]
  BY DEF fromJsCallback, makeCallbackFunction, Owe, Inv, TypeInv, SlotsTypeOK
<1>3. /\ rsLambda' \in [Slots -> Runtimes \cup {nullptr}]
      /\ rsLambda'[s] = IF rsLambda[s] = nullptr THEN r ELSE rsLambda[s]
      /\ \A t \in Slots : t # s => rsLambda'[t] = rsLambda[t]
  BY <1>2
<1>4. At("waiting") \in Owed /\ At("waiting").at = "waiting"
  BY DEF At, Owed
<1>5. /\ owed' \in [Slots -> [Runtimes -> Owed]] /\ owed'[s][r] = At("waiting")
      /\ \A t \in Slots, q \in Runtimes : t # s \/ q # r => owed'[t][q] = owed[t][q]
  BY <1>2, <1>4
<1>6. SlotsTypeOK'
  BY <1>3, <1>5 DEF SlotsTypeOK
<1>7. js' = js /\ destroyed' = destroyed
  BY DEF FutureStep
<1>8. SlotInv'
  BY <1>1, <1>3, <1>7, SlotAssumption DEF Inv, SlotInv
<1>9. Shared' <=> Shared
  BY <1>7 DEF Shared
<1>10. ASSUME ~Shared, rsLambda[s] # nullptr
       PROVE  rsLambda[s] = r
  <2>1. rsLambda[s] \in Runtimes /\ js[rsLambda[s]].made > 0
    BY <1>2, <1>10 DEF Inv, SlotInv
  <2> QED BY <1>1, <1>10, <2>1 DEF Shared
<1>11. ASSUME ~Shared, NEW t \in Slots, NEW q \in Runtimes, owed'[t][q].at # "none"
       PROVE  /\ owed'[t][q].at # "lost" /\ rsLambda'[t] = q
              /\ owed'[t][q].at = "queued" => owed'[t][q].to = q
  <2>1. CASE t = s /\ q = r
    BY <1>3, <1>4, <1>5, <1>10, <1>11, <2>1
  <2>2. CASE t # s \/ q # r
    <3>1. owed'[t][q] = owed[t][q]
      BY <1>5, <2>2
    <3>2. /\ owed[t][q].at # "lost" /\ rsLambda[t] = q
          /\ owed[t][q].at = "queued" => owed[t][q].to = q
      BY <1>11, <3>1 DEF Inv, AloneInv
    <3>3. rsLambda'[t] = rsLambda[t]
      BY <1>3, <3>2, SlotAssumption
    <3> QED BY <3>1, <3>2, <3>3
  <2> QED BY <2>1, <2>2
<1>12. AloneInv'
  BY <1>9, <1>11 DEF AloneInv
<1> QED BY <1>6, <1>8, <1>12, SlotsKeep

---------------------------------------------------------------------------
(* The theorems *)

\* At first nothing is installed.
LEMMA InitInv == Init => Inv
<1> SUFFICES ASSUME Init PROVE Inv
  OBVIOUS
<1>1. NewRuntime \in Runtime
  BY DEF NewRuntime, Runtime
<1>2. /\ js = [r \in Runtimes |-> NewRuntime]
      /\ evaluations = 0 /\ destroyed = {} /\ build \in Builds
      /\ rsLambda = [s \in Slots |-> nullptr]
      /\ owed = [s \in Slots |-> [r \in Runtimes |-> At("none")]]
  BY DEF Init, SlotsInit
<1>3. SlotsTypeOK
  BY <1>2 DEF SlotsTypeOK, Owed, At
<1>4. TypeInv
  BY <1>1, <1>2, <1>3, InstallAssumption DEF TypeInv
<1>5. ASSUME NEW r \in Runtimes
      PROVE  RuntimeInv(r)
  <2>1. js[r] = NewRuntime
    BY <1>2
  <2>2. CountInv(r) /\ EvaluatingInv(r) /\ LoadedInv(r)
    BY <1>2, <2>1 DEF CountInv, EvaluatingInv, LoadedInv, NewRuntime
  <2>3. GlobalInv(r)
    BY <1>2, <2>1 DEF GlobalInv, NewRuntime, Alive
  <2> QED BY <2>2, <2>3 DEF RuntimeInv
<1>6. SlotInv /\ AloneInv
  BY <1>2 DEF SlotInv, AloneInv, At
<1> QED BY <1>4, <1>5, <1>6 DEF Inv

\* One step per action.
LEMMA NextInv == Inv /\ [Next]_vars => Inv'
<1> SUFFICES ASSUME Inv, [Next]_vars PROVE Inv'
  OBVIOUS
<1>1. ASSUME NEW r \in Runtimes, Loading(r)
      PROVE  Inv'
  <2>1. CASE Evaluate(r)
    BY <2>1, EvaluateKeeps
  <2>2. CASE installRustCrate(r)
    <3>1. js[r].thread = "install" /\ ~js[r].rustInstalled
      BY <2>2 DEF installRustCrate, Inv, RuntimeInv, EvaluatingInv
    <3>2. ProcessDies \/ registerModule(r)
      BY <2>2, <3>1 DEF installRustCrate
    <3> QED BY <3>1, <3>2, DeathKeeps, RegisterKeeps
  <2>3. CASE initialize(r)
    BY <2>3, InitializeKeeps
  <2> QED BY <1>1, <2>1, <2>2, <2>3 DEF Loading
<1>2. ASSUME NEW r \in Runtimes, Waiting(r)
      PROVE  Inv'
  <2>1. "continuation" \in Slots /\ "dropped" \in Slots
    BY DEF Slots
  <2>2. CASE PollFuture(r) \/ PassForeignFuture(r)
    BY <2>1, <2>2, WaitKeeps DEF PollFuture, PassForeignFuture
  <2>3. CASE FutureWakes(r) \/ FutureDropped(r) \/ WakeUpQueued(r) \/ DropQueued(r)
    BY <2>1, <2>3, CallbackKeeps DEF FutureWakes, FutureDropped, WakeUpQueued, DropQueued
  <2>4. CASE WakeUpRuns(r) \/ DropRuns(r)
    BY <2>1, <2>4, CallbackKeeps DEF WakeUpRuns, DropRuns
  <2>5. CASE CallbackThrows(r)
    BY <2>5, DeathKeeps DEF CallbackThrows
  <2> QED BY <1>2, <2>2, <2>3, <2>4, <2>5 DEF Waiting
<1>3. ASSUME NEW r \in Runtimes, Environment(r)
      PROVE  Inv'
  BY <1>3, StatusKeeps, EndTeardownKeeps, CollectKeeps DEF Environment
<1>4. CASE ProcessDies
  BY <1>4, DeathKeeps
<1>5. CASE UNCHANGED vars
  <2>1. FutureStep /\ UNCHANGED <<rsLambda, owed>>
    BY <1>5 DEF vars, FutureStep
  <2>2. SlotsTypeOK' /\ SlotInv' /\ AloneInv'
    BY <2>1 DEF FutureStep, Inv, TypeInv, SlotsTypeOK, SlotInv, AloneInv, Shared
  <2> QED BY <2>1, <2>2, SlotsKeep
<1> QED BY <1>1, <1>2, <1>3, <1>4, <1>5 DEF Next

\* The inductive invariant: who has an object, what its code fits, and who fills the
\* slots.
THEOREM SpecInv == Spec => []Inv
BY InitInv, NextInv, PTL DEF Spec

\* Every variable keeps its type, for any bound on the evaluations.
THEOREM TypeCorrect == Spec => []TypeOK
<1>1. Inv => TypeOK
  BY InvIsEnough
<1> QED BY <1>1, SpecInv, PTL

\* Code that runs fits the library and finds every host function it calls, whatever the
\* library, the bundles and the evaluations that failed since.
THEOREM LoadedCodeFits == Spec => []LoadedCodeFitsTheLibrary
<1>1. Inv => LoadedCodeFitsTheLibrary
  BY InvIsEnough
<1> QED BY <1>1, SpecInv, PTL

\* A slot never holds a lambda of a runtime that is gone, for any number of runtimes.
THEOREM SlotsAreOfTheLiving == Spec => []SlotsOutliveNoRuntime
<1>1. Inv => SlotsOutliveNoRuntime
  BY InvIsEnough
<1> QED BY <1>1, SpecInv, PTL

\* A runtime that shares its slots with no other, and whose host object was not replaced
\* and collected, loses no future.
THEOREM AloneKeepsEverything == Spec => []AloneNothingIsLost
<1>1. Inv => AloneNothingIsLost
  BY InvIsEnough
<1> QED BY <1>1, SpecInv, PTL

===========================================================================
