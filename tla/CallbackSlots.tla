--------------------------- MODULE CallbackSlots ---------------------------
(***************************************************************************)
(* The callback slots of the generated C++: how Rust calls back into       *)
(* JavaScript when a future makes progress or a foreign future is dropped. *)
(*                                                                         *)
(* Rust takes plain function pointers, so the runtime, the call invoker    *)
(* and the JavaScript function of a callback sit in a lambda in a static   *)
(* variable, one per callback type and process.  Every JavaScript runtime  *)
(* of the process and every thread Rust wakes a future on share it.        *)
(*                                                                         *)
(* The crate exports no async function yet, so nothing fills the slots     *)
(* today; the destructor of the host object clears them all the same.  A   *)
(* slot is modelled by the runtime its lambda captured.                    *)
(***************************************************************************)
EXTENDS Naturals

CONSTANTS
    Runtimes,  \* the JavaScript runtimes of a process
    nullptr    \* an empty slot

ASSUME SlotAssumption == nullptr \notin Runtimes

VARIABLES
    rsLambda,  \* per slot, the runtime whose lambda it holds
    owed       \* per slot and runtime, where the call back it waits for is

slotVars == <<rsLambda, owed>>

---------------------------------------------------------------------------

\* rustfuturecontinuationcallback and foreignfuturedroppedcallback.
Slots == {"continuation", "dropped"}

\* waiting: Rust holds the function pointer.  checked: a Rust thread has found the
\* slot full and is about to call it.  queued: the call invoker of the runtime `to`
\* has it.  lost: nobody will call the JavaScript function any more.
Owed == [at : {"none", "waiting", "checked", "lost"}, to : {nullptr}]
          \cup [at : {"queued"}, to : Runtimes]

At(place) == [at |-> place, to |-> nullptr]

SlotsInit ==
    /\ rsLambda = [s \in Slots |-> nullptr]
    /\ owed = [s \in Slots |-> [r \in Runtimes |-> At("none")]]

Owe(s, r, state) == owed' = [owed EXCEPT ![s][r] = state]

\* The slip: the test of the slot the wrong way round.
makeCallbackFunctionSwapped(s, r) ==
    rsLambda' = IF rsLambda[s] # nullptr THEN [rsLambda EXCEPT ![s] = r] ELSE rsLambda

\* A slot that is full stays as it is, whoever filled it.
makeCallbackFunction(s, r) ==
    rsLambda' = IF rsLambda[s] = nullptr THEN [rsLambda EXCEPT ![s] = r] ELSE rsLambda

\* The type of each callback struct and argument has its own fromJs; all of them
\* end here.  Rust has the pointer from now on.
fromJsCallback(s, r) ==
    /\ owed[s][r].at \in {"none", "lost"}
    /\ makeCallbackFunction(s, r)
    /\ Owe(s, r, At("waiting"))

\* On a thread of Rust: is there a runtime to call into?
callback(s, r) ==
    /\ owed[s][r].at = "waiting"
    /\ Owe(s, r, IF rsLambda[s] = nullptr THEN At("lost") ELSE At("checked"))
    /\ UNCHANGED rsLambda

\* The lambda the slot holds by now passes the arguments to its call invoker.
invokeNonBlocking(s, r) ==
    /\ owed[s][r].at = "checked"
    /\ rsLambda[s] # nullptr
    /\ Owe(s, r, [at |-> "queued", to |-> rsLambda[s]])
    /\ UNCHANGED rsLambda

\* Between the check and the call the slot was emptied: an empty std::function
\* throws, through Rust's frames.  The slot has no lock: the two threads race, and what
\* else a torn std::function may do is not told apart from this.
CallsEmptySlot(s, r) == owed[s][r].at = "checked" /\ rsLambda[s] = nullptr

\* The slip: the call is over and the queue still has it.
bodyKeepsItsPlace(s, r) ==
    /\ owed[s][r].at = "queued"
    /\ Owe(s, r, [owed[s][r] EXCEPT !.at = IF owed[s][r].to = r THEN "none" ELSE "lost"])
    /\ UNCHANGED rsLambda

\* On the JavaScript thread of the runtime `to`.  Only r knows the handle.
body(s, r) ==
    /\ owed[s][r].at = "queued"
    /\ Owe(s, r, IF owed[s][r].to = r THEN At("none") ELSE At("lost"))
    /\ UNCHANGED rsLambda

\* The slip: one of the slots is left as it is.
cleanupOne == [s \in Slots |-> IF s = "dropped" THEN rsLambda[s] ELSE nullptr]

\* What the destructor of a host object does, whichever runtime filled the slots.
cleanup == [s \in Slots |-> nullptr]

\* With a runtime go the queue of its call invoker and the JavaScript that waits.
Forget(r) ==
    [s \in Slots |-> [q \in Runtimes |->
        IF owed[s][q].at = "queued" /\ r \in {q, owed[s][q].to} THEN At("lost") ELSE owed[s][q]]]

SlotsTypeOK ==
    /\ rsLambda \in [Slots -> Runtimes \cup {nullptr}]
    /\ owed \in [Slots -> [Runtimes -> Owed]]

===========================================================================
