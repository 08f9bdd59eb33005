--------------------------- MODULE LendingProofs ---------------------------
(***************************************************************************)
(* RustBufferBridge implements Lending, for any number of runtimes,        *)
(* functions, arguments and blocks.                                        *)
(*                                                                         *)
(* What a call has borrowed is a fact about the heap they all share.  The  *)
(* invariant turns it into one about two pointers of the call itself, the  *)
(* result's and the error's, and those are what the steps are about.       *)
(***************************************************************************)
EXTENDS RustBufferBridgeProofs

---------------------------------------------------------------------------
(* What a call has borrowed. *)

\* The result and the error the native function holds, if any.
Debt(c) == {ret[c].data, status[c].error_buf.data} \ {NoBlock}

\* The blocks of Rust's that a call has are the two it holds pointers to.
LEMMA BorrowedIsTheDebt ==
    ASSUME Inv, NEW c \in Callers
    PROVE  Borrowed(c) = Debt(c)
<1>1. Borrowed(c) \subseteq Debt(c)
  BY BlocksAssumption DEF Borrowed, Debt, Inv, TypeOK, CallInv, TrackedInv
<1>2. ASSUME NEW data, NEW info, Holds(data, info), data # NoBlock,
             info.caller = c, info.what \in {"result", "error"}
      PROVE  data \in Borrowed(c)
  BY <1>2 DEF Holds, Borrowed
<1>3. /\ Holds(ret[c].data, Info("rust", ret[c].capacity, c, "result", 0))
      /\ Holds(status[c].error_buf.data,
               Info("rust", status[c].error_buf.capacity, c, "error", 0))
  BY DEF Inv, CallInv, HoldsInv, HoldsResult, HoldsError
<1>4. Debt(c) \subseteq Borrowed(c)
  BY <1>2, <1>3 DEF Debt, Info
<1> QED BY <1>1, <1>4

\* One pointer at most: Rust returns a buffer or an error.
LEMMA OneDebt ==
    ASSUME Inv, NEW c \in Callers
    PROVE  /\ pc[c] \in BeforeReturn => Debt(c) = {}
           /\ status[c].code = OK => Debt(c) = {ret[c].data} \ {NoBlock}
           /\ status[c].code # OK => Debt(c) = {status[c].error_buf.data} \ {NoBlock}
           /\ Debt(c) \subseteq Blocks
<1>1. LocalsInv(c)
  BY DEF Inv, CallInv
<1>2. pc[c] \in BeforeReturn => Debt(c) = {}
  BY <1>1 DEF LocalsInv, Debt, NullBuffer, rustSuccess
<1>3. /\ status[c].code = OK => Debt(c) = {ret[c].data} \ {NoBlock}
      /\ status[c].code # OK => Debt(c) = {status[c].error_buf.data} \ {NoBlock}
  BY <1>1 DEF LocalsInv, Debt, NullBuffer
<1>4. Debt(c) \subseteq Blocks
  BY DEF Debt, Inv, TypeOK, Buffer
<1> QED BY <1>2, <1>3, <1>4

\* What the two lemmas say, of every call.
LoansAreDebts ==
    \A c \in Callers :
        /\ Borrowed(c) = Debt(c)
        /\ pc[c] \in BeforeReturn => Debt(c) = {}
        /\ status[c].code = OK => Debt(c) = {ret[c].data} \ {NoBlock}
        /\ status[c].code # OK => Debt(c) = {status[c].error_buf.data} \ {NoBlock}
        /\ Debt(c) \subseteq Blocks

\* The two lemmas together, in one state.
LEMMA LoansNow == Inv => LoansAreDebts
BY BorrowedIsTheDebt, OneDebt DEF LoansAreDebts

\* And of every call in the next.
LEMMA LoansNext == Inv' => LoansAreDebts'
<1>1. (Inv => LoansAreDebts)'
  BY LoansNow, PTL
<1> QED BY <1>1

---------------------------------------------------------------------------
(* From the steps of a call to those of Lending. *)

phases == [c \in Callers |-> Phase(c)]
loans == [c \in Callers |-> Borrowed(c)]

\* A step of c changes the phase and the loans of c only.
LEMMA Shift ==
    ASSUME Inv, Inv', NEW c \in Callers, StepOK(c)
    PROVE  /\ phases' = [phases EXCEPT ![c] = Phase(c)']
           /\ loans' = [loans EXCEPT ![c] = Debt(c)']
           /\ phases[c] = Phase(c) /\ loans[c] = Debt(c)
<1>1. ASSUME NEW d \in Callers, d # c
      PROVE  Phase(d)' = Phase(d) /\ Borrowed(d)' = Borrowed(d)
  <2>1. Borrowed(d) = Debt(d) /\ Borrowed(d)' = Debt(d)'
    BY LoansNow, LoansNext DEF LoansAreDebts
  <2>2. SameLocals(d)
    BY <1>1 DEF StepOK
  <2>3. Debt(d)' = Debt(d)
    BY <2>2 DEF SameLocals, Debt
  <2>4. Phase(d)' = Phase(d)
    BY <2>1, <2>2, <2>3 DEF SameLocals, Phase
  <2> QED BY <2>1, <2>3, <2>4
<1>2. Borrowed(c) = Debt(c) /\ Borrowed(c)' = Debt(c)'
  BY LoansNow, LoansNext DEF LoansAreDebts
<1> QED BY <1>1, <1>2 DEF phases, loans

\* Nothing moved.
LEMMA Still ==
    ASSUME Inv, Inv', NEW c \in Callers, StepOK(c),
           Debt(c)' = Debt(c), Phase(c)' = Phase(c)
    PROVE  UNCHANGED <<phases, loans>>
<1>1. phases' = [phases EXCEPT ![c] = phases[c]] /\ loans' = [loans EXCEPT ![c] = loans[c]]
  BY Shift
<1> QED BY <1>1 DEF phases, loans

\* The actions of Lending that leave the loans alone.
LEMMA TalkSteps ==
    ASSUME Inv, Inv', NEW c \in Callers, StepOK(c), Debt(c)' = Debt(c)
    PROVE  /\ Phase(c) = "idle" /\ Phase(c)' = "asking" => Promise!Ask(c)
           /\ Phase(c) = "asking" /\ Phase(c)' = "over" => Promise!Answer(c)
           /\ Phase(c) \in {"asking", "over"} /\ Phase(c)' = "idle" => Promise!End(c)
<1>1. /\ phases' = [phases EXCEPT ![c] = Phase(c)']
      /\ loans' = loans
      /\ phases[c] = Phase(c)
  <2>1. loans' = [loans EXCEPT ![c] = loans[c]]
    BY Shift
  <2> QED BY <2>1, Shift DEF loans
<1> QED BY <1>1 DEF Promise!Ask, Promise!Answer, Promise!End, Promise!To, phases, loans

\* Giving back.
LEMMA GiveBackStep ==
    ASSUME Inv, Inv', NEW c \in Callers, StepOK(c), NEW to,
           Phase(c) = "borrowing", Phase(c)' = to, Debt(c)' = {}
    PROVE  Promise!GiveBack(c, to)
BY Shift DEF Promise!GiveBack, Promise!To, phases, loans

\* A block that Rust hands to c belongs to no other call: theirs are still theirs, and
\* this one is c's.
LEMMA LendStep ==
    ASSUME Inv, Inv', NEW c \in Callers, StepOK(c), NEW b,
           Phase(c) = "asking", Phase(c)' = "borrowing", Debt(c) = {}, Debt(c)' = {b}
    PROVE  Promise!Lend(c)
<1>1. b \in Blocks /\ b \in Borrowed(c)'
  BY LoansNext DEF LoansAreDebts
<1>2. ASSUME NEW d \in Callers, b \in Borrowed(d) PROVE FALSE
  <2>1. d # c
    BY <1>2, LoansNow DEF LoansAreDebts
  <2>2. heap[b].caller = d /\ b \in DOMAIN heap
    BY <1>2 DEF Borrowed
  <2>3. heap'[b] = heap[b]
    BY <2>1, <2>2 DEF StepOK, HeapFrame
  <2>4. heap'[b].caller = c
    BY <1>1 DEF Borrowed
  <2> QED BY <2>1, <2>2, <2>3, <2>4
<1>3. b \in Blocks \ UNION {loans[d] : d \in Callers}
  BY <1>1, <1>2 DEF loans
<1>4. /\ phases' = [phases EXCEPT ![c] = "borrowing"] /\ phases[c] = "asking"
      /\ loans' = [loans EXCEPT ![c] = {b}]
  BY Shift
<1>5. Promise!To(c, {"asking"}, "borrowing")
  BY <1>4 DEF Promise!To, phases
<1>6. Promise!Free = Blocks \ UNION {loans[d] : d \in Callers}
  BY DEF Promise!Free, loans
<1>7. \E x \in Promise!Free : loans' = [loans EXCEPT ![c] = {x}]
  BY <1>3, <1>4, <1>6
<1> QED BY <1>5, <1>7 DEF Promise!Lend, loans

\* Rust answers with a result, an error, or neither.
LEMMA RustAnswers ==
    ASSUME Inv, Inv', NEW c \in Callers, StepOK(c), GoTo(c, "rust", "status")
    PROVE  Promise!Lend(c) \/ Promise!Answer(c)
<1>1. pc[c] = "rust" /\ pc'[c] = "status"
  BY DEF GoTo, Inv, TypeOK
<1>2. Phase(c) = "asking" /\ Debt(c) = {}
  BY <1>1, LoansNow DEF Phase, LoansAreDebts, BeforeReturn
<1>3. Debt(c)' = {} \/ \E b : Debt(c)' = {b}
  BY LoansNext DEF LoansAreDebts
<1>4. Phase(c)' = IF Debt(c)' = {} THEN "over" ELSE "borrowing"
  BY <1>1, LoansNext DEF Phase, LoansAreDebts
<1> QED BY <1>2, <1>3, <1>4, LendStep, TalkSteps

\* Every step of a call is a step of Lending, or none.
LEMMA CallPromises ==
    ASSUME Inv, Inv', NEW c \in Callers, StepOK(c),
           CallStep(c) \/ \E f \in Functions : Call(c, f)
    PROVE  \/ Promise!Ask(c) \/ Promise!Lend(c) \/ Promise!Answer(c) \/ Promise!End(c)
           \/ \E to \in {"over", "idle"} : Promise!GiveBack(c, to)
           \/ UNCHANGED <<phases, loans>>
<1> USE DEF Phase
<1>0. /\ \A from, to : GoTo(c, from, to) => pc[c] = from /\ pc'[c] = to
      /\ Borrowed(c) = Debt(c) /\ Borrowed(c)' = Debt(c)'
      /\ pc[c] \in BeforeReturn => Debt(c) = {}
      /\ pc'[c] \in BeforeReturn => Debt(c)' = {}
      /\ LocalsInv(c) /\ LocalsInv(c)'
  BY LoansNow, LoansNext DEF GoTo, LoansAreDebts, Inv, TypeOK, CallInv
<1>1. CASE \E f \in Functions : Call(c, f)
  <2>1. pc[c] = "idle" /\ pc'[c] = "lower"
    BY <1>0, <1>1 DEF Call
  <2>2. Debt(c) = {} /\ Debt(c)' = {}
    BY <1>0, <2>1 DEF BeforeReturn
  <2> QED BY <2>1, <2>2, TalkSteps
<1>2. CASE LowerArg(c) \/ \E i \in DOMAIN lowered[c] : fromJs(c, i)
  <2>1. pc[c] \in {"lower", "convert"} /\ pc'[c] \in {"lower", "convert", "rust"}
    BY <1>0, <1>2 DEF LowerArg, fromJs
  <2>2. Debt(c) = {} /\ Debt(c)' = {}
    BY <1>0, <2>1 DEF BeforeReturn
  <2> QED BY <2>1, <2>2, Still
<1>3. CASE LowerThrows(c) \/ fromJsThrows(c)
  <2>1. pc[c] \in {"lower", "convert"} /\ pc'[c] = "idle"
    BY <1>0, <1>3 DEF LowerThrows, fromJsThrows
  <2>2. Debt(c) = {} /\ Debt(c)' = {}
    BY <1>0, <2>1 DEF BeforeReturn
  <2> QED BY <2>1, <2>2, TalkSteps
<1>4. CASE RustReturns(c) \/ RustRefuses(c) \/ RustPanics(c)
  <2>1. GoTo(c, "rust", "status")
    BY <1>4 DEF RustReturns, RustRefuses, RustPanics, RustFails
  <2> QED BY <2>1, RustAnswers
<1>5. CASE copyIntoJs(c)
  <2>1. pc[c] = "status" /\ pc'[c] = "view" /\ ret' = ret
    BY <1>0, <1>5 DEF copyIntoJs
  <2>2. CASE status[c].error_buf.data = NoBlock
    <3>1. status' = status
      BY <1>5, <2>2 DEF copyIntoJs
    <3>2. Debt(c)' = Debt(c)
      BY <2>1, <3>1 DEF Debt
    <3> QED BY <1>0, <2>1, <3>2, Still
  <2>3. CASE status[c].error_buf.data # NoBlock
    <3>1. Debt(c) # {} /\ ret[c] = NullBuffer
      BY <1>0, <2>3 DEF Debt, LocalsInv, NullBuffer
    <3>2. status'[c].error_buf = NullBuffer
      BY <1>0, <2>1 DEF LocalsInv, AfterCopyIntoJs
    <3>3. Debt(c)' = {}
      BY <2>1, <3>1, <3>2 DEF Debt, NullBuffer
    <3> QED BY <1>0, <2>1, <3>1, <3>3, GiveBackStep
  <2> QED BY <2>2, <2>3
<1>6. CASE toJs(c) \/ CheckPasses(c) \/ Lift(c)
  <2>1. /\ pc[c] \in {"view", "check", "lift"} /\ pc'[c] \in {"check", "lift", "finally"}
        /\ ret' = ret /\ status' = status
    BY <1>0, <1>6 DEF toJs, CheckPasses, Lift, callVars
  <2>2. Debt(c)' = Debt(c)
    BY <2>1 DEF Debt
  <2> QED BY <1>0, <2>1, <2>2, Still
<1>7. CASE CheckThrows(c)
  <2>1. pc[c] = "check" /\ pc'[c] = "idle" /\ jsStatus[c].code # OK
    BY <1>0, <1>7 DEF CheckThrows
  <2>2. Debt(c) = {}
    BY <1>0, <2>1 DEF LocalsInv, AfterCopyIntoJs, Debt, NullBuffer
  <2>3. Debt(c)' = {}
    BY <1>0, <2>1 DEF BeforeReturn
  <2> QED BY <1>0, <2>1, <2>2, <2>3, TalkSteps
<1>8. CASE rustbuffer_free(c)
  <2>1. pc[c] = "finally" /\ pc'[c] = "idle"
    BY <1>0, <1>8 DEF rustbuffer_free
  <2>2. Debt(c)' = {}
    BY <1>0, <2>1 DEF BeforeReturn
  <2>3. CASE Debt(c) = {}
    BY <1>0, <2>1, <2>2, <2>3, TalkSteps
  <2>4. CASE Debt(c) # {}
    BY <1>0, <2>1, <2>2, <2>4, GiveBackStep
  <2> QED BY <2>3, <2>4
<1> QED BY <1>1, <1>2, <1>3, <1>4, <1>5, <1>6, <1>7, <1>8 DEF CallStep

\* The bridge keeps the promise of Lending: whatever the number of runtimes and the
\* order of their steps, a call borrows at most one block, nobody else's, and has given
\* it back when it ends.
THEOREM PromiseKept == Spec => KeepsThePromise
<1>1. Init => Promise!Init
  <2> SUFFICES ASSUME Init PROVE Promise!Init
    OBVIOUS
  <2>1. \A c \in Callers : Phase(c) = "idle" /\ Borrowed(c) = {}
    BY DEF Init, Phase, Borrowed, Empty
  <2> QED BY <2>1 DEF Promise!Init
<1>2. Inv /\ Inv' /\ [Next]_vars => [Promise!Next]_<<phases, loans>>
  <2> SUFFICES ASSUME Inv, Inv', [Next]_vars
               PROVE  Promise!Next \/ UNCHANGED <<phases, loans>>
    OBVIOUS
  <2>1. ASSUME NEW c \in Callers, CallStep(c) \/ \E f \in Functions : Call(c, f)
        PROVE  Promise!Next \/ UNCHANGED <<phases, loans>>
    <3>1. StepOK(c)
      BY <2>1, CallStepKeeps
    <3> QED BY <2>1, <3>1, CallPromises DEF Promise!Next
  <2>2. CASE ProcessDies
    <3>1. \A c \in Callers : Phase(c)' = "idle" /\ Borrowed(c)' = {}
      BY <2>2 DEF ProcessDies, Phase, Borrowed, Empty
    <3>2. Promise!Abort
      BY <3>1 DEF Promise!Abort
    <3> QED BY <3>2 DEF Promise!Next
  <2>3. CASE UNCHANGED vars
    BY <2>3 DEF vars, phases, loans, Phase, Borrowed
  <2> QED BY <2>1, <2>2, <2>3 DEF Next
<1>3. Inv /\ Inv' /\ [Next]_vars => [Promise!Next]_(Promise!lendingVars)
  BY <1>2 DEF Promise!lendingVars, phases, loans
<1> QED BY <1>1, <1>3, SpecInv, PTL DEF Spec, KeepsThePromise, Promise!Spec

===========================================================================
