---------------------- MODULE RustBufferBridgeProofs ----------------------
(***************************************************************************)
(* Proofs about RustBufferBridge, for any number of runtimes, functions,   *)
(* arguments and blocks.                                                   *)
(*                                                                         *)
(* The invariant is a statement about one call, CallInv(c).  A step of c   *)
(* keeps CallInv(c) because of what it does, and keeps CallInv(d) for      *)
(* another d because it leaves d's locals and d's blocks alone.            *)
(***************************************************************************)
EXTENDS RustBufferBridge, TLAPS

---------------------------------------------------------------------------
(* The inductive invariant. *)

BeforeReturn == {"idle", "lower", "convert", "rust"}
AfterCopyIntoJs == {"view", "check", "lift", "finally"}
AfterToJs == {"check", "lift", "finally"}

\* The locals of the native function and the call status, by control point.
LocalsInv(c) ==
    /\ pc[c] \in BeforeReturn => ret[c] = NullBuffer /\ status[c] = rustSuccess
    /\ pc[c] \in BeforeReturn \cup {"status"} => jsStatus[c] = NewCallStatus
    /\ pc[c] \notin AfterToJs => view[c] = EmptyView
    /\ pc[c] \in AfterCopyIntoJs =>
         status[c].error_buf = NullBuffer /\ jsStatus[c].code = status[c].code
    /\ pc[c] \in AfterToJs =>
         /\ view[c].data = ret[c].data
         /\ view[c].byteLength = ret[c].len
         /\ FreeCapacity(view[c]) = ret[c].capacity
    /\ status[c].code = OK => status[c].error_buf = NullBuffer
    /\ status[c].code # OK => ret[c] = NullBuffer
    /\ status[c].error_buf.data = NoBlock => status[c].error_buf = NullBuffer
    /\ ret[c].len <= ret[c].capacity
    /\ ret[c].data = NoBlock => ret[c].len = 0
    /\ ret[c].data # NoBlock => ret[c].len > 0

\* The arguments and their copies.
ArgsInv(c) ==
    /\ pc[c] \notin {"convert", "rust"} => DOMAIN copies[c] = {}
    /\ pc[c] = "idle" => lowered[c] = << >>
    /\ pc[c] = "lower" => Len(lowered[c]) < Arity[fun[c]]
    /\ \A i \in DOMAIN lowered[c] :
         lowered[c][i].data # NoBlock => lowered[c][i].byteLength <= IntMax
    /\ \A i \in DOMAIN copies[c] :
         lowered[c][i].data # NoBlock => copies[c][i].len = lowered[c][i].byteLength

\* Every result and error block is the one its call refers to: none is lost.
TrackedInv(c) ==
    \A b \in DOMAIN heap : heap[b].caller = c =>
        /\ heap[b].what = "result" => ret[c].data = b
        /\ heap[b].what = "error" => status[c].error_buf.data = b

HoldsInv(c) ==
    HoldsLowered(c) /\ HoldsCopies(c) /\ HoldsResult(c) /\ HoldsError(c)

CallInv(c) == LocalsInv(c) /\ ArgsInv(c) /\ TrackedInv(c) /\ HoldsInv(c)

Inv == TypeOK /\ \A c \in Callers : CallInv(c)

---------------------------------------------------------------------------
(* Partial functions and allocation. *)

\* What Put does to a partial function.
LEMMA PutFacts ==
    ASSUME NEW f, NEW x, NEW v
    PROVE  /\ DOMAIN Put(f, x, v) = DOMAIN f \cup {x}
           /\ Put(f, x, v)[x] = v
           /\ \A y \in DOMAIN f : y # x => Put(f, x, v)[y] = f[y]
BY DEF Put

\* What Drop does to a partial function.
LEMMA DropFacts ==
    ASSUME NEW f, NEW S
    PROVE  /\ DOMAIN Drop(f, S) = DOMAIN f \ S
           /\ \A y \in DOMAIN f \ S : Drop(f, S)[y] = f[y]
BY DEF Drop

\* An allocation returns a typed buffer on a block that is not in use, or no
\* block when nothing was asked for.
LEMMA NewBufferFacts ==
    ASSUME NEW h, NEW len \in Nat, NEW cap \in Nat, NEW buf \in NewBuffers(h, len, cap)
    PROVE  /\ buf \in Buffer
           /\ buf.data = NoBlock <=> cap = 0
           /\ cap = 0 => buf = NullBuffer
           /\ cap # 0 => /\ buf.data \in Blocks \ DOMAIN h
                        /\ buf.len = len
                        /\ buf.capacity = cap
BY BlocksAssumption DEF NewBuffers, Buffer, NullBuffer

\* What Store does to a heap: nothing without a block, otherwise one new block.
LEMMA StoreFacts ==
    ASSUME NEW h, NEW buf \in Buffer, NEW by, NEW c, NEW what, NEW i,
           buf.data \notin DOMAIN h
    PROVE  /\ buf.data = NoBlock => Store(h, buf, by, c, what, i) = h
           /\ buf.data # NoBlock =>
                /\ DOMAIN Store(h, buf, by, c, what, i) = DOMAIN h \cup {buf.data}
                /\ Store(h, buf, by, c, what, i)[buf.data]
                     = Info(by, buf.capacity, c, what, i)
           /\ \A b \in DOMAIN h : /\ b \in DOMAIN Store(h, buf, by, c, what, i)
                                 /\ Store(h, buf, by, c, what, i)[b] = h[b]
BY DEF Store, Put

\* A length that fits survives the cast to int32.
LEMMA ToInt32Fits ==
    ASSUME NEW n \in Nat, n <= IntMax
    PROVE  ToInt32(n) = n
<1> DEFINE Modulus == 2 * (IntMax + 1)
<1>1. Modulus \in Nat /\ n < Modulus
  BY SizesAssumption
<1>2. n % Modulus = n
  BY <1>1
<1> QED
  BY <1>2, SizesAssumption DEF ToInt32

\* A cast length is an integer that fits.
LEMMA ToInt32Type ==
    ASSUME NEW n \in Nat
    PROVE  ToInt32(n) \in Int
<1> DEFINE Modulus == 2 * (IntMax + 1)
<1>1. Modulus \in Nat /\ Modulus > 0
  BY SizesAssumption
<1>2. n % Modulus \in Nat
  BY <1>1
<1> QED
  BY <1>1, <1>2, SizesAssumption DEF ToInt32

---------------------------------------------------------------------------
(* The other calls. *)

SameLocals(d) ==
    /\ pc'[d] = pc[d]
    /\ fun'[d] = fun[d]
    /\ lowered'[d] = lowered[d]
    /\ copies'[d] = copies[d]
    /\ status'[d] = status[d]
    /\ ret'[d] = ret[d]
    /\ jsStatus'[d] = jsStatus[d]
    /\ view'[d] = view[d]

\* The step changes no block that another call than c made.
HeapFrame(c) ==
    /\ \A b \in DOMAIN heap : heap[b].caller # c =>
         b \in DOMAIN heap' /\ heap'[b] = heap[b]
    /\ \A b \in DOMAIN heap' : heap'[b].caller # c =>
         b \in DOMAIN heap /\ heap'[b] = heap[b]

\* A step that leaves d's locals alone and touches only blocks of c keeps d's
\* invariant.
LEMMA OtherCalls ==
    ASSUME NEW c \in Callers, NEW d \in Callers, d # c,
           SameLocals(d), HeapFrame(c), CallInv(d)
    PROVE  CallInv(d)'
<1> USE DEF SameLocals, CallInv
<1>1. LocalsInv(d)'
  BY DEF LocalsInv
<1>2. ArgsInv(d)'
  BY DEF ArgsInv
<1>3. TrackedInv(d)'
  BY DEF TrackedInv, HeapFrame
<1>4. ASSUME NEW data, NEW info, info.caller = d, Holds(data, info)
      PROVE  data # NoBlock => data \in DOMAIN heap' /\ heap'[data] = info
  BY <1>4 DEF Holds, HeapFrame
<1>5. HoldsLowered(d)'
  <2>1. ASSUME NEW i \in DOMAIN lowered[d]
        PROVE  Holds(lowered[d][i].data,
                     Info("rust", lowered[d][i].byteLength, d, "lowered", i))
    BY DEF HoldsInv, HoldsLowered
  <2> QED BY <1>4, <2>1 DEF HoldsLowered, Holds, Info
<1>6. HoldsCopies(d)'
  <2>1. ASSUME NEW i \in DOMAIN copies[d]
        PROVE  Holds(copies[d][i].data,
                     Info("rust", copies[d][i].capacity, d, "copy", i))
    BY DEF HoldsInv, HoldsCopies
  <2> QED BY <1>4, <2>1 DEF HoldsCopies, Holds, Info
<1>7. HoldsResult(d)'
  BY <1>4 DEF HoldsInv, HoldsResult, Holds, Info
<1>8. HoldsError(d)'
  BY <1>4, SMTT(20) DEF HoldsInv, HoldsError, Holds, Info
<1> QED BY <1>1, <1>2, <1>3, <1>5, <1>6, <1>7, <1>8 DEF HoldsInv

---------------------------------------------------------------------------
(* What each step of a call establishes. *)

\* The obligations of a step of c: types, c's own invariant, and that the step
\* stays within c's locals and blocks.
StepOK(c) ==
    /\ TypeOK'
    /\ CallInv(c)'
    /\ HeapFrame(c)
    /\ \A d \in Callers \ {c} : SameLocals(d)

LEMMA CallKeeps ==
    ASSUME Inv, NEW c \in Callers, NEW f \in Functions, Call(c, f)
    PROVE  StepOK(c)
<1> USE DEF Inv, Call, GoTo
<1>1. TypeOK'
  BY FunctionsAssumption DEF TypeOK, Steps, CallInv, LocalsInv, ArgsInv
<1>2. LocalsInv(c)'
  BY DEF TypeOK, Steps, CallInv, LocalsInv, BeforeReturn, AfterCopyIntoJs, AfterToJs
<1>3. ArgsInv(c)'
  <2>1. lowered[c] = << >> /\ Len(lowered[c]) = 0 /\ DOMAIN copies[c] = {}
    BY DEF CallInv, ArgsInv
  <2>2. fun'[c] = f /\ pc'[c] = "lower" /\ Len(lowered[c]) < Arity[f]
    BY <2>1, FunctionsAssumption DEF TypeOK
  <2> QED BY <2>1, <2>2 DEF ArgsInv, CallInv
<1>4. TrackedInv(c)' /\ HoldsInv(c)'
  BY DEF TypeOK, CallInv, TrackedInv, HoldsInv, HoldsLowered, HoldsCopies,
         HoldsResult, HoldsError, Holds
<1> QED
  BY <1>1, <1>2, <1>3, <1>4
  DEF StepOK, TypeOK, CallInv, HeapFrame, SameLocals

\* Leaving the call is safe once its result and error blocks are gone.
LEMMA LeaveKeeps ==
    ASSUME Inv, NEW c \in Callers, Leave(c), pc' = [pc EXCEPT ![c] = "idle"],
           DOMAIN heap' \subseteq DOMAIN heap,
           \A b \in DOMAIN heap' : heap'[b] = heap[b],
           \A b \in DOMAIN heap : heap[b].caller # c => b \in DOMAIN heap',
           \A b \in DOMAIN heap' : heap[b].caller = c =>
              heap[b].what # "result" /\ heap[b].what # "error"
    PROVE  StepOK(c)
<1> USE DEF Inv, Leave
<1>1. /\ DOMAIN lowered' = Callers /\ DOMAIN copies' = Callers
      /\ pc'[c] = "idle" /\ lowered'[c] = << >> /\ copies'[c] = Empty
      /\ status'[c] = rustSuccess /\ ret'[c] = NullBuffer
      /\ jsStatus'[c] = NewCallStatus /\ view'[c] = EmptyView
      /\ fun' = fun
  BY DEF TypeOK
<1>2. DOMAIN copies'[c] = {} /\ Len(lowered'[c]) = 0 /\ DOMAIN lowered'[c] = {}
  BY <1>1 DEF Empty
<1>3. /\ EmptyView \in View /\ NullBuffer \in Buffer
      /\ rustSuccess \in [code : Codes, error_buf : Buffer]
      /\ NewCallStatus \in [code : Codes, errorBuf : View]
  BY DEF EmptyView, View, NullBuffer, Buffer, rustSuccess, NewCallStatus, Codes, OK
<1>4. TypeOK'
  <2>1. \A b \in DOMAIN heap' : heap'[b] \in BlockInfo
    BY DEF TypeOK
  <2>2. lowered' \in [Callers -> Seq(View)]
    BY DEF TypeOK
  <2>3. \A d \in Callers :
          /\ Len(lowered'[d]) <= Arity[fun'[d]]
          /\ DOMAIN copies'[d] \subseteq DOMAIN lowered'[d]
          /\ \A i \in DOMAIN copies'[d] : copies'[d][i] \in Buffer
    BY <1>1, <1>2, FunctionsAssumption DEF TypeOK
  <2>4. pc' \in [Callers -> Steps]
    BY DEF TypeOK, Steps
  <2> QED BY <1>1, <1>3, <2>1, <2>2, <2>3, <2>4 DEF TypeOK
<1>5. LocalsInv(c)'
  BY <1>1 DEF LocalsInv, BeforeReturn, AfterCopyIntoJs, AfterToJs, NullBuffer,
              rustSuccess, OK
<1>6. ArgsInv(c)'
  BY <1>1, <1>2 DEF ArgsInv
<1>7. TrackedInv(c)'
  BY DEF TrackedInv
<1>8. HoldsInv(c)'
  BY <1>1, <1>2 DEF HoldsInv, HoldsLowered, HoldsCopies, HoldsResult, HoldsError,
                    Holds, NullBuffer, EmptyView, rustSuccess, NewCallStatus
<1>9. HeapFrame(c)
  BY DEF HeapFrame
<1>10. \A d \in Callers \ {c} : SameLocals(d)
  BY DEF SameLocals, TypeOK
<1> QED BY <1>4, <1>5, <1>6, <1>7, <1>8, <1>9, <1>10 DEF StepOK, CallInv

\* The exceptions before Rust is entered: there is no result or error yet.
LEMMA EarlyThrowKeeps ==
    ASSUME Inv, NEW c \in Callers, LowerThrows(c) \/ fromJsThrows(c)
    PROVE  StepOK(c)
<1>1. /\ Leave(c) /\ heap' = heap /\ pc' = [pc EXCEPT ![c] = "idle"]
      /\ pc[c] \in BeforeReturn
  BY DEF LowerThrows, fromJsThrows, GoTo, BeforeReturn
<1>2. ret[c].data = NoBlock /\ status[c].error_buf.data = NoBlock
  BY <1>1 DEF Inv, CallInv, LocalsInv, NullBuffer, rustSuccess
<1>3. \A b \in DOMAIN heap : heap[b].caller = c =>
         heap[b].what # "result" /\ heap[b].what # "error"
  BY <1>2, BlocksAssumption DEF Inv, CallInv, TrackedInv, TypeOK
<1> QED BY <1>1, <1>3, LeaveKeeps

\* A failed status ends the call with nothing to free: Rust returned no buffer,
\* and copyIntoJs has freed the error.
LEMMA CheckThrowsKeeps ==
    ASSUME Inv, NEW c \in Callers, CheckThrows(c)
    PROVE  StepOK(c)
<1>1. /\ Leave(c) /\ heap' = heap /\ pc' = [pc EXCEPT ![c] = "idle"]
      /\ pc[c] = "check" /\ jsStatus[c].code # OK
  BY DEF CheckThrows, GoTo
<1>2. ret[c].data = NoBlock /\ status[c].error_buf.data = NoBlock
  BY <1>1 DEF Inv, CallInv, LocalsInv, NullBuffer, AfterCopyIntoJs
<1>3. \A b \in DOMAIN heap : heap[b].caller = c =>
         heap[b].what # "result" /\ heap[b].what # "error"
  BY <1>2, BlocksAssumption DEF Inv, CallInv, TrackedInv, TypeOK
<1> QED BY <1>1, <1>3, LeaveKeeps

\* The finally block frees the one block the call still owed.
LEMMA FreeKeeps ==
    ASSUME Inv, NEW c \in Callers, rustbuffer_free(c)
    PROVE  StepOK(c)
<1>1. /\ Leave(c) /\ pc' = [pc EXCEPT ![c] = "idle"] /\ pc[c] = "finally"
      /\ heap' = IF view[c].byteLength = 0 THEN heap ELSE Drop(heap, {view[c].data})
  BY DEF rustbuffer_free, GoTo
<1>2. /\ view[c].data = ret[c].data
      /\ view[c].byteLength = 0 <=> ret[c].data = NoBlock
      /\ status[c].error_buf.data = NoBlock
  BY <1>1 DEF Inv, CallInv, LocalsInv, NullBuffer, AfterCopyIntoJs, AfterToJs, TypeOK,
              Buffer
<1>3. \A b \in DOMAIN heap : heap[b].caller = c =>
         /\ heap[b].what = "result" => b = view[c].data
         /\ heap[b].what # "error"
  BY <1>2, BlocksAssumption DEF Inv, CallInv, TrackedInv, TypeOK
<1>4. view[c].byteLength # 0 =>
         view[c].data \in DOMAIN heap /\ heap[view[c].data].caller = c
  <2>1. Holds(view[c].data, Info("rust", FreeCapacity(view[c]), c, "result", 0))
    BY DEF Inv, CallInv, HoldsInv, HoldsResult
  <2>2. Info("rust", FreeCapacity(view[c]), c, "result", 0).caller = c
    BY DEF Info
  <2> QED BY <1>2, <2>1, <2>2 DEF Holds
<1>5. /\ DOMAIN heap' \subseteq DOMAIN heap
      /\ \A b \in DOMAIN heap' : heap'[b] = heap[b]
      /\ \A b \in DOMAIN heap : heap[b].caller # c => b \in DOMAIN heap'
      /\ \A b \in DOMAIN heap' : heap[b].caller = c =>
            heap[b].what # "result" /\ heap[b].what # "error"
  <2>1. CASE view[c].byteLength = 0
    BY <2>1, <1>1, <1>2, <1>3, BlocksAssumption DEF Inv, TypeOK
  <2>2. CASE view[c].byteLength # 0
    BY <2>2, <1>1, <1>3, <1>4 DEF Drop
  <2> QED BY <2>1, <2>2
<1> QED BY <1>1, <1>5, LeaveKeeps

\* Passing the status check and lifting only move the control point.
LEMMA CheckAndLiftKeep ==
    ASSUME Inv, NEW c \in Callers, CheckPasses(c) \/ Lift(c)
    PROVE  StepOK(c)
<1>1. /\ UNCHANGED <<heap, callVars>>
      /\ pc[c] \in {"check", "lift"} /\ pc'[c] \in {"lift", "finally"}
      /\ pc' \in [Callers -> Steps]
      /\ \A d \in Callers \ {c} : pc'[d] = pc[d]
  BY DEF CheckPasses, Lift, GoTo, Inv, TypeOK, Steps
<1> USE <1>1 DEF callVars
<1>2. TypeOK'
  BY DEF Inv, TypeOK
<1>3. LocalsInv(c)'
  BY DEF Inv, CallInv, LocalsInv, BeforeReturn, AfterCopyIntoJs, AfterToJs
<1>4. ArgsInv(c)'
  BY DEF Inv, CallInv, ArgsInv
<1>5. TrackedInv(c)' /\ HoldsInv(c)'
  BY DEF Inv, CallInv, TrackedInv, HoldsInv, HoldsLowered, HoldsCopies, HoldsResult,
         HoldsError, Holds
<1> QED BY <1>2, <1>3, <1>4, <1>5 DEF StepOK, CallInv, HeapFrame, SameLocals

\* The heap keeps its old blocks and gains at most the block data, for this
\* purpose: all that an allocating step of c does to it.
Gains(h, h2, data, info) ==
    /\ data = NoBlock => h2 = h
    /\ data # NoBlock => /\ data \in Blocks \ DOMAIN h
                        /\ DOMAIN h2 = DOMAIN h \cup {data}
                        /\ h2[data] = info
    /\ \A b \in DOMAIN h : b \in DOMAIN h2 /\ h2[b] = h[b]

\* Storing a freshly allocated buffer gains its block.
LEMMA StoreGains ==
    ASSUME NEW h, NEW len \in Nat, NEW cap \in Nat, NEW buf \in NewBuffers(h, len, cap),
           NoBlock \notin DOMAIN h, NEW by, NEW c, NEW what, NEW i
    PROVE  Gains(h, Store(h, buf, by, c, what, i), buf.data,
                 Info(by, buf.capacity, c, what, i))
<1>1. buf \in Buffer /\ buf.data \notin DOMAIN h
  BY NewBufferFacts
<1>2. buf.data # NoBlock => buf.data \in Blocks \ DOMAIN h
  BY NewBufferFacts
<1> QED BY <1>1, <1>2 DEF Gains, Store, Put

\* Lowering one more argument: c gains the argument's block, if it has one.
LEMMA LowerArgKeeps ==
    ASSUME Inv, NEW c \in Callers, LowerArg(c)
    PROVE  StepOK(c)
<1> DEFINE i == Len(lowered[c]) + 1
<1>1. /\ pc[c] = "lower" /\ pc' \in [Callers -> Steps]
      /\ pc'[c] = IF i = Arity[fun[c]] THEN "convert" ELSE "lower"
      /\ \A d \in Callers \ {c} : pc'[d] = pc[d]
      /\ UNCHANGED <<fun, copies, status, ret, jsStatus, view>>
  BY DEF LowerArg, GoTo, Inv, TypeOK, Steps
<1>2. PICK v \in View :
        /\ lowered' = [lowered EXCEPT ![c] = Append(@, v)]
        /\ v.data # NoBlock => v.byteLength <= IntMax
        /\ Gains(heap, heap', v.data, Info("rust", v.byteLength, c, "lowered", i))
  <2>1. PICK n \in ArgLengths :
          \/ rustbuffer_alloc(c, i, n)
          \/ Lowered(c, NoBlock, n) /\ UNCHANGED heap
    BY DEF LowerArg
  <2>2. n \in Nat /\ n # 0
    BY SizesAssumption
  <2>3. CASE rustbuffer_alloc(c, i, n)
    <3>1. PICK buf \in NewBuffers(heap, n, n) :
            /\ n <= IntMax
            /\ heap' = Store(heap, buf, "rust", c, "lowered", i)
            /\ Lowered(c, buf.data, n)
      BY <2>3 DEF rustbuffer_alloc
    <3>2. /\ buf.data \in Blocks \cup {NoBlock} /\ buf.capacity = n
      BY <2>2 DEF NewBuffers, NullBuffer
    <3>3. Gains(heap, heap', buf.data, Info("rust", n, c, "lowered", i))
      BY <2>2, <3>1, <3>2, StoreGains, BlocksAssumption DEF Inv, TypeOK
    <3> DEFINE v == [data |-> buf.data, byteLength |-> n, hint |-> 0]
    <3>4. v \in View /\ v.data = buf.data /\ v.byteLength = n
      BY <2>2, <3>2 DEF View
    <3> QED BY <3>1, <3>3, <3>4 DEF Lowered
  <2>4. CASE Lowered(c, NoBlock, n) /\ UNCHANGED heap
    <3> DEFINE v == [data |-> NoBlock, byteLength |-> n, hint |-> 0]
    <3>1. v \in View /\ v.data = NoBlock
      BY <2>2 DEF View
    <3> QED BY <2>4, <3>1 DEF Lowered, Gains
  <2> QED BY <2>1, <2>3, <2>4
<1>3. /\ lowered[c] \in Seq(View) /\ lowered'[c] = Append(lowered[c], v)
      /\ lowered' \in [Callers -> Seq(View)]
      /\ Len(lowered'[c]) = i /\ i \in Nat
      /\ \A d \in Callers \ {c} : lowered'[d] = lowered[d]
  BY <1>2 DEF Inv, TypeOK
<1>4. /\ DOMAIN lowered[c] = 1..Len(lowered[c]) /\ DOMAIN lowered'[c] = 1..i
      /\ \A k \in DOMAIN lowered[c] : k \in DOMAIN lowered'[c] /\ lowered'[c][k] = lowered[c][k]
      /\ \A k \in DOMAIN lowered'[c] : k \in DOMAIN lowered[c] \/ k = i
      /\ lowered'[c][i] = v
  BY <1>3
<1>5. i <= Arity[fun[c]] /\ DOMAIN copies[c] = {} /\ Arity[fun[c]] \in Nat
  <2>1. Len(lowered[c]) < Arity[fun[c]] /\ DOMAIN copies[c] = {}
    BY <1>1 DEF Inv, CallInv, ArgsInv
  <2>2. Arity[fun[c]] \in Nat /\ Len(lowered[c]) \in Nat
    BY <1>3, FunctionsAssumption DEF Inv, TypeOK
  <2> QED BY <2>1, <2>2
<1>6. TypeOK'
  <2>1. DOMAIN heap' \subseteq Blocks /\ \A b \in DOMAIN heap' : heap'[b] \in BlockInfo
    BY <1>2, <1>3, SMTT(20) DEF Inv, TypeOK, Gains, Info, BlockInfo, Purposes, View
  <2>2. \A d \in Callers :
          /\ Len(lowered'[d]) <= Arity[fun'[d]]
          /\ DOMAIN copies'[d] \subseteq DOMAIN lowered'[d]
          /\ \A k \in DOMAIN copies'[d] : copies'[d][k] \in Buffer
    <3> SUFFICES ASSUME NEW d \in Callers
                 PROVE  /\ Len(lowered'[d]) <= Arity[fun'[d]]
                        /\ DOMAIN copies'[d] \subseteq DOMAIN lowered'[d]
                        /\ \A k \in DOMAIN copies'[d] : copies'[d][k] \in Buffer
      OBVIOUS
    <3>1. fun' = fun /\ copies' = copies
      BY <1>1
    <3>2. CASE d = c
      BY <1>3, <1>5, <3>1, <3>2
    <3>3. CASE d # c
      <4>1. lowered'[d] = lowered[d]
        BY <1>3, <3>3
      <4> QED BY <3>1, <4>1 DEF Inv, TypeOK
    <3> QED BY <3>2, <3>3
  <2> QED BY <1>1, <1>3, <2>1, <2>2 DEF Inv, TypeOK
<1>7. LocalsInv(c)'
  BY <1>1 DEF Inv, CallInv, LocalsInv, BeforeReturn, AfterCopyIntoJs, AfterToJs
<1>8. ArgsInv(c)'
  BY <1>1, <1>2, <1>3, <1>4, <1>5 DEF Inv, CallInv, ArgsInv
<1>9. TrackedInv(c)'
  BY <1>1, <1>2 DEF Inv, CallInv, TrackedInv, Gains, Info
<1>10. HoldsInv(c)'
  <2>1. HoldsLowered(c)'
    BY <1>1, <1>2, <1>4 DEF Inv, CallInv, HoldsInv, HoldsLowered, Holds, Gains
  <2>2. HoldsCopies(c)'
    BY <1>1, <1>5 DEF HoldsCopies
  <2>3. HoldsResult(c)' /\ HoldsError(c)'
    BY <1>1, <1>2 DEF Inv, CallInv, HoldsInv, HoldsResult, HoldsError, Holds, Gains
  <2> QED BY <2>1, <2>2, <2>3 DEF HoldsInv
<1>11. HeapFrame(c)
  BY <1>2 DEF HeapFrame, Gains, Info
<1> QED BY <1>1, <1>3, <1>6, <1>7, <1>8, <1>9, <1>10, <1>11
        DEF StepOK, CallInv, SameLocals

\* Converting one more argument: c gains the block of its copy, and the copy has
\* the argument's length when that length fits.
LEMMA FromJsKeeps ==
    ASSUME Inv, NEW c \in Callers, NEW i \in DOMAIN lowered[c], fromJs(c, i)
    PROVE  StepOK(c)
<1>1. /\ pc[c] = "convert" /\ pc'[c] \in {"convert", "rust"}
      /\ pc' \in [Callers -> Steps]
      /\ \A d \in Callers \ {c} : pc'[d] = pc[d]
      /\ UNCHANGED <<fun, lowered, status, ret, jsStatus, view>>
      /\ i \notin DOMAIN copies[c]
  BY DEF fromJs, GoTo, Inv, TypeOK, Steps
<1>2. lowered[c][i] \in View /\ lowered[c][i].byteLength \in Nat
  <2>1. lowered[c] \in Seq(View)
    BY DEF Inv, TypeOK
  <2>2. lowered[c][i] \in View
    BY <2>1
  <2> QED BY <2>2 DEF View
<1> DEFINE len == ToInt32(lowered[c][i].byteLength)
           size == IF len < 0 THEN 0 ELSE len
<1>3. size \in Nat
  <2>1. len \in Int
    BY <1>2, ToInt32Type
  <2> HIDE DEF len
  <2> QED BY <2>1
<1>4. PICK buf \in NewBuffers(heap, size, size) :
        /\ heap' = Store(heap, buf, "rust", c, "copy", i)
        /\ copies' = [copies EXCEPT ![c] = Put(copies[c], i, buf)]
  BY DEF fromJs
<1>5. buf \in Buffer /\ buf.len = size
  BY <1>3 DEF NewBuffers, NullBuffer, Buffer
<1>6. Gains(heap, heap', buf.data, Info("rust", buf.capacity, c, "copy", i))
  BY <1>3, <1>4, StoreGains, BlocksAssumption DEF Inv, TypeOK
<1>7. lowered[c][i].data # NoBlock => buf.len = lowered[c][i].byteLength
  <2>1. SUFFICES ASSUME lowered[c][i].data # NoBlock
                 PROVE  size = lowered[c][i].byteLength
    BY <1>5
  <2>2. lowered[c][i].byteLength <= IntMax
    BY <2>1 DEF Inv, CallInv, ArgsInv
  <2> QED BY <1>2, <2>2, ToInt32Fits
<1>8. /\ copies'[c] = Put(copies[c], i, buf) /\ DOMAIN copies' = Callers
      /\ \A d \in Callers \ {c} : copies'[d] = copies[d]
  BY <1>4 DEF Inv, TypeOK
<1>9. /\ DOMAIN copies'[c] = DOMAIN copies[c] \cup {i}
      /\ copies'[c][i] = buf
      /\ \A k \in DOMAIN copies[c] : copies'[c][k] = copies[c][k]
  BY <1>1, <1>8 DEF Put
<1>10. TypeOK'
  <2>1. DOMAIN heap' \subseteq Blocks /\ \A b \in DOMAIN heap' : heap'[b] \in BlockInfo
    <3>1. i \in Nat
      BY DEF Inv, TypeOK
    <3>2. Info("rust", buf.capacity, c, "copy", i) \in BlockInfo
      BY <1>5, <3>1 DEF Info, BlockInfo, Purposes, Buffer
    <3> QED BY <1>6, <3>2 DEF Inv, TypeOK, Gains
  <2>2. \A d \in Callers :
          /\ Len(lowered'[d]) <= Arity[fun'[d]]
          /\ DOMAIN copies'[d] \subseteq DOMAIN lowered'[d]
          /\ \A k \in DOMAIN copies'[d] : copies'[d][k] \in Buffer
    <3> SUFFICES ASSUME NEW d \in Callers
                 PROVE  /\ Len(lowered'[d]) <= Arity[fun'[d]]
                        /\ DOMAIN copies'[d] \subseteq DOMAIN lowered'[d]
                        /\ \A k \in DOMAIN copies'[d] : copies'[d][k] \in Buffer
      OBVIOUS
    <3>1. CASE d = c
      BY <3>1, <1>1, <1>5, <1>9 DEF Inv, TypeOK
    <3>2. CASE d # c
      BY <3>2, <1>1, <1>8 DEF Inv, TypeOK
    <3> QED BY <3>1, <3>2
  <2> QED BY <1>1, <1>8, <2>1, <2>2 DEF Inv, TypeOK
<1>11. LocalsInv(c)'
  BY <1>1 DEF Inv, CallInv, LocalsInv, BeforeReturn, AfterCopyIntoJs, AfterToJs
<1>12. ArgsInv(c)'
  BY <1>1, <1>7, <1>9 DEF Inv, CallInv, ArgsInv
<1>13. TrackedInv(c)'
  BY <1>1, <1>6 DEF Inv, CallInv, TrackedInv, Gains, Info
<1>14. HoldsInv(c)'
  <2>1. HoldsLowered(c)'
    BY <1>1, <1>6 DEF Inv, CallInv, HoldsInv, HoldsLowered, Holds, Gains
  <2>2. HoldsCopies(c)'
    BY <1>6, <1>9 DEF Inv, CallInv, HoldsInv, HoldsCopies, Holds, Gains
  <2>3. HoldsResult(c)' /\ HoldsError(c)'
    BY <1>1, <1>6 DEF Inv, CallInv, HoldsInv, HoldsResult, HoldsError, Holds, Gains
  <2> QED BY <2>1, <2>2, <2>3 DEF HoldsInv
<1>15. HeapFrame(c)
  BY <1>6 DEF HeapFrame, Gains, Info
<1> QED BY <1>1, <1>8, <1>10, <1>11, <1>12, <1>13, <1>14, <1>15
        DEF StepOK, CallInv, SameLocals

\* Rust consumes the copies of this call and no other block.
LEMMA ConsumedFacts ==
    ASSUME Inv, NEW c \in Callers
    PROVE  /\ DOMAIN Consumed(c) \subseteq DOMAIN heap
           /\ \A b \in DOMAIN Consumed(c) : Consumed(c)[b] = heap[b]
           /\ \A b \in DOMAIN heap :
                heap[b].caller # c \/ heap[b].what # "copy" => b \in DOMAIN Consumed(c)
<1>1. \A b \in CopyBlocks(c) : heap[b].caller = c /\ heap[b].what = "copy"
  <2>1. SUFFICES ASSUME NEW i \in DOMAIN copies[c], copies[c][i].data # NoBlock
                 PROVE  /\ heap[copies[c][i].data].caller = c
                        /\ heap[copies[c][i].data].what = "copy"
    BY DEF CopyBlocks
  <2>2. Holds(copies[c][i].data, Info("rust", copies[c][i].capacity, c, "copy", i))
    BY DEF Inv, CallInv, HoldsInv, HoldsCopies
  <2> QED BY <2>1, <2>2 DEF Holds, Info
<1> QED BY <1>1 DEF Consumed, Drop

\* What the outcomes of the Rust call have in common: the copies are gone, and c
\* gains the block data for the purpose what, a result or an error.
RustOutcome(c, data, capacity, what) ==
    /\ pc[c] = "rust" /\ pc'[c] = "status" /\ pc' \in [Callers -> Steps]
    /\ \A d \in Callers \ {c} : pc'[d] = pc[d]
    /\ UNCHANGED <<fun, lowered, jsStatus, view>>
    /\ copies' = [copies EXCEPT ![c] = Empty]
    /\ capacity \in Nat
    /\ Gains(Consumed(c), heap', data, Info("rust", capacity, c, what, 0))

\* The parts of a step's obligations that hold whatever the outcome is.
LEMMA RustOutcomeKeeps ==
    ASSUME Inv, NEW c \in Callers, NEW data, NEW capacity, NEW what \in {"result", "error"},
           RustOutcome(c, data, capacity, what)
    PROVE  /\ DOMAIN heap' \subseteq Blocks
           /\ \A b \in DOMAIN heap' : heap'[b] \in BlockInfo
           /\ DOMAIN copies' = Callers
           /\ \A d \in Callers :
                /\ Len(lowered'[d]) <= Arity[fun'[d]]
                /\ DOMAIN copies'[d] \subseteq DOMAIN lowered'[d]
                /\ \A i \in DOMAIN copies'[d] : copies'[d][i] \in Buffer
           /\ \A d \in Callers \ {c} : copies'[d] = copies[d]
           /\ ArgsInv(c)'
           /\ HoldsLowered(c)' /\ HoldsCopies(c)'
           /\ HeapFrame(c)
           /\ \A b \in DOMAIN heap : heap[b].caller # c \/ heap[b].what # "copy" =>
                b \in DOMAIN heap' /\ heap'[b] = heap[b]
           /\ \A b \in DOMAIN heap' :
                \/ b \in DOMAIN heap /\ heap'[b] = heap[b]
                \/ b = data /\ heap'[b] = Info("rust", capacity, c, what, 0)
<1> USE DEF RustOutcome
<1>1. /\ \A b \in DOMAIN heap : heap[b].caller # c \/ heap[b].what # "copy" =>
            b \in DOMAIN heap' /\ heap'[b] = heap[b]
      /\ \A b \in DOMAIN heap' :
            \/ b \in DOMAIN heap /\ heap'[b] = heap[b]
            \/ /\ b = data /\ data \in Blocks
               /\ heap'[b] = Info("rust", capacity, c, what, 0)
  BY ConsumedFacts DEF Gains
<1>2. Info("rust", capacity, c, what, 0) \in BlockInfo
  BY DEF Info, BlockInfo, Purposes
<1>3. DOMAIN heap' \subseteq Blocks /\ \A b \in DOMAIN heap' : heap'[b] \in BlockInfo
  BY <1>1, <1>2 DEF Inv, TypeOK
<1>4. /\ DOMAIN copies' = Callers /\ DOMAIN copies'[c] = {}
      /\ \A d \in Callers \ {c} : copies'[d] = copies[d]
  BY DEF Inv, TypeOK, Empty
<1>5. \A d \in Callers :
        /\ Len(lowered'[d]) <= Arity[fun'[d]]
        /\ DOMAIN copies'[d] \subseteq DOMAIN lowered'[d]
        /\ \A i \in DOMAIN copies'[d] : copies'[d][i] \in Buffer
  BY <1>4 DEF Inv, TypeOK
<1>6. ArgsInv(c)'
  BY <1>4 DEF Inv, CallInv, ArgsInv
<1>7. HoldsLowered(c)'
  BY <1>1 DEF Inv, CallInv, HoldsInv, HoldsLowered, Holds, Info
<1>8. HoldsCopies(c)'
  BY <1>4 DEF HoldsCopies
<1>9. HeapFrame(c)
  BY <1>1 DEF HeapFrame, Info
<1> QED BY <1>1, <1>3, <1>4, <1>5, <1>6, <1>7, <1>8, <1>9

\* An outcome whose buffer was allocated after the copies were consumed.
LEMMA OutcomeOfStore ==
    ASSUME Inv, NEW c \in Callers, NEW s \in [len : Nat, cap : Nat],
           NEW what \in {"result", "error"}, NEW buf \in NewBuffers(Consumed(c), s.len, s.cap),
           heap' = Store(Consumed(c), buf, "rust", c, what, 0), GoTo(c, "rust", "status"),
           copies' = [copies EXCEPT ![c] = Empty],
           UNCHANGED <<fun, lowered, jsStatus, view>>
    PROVE  RustOutcome(c, buf.data, buf.capacity, what)
<1>1. NoBlock \notin DOMAIN Consumed(c)
  BY ConsumedFacts, BlocksAssumption DEF Inv, TypeOK
<1>2. s.len \in Nat /\ s.cap \in Nat
  OBVIOUS
<1>3. Gains(Consumed(c), heap', buf.data, Info("rust", buf.capacity, c, what, 0))
  BY <1>1, <1>2, StoreGains
<1>4. buf.capacity \in Nat
  BY <1>2 DEF NewBuffers, NullBuffer
<1> QED BY <1>3, <1>4 DEF RustOutcome, GoTo, Inv, TypeOK, Steps

\* A successful call: the block c gains is the result ret refers to.
LEMMA RustReturnsKeeps ==
    ASSUME Inv, NEW c \in Callers, RustReturns(c)
    PROVE  StepOK(c)
<1>0. PICK s \in ReturnSizes : \E buf \in NewBuffers(Consumed(c), s.len, s.cap) :
        /\ heap' = Store(Consumed(c), buf, "rust", c, "result", 0)
        /\ ret' = [ret EXCEPT ![c] = buf]
  BY DEF RustReturns
<1>1. PICK buf \in NewBuffers(Consumed(c), s.len, s.cap) :
        /\ heap' = Store(Consumed(c), buf, "rust", c, "result", 0)
        /\ ret' = [ret EXCEPT ![c] = buf]
  BY <1>0
<1>2. /\ s.len \in Nat /\ s.cap \in Nat
      /\ s.len = 0 => s.cap = 0
      /\ s.len <= s.cap
  BY SizesAssumption, NonEmptyResults DEF Sizes
<1>3. /\ buf \in Buffer /\ buf.capacity \in Nat
      /\ buf.data = NoBlock => buf.len = 0
      /\ buf.data # NoBlock => buf.len > 0
      /\ buf.len <= buf.capacity
  BY <1>2, BlocksAssumption DEF NewBuffers, NullBuffer, Buffer
<1>4. RustOutcome(c, buf.data, buf.capacity, "result")
  <2>1. s \in [len : Nat, cap : Nat]
    BY SizesAssumption DEF Sizes
  <2> QED BY <1>1, <2>1, OutcomeOfStore DEF RustReturns
<1>5. /\ ret'[c] = buf /\ ret' \in [Callers -> Buffer]
      /\ \A d \in Callers \ {c} : ret'[d] = ret[d]
      /\ pc[c] = "rust" /\ pc'[c] = "status" /\ pc' \in [Callers -> Steps]
      /\ UNCHANGED <<fun, lowered, status, jsStatus, view>>
      /\ \A d \in Callers \ {c} : pc'[d] = pc[d]
  BY <1>1, <1>3, <1>4 DEF RustReturns, RustOutcome, Inv, TypeOK
<1>6. /\ status[c] = rustSuccess /\ jsStatus[c] = NewCallStatus /\ view[c] = EmptyView
      /\ ret[c] = NullBuffer
  BY <1>5 DEF Inv, CallInv, LocalsInv, BeforeReturn, AfterToJs
<1>7. TypeOK'
  BY <1>4, <1>5, RustOutcomeKeeps DEF Inv, TypeOK
<1>8. LocalsInv(c)'
  BY <1>3, <1>5, <1>6
  DEF LocalsInv, BeforeReturn, AfterCopyIntoJs, AfterToJs, rustSuccess, OK
<1>9. TrackedInv(c)'
  <2>1. \A b \in DOMAIN heap : heap[b].caller = c =>
          heap[b].what # "result" /\ heap[b].what # "error"
    BY <1>6, BlocksAssumption DEF Inv, TypeOK, CallInv, TrackedInv, NullBuffer, rustSuccess
  <2>2. \A b \in DOMAIN heap' :
          \/ b \in DOMAIN heap /\ heap'[b] = heap[b]
          \/ b = buf.data /\ heap'[b] = Info("rust", buf.capacity, c, "result", 0)
    BY <1>4, RustOutcomeKeeps
  <2> QED BY <1>5, <2>1, <2>2 DEF TrackedInv, Info
<1>10. HoldsResult(c)' /\ HoldsError(c)'
  BY <1>4, <1>5, <1>6
  DEF HoldsResult, HoldsError, Holds, RustOutcome, Gains, rustSuccess, NewCallStatus,
      EmptyView, NullBuffer
<1> QED BY <1>4, <1>5, <1>7, <1>8, <1>9, <1>10, RustOutcomeKeeps
        DEF StepOK, CallInv, HoldsInv, SameLocals

\* A failed call: the block c gains, if any, is the error its status refers to.
LEMMA RustFailsKeeps ==
    ASSUME Inv, NEW c \in Callers, NEW code \in Codes \ {OK},
           NEW s \in [len : Nat, cap : Nat], RustFails(c, code, s)
    PROVE  StepOK(c)
<1>1. PICK buf \in NewBuffers(Consumed(c), s.len, s.cap) :
        /\ heap' = Store(Consumed(c), buf, "rust", c, "error", 0)
        /\ status' = [status EXCEPT ![c] = [code |-> code, error_buf |-> buf]]
  BY DEF RustFails
<1>2. s.len \in Nat /\ s.cap \in Nat
  OBVIOUS
<1>3. /\ buf \in Buffer /\ buf.capacity \in Nat
      /\ buf.data = NoBlock => buf = NullBuffer
  BY <1>2, BlocksAssumption DEF NewBuffers, NullBuffer, Buffer
<1>4. RustOutcome(c, buf.data, buf.capacity, "error")
  BY <1>1, OutcomeOfStore DEF RustFails
<1>5. /\ status'[c] = [code |-> code, error_buf |-> buf]
      /\ status' \in [Callers -> [code : Codes, error_buf : Buffer]]
      /\ \A d \in Callers \ {c} : status'[d] = status[d]
      /\ pc[c] = "rust" /\ pc'[c] = "status" /\ pc' \in [Callers -> Steps]
      /\ UNCHANGED <<fun, lowered, ret, jsStatus, view>>
      /\ \A d \in Callers \ {c} : pc'[d] = pc[d]
  BY <1>1, <1>3, <1>4 DEF RustFails, RustOutcome, Inv, TypeOK
<1>6. /\ status[c] = rustSuccess /\ jsStatus[c] = NewCallStatus /\ view[c] = EmptyView
      /\ ret[c] = NullBuffer
  BY <1>5 DEF Inv, CallInv, LocalsInv, BeforeReturn, AfterToJs
<1>7. TypeOK'
  BY <1>4, <1>5, RustOutcomeKeeps DEF Inv, TypeOK
<1>8. LocalsInv(c)'
  BY <1>3, <1>5, <1>6
  DEF LocalsInv, BeforeReturn, AfterCopyIntoJs, AfterToJs, NullBuffer
<1>9. TrackedInv(c)'
  <2>1. \A b \in DOMAIN heap : heap[b].caller = c =>
          heap[b].what # "result" /\ heap[b].what # "error"
    BY <1>6, BlocksAssumption DEF Inv, TypeOK, CallInv, TrackedInv, NullBuffer, rustSuccess
  <2>2. \A b \in DOMAIN heap' :
          \/ b \in DOMAIN heap /\ heap'[b] = heap[b]
          \/ b = buf.data /\ heap'[b] = Info("rust", buf.capacity, c, "error", 0)
    BY <1>4, RustOutcomeKeeps
  <2> QED BY <1>5, <2>1, <2>2 DEF TrackedInv, Info
<1>10. HoldsResult(c)' /\ HoldsError(c)'
  BY <1>4, <1>5, <1>6
  DEF HoldsResult, HoldsError, Holds, RustOutcome, Gains, NewCallStatus,
      EmptyView, NullBuffer
<1> QED BY <1>4, <1>5, <1>7, <1>8, <1>9, <1>10, RustOutcomeKeeps
        DEF StepOK, CallInv, HoldsInv, SameLocals

\* copyIntoJs swaps the Rust error block for its copy, or leaves the heap alone.
LEMMA CopyIntoJsKeeps ==
    ASSUME Inv, NEW c \in Callers, copyIntoJs(c)
    PROVE  StepOK(c)
<1> DEFINE err == status[c].error_buf
<1>1. /\ pc[c] = "status" /\ pc'[c] = "view" /\ pc' \in [Callers -> Steps]
      /\ \A d \in Callers \ {c} : pc'[d] = pc[d]
      /\ UNCHANGED <<fun, lowered, copies, ret, view>>
  BY DEF copyIntoJs, GoTo, Inv, TypeOK, Steps
<1>2. /\ jsStatus[c] = NewCallStatus /\ view[c] = EmptyView
      /\ status[c] \in [code : Codes, error_buf : Buffer] /\ err \in Buffer
      /\ status[c].code = OK => err = NullBuffer
  BY <1>1 DEF Inv, TypeOK, CallInv, LocalsInv, BeforeReturn, AfterToJs
<1> DEFINE v == jsStatus'[c].errorBuf
<1>3. /\ status'[c] = [code |-> status[c].code, error_buf |-> NullBuffer]
      /\ status' \in [Callers -> [code : Codes, error_buf : Buffer]]
      /\ \A d \in Callers \ {c} : status'[d] = status[d]
      /\ jsStatus'[c].code = status[c].code
      /\ jsStatus' \in [Callers -> [code : Codes, errorBuf : View]]
      /\ \A d \in Callers \ {c} : jsStatus'[d] = jsStatus[d]
      /\ DOMAIN heap' \subseteq Blocks
      /\ \A x \in DOMAIN heap : heap[x].caller # c \/ heap[x].what # "error" =>
            x \in DOMAIN heap' /\ heap'[x] = heap[x]
      /\ \A x \in DOMAIN heap' :
            \/ x \in DOMAIN heap /\ heap'[x] = heap[x] /\ x # err.data
            \/ x = v.data /\ heap'[x] = Info("cxx", v.byteLength, c, "errorCopy", 0)
      /\ Holds(jsStatus[c].errorBuf.data,
               Info("cxx", jsStatus[c].errorBuf.byteLength, c, "errorCopy", 0))'
  <2>1. CASE err.data = NoBlock
    <3>1. /\ heap' = heap /\ status' = status
          /\ jsStatus' = [jsStatus EXCEPT ![c].code = status[c].code]
      BY <2>1 DEF copyIntoJs
    <3>2. err = NullBuffer
      BY <1>2, <2>1 DEF Inv, CallInv, LocalsInv
    <3>3. /\ jsStatus'[c] = [code |-> status[c].code, errorBuf |-> EmptyView]
          /\ jsStatus' \in [Callers -> [code : Codes, errorBuf : View]]
          /\ \A d \in Callers \ {c} : jsStatus'[d] = jsStatus[d]
      BY <1>2, <3>1 DEF Inv, TypeOK, NewCallStatus
    <3>4. \A x \in DOMAIN heap' : x \in DOMAIN heap /\ heap'[x] = heap[x] /\ x # err.data
      BY <2>1, <3>1, BlocksAssumption DEF Inv, TypeOK
    <3>5. status'[c] = [code |-> status[c].code, error_buf |-> NullBuffer]
      BY <1>2, <3>1, <3>2
    <3>6. Holds(jsStatus[c].errorBuf.data,
                Info("cxx", jsStatus[c].errorBuf.byteLength, c, "errorCopy", 0))'
      BY <3>3 DEF Holds, EmptyView
    <3>7. /\ status' \in [Callers -> [code : Codes, error_buf : Buffer]]
          /\ DOMAIN heap' \subseteq Blocks
          /\ \A x \in DOMAIN heap : x \in DOMAIN heap' /\ heap'[x] = heap[x]
          /\ \A d \in Callers \ {c} : status'[d] = status[d]
          /\ jsStatus'[c].code = status[c].code
      BY <3>1, <3>3 DEF Inv, TypeOK
    <3> QED BY <3>3, <3>4, <3>5, <3>6, <3>7
  <2>2. CASE err.data # NoBlock
    <3>1. PICK b \in Blocks \ DOMAIN heap :
            /\ heap' = Put(Drop(heap, {err.data}), b,
                           Info("cxx", err.len, c, "errorCopy", 0))
            /\ jsStatus' = [jsStatus EXCEPT ![c] =
                 [code |-> status[c].code,
                  errorBuf |-> [data |-> b, byteLength |-> err.len, hint |-> 0]]]
            /\ status' = [status EXCEPT ![c].error_buf = NullBuffer]
      BY <2>2 DEF copyIntoJs
    <3>2. /\ DOMAIN heap' = (DOMAIN heap \ {err.data}) \cup {b}
          /\ heap'[b] = Info("cxx", err.len, c, "errorCopy", 0)
          /\ \A x \in DOMAIN heap \ {err.data} : heap'[x] = heap[x]
      BY <3>1 DEF Put, Drop
    <3>3. heap[err.data].caller = c /\ heap[err.data].what = "error"
      <4>1. Holds(err.data, Info("rust", err.capacity, c, "error", 0))
        BY DEF Inv, CallInv, HoldsInv, HoldsError
      <4> QED BY <2>2, <4>1 DEF Holds, Info
    <3>4. /\ status'[c] = [code |-> status[c].code, error_buf |-> NullBuffer]
          /\ status' \in [Callers -> [code : Codes, error_buf : Buffer]]
          /\ \A d \in Callers \ {c} : status'[d] = status[d]
      BY <1>2, <3>1 DEF Inv, TypeOK, NullBuffer, Buffer
    <3>5. [data |-> b, byteLength |-> err.len, hint |-> 0] \in View
      BY <1>2 DEF View, Buffer
    <3>6. /\ jsStatus'[c] = [code |-> status[c].code,
                errorBuf |-> [data |-> b, byteLength |-> err.len, hint |-> 0]]
          /\ jsStatus' \in [Callers -> [code : Codes, errorBuf : View]]
          /\ \A d \in Callers \ {c} : jsStatus'[d] = jsStatus[d]
      BY <1>2, <3>1, <3>5 DEF Inv, TypeOK
    <3>7. v.data = b /\ v.byteLength = err.len
      BY <3>6
    <3> QED BY <3>2, <3>3, <3>4, <3>6, <3>7 DEF Inv, TypeOK, Holds
  <2> QED BY <2>1, <2>2
<1>4. /\ v \in View /\ err.len \in Nat
      /\ v.byteLength \in Nat
  BY <1>2, <1>3 DEF View, Buffer
<1>5. TypeOK'
  <2>1. Info("cxx", v.byteLength, c, "errorCopy", 0) \in BlockInfo
    BY <1>4 DEF Info, BlockInfo, Purposes
  <2>2. \A x \in DOMAIN heap' : heap'[x] \in BlockInfo
    BY <1>3, <2>1 DEF Inv, TypeOK
  <2> QED BY <1>1, <1>3, <2>2 DEF Inv, TypeOK
<1>6. LocalsInv(c)'
  BY <1>1, <1>2, <1>3 DEF Inv, CallInv, LocalsInv, BeforeReturn, AfterCopyIntoJs, AfterToJs
<1>7. ArgsInv(c)'
  BY <1>1 DEF Inv, CallInv, ArgsInv
<1>8. TrackedInv(c)'
  BY <1>1, <1>3 DEF Inv, CallInv, TrackedInv, Info
<1>9. HoldsInv(c)'
  <2>1. \A data, info : (info.caller = c /\ info.what # "error" /\ Holds(data, info))
            => (data # NoBlock => data \in DOMAIN heap' /\ heap'[data] = info)
    BY <1>3 DEF Holds
  <2>2. HoldsLowered(c)'
    BY <1>1, <2>1 DEF Inv, CallInv, HoldsInv, HoldsLowered, Holds, Info
  <2>3. HoldsCopies(c)'
    BY <1>1, <2>1 DEF Inv, CallInv, HoldsInv, HoldsCopies, Holds, Info
  <2>4. HoldsResult(c)'
    BY <1>1, <2>1 DEF Inv, CallInv, HoldsInv, HoldsResult, Holds, Info
  <2>5. HoldsError(c)'
    BY <1>3 DEF HoldsError, Holds, NullBuffer
  <2> QED BY <2>2, <2>3, <2>4, <2>5 DEF HoldsInv
<1>10. HeapFrame(c)
  BY <1>3 DEF HeapFrame, Info
<1> QED BY <1>1, <1>3, <1>5, <1>6, <1>7, <1>8, <1>9, <1>10 DEF StepOK, CallInv, SameLocals

\* The view stands for the result, with the capacity it will be freed with.
LEMMA ToJsKeeps ==
    ASSUME Inv, NEW c \in Callers, toJs(c)
    PROVE  StepOK(c)
<1> DEFINE v == [data |-> ret[c].data, byteLength |-> ret[c].len,
                 hint |-> IF ret[c].capacity # ret[c].len THEN ret[c].capacity ELSE 0]
<1>1. /\ pc[c] = "view" /\ pc'[c] = "check" /\ pc' \in [Callers -> Steps]
      /\ \A d \in Callers \ {c} : pc'[d] = pc[d]
      /\ UNCHANGED <<heap, fun, lowered, copies, status, ret, jsStatus>>
      /\ view' = [view EXCEPT ![c] = v]
  BY DEF toJs, GoTo, Inv, TypeOK, Steps
<1>2. ret[c] \in Buffer
  BY DEF Inv, TypeOK
<1>3. /\ v \in View /\ v.data = ret[c].data /\ v.byteLength = ret[c].len
      /\ FreeCapacity(v) = ret[c].capacity
  <2>1. ret[c].len <= ret[c].capacity /\ ret[c].len \in Nat /\ ret[c].capacity \in Nat
    BY <1>2 DEF Inv, CallInv, LocalsInv, Buffer
  <2> QED BY <1>2, <2>1 DEF View, Buffer, FreeCapacity
<1>4. /\ view'[c] = v /\ view' \in [Callers -> View]
      /\ \A d \in Callers \ {c} : view'[d] = view[d]
  BY <1>1, <1>3 DEF Inv, TypeOK
<1> HIDE DEF v
<1>5. TypeOK'
  BY <1>1, <1>4 DEF Inv, TypeOK
<1>6. LocalsInv(c)'
  BY <1>1, <1>3, <1>4
  DEF Inv, CallInv, LocalsInv, BeforeReturn, AfterCopyIntoJs, AfterToJs, FreeCapacity
<1>7. ArgsInv(c)'
  BY <1>1 DEF Inv, CallInv, ArgsInv
<1>8. TrackedInv(c)'
  BY <1>1 DEF Inv, CallInv, TrackedInv
<1>9. HoldsInv(c)'
  <2>1. HoldsLowered(c)' /\ HoldsCopies(c)' /\ HoldsError(c)'
    BY <1>1
    DEF Inv, CallInv, HoldsInv, HoldsLowered, HoldsCopies, HoldsError, Holds
  <2>2. HoldsResult(c)'
    BY <1>1, <1>3, <1>4 DEF Inv, CallInv, HoldsInv, HoldsResult, Holds, FreeCapacity
  <2> QED BY <2>1, <2>2 DEF HoldsInv
<1> QED BY <1>1, <1>4, <1>5, <1>6, <1>7, <1>8, <1>9
        DEF StepOK, CallInv, HeapFrame, SameLocals

---------------------------------------------------------------------------
(* The theorems. *)

\* Nothing allocated, every runtime idle: the state a process starts in.
IdleState ==
    /\ heap = Empty
    /\ pc = [c \in Callers |-> "idle"]
    /\ fun \in [Callers -> Functions]
    /\ lowered = [c \in Callers |-> << >>]
    /\ copies = [c \in Callers |-> Empty]
    /\ status = [c \in Callers |-> rustSuccess]
    /\ ret = [c \in Callers |-> NullBuffer]
    /\ jsStatus = [c \in Callers |-> NewCallStatus]
    /\ view = [c \in Callers |-> EmptyView]

\* That state satisfies the invariant.
LEMMA IdleInv == IdleState => Inv
<1> SUFFICES ASSUME IdleState PROVE Inv
  OBVIOUS
<1> USE DEF IdleState
<1>1. DOMAIN heap = {} /\ \A c \in Callers : DOMAIN copies[c] = {}
  BY DEF Empty
<1>2. /\ EmptyView \in View /\ NullBuffer \in Buffer
      /\ rustSuccess \in [code : Codes, error_buf : Buffer]
      /\ NewCallStatus \in [code : Codes, errorBuf : View]
  BY DEF EmptyView, View, NullBuffer, Buffer, rustSuccess, NewCallStatus, Codes, OK
<1>3. TypeOK
  BY <1>1, <1>2, FunctionsAssumption DEF TypeOK, Steps
<1>4. SUFFICES ASSUME NEW c \in Callers PROVE CallInv(c)
  BY <1>3 DEF Inv
<1>5. LocalsInv(c)
  BY DEF LocalsInv, BeforeReturn, AfterCopyIntoJs, AfterToJs, NullBuffer, rustSuccess, OK
<1>6. ArgsInv(c)
  BY <1>1 DEF ArgsInv
<1>7. TrackedInv(c)
  BY <1>1 DEF TrackedInv
<1>8. HoldsInv(c)
  BY <1>1 DEF HoldsInv, HoldsLowered, HoldsCopies, HoldsResult, HoldsError, Holds,
              NullBuffer, EmptyView, rustSuccess, NewCallStatus
<1> QED BY <1>5, <1>6, <1>7, <1>8 DEF CallInv

\* Every step of a call meets its obligations.
LEMMA CallStepKeeps ==
    ASSUME Inv, NEW c \in Callers, CallStep(c) \/ \E f \in Functions : Call(c, f)
    PROVE  StepOK(c)
<1>1. CASE LowerArg(c)
  BY <1>1, LowerArgKeeps
<1>2. CASE LowerThrows(c) \/ fromJsThrows(c)
  BY <1>2, EarlyThrowKeeps
<1>3. CASE \E i \in DOMAIN lowered[c] : fromJs(c, i)
  BY <1>3, FromJsKeeps
<1>4. CASE RustReturns(c)
  BY <1>4, RustReturnsKeeps
<1>5. CASE RustRefuses(c)
  <2>1. PICK s \in ErrorSizes : RustFails(c, CALL_ERROR, s)
    BY <1>5 DEF RustRefuses
  <2>2. s \in [len : Nat, cap : Nat] /\ CALL_ERROR \in Codes \ {OK}
    BY SizesAssumption DEF Sizes, Codes, CALL_ERROR, OK
  <2> QED BY <2>1, <2>2, RustFailsKeeps
<1>6. CASE RustPanics(c)
  <2>1. PICK s \in ErrorSizes \cup {[len |-> 0, cap |-> 0]} : RustFails(c, CALL_PANIC, s)
    BY <1>6 DEF RustPanics
  <2>2. s \in [len : Nat, cap : Nat] /\ CALL_PANIC \in Codes \ {OK}
    BY SizesAssumption DEF Sizes, Codes, CALL_PANIC, OK
  <2> QED BY <2>1, <2>2, RustFailsKeeps
<1>7. CASE copyIntoJs(c)
  BY <1>7, CopyIntoJsKeeps
<1>8. CASE toJs(c)
  BY <1>8, ToJsKeeps
<1>9. CASE CheckThrows(c)
  BY <1>9, CheckThrowsKeeps
<1>10. CASE CheckPasses(c) \/ Lift(c)
  BY <1>10, CheckAndLiftKeep
<1>11. CASE rustbuffer_free(c)
  BY <1>11, FreeKeeps
<1>12. CASE \E f \in Functions : Call(c, f)
  BY <1>12, CallKeeps
<1> QED BY <1>1, <1>2, <1>3, <1>4, <1>5, <1>6, <1>7, <1>8, <1>9, <1>10, <1>11, <1>12
        DEF CallStep

\* The invariant holds initially.
THEOREM InitInv == Init => Inv
BY IdleInv DEF Init, IdleState

\* Every step keeps the invariant.
THEOREM NextInv == Inv /\ [Next]_vars => Inv'
<1> SUFFICES ASSUME Inv, [Next]_vars PROVE Inv'
  OBVIOUS
<1>1. ASSUME NEW c \in Callers, CallStep(c) \/ \E f \in Functions : Call(c, f)
      PROVE  Inv'
  <2>1. StepOK(c)
    BY <1>1, CallStepKeeps
  <2>2. ASSUME NEW d \in Callers PROVE CallInv(d)'
    <3>1. CASE d = c
      BY <2>1, <3>1 DEF StepOK
    <3>2. CASE d # c
      BY <2>1, <3>2, OtherCalls DEF StepOK, Inv
    <3> QED BY <3>1, <3>2
  <2> QED BY <2>1, <2>2 DEF StepOK, Inv
<1>2. CASE ProcessDies
  <2>1. IdleState'
    BY <1>2 DEF ProcessDies, IdleState, Inv, TypeOK
  <2>2. (IdleState => Inv)'
    BY IdleInv, PTL
  <2> QED BY <2>1, <2>2
<1>3. CASE UNCHANGED vars
  BY <1>3 DEF vars, Inv, TypeOK, CallInv, LocalsInv, ArgsInv, TrackedInv, HoldsInv,
              HoldsLowered, HoldsCopies, HoldsResult, HoldsError, Holds
<1> QED BY <1>1, <1>2, <1>3 DEF Next

\* Every reachable state satisfies the invariant.
THEOREM SpecInv == Spec => []Inv
<1>1. Init => Inv
  BY InitInv
<1>2. Inv /\ [Next]_vars => Inv'
  BY NextInv
<1> QED BY <1>1, <1>2, PTL DEF Spec

\* Type correctness.
THEOREM TypeCorrect == Spec => []TypeOK
<1>1. Inv => TypeOK
  BY DEF Inv
<1> QED BY <1>1, SpecInv, PTL

\* No layer ever holds a dangling or a stolen pointer, whatever the number of
\* runtimes that share the heap and the order of their steps.
THEOREM NoBadReference == Spec => []ReferencesAreGood
<1>1. Inv => ReferencesAreGood
  BY DEF Inv, CallInv, HoldsInv, ReferencesAreGood
<1> QED BY <1>1, SpecInv, PTL

\* rustbuffer_free always gets a live Rust block and its true capacity.
THEOREM FreeIsExact == Spec => []FreesTheResultItWasGiven
<1>1. Inv => FreesTheResultItWasGiven
  <2> SUFFICES ASSUME Inv, NEW c \in Callers, pc[c] = "finally", view[c].byteLength > 0
               PROVE  /\ view[c].data \in DOMAIN heap
                      /\ heap[view[c].data]
                           = Info("rust", FreeCapacity(view[c]), c, "result", 0)
    BY DEF FreesTheResultItWasGiven
  <2>1. view[c].data = ret[c].data /\ view[c].byteLength = ret[c].len
    BY DEF Inv, CallInv, LocalsInv, AfterToJs
  <2>2. view[c].data # NoBlock
    BY <2>1 DEF Inv, CallInv, LocalsInv
  <2>3. Holds(view[c].data, Info("rust", FreeCapacity(view[c]), c, "result", 0))
    BY DEF Inv, CallInv, HoldsInv, HoldsResult
  <2> QED BY <2>2, <2>3 DEF Holds
<1> QED BY <1>1, SpecInv, PTL

\* No call, however it ends, leaves a result or an error buffer of Rust's behind.
THEOREM NothingReturnedIsLost == Spec => []ResultsAndErrorsReclaimed
<1>1. Inv => ResultsAndErrorsReclaimed
  <2> SUFFICES ASSUME Inv, NEW c \in Callers, pc[c] = "idle",
                      NEW b \in DOMAIN heap, heap[b].caller = c
               PROVE  heap[b].what # "result" /\ heap[b].what # "error"
    BY DEF ResultsAndErrorsReclaimed
  <2>1. ret[c].data = NoBlock /\ status[c].error_buf.data = NoBlock
    BY DEF Inv, CallInv, LocalsInv, BeforeReturn, NullBuffer, rustSuccess
  <2>2. b # NoBlock
    BY BlocksAssumption DEF Inv, TypeOK
  <2> QED BY <2>1, <2>2 DEF Inv, CallInv, TrackedInv
<1> QED BY <1>1, SpecInv, PTL

\* An argument that rustbuffer_alloc made reaches Rust whole, for every INT32_MAX
\* and every length.
THEOREM ArgumentsArriveWhole == Spec => []AllocatedArgumentsArriveWhole
<1>1. Inv => AllocatedArgumentsArriveWhole
  BY DEF Inv, CallInv, ArgsInv, AllocatedArgumentsArriveWhole
<1> QED BY <1>1, SpecInv, PTL

\* What CopiesLostOnlyByThrowingConversion asks of a step about the copies of c.
CopiesKept(c) ==
    \A i \in DOMAIN copies[c] :
        LET b == copies[c][i].data IN
        (b # NoBlock /\ i \notin DOMAIN copies'[c] /\ b \in DOMAIN heap')
           => \/ heap'[b] # heap[b]
              \/ pc[c] = "convert" /\ pc'[c] = "idle"

\* Rust consumes every copy: a block that is live afterwards under the same
\* identity is the one that came out of the call.
LEMMA RustConsumes ==
    ASSUME Inv, NEW c \in Callers, NEW data, NEW capacity, NEW what \in {"result", "error"},
           RustOutcome(c, data, capacity, what)
    PROVE  CopiesKept(c)
<1> SUFFICES ASSUME NEW i \in DOMAIN copies[c], copies[c][i].data # NoBlock,
                    copies[c][i].data \in DOMAIN heap'
             PROVE  heap'[copies[c][i].data] # heap[copies[c][i].data]
  BY DEF CopiesKept
<1> DEFINE b == copies[c][i].data
<1>1. b \notin DOMAIN Consumed(c)
  BY DEF Consumed, Drop, CopyBlocks
<1>2. heap'[b] = Info("rust", capacity, c, what, 0)
  BY <1>1 DEF RustOutcome, Gains
<1>3. heap[b].what = "copy"
  <2>1. Holds(b, Info("rust", copies[c][i].capacity, c, "copy", i))
    BY DEF Inv, CallInv, HoldsInv, HoldsCopies
  <2> QED BY <2>1 DEF Holds, Info
<1> QED BY <1>2, <1>3 DEF Info

\* A copy made for Rust is lost only when a sibling conversion throws.
THEOREM CopiesAreConsumed == Spec => CopiesLostOnlyByThrowingConversion
<1>1. ASSUME Inv, [Next]_vars, NEW c \in Callers PROVE CopiesKept(c)
  <2>1. ASSUME copies'[c] = copies[c] PROVE CopiesKept(c)
    BY <2>1 DEF CopiesKept
  <2>2. ASSUME DOMAIN copies[c] = {} PROVE CopiesKept(c)
    BY <2>2 DEF CopiesKept
  <2>3. ASSUME NEW d \in Callers, d # c,
               CallStep(d) \/ \E f \in Functions : Call(d, f)
        PROVE  CopiesKept(c)
    BY <1>1, <2>1, <2>3, CallStepKeeps DEF StepOK, SameLocals
  <2>4. CASE pc[c] \notin {"convert", "rust"}
    BY <1>1, <2>2, <2>4 DEF Inv, CallInv, ArgsInv
  <2>5. CASE \E i \in DOMAIN lowered[c] : fromJs(c, i)
    <3>1. DOMAIN copies[c] \subseteq DOMAIN copies'[c]
      BY <1>1, <2>5 DEF fromJs, Put, Inv, TypeOK
    <3> QED BY <3>1 DEF CopiesKept
  <2>6. CASE fromJsThrows(c)
    BY <1>1, <2>6 DEF fromJsThrows, GoTo, CopiesKept, Inv, TypeOK
  <2>7. CASE RustReturns(c)
    <3>1. PICK s \in ReturnSizes : \E buf \in NewBuffers(Consumed(c), s.len, s.cap) :
            heap' = Store(Consumed(c), buf, "rust", c, "result", 0)
      BY <2>7 DEF RustReturns
    <3>2. s \in [len : Nat, cap : Nat]
      BY SizesAssumption DEF Sizes
    <3> QED BY <1>1, <2>7, <3>1, <3>2, OutcomeOfStore, RustConsumes DEF RustReturns
  <2>8. CASE RustRefuses(c) \/ RustPanics(c)
    <3>1. PICK s \in [len : Nat, cap : Nat] : \E code : RustFails(c, code, s)
      BY <2>8, SizesAssumption DEF RustRefuses, RustPanics, Sizes
    <3> QED BY <1>1, <3>1, OutcomeOfStore, RustConsumes DEF RustFails
  <2>9. CASE ProcessDies
    BY <2>9 DEF ProcessDies, Empty, CopiesKept
  <2>10. CASE UNCHANGED vars
    BY <2>1, <2>10 DEF vars
  <2>11. ASSUME CallStep(c) \/ \E f \in Functions : Call(c, f),
                pc[c] \in {"convert", "rust"}
         PROVE  \/ \E i \in DOMAIN lowered[c] : fromJs(c, i)
                \/ fromJsThrows(c) \/ RustReturns(c) \/ RustRefuses(c) \/ RustPanics(c)
    BY <2>11 DEF CallStep, Call, LowerArg, LowerThrows, copyIntoJs, toJs, CheckThrows,
                CheckPasses, Lift, rustbuffer_free, GoTo
  <2> QED BY <1>1, <2>3, <2>4, <2>5, <2>6, <2>7, <2>8, <2>9, <2>10, <2>11 DEF Next
<1>2. ASSUME Inv, [Next]_vars
      PROVE  [\A c \in Callers : \A i \in DOMAIN copies[c] :
                LET b == copies[c][i].data IN
                (b # NoBlock /\ i \notin DOMAIN copies'[c] /\ b \in DOMAIN heap')
                   => \/ heap'[b] # heap[b]
                      \/ pc[c] = "convert" /\ pc'[c] = "idle"]_vars
  BY <1>1, <1>2 DEF CopiesKept
<1> QED BY <1>2, SpecInv, PTL DEF Spec, CopiesLostOnlyByThrowingConversion

===========================================================================
