------------------------- MODULE RustBufferBridge -------------------------
(***************************************************************************)
(* The ownership protocol of the byte buffers that cross the JSI boundary. *)
(*                                                                         *)
(* A call of an exported function runs through three layers:               *)
(*                                                                         *)
(*   TypeScript  ambire_crypto.ts   lowers the arguments, checks the call  *)
(*                                  status, lifts the result and, in a     *)
(*                                  finally block, frees its view          *)
(*   C++         ambire_crypto.cpp  copies the arguments for Rust, copies  *)
(*                                  an error out, wraps the result in a    *)
(*                                  non-owning view                        *)
(*   Rust        the crate          consumes the argument copies and       *)
(*                                  allocates a result or an error buffer  *)
(*                                                                         *)
(* None of the three sees who else holds a block.  What is modelled is the *)
(* heap they share and every reference each layer keeps while it runs, so  *)
(* that "freed once, with the right capacity, by whoever owns it" is a     *)
(* statement about the whole path.  The bytes themselves are abstracted.   *)
(*                                                                         *)
(* A caller is a JavaScript runtime: one thread, one call at a time.  Two  *)
(* callers share the process heap.                                         *)
(***************************************************************************)
EXTENDS Integers, Sequences

CONSTANTS
    Callers,      \* JavaScript runtimes
    Functions,    \* the exported functions
    Arity,        \* Functions -> how many buffers the function takes
    ArgKind,      \* Functions -> "string" or "bytes", the converter that lowers
    Fallible,     \* the functions called through rustCallWithError
    AllocKinds,   \* argument kinds whose lower() uses the allocator it is handed
    Blocks,       \* identities of heap blocks
    NoBlock,      \* the null data pointer
    ArgLengths,   \* byte lengths a lowered argument may have
    ReturnSizes,  \* [len, cap] of the buffers Rust returns
    ErrorSizes,   \* [len, cap] of the error buffers Rust returns
    IntMax        \* INT32_MAX

Sizes == {s \in [len : Nat, cap : Nat] : s.len <= s.cap}

ASSUME FunctionsAssumption ==
    /\ Arity \in [Functions -> Nat \ {0}]
    /\ ArgKind \in [Functions -> {"string", "bytes"}]
    /\ Fallible \subseteq Functions
    /\ AllocKinds \subseteq {"string", "bytes"}

ASSUME BlocksAssumption == NoBlock \notin Blocks

ASSUME SizesAssumption ==
    /\ IntMax \in Nat
    /\ ArgLengths \subseteq Nat \ {0}
    /\ ReturnSizes \subseteq Sizes
    /\ ErrorSizes \subseteq Sizes

(***************************************************************************)
(* No exported function returns an empty buffer that still has room: a     *)
(* string result is at least "0x" or "null", a byte result carries its     *)
(* length prefix.  rustbuffer_free relies on it, because it takes an empty *)
(* view for one that was never allocated.                                  *)
(***************************************************************************)
ASSUME NonEmptyResults == \A s \in ReturnSizes : s.len = 0 => s.cap = 0

VARIABLES
    heap,     \* the live blocks, each with its allocator, capacity and purpose
    pc,       \* where each caller is
    fun,      \* the function it is calling
    lowered,  \* the argument views JavaScript holds, in order
    copies,   \* the RustBuffers fromJs has made of them, by position
    status,   \* the RustCallStatus local of the native function
    ret,      \* the RustBuffer Rust returned
    jsStatus, \* the callStatus object JavaScript passed
    view      \* the Uint8Array the native function returned

vars == <<heap, pc, fun, lowered, copies, status, ret, jsStatus, view>>

callVars == <<fun, lowered, copies, status, ret, jsStatus, view>>

---------------------------------------------------------------------------
(* Values. *)

Purposes == {"lowered", "copy", "result", "error", "errorCopy"}

BlockInfo == [by : {"rust", "cxx"}, cap : Nat, caller : Callers,
              what : Purposes, arg : Nat]

Buffer == [data : Blocks \cup {NoBlock}, len : Nat, capacity : Nat]

NullBuffer == [data |-> NoBlock, len |-> 0, capacity |-> 0]

\* A Uint8Array: the block under its ArrayBuffer (NoBlock when JavaScript owns
\* the bytes), its byteLength and the capacity hint (0 when the property is
\* absent).
View == [data : Blocks \cup {NoBlock}, byteLength : Nat, hint : Nat]

EmptyView == [data |-> NoBlock, byteLength |-> 0, hint |-> 0]

OK == 0
CALL_ERROR == 1
CALL_PANIC == 2
Codes == {OK, CALL_ERROR, CALL_PANIC}

rustSuccess == [code |-> OK, error_buf |-> NullBuffer]

NewCallStatus == [code |-> OK, errorBuf |-> EmptyView]

Steps == {"idle", "lower", "convert", "rust", "status", "view", "check",
          "lift", "finally"}

\* Partial functions: f with x mapped to v, and f without the points of S.
Put(f, x, v) == [y \in DOMAIN f \cup {x} |-> IF y = x THEN v ELSE f[y]]

Drop(f, S) == [y \in DOMAIN f \ S |-> f[y]]

Empty == [y \in {} |-> y]

Info(by, cap, c, what, i) ==
    [by |-> by, cap |-> cap, caller |-> c, what |-> what, arg |-> i]

\* The buffers an allocation of cap bytes holding len may return.  A request for
\* no bytes allocates nothing.
NewBuffers(h, len, cap) ==
    IF cap = 0 THEN {NullBuffer}
    ELSE {[data |-> b, len |-> len, capacity |-> cap] : b \in Blocks \ DOMAIN h}

\* The heap once buf exists.
Store(h, buf, by, c, what, i) ==
    IF buf.data = NoBlock THEN h
    ELSE Put(h, buf.data, Info(by, buf.capacity, c, what, i))

\* static_cast<int32_t> of a length, on a machine whose int32 stops at IntMax.
ToInt32(n) ==
    LET Modulus == 2 * (IntMax + 1)
        r == n % Modulus
    IN  IF r > IntMax THEN r - Modulus ELSE r

---------------------------------------------------------------------------
(* Initially every runtime is idle and nothing is allocated. *)

Init ==
    /\ heap = Empty
    /\ pc = [c \in Callers |-> "idle"]
    /\ fun \in [Callers -> Functions]
    /\ lowered = [c \in Callers |-> << >>]
    /\ copies = [c \in Callers |-> Empty]
    /\ status = [c \in Callers |-> rustSuccess]
    /\ ret = [c \in Callers |-> NullBuffer]
    /\ jsStatus = [c \in Callers |-> NewCallStatus]
    /\ view = [c \in Callers |-> EmptyView]

GoTo(c, from, to) ==
    /\ pc[c] = from
    /\ pc' = [pc EXCEPT ![c] = to]

\* The call ends, by returning or by throwing: its locals go out of scope.
Leave(c) ==
    /\ lowered' = [lowered EXCEPT ![c] = << >>]
    /\ copies' = [copies EXCEPT ![c] = Empty]
    /\ status' = [status EXCEPT ![c] = rustSuccess]
    /\ ret' = [ret EXCEPT ![c] = NullBuffer]
    /\ jsStatus' = [jsStatus EXCEPT ![c] = NewCallStatus]
    /\ view' = [view EXCEPT ![c] = EmptyView]
    /\ UNCHANGED fun

---------------------------------------------------------------------------
(* TypeScript: entering the call and lowering its arguments in order. *)

Call(c, f) ==
    /\ GoTo(c, "idle", "lower")
    /\ fun' = [fun EXCEPT ![c] = f]
    /\ UNCHANGED <<heap, lowered, copies, status, ret, jsStatus, view>>

\* What lower() leaves in JavaScript's hands.
Lowered(c, data, n) ==
    lowered' = [lowered EXCEPT ![c] =
                  Append(@, [data |-> data, byteLength |-> n, hint |-> 0])]

\* The slip: the host function forgets that the size becomes an int32.
RustbufferAllocUnchecked(c, i, n) ==
    \E buf \in NewBuffers(heap, n, n) :
        /\ heap' = Store(heap, buf, "rust", c, "lowered", i)
        /\ Lowered(c, buf.data, n)

\* The rustbuffer_alloc host function, which refuses a size past INT32_MAX.
rustbuffer_alloc(c, i, n) ==
    /\ n <= IntMax
    /\ \E buf \in NewBuffers(heap, n, n) :
        /\ heap' = Store(heap, buf, "rust", c, "lowered", i)
        /\ Lowered(c, buf.data, n)

\* The slip: one argument too many is lowered.
LowerArgPastArity(c) ==
    LET i == Len(lowered[c]) + 1 IN
    /\ GoTo(c, "lower", IF i > Arity[fun[c]] THEN "convert" ELSE "lower")
    /\ \E n \in ArgLengths :
         \/ /\ ArgKind[fun[c]] \in AllocKinds
            /\ rustbuffer_alloc(c, i, n)
         \/ /\ ArgKind[fun[c]] \notin AllocKinds
            /\ Lowered(c, NoBlock, n)
            /\ UNCHANGED heap
    /\ UNCHANGED <<fun, copies, status, ret, jsStatus, view>>

\* The arguments are lowered in order.  The views are never freed afterwards: the
\* generated functions keep no reference to them.
LowerArg(c) ==
    LET i == Len(lowered[c]) + 1 IN
    /\ GoTo(c, "lower", IF i = Arity[fun[c]] THEN "convert" ELSE "lower")
    /\ \E n \in ArgLengths :
         \/ /\ ArgKind[fun[c]] \in AllocKinds
            /\ rustbuffer_alloc(c, i, n)
         \/ /\ ArgKind[fun[c]] \notin AllocKinds
            /\ Lowered(c, NoBlock, n)
            /\ UNCHANGED heap
    /\ UNCHANGED <<fun, copies, status, ret, jsStatus, view>>

\* A value that cannot be lowered, or a size rustbuffer_alloc refuses: the
\* exception leaves the exported function and the views already made with it.
LowerThrows(c) ==
    /\ GoTo(c, "lower", "idle")
    /\ Leave(c)
    /\ UNCHANGED heap

---------------------------------------------------------------------------
(* C++: converting the arguments.  They are the operands of one call         *)
(* expression, whose order of evaluation C++ leaves open.                    *)

\* Rust scaffolding copies the bytes.  A negative length makes it panic, which
\* the wrapper rustbuffer_from_bytes does not look at: it hands on the empty
\* buffer.
fromJs(c, i) ==
    /\ i \in DOMAIN lowered[c] \ DOMAIN copies[c]
    /\ GoTo(c, "convert",
            IF DOMAIN copies[c] \cup {i} = DOMAIN lowered[c] THEN "rust"
                                                            ELSE "convert")
    /\ LET len == ToInt32(lowered[c][i].byteLength)
           size == IF len < 0 THEN 0 ELSE len
       IN  \E buf \in NewBuffers(heap, size, size) :
             /\ heap' = Store(heap, buf, "rust", c, "copy", i)
             /\ copies' = [copies EXCEPT ![c] = Put(@, i, buf)]
    /\ UNCHANGED <<fun, lowered, status, ret, jsStatus, view>>

\* The argument is not an ArrayBuffer: the JSError unwinds the native function,
\* and the RustBuffers its siblings already made have no destructor.
fromJsThrows(c) ==
    /\ GoTo(c, "convert", "idle")
    /\ Leave(c)
    /\ UNCHANGED heap

---------------------------------------------------------------------------
(* Rust: the scaffolding lifts (and so consumes) every argument copy, runs   *)
(* the function and lowers what came out of it.                              *)

CopyBlocks(c) == {copies[c][i].data : i \in DOMAIN copies[c]} \ {NoBlock}

Consumed(c) == Drop(heap, CopyBlocks(c))

RustReturns(c) ==
    /\ GoTo(c, "rust", "status")
    /\ \E s \in ReturnSizes : \E buf \in NewBuffers(Consumed(c), s.len, s.cap) :
         /\ heap' = Store(Consumed(c), buf, "rust", c, "result", 0)
         /\ ret' = [ret EXCEPT ![c] = buf]
    /\ copies' = [copies EXCEPT ![c] = Empty]
    /\ UNCHANGED <<fun, lowered, status, jsStatus, view>>

\* The slip: a failing call leaves its argument buffers to the caller.
RustFailsKeeping(c, code, s) ==
    /\ GoTo(c, "rust", "status")
    /\ \E buf \in NewBuffers(heap, s.len, s.cap) :
         /\ heap' = Store(heap, buf, "rust", c, "error", 0)
         /\ status' = [status EXCEPT ![c] = [code |-> code, error_buf |-> buf]]
    /\ copies' = [copies EXCEPT ![c] = Empty]
    /\ UNCHANGED <<fun, lowered, ret, jsStatus, view>>

\* Out of the call comes the default RustBuffer, and the error in the status.
RustFails(c, code, s) ==
    /\ GoTo(c, "rust", "status")
    /\ \E buf \in NewBuffers(Consumed(c), s.len, s.cap) :
         /\ heap' = Store(Consumed(c), buf, "rust", c, "error", 0)
         /\ status' = [status EXCEPT ![c] = [code |-> code, error_buf |-> buf]]
    /\ copies' = [copies EXCEPT ![c] = Empty]
    /\ UNCHANGED <<fun, lowered, ret, jsStatus, view>>

\* A serialized AbiError, from the functions that return a Result.
RustRefuses(c) ==
    /\ fun[c] \in Fallible
    /\ \E s \in ErrorSizes : RustFails(c, CALL_ERROR, s)

\* A panic, which any function may raise, with or without a message.
RustPanics(c) ==
    \E s \in ErrorSizes \cup {[len |-> 0, cap |-> 0]} :
        RustFails(c, CALL_PANIC, s)

---------------------------------------------------------------------------
(* C++: back from Rust. *)

\* The slip the comment in copyIntoJs warns of: the error handed out as a view.
copyIntoJsAsView(c) ==
    LET err == status[c].error_buf IN
    /\ GoTo(c, "status", "view")
    /\ jsStatus' = [jsStatus EXCEPT ![c] =
         [code |-> status[c].code,
          errorBuf |-> [data |-> err.data, byteLength |-> err.len, hint |-> 0]]]
    /\ UNCHANGED <<heap, fun, lowered, copies, status, ret, view>>

\* The error bytes are copied to a new[] block under a non-owning view, and the
\* Rust block is freed at once.
copyIntoJs(c) ==
    LET err == status[c].error_buf IN
    /\ GoTo(c, "status", "view")
    /\ \/ /\ err.data = NoBlock
          /\ jsStatus' = [jsStatus EXCEPT ![c].code = status[c].code]
          /\ UNCHANGED <<heap, status>>
       \/ /\ err.data # NoBlock
          /\ \E b \in Blocks \ DOMAIN heap :
               /\ heap' = Put(Drop(heap, {err.data}), b,
                              Info("cxx", err.len, c, "errorCopy", 0))
               /\ jsStatus' = [jsStatus EXCEPT ![c] =
                    [code |-> status[c].code,
                     errorBuf |-> [data |-> b, byteLength |-> err.len,
                                   hint |-> 0]]]
          /\ status' = [status EXCEPT ![c].error_buf = NullBuffer]
    /\ UNCHANGED <<fun, lowered, copies, ret, view>>

\* The slip: the spare capacity of the result is not recorded.
toJsWithoutHint(c) ==
    /\ GoTo(c, "view", "check")
    /\ view' = [view EXCEPT ![c] =
         [data |-> ret[c].data, byteLength |-> ret[c].len, hint |-> 0]]
    /\ UNCHANGED <<heap, fun, lowered, copies, status, ret, jsStatus>>

\* The result becomes a non-owning view of its len bytes, which remembers the
\* capacity when that is something else.
toJs(c) ==
    /\ GoTo(c, "view", "check")
    /\ view' = [view EXCEPT ![c] =
         [data |-> ret[c].data, byteLength |-> ret[c].len,
          hint |-> IF ret[c].capacity # ret[c].len THEN ret[c].capacity ELSE 0]]
    /\ UNCHANGED <<heap, fun, lowered, copies, status, ret, jsStatus>>

---------------------------------------------------------------------------
(* TypeScript: back from the native function. *)

\* rustCall reads the status first, and throws before there is a __rb.
CheckThrows(c) ==
    /\ jsStatus[c].code # OK
    /\ GoTo(c, "check", "idle")
    /\ Leave(c)
    /\ UNCHANGED heap

CheckPasses(c) ==
    /\ jsStatus[c].code = OK
    /\ GoTo(c, "check", "lift")
    /\ UNCHANGED <<heap, callVars>>

\* The slip: an error handler that frees the view the finally block frees again.
LiftFreeing(c) ==
    /\ GoTo(c, "lift", "finally")
    /\ heap' = Drop(heap, {view[c].data})
    /\ UNCHANGED callVars

\* lift() may return or throw; the finally block runs either way.
Lift(c) ==
    /\ GoTo(c, "lift", "finally")
    /\ UNCHANGED <<heap, callVars>>

\* The capacity rustbuffer_free passes to Rust: the hint, else the byteLength.
FreeCapacity(v) == IF v.hint # 0 THEN v.hint ELSE v.byteLength

\* The rustbuffer_free host function.  An empty view was never allocated.
rustbuffer_free(c) ==
    /\ GoTo(c, "finally", "idle")
    /\ heap' = IF view[c].byteLength = 0 THEN heap
                                         ELSE Drop(heap, {view[c].data})
    /\ Leave(c)

---------------------------------------------------------------------------
(* The heap is exhausted: Rust's allocator aborts the process, and the app   *)
(* starts again with nothing allocated and every runtime idle.               *)

ProcessDies ==
    /\ Blocks \subseteq DOMAIN heap
    /\ heap' = Empty
    /\ pc' = [c \in Callers |-> "idle"]
    /\ lowered' = [c \in Callers |-> << >>]
    /\ copies' = [c \in Callers |-> Empty]
    /\ status' = [c \in Callers |-> rustSuccess]
    /\ ret' = [c \in Callers |-> NullBuffer]
    /\ jsStatus' = [c \in Callers |-> NewCallStatus]
    /\ view' = [c \in Callers |-> EmptyView]
    /\ UNCHANGED fun

CallStep(c) ==
    \/ LowerArg(c) \/ LowerThrows(c)
    \/ \E i \in DOMAIN lowered[c] : fromJs(c, i)
    \/ fromJsThrows(c)
    \/ RustReturns(c) \/ RustRefuses(c) \/ RustPanics(c)
    \/ copyIntoJs(c) \/ toJs(c)
    \/ CheckThrows(c) \/ CheckPasses(c) \/ Lift(c) \/ rustbuffer_free(c)

Next ==
    \/ \E c \in Callers : CallStep(c) \/ \E f \in Functions : Call(c, f)
    \/ ProcessDies

Spec == Init /\ [][Next]_vars

---------------------------------------------------------------------------
(* What must hold. *)

TypeOK ==
    /\ DOMAIN heap \subseteq Blocks
    /\ \A b \in DOMAIN heap : heap[b] \in BlockInfo
    /\ pc \in [Callers -> Steps]
    /\ fun \in [Callers -> Functions]
    /\ lowered \in [Callers -> Seq(View)]
    /\ DOMAIN copies = Callers
    /\ \A c \in Callers :
         /\ Len(lowered[c]) <= Arity[fun[c]]
         /\ DOMAIN copies[c] \subseteq DOMAIN lowered[c]
         /\ \A i \in DOMAIN copies[c] : copies[c][i] \in Buffer
    /\ status \in [Callers -> [code : Codes, error_buf : Buffer]]
    /\ ret \in [Callers -> Buffer]
    /\ jsStatus \in [Callers -> [code : Codes, errorBuf : View]]
    /\ view \in [Callers -> View]

\* A pointer that is null, or to a live block that was made for this.
Holds(data, info) == data # NoBlock => data \in DOMAIN heap /\ heap[data] = info

HoldsLowered(c) ==
    \A i \in DOMAIN lowered[c] : LET v == lowered[c][i] IN
        Holds(v.data, Info("rust", v.byteLength, c, "lowered", i))

HoldsCopies(c) ==
    \A i \in DOMAIN copies[c] : LET buf == copies[c][i] IN
        Holds(buf.data, Info("rust", buf.capacity, c, "copy", i))

HoldsResult(c) ==
    /\ Holds(ret[c].data, Info("rust", ret[c].capacity, c, "result", 0))
    /\ Holds(view[c].data, Info("rust", FreeCapacity(view[c]), c, "result", 0))

HoldsError(c) ==
    LET buf == status[c].error_buf
        v == jsStatus[c].errorBuf
    IN  /\ Holds(buf.data, Info("rust", buf.capacity, c, "error", 0))
        /\ Holds(v.data, Info("cxx", v.byteLength, c, "errorCopy", 0))

\* No layer ever holds a dangling or a stolen pointer: every block a running call
\* can still reach is live, was made by that call for that very purpose, and has
\* the capacity the reference would report when it is freed.  An early free, a
\* missing hint, or a block handed to two calls breaks it.
ReferencesAreGood ==
    \A c \in Callers :
        HoldsLowered(c) /\ HoldsCopies(c) /\ HoldsResult(c) /\ HoldsError(c)

\* rustbuffer_free gives Rust a (pointer, capacity) pair from which it rebuilds a
\* Vec: the block must be live, come from Rust's allocator and have exactly that
\* capacity, and it must be the result of the call that frees it.
FreesTheResultItWasGiven ==
    \A c \in Callers :
        (pc[c] = "finally" /\ view[c].byteLength > 0) =>
            /\ view[c].data \in DOMAIN heap
            /\ heap[view[c].data] = Info("rust", FreeCapacity(view[c]), c, "result", 0)

\* However a call ends, Rust's result and error buffers are gone: the finally
\* block covers the results, copyIntoJs the errors, and no path misses both.
ResultsAndErrorsReclaimed ==
    \A c \in Callers : pc[c] = "idle" =>
        \A b \in DOMAIN heap :
            heap[b].caller = c => heap[b].what \notin {"result", "error"}

\* Rust sees every byte of an argument that rustbuffer_alloc made: the cast to
\* int32 in fromJs cannot shorten it, because the host function refused the
\* lengths it would shorten.
AllocatedArgumentsArriveWhole ==
    \A c \in Callers : \A i \in DOMAIN copies[c] :
        lowered[c][i].data # NoBlock => copies[c][i].len = lowered[c][i].byteLength

\* A copy made for Rust is lost only when the conversion of a sibling argument
\* throws.  On every other path Rust consumes it, whatever the outcome.
CopiesLostOnlyByThrowingConversion ==
    [][\A c \in Callers : \A i \in DOMAIN copies[c] :
         LET b == copies[c][i].data IN
         (b # NoBlock /\ i \notin DOMAIN copies'[c] /\ b \in DOMAIN heap')
            => \/ heap'[b] # heap[b]
               \/ pc[c] = "convert" /\ pc'[c] = "idle"]_vars

\* The comment on rustbuffer_alloc: JavaScript frees what it allocated before it
\* drops the view, so a call that returns normally leaves no argument buffer of
\* its own behind.
LoweredArgumentsFreed ==
    [][\A c \in Callers : (pc[c] = "finally" /\ pc'[c] = "idle") =>
         \A b \in DOMAIN heap' :
             heap'[b].caller = c => heap'[b].what # "lowered"]_vars

\* The comment in copyIntoJs: the error's copy is JavaScript's, so it goes away
\* with the status object that holds it.
ErrorCopiesReclaimed ==
    \A c \in Callers : pc[c] = "idle" =>
        \A b \in DOMAIN heap :
            heap[b].caller = c => heap[b].what # "errorCopy"

---------------------------------------------------------------------------
(* The promise, and where the bridge keeps it. *)

\* The blocks that are a call's from Rust: a result or an error.
Borrowed(c) ==
    {b \in DOMAIN heap : heap[b].caller = c /\ heap[b].what \in {"result", "error"}}

Phase(c) ==
    IF pc[c] = "idle" THEN "idle"
    ELSE IF pc[c] \in {"lower", "convert", "rust"} THEN "asking"
    ELSE IF Borrowed(c) = {} THEN "over" ELSE "borrowing"

Promise == INSTANCE Lending WITH
    phase <- [c \in Callers |-> Phase(c)],
    lent <- [c \in Callers |-> Borrowed(c)]

\* Through every interleaving of the runtimes, every error path and every early throw,
\* the bridge does nothing that the one-sentence promise of Lending does not allow: no
\* call borrows twice, frees or reuses the block of another, or ends with one in its
\* hands.
KeepsThePromise == Promise!Spec

===========================================================================
