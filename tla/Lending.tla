------------------------------ MODULE Lending ------------------------------
(***************************************************************************)
(* What the bridge promises about the memory Rust hands out, in one        *)
(* sentence: a call borrows at most one block from Rust, a result or an    *)
(* error, which is nobody else's meanwhile, and has given it back by the   *)
(* time it ends, however it ends.                                          *)
(*                                                                         *)
(* RustBufferBridge keeps that promise with a status, a non-owning view, a *)
(* capacity hint, a copy and a finally block; none of them appears here.   *)
(***************************************************************************)

CONSTANTS
    Callers,  \* the JavaScript runtimes
    Blocks    \* what Rust can lend

VARIABLES
    phase,  \* per caller: idle, asking, borrowing or over
    lent    \* per caller, the blocks it borrows

lendingVars == <<phase, lent>>

Init ==
    /\ phase = [c \in Callers |-> "idle"]
    /\ lent = [c \in Callers |-> {}]

To(c, from, to) == phase[c] \in from /\ phase' = [phase EXCEPT ![c] = to]

Free == Blocks \ UNION {lent[c] : c \in Callers}

\* A call begins.
Ask(c) == To(c, {"idle"}, "asking") /\ UNCHANGED lent

\* Rust answers with a block that nobody has.
Lend(c) ==
    /\ To(c, {"asking"}, "borrowing")
    /\ \E b \in Free : lent' = [lent EXCEPT ![c] = {b}]

\* Rust answers without one, and is not asked again.
Answer(c) == To(c, {"asking"}, "over") /\ UNCHANGED lent

\* The caller gives back what it borrowed: an error before the call ends, a result as it
\* does.
GiveBack(c, to) ==
    /\ To(c, {"borrowing"}, to)
    /\ lent' = [lent EXCEPT ![c] = {}]

\* A call ends, before it came to Rust or after, with nothing in its hands.
End(c) == To(c, {"asking", "over"}, "idle") /\ UNCHANGED lent

\* The process aborts.
Abort ==
    /\ phase' = [c \in Callers |-> "idle"]
    /\ lent' = [c \in Callers |-> {}]

Next ==
    \/ \E c \in Callers :
        \/ Ask(c) \/ Lend(c) \/ Answer(c) \/ End(c)
        \/ \E to \in {"over", "idle"} : GiveBack(c, to)
    \/ Abort

Spec == Init /\ [][Next]_lendingVars

===========================================================================
