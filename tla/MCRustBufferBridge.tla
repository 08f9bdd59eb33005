------------------------ MODULE MCRustBufferBridge ------------------------
(***************************************************************************)
(* A small instance of RustBufferBridge: one function with one byte-array  *)
(* argument, as keccak256 and bytes_to_hex, and one with several string    *)
(* arguments, as encode_function_data: three of them where one runtime     *)
(* runs alone, two where two runtimes interleave.  An int32 holds 0 and 1, *)
(* so a length of 2 is the first that overflows.                           *)
(***************************************************************************)
EXTENDS RustBufferBridge, TLC

CONSTANTS hash, encode

MCFunctions == {hash, encode}
MCArity == hash :> 1 @@ encode :> 2
MCArity3 == hash :> 1 @@ encode :> 3
MCArgKind == hash :> "bytes" @@ encode :> "string"
MCFallible == {encode}
MCReturnSizes == {[len |-> 1, cap |-> 1], [len |-> 1, cap |-> 2]}
MCErrorSizes == {[len |-> 1, cap |-> 2]}

Symmetry == Permutations(Blocks) \cup Permutations(Callers)

===========================================================================
