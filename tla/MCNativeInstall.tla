-------------------------- MODULE MCNativeInstall --------------------------
(***************************************************************************)
(* A small instance of NativeInstall: a library of two functions, and      *)
(* bundles generated before one of them was added, which boot; and after   *)
(* the other changed, after a third was added and by another generator,    *)
(* which do not.                                                           *)
(***************************************************************************)
EXTENDS NativeInstall, TLC

CONSTANTS hash, encode, decode

Interface(version, functions) == [contract |-> version, functions |-> functions]

MCLibrary == Interface(30, hash :> 1 @@ encode :> 1)

MCBundles ==
    {Interface(30, hash :> 1), Interface(30, hash :> 2), Interface(30, hash :> 1 @@ decode :> 1),
     Interface(31, hash :> 1)}

===========================================================================
