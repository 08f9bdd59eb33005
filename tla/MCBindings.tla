---------------------------- MODULE MCBindings ----------------------------
(***************************************************************************)
(* A small instance of Bindings: the enum as it is and room for two more   *)
(* variants, one shaped like an existing one and one not; one exported     *)
(* function, another to come, and two signatures.                          *)
(* The two checks look at separate parts of an interface, the functions    *)
(* and the variants: the instance lets each drift, not both at once.       *)
(***************************************************************************)
EXTENDS Bindings, TLC

CONSTANTS hash, encode

MCNames == {hash, encode}
MCExported == hash :> 1
MCNewVariants == {Variant("NewText", <<"string">>), Variant("NewCount", <<"u32">>)}

InterfacesOfTheProject == {crate, bindings, app.crate, app.bindings}

FunctionsAsTheyWere ==
    \A i \in InterfacesOfTheProject : i.functions = Exported /\ i.contract = 30

VariantsAsTheyWere == \A i \in InterfacesOfTheProject : i.variants = AbiError

OneDriftAtATime == FunctionsAsTheyWere \/ (VariantsAsTheyWere /\ raised = None)

===========================================================================
