----------------------------- MODULE MCRelease -----------------------------
(***************************************************************************)
(* A small instance of Release: two targets of which one is looked for,    *)
(* a change of the crate and of the version, and one run of the workflow.  *)
(***************************************************************************)
EXTENDS Release, TLC

CONSTANTS arm64, x86

===========================================================================
