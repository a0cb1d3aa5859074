---------------------------- MODULE MCWorldStore ----------------------------
(***************************************************************************)
(* WorldStore for TLC: write_back and stacks give its constants values.    *)
(***************************************************************************)
EXTENDS WorldStore, TLC
=============================================================================
