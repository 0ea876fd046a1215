-------------------------- MODULE MCNativeService --------------------------
(***************************************************************************)
(* An instance of NativeService for TLC: three requests, two upgrades.     *)
(***************************************************************************)
EXTENDS NativeService
=============================================================================
