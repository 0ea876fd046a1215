---------------------------- MODULE MCEmosList ----------------------------
(***************************************************************************)
(* Instance of EmosList for TLC: a pool with room for three nodes, so that *)
(* posts are refused and holes are reused.                                 *)
(***************************************************************************)
EXTENDS EmosList

MCPool == [start |-> 0, len |-> 77]
=============================================================================
