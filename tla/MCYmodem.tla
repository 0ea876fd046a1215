------------------------------ MODULE MCYmodem ------------------------------
(***************************************************************************)
(* An instance of Ymodem for TLC.                                          *)
(***************************************************************************)
EXTENDS Ymodem

\* An empty header, two short files, and one whose block numbers wrap.
MCSizes == {0, 1, 2, 6}
=============================================================================
