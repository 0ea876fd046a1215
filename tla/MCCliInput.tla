----------------------------- MODULE MCCliInput -----------------------------
(***************************************************************************)
(* An instance of CliInput for TLC.  The queue takes one command and one   *)
(* byte more; a second command before it is read loses its end.            *)
(***************************************************************************)
EXTENDS CliInput

MCBytes == {"@", "eol", "x"} \cup Commands
=============================================================================
