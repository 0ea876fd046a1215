--------------------------- MODULE MCBleService ---------------------------
(***************************************************************************)
(* An instance of BleService for TLC: one request more than there are      *)
(* places for services, and an event queue that holds the events of one    *)
(* connection.                                                             *)
(***************************************************************************)
EXTENDS BleService
=============================================================================
