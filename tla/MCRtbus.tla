------------------------------ MODULE MCRtbus ------------------------------
(***************************************************************************)
(* Instance of Rtbus for TLC: a pool with room for two events, a clock     *)
(* that wraps after four milliseconds, a table that emos_init accepts and  *)
(* tables that it rejects: a bad priority, a duplicate, no entry, and one  *)
(* whose SYS_INIT events do not fit the pool.                              *)
(***************************************************************************)
EXTENDS Rtbus

Row(task, priority, init, always) ==
  [task |-> task, priority |-> priority, init |-> init, always |-> always]

MCTables ==
  {<<Row("ble", 1, TRUE, TRUE), Row("cli", 2, FALSE, TRUE)>>,
   <<Row("ble", 3, TRUE, TRUE)>>,
   <<Row("cli", 2, TRUE, TRUE), Row("cli", 1, TRUE, TRUE)>>,
   <<>>,
   <<Row("ble", 1, TRUE, TRUE), Row("cli", 2, TRUE, TRUE), Row("diag", 2, TRUE, FALSE)>>}
MCTasks == {"ble", "cli", "diag"}
MCPool == [start |-> 0, len |-> 57]
MCLens == {4}
MCDelays == {2, 3}
=============================================================================
