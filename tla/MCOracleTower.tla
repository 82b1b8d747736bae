--------------------------- MODULE MCOracleTower ---------------------------
(* Model values and environments for checking OracleTower with TLC.       *)
EXTENDS OracleTower

MCSlots == 0..5

(* update_root has no caller in the repository.                          *)
MCNoRoot(rb) == {}

=============================================================================
