------------------------------ MODULE MCSysState ------------------------------
(* Instances of SysState: two axes as on the board, of which only the first  *)
(* has a motor, or one; with or without somebody at the shell.               *)
EXTENDS SysState

MCAxis == {0, 1}
NoShell == {}
ShellBits == {{e} : e \in {"RECOVERY", "EMERGENCY", "ROD_LIMIT_FAULT", "ST_WORK_ERROR"}}
=============================================================================
