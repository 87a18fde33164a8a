------------------------------ MODULE MCArbiter ------------------------------
(* A small instance of Arbiter: one axis, the two power sources, a manual    *)
(* source of higher priority, and a limit switch that blocks.                *)
EXTENDS Arbiter

Cmd(device, priority, verb, dir) ==
  [axis |-> 0, device |-> device, priority |-> priority, verb |-> verb,
   dir |-> dir, duty |-> 0]

MCCommand ==
  {Cmd("pos", 5, "RUN", dir) : dir \in Dir} \cup
  {Cmd("neg", 5, "RUN", dir) : dir \in Dir} \cup
  {Cmd("can", 4, "RUN", dir) : dir \in Dir} \cup
  {Cmd("can", 4, "STOP", "fwd")} \cup
  {Cmd("limit", 1, verb, dir) : verb \in {"BLOCK", "UNBLOCK"}, dir \in Dir} \cup
  {Cmd("pos", 5, "CLEAR_ALLOW", dir) : dir \in Dir} \cup
  {Cmd("can", 4, "BLOCK", "fwd"), Cmd("pos", 0, "EMERGENCY_STOP", "fwd")}
=============================================================================
