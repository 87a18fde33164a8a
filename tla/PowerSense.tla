------------------------------ MODULE PowerSense ------------------------------
(***************************************************************************)
(* The power detectors and the motor output they protect:                  *)
(* dev_bus_voltage.c, dev_cur_sensor.c, dev_power_isr.c, dev_gpio_motor.c. *)
(*                                                                         *)
(* A 1 ms timer interrupt compares the bus voltage and the motor current   *)
(* with their thresholds and sends an event to the system state machine    *)
(* whenever a verdict changes.  The motor output masks the current         *)
(* detector for a while each time the motor starts or reverses.            *)
(*                                                                         *)
(* Abstractions.  A voltage is one of the five zones the four thresholds   *)
(* under_th < under_th + hyst < over_th - hyst < over_th cut the range     *)
(* into; a current is over its threshold or not.  s_u8Status repeats       *)
(* s_u8Fault and is left out, as are the snapshots kept for printing.      *)
(* The interrupt is one step, and so is each Init: no thread can see the   *)
(* interrupt half done, and an Init only stores constants.                 *)
(***************************************************************************)
EXTENDS Integers, FiniteSets

CONSTANTS
  RecoverMs,  \* g_volt_cfg.recover_ms
  WindowMs,   \* g_cur_cfg.window_ms
  BlockMs,    \* g_cur_cfg.block_ms
  DirInvert   \* s_dir_invert: the motor is wired the other way round

ASSUME PowerConstants ==
  /\ RecoverMs \in Nat /\ BlockMs \in Nat
  /\ WindowMs \in Nat \ {0}
  /\ DirInvert \in BOOLEAN

Zone == 1 .. 5       \* under, under's hysteresis, good, over's hysteresis, over
Good == 3

VoltFault == 0 .. 2  \* s_u8Fault: none, under, over
Pins == {"stop", "fwd", "rev"}

VoltData == [fault : VoltFault, waiting : BOOLEAN, cnt : 0 .. RecoverMs, seen : BOOLEAN]
CurData == [status : BOOLEAN, over : 0 .. WindowMs, block : 0 .. BlockMs]

VARIABLES
  vm,       \* the statics of dev_bus_voltage.c
  cur,      \* the statics of dev_cur_sensor.c
  pins,     \* s_prev_out_dir: what the two motor pins say
  sys_evt   \* mySystem.sys_evt, the event bits not yet received

powerVars == <<vm, cur, pins, sys_evt>>
-----------------------------------------------------------------------------
(* Bus voltage *)

\* Whether a valid bus was ever seen outlives every Init.
VoltReset(d) == [fault |-> 0, waiting |-> FALSE, cnt |-> 0, seen |-> d.seen]

\* Leaving a fault takes more than the threshold: the hysteresis too.
BackToGood(fault, v) == IF fault = 2 THEN v <= Good ELSE v >= Good

\* Mutant: leaving the good zone while waiting does not restart the wait.
VoltRecover_KeepsCount(d, v) ==
  IF ~ BackToGood(d.fault, v) THEN d
  ELSE IF ~ d.waiting THEN [d EXCEPT !.waiting = TRUE, !.cnt = 0]
  ELSE IF d.cnt + 1 >= RecoverMs THEN VoltReset(d)
  ELSE [d EXCEPT !.cnt = @ + 1]

\* In a fault: wait until the voltage has been good for recover_ms.
VoltRecover(d, v) ==
  IF ~ BackToGood(d.fault, v) THEN [d EXCEPT !.waiting = FALSE, !.cnt = 0]
  ELSE IF ~ d.waiting THEN [d EXCEPT !.waiting = TRUE, !.cnt = 0]
  ELSE IF d.cnt + 1 >= RecoverMs THEN VoltReset(d)
  ELSE [d EXCEPT !.cnt = @ + 1]

\* Without a fault: compare with the bare thresholds.
VoltDetect(d, v) == [d EXCEPT !.fault = IF v = 5 THEN 2 ELSE IF v = 1 THEN 1 ELSE 0]

BusVoltage_Isr1ms(d0, v) ==
  LET d == [d0 EXCEPT !.seen = @ \/ v >= Good]
  IN IF d.fault # 0 THEN VoltRecover(d, v) ELSE VoltDetect(d, v)

\* The events the interrupt sends when the detector goes from d to e.
VoltEvents(d, e) ==
  (IF ~ d.waiting /\ e.waiting THEN {"VOLT_RECOVER_WAIT"} ELSE {}) \cup
  (IF d.fault = e.fault THEN {}
   ELSE {IF e.fault = 2 THEN "VOLT_OVER"
         ELSE IF e.fault = 1 THEN "VOLT_UNDER" ELSE "VOLT_NORMAL"})
-----------------------------------------------------------------------------
(* Motor current *)

CurReset == [status |-> FALSE, over |-> 0, block |-> 0]

\* Mutant: the mask only hides the verdict; the window goes on counting.
CurrentIsr_CountsWhileBlocked(c, high) ==
  LET n == IF high THEN (IF c.over < WindowMs THEN c.over + 1 ELSE c.over) ELSE 0
  IN IF c.block # 0 THEN [status |-> FALSE, over |-> n, block |-> c.block - 1]
     ELSE [c EXCEPT !.over = n, !.status = n >= WindowMs]

\* Mutant: the window counter does not stop at window_ms.
CurrentIsr_NoSaturation(c, high) ==
  IF c.block # 0 THEN [status |-> FALSE, over |-> 0, block |-> c.block - 1]
  ELSE LET n == IF high THEN c.over + 1 ELSE 0
       IN [c EXCEPT !.over = n, !.status = n >= WindowMs]

\* Mutant: the mask leaves an old verdict standing.
CurrentIsr_MaskKeepsStatus(c, high) ==
  IF c.block # 0 THEN [c EXCEPT !.over = 0, !.block = @ - 1]
  ELSE LET n == IF high THEN (IF c.over < WindowMs THEN c.over + 1 ELSE c.over) ELSE 0
       IN [c EXCEPT !.over = n, !.status = n >= WindowMs]

\* Masked: neither judged nor counted.  Otherwise the current is an
\* over-current once it has been high for window_ms without a break.
CurrentSensor_Isr1ms(c, high) ==
  IF c.block # 0 THEN [status |-> FALSE, over |-> 0, block |-> c.block - 1]
  ELSE LET n == IF high THEN (IF c.over < WindowMs THEN c.over + 1 ELSE c.over) ELSE 0
       IN [c EXCEPT !.over = n, !.status = n >= WindowMs]

CurEvents(c, d) == IF ~ c.status /\ d.status THEN {"OVER_CURRENT"} ELSE {}
-----------------------------------------------------------------------------
(* Operations *)

PowerInit ==
  /\ vm = [fault |-> 0, waiting |-> FALSE, cnt |-> 0, seen |-> FALSE]
  /\ cur = CurReset
  /\ pins = "stop"

BusVoltage_Init == vm' = VoltReset(vm)

CurrentSensor_Init == cur' = CurReset

\* The interrupt, with the voltage in zone v and the current high or not.
Dev_Power_Isr1ms(v, high) ==
  /\ vm' = BusVoltage_Isr1ms(vm, v)
  /\ cur' = CurrentSensor_Isr1ms(cur, high)
  /\ sys_evt' = sys_evt \cup VoltEvents(vm, vm') \cup CurEvents(cur, cur')
  /\ UNCHANGED pins

\* The direction the pins get for the direction asked for.
Physical(dir) ==
  IF ~ DirInvert THEN dir
  ELSE IF dir = "fwd" THEN "rev"
  ELSE IF dir = "rev" THEN "fwd"
  ELSE dir

\* Mutant: writing the same direction again masks the detector again.
WritePair_AlwaysMasks(dir) ==
  /\ pins' = Physical(dir)
  /\ cur' = IF dir # "stop" /\ BlockMs # 0 THEN [cur EXCEPT !.block = BlockMs] ELSE cur

\* Writing the pins masks the current detector when the motor starts or
\* reverses, not when the same direction is written again.
MotorGpio_WritePair(dir) ==
  /\ pins' = Physical(dir)
  /\ cur' = IF dir # "stop" /\ Physical(dir) # pins /\ BlockMs # 0
            THEN [cur EXCEPT !.block = BlockMs] ELSE cur
-----------------------------------------------------------------------------
(* Properties *)

\* Every variable has its type.
PowerTypeOK ==
  /\ vm \in VoltData
  /\ cur \in CurData
  /\ pins \in Pins
=============================================================================
