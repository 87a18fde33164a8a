----------------------------- MODULE MCPowerSense -----------------------------
(***************************************************************************)
(* The power detectors alone, against any voltage, any current and any     *)
(* motor command, with counters that remember the recent past.             *)
(***************************************************************************)
EXTENDS PowerSense

VARIABLES
  calm,    \* interrupts in a row that saw the voltage back from the fault in force
  hot,     \* interrupts in a row that saw a high current
  since,   \* interrupts since the motor last started or reversed
  past     \* the events sent by the last step

mcVars == <<vm, cur, pins, sys_evt, calm, hot, since, past>>

Horizon == BlockMs + WindowMs + RecoverMs + 1   \* the counters stop here
Up(n) == IF n < Horizon THEN n + 1 ELSE n

MCInit ==
  /\ PowerInit
  /\ sys_evt = {} /\ past = {}
  /\ calm = 0 /\ hot = 0 /\ since = Horizon

Isr == \E v \in Zone, high \in BOOLEAN :
  /\ Dev_Power_Isr1ms(v, high)
  /\ calm' = IF vm.fault # 0 /\ BackToGood(vm.fault, v) THEN Up(calm) ELSE 0
  /\ hot' = IF high THEN Up(hot) ELSE 0
  /\ since' = Up(since)
  /\ past' = VoltEvents(vm, vm') \cup CurEvents(cur, cur')

\* The arbitration thread writes the pins.
Write == \E dir \in Pins :
  /\ MotorGpio_WritePair(dir)
  /\ since' = IF dir # "stop" /\ pins' # pins THEN 0 ELSE since
  /\ past' = {}
  /\ UNCHANGED <<vm, sys_evt, calm, hot>>

\* Entering IDLE starts both detectors afresh.  The state machine gets there
\* from INIT, FAULT or EMERGENCY, with the motor braked (from STOP, which only
\* a shell command reaches, it need not be).
Reset ==
  /\ pins = "stop"
  /\ CurrentSensor_Init /\ BusVoltage_Init
  /\ calm' = 0 /\ past' = {}
  /\ UNCHANGED <<pins, sys_evt, hot, since>>

\* The state machine takes every pending event.
Receive ==
  /\ sys_evt # {}
  /\ sys_evt' = {} /\ past' = {}
  /\ UNCHANGED <<vm, cur, pins, calm, hot, since>>

MCNext == Isr \/ Write \/ Reset \/ Receive

MCSpec == MCInit /\ [][MCNext]_mcVars
-----------------------------------------------------------------------------
\* VOLT_NORMAL is sent only after the voltage has been back, hysteresis
\* included, without a break: one interrupt that starts the wait and
\* recover_ms that count it.
NormalNeedsCalm == "VOLT_NORMAL" \in past => calm >= RecoverMs + 1

\* A motor that starts or reverses is not judged for block_ms, and then needs
\* window_ms of high current: "30ms + 30ms = 60ms at the earliest".
OverCurrentNeedsTime ==
  "OVER_CURRENT" \in past =>
    /\ hot >= WindowMs
    /\ pins # "stop" => since >= BlockMs + WindowMs

\* A high current that outlasts mask and window is an over-current, although
\* the arbiter writes the pins again with every command it handles.
HighCurrentReported ==
  (hot >= BlockMs + WindowMs /\ pins # "stop" /\ since >= BlockMs + WindowMs) => cur.status
=============================================================================
