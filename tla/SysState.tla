------------------------------ MODULE SysState ------------------------------
(***************************************************************************)
(* The system state machine, Dev/dev_mgr/dev_state.c with state_engine.c,  *)
(* dev_sm_thread.c and the initialisation order of dev_registry.c,         *)
(* composed with the arbiter, the power detectors and the supply polarity. *)
(*                                                                         *)
(* Events are bits of one event group: an interrupt or a thread sets them, *)
(* the thread sys_sm takes them all at once and handles them in the fixed  *)
(* order of Sys_State_Dispatch, whatever the order they were sent in.      *)
(* What sys_sm still has to do is the sequence todo: bits to handle,       *)
(* events to feed to the state table, calls of a state's entry function.   *)
(* Every element is one step, so interrupts and the polarity scan may come *)
(* between any two.                                                        *)
(*                                                                         *)
(* Scheduling.  One core, fixed priorities: interrupts > act (15) > di     *)
(* (18) > sys_sm (19) > shell.  A thread's step therefore waits until      *)
(* every thread above it has nothing to do: a command posted is arbitrated *)
(* before its sender goes on.                                              *)
(*                                                                         *)
(* Abstractions.  The debounce window is one sample here (PolarityWindow   *)
(* has it in full); as it takes 10 ms to fill, no polarity edge comes      *)
(* before the first Dev_Registry_InitAll ends or inside a later one, which *)
(* takes microseconds.  Whether an over-current falls in a calibration     *)
(* window is left open.  The axis event groups, which nobody receives, the *)
(* error code, the request to save the position that an undervoltage       *)
(* leaves for the rod task and everything printed are left out.            *)
(***************************************************************************)
EXTENDS Arbiter, PowerSense

CONSTANTS
  MainAxis,    \* POLARITY_ARB_AXIS_ID
  Emergency,   \* DEV_ID_EMERGENCY
  RunDuty,     \* POLARITY_ARB_RUN_DUTY_PCT
  Volts,       \* the zones the supply visits
  Currents,    \* what the current comparison may say
  Shell,       \* sets of bits the shell command sys_evt may send
  MaxShell     \* bound on the number of shell commands

State == {"INIT", "IDLE", "RUN", "STOP", "FAULT", "EMERGENCY"}
Fault == {"over_current", "rod_limit", "volt_over", "volt_under"}
Polarity == Dir \cup {"unknown", "unpowered"}

\* The order in which Sys_State_Dispatch tests the bits.  VOLT_RECOVER_WAIT
\* only prints.
BitOrder ==
  <<"OVER_CURRENT", "ROD_LIMIT_FAULT", "VOLT_OVER", "VOLT_UNDER", "FAULT",
    "EMERGENCY", "RECOVERY", "VOLT_NORMAL", "VOLT_RECOVER_WAIT",
    "POLARITY_CHG", "INIT_DONE", "CMD_WORK_ENABLE", "ST_WORK_ERROR">>

EventBit == Range(BitOrder)

NumAxes == Cardinality(Axis)   \* MAX_AXIS_NUM

ASSUME SysConstants ==
  /\ NumAxes \in Nat \ {0} /\ Axis = 0 .. NumAxes - 1
  /\ MainAxis \in Axis /\ Emergency \in Device
  /\ RunDuty \in 0 .. 100
  /\ Volts \subseteq Zone /\ Good \in Volts
  /\ Currents \subseteq BOOLEAN /\ FALSE \in Currents
  /\ Shell \subseteq SUBSET EventBit /\ MaxShell \in Nat

VARIABLES
  sm,              \* sys_sm.cur_state
  previous_state,  \* sys_sm.previous_state
  fault_bits,      \* mySystem.fault_bits
  prev_state,      \* mySystem.prev_state, the state the first fault struck
  overcur_dir,     \* s_overcur_dir
  pol,             \* s_state of dev_polarity.c
  todo,            \* what sys_sm has still to do
  hw_started,      \* s_hw_started
  volt,            \* the zone of the bus voltage
  pin,             \* the direction the polarity pin shows
  hand             \* history: the shell commands given

smVars == <<sm, previous_state>>
faultVars == <<fault_bits, prev_state, overcur_dir>>
envVars == <<volt, pin, hand>>
sysVars == <<mq, arb, out, vm, cur, pins, sys_evt, sm, previous_state, fault_bits,
             prev_state, overcur_dir, pol, todo, hw_started, volt, pin, hand>>
-----------------------------------------------------------------------------
(* The state table *)

\* What brings IDLE and RUN to an emergency stop.
FaultEvents == {"OVER_CURRENT", "ROD_LIMIT_FAULT", "VOLT_OVER", "VOLT_UNDER", "EMERGENCY"}

\* Mutant: the row for an undervoltage in RUN is missing.
Jump_RunIgnoresUnder ==
  {<<"IDLE", e, "EMERGENCY">> : e \in FaultEvents} \cup
  {<<"RUN", e, "EMERGENCY">> : e \in FaultEvents \ {"VOLT_UNDER"}} \cup
  {<<s, "FAULT", "FAULT">> : s \in {"IDLE", "RUN", "EMERGENCY"}} \cup
  {<<s, "RECOVERY", "IDLE">> : s \in {"STOP", "FAULT", "EMERGENCY"}} \cup
  {<<s, "CMD_WORK_ENABLE", "RUN">> : s \in {"IDLE", "STOP"}} \cup
  {<<"INIT", "INIT_DONE", "IDLE">>}

sys_jump ==
  {<<s, e, "EMERGENCY">> : s \in {"IDLE", "RUN"}, e \in FaultEvents} \cup
  {<<s, "FAULT", "FAULT">> : s \in {"IDLE", "RUN", "EMERGENCY"}} \cup
  {<<s, "RECOVERY", "IDLE">> : s \in {"STOP", "FAULT", "EMERGENCY"}} \cup
  {<<s, "CMD_WORK_ENABLE", "RUN">> : s \in {"IDLE", "STOP"}} \cup
  {<<s, "ST_WORK_ERROR", "STOP">> : s \in {"IDLE", "RUN"}} \cup
  {<<"INIT", "INIT_DONE", "IDLE">>}

(* The elements of todo *)

Bit(e) == [do |-> "bit", evt |-> e]
Send(e) == [do |-> "event", evt |-> e]
Post(m, urgent) == [do |-> "post", msg |-> m, urgent |-> urgent]
Enable(a, on) == [do |-> "enable", axis |-> a, on |-> on]
Init(module) == [do |-> "init", module |-> module]
StartHw == [do |-> "start"]

Cmd(a, device, priority, verb, dir, duty) ==
  [axis |-> a, device |-> device, priority |-> priority, verb |-> verb, dir |-> dir, duty |-> duty]

\* Mutant: both polarity edges send RUN_FWD.
RunMsg_AlwaysForward(dir) ==
  Cmd(MainAxis, IF dir = "fwd" THEN PowerPos ELSE PowerNeg, PrioPower, "RUN", "fwd", RunDuty)

RunMsg(dir) ==
  Cmd(MainAxis, IF dir = "fwd" THEN PowerPos ELSE PowerNeg, PrioPower, "RUN", dir, RunDuty)
ClearMsg(dir) == Cmd(MainAxis, PowerPos, PrioPower, "CLEAR_ALLOW", dir, 0)
EStopMsg(a) == Cmd(a, Emergency, 0, "EMERGENCY_STOP", "fwd", 0)

\* One call for every axis in turn, and two.
ForAxes(call(_)) == [i \in 1 .. NumAxes |-> call(i - 1)]
ForAxesBoth(first(_), second(_)) ==
  [i \in 1 .. 2 * NumAxes |-> IF i % 2 = 1 THEN first((i - 1) \div 2) ELSE second((i - 2) \div 2)]
-----------------------------------------------------------------------------
(* The entry functions *)

\* Mutant: the voltage detector is not initialised again.
EnterIdle_KeepsVoltage == <<Init("cur"), Init("pol"), Init("act"), StartHw>>

\* Mutant: the polarity is not detected again.
EnterIdle_KeepsPolarity == <<Init("cur"), Init("vm"), Init("act"), StartHw>>

sys_enter_idle ==
  <<Init("cur"), Init("vm"), Init("pol"), Init("act"), StartHw>>

Sys_State_ResyncActFromFault ==
  ForAxes(LAMBDA a : Enable(a, TRUE)) \o
  (IF pol \in Dir THEN <<Post(RunMsg(pol), FALSE)>>
   ELSE <<Post(ClearMsg("fwd"), FALSE), Post(ClearMsg("rev"), FALSE)>>)

sys_enter_run(from) == IF from = "FAULT" THEN Sys_State_ResyncActFromFault ELSE <<>>

\* Mutant: the emergency stop is sent while the axis is still enabled, and
\* the axis is never disabled.
EnterFault_StopOnly == ForAxes(LAMBDA a : Post(EStopMsg(a), TRUE))

sys_enter_fault ==
  ForAxesBoth(LAMBDA a : Enable(a, FALSE), LAMBDA a : Post(EStopMsg(a), TRUE))

sys_enter_emergency == ForAxes(LAMBDA a : Post(EStopMsg(a), TRUE)) \o <<Send("FAULT")>>

Enter(state, from) ==
  CASE state = "IDLE" -> sys_enter_idle
    [] state = "RUN" -> sys_enter_run(from)
    [] state = "FAULT" -> sys_enter_fault
    [] state = "EMERGENCY" -> sys_enter_emergency
    [] OTHER -> <<>>
-----------------------------------------------------------------------------
(* The thread sys_sm *)

Do(kind) == mq = <<>> /\ todo # <<>> /\ Head(todo).do = kind
Then(ops) == todo' = ops \o Tail(todo)

TestedBefore(e, f) ==
  \E i, j \in DOMAIN BitOrder : i < j /\ BitOrder[i] = e /\ BitOrder[j] = f

\* rt_event_recv takes and clears all bits; they are handled in code order.
sys_sm_thread_entry ==
  /\ mq = <<>> /\ todo = <<>> /\ sys_evt # {}
  /\ \E bits \in [1 .. Cardinality(sys_evt) -> sys_evt] :
       /\ Range(bits) = sys_evt
       /\ \A i, j \in DOMAIN bits : i < j => TestedBefore(bits[i], bits[j])
       /\ todo' = [i \in DOMAIN bits |-> Bit(bits[i])]
  /\ sys_evt' = {}
  /\ UNCHANGED <<arbVars, vm, cur, pins, smVars, faultVars, pol, hw_started, envVars>>

\* StateMachine_SendEvent: an event without a row changes nothing.
StateMachine_SendEvent ==
  /\ Do("event")
  /\ LET row == {r \in sys_jump : r[1] = sm /\ r[2] = Head(todo).evt}
     IN \/ /\ row = {}
           /\ Then(<<>>)
           /\ UNCHANGED smVars
        \/ \E r \in row :
           /\ previous_state' = sm
           /\ sm' = r[3]
           /\ Then(Enter(r[3], sm))
  /\ UNCHANGED <<arbVars, powerVars, faultVars, pol, hw_started, envVars>>

\* A fault bit is set; the first one records the state it struck.
NoteFault(f) ==
  /\ fault_bits' = fault_bits \cup {f}
  /\ prev_state' = IF fault_bits = {} THEN sm ELSE prev_state

\* RodCalib_OnOverCurrent looks at the axis now: a motor that does not turn
\* has no over-current; one near the end of its stroke has reached the soft
\* limit; anywhere else it is stuck.
OnOverCurrent ==
  /\ Do("bit") /\ Head(todo).evt = "OVER_CURRENT"
  /\ LET d == arb[MainAxis]
         turning == d.enable /\ d.active_dir \in Dir
     IN \/ /\ ~ turning
           /\ Then(<<>>)
           /\ UNCHANGED faultVars
        \/ /\ turning
           /\ Then(<<Post(ClearMsg(d.active_dir), TRUE)>>)
           /\ UNCHANGED faultVars
        \/ /\ turning
           /\ overcur_dir' = d.active_dir
           /\ NoteFault("over_current")
           /\ Then(<<Send("OVER_CURRENT")>>)
  /\ UNCHANGED <<arbVars, powerVars, smVars, pol, hw_started, envVars>>

\* Unlike the others this fault does not record the state it struck.
OnRodLimitFault ==
  /\ Do("bit") /\ Head(todo).evt = "ROD_LIMIT_FAULT"
  /\ fault_bits' = fault_bits \cup {"rod_limit"}
  /\ Then(<<Send("ROD_LIMIT_FAULT")>>)
  /\ UNCHANGED <<arbVars, powerVars, smVars, prev_state, overcur_dir, pol, hw_started, envVars>>

VoltBit(e) == IF e = "VOLT_OVER" THEN "volt_over" ELSE "volt_under"

OnVoltFault ==
  /\ Do("bit") /\ Head(todo).evt \in {"VOLT_OVER", "VOLT_UNDER"}
  /\ NoteFault(VoltBit(Head(todo).evt))
  /\ Then(<<Send(Head(todo).evt)>>)
  /\ UNCHANGED <<arbVars, powerVars, smVars, overcur_dir, pol, hw_started, envVars>>

\* Once no fault is left the machine goes back to IDLE and, if the first
\* fault struck in RUN, on to RUN.
ResumeOps ==
  <<Send("RECOVERY")>> \o (IF prev_state = "RUN" THEN <<Send("CMD_WORK_ENABLE")>> ELSE <<>>)

\* Mutant: a good voltage resumes work although another fault stands.
VoltNormal_IgnoresRest ==
  /\ Do("bit") /\ Head(todo).evt = "VOLT_NORMAL"
  /\ fault_bits' = fault_bits \ {"volt_over", "volt_under"}
  /\ Then(ResumeOps)
  /\ UNCHANGED <<arbVars, powerVars, smVars, prev_state, overcur_dir, pol, hw_started, envVars>>

OnVoltNormal ==
  /\ Do("bit") /\ Head(todo).evt = "VOLT_NORMAL"
  /\ fault_bits' = fault_bits \ {"volt_over", "volt_under"}
  /\ Then(IF fault_bits' = {} THEN ResumeOps ELSE <<>>)
  /\ UNCHANGED <<arbVars, powerVars, smVars, prev_state, overcur_dir, pol, hw_started, envVars>>

\* Mutant: the comparison is the wrong way round.
Reversed_Same == overcur_dir # "unknown" /\ pol = overcur_dir

\* Also true of a polarity that is unknown or unpowered by now.
Reversed == overcur_dir # "unknown" /\ pol # overcur_dir

\* An over-current is forgiven when the supply has been reversed since.
OnPolarityChg ==
  /\ Do("bit") /\ Head(todo).evt = "POLARITY_CHG"
  /\ \/ /\ "over_current" \in fault_bits /\ Reversed
        /\ fault_bits' = fault_bits \ {"over_current"}
        /\ Then(IF fault_bits' = {} THEN ResumeOps ELSE <<>>)
     \/ /\ ~ ("over_current" \in fault_bits /\ Reversed)
        /\ Then(<<>>)
        /\ UNCHANGED fault_bits
  /\ UNCHANGED <<arbVars, powerVars, smVars, prev_state, overcur_dir, pol, hw_started, envVars>>

OnRecovery ==
  /\ Do("bit") /\ Head(todo).evt = "RECOVERY"
  /\ fault_bits' = {}
  /\ Then(<<Send("RECOVERY")>>)
  /\ UNCHANGED <<arbVars, powerVars, smVars, prev_state, overcur_dir, pol, hw_started, envVars>>

\* The bits that are handed on to the state table as they are.
OnPlainBit ==
  /\ Do("bit")
  /\ Head(todo).evt \in {"FAULT", "EMERGENCY", "INIT_DONE", "CMD_WORK_ENABLE", "ST_WORK_ERROR"}
  /\ Then(<<Send(Head(todo).evt)>>)
  /\ UNCHANGED <<arbVars, powerVars, smVars, faultVars, pol, hw_started, envVars>>

OnRecoverWait ==
  /\ Do("bit") /\ Head(todo).evt = "VOLT_RECOVER_WAIT"
  /\ Then(<<>>)
  /\ UNCHANGED <<arbVars, powerVars, smVars, faultVars, pol, hw_started, envVars>>

Sys_State_Dispatch ==
  \/ OnOverCurrent \/ OnRodLimitFault \/ OnVoltFault \/ OnVoltNormal
  \/ OnPolarityChg \/ OnRecovery \/ OnPlainBit \/ OnRecoverWait

Sys_State_ArbSendCommand ==
  /\ Do("post")
  /\ Arb_SendCommand(Head(todo).msg, Head(todo).urgent)
  /\ Then(<<>>)
  /\ UNCHANGED <<powerVars, smVars, faultVars, pol, hw_started, envVars>>

Sys_State_SetArbEnable ==
  /\ Do("enable")
  /\ Arb_SetEnable(Head(todo).axis, Head(todo).on)
  /\ Then(<<>>)
  /\ UNCHANGED <<powerVars, smVars, faultVars, pol, hw_started, envVars>>

\* One initialiser of Dev_Registry_InitAll.  The others (adc, monitor, motg,
\* hall_mot) change nothing that is modelled here.
Dev_Registry_InitAll ==
  /\ Do("init")
  /\ \/ /\ Head(todo).module = "cur" /\ CurrentSensor_Init
        /\ UNCHANGED <<vm, pol, arbVars>>
     \/ /\ Head(todo).module = "vm" /\ BusVoltage_Init
        /\ UNCHANGED <<cur, pol, arbVars>>
     \/ /\ Head(todo).module = "pol" /\ pol' = "unknown"
        /\ UNCHANGED <<cur, vm, arbVars>>
     \/ /\ Head(todo).module = "act" /\ Arb_Module_Init
        /\ UNCHANGED <<cur, vm, pol>>
  /\ Then(<<>>)
  /\ UNCHANGED <<pins, sys_evt, smVars, faultVars, hw_started, envVars>>

StartHardware ==
  /\ Do("start")
  /\ hw_started' = TRUE
  /\ Then(<<>>)
  /\ UNCHANGED <<arbVars, powerVars, smVars, faultVars, pol, envVars>>

SysSm ==
  \/ sys_sm_thread_entry \/ StateMachine_SendEvent \/ Sys_State_Dispatch
  \/ Sys_State_ArbSendCommand \/ Sys_State_SetArbEnable
  \/ Dev_Registry_InitAll \/ StartHardware
-----------------------------------------------------------------------------
(* The other actors *)

\* The arbitration thread; its decision goes straight to the pins, which all
\* axes share.
Act ==
  /\ Arb_ThreadEntry
  /\ MotorGpio_WritePair(out'[Head(mq).axis])
  /\ UNCHANGED <<vm, sys_evt, smVars, faultVars, pol, todo, hw_started, envVars>>

PowerIsr ==
  /\ hw_started
  /\ \E high \in Currents : Dev_Power_Isr1ms(volt, high)
  /\ UNCHANGED <<arbVars, smVars, faultVars, pol, todo, hw_started, envVars>>

Initialising == \E i \in DOMAIN todo : todo[i].do \in {"init", "start"}

\* The scan of thread di.  Without a bus the pin shows nothing.
Polarity_Scan ==
  /\ mq = <<>> /\ hw_started /\ ~ Initialising
  /\ \/ /\ vm.fault = 1
        /\ pol # "unpowered" /\ pol' = "unpowered"
        /\ UNCHANGED <<arbVars, sys_evt>>
     \/ /\ vm.fault # 1
        /\ pol # pin /\ pol' = pin
        /\ sys_evt' = sys_evt \cup {"POLARITY_CHG"}
        /\ Arb_SendCommand(RunMsg(pin), FALSE)
  /\ UNCHANGED <<vm, cur, pins, smVars, faultVars, todo, hw_started, envVars>>

\* The shell has the lowest priority of all.
cmd_sys_evt ==
  /\ mq = <<>> /\ todo = <<>> /\ sys_evt = {}
  /\ hand < MaxShell /\ hand' = hand + 1
  /\ \E bits \in Shell : sys_evt' = bits
  /\ UNCHANGED <<arbVars, vm, cur, pins, smVars, faultVars, pol, todo, hw_started, volt, pin>>

\* The supply: its voltage wanders, its user turns it round.
Supply ==
  /\ \/ volt' \in Volts \ {volt} /\ UNCHANGED pin
     \/ pin' = Opposite(pin) /\ UNCHANGED volt
  /\ UNCHANGED <<arbVars, powerVars, smVars, faultVars, pol, todo, hw_started, hand>>

\* App_Model_Init ends by sending the two events that start the machine.
App_Model_Init ==
  /\ ArbInit /\ PowerInit
  /\ sys_evt = {"INIT_DONE", "CMD_WORK_ENABLE"}
  /\ sm = "INIT" /\ previous_state = "INIT"
  /\ fault_bits = {} /\ prev_state = "INIT" /\ overcur_dir = "unknown"
  /\ pol = "unknown" /\ todo = <<>> /\ hw_started = FALSE
  /\ volt \in Volts /\ pin \in Dir /\ hand = 0

SysNext == SysSm \/ Act \/ PowerIsr \/ Polarity_Scan \/ cmd_sys_evt \/ Supply

SysSpec == App_Model_Init /\ [][SysNext]_sysVars

\* Act is enabled exactly while a command is queued: this is WF_sysVars(Act)
\* with ENABLED spelt out, which TLC would evaluate very slowly.
ActRuns == []<>(mq = <<>>) \/ []<><<Act>>_sysVars

\* The interrupt comes every millisecond; di is periodic, act and sys_sm are
\* woken by what they wait for.  The threads above sys_sm interrupt it again
\* and again but always go back to sleep, hence strong fairness.
SysFairSpec ==
  /\ SysSpec
  /\ ActRuns
  /\ WF_sysVars(PowerIsr) /\ WF_sysVars(Polarity_Scan)
  /\ SF_sysVars(SysSm)
-----------------------------------------------------------------------------
(* Properties *)

\* Every variable has its type.
SysTypeOK ==
  /\ ArbTypeOK /\ PowerTypeOK
  /\ sys_evt \subseteq EventBit
  /\ sm \in State /\ previous_state \in State /\ prev_state \in State
  /\ fault_bits \subseteq Fault
  /\ overcur_dir \in Dir \cup {"unknown"}
  /\ pol \in Polarity
  /\ hw_started \in BOOLEAN
  /\ volt \in Zone /\ pin \in Dir /\ hand \in 0 .. MaxShell

\* sys_sm has handled everything it took, and act everything posted.
Settled == todo = <<>> /\ mq = <<>>
Quiet == Settled /\ sys_evt = {}

\* In FAULT the motor is braked and every axis disabled, whatever commands
\* the polarity scan slipped in between the emergency stop, the disabling
\* and the second emergency stop.
FaultIsStopped ==
  sm = "FAULT" /\ Settled => pins = "stop" /\ \A a \in Axis : ~ arb[a].enable

\* No way back from a fault leaves an axis disabled.
WorkingIsEnabled ==
  sm \in {"IDLE", "RUN", "STOP"} /\ Settled => \A a \in Axis : arb[a].enable

\* What dev_state.c's states mean for the motor holds at rest, also when the
\* shell sends an event by hand.
StateIsObeyed == FaultIsStopped /\ WorkingIsEnabled

\* Without a hand on the shell the machine rests in FAULT while a fault bit
\* stands and in RUN otherwise: every recovery goes all the way through IDLE
\* to RUN, and none leaves while another fault is in force.
FaultBitsExplainState ==
  Settled /\ sm # "INIT" /\ hand = 0 => sm = IF fault_bits = {} THEN "RUN" ELSE "FAULT"

\* While the detector holds a voltage fault the machine rests in FAULT,
\* although events merge, are handled in another order than sent, and meet
\* a detector that entering IDLE has just reset.
VoltFaultHolds == Quiet /\ vm.fault # 0 /\ hand = 0 => sm = "FAULT"

\* A reversed switch is always noticed: no over-current fault stands at rest
\* while the supply asks for the other direction, although the edge and the
\* over-current merge into one batch, the direction of the fault is read late
\* and an edge that comes before the fault is recorded has no effect.
ReversalForgives ==
  Quiet /\ "over_current" \in fault_bits => pol # Opposite(overcur_dir)

\* At rest the motor turns only the way the supply polarity asks for.
DriveMatchesPolarity == Quiet /\ pins # "stop" /\ hand = 0 => pins = Physical(pol)

\* A supply out of range that stays so stops the motor for good.
BadVoltageStops ==
  \A v \in {1, 5} : <>[](volt = v /\ hand = 0) => <>[](pins = "stop")

\* With a good supply, no fault left and the switch left alone, the motor
\* ends up turning the way the switch says.
MotorFollowsSwitch ==
  \A d \in Dir : <>[](volt = Good /\ pin = d /\ fault_bits = {} /\ hand = 0)
                    => <>[](pins = Physical(d))

\* A voltage fault ends by itself once the voltage is good for good and the
\* switch left alone, if no other fault stands.
VoltageRecovers ==
  \A d \in Dir :
    <>[](volt = Good /\ pin = d /\ fault_bits \subseteq {"volt_over", "volt_under"})
      => <>[](sm = "RUN")
=============================================================================
