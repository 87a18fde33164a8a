------------------------------ MODULE StrokeSave ------------------------------
(***************************************************************************)
(* The rod position across a power failure: the voltage detector, the      *)
(* undervoltage branch of sys_sm, the save in the rod task and the restore *)
(* at power-up (dev_bus_voltage.c, dev_state.c, dev_param_rod.c).          *)
(*                                                                         *)
(* When the bus falls below its threshold the processor lives on for a     *)
(* while on its capacitors.  The interrupt tells sys_sm, which requests a  *)
(* save and brakes the motor; the rod task saves two of its turns later.   *)
(* At power-up a record with a sequence number above 1 is taken for the    *)
(* position of a calibrated rod.                                           *)
(*                                                                         *)
(* Timing.  Time goes in turns of the rod task: an interrupt that samples, *)
(* then, in any order and in each other's way, the rod task and sys_sm.    *)
(* The processor lives HoldTurns turns of low bus, a braked rod coasts one *)
(* turn.  RecoverMs, WindowMs and BlockMs count turns here.                *)
(*                                                                         *)
(* Abstractions.  Hall pulses and calibration are those of Rod, without    *)
(* obstacles; the flash is the store ParamStore implements.  The default   *)
(* record needs one attempt.                                               *)
(***************************************************************************)
EXTENDS PowerSense

CONSTANTS
  RodEnd,     \* stroke_mm, in steps
  WaitTicks,  \* ROD_SAVE_WAIT_TICKS
  HoldTurns   \* turns the processor lives with a low bus

\* The processor outlives request and wait, a braked rod stands before it is
\* saved, and the wait is over before a bus that came back is taken for good
\* (in the code 270 ms, 2 turns of 10 ms and 500 ms).
ASSUME SaveConstants ==
  /\ RodEnd \in Nat \ {0} /\ WaitTicks \in Nat \ {0, 1} /\ HoldTurns \in Nat
  /\ WaitTicks + 2 <= HoldTurns /\ WaitTicks <= RecoverMs + 1

VARIABLES
  alive,   \* the processor has power
  slot,    \* whose turn it is: isr or rod
  bits,    \* the events sys_sm is dispatching
  asking,  \* sys_sm is inside Dev_Param_RodSaveRequest
  halt,    \* fault_bits
  pos,     \* position_mm and calib_state
  goal,    \* calib_req
  ask,     \* s_rod_save_pending and s_rod_save_wait
  rec,     \* the record on the flash: none, default or real, and its position
  rodAt,   \* where the rod really is
  moved,   \* pulse_accum
  coast,   \* which way a braked rod still moves
  low,     \* turns the bus has been low, up to HoldTurns
  excuse,  \* history: why this undervoltage leads to no save: "masked" by an
           \*   over-voltage fault, or "unseen", before any valid bus
  doubt    \* history: the excuses power was ever lost with, and "byHand" after
           \*   a debug save of a rod that was not calibrated

saveVars == <<alive, slot, bits, asking, halt, pos, goal, ask, rec, rodAt, moved, coast,
              low, excuse, doubt>>
strokeVars == <<powerVars, saveVars>>

Ways == {"fwd", "rev"}
Logical == Physical(pins)   \* the wiring undoes the inversion
EndOf(dir) == IF dir = "fwd" THEN RodEnd ELSE 0
NoAsk == [pending |-> FALSE, wait |-> 0]
SmIdle == sys_evt = {} /\ bits = {} /\ ~ asking
-----------------------------------------------------------------------------
(* The motor, the bus and the interrupt *)

\* The motor is braked; the rod moves on for a turn.
Brake ==
  /\ MotorGpio_WritePair("stop")
  /\ coast' = IF pins # "stop" THEN Logical ELSE coast

\* A run command of the power switch reaches the motor, not while events are
\* on their way (Prompt of Rod).
Run(dir) ==
  /\ alive /\ halt = {} /\ pins # Physical(dir)
  /\ SmIdle /\ goal = "none"
  /\ MotorGpio_WritePair(dir)
  /\ coast' = "no"
  /\ UNCHANGED <<vm, sys_evt, alive, slot, bits, asking, halt, pos, goal, ask, rec, rodAt, moved,
                 low, excuse, doubt>>

\* A turn begins: the rod has moved or not, the interrupt samples.
Sample(v, high, step) ==
  LET dir == IF pins # "stop" THEN Logical ELSE coast
  IN /\ alive /\ slot = "isr" /\ SmIdle
     /\ step = 1 => dir \in Ways /\ rodAt # EndOf(dir)
     /\ high => pins # "stop" /\ rodAt = EndOf(Logical)
     /\ moved' = IF dir = "fwd" THEN step ELSE -step
     /\ rodAt' = rodAt + moved'
     /\ coast' = "no"
     /\ Dev_Power_Isr1ms(v, high)
     /\ low' = IF v > 1 THEN 0 ELSE IF low < HoldTurns THEN low + 1 ELSE low
     /\ excuse' = IF v = 1 /\ vm.fault = 2 THEN excuse \cup {"masked"}
                  ELSE IF v > 1 THEN excuse \ {"masked"} ELSE excuse
     /\ slot' = "rod"
     /\ UNCHANGED <<alive, bits, asking, halt, pos, goal, ask, rec, doubt>>
-----------------------------------------------------------------------------
(* sys_sm *)

\* All events at once; VOLT_RECOVER_WAIT is only printed.
Recv ==
  /\ alive /\ sys_evt # {} /\ bits = {} /\ ~ asking
  /\ bits' = sys_evt \ {"VOLT_RECOVER_WAIT"} /\ sys_evt' = {}
  /\ UNCHANGED <<vm, cur, pins, alive, slot, asking, halt, pos, goal, ask, rec, rodAt, moved,
                 coast, low, excuse, doubt>>

\* The order in which Sys_State_Dispatch looks at the bits.
Rank(e) ==
  CASE e = "OVER_CURRENT" -> 1 [] e = "VOLT_OVER" -> 2 [] e = "VOLT_UNDER" -> 3 [] OTHER -> 4
Handle(e) == alive /\ ~ asking /\ e \in bits /\ \A f \in bits : Rank(e) <= Rank(f)

\* Not calibrated, or at the end as far as the position says.
AtSoftLimit(dir) == ~ pos.done \/ pos.val = EndOf(dir)

\* The end of the stroke leaves a request, anything else is a fault; both
\* stop the motor.
OnOverCurrent ==
  /\ Handle("OVER_CURRENT")
  /\ bits' = bits \ {"OVER_CURRENT"}
  /\ IF pins = "stop" THEN UNCHANGED <<goal, halt>>
     ELSE IF AtSoftLimit(Logical) THEN goal' = Logical /\ UNCHANGED halt
     ELSE halt' = halt \cup {"OVER_CURRENT"} /\ UNCHANGED goal
  /\ Brake
  /\ UNCHANGED <<vm, sys_evt, alive, slot, asking, pos, ask, rec, rodAt, moved, low, excuse, doubt>>

OnVoltOver ==
  /\ Handle("VOLT_OVER")
  /\ bits' = bits \ {"VOLT_OVER"}
  /\ halt' = halt \cup {"VOLT_OVER"}
  /\ Brake
  /\ UNCHANGED <<vm, sys_evt, alive, slot, asking, pos, goal, ask, rec, rodAt, moved, low, excuse,
                 doubt>>

\* Mutant: calibration is asked for at the request, not at the save.
MayAsk_Calibrated == vm.seen /\ ~ ask.pending /\ pos.done

\* Dev_Param_RodSaveRequest is idempotent; without a bus ever seen there is
\* no request.
MayAsk == vm.seen /\ ~ ask.pending

\* The undervoltage branch up to the first store of the request.
OnVoltUnder ==
  /\ Handle("VOLT_UNDER")
  /\ halt' = halt \cup {"VOLT_UNDER"}
  /\ asking' = TRUE
  /\ ask' = IF MayAsk THEN [ask EXCEPT !.pending = TRUE] ELSE ask
  /\ excuse' = IF vm.seen THEN excuse ELSE excuse \cup {"unseen"}
  /\ UNCHANGED <<powerVars, alive, slot, bits, pos, goal, rec, rodAt, moved, coast, low, doubt>>

\* s_rod_save_wait = 0, and on to EMERGENCY, which brakes.  (A turn of the rod
\* task in between may have counted already.)
OnVoltUnder_Rest ==
  /\ alive /\ asking
  /\ asking' = FALSE
  /\ bits' = bits \ {"VOLT_UNDER"}
  /\ ask' = [ask EXCEPT !.wait = 0]
  /\ Brake
  /\ UNCHANGED <<vm, sys_evt, alive, slot, halt, pos, goal, rec, rodAt, moved, low, excuse, doubt>>

\* Both voltage bits are cleared; with no other fault the motor may run.
OnVoltNormal ==
  /\ Handle("VOLT_NORMAL")
  /\ bits' = bits \ {"VOLT_NORMAL"}
  /\ halt' = halt \ {"VOLT_OVER", "VOLT_UNDER"}
  /\ excuse' = excuse \ {"unseen"}
  /\ UNCHANGED <<powerVars, alive, slot, asking, pos, goal, ask, rec, rodAt, moved, coast, low,
                 doubt>>
-----------------------------------------------------------------------------
(* The rod task *)

\* The position after a turn: integrate, then take up a calibration request.
Integrate(p) ==
  IF goal \in Ways THEN [val |-> EndOf(goal), done |-> TRUE] ELSE [p EXCEPT !.val = @ + moved]

\* Mutant: what is not calibrated is saved too.
MaySave_Any(p) == TRUE

MaySave(p) == p.done

SavedValue(p) == p.val

\* Actuator_Tick and Dev_Param_RodPollSave.
RodTurn ==
  /\ alive /\ slot = "rod"
  /\ pos' = Integrate(pos)
  /\ goal' = "none" /\ moved' = 0
  /\ LET due == ask.pending /\ ask.wait + 1 >= WaitTicks
     IN /\ ask' = IF due THEN NoAsk ELSE IF ask.pending THEN [ask EXCEPT !.wait = @ + 1] ELSE ask
        /\ rec' = IF due /\ MaySave(pos') THEN [kind |-> "real", val |-> SavedValue(pos')] ELSE rec
        /\ excuse' = IF due THEN {} ELSE excuse
  /\ slot' = "isr"
  /\ UNCHANGED <<powerVars, alive, bits, asking, halt, rodAt, coast, low, doubt>>

\* main's savelabel = 3: the position as it is, calibrated or not.
DebugSave ==
  /\ alive
  /\ rec' = [kind |-> "real", val |-> pos.val]
  /\ doubt' = IF pos.done THEN doubt ELSE doubt \cup {"byHand"}
  /\ UNCHANGED <<powerVars, alive, slot, bits, asking, halt, pos, goal, ask, rodAt, moved, coast,
                 low, excuse>>
-----------------------------------------------------------------------------
(* Power *)

PowerFails ==
  /\ alive /\ low >= HoldTurns
  /\ alive' = FALSE
  /\ doubt' = doubt \cup excuse
  /\ UNCHANGED <<powerVars, slot, bits, asking, halt, pos, goal, ask, rec, rodAt, moved, coast,
                 low, excuse>>

\* sequence_id >= 2.
Trusted(r) == r.kind = "real"

\* Dev_Param_RodInit, which saves the defaults if there is no record, and
\* Dev_Param_RodApply.  (Exploration ends with the first doubt: a wrong
\* position drifts without bound.)
PowerUp ==
  /\ ~ alive /\ doubt = {}
  /\ alive' = TRUE /\ slot' = "isr" /\ bits' = {} /\ asking' = FALSE /\ halt' = {}
  /\ rec' = IF rec.kind = "none" THEN [kind |-> "default", val |-> 0] ELSE rec
  /\ pos' = IF Trusted(rec) THEN [val |-> rec.val, done |-> TRUE] ELSE [val |-> 0, done |-> FALSE]
  /\ goal' = "none" /\ ask' = NoAsk /\ moved' = 0 /\ coast' = "no"
  /\ low' = 0 /\ excuse' = {}
  /\ vm' = [fault |-> 0, waiting |-> FALSE, cnt |-> 0, seen |-> FALSE]
  /\ cur' = CurReset /\ pins' = "stop" /\ sys_evt' = {}
  /\ UNCHANGED <<rodAt, doubt>>

StrokeInit ==
  /\ PowerInit /\ sys_evt = {}
  /\ alive = FALSE /\ slot = "isr" /\ bits = {} /\ asking = FALSE /\ halt = {}
  /\ pos = [val |-> 0, done |-> FALSE] /\ goal = "none" /\ ask = NoAsk
  /\ rec = [kind |-> "none", val |-> 0]
  /\ rodAt \in 0 .. RodEnd /\ moved = 0 /\ coast = "no"
  /\ low = 0 /\ excuse = {} /\ doubt = {}

StrokeNext ==
  \/ \E dir \in Ways \cup {"stop"} : Run(dir)
  \/ \E v \in Zone, high \in BOOLEAN, step \in 0 .. 1 : Sample(v, high, step)
  \/ Recv \/ OnOverCurrent \/ OnVoltOver \/ OnVoltUnder \/ OnVoltUnder_Rest \/ OnVoltNormal
  \/ RodTurn \/ DebugSave \/ PowerFails \/ PowerUp

StrokeSpec == StrokeInit /\ [][StrokeNext]_strokeVars
-----------------------------------------------------------------------------
(* Properties *)

\* What the next power-up will take for the position of a calibrated rod is
\* where the rod stands, however bus, motor, rod task and sys_sm interleave,
\* unless the power was once lost with an excuse (see doubt).
RestoredIsTrue == ~ alive /\ doubt = {} /\ Trusted(rec) => rec.val = rodAt

\* A position that was known when the power failed is not forgotten, also
\* when the calibration came together with the undervoltage.
KnownIsKept == ~ alive /\ doubt = {} /\ pos.done => Trusted(rec)

\* The design note on undervoltage saving: a real power loss writes the
\* stroke to the flash, whatever fault is in force, and no path may mark a
\* false stroke as calibrated.
StrokeRemembered ==
  ~ alive /\ doubt \subseteq {"masked"} /\ Trusted(rec) => rec.val = rodAt
=============================================================================
