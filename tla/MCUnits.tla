------------------------------- MODULE MCUnits -------------------------------
(***************************************************************************)
(* The small units, side by side: each behaviour exercises the one unit it *)
(* begins with, and the others rest.                                       *)
(***************************************************************************)
EXTENDS MCPowerSense, PolarityWindow, HallMotor, TaskSet, TimeBase, StrokeSave, AdcMean,
        PwmRamp

VARIABLE unit

Unit == {"power", "polarity", "hall", "tasks", "stamp", "edge", "stroke", "adc",
         "pwm"}

pastVars == <<calm, hot, since, past>>
unitVars == <<unit, powerVars, pastVars, polVars, hallVars, taskVars, timeVars, saveVars, adcVars,
              pwmVars>>

UnitInit ==
  /\ unit \in Unit
  /\ MCInit /\ PolInit /\ HallInit /\ TaskInit /\ TimeInit /\ StrokeInit
  /\ AdcInit /\ PwmInit
  \* A unit at rest has one initial state.
  /\ unit # "polarity" => under /\ pin = 0
  /\ unit # "hall" => phase = 0
  /\ unit # "stroke" => rodAt = 0

PowerStep ==
  /\ unit = "power" /\ MCNext
  /\ UNCHANGED <<unit, polVars, hallVars, taskVars, timeVars, saveVars, adcVars, pwmVars>>

PolarityStep ==
  /\ unit = "polarity" /\ PolNext
  /\ UNCHANGED <<unit, powerVars, pastVars, hallVars, taskVars, timeVars, saveVars, adcVars, pwmVars>>

HallStep ==
  /\ unit = "hall" /\ HallNext
  /\ UNCHANGED <<unit, powerVars, pastVars, polVars, taskVars, timeVars, saveVars, adcVars, pwmVars>>

TaskStep ==
  /\ unit = "tasks" /\ TaskNext
  /\ UNCHANGED <<unit, powerVars, pastVars, polVars, hallVars, timeVars, saveVars, adcVars, pwmVars>>

TimeStep ==
  /\ \/ unit = "stamp" /\ StampNext
     \/ unit = "edge" /\ EdgeNext
  /\ UNCHANGED <<unit, powerVars, pastVars, polVars, hallVars, taskVars, saveVars, adcVars, pwmVars>>

StrokeStep ==
  /\ unit = "stroke" /\ StrokeNext
  /\ UNCHANGED <<unit, pastVars, polVars, hallVars, taskVars, timeVars, adcVars, pwmVars>>

AdcStep ==
  /\ unit = "adc" /\ AdcNext
  /\ UNCHANGED <<unit, powerVars, pastVars, polVars, hallVars, taskVars, timeVars, saveVars, pwmVars>>

PwmStep ==
  /\ unit = "pwm" /\ PwmNext
  /\ UNCHANGED <<unit, powerVars, pastVars, polVars, hallVars, taskVars, timeVars, saveVars, adcVars>>

UnitNext ==
  \/ PowerStep \/ PolarityStep \/ HallStep \/ TaskStep \/ TimeStep \/ StrokeStep
  \/ AdcStep \/ PwmStep

\* The fairness of PolarityWindow, TaskSet and PwmRamp, in the behaviours that
\* exercise them.
UnitFairness ==
  /\ WF_polVars(unit = "polarity" /\ Polarity_Scan)
  /\ WF_taskVars(unit = "tasks" /\ MainStep)
  /\ SF_taskVars(unit = "tasks" /\ SysTick)
  /\ \A t \in Task : WF_taskVars(unit = "tasks" /\ Task_Set_Beat(t))
  /\ WF_pwmVars(unit = "pwm" /\ PwmTick)

UnitSpec == UnitInit /\ [][UnitNext]_unitVars /\ UnitFairness
=============================================================================
