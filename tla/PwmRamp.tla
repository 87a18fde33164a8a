------------------------------- MODULE PwmRamp -------------------------------
(***************************************************************************)
(* The PWM output of the older board, Dev/dev_pwm/dev_pwm.c: two half      *)
(* bridges whose duty creeps towards its target by a step every 10 ms.     *)
(*                                                                         *)
(* The arbitration thread posts a direction and a duty; the thread pwm,    *)
(* one priority weaker, fetches them and makes a step.  At 50 % on both    *)
(* sides no current flows: there, and only there, the bridges change       *)
(* between running and stopping polarity.  An emergency stop, callable     *)
(* from an interrupt, sets the bridges at once; it may come in the middle  *)
(* of a tick.                                                              *)
(*                                                                         *)
(* Abstractions.  Duties are a few steps around Neutral, which stands for  *)
(* 50 %.  What the thread does to the two sides one after the other is one *)
(* step.  s_run_dir is only printed.  The semaphore only wakes the thread  *)
(* early, and it goes back to sleep: a tick is a step of its own.          *)
(***************************************************************************)
EXTENDS Integers

CONSTANTS
  Neutral,    \* 50 %
  DutyMin, DutyMax, RunDuty,   \* PWM_DUTY_MIN, PWM_DUTY_MAX, PWM_RUN_DUTY_PCT
  RampSlow, RampFast           \* PWM_RAMP_STEP_PCT, PWM_RAMP_STEP_STOP_PCT

ASSUME PwmConstants ==
  /\ {Neutral, RampSlow, RampFast} \subseteq Nat \ {0}
  /\ {DutyMin, DutyMax, RunDuty} \subseteq 1 .. 2 * Neutral - 1
  /\ DutyMin <= DutyMax

CmdDir == {"stop", "fwd", "rev"}
Group == {"U", "V"}

VARIABLES
  cmd,    \* s_cmd_dir and s_cmd_duty
  pst,    \* s_st: stop, ramp or run
  duty,   \* s_u_cur and s_v_cur, by group
  goals,  \* s_u_tgt and s_v_tgt
  wrote,  \* s_u_applied and s_v_applied, or Unwritten
  hw,     \* the bridges: compare value and polarity by group
  tickPc, \* how far the thread is in Pwm_RampTick
  want,   \* its local dir
  next,   \* what RampStep8 returned
  estop,  \* history: an emergency stop, and no command since
  cut     \* history: one came in the middle of a tick, and the output has not
          \*   come to rest since

pwmVars == <<cmd, pst, duty, goals, wrote, hw, tickPc, want, next, estop, cut>>

Unwritten == 0
Even == [g \in Group |-> Neutral]
AtNeutral == \A g \in Group : hw[g].cmp = Neutral
Stopped == AtNeutral /\ \A g \in Group : hw[g].pol = "stop"
-----------------------------------------------------------------------------
(* Commands *)

\* Cmd_Post: the arbiter's outputs and the public functions.
Cmd_Post(dir, pct) ==
  /\ cmd' = [dir |-> dir, duty |-> IF dir = "stop" THEN 0 ELSE pct]
  /\ estop' = FALSE
  /\ UNCHANGED <<pst, duty, goals, wrote, hw, tickPc, want, next, cut>>

Withdrawn == [dir |-> "stop", duty |-> 0]

\* Mutant: the state machine is not told.
AfterEStop_Same == pst

AfterEStop == "stop"

\* With interrupts disabled.
Dev_PwmMotor_EStop ==
  /\ cmd' = Withdrawn
  /\ hw' = [g \in Group |-> [cmp |-> Neutral, pol |-> "stop"]]
  /\ duty' = Even /\ wrote' = Even /\ pst' = AfterEStop
  /\ estop' = TRUE /\ cut' = (cut \/ tickPc # "idle")
  /\ UNCHANGED <<goals, tickPc, want, next>>
-----------------------------------------------------------------------------
(* Pwm_RampTick *)

\* What a side aims at.  A duty of 0 is the default one.
Clamp(x) == IF x < DutyMin THEN DutyMin ELSE IF x > DutyMax THEN DutyMax ELSE x

TargetOf(c, g) ==
  LET eff == Clamp(IF c.duty = 0 THEN RunDuty ELSE c.duty)
  IN CASE c.dir = "stop" -> Neutral
       [] c.dir = "fwd" -> IF g = "V" THEN eff ELSE 2 * Neutral - eff
       [] c.dir = "rev" -> IF g = "U" THEN eff ELSE 2 * Neutral - eff

\* The command is fetched with interrupts disabled.
Tick_Fetch ==
  /\ tickPc = "idle"
  /\ want' = cmd.dir
  /\ goals' = [g \in Group |-> TargetOf(cmd, g)]
  /\ tickPc' = "test"
  /\ UNCHANGED <<cmd, pst, duty, wrote, hw, next, estop, cut>>

Resting == pst = "stop"

\* A stopped output without a command is left alone.
Tick_Test ==
  /\ tickPc = "test"
  /\ tickPc' = IF ~ Resting THEN "step" ELSE IF want = "stop" THEN "idle" ELSE "start"
  /\ UNCHANGED <<cmd, pst, duty, goals, wrote, hw, want, next, estop, cut>>

\* From rest: running polarity.
Tick_Start ==
  /\ tickPc = "start"
  /\ duty' = Even
  /\ wrote' = [g \in Group |-> Unwritten]
  /\ hw' = [g \in Group |-> [hw[g] EXCEPT !.pol = "run"]]
  /\ pst' = "ramp" /\ tickPc' = "step"
  /\ UNCHANGED <<cmd, goals, want, next, estop, cut>>

\* Mutant: a rest smaller than a step is not taken.
RampStep8_StopsShort(c, t, step) ==
  IF c + step <= t THEN c + step ELSE IF c >= t + step THEN c - step ELSE c

\* One step towards the target, not beyond.
RampStep8(c, t, step) ==
  IF c < t THEN (IF c + step > t THEN t ELSE c + step)
  ELSE IF c > t + step THEN c - step ELSE t

Tick_Step ==
  /\ tickPc = "step"
  /\ next' = [g \in Group |-> RampStep8(duty[g], goals[g],
                                         IF want = "stop" THEN RampFast ELSE RampSlow)]
  /\ tickPc' = "apply"
  /\ UNCHANGED <<cmd, pst, duty, goals, wrote, hw, want, estop, cut>>

\* ApplyDuty writes a compare value only when it differs from the last.
Tick_Apply ==
  /\ tickPc = "apply"
  /\ duty' = next /\ wrote' = next
  /\ hw' = [g \in Group |-> IF wrote[g] # next[g] THEN [hw[g] EXCEPT !.cmp = next[g]] ELSE hw[g]]
  /\ tickPc' = "done"
  /\ UNCHANGED <<cmd, pst, goals, want, next, estop, cut>>

Arrived == duty = goals

\* Mutant: running polarity is set in every tick.
PolAfter_EveryTick(g) ==
  IF want # "stop" THEN "run" ELSE IF Arrived THEN "stop" ELSE hw[g].pol

PolAfter(g) == IF Arrived /\ want = "stop" THEN "stop" ELSE hw[g].pol

\* At the target: stopping polarity, or running on.
Tick_Done ==
  /\ tickPc = "done"
  /\ pst' = IF ~ Arrived THEN "ramp" ELSE IF want = "stop" THEN "stop" ELSE "run"
  /\ hw' = [g \in Group |-> [hw[g] EXCEPT !.pol = PolAfter(g)]]
  /\ tickPc' = "idle"
  /\ cut' = (cut /\ pst' # "stop")
  /\ UNCHANGED <<cmd, duty, goals, wrote, want, next, estop>>

PwmTick == Tick_Fetch \/ Tick_Test \/ Tick_Start \/ Tick_Step \/ Tick_Apply \/ Tick_Done

\* After Dev_Pwm_Init.
PwmInit ==
  /\ cmd = [dir |-> "stop", duty |-> 0]
  /\ pst = "stop" /\ duty = Even /\ goals = Even
  /\ wrote = [g \in Group |-> Unwritten]
  /\ hw = [g \in Group |-> [cmp |-> Neutral, pol |-> "stop"]]
  /\ tickPc = "idle" /\ want = "stop" /\ next = Even
  /\ estop = FALSE /\ cut = FALSE

PwmNext ==
  \/ \E dir \in CmdDir, pct \in 0 .. 2 * Neutral : Cmd_Post(dir, pct)
  \/ Dev_PwmMotor_EStop
  \/ PwmTick

\* The thread wakes up every PWM_TICK_MS.
PwmFairness == WF_pwmVars(PwmTick)

PwmSpec == PwmInit /\ [][PwmNext]_pwmVars /\ PwmFairness
-----------------------------------------------------------------------------
(* Properties *)

\* dev_pwm.h, "the polarity changes only at U = V = 50 %, without a jump of
\* the current": also when commands replace each other in the middle of a
\* ramp, and when an emergency stop cuts into a tick.
PolarityAtNeutral ==
  [][(\E g \in Group : hw'[g].pol # hw[g].pol) => \A g \in Group : hw'[g].cmp = Neutral]_hw

\* Whatever replaces whatever in the middle of a ramp, the two sides stay
\* symmetric around 50 %: U falls by what V rises.
BridgeBalanced == ~ cut /\ tickPc = "idle" => hw["U"].cmp + hw["V"].cmp = 2 * Neutral

\* A motor is driven with running polarity on both sides, whatever stops and
\* emergency stops came before (but for one that cut into a tick: a command
\* that follows within the same 10 ms then finds a ramp under way and does
\* not set the polarity).
DrivenWithRunPolarity ==
  ~ cut /\ tickPc = "idle" /\ ~ AtNeutral => \A g \in Group : hw[g].pol = "run"

\* An emergency stop that found no tick under way keeps the output stopped
\* until the next command.
EStopHolds == estop /\ ~ cut => Stopped

\* The bridges of dev_pwm.c between two ticks no emergency stop cut into.
BridgeIsSafe == BridgeBalanced /\ DrivenWithRunPolarity /\ EStopHolds

\* One that cut into a tick is undone for a moment, and then obeyed: without
\* commands the output ends up stopped, and so it does after a plain stop.
StopIsReached == <>[](cmd.dir = "stop") /\ <>[][~ Dev_PwmMotor_EStop]_pwmVars => <>[]Stopped
=============================================================================
