--------------------------------- MODULE Rod ---------------------------------
(***************************************************************************)
(* The push rod: position, soft-limit calibration and rod state machine    *)
(* (Task/rod_task.c, Dev/dev_rod), composed with the system state machine, *)
(* the arbiter and the power detectors.                                    *)
(*                                                                         *)
(* There are no limit switches.  The rod has reached an end of its stroke  *)
(* when the current rises: the interrupt reports an over-current, sys_sm   *)
(* judges whether it is an end or an obstacle, cuts the power and leaves a *)
(* calibration request, and the rod task, 10 ms periodic, sets the         *)
(* position, enters a limit state and blocks that direction at the         *)
(* arbiter.                                                                *)
(*                                                                         *)
(* Timing.  Rod and di have the same priority, above sys_sm.  An           *)
(* over-current takes block_ms + window_ms = 60 ms, a polarity edge 10 ms, *)
(* a turn of the rod task 10 ms: between a change of the motor output and  *)
(* the next over-current, polarity edge or step of the rod its task runs   *)
(* (ticked), and it runs after the rod got stuck and before that is an     *)
(* over-current (delta = 0).                                               *)
(*                                                                         *)
(* Abstractions.  A position is counted in steps of the stroke, of which   *)
(* the rod makes at most one between two turns of its task.  The hall      *)
(* pulses are counted without error, but for those not yet read when       *)
(* entering IDLE, which MotorHall_Init drops.  The wiring is right: a rod  *)
(* driven forward extends.  Judging an over-current is one step of sys_sm. *)
(* Counters, sent flags and axis events, read by nobody, are left out.     *)
(***************************************************************************)
EXTENDS SysState

CONSTANTS
  Stroke,                    \* stroke_mm, in steps
  WinA, WinB, WinC, WinD,    \* calib_win_a .. calib_win_d
  StopMargin,                \* stop_margin_mm
  RodLimitFwd, RodLimitRev,  \* DEV_ID_ROD_LIMIT_FWD, DEV_ID_ROD_LIMIT_REV
  PrioLimit,                 \* PRIO_LIMIT
  Obstacles,                 \* whether something may stop the rod on its way
  Prompt                     \* whether sys_sm and the rod task handle an
                             \* over-current before a polarity edge changes
                             \* the motor output

ASSUME RodConstants ==
  /\ Stroke \in Nat \ {0} /\ StopMargin \in 0 .. Stroke
  /\ {WinA, WinB, WinC, WinD} \subseteq Int
  /\ {RodLimitFwd, RodLimitRev} \subseteq Device \ {PowerPos, PowerNeg}
  /\ PrioLimit \in 0 .. PrioPower
  /\ Obstacles \in BOOLEAN /\ Prompt \in BOOLEAN

RodState == {"UNKNOWN", "STOPPED", "EXTENDING", "EXT_LIMIT", "EXT_FAULT",
             "RETRACTING", "RET_LIMIT", "RET_FAULT"}
CalibReq == {"none", "max", "min"}

VARIABLES
  rod,      \* sm_act.cur_state
  calib,    \* RodPosition_t: pos, done (calib_state), min and max (in_calib_zone_*)
  req,      \* calib_req
  cmds,     \* the commands the rod task has still to post
  phys,     \* where the rod really is
  delta,    \* pulse_accum: what it has moved since the rod task last looked
  ticked,   \* history: the rod task ran since the motor output last changed
  reset     \* history: the arbiter was initialised since the rod task last ran

rodVars == <<rod, calib, req, cmds, phys, delta, ticked, reset>>
rodAllVars == <<sysVars, rodVars>>
-----------------------------------------------------------------------------
(* Position *)

InZoneMin(p) == IF WinA < WinB THEN p \in WinA .. WinB ELSE p <= WinA
InZoneMax(p) == IF WinC > WinD THEN p \in WinD .. WinC ELSE p >= WinC

RodPosition_Update(c, n) ==
  [c EXCEPT !.pos = @ + n, !.min = InZoneMin(c.pos + n), !.max = InZoneMax(c.pos + n)]

CalibAllowed(c) == ~ c.done \/ c.min \/ c.max

\* Mutant: the two ends are swapped.
OnLimit_WrongEnd(c, r) ==
  IF r = "none" \/ ~ CalibAllowed(c) THEN c
  ELSE [c EXCEPT !.pos = IF r = "max" THEN 0 ELSE Stroke, !.done = TRUE]

\* RodPosition_OnMinLimit and RodPosition_OnMaxLimit, as the request says.
RodPosition_OnLimit(c, r) ==
  IF r = "none" \/ ~ CalibAllowed(c) THEN c
  ELSE [c EXCEPT !.pos = IF r = "max" THEN Stroke ELSE 0, !.done = TRUE]
-----------------------------------------------------------------------------
(* The rod state machine *)

\* A limit state ignores a stop and is left only the other way.
rod_jump ==
  {<<s, "CMD_STOP", "STOPPED">> :
     s \in {"UNKNOWN", "EXTENDING", "RETRACTING", "EXT_FAULT", "RET_FAULT"}} \cup
  {<<s, "CMD_EXTEND", "EXTENDING">> : s \in RodState \ {"EXTENDING", "EXT_LIMIT"}} \cup
  {<<s, "CMD_RETRACT", "RETRACTING">> : s \in RodState \ {"RETRACTING", "RET_LIMIT"}} \cup
  {<<s, "AT_MAX", "EXT_LIMIT">> : s \in {"UNKNOWN", "STOPPED", "EXTENDING"}} \cup
  {<<s, "AT_MIN", "RET_LIMIT">> : s \in {"UNKNOWN", "STOPPED", "RETRACTING"}} \cup
  {<<"EXTENDING", "TIMEOUT", "EXT_FAULT">>, <<"RETRACTING", "TIMEOUT", "RET_FAULT">>}

\* A calibrated rod parks by its position, without an over-current.
Parked(c, s) ==
  /\ c.done /\ c.pos >= Stroke - StopMargin
  /\ s \in {"UNKNOWN", "STOPPED", "EXTENDING", "EXT_LIMIT"}

CmdEvent(dir) ==
  CASE dir = "fwd" -> "CMD_EXTEND" [] dir = "rev" -> "CMD_RETRACT" [] OTHER -> "CMD_STOP"

\* The events a turn may see: a request, else the parking position, else a
\* movement that has lasted too long, else what the arbiter drives.
RodState_SynthesizeEvent(c, s, dir) ==
  CASE req = "max" -> {"AT_MAX"}
    [] req = "min" -> {"AT_MIN"}
    [] req = "none" /\ Parked(c, s) -> {"AT_MAX"}
    [] OTHER -> {CmdEvent(dir)} \cup
                (IF s \in {"EXTENDING", "RETRACTING"} THEN {"TIMEOUT"} ELSE {})

NextRodState(s, e) ==
  LET row == {r \in rod_jump : r[1] = s /\ r[2] = e}
  IN IF row = {} THEN s ELSE (CHOOSE r \in row : TRUE)[3]

LimitMsg(verb, dir) ==
  Cmd(MainAxis, IF dir = "fwd" THEN RodLimitFwd ELSE RodLimitRev, PrioLimit, verb, dir, 0)

\* Arriving clears the standing run commands, every turn at a limit blocks.
AtLimit(prev, s, dir) ==
  (IF prev # s THEN <<LimitMsg("CLEAR_ALLOW", dir)>> ELSE <<>>) \o <<LimitMsg("BLOCK", dir)>>

\* Mutant: leaving a limit does not lift the block.
SideEffects_NoUnblock(prev, s) ==
  CASE s = "EXT_LIMIT" -> AtLimit(prev, s, "fwd")
    [] s = "RET_LIMIT" -> AtLimit(prev, s, "rev")
    [] OTHER -> <<>>

SideEffects(prev, s) ==
  CASE s = "EXTENDING" /\ prev = "RET_LIMIT" -> <<LimitMsg("UNBLOCK", "rev")>>
    [] s = "RETRACTING" /\ prev = "EXT_LIMIT" -> <<LimitMsg("UNBLOCK", "fwd")>>
    [] s = "EXT_LIMIT" -> AtLimit(prev, s, "fwd")
    [] s = "RET_LIMIT" -> AtLimit(prev, s, "rev")
    [] OTHER -> <<>>
-----------------------------------------------------------------------------
(* The rod task *)

\* One turn, up to the first command it posts: integrate the pulses, set the
\* position at a limit, update the state.  The request is used up.
Actuator_Tick ==
  /\ mq = <<>> /\ cmds = <<>>
  /\ LET c == RodPosition_OnLimit(RodPosition_Update(calib, delta), req)
         d == arb[MainAxis]
         dir == IF d.enable THEN d.active_dir ELSE "none"
     IN \E e \in RodState_SynthesizeEvent(c, rod, dir) :
          /\ calib' = c
          /\ rod' = NextRodState(rod, e)
          /\ cmds' = SideEffects(rod, rod')
  /\ req' = "none" /\ delta' = 0
  /\ ticked' = TRUE /\ reset' = FALSE
  /\ UNCHANGED <<sysVars, phys>>

RodPost ==
  /\ mq = <<>> /\ cmds # <<>>
  /\ Arb_SendCommand(Head(cmds), TRUE)
  /\ cmds' = Tail(cmds)
  /\ UNCHANGED <<powerVars, smVars, faultVars, pol, todo, hw_started, envVars>>
  /\ UNCHANGED <<rod, calib, req, phys, delta, ticked, reset>>
-----------------------------------------------------------------------------
(* sys_sm and the others *)

Handles(e) == todo # <<>> /\ Head(todo).do = "bit" /\ Head(todo).evt = e

\* The end of the stroke, as far as the position module knows.
SoftLimit(dir) == ~ calib.done \/ (IF dir = "fwd" THEN calib.max ELSE calib.min)

\* What sys_sm does with an over-current, decided by the rod's position: an
\* end of the stroke leaves a request and cuts the power, an obstacle is a
\* fault.
RodCalib_OnOverCurrent ==
  LET d == arb[MainAxis]
      turning == Handles("OVER_CURRENT") /\ d.enable /\ d.active_dir \in Dir
      soft == turning /\ SoftLimit(d.active_dir)
  IN /\ turning => (soft <=> todo'[1].do = "post")
     /\ req' = IF soft THEN (IF d.active_dir = "fwd" THEN "max" ELSE "min") ELSE req

\* The last of Dev_Registry_InitAll: the arbiter, and with it the hall motor,
\* start afresh.
InitActAndHall == todo # <<>> /\ Head(todo) = Init("act")

RodSysSm ==
  /\ cmds = <<>>
  /\ SysSm
  /\ RodCalib_OnOverCurrent
  /\ reset' = (reset \/ InitActAndHall)
  /\ delta' = IF InitActAndHall THEN 0 ELSE delta
  /\ UNCHANGED <<rod, calib, cmds, phys, ticked>>

RodAct ==
  /\ Act
  /\ ticked' = (ticked /\ out' = out)
  /\ UNCHANGED <<rod, calib, req, cmds, phys, delta, reset>>

AtEnd(dir) == IF dir = "fwd" THEN phys = Stroke ELSE phys = 0

Turning == out[MainAxis] \in Dir

\* The rod pushes and has not moved for a turn of its task.
Stuck == Turning /\ ticked /\ delta = 0

\* The motor draws a high current against the end of the stroke or, perhaps,
\* against an obstacle.
RodPowerIsr ==
  /\ hw_started
  /\ \E high \in BOOLEAN :
       /\ high => /\ Stuck /\ (AtEnd(out[MainAxis]) \/ Obstacles)
                  /\ Prompt => mq = <<>>
       /\ ~ high => ~ (Stuck /\ AtEnd(out[MainAxis]))
       /\ Dev_Power_Isr1ms(volt, high)
  /\ UNCHANGED <<arbVars, smVars, faultVars, pol, todo, hw_started, envVars, rodVars>>

\* An over-current is on its way through sys_sm and the rod task.
OverCurrentPending ==
  \/ "OVER_CURRENT" \in sys_evt
  \/ \E i \in DOMAIN todo : todo[i] = Bit("OVER_CURRENT")
  \/ req # "none"

RodPolarity_Scan ==
  /\ ticked
  /\ Prompt => ~ OverCurrentPending
  /\ Polarity_Scan
  /\ UNCHANGED rodVars

\* The positions explored: wrong by a whole stroke at most.  The code sets no
\* bound.
PosRange == -Stroke .. 2 * Stroke

\* The rod moves.
Move ==
  /\ Turning /\ ticked /\ ~ AtEnd(out[MainAxis]) /\ delta = 0
  /\ LET n == IF out[MainAxis] = "fwd" THEN 1 ELSE -1
     IN calib.pos + n \in PosRange /\ phys' = phys + n /\ delta' = n
  /\ UNCHANGED <<sysVars, rod, calib, req, cmds, ticked, reset>>

RodSupply == Supply /\ UNCHANGED rodVars

\* After App_Model_Init and Dev_Param_RodApply: the rod is where it was saved,
\* or anywhere and not calibrated.
RodInit ==
  /\ App_Model_Init
  /\ rod = "UNKNOWN" /\ req = "none" /\ cmds = <<>>
  /\ phys \in 0 .. Stroke
  /\ calib \in {[pos |-> 0, done |-> FALSE, min |-> FALSE, max |-> FALSE],
               [pos |-> phys, done |-> TRUE, min |-> FALSE, max |-> FALSE]}
  /\ delta = 0 /\ ticked = TRUE /\ reset = FALSE

RodNext ==
  \/ Actuator_Tick \/ RodPost \/ RodSysSm \/ RodAct
  \/ RodPowerIsr \/ RodPolarity_Scan \/ Move \/ RodSupply

RodSpec == RodInit /\ [][RodNext]_rodAllVars

\* act is woken by a command, as ActRuns says; rod and di are periodic, the
\* interrupt comes every millisecond; sys_sm runs when they all sleep.
RodFairSpec ==
  /\ RodSpec
  /\ []<>(mq = <<>>) \/ []<><<RodAct>>_rodAllVars
  /\ WF_rodAllVars(RodPowerIsr) /\ WF_rodAllVars(Move)
  /\ SF_rodAllVars(RodPolarity_Scan)
  /\ SF_rodAllVars(Actuator_Tick) /\ SF_rodAllVars(RodPost)
  /\ SF_rodAllVars(RodSysSm)
-----------------------------------------------------------------------------
(* Properties *)

\* A direction is blocked exactly while the rod is at that limit: no way out
\* of a limit, a fault or a late calibration leaves a block behind, which
\* would refuse every later run command, and no limit is left unblocked for
\* longer than the turn after the arbiter was initialised.
BlockMatchesLimit ==
  mq = <<>> /\ cmds = <<>> /\ ~ reset =>
    /\ (arb[MainAxis].block["fwd"] # <<>>) = (rod = "EXT_LIMIT")
    /\ (arb[MainAxis].block["rev"] # <<>>) = (rod = "RET_LIMIT")

\* A calibrated position is the true one.
CalibratedIsRight == calib.done => calib.pos + delta = phys

\* However the switch is left, the motor does not push against the end of
\* the stroke for ever.
ComesToRest == \A d \in Dir : <>[](pin = d) => <>[](out[MainAxis] = "stop")
=============================================================================
