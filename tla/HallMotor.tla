------------------------------ MODULE HallMotor ------------------------------
(***************************************************************************)
(* The motor's two hall sensors, dev_hall_motor.c.                         *)
(*                                                                         *)
(* Both edges of both sensors interrupt.  The interrupts count edges,      *)
(* stamp the last one, and at a falling edge of B judge the direction by   *)
(* the level of A; a new direction must be confirmed.  The rod task, every *)
(* 10 ms, computes the speed, notices a stop, and hands the edges counted  *)
(* since its last turn to the position, signed with the direction in force *)
(* at that moment.  Entering IDLE, sys_sm initialises the module; it is    *)
(* weaker than the rod task and the interrupts, which come between its     *)
(* steps.                                                                  *)
(*                                                                         *)
(* Abstractions.  The counts are kept as the edges not yet handed over;    *)
(* when Init has cleared the counts and not yet last_total, their          *)
(* difference may be anything.  The speed is zero or not.  Time is counted *)
(* in turns of the rod task.  Whether the time between two edges is within *)
(* its limits is open: the counter behind it wraps.  Statistics and        *)
(* is_running, which only what is displayed depends on, are left out.      *)
(***************************************************************************)
EXTENDS Integers

CONSTANTS
  ConfirmCnt,   \* MOTOR_HALL_DIRECTION_CONFIRM_CNT
  StopTurns,    \* MOTOR_HALL_STOP_DETECTION_MS, in turns
  StallTurns,   \* MOTOR_HALL_STALL_DETECTION_MS, in turns
  HallInvert,   \* g_mothall_invert_dir
  PerTurn,      \* the most edges of a turn
  MaxJump       \* bound on the difference explored while it may be anything

\* A single sample never changes the direction.
ASSUME HallConstants ==
  /\ ConfirmCnt \in Nat \ {0, 1} /\ StopTurns \in Nat /\ StallTurns \in Nat
  /\ StopTurns <= StallTurns
  /\ HallInvert \in BOOLEAN /\ PerTurn \in Nat \ {0} /\ MaxJump \in Nat

VARIABLES
  phase,   \* of the rotor: A is high in 2 and 3, B in 1 and 2
  b_last,  \* hall_b_last: the last level of B, or 2 (0xFF)
  hall,    \* s_inst[0]
  turn,    \* how far the rod task is in MotorHall_Task
  count,   \* its local total, as edges since last_total
  init,    \* how far sys_sm is in MotorHall_Init
  way,     \* history: the way of the last edge
  judged,  \* history: falling edges of B judged since the rotor turned round
           \*   or was taken for stopped
  batch,   \* history: the edges since the last sum: n, net, and whether all
           \*   of them came with the direction confirmed (net only then)
  given    \* history: what this turn hands over, and its batch

hallVars == <<phase, b_last, hall, turn, count, init, way, judged, batch, given>>

A(p) == p \in {2, 3}
B(p) == IF p \in {1, 2} THEN 1 ELSE 0
Signed(d, n) == CASE d = "FWD" -> n [] d = "REV" -> -n [] OTHER -> 0

NoBatch == [n |-> 0, net |-> 0, sure |-> TRUE]
NoGiven == [by |-> 0, batch |-> NoBatch, stale |-> FALSE]
Settled == judged >= ConfirmCnt
Unsure == batch' = [batch EXCEPT !.net = 0, !.sure = FALSE] /\ given' = NoGiven
-----------------------------------------------------------------------------
(* The interrupts *)

Confirmed(n) == n >= ConfirmCnt

\* A falling edge of B with A at level a.  Without a speed it is not judged.
\* Samples that disagree with the direction count; one that agrees clears.
Judge(h, a) ==
  LET d == IF a # HallInvert THEN "FWD" ELSE "REV"
  IN IF ~ h.rpm THEN h
     ELSE IF h.cdir = d THEN [h EXCEPT !.conf = 0]
     ELSE IF Confirmed(h.conf + 1) THEN [h EXCEPT !.cdir = d, !.vdir = d, !.conf = 0]
     ELSE [h EXCEPT !.conf = @ + 1]

\* Either interrupt: count, and stamp an edge whose interval is within limits.
Count_Edge(h, ok) ==
  [h EXCEPT !.unread = @ + 1,
            !.iv = @ \/ ok,
            !.age = IF ok THEN 0 ELSE @]

\* The rotor makes a step and the sensor that changed interrupts:
\* Hall_A_IrqCallback or Hall_B_IrqCallback.
Edge(s, ok) ==
  LET p == (phase + s) % 4
      isB == B(p) # B(phase)
      falls == isB /\ b_last = 1 /\ B(p) = 0
      w == IF (s = 1) # HallInvert THEN "FWD" ELSE "REV"
      h == Count_Edge(hall, ok)
  IN /\ batch.n < PerTurn
     /\ turn = "sign" => batch.n = 0   \* a few instructions: one edge at most
     /\ phase' = p
     /\ b_last' = IF isB THEN B(p) ELSE b_last
     /\ hall' = IF falls THEN Judge(h, A(p)) ELSE h
     /\ way' = w
     /\ judged' = LET j == IF w = way THEN judged ELSE 0
                  IN IF falls /\ hall.rpm /\ j < ConfirmCnt THEN j + 1 ELSE j
     /\ batch' = IF batch.sure /\ Settled /\ w = way
                 THEN [batch EXCEPT !.n = @ + 1, !.net = @ + Signed(w, 1)]
                 ELSE [n |-> batch.n + 1, net |-> 0, sure |-> FALSE]
     /\ given' = IF turn = "sleep" THEN NoGiven ELSE given
     /\ UNCHANGED <<turn, count, init>>
-----------------------------------------------------------------------------
(* The rod task *)

\* The average of the intervals kept: the last interval enters it again every
\* turn, for it is never cleared, and two make a speed.
MotorHall_CalculateRpm(h) ==
  LET n == IF h.iv /\ h.ivc < 2 THEN h.ivc + 1 ELSE h.ivc
  IN [h EXCEPT !.ivc = n, !.rpm = n = 2]

\* Mutant: the direction to fall back on is lost too.
Stop_LosesDirection(h) == [h EXCEPT !.cdir = "STOP", !.vdir = "NONE", !.conf = 0]

Stop(h) == [h EXCEPT !.cdir = "STOP", !.conf = IF h.cdir = "STOP" THEN @ ELSE 0]

MotorHall_PerformStallDetection(h) ==
  LET g == IF h.rpm /\ h.age > StopTurns THEN Stop(h) ELSE h
  IN IF h.age > StallTurns THEN [g EXCEPT !.rpm = FALSE] ELSE g

Older(h) == [h EXCEPT !.age = IF @ > StallTurns THEN @ ELSE @ + 1]

\* MotorHall_Task, up to the pulses.  Right after Init the speed may not be
\* due yet.
Task_Speed ==
  /\ turn = "sleep"
  /\ hall' \in {MotorHall_PerformStallDetection(MotorHall_CalculateRpm(Older(hall)))} \cup
               (IF hall.first THEN {Older(hall)} ELSE {})
  /\ judged' = IF hall'.cdir = "STOP" THEN 0 ELSE judged
  /\ turn' = "sum" /\ given' = NoGiven
  /\ UNCHANGED <<phase, b_last, count, init, way, batch>>

\* total = counts[0] + counts[1]; the first turn only takes it as a base.
Task_Sum ==
  /\ turn = "sum"
  /\ IF hall.first
     THEN /\ hall' = [hall EXCEPT !.first = FALSE, !.stale = FALSE, !.unread = 0]
          /\ count' = 0
     ELSE count' = hall.unread /\ UNCHANGED hall
  /\ turn' = "sign" /\ batch' = NoBatch
  /\ given' = [by |-> 0, batch |-> [batch EXCEPT !.sure = @ /\ ~ hall.first], stale |-> FALSE]
  /\ UNCHANGED <<phase, b_last, init, way, judged>>

SignedWith(h) == IF h.cdir \in {"STOP", "NONE"} THEN h.vdir ELSE h.cdir

\* last_total = total.
Handed(h) == [h EXCEPT !.unread = @ - count, !.stale = FALSE]

\* The difference is signed, added and handed over (MotorHall_GetDeltaPulses).
Task_Sign ==
  /\ turn = "sign"
  /\ \E d \in IF hall.stale THEN 0 .. MaxJump ELSE {count} :
       given' = [given EXCEPT !.by = Signed(SignedWith(hall), d), !.stale = hall.stale]
  /\ hall' = Handed(hall)
  /\ turn' = "sleep" /\ count' = 0
  /\ UNCHANGED <<phase, b_last, init, way, judged, batch>>
-----------------------------------------------------------------------------
(* Entering IDLE: sys_sm runs while the rod task sleeps *)

\* The interval, the stamp, the speed and the counts.
MotorHall_Init_Counts ==
  /\ turn = "sleep" /\ init = "no"
  /\ \E age \in hall.age .. StallTurns + 1 :   \* the stamp becomes 0
       hall' = [hall EXCEPT !.iv = FALSE, !.age = age, !.rpm = FALSE,
                            !.unread = 0, !.stale = ~ hall.first]
  /\ Unsure
  /\ init' = "dirs"
  /\ UNCHANGED <<phase, b_last, turn, count, way, judged>>

\* The directions.
MotorHall_Init_Dirs ==
  /\ turn = "sleep" /\ init = "dirs"
  /\ hall' = [hall EXCEPT !.cdir = "NONE", !.vdir = "NONE", !.conf = 0]
  /\ judged' = 0 /\ Unsure
  /\ init' = "rest"
  /\ UNCHANGED <<phase, b_last, turn, count, way>>

\* The history of intervals, last_total and first_run.
MotorHall_Init_Rest ==
  /\ turn = "sleep" /\ init = "rest"
  /\ hall' = [hall EXCEPT !.ivc = 0, !.first = TRUE, !.stale = FALSE]
  /\ Unsure
  /\ init' = "no"
  /\ UNCHANGED <<phase, b_last, turn, count, way, judged>>
-----------------------------------------------------------------------------
\* After the first MotorHall_Init, which ends by enabling the interrupts.
HallInit ==
  /\ phase \in 0 .. 3 /\ b_last = 2
  /\ hall = [iv |-> FALSE, age |-> 0, ivc |-> 0, rpm |-> FALSE, cdir |-> "NONE",
             vdir |-> "NONE", conf |-> 0, unread |-> 0,
             first |-> TRUE, stale |-> FALSE]
  /\ turn = "sleep" /\ count = 0 /\ init = "no"
  /\ way = "FWD" /\ judged = 0
  /\ batch = NoBatch /\ given = NoGiven

HallNext ==
  \/ \E s \in {1, -1}, ok \in BOOLEAN : Edge(s, ok)
  \/ Task_Speed \/ Task_Sum \/ Task_Sign
  \/ MotorHall_Init_Counts \/ MotorHall_Init_Dirs \/ MotorHall_Init_Rest

HallSpec == HallInit /\ [][HallNext]_hallVars
-----------------------------------------------------------------------------
(* Properties *)

\* The rod's position moves exactly as the rotor did whenever every edge of
\* the turn came after the direction had been confirmed, although counting,
\* judging and signing happen at different times, the motor may be taken for
\* stopped in between, and Init may cut in.
SettledIsExact == turn = "sleep" /\ given.batch.sure => given.by = given.batch.net

\* A turn never moves the position by more edges than there were, unless it
\* fell inside an Init that had cleared the counts and not yet last_total.
NoJump ==
  turn = "sleep" /\ ~ given.stale => given.by \in -given.batch.n .. given.batch.n

\* What MotorHall_Task hands to the position is what the rotor did.
PulsesAreTrue == SettledIsExact /\ NoJump
=============================================================================
