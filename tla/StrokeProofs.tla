----------------------------- MODULE StrokeProofs -----------------------------
(***************************************************************************)
(* The rod position across a power failure, for every stroke, wait and     *)
(* hold-up time: what the next power-up restores is where the rod stands.  *)
(*                                                                         *)
(* The argument follows one undervoltage.  Its event is on its way; sys_sm *)
(* is inside the request; the request waits while the braked rod comes to  *)
(* a stand; the position is saved and nothing moves any more.  The low bus *)
(* has lasted no longer than the phase allows, so the processor can only   *)
(* die in the last one.                                                    *)
(***************************************************************************)
EXTENDS StrokeSave, PowerProofs

Evt == {"OVER_CURRENT", "VOLT_OVER", "VOLT_UNDER", "VOLT_NORMAL"}

StrokeTypeOK ==
  /\ PowerTypeOK /\ sys_evt \subseteq Evt \cup {"VOLT_RECOVER_WAIT"} /\ bits \subseteq Evt
  /\ alive \in BOOLEAN /\ slot \in {"isr", "rod"} /\ asking \in BOOLEAN
  /\ pos \in [val : Int, done : BOOLEAN] /\ goal \in Ways \cup {"none"}
  /\ ask \in [pending : BOOLEAN, wait : Nat]
  /\ rec \in [kind : {"none", "default", "real"}, val : Int]
  /\ rodAt \in Int /\ moved \in Int /\ coast \in Ways \cup {"no"} /\ low \in Nat

\* An event posted or being dispatched.
Waiting(e) == e \in sys_evt \/ e \in bits

\* The position of a calibrated rod is right but for the pulses not taken yet,
\* and a rod with a calibration request stands at that end.
PosTrue ==
  /\ pos.done => pos.val + moved = rodAt
  /\ slot = "isr" => moved = 0
  /\ goal \in Ways => rodAt = EndOf(goal) /\ pins = "stop" /\ coast \in {goal, "no"}

\* sys_sm is done before the next sample, so an event tells of the detector as
\* it is.
EventsKnown ==
  /\ sys_evt # {} => bits = {} /\ ~ asking
  /\ Waiting("OVER_CURRENT") => pins # "stop" /\ rodAt = EndOf(Logical)
  /\ Waiting("VOLT_UNDER") => vm.fault = 1
  /\ Waiting("VOLT_OVER") => vm.fault = 2
  /\ Waiting("VOLT_NORMAL") => vm.fault = 0
  /\ asking => bits = {"VOLT_UNDER"}
  /\ vm.waiting => vm.fault # 0

\* A request is carried out before the undervoltage it belongs to is over.
AskKnown ==
  /\ ~ ask.pending => ask.wait = 0
  /\ ask.pending =>
       /\ vm.seen /\ ask.wait < WaitTicks /\ "unseen" \notin excuse
       /\ vm.fault = 1 \/ (vm.fault = 0 /\ low = 0 /\ slot = "rod" /\ ask.wait + 1 = WaitTicks)

RecKnown == Trusted(rec) /\ doubt = {} => pos.done

\* An undervoltage nobody saves for has its excuse, and a low bus without the
\* excuse of an over-voltage is an undervoltage.
ExcuseKnown ==
  /\ "unseen" \in excuse =>
       (vm.fault = 1 /\ (Waiting("VOLT_UNDER") => asking)) \/ Waiting("VOLT_NORMAL")
  /\ low >= 1 /\ "masked" \notin excuse => vm.fault = 1

LowFor(n) == "masked" \notin excuse => low <= n
Early == ask.wait = 0 \/ (ask.wait = 1 /\ slot = "isr")
Held == ~ Waiting("VOLT_UNDER") /\ ~ asking /\ pins = "stop" /\ "VOLT_UNDER" \in halt

\* The four phases of an undervoltage.
Coming == Waiting("VOLT_UNDER") /\ ~ asking /\ ~ ask.pending /\ ~ vm.waiting /\ LowFor(1)
Asked == asking /\ ask.pending /\ ~ vm.waiting /\ LowFor(1) /\ "VOLT_UNDER" \in halt /\ Early
Slowing ==
  /\ Held /\ ask.pending /\ (coast # "no" => Early)
  /\ LowFor(ask.wait + (IF slot = "rod" THEN 2 ELSE 1))
  /\ vm.waiting => ask.wait >= vm.cnt + (IF slot = "rod" THEN 0 ELSE 1)
SavedStill ==
  /\ Held /\ ~ ask.pending /\ coast = "no" /\ moved = 0 /\ goal = "none"
  /\ pos.done => rec.kind = "real" /\ rec.val = rodAt
SavePhase == vm.fault = 1 /\ "unseen" \notin excuse => Coming \/ Asked \/ Slowing \/ SavedStill

Alive == PosTrue /\ EventsKnown /\ AskKnown /\ RecKnown /\ ExcuseKnown /\ SavePhase
StrokeInv == StrokeTypeOK /\ (alive => Alive) /\ RestoredIsTrue /\ KnownIsKept
-----------------------------------------------------------------------------
\* What the constants are.
LEMMA SaveFacts ==
  /\ RodEnd \in Nat /\ WaitTicks \in Nat /\ WaitTicks >= 2 /\ HoldTurns \in Nat /\ RecoverMs \in Nat
  /\ WaitTicks + 2 <= HoldTurns /\ WaitTicks <= RecoverMs + 1
  /\ \A d : EndOf(d) \in Int
BY SaveConstants, PowerConstants DEF EndOf

\* How a sample moves the voltage detector on.
LEMMA VoltMoves ==
  ASSUME NEW d \in VoltData, NEW v \in Zone, d.waiting => d.fault # 0
  PROVE  LET e == BusVoltage_Isr1ms(d, v)
         IN /\ e \in VoltData /\ (d.seen => e.seen) /\ (e.waiting => e.fault # 0)
            /\ d.fault = 0 => ~ e.waiting /\ (v = 1 <=> e.fault = 1)
            /\ d.fault = 1 => /\ e.fault \in {0, 1} /\ (v = 1 => e.fault = 1 /\ ~ e.waiting)
                              /\ e.fault = 0 => d.waiting /\ d.cnt + 1 >= RecoverMs
                              /\ e.waiting => e.cnt = 0 \/ (d.waiting /\ e.cnt = d.cnt + 1)
            /\ d.fault = 2 => e.fault \in {0, 2}
<1> DEFINE d1 == [d EXCEPT !.seen = @ \/ v >= Good]
           e == BusVoltage_Isr1ms(d, v)
<1>0. RecoverMs \in Nat
  BY PowerConstants
<1>1. /\ d1 \in VoltData /\ d1.fault = d.fault /\ d1.waiting = d.waiting /\ d1.cnt = d.cnt
      /\ d.seen => d1.seen
  <2> DEFINE s == d.seen \/ v >= Good
  <2>1. s \in BOOLEAN
    BY Zenon
  <2>2. d1 = [d EXCEPT !.seen = s]
    OBVIOUS
  <2> HIDE DEF s, d1
  <2>3. d1 \in VoltData /\ d1.fault = d.fault /\ d1.waiting = d.waiting /\ d1.cnt = d.cnt /\ d1.seen = s
    BY <2>1, <2>2 DEF VoltData
  <2> QED BY <2>3 DEF s
<1>2. e = IF d1.fault # 0 THEN VoltRecover(d1, v) ELSE VoltDetect(d1, v)
  BY DEF BusVoltage_Isr1ms
<1> HIDE DEF d1, e
<1>3. d.fault \in 0 .. 2 /\ d.waiting \in BOOLEAN /\ d.cnt \in 0 .. RecoverMs /\ d1.seen \in BOOLEAN
  BY <1>1 DEF VoltData, VoltFault
<1>4. CASE d.fault = 0
  <2> DEFINE f == IF v = 5 THEN 2 ELSE IF v = 1 THEN 1 ELSE 0
  <2>1. f \in VoltFault /\ (v = 1 <=> f = 1)
    BY DEF VoltFault, Zone
  <2>2. e = [d1 EXCEPT !.fault = f]
    BY <1>1, <1>2, <1>4 DEF VoltDetect
  <2> HIDE DEF f
  <2>3. e \in VoltData /\ e.fault = f /\ e.waiting = d1.waiting /\ e.seen = d1.seen
    BY <1>1, <2>1, <2>2 DEF VoltData
  <2> QED BY <1>1, <1>3, <1>4, <2>1, <2>3 DEF e
<1>5. CASE d.fault # 0 /\ ~ BackToGood(d.fault, v)
  <2>1. e = [d1 EXCEPT !.waiting = FALSE, !.cnt = 0] /\ 0 \in 0 .. RecoverMs
    BY <1>0, <1>1, <1>2, <1>5 DEF VoltRecover
  <2>2. e \in VoltData /\ e.fault = d1.fault /\ e.waiting = FALSE /\ e.seen = d1.seen
    BY <1>1, <2>1 DEF VoltData
  <2> QED BY <1>1, <1>3, <1>5, <2>2 DEF e
<1>6. CASE d.fault # 0 /\ BackToGood(d.fault, v) /\ ~ d.waiting
  <2>1. e = [d1 EXCEPT !.waiting = TRUE, !.cnt = 0] /\ 0 \in 0 .. RecoverMs
    BY <1>0, <1>1, <1>2, <1>6 DEF VoltRecover
  <2>2. e \in VoltData /\ e.fault = d1.fault /\ e.waiting = TRUE /\ e.cnt = 0 /\ e.seen = d1.seen
    BY <1>1, <2>1 DEF VoltData
  <2>3. d.fault = 1 => v # 1
    BY <1>6 DEF BackToGood, Good
  <2> QED BY <1>1, <1>3, <1>6, <2>2, <2>3 DEF e
<1>7. CASE d.fault # 0 /\ BackToGood(d.fault, v) /\ d.waiting /\ d.cnt + 1 >= RecoverMs
  <2>1. e = [fault |-> 0, waiting |-> FALSE, cnt |-> 0, seen |-> d1.seen] /\ 0 \in 0 .. RecoverMs
    BY <1>0, <1>1, <1>2, <1>7 DEF VoltRecover, VoltReset
  <2>2. e \in VoltData /\ e.fault = 0 /\ e.waiting = FALSE /\ e.seen = d1.seen
    BY <1>3, <2>1 DEF VoltData, VoltFault
  <2>3. d.fault = 1 => v # 1
    BY <1>7 DEF BackToGood, Good
  <2> QED BY <1>1, <1>3, <1>7, <2>2, <2>3 DEF e
<1>8. CASE d.fault # 0 /\ BackToGood(d.fault, v) /\ d.waiting /\ ~ (d.cnt + 1 >= RecoverMs)
  <2>1. e = [d1 EXCEPT !.cnt = d.cnt + 1] /\ d.cnt + 1 \in 0 .. RecoverMs
    BY <1>0, <1>1, <1>2, <1>3, <1>8 DEF VoltRecover
  <2>2. e \in VoltData /\ e.fault = d1.fault /\ e.waiting = d1.waiting /\ e.cnt = d.cnt + 1 /\ e.seen = d1.seen
    BY <1>1, <2>1 DEF VoltData
  <2>3. d.fault = 1 => v # 1
    BY <1>8 DEF BackToGood, Good
  <2> QED BY <1>1, <1>3, <1>8, <2>2, <2>3 DEF e
<1> QED BY <1>4, <1>5, <1>6, <1>7, <1>8

-----------------------------------------------------------------------------
\* What a brake does.
LEMMA BrakeDoes ==
  ASSUME pins \in Pins, coast \in Ways \cup {"no"}, Brake
  PROVE  /\ pins' = "stop" /\ cur' = cur
         /\ coast' \in Ways \cup {"no"} /\ (pins = "stop" => coast' = coast)
         /\ pins # "stop" => coast' = Logical /\ Logical \in Ways
<1>1. pins' = "stop" /\ cur' = cur
  BY DEF Brake, MotorGpio_WritePair, Physical
<1>2. Logical \in Pins /\ (pins # "stop" => Logical # "stop")
  BY PhysicalIsPins DEF Logical
<1>3. pins # "stop" => Logical \in Ways
  BY <1>2 DEF Pins, Ways
<1> QED BY <1>1, <1>3 DEF Brake

\* A debug save writes what is known, or raises a doubt.
LEMMA DebugStep ==
  ASSUME StrokeInv, DebugSave
  PROVE  StrokeInv'
<1>0. StrokeTypeOK /\ PosTrue /\ EventsKnown /\ AskKnown /\ RecKnown /\ ExcuseKnown /\ SavePhase
  BY DEF StrokeInv, Alive, DebugSave
<1>1. /\ rec' = [kind |-> "real", val |-> pos.val] /\ (pos.done \/ doubt' # {})
      /\ doubt' = {} => doubt = {}
      /\ UNCHANGED <<vm, cur, pins, sys_evt, slot, bits, asking, halt, pos, goal, ask, rodAt, moved, coast,
                     low, excuse>>
  BY DEF DebugSave, powerVars
<1>a. alive' = alive /\ alive
  BY DEF DebugSave
<1>2. pos.val \in Int /\ rec'.kind = "real" /\ rec'.val = pos.val
      /\ rec' \in [kind : {"none", "default", "real"}, val : Int]
  BY <1>0, <1>1 DEF StrokeTypeOK
<1>3. StrokeTypeOK'
  BY <1>0, <1>1, <1>2, <1>a DEF StrokeTypeOK, PowerTypeOK
<1>4. PosTrue' /\ EventsKnown' /\ AskKnown' /\ ExcuseKnown'
  BY <1>0, <1>1 DEF PosTrue, EventsKnown, AskKnown, ExcuseKnown, Waiting, Logical
<1>5. RecKnown'
  BY <1>1 DEF RecKnown
<1>6. SavedStill => SavedStill'
  <2>1. SavedStill /\ pos.done => rec'.val = rodAt
    BY <1>0, <1>2 DEF SavedStill, PosTrue, StrokeTypeOK
  <2> QED BY <1>1, <1>2, <2>1 DEF SavedStill, Held, Waiting
<1>7. SavePhase'
  BY <1>0, <1>1, <1>6 DEF SavePhase, Coming, Asked, Slowing, Held, Waiting, LowFor, Early
<1>8. Alive' /\ RestoredIsTrue' /\ KnownIsKept'
  BY <1>4, <1>5, <1>7, <1>a DEF Alive, RestoredIsTrue, KnownIsKept
<1> QED BY <1>3, <1>8 DEF StrokeInv

\* The power fails: without an excuse the position has been saved and the rod
\* stands.
LEMMA FailStep ==
  ASSUME StrokeInv, PowerFails
  PROVE  StrokeInv'
<1>0. StrokeTypeOK /\ PosTrue /\ EventsKnown /\ AskKnown /\ RecKnown /\ ExcuseKnown /\ SavePhase
  BY DEF StrokeInv, Alive, PowerFails
<1>1. /\ low >= HoldTurns /\ doubt' = doubt \cup excuse
      /\ UNCHANGED <<vm, cur, pins, sys_evt, slot, bits, asking, halt, pos, goal, ask, rec, rodAt, moved,
                     coast, low, excuse>>
  BY DEF PowerFails, powerVars
<1>a. alive' = FALSE
  BY DEF PowerFails
<1>2. StrokeTypeOK'
  BY <1>0, <1>1, <1>a DEF StrokeTypeOK, PowerTypeOK
<1>3. ASSUME doubt' = {} PROVE SavedStill
  <2>1. "masked" \notin excuse /\ "unseen" \notin excuse
    BY <1>1, <1>3
  <2>2. low \in Nat /\ low >= 4 /\ low >= WaitTicks + 2
    BY <1>0, <1>1, SaveFacts DEF StrokeTypeOK
  <2>3. vm.fault = 1
    BY <1>0, <2>1, <2>2 DEF ExcuseKnown
  <2>4. ~ Coming /\ ~ Asked
    BY <2>1, <2>2 DEF Coming, Asked, LowFor
  <2>5. ~ Slowing
    <3> SUFFICES ASSUME Slowing PROVE FALSE
      OBVIOUS
    <3>1. ask.wait < WaitTicks /\ ask.wait \in Nat
      BY <1>0 DEF Slowing, AskKnown, StrokeTypeOK
    <3>2. low <= ask.wait + (IF slot = "rod" THEN 2 ELSE 1)
      BY <2>1 DEF Slowing, LowFor
    <3>3. low < WaitTicks + 2
      BY <2>2, <3>1, <3>2, SaveFacts
    <3> QED BY <2>2, <3>3, SaveFacts
  <2> QED BY <1>0, <2>1, <2>3, <2>4, <2>5 DEF SavePhase
<1>4. RestoredIsTrue'
  <2> SUFFICES ASSUME doubt' = {}, Trusted(rec) PROVE rec.val = rodAt
    BY <1>1 DEF RestoredIsTrue, Trusted
  <2>1. pos.done
    BY <1>0, <1>1 DEF RecKnown
  <2> QED BY <1>3, <2>1 DEF SavedStill
<1>5. KnownIsKept'
  BY <1>1, <1>3 DEF KnownIsKept, SavedStill, Trusted
<1> QED BY <1>2, <1>4, <1>5, <1>a DEF StrokeInv

\* Power-up takes the record for the position.
LEMMA UpStep ==
  ASSUME StrokeInv, PowerUp
  PROVE  StrokeInv'
<1>0. StrokeTypeOK /\ RestoredIsTrue
  BY DEF StrokeInv
<1>1. /\ doubt = {} /\ slot' = "isr" /\ bits' = {} /\ sys_evt' = {}
      /\ rec' = IF rec.kind = "none" THEN [kind |-> "default", val |-> 0] ELSE rec
      /\ pos' = IF Trusted(rec) THEN [val |-> rec.val, done |-> TRUE] ELSE [val |-> 0, done |-> FALSE]
      /\ goal' = "none" /\ ask' = NoAsk /\ moved' = 0 /\ coast' = "no" /\ low' = 0 /\ excuse' = {}
      /\ vm' = [fault |-> 0, waiting |-> FALSE, cnt |-> 0, seen |-> FALSE]
      /\ cur' = CurReset /\ pins' = "stop" /\ rodAt' = rodAt /\ doubt' = doubt
  BY DEF PowerUp
<1>a. alive' = TRUE /\ asking' = FALSE /\ ~ alive
  BY DEF PowerUp
<1>2. vm' \in VoltData /\ cur' \in CurData /\ pins' \in Pins
  BY <1>1, PowerConstants DEF VoltData, VoltFault, CurData, CurReset, Pins
<1>3. /\ rec' \in [kind : {"none", "default", "real"}, val : Int]
      /\ pos' \in [val : Int, done : BOOLEAN]
      /\ ask' \in [pending : BOOLEAN, wait : Nat] /\ ask'.pending = FALSE /\ ask'.wait = 0
      /\ (pos'.done <=> Trusted(rec)) /\ (Trusted(rec') <=> Trusted(rec))
      /\ Trusted(rec) => pos'.val = rec.val
  <2>1. rec \in [kind : {"none", "default", "real"}, val : Int]
    BY <1>0 DEF StrokeTypeOK
  <2>2. rec' \in [kind : {"none", "default", "real"}, val : Int] /\ (Trusted(rec') <=> Trusted(rec))
    BY <1>1, <2>1 DEF Trusted
  <2>3. /\ pos' \in [val : Int, done : BOOLEAN] /\ (pos'.done <=> Trusted(rec))
        /\ Trusted(rec) => pos'.val = rec.val
    <3>1. CASE Trusted(rec)
      <4>1. pos' = [val |-> rec.val, done |-> TRUE]
        BY <1>1, <3>1
      <4> QED BY <2>1, <3>1, <4>1
    <3>2. CASE ~ Trusted(rec)
      <4>1. pos' = [val |-> 0, done |-> FALSE]
        BY <1>1, <3>2
      <4> QED BY <3>2, <4>1
    <3> QED BY <3>1, <3>2
  <2>4. ask' \in [pending : BOOLEAN, wait : Nat] /\ ask'.pending = FALSE /\ ask'.wait = 0
    BY <1>1 DEF NoAsk
  <2> QED BY <2>2, <2>3, <2>4
<1>4. StrokeTypeOK'
  <2>1. alive' \in BOOLEAN /\ asking' \in BOOLEAN
    BY <1>a
  <2> QED BY <1>0, <1>1, <1>2, <1>3, <2>1 DEF StrokeTypeOK, PowerTypeOK
<1>5. PosTrue'
  <2>1. Trusted(rec) => rec.val = rodAt
    BY <1>0, <1>1, <1>a DEF RestoredIsTrue
  <2>2. rodAt \in Int
    BY <1>0 DEF StrokeTypeOK
  <2> QED BY <1>1, <1>3, <2>1, <2>2 DEF PosTrue, Ways
<1>6. EventsKnown' /\ AskKnown' /\ ExcuseKnown' /\ SavePhase'
  BY <1>1, <1>3, <1>a DEF EventsKnown, AskKnown, ExcuseKnown, SavePhase, Waiting
<1>7. RecKnown'
  BY <1>3 DEF RecKnown
<1> QED BY <1>4, <1>5, <1>6, <1>7, <1>a DEF StrokeInv, Alive, RestoredIsTrue, KnownIsKept

\* sys_sm takes the events.
LEMMA RecvStep ==
  ASSUME StrokeInv, Recv
  PROVE  StrokeInv'
<1>0. StrokeTypeOK /\ PosTrue /\ EventsKnown /\ AskKnown /\ RecKnown /\ ExcuseKnown /\ SavePhase
  BY DEF StrokeInv, Alive, Recv
<1>1. /\ sys_evt # {} /\ bits = {} /\ bits' = sys_evt \ {"VOLT_RECOVER_WAIT"} /\ sys_evt' = {}
      /\ UNCHANGED <<vm, cur, pins, slot, asking, halt, pos, goal, ask, rec, rodAt, moved, coast, low,
                     excuse, doubt>>
  BY DEF Recv
<1>a. alive' = alive /\ alive /\ ~ asking
  BY DEF Recv
<1>2. StrokeTypeOK'
  BY <1>0, <1>1, <1>a DEF StrokeTypeOK, PowerTypeOK
<1>3. \A e \in Evt : Waiting(e)' <=> Waiting(e)
  BY <1>1 DEF Waiting, Evt
<1>4. /\ Waiting("OVER_CURRENT")' <=> Waiting("OVER_CURRENT")
      /\ Waiting("VOLT_UNDER")' <=> Waiting("VOLT_UNDER")
      /\ Waiting("VOLT_OVER")' <=> Waiting("VOLT_OVER")
      /\ Waiting("VOLT_NORMAL")' <=> Waiting("VOLT_NORMAL")
  BY <1>3 DEF Evt
<1>5. PosTrue' /\ AskKnown' /\ RecKnown'
  BY <1>0, <1>1 DEF PosTrue, AskKnown, RecKnown
<1>6. EventsKnown'
  BY <1>0, <1>1, <1>4, <1>a DEF EventsKnown, Logical
<1>7. ExcuseKnown'
  BY <1>0, <1>1, <1>4 DEF ExcuseKnown
<1>8. SavePhase'
  BY <1>0, <1>1, <1>4 DEF SavePhase, Coming, Asked, Slowing, SavedStill, Held, LowFor, Early
<1> QED BY <1>2, <1>5, <1>6, <1>7, <1>8, <1>a DEF StrokeInv, Alive, RestoredIsTrue, KnownIsKept

\* What is being dispatched when a bit of a rank is handled.
LEMMA HandleKnown ==
  ASSUME StrokeTypeOK, EventsKnown, NEW e \in Evt, Handle(e)
  PROVE  /\ e \in bits /\ sys_evt = {} /\ ~ asking
         /\ \A f \in bits : Rank(e) <= Rank(f)
BY DEF Handle, EventsKnown, StrokeTypeOK

\* A voltage that is good again.
LEMMA NormalStep ==
  ASSUME StrokeInv, OnVoltNormal
  PROVE  StrokeInv'
<1>0. StrokeTypeOK /\ PosTrue /\ EventsKnown /\ AskKnown /\ RecKnown /\ ExcuseKnown /\ SavePhase
  BY DEF StrokeInv, Alive, OnVoltNormal, Handle
<1>1. /\ bits' = bits \ {"VOLT_NORMAL"} /\ excuse' = excuse \ {"unseen"}
      /\ UNCHANGED <<vm, cur, pins, sys_evt, slot, asking, pos, goal, ask, rec, rodAt, moved, coast, low,
                     doubt>>
  BY DEF OnVoltNormal, powerVars
<1>a. alive' = alive /\ alive
  BY DEF OnVoltNormal, Handle
<1>2. "VOLT_NORMAL" \in bits /\ sys_evt = {} /\ ~ asking
  BY <1>0, HandleKnown DEF OnVoltNormal, Evt
<1>3. vm.fault = 0
  BY <1>0, <1>2 DEF EventsKnown, Waiting
<1>4. StrokeTypeOK'
  BY <1>0, <1>1, <1>a DEF StrokeTypeOK, PowerTypeOK
<1>5. PosTrue' /\ AskKnown' /\ RecKnown'
  BY <1>0, <1>1 DEF PosTrue, AskKnown, RecKnown
<1>6. EventsKnown'
  BY <1>0, <1>1, <1>2 DEF EventsKnown, Logical, Waiting
<1>7. ExcuseKnown'
  BY <1>0, <1>1, <1>3 DEF ExcuseKnown
<1>8. SavePhase'
  BY <1>1, <1>3 DEF SavePhase
<1> QED BY <1>4, <1>5, <1>6, <1>7, <1>8, <1>a DEF StrokeInv, Alive, RestoredIsTrue, KnownIsKept

\* An over-voltage.
LEMMA OverStep ==
  ASSUME StrokeInv, OnVoltOver
  PROVE  StrokeInv'
<1>0. StrokeTypeOK /\ PosTrue /\ EventsKnown /\ AskKnown /\ RecKnown /\ ExcuseKnown /\ SavePhase
  BY DEF StrokeInv, Alive, OnVoltOver, Handle
<1>1. /\ bits' = bits \ {"VOLT_OVER"} /\ Brake
      /\ UNCHANGED <<vm, sys_evt, slot, asking, pos, goal, ask, rec, rodAt, moved, low, excuse, doubt>>
  BY DEF OnVoltOver
<1>a. alive' = alive /\ alive
  BY DEF OnVoltOver, Handle
<1>2. "VOLT_OVER" \in bits /\ sys_evt = {} /\ ~ asking /\ \A f \in bits : Rank("VOLT_OVER") <= Rank(f)
  BY <1>0, HandleKnown DEF OnVoltOver, Evt
<1>3. vm.fault = 2 /\ "OVER_CURRENT" \notin bits
  BY <1>0, <1>2 DEF EventsKnown, Waiting, Rank
<1>4. /\ pins' = "stop" /\ cur' = cur /\ coast' \in Ways \cup {"no"} /\ (pins = "stop" => coast' = coast)
  BY <1>0, <1>1, BrakeDoes DEF StrokeTypeOK, PowerTypeOK
<1>5. StrokeTypeOK'
  BY <1>0, <1>1, <1>4, <1>a DEF StrokeTypeOK, PowerTypeOK, Pins
<1>6. PosTrue' /\ AskKnown' /\ RecKnown'
  BY <1>0, <1>1, <1>4 DEF PosTrue, AskKnown, RecKnown
<1>7. EventsKnown'
  BY <1>0, <1>1, <1>2, <1>3 DEF EventsKnown, Logical, Waiting
<1>8. ExcuseKnown'
  BY <1>0, <1>1 DEF ExcuseKnown, Waiting
<1>9. SavePhase'
  BY <1>1, <1>3 DEF SavePhase
<1> QED BY <1>5, <1>6, <1>7, <1>8, <1>9, <1>a DEF StrokeInv, Alive, RestoredIsTrue, KnownIsKept

\* An over-current: the rod stands at the end the request names.
LEMMA CurrentStep ==
  ASSUME StrokeInv, OnOverCurrent
  PROVE  StrokeInv'
<1>0. StrokeTypeOK /\ PosTrue /\ EventsKnown /\ AskKnown /\ RecKnown /\ ExcuseKnown /\ SavePhase
  BY DEF StrokeInv, Alive, OnOverCurrent, Handle
<1>1. /\ bits' = bits \ {"OVER_CURRENT"} /\ Brake /\ goal' \in {goal, Logical}
      /\ UNCHANGED <<vm, sys_evt, slot, asking, pos, ask, rec, rodAt, moved, low, excuse, doubt>>
  BY DEF OnOverCurrent
<1>a. alive' = alive /\ alive
  BY DEF OnOverCurrent, Handle
<1>2. "OVER_CURRENT" \in bits /\ sys_evt = {} /\ ~ asking
  BY <1>0, HandleKnown DEF OnOverCurrent, Evt
<1>3. pins # "stop" /\ rodAt = EndOf(Logical)
  BY <1>0, <1>2 DEF EventsKnown, Waiting
<1>4. /\ pins' = "stop" /\ cur' = cur /\ coast' = Logical /\ Logical \in Ways
  BY <1>0, <1>1, <1>3, BrakeDoes DEF StrokeTypeOK, PowerTypeOK
<1>h. "VOLT_UNDER" \in halt => "VOLT_UNDER" \in halt'
  BY DEF OnOverCurrent
<1>5. StrokeTypeOK'
  BY <1>0, <1>1, <1>4, <1>a DEF StrokeTypeOK, PowerTypeOK, Pins
<1>6. PosTrue'
  <2>1. goal \notin Ways
    BY <1>0, <1>3 DEF PosTrue
  <2>2. goal' \in Ways => goal' = Logical
    BY <1>1, <2>1
  <2>3. goal' \in Ways => rodAt' = EndOf(goal')
    BY <1>1, <1>3, <2>2
  <2> QED BY <1>0, <1>1, <1>4, <2>2, <2>3 DEF PosTrue
<1>7. AskKnown' /\ RecKnown'
  BY <1>0, <1>1 DEF AskKnown, RecKnown
<1>8. EventsKnown'
  BY <1>0, <1>1, <1>2 DEF EventsKnown, Logical, Waiting
<1>9. ExcuseKnown'
  BY <1>0, <1>1 DEF ExcuseKnown, Waiting
<1>10. SavePhase'
  <2>1. vm.fault = 1 /\ "unseen" \notin excuse => Coming
    BY <1>0, <1>2, <1>3 DEF SavePhase, Asked, Slowing, SavedStill, Held
  <2>2. Coming => Coming'
    BY <1>1 DEF Coming, Waiting, LowFor
  <2> QED BY <1>1, <2>1, <2>2 DEF SavePhase
<1> QED BY <1>5, <1>6, <1>7, <1>8, <1>9, <1>10, <1>a DEF StrokeInv, Alive, RestoredIsTrue, KnownIsKept

\* An undervoltage: the request is made, or there is the excuse that no bus
\* was ever seen.
LEMMA UnderStep ==
  ASSUME StrokeInv, OnVoltUnder
  PROVE  StrokeInv'
<1>0. StrokeTypeOK /\ PosTrue /\ EventsKnown /\ AskKnown /\ RecKnown /\ ExcuseKnown /\ SavePhase
  BY DEF StrokeInv, Alive, OnVoltUnder, Handle
<1>1. /\ halt' = halt \cup {"VOLT_UNDER"}
      /\ ask' = IF MayAsk THEN [ask EXCEPT !.pending = TRUE] ELSE ask
      /\ excuse' = IF vm.seen THEN excuse ELSE excuse \cup {"unseen"}
      /\ UNCHANGED <<vm, cur, pins, sys_evt, slot, bits, pos, goal, rec, rodAt, moved, coast, low, doubt>>
  BY DEF OnVoltUnder, powerVars
<1>a. alive' = alive /\ alive /\ asking' = TRUE
  BY DEF OnVoltUnder, Handle
<1>2. "VOLT_UNDER" \in bits /\ sys_evt = {} /\ ~ asking /\ \A f \in bits : Rank("VOLT_UNDER") <= Rank(f)
  BY <1>0, HandleKnown DEF OnVoltUnder, Evt
<1>3. vm.fault = 1 /\ Waiting("VOLT_UNDER") /\ ~ Waiting("VOLT_NORMAL") /\ ~ Waiting("VOLT_OVER")
  BY <1>0, <1>2 DEF EventsKnown, Waiting
<1>4. bits = {"VOLT_UNDER"}
  <2>1. "OVER_CURRENT" \notin bits
    BY <1>2 DEF Rank
  <2> QED BY <1>0, <1>2, <1>3, <2>1 DEF StrokeTypeOK, Evt, Waiting
<1>5. "unseen" \notin excuse
  BY <1>0, <1>2, <1>3 DEF ExcuseKnown
<1>6. ~ ask.pending /\ ~ vm.waiting /\ LowFor(1) /\ ask.wait = 0
  <2>1. Coming
    BY <1>0, <1>2, <1>3, <1>5 DEF SavePhase, Asked, Slowing, SavedStill, Held
  <2> QED BY <1>0, <2>1 DEF Coming, AskKnown
<1>7. /\ ask' \in [pending : BOOLEAN, wait : Nat] /\ ask'.wait = 0
      /\ ask'.pending <=> vm.seen
  <2>0. ask \in [pending : BOOLEAN, wait : Nat]
    BY <1>0 DEF StrokeTypeOK
  <2>1. CASE vm.seen
    <3>1. ask' = [ask EXCEPT !.pending = TRUE]
      BY <1>1, <1>6, <2>1 DEF MayAsk
    <3> QED BY <1>6, <2>0, <2>1, <3>1
  <2>2. CASE ~ vm.seen
    BY <1>1, <1>6, <2>0, <2>2 DEF MayAsk
  <2> QED BY <2>1, <2>2
<1>8. StrokeTypeOK'
  <2>1. alive' \in BOOLEAN /\ asking' \in BOOLEAN
    BY <1>a
  <2> QED BY <1>0, <1>1, <1>7, <2>1 DEF StrokeTypeOK, PowerTypeOK
<1>9. PosTrue' /\ RecKnown'
  BY <1>0, <1>1 DEF PosTrue, RecKnown
<1>10. AskKnown'
  BY <1>1, <1>3, <1>5, <1>7, SaveFacts DEF AskKnown
<1>11. EventsKnown'
  BY <1>0, <1>1, <1>2, <1>4 DEF EventsKnown, Logical, Waiting
<1>12. ExcuseKnown'
  BY <1>0, <1>1, <1>3, <1>a DEF ExcuseKnown
<1>13. SavePhase'
  <2>1. CASE vm.seen
    <3>1. excuse' = excuse /\ "VOLT_UNDER" \in halt'
      BY <1>1, <2>1
    <3>2. Asked'
      BY <1>1, <1>6, <1>7, <1>a, <2>1, <3>1 DEF Asked, LowFor, Early
    <3> QED BY <3>2 DEF SavePhase
  <2>2. CASE ~ vm.seen
    BY <1>1, <2>2 DEF SavePhase
  <2> QED BY <2>1, <2>2
<1> QED BY <1>8, <1>9, <1>10, <1>11, <1>12, <1>13, <1>a DEF StrokeInv, Alive, RestoredIsTrue, KnownIsKept

\* The rest of the request, and the brake.
LEMMA RestStep ==
  ASSUME StrokeInv, OnVoltUnder_Rest
  PROVE  StrokeInv'
<1>0. StrokeTypeOK /\ PosTrue /\ EventsKnown /\ AskKnown /\ RecKnown /\ ExcuseKnown /\ SavePhase
  BY DEF StrokeInv, Alive, OnVoltUnder_Rest
<1>1. /\ bits' = bits \ {"VOLT_UNDER"} /\ ask' = [ask EXCEPT !.wait = 0] /\ Brake
      /\ UNCHANGED <<vm, sys_evt, slot, halt, pos, goal, rec, rodAt, moved, low, excuse, doubt>>
  BY DEF OnVoltUnder_Rest
<1>a. alive' = alive /\ alive /\ asking' = FALSE /\ asking
  BY DEF OnVoltUnder_Rest
<1>2. bits = {"VOLT_UNDER"} /\ sys_evt = {} /\ vm.fault = 1 /\ bits' = {}
  BY <1>0, <1>1, <1>a DEF EventsKnown, Waiting
<1>3. /\ pins' = "stop" /\ cur' = cur /\ coast' \in Ways \cup {"no"} /\ (pins = "stop" => coast' = coast)
  BY <1>0, <1>1, BrakeDoes DEF StrokeTypeOK, PowerTypeOK
<1>4. ask' \in [pending : BOOLEAN, wait : Nat] /\ ask'.wait = 0 /\ ask'.pending = ask.pending
  BY <1>0, <1>1 DEF StrokeTypeOK
<1>5. StrokeTypeOK'
  <2>1. alive' \in BOOLEAN /\ asking' \in BOOLEAN
    BY <1>a
  <2> QED BY <1>0, <1>1, <1>2, <1>3, <1>4, <2>1 DEF StrokeTypeOK, PowerTypeOK, Pins
<1>6. PosTrue' /\ RecKnown'
  BY <1>0, <1>1, <1>3 DEF PosTrue, RecKnown
<1>7. AskKnown'
  BY <1>0, <1>1, <1>2, <1>4, SaveFacts DEF AskKnown
<1>n. ~ Waiting("OVER_CURRENT")' /\ ~ Waiting("VOLT_UNDER")' /\ ~ Waiting("VOLT_OVER")' /\ ~ Waiting("VOLT_NORMAL")'
  BY <1>1, <1>2 DEF Waiting
<1>8. EventsKnown'
  BY <1>0, <1>1, <1>2, <1>a, <1>n DEF EventsKnown
<1>9. ExcuseKnown'
  BY <1>0, <1>1, <1>2, <1>n DEF ExcuseKnown
<1>10. SavePhase'
  <2> SUFFICES ASSUME "unseen" \notin excuse PROVE Slowing'
    BY <1>1 DEF SavePhase
  <2>1. ask.pending /\ ~ vm.waiting /\ LowFor(1) /\ "VOLT_UNDER" \in halt
    BY <1>0, <1>2, <1>a DEF SavePhase, Coming, Asked, Slowing, SavedStill, Held
  <2>2. Held'
    BY <1>1, <1>3, <1>a, <1>n, <2>1 DEF Held
  <2>3. Early'
    BY <1>4 DEF Early
  <2>4. LowFor(ask.wait + (IF slot = "rod" THEN 2 ELSE 1))'
    BY <1>0, <1>1, <1>4, <2>1 DEF LowFor, StrokeTypeOK
  <2> QED BY <1>1, <1>4, <2>1, <2>2, <2>3, <2>4 DEF Slowing
<1> QED BY <1>5, <1>6, <1>7, <1>8, <1>9, <1>10, <1>a DEF StrokeInv, Alive, RestoredIsTrue, KnownIsKept

\* The motor starts, reverses or stops: never while an undervoltage is known.
LEMMA RunStep ==
  ASSUME StrokeInv, NEW dir \in Ways \cup {"stop"}, Run(dir)
  PROVE  StrokeInv'
<1>0. StrokeTypeOK /\ PosTrue /\ EventsKnown /\ AskKnown /\ RecKnown /\ ExcuseKnown /\ SavePhase
  BY DEF StrokeInv, Alive, Run
<1>1. /\ halt = {} /\ sys_evt = {} /\ bits = {} /\ goal = "none" /\ MotorGpio_WritePair(dir) /\ coast' = "no"
      /\ UNCHANGED <<vm, sys_evt, slot, bits, asking, halt, pos, goal, ask, rec, rodAt, moved,
                     low, excuse, doubt>>
  BY DEF Run, SmIdle
<1>a. alive' = alive /\ alive /\ ~ asking
  BY DEF Run, SmIdle
<1>2. pins' \in Pins /\ cur' \in CurData
  <2>1. dir \in Pins /\ cur \in CurData /\ BlockMs \in 0 .. BlockMs
    BY <1>0, PowerConstants DEF Ways, Pins, StrokeTypeOK, PowerTypeOK
  <2>2. pins' = Physical(dir) /\ (cur' = cur \/ cur' = [cur EXCEPT !.block = BlockMs])
    BY <1>1 DEF MotorGpio_WritePair
  <2>3. [cur EXCEPT !.block = BlockMs] \in CurData
    BY <2>1 DEF CurData
  <2> QED BY <2>1, <2>2, <2>3, PhysicalIsPins
<1>3. StrokeTypeOK'
  BY <1>0, <1>1, <1>2, <1>a DEF StrokeTypeOK, PowerTypeOK
<1>4. PosTrue' /\ AskKnown' /\ RecKnown'
  BY <1>0, <1>1 DEF PosTrue, AskKnown, RecKnown, Ways
<1>5. EventsKnown' /\ ExcuseKnown'
  BY <1>0, <1>1, <1>a DEF EventsKnown, ExcuseKnown, Waiting
<1>6. ~ (vm.fault = 1 /\ "unseen" \notin excuse)
  BY <1>0, <1>1, <1>a DEF SavePhase, Coming, Asked, Slowing, SavedStill, Held, Waiting
<1>7. SavePhase'
  BY <1>1, <1>6 DEF SavePhase
<1> QED BY <1>3, <1>4, <1>5, <1>7, <1>a DEF StrokeInv, Alive, RestoredIsTrue, KnownIsKept

\* A turn of the rod task: pulses and request are taken, and a request that
\* has waited long enough is carried out, when the rod stands.
LEMMA RodStep ==
  ASSUME StrokeInv, RodTurn
  PROVE  StrokeInv'
<1> DEFINE due == ask.pending /\ ask.wait + 1 >= WaitTicks
<1>0. StrokeTypeOK /\ PosTrue /\ EventsKnown /\ AskKnown /\ RecKnown /\ ExcuseKnown /\ SavePhase
  BY DEF StrokeInv, Alive, RodTurn
<1>1. /\ slot = "rod" /\ slot' = "isr" /\ pos' = Integrate(pos) /\ goal' = "none" /\ moved' = 0
      /\ ask' = IF due THEN NoAsk ELSE IF ask.pending THEN [ask EXCEPT !.wait = ask.wait + 1] ELSE ask
      /\ rec' = IF due /\ MaySave(pos') THEN [kind |-> "real", val |-> SavedValue(pos')] ELSE rec
      /\ excuse' = IF due THEN {} ELSE excuse
      /\ UNCHANGED <<vm, cur, pins, sys_evt, bits, asking, halt, rodAt, coast, low, doubt>>
  BY DEF RodTurn, powerVars
<1>a. alive' = alive /\ alive
  BY DEF RodTurn
<1>t. /\ pos \in [val : Int, done : BOOLEAN] /\ ask \in [pending : BOOLEAN, wait : Nat]
      /\ rec \in [kind : {"none", "default", "real"}, val : Int]
      /\ moved \in Int /\ rodAt \in Int /\ low \in Nat /\ ask.wait \in Nat
  BY <1>0 DEF StrokeTypeOK
<1>2. /\ pos' \in [val : Int, done : BOOLEAN] /\ (pos.done => pos'.done)
      /\ pos'.done => pos'.val = rodAt
      /\ goal = "none" => (pos'.done <=> pos.done)
  <2>1. CASE goal \in Ways
    <3>1. pos' = [val |-> EndOf(goal), done |-> TRUE] /\ rodAt = EndOf(goal) /\ goal # "none"
      BY <1>0, <1>1, <2>1 DEF Integrate, PosTrue, Ways
    <3> QED BY <1>t, <3>1
  <2>2. CASE goal \notin Ways
    <3> DEFINE x == pos.val + moved
    <3>1. x \in Int /\ (pos.done => x = rodAt)
      BY <1>0, <1>t DEF PosTrue
    <3>2. pos' = [pos EXCEPT !.val = x]
      BY <1>1, <2>2 DEF Integrate
    <3> HIDE DEF x
    <3>3. pos' \in [val : Int, done : BOOLEAN] /\ pos'.val = x /\ pos'.done = pos.done
      BY <1>t, <3>1, <3>2
    <3> QED BY <3>1, <3>3
  <2> QED BY <2>1, <2>2
<1>3. /\ ask' \in [pending : BOOLEAN, wait : Nat]
      /\ due => ~ ask'.pending /\ ask'.wait = 0
      /\ ~ due => (ask'.pending <=> ask.pending)
      /\ ~ due => ask'.wait = IF ask.pending THEN ask.wait + 1 ELSE ask.wait
  <2>1. CASE due
    <3>1. ask' = [pending |-> FALSE, wait |-> 0]
      BY <1>1, <2>1 DEF NoAsk
    <3> QED BY <2>1, <3>1
  <2>2. CASE ~ due /\ ask.pending
    <3> DEFINE w == ask.wait + 1
    <3>1. w \in Nat /\ ask' = [ask EXCEPT !.wait = w]
      BY <1>1, <1>t, <2>2
    <3> HIDE DEF w
    <3>2. ask' \in [pending : BOOLEAN, wait : Nat] /\ ask'.wait = w /\ ask'.pending = ask.pending
      BY <1>t, <3>1
    <3> QED BY <2>2, <3>2 DEF w
  <2>3. CASE ~ ask.pending
    BY <1>1, <1>t, <2>3
  <2> QED BY <2>1, <2>2, <2>3
<1>4. /\ rec' \in [kind : {"none", "default", "real"}, val : Int]
      /\ due /\ pos'.done => rec'.kind = "real" /\ rec'.val = rodAt
      /\ ~ due => rec' = rec
      /\ Trusted(rec') => Trusted(rec) \/ pos'.done
  <2>1. CASE due /\ pos'.done
    <3>1. rec' = [kind |-> "real", val |-> pos'.val] /\ pos'.val = rodAt
      BY <1>1, <1>2, <2>1 DEF MaySave, SavedValue
    <3> QED BY <1>t, <2>1, <3>1
  <2>2. CASE ~ (due /\ pos'.done)
    BY <1>1, <1>t, <2>2 DEF MaySave
  <2> QED BY <2>1, <2>2
<1>5. StrokeTypeOK'
  BY <1>0, <1>1, <1>2, <1>3, <1>4, <1>a DEF StrokeTypeOK, PowerTypeOK
<1>6. PosTrue'
  BY <1>1, <1>2, <1>t DEF PosTrue, Ways
<1>7. RecKnown'
  BY <1>0, <1>1, <1>2, <1>4 DEF RecKnown
<1>8. EventsKnown'
  BY <1>0, <1>1 DEF EventsKnown, Logical, Waiting
<1>9. AskKnown'
  <2>1. CASE due
    BY <1>3, <2>1 DEF AskKnown
  <2>2. CASE ~ due /\ ask.pending
    <3>1. ask.wait + 1 < WaitTicks /\ vm.fault = 1 /\ vm.seen /\ "unseen" \notin excuse
      BY <1>0, <1>t, <2>2, SaveFacts DEF AskKnown
    <3> QED BY <1>1, <1>3, <2>2, <3>1 DEF AskKnown
  <2>3. CASE ~ ask.pending
    BY <1>0, <1>1, <1>3, <2>3 DEF AskKnown
  <2> QED BY <2>1, <2>2, <2>3
<1>10. ExcuseKnown'
  <2>1. CASE due
    <3>1. low >= 1 => vm.fault = 1
      BY <1>0, <1>t, <2>1 DEF AskKnown
    <3> QED BY <1>1, <2>1, <3>1 DEF ExcuseKnown
  <2>2. CASE ~ due
    BY <1>0, <1>1, <2>2 DEF ExcuseKnown, Waiting
  <2> QED BY <2>1, <2>2
<1>11. SavePhase'
  <2> SUFFICES ASSUME vm.fault = 1, "unseen" \notin excuse'
               PROVE  Coming' \/ Asked' \/ Slowing' \/ SavedStill'
    BY <1>1 DEF SavePhase
  <2>0. "unseen" \notin excuse
    BY <1>0, <1>1 DEF AskKnown
  <2>1. CASE Coming
    <3>1. ~ ask.pending
      BY <2>1 DEF Coming
    <3>2. Coming'
      BY <1>1, <1>3, <2>1, <3>1 DEF Coming, Waiting, LowFor
    <3> QED BY <3>2
  <2>2. CASE Asked
    <3>1. ask.pending /\ ask.wait = 0
      BY <1>1, <2>2 DEF Asked, Early
    <3>2. ~ due
      BY <3>1, SaveFacts
    <3>3. ask'.wait = 1 /\ ask'.pending
      BY <1>3, <3>1, <3>2
    <3>4. Asked'
      BY <1>1, <2>2, <3>2, <3>3 DEF Asked, LowFor, Early
    <3> QED BY <3>4
  <2>3. CASE Slowing
    <3>1. Held' /\ ask.pending
      BY <1>1, <2>3 DEF Slowing, Held, Waiting
    <3>2. CASE due
      <4>1. coast = "no"
        <5>1. Early => ask.wait = 0
          BY <1>1 DEF Early
        <5>2. ~ Early
          BY <3>2, <5>1, SaveFacts
        <5> QED BY <2>3, <5>2 DEF Slowing
      <4>2. SavedStill'
        BY <1>1, <1>3, <1>4, <3>1, <3>2, <4>1 DEF SavedStill
      <4> QED BY <4>2
    <3>3. CASE ~ due
      <4>1. ask'.wait = ask.wait + 1 /\ ask'.pending
        BY <1>3, <3>1, <3>3
      <4>2. coast' # "no" => Early'
        <5>1. coast # "no" => ask.wait = 0
          BY <1>1, <2>3 DEF Slowing, Early
        <5> QED BY <1>1, <4>1, <5>1 DEF Early
      <4>3. LowFor(ask.wait + (IF slot = "rod" THEN 2 ELSE 1))'
        <5>1. LowFor(ask.wait + 2)
          BY <1>1, <2>3 DEF Slowing
        <5> QED BY <1>1, <1>t, <3>3, <4>1, <5>1 DEF LowFor
      <4>4. vm.waiting => ask'.wait >= vm.cnt + 1
        <5>1. vm.waiting => ask.wait >= vm.cnt
          <6>1. vm.cnt \in Int
            BY <1>0, SaveFacts DEF StrokeTypeOK, PowerTypeOK, VoltData
          <6> QED BY <1>1, <2>3, <6>1 DEF Slowing
        <5>2. vm.cnt \in Int
          BY <1>0, SaveFacts DEF StrokeTypeOK, PowerTypeOK, VoltData
        <5> QED BY <1>t, <4>1, <5>1, <5>2
      <4>5. Slowing'
        BY <1>1, <3>1, <4>1, <4>2, <4>3, <4>4 DEF Slowing
      <4> QED BY <4>5
    <3> QED BY <3>2, <3>3
  <2>4. CASE SavedStill
    <3>1. ~ ask.pending /\ goal = "none" /\ Held' /\ coast = "no"
      BY <1>1, <2>4 DEF SavedStill, Held, Waiting
    <3>2. SavedStill'
      BY <1>1, <1>2, <1>3, <1>4, <2>4, <3>1 DEF SavedStill
    <3> QED BY <3>2
  <2> QED BY <1>0, <2>0, <2>1, <2>2, <2>3, <2>4 DEF SavePhase
<1> QED BY <1>5, <1>6, <1>7, <1>8, <1>9, <1>10, <1>11, <1>a DEF StrokeInv, Alive, RestoredIsTrue, KnownIsKept

\* Which events a sample posts.
LEMMA SampleEvents ==
  ASSUME StrokeTypeOK, SmIdle, vm.waiting => vm.fault # 0, NEW v \in Zone, NEW high \in BOOLEAN,
         Dev_Power_Isr1ms(v, high)
  PROVE  /\ sys_evt' \subseteq Evt \cup {"VOLT_RECOVER_WAIT"} /\ cur' \in CurData /\ pins' = pins
         /\ "OVER_CURRENT" \in sys_evt' => high
         /\ "VOLT_UNDER" \in sys_evt' <=> vm'.fault = 1 /\ vm.fault # 1
         /\ "VOLT_OVER" \in sys_evt' => vm'.fault = 2
         /\ "VOLT_NORMAL" \in sys_evt' <=> vm'.fault = 0 /\ vm.fault # 0
<1>1. /\ vm' = BusVoltage_Isr1ms(vm, v) /\ cur' = CurrentSensor_Isr1ms(cur, high) /\ pins' = pins
      /\ sys_evt' = VoltEvents(vm, vm') \cup CurEvents(cur, cur')
  BY DEF Dev_Power_Isr1ms, SmIdle
<1>2. vm.fault \in 0 .. 2 /\ vm'.fault \in 0 .. 2
  <2>1. vm \in VoltData /\ vm' \in VoltData
    BY <1>1, VoltMoves DEF StrokeTypeOK, PowerTypeOK
  <2> QED BY <2>1 DEF VoltData, VoltFault
<1>3. cur' \in CurData /\ (cur'.status => high)
  <2>1. cur \in CurData /\ WindowMs > 0 /\ cur.block \in Nat
    BY PowerConstants DEF StrokeTypeOK, PowerTypeOK, CurData
  <2>2. cur' \in CurData /\ (cur'.status => cur'.over >= WindowMs) /\ (~ high => cur'.over = 0)
    BY <1>1, <2>1, CurStep
  <2> QED BY <2>1, <2>2, PowerConstants
<1>4. CurEvents(cur, cur') \subseteq {"OVER_CURRENT"} /\ ("OVER_CURRENT" \in CurEvents(cur, cur') => high)
  BY <1>3 DEF CurEvents
<1>5. /\ VoltEvents(vm, vm') \subseteq {"VOLT_RECOVER_WAIT", "VOLT_OVER", "VOLT_UNDER", "VOLT_NORMAL"}
      /\ "VOLT_UNDER" \in VoltEvents(vm, vm') <=> vm'.fault = 1 /\ vm.fault # 1
      /\ "VOLT_OVER" \in VoltEvents(vm, vm') => vm'.fault = 2
      /\ "VOLT_NORMAL" \in VoltEvents(vm, vm') <=> vm'.fault = 0 /\ vm.fault # 0
  BY <1>2 DEF VoltEvents
<1> QED BY <1>1, <1>3, <1>4, <1>5 DEF Evt

\* A turn begins: the rod moves as motor or coasting take it, the interrupt
\* samples.
LEMMA SampleStep ==
  ASSUME StrokeInv, NEW v \in Zone, NEW high \in BOOLEAN, NEW step \in 0 .. 1, Sample(v, high, step)
  PROVE  StrokeInv'
<1> DEFINE dir == IF pins # "stop" THEN Logical ELSE coast
<1>0. StrokeTypeOK /\ PosTrue /\ EventsKnown /\ AskKnown /\ RecKnown /\ ExcuseKnown /\ SavePhase
  BY DEF StrokeInv, Alive, Sample
<1>1. /\ slot = "isr" /\ slot' = "rod" /\ SmIdle /\ Dev_Power_Isr1ms(v, high) /\ coast' = "no"
      /\ step = 1 => dir \in Ways /\ rodAt # EndOf(dir)
      /\ high => pins # "stop" /\ rodAt = EndOf(Logical)
      /\ moved' = IF dir = "fwd" THEN step ELSE -step
      /\ rodAt' = rodAt + moved'
      /\ low' = IF v > 1 THEN 0 ELSE IF low < HoldTurns THEN low + 1 ELSE low
      /\ excuse' = IF v = 1 /\ vm.fault = 2 THEN excuse \cup {"masked"}
                   ELSE IF v > 1 THEN excuse \ {"masked"} ELSE excuse
      /\ UNCHANGED <<bits, asking, halt, pos, goal, ask, rec, doubt>>
  BY DEF Sample
<1>a. alive' = alive /\ alive /\ ~ asking /\ bits = {} /\ sys_evt = {}
  BY <1>1 DEF Sample, SmIdle
<1>t. /\ pos \in [val : Int, done : BOOLEAN] /\ ask \in [pending : BOOLEAN, wait : Nat]
      /\ rodAt \in Int /\ low \in Nat /\ ask.wait \in Nat /\ vm \in VoltData /\ vm.cnt \in Nat
      /\ vm.fault \in 0 .. 2 /\ pos.val \in Int
  BY <1>0, SaveFacts DEF StrokeTypeOK, PowerTypeOK, VoltData, VoltFault
<1> HIDE DEF dir
<1>2. moved' \in Int /\ rodAt' \in Int /\ low' \in Nat /\ (v = 1 \/ low' = 0) /\ low' <= low + 1
  BY <1>1, <1>t, SaveFacts DEF Zone
<1>s. step # 1 => moved' = 0 /\ rodAt' = rodAt
  <2> SUFFICES ASSUME step # 1 PROVE moved' = 0
    BY <1>1, <1>t
  <2>1. step <= 0 /\ step >= 0
    OBVIOUS
  <2>2. moved' <= 0 /\ moved' >= 0
    BY <1>1, <2>1
  <2> QED BY <1>2, <2>2
<1>3. LET e == vm'
      IN /\ e \in VoltData /\ (vm.seen => e.seen) /\ (e.waiting => e.fault # 0)
         /\ vm.fault = 0 => ~ e.waiting /\ (v = 1 <=> e.fault = 1)
         /\ vm.fault = 1 => /\ e.fault \in {0, 1} /\ (v = 1 => e.fault = 1 /\ ~ e.waiting)
                            /\ e.fault = 0 => vm.waiting /\ vm.cnt + 1 >= RecoverMs
                            /\ e.waiting => e.cnt = 0 \/ (vm.waiting /\ e.cnt = vm.cnt + 1)
         /\ vm.fault = 2 => e.fault \in {0, 2}
  <2>1. vm.waiting => vm.fault # 0
    BY <1>0 DEF EventsKnown
  <2>2. vm' = BusVoltage_Isr1ms(vm, v)
    BY <1>1 DEF Dev_Power_Isr1ms
  <2> QED BY <1>t, <2>1, <2>2, VoltMoves
<1>4. /\ sys_evt' \subseteq Evt \cup {"VOLT_RECOVER_WAIT"} /\ cur' \in CurData /\ pins' = pins
      /\ Waiting("OVER_CURRENT")' => high
      /\ Waiting("VOLT_UNDER")' <=> vm'.fault = 1 /\ vm.fault # 1
      /\ Waiting("VOLT_OVER")' => vm'.fault = 2
      /\ Waiting("VOLT_NORMAL")' <=> vm'.fault = 0 /\ vm.fault # 0
  <2>1. vm.waiting => vm.fault # 0
    BY <1>0 DEF EventsKnown
  <2>2. \A e : Waiting(e)' <=> e \in sys_evt'
    BY <1>1, <1>a DEF Waiting
  <2> QED BY <1>0, <1>1, <2>1, <2>2, SampleEvents
<1>n. ~ Waiting("VOLT_UNDER") /\ ~ Waiting("VOLT_NORMAL")
  BY <1>a DEF Waiting
<1>5. StrokeTypeOK'
  BY <1>0, <1>1, <1>2, <1>3, <1>4, <1>a DEF StrokeTypeOK, PowerTypeOK
<1>6. PosTrue'
  <2>1. pos.done => pos.val + moved' = rodAt'
    BY <1>0, <1>1, <1>2, <1>t DEF PosTrue
  <2>2. goal \in Ways => rodAt' = EndOf(goal) /\ pins = "stop"
    <3> SUFFICES ASSUME goal \in Ways PROVE rodAt' = EndOf(goal) /\ pins = "stop"
      OBVIOUS
    <3>1. rodAt = EndOf(goal) /\ pins = "stop" /\ dir \in {goal, "no"}
      BY <1>0 DEF PosTrue, dir
    <3>2. step # 1
      BY <1>1, <3>1 DEF Ways
    <3> QED BY <1>s, <3>1, <3>2
  <2> QED BY <1>1, <1>4, <2>1, <2>2 DEF PosTrue
<1>7. RecKnown'
  BY <1>0, <1>1 DEF RecKnown
<1>8. EventsKnown'
  <2>1. high => pins # "stop" /\ rodAt' = EndOf(Logical)
    <3> SUFFICES ASSUME high PROVE pins # "stop" /\ rodAt' = EndOf(Logical)
      OBVIOUS
    <3>1. pins # "stop" /\ rodAt = EndOf(Logical) /\ dir = Logical
      BY <1>1 DEF dir
    <3>2. step # 1
      BY <1>1, <3>1
    <3> QED BY <1>s, <3>1, <3>2
  <2>2. Logical' = Logical
    BY <1>4 DEF Logical
  <2> QED BY <1>1, <1>3, <1>4, <1>a, <2>1, <2>2 DEF EventsKnown
<1>u. "unseen" \in excuse' <=> "unseen" \in excuse
  BY <1>1
<1>9. AskKnown'
  <2>1. CASE ask.pending
    <3>1. vm.fault = 1 /\ ask.wait < WaitTicks /\ vm.seen /\ "unseen" \notin excuse
      BY <1>0, <1>1, <2>1 DEF AskKnown
    <3>2. ASSUME vm'.fault = 0 PROVE ask.wait + 1 = WaitTicks /\ low' = 0
      <4>1. Slowing
        BY <1>0, <1>a, <1>n, <2>1, <3>1 DEF SavePhase, Coming, Asked, SavedStill
      <4>2. vm.waiting /\ vm.cnt + 1 >= RecoverMs /\ v # 1
        BY <1>3, <3>1, <3>2
      <4>3. ask.wait >= vm.cnt + 1
        BY <1>1, <4>1, <4>2 DEF Slowing
      <4> QED BY <1>2, <1>t, <3>1, <4>2, <4>3, SaveFacts
    <3> QED BY <1>1, <1>3, <1>u, <2>1, <3>1, <3>2 DEF AskKnown
  <2>2. CASE ~ ask.pending
    BY <1>0, <1>1, <2>2 DEF AskKnown
  <2> QED BY <2>1, <2>2
<1>10. ExcuseKnown'
  <2>1. "unseen" \in excuse => vm.fault = 1
    BY <1>0, <1>n DEF ExcuseKnown
  <2>2. "unseen" \in excuse' => (vm'.fault = 1 /\ ~ Waiting("VOLT_UNDER")') \/ Waiting("VOLT_NORMAL")'
    BY <1>3, <1>4, <1>u, <2>1
  <2>3. low' >= 1 /\ "masked" \notin excuse' => vm'.fault = 1
    <3> SUFFICES ASSUME low' >= 1, "masked" \notin excuse' PROVE vm'.fault = 1
      OBVIOUS
    <3>1. v = 1
      BY <1>2
    <3>2. vm.fault # 2
      BY <1>1, <3>1
    <3> QED BY <1>3, <1>t, <3>1, <3>2
  <2> QED BY <2>2, <2>3 DEF ExcuseKnown
<1>11. SavePhase'
  <2> SUFFICES ASSUME vm'.fault = 1, "unseen" \notin excuse
               PROVE  Coming' \/ Asked' \/ Slowing' \/ SavedStill'
    BY <1>u DEF SavePhase
  <2>1. CASE vm.fault = 0
    <3>1. v = 1 /\ ~ vm'.waiting /\ Waiting("VOLT_UNDER")' /\ excuse' = excuse
      BY <1>1, <1>3, <1>4, <2>1
    <3>2. ~ ask.pending
      BY <1>0, <1>1, <2>1 DEF AskKnown
    <3>3. LowFor(1)'
      <4>1. "masked" \notin excuse => low = 0
        BY <1>0, <1>t, <2>1 DEF ExcuseKnown
      <4> QED BY <1>2, <1>t, <3>1, <4>1 DEF LowFor
    <3>4. Coming'
      BY <1>1, <1>a, <3>1, <3>2, <3>3 DEF Coming
    <3> QED BY <3>4
  <2>2. CASE vm.fault = 1
    <3>1. Slowing \/ SavedStill
      BY <1>0, <1>a, <1>n, <2>2 DEF SavePhase, Coming, Asked
    <3>2. Held'
      BY <1>1, <1>4, <1>a, <2>2, <3>1 DEF Held, Slowing, SavedStill
    <3>3. CASE Slowing
      <4>1. LowFor(ask.wait + 2)'
        <5>1. v = 1 => excuse' = excuse
          BY <1>1, <2>2
        <5>2. LowFor(ask.wait + 1)
          BY <1>1, <3>3 DEF Slowing
        <5>3. ask' = ask
          BY <1>1
        <5> QED BY <1>2, <1>t, <5>1, <5>2, <5>3 DEF LowFor
      <4>2. vm'.waiting => ask.wait >= vm'.cnt
        <5>1. vm.waiting => ask.wait >= vm.cnt + 1
          BY <1>1, <3>3 DEF Slowing
        <5> QED BY <1>3, <1>t, <2>2, <5>1
      <4>3. vm'.cnt \in Nat
        BY <1>3, SaveFacts DEF VoltData
      <4>4. Slowing'
        BY <1>1, <3>2, <3>3, <4>1, <4>2, <4>3 DEF Slowing
      <4> QED BY <4>4
    <3>4. CASE SavedStill
      <4>1. dir = "no"
        BY <3>4 DEF SavedStill, Held, dir
      <4>2. moved' = 0 /\ rodAt' = rodAt
        BY <1>1, <1>s, <4>1 DEF Ways
      <4>3. SavedStill'
        BY <1>1, <3>2, <3>4, <4>2 DEF SavedStill
      <4> QED BY <4>3
    <3> QED BY <3>1, <3>3, <3>4
  <2>3. CASE vm.fault = 2
    BY <1>3, <2>3
  <2> QED BY <1>t, <2>1, <2>2, <2>3
<1> QED BY <1>5, <1>6, <1>7, <1>8, <1>9, <1>10, <1>11, <1>a DEF StrokeInv, Alive, RestoredIsTrue, KnownIsKept

-----------------------------------------------------------------------------
\* Before the first power-up nothing is known.
LEMMA StrokeStart ==
  ASSUME StrokeInit
  PROVE  StrokeInv
<1>1. /\ PowerInit /\ sys_evt = {} /\ slot = "isr" /\ bits = {} /\ goal = "none" /\ ask = NoAsk
      /\ pos = [val |-> 0, done |-> FALSE] /\ rec = [kind |-> "none", val |-> 0]
      /\ rodAt \in 0 .. RodEnd /\ moved = 0 /\ coast = "no" /\ low = 0
  BY DEF StrokeInit
<1>2. alive = FALSE /\ asking = FALSE
  BY DEF StrokeInit
<1>3. alive \in BOOLEAN /\ asking \in BOOLEAN
  BY <1>2
<1>4. PowerTypeOK
  <2>1. vm \in VoltData /\ pins \in Pins
    BY <1>1, PowerConstants DEF PowerInit, VoltData, VoltFault, Pins
  <2>2. cur \in CurData
    BY <1>1, PowerConstants DEF PowerInit, CurData, CurReset
  <2> QED BY <2>1, <2>2 DEF PowerTypeOK
<1>5. /\ pos \in [val : Int, done : BOOLEAN] /\ rec \in [kind : {"none", "default", "real"}, val : Int]
      /\ ask \in [pending : BOOLEAN, wait : Nat] /\ rodAt \in Int
  BY <1>1, SaveFacts DEF NoAsk
<1>6. StrokeTypeOK
  BY <1>1, <1>3, <1>4, <1>5 DEF StrokeTypeOK
<1>7. RestoredIsTrue /\ KnownIsKept
  BY <1>1 DEF RestoredIsTrue, KnownIsKept, Trusted
<1> QED BY <1>2, <1>6, <1>7 DEF StrokeInv

\* Every step keeps the invariant.
LEMMA StrokeStep ==
  ASSUME StrokeInv, [StrokeNext]_strokeVars
  PROVE  StrokeInv'
<1>1. ASSUME NEW dir \in Ways \cup {"stop"}, Run(dir) PROVE StrokeInv'
  BY <1>1, RunStep
<1>2. ASSUME NEW v \in Zone, NEW high \in BOOLEAN, NEW step \in 0 .. 1, Sample(v, high, step)
      PROVE  StrokeInv'
  BY <1>2, SampleStep
<1>3. CASE Recv \/ OnOverCurrent \/ OnVoltOver \/ OnVoltUnder \/ OnVoltUnder_Rest \/ OnVoltNormal
  BY <1>3, RecvStep, CurrentStep, OverStep, UnderStep, RestStep, NormalStep
<1>4. CASE RodTurn \/ DebugSave \/ PowerFails \/ PowerUp
  BY <1>4, RodStep, DebugStep, FailStep, UpStep
<1>5. CASE UNCHANGED strokeVars
  <2>1. UNCHANGED <<vm, cur, pins, sys_evt, alive, slot, bits, asking, halt, pos, goal, ask, rec, rodAt,
                    moved, coast, low, excuse, doubt>>
    BY <1>5 DEF strokeVars, powerVars, saveVars
  <2>2. StrokeTypeOK'
    BY <2>1 DEF StrokeInv, StrokeTypeOK, PowerTypeOK
  <2>3. RestoredIsTrue' /\ KnownIsKept'
    BY <2>1 DEF StrokeInv, RestoredIsTrue, KnownIsKept
  <2>4. ASSUME alive PROVE Alive'
    <3>0. PosTrue /\ EventsKnown /\ AskKnown /\ RecKnown /\ ExcuseKnown /\ SavePhase
      BY <2>4 DEF StrokeInv, Alive
    <3>1. PosTrue' /\ AskKnown' /\ RecKnown'
      BY <2>1, <3>0 DEF PosTrue, AskKnown, RecKnown
    <3>2. EventsKnown' /\ ExcuseKnown'
      BY <2>1, <3>0 DEF EventsKnown, ExcuseKnown, Waiting, Logical
    <3>3. SavePhase'
      BY <2>1, <3>0 DEF SavePhase, Coming, Asked, Slowing, SavedStill, Held, Waiting, LowFor, Early
    <3> QED BY <3>1, <3>2, <3>3 DEF Alive
  <2> QED BY <2>1, <2>2, <2>3, <2>4 DEF StrokeInv
<1> QED BY <1>1, <1>2, <1>3, <1>4, <1>5 DEF StrokeNext

\* The inductive invariant: the request and its excuses are known at every
\* moment of an undervoltage, and the low bus has lasted no longer than the
\* phase of the save allows.
THEOREM StrokeInvariant == StrokeSpec => []StrokeInv
<1>1. StrokeInit => StrokeInv
  BY StrokeStart
<1>2. StrokeInv /\ [StrokeNext]_strokeVars => StrokeInv'
  BY StrokeStep
<1> QED BY <1>1, <1>2, PTL DEF StrokeSpec

\* For every stroke length and all times that keep SaveConstants, what the
\* next power-up takes for the position of a calibrated rod (Dev_Param_RodInit,
\* a sequence number above 1) is where the rod stands, unless the power was
\* once lost with an excuse.
THEOREM StrokeRestoredIsTrue == StrokeSpec => []RestoredIsTrue
<1>1. StrokeInv => RestoredIsTrue
  BY DEF StrokeInv
<1> QED BY <1>1, StrokeInvariant, PTL

\* ... and a position that was known when the power failed is on the flash:
\* Dev_Param_RodPollSave has run before the capacitors were empty.
THEOREM StrokeKnownIsKept == StrokeSpec => []KnownIsKept
<1>1. StrokeInv => KnownIsKept
  BY DEF StrokeInv
<1> QED BY <1>1, StrokeInvariant, PTL
=============================================================================
