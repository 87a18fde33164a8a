----------------------------- MODULE PowerProofs -----------------------------
(***************************************************************************)
(* The power detectors, for every recovery time, window and mask: no event *)
(* comes too early, and none is missed.                                    *)
(***************************************************************************)
EXTENDS MCPowerSense, TLAPS

CounterTypes == {calm, hot, since} \subseteq 0 .. Horizon

\* A wait has lasted no longer than the voltage has been good.
WaitIsCalm == vm.waiting => vm.fault # 0 /\ calm >= vm.cnt + 1

\* The verdict is the state of the window.
StatusIsWindow == cur.status <=> cur.over >= WindowMs

\* The window has counted all the high current since the mask ended.
WindowCounts ==
  pins # "stop" =>
    IF cur.block > 0 THEN since + cur.block = BlockMs
    ELSE cur.over >= WindowMs \/ cur.over >= hot \/ cur.over + BlockMs >= since

\* ... and nothing else; without a mask it may have begun before the start.
WindowIsHot ==
  /\ cur.over <= hot
  /\ pins # "stop" /\ cur.block = 0 /\ BlockMs # 0 => since >= BlockMs + cur.over

PowerInv ==
  /\ PowerTypeOK /\ CounterTypes
  /\ WaitIsCalm /\ StatusIsWindow /\ WindowCounts /\ WindowIsHot
-----------------------------------------------------------------------------
\* The step of a counter that stops at Horizon.
LEMMA UpRises ==
  ASSUME NEW n \in 0 .. Horizon
  PROVE  /\ Up(n) \in 0 .. Horizon
         /\ Up(n) <= n + 1
         /\ Up(n) >= n
         /\ n < Horizon => Up(n) = n + 1
         /\ n >= Horizon => Up(n) = Horizon
BY PowerConstants DEF Up, Horizon

\* The voltage detector keeps its types, and a wait counts one interrupt.
LEMMA VoltStep ==
  ASSUME NEW d \in VoltData, NEW v \in Zone, d.waiting => d.fault # 0
  PROVE  LET e == BusVoltage_Isr1ms(d, v)
         IN /\ e \in VoltData
            /\ e.waiting => /\ d.fault # 0 /\ e.fault # 0 /\ BackToGood(d.fault, v)
                            /\ e.cnt = 0 \/ (d.waiting /\ e.cnt = d.cnt + 1 /\ e.cnt < RecoverMs)
            /\ e.fault = 0 /\ d.fault # 0 =>
                 BackToGood(d.fault, v) /\ d.waiting /\ d.cnt + 1 >= RecoverMs
<1> DEFINE d1 == [d EXCEPT !.seen = @ \/ v >= Good]
<1>1. d1 \in VoltData /\ d1.fault = d.fault /\ d1.waiting = d.waiting /\ d1.cnt = d.cnt
  <2>1. (d.seen \/ v >= Good) \in BOOLEAN
    BY Zenon
  <2> QED BY <2>1 DEF VoltData
<1>2. BusVoltage_Isr1ms(d, v) = IF d1.fault # 0 THEN VoltRecover(d1, v) ELSE VoltDetect(d1, v)
  BY DEF BusVoltage_Isr1ms
<1> HIDE DEF d1
<1>3. CASE d1.fault = 0
  <2>1. BusVoltage_Isr1ms(d, v) = VoltDetect(d1, v)
    BY <1>2, <1>3
  <2> DEFINE f == IF v = 5 THEN 2 ELSE IF v = 1 THEN 1 ELSE 0
  <2>2. VoltDetect(d1, v) = [fault |-> f, waiting |-> d1.waiting, cnt |-> d1.cnt, seen |-> d1.seen]
    BY <1>1 DEF VoltDetect, VoltData
  <2>3. f \in VoltFault
    BY DEF VoltFault
  <2> QED BY <1>1, <1>3, <2>1, <2>2, <2>3 DEF VoltData
<1>4. CASE d1.fault # 0
  <2>1. BusVoltage_Isr1ms(d, v) = VoltRecover(d1, v)
    BY <1>2, <1>4
  <2>2. CASE ~ BackToGood(d.fault, v)
    <3>1. VoltRecover(d1, v) = [fault |-> d1.fault, waiting |-> FALSE, cnt |-> 0, seen |-> d1.seen]
      BY <1>1, <2>2 DEF VoltRecover, VoltData
    <3> QED BY <1>1, <1>4, <2>1, <3>1, PowerConstants DEF VoltData
  <2>3. CASE BackToGood(d.fault, v) /\ ~ d.waiting
    <3>1. VoltRecover(d1, v) = [fault |-> d1.fault, waiting |-> TRUE, cnt |-> 0, seen |-> d1.seen]
      BY <1>1, <2>3 DEF VoltRecover, VoltData
    <3> QED BY <1>1, <1>4, <2>1, <2>3, <3>1, PowerConstants DEF VoltData
  <2>4. CASE BackToGood(d.fault, v) /\ d.waiting /\ d.cnt + 1 >= RecoverMs
    BY <1>1, <1>4, <2>1, <2>4, PowerConstants DEF VoltRecover, VoltReset, VoltData, VoltFault
  <2>5. CASE BackToGood(d.fault, v) /\ d.waiting /\ d.cnt + 1 < RecoverMs
    BY <1>1, <1>4, <2>1, <2>5, PowerConstants DEF VoltRecover, VoltData
  <2> QED BY <2>2, <2>3, <2>4, <2>5, PowerConstants DEF VoltData
<1> QED BY <1>1, <1>3, <1>4 DEF VoltData, VoltFault

\* The current detector: masked, or one more high sample, or a fresh window.
LEMMA CurStep ==
  ASSUME NEW c \in CurData, NEW high \in BOOLEAN
  PROVE  LET d == CurrentSensor_Isr1ms(c, high)
         IN /\ d \in CurData
            /\ d.status <=> d.over >= WindowMs
            /\ c.block > 0 => d.over = 0 /\ d.block = c.block - 1
            /\ c.block = 0 /\ high => d.block = 0 /\ d.over = IF c.over < WindowMs THEN c.over + 1 ELSE c.over
            /\ c.block = 0 /\ ~ high => d.block = 0 /\ d.over = 0
<1> DEFINE n == IF high THEN (IF c.over < WindowMs THEN c.over + 1 ELSE c.over) ELSE 0
<1>1. n \in 0 .. WindowMs
  BY PowerConstants DEF CurData
<1>2. CASE c.block # 0
  BY <1>2, PowerConstants DEF CurrentSensor_Isr1ms, CurData
<1>3. CASE c.block = 0
  <2>1. CurrentSensor_Isr1ms(c, high) = [status |-> n >= WindowMs, over |-> n, block |-> 0]
    BY <1>3 DEF CurrentSensor_Isr1ms, CurData
  <2>2. (n >= WindowMs) \in BOOLEAN
    BY <1>1, PowerConstants
  <2>3. (high => n = IF c.over < WindowMs THEN c.over + 1 ELSE c.over) /\ (~ high => n = 0)
    OBVIOUS
  <2> HIDE DEF n
  <2>4. CurrentSensor_Isr1ms(c, high) \in CurData
    BY <1>1, <2>1, <2>2, PowerConstants DEF CurData
  <2> DEFINE d == CurrentSensor_Isr1ms(c, high)
  <2>5. d.over = n /\ d.block = 0 /\ d.status = (n >= WindowMs)
    BY <2>1
  <2>6. d.status <=> d.over >= WindowMs
    BY <2>5
  <2> HIDE DEF d
  <2>7. /\ d.over = n /\ d.block = 0
        /\ c.block > 0 => d.over = 0 /\ d.block = c.block - 1
    BY <1>3, <2>5, <2>6
  <2> QED BY <1>3, <2>3, <2>4, <2>6, <2>7 DEF d
<1> QED BY <1>2, <1>3 DEF CurData

\* What the pins get is a setting of the pins, and a stop stays a stop.
LEMMA PhysicalIsPins ==
  ASSUME NEW dir \in Pins
  PROVE  Physical(dir) \in Pins /\ (Physical(dir) = "stop" <=> dir = "stop")
BY DEF Physical, Pins

\* The invariant holds at power-up.
LEMMA PowerInitInv == MCInit => PowerInv
<1> SUFFICES ASSUME MCInit PROVE PowerInv
  OBVIOUS
<1>1. vm \in VoltData /\ cur \in CurData
  BY PowerConstants DEF MCInit, PowerInit, CurReset, VoltData, VoltFault, CurData
<1>2. PowerTypeOK /\ CounterTypes
  BY <1>1, PowerConstants DEF MCInit, PowerInit, PowerTypeOK, Pins, CounterTypes, Horizon
<1>3. WaitIsCalm /\ WindowCounts
  BY DEF MCInit, PowerInit, WaitIsCalm, WindowCounts
<1>4. StatusIsWindow /\ WindowIsHot
  BY PowerConstants DEF MCInit, PowerInit, CurReset, StatusIsWindow, WindowIsHot
<1> QED BY <1>2, <1>3, <1>4 DEF PowerInv

\* One interrupt: what the counters say of the wait and of the window goes on
\* being true, and what is sent was earned.
LEMMA IsrInv ==
  ASSUME PowerInv, Isr
  PROVE  /\ PowerInv'
         /\ NormalNeedsCalm'
         /\ BlockMs # 0 => OverCurrentNeedsTime'
<1>1. PICK v \in Zone, high \in BOOLEAN :
        /\ Dev_Power_Isr1ms(v, high)
        /\ calm' = IF vm.fault # 0 /\ BackToGood(vm.fault, v) THEN Up(calm) ELSE 0
        /\ hot' = IF high THEN Up(hot) ELSE 0
        /\ since' = Up(since)
        /\ past' = VoltEvents(vm, vm') \cup CurEvents(cur, cur')
  BY DEF Isr
<1>2. vm \in VoltData /\ cur \in CurData /\ pins \in Pins /\ pins' = pins
  BY <1>1 DEF PowerInv, PowerTypeOK, Dev_Power_Isr1ms
<1>3. vm' = BusVoltage_Isr1ms(vm, v) /\ cur' = CurrentSensor_Isr1ms(cur, high)
  BY <1>1 DEF Dev_Power_Isr1ms
<1>4. vm.waiting => vm.fault # 0
  BY DEF PowerInv, WaitIsCalm
<1>5. /\ vm' \in VoltData
      /\ vm'.waiting => /\ vm.fault # 0 /\ vm'.fault # 0 /\ BackToGood(vm.fault, v)
                        /\ vm'.cnt = 0 \/ (vm.waiting /\ vm'.cnt = vm.cnt + 1 /\ vm'.cnt < RecoverMs)
      /\ vm'.fault = 0 /\ vm.fault # 0 =>
           BackToGood(vm.fault, v) /\ vm.waiting /\ vm.cnt + 1 >= RecoverMs
  BY <1>2, <1>3, <1>4, VoltStep
<1>6. /\ cur' \in CurData
      /\ cur'.status <=> cur'.over >= WindowMs
      /\ cur.block > 0 => cur'.over = 0 /\ cur'.block = cur.block - 1
      /\ cur.block = 0 /\ high =>
           cur'.block = 0 /\ cur'.over = IF cur.over < WindowMs THEN cur.over + 1 ELSE cur.over
      /\ cur.block = 0 /\ ~ high => cur'.block = 0 /\ cur'.over = 0
  BY <1>2, <1>3, CurStep
<1>7. {calm, hot, since} \subseteq 0 .. Horizon
  BY DEF PowerInv, CounterTypes
<1>8. Horizon \in Nat /\ Horizon >= BlockMs + WindowMs /\ Horizon >= RecoverMs + 2
  BY PowerConstants DEF Horizon
<1>9. PowerTypeOK' /\ CounterTypes'
  <2>1. {calm', hot', since'} \subseteq 0 .. Horizon
    BY <1>1, <1>7, <1>8, UpRises
  <2> QED BY <1>2, <1>5, <1>6, <2>1 DEF PowerTypeOK, CounterTypes, Horizon
<1>10. vm.waiting => calm >= vm.cnt + 1
  BY DEF PowerInv, WaitIsCalm
<1>11. WaitIsCalm'
  <2> SUFFICES ASSUME vm'.waiting PROVE vm'.fault # 0 /\ calm' >= vm'.cnt + 1
    BY DEF WaitIsCalm
  <2>1. calm' = Up(calm)
    BY <1>1, <1>5
  <2>2. calm \in 0 .. Horizon /\ vm.cnt \in 0 .. RecoverMs
    BY <1>2, <1>7 DEF VoltData
  <2> QED BY <1>5, <1>8, <1>10, <2>1, <2>2, UpRises, PowerConstants
<1>12. NormalNeedsCalm'
  <2> SUFFICES ASSUME "VOLT_NORMAL" \in past' PROVE calm' >= RecoverMs + 1
    BY DEF NormalNeedsCalm
  <2>1. vm'.fault = 0 /\ vm.fault # 0
    BY <1>1, <1>2, <1>5 DEF VoltEvents, CurEvents, VoltData, VoltFault
  <2>2. calm' = Up(calm) /\ calm >= vm.cnt + 1 /\ vm.cnt + 1 >= RecoverMs
    BY <1>1, <1>5, <1>10, <2>1
  <2>3. calm \in 0 .. Horizon /\ vm.cnt \in 0 .. RecoverMs
    BY <1>2, <1>7 DEF VoltData
  <2> QED BY <1>8, <2>2, <2>3, UpRises, PowerConstants
<1>13. StatusIsWindow'
  BY <1>6 DEF StatusIsWindow
<1>14. /\ hot \in 0 .. Horizon /\ since \in 0 .. Horizon
       /\ cur.over \in 0 .. WindowMs /\ cur.block \in 0 .. BlockMs
  BY <1>2, <1>7 DEF CurData
<1>15. /\ Up(hot) >= hot /\ Up(since) >= since
       /\ hot < Horizon => Up(hot) = hot + 1
       /\ since < Horizon => Up(since) = since + 1
       /\ Up(hot) <= hot + 1 /\ Up(since) <= since + 1
       /\ Up(hot) \in Nat /\ Up(since) \in Nat
  BY <1>14, <1>8, UpRises
<1>16. WindowCounts'
  <2> SUFFICES ASSUME pins # "stop"
               PROVE  IF cur'.block > 0 THEN since' + cur'.block = BlockMs
                      ELSE cur'.over >= WindowMs \/ cur'.over >= hot' \/ cur'.over + BlockMs >= since'
    BY <1>2 DEF WindowCounts
  <2>1. CASE cur.block > 0
    <3>1. since + cur.block = BlockMs
      BY <2>1 DEF PowerInv, WindowCounts
    <3> QED BY <1>1, <1>6, <1>8, <1>14, <1>15, <2>1, <3>1, PowerConstants
  <2>2. CASE cur.block = 0
    <3>1. cur.over >= WindowMs \/ cur.over >= hot \/ cur.over + BlockMs >= since
      BY <2>2 DEF PowerInv, WindowCounts
    <3>2. CASE high
      BY <1>1, <1>6, <1>8, <1>14, <1>15, <2>2, <3>1, <3>2, PowerConstants
    <3>3. CASE ~ high
      BY <1>1, <1>6, <2>2, <3>3
    <3> QED BY <3>2, <3>3
  <2> QED BY <1>14, <2>1, <2>2, PowerConstants
<1>17. WindowIsHot'
  <2>1. cur.over <= hot
    BY DEF PowerInv, WindowIsHot
  <2>2. cur'.over <= hot'
    BY <1>1, <1>6, <1>8, <1>14, <1>15, <2>1, PowerConstants
  <2>3. ASSUME pins # "stop", cur'.block = 0, BlockMs # 0
        PROVE  since' >= BlockMs + cur'.over
    <3>1. CASE cur.block > 0
      <4>1. since + cur.block = BlockMs
        BY <2>3, <3>1 DEF PowerInv, WindowCounts
      <4> QED BY <1>1, <1>6, <1>8, <1>14, <1>15, <2>3, <3>1, <4>1, PowerConstants
    <3>2. CASE cur.block = 0
      <4>1. since >= BlockMs + cur.over
        BY <2>3, <3>2 DEF PowerInv, WindowIsHot
      <4> QED BY <1>1, <1>6, <1>8, <1>14, <1>15, <3>2, <4>1, PowerConstants
    <3> QED BY <1>14, <3>1, <3>2, PowerConstants
  <2> QED BY <1>2, <2>2, <2>3 DEF WindowIsHot
<1>18. BlockMs # 0 => OverCurrentNeedsTime'
  <2> SUFFICES ASSUME BlockMs # 0, "OVER_CURRENT" \in past'
               PROVE  hot' >= WindowMs /\ (pins # "stop" => since' >= BlockMs + WindowMs)
    BY <1>2 DEF OverCurrentNeedsTime
  <2>1. cur'.status
    BY <1>1 DEF VoltEvents, CurEvents
  <2>2. cur'.over >= WindowMs
    BY <1>6, <2>1
  <2>3. cur'.block = 0 /\ cur'.over = WindowMs
    BY <1>6, <1>14, <2>2, PowerConstants DEF CurData
  <2>4. hot' \in 0 .. Horizon /\ since' \in 0 .. Horizon
    BY <1>9 DEF CounterTypes, Horizon
  <2> QED BY <1>2, <1>17, <2>3, <2>4, PowerConstants DEF WindowIsHot
<1> QED BY <1>9, <1>11, <1>12, <1>13, <1>16, <1>17, <1>18 DEF PowerInv

\* A write of the pins starts the mask with every start and reversal.
LEMMA WriteInv ==
  ASSUME PowerInv, Write
  PROVE  PowerInv'
<1>1. PICK dir \in Pins :
        /\ MotorGpio_WritePair(dir)
        /\ since' = IF dir # "stop" /\ pins' # pins THEN 0 ELSE since
        /\ UNCHANGED <<vm, calm, hot>>
  BY DEF Write
<1>2. pins' = Physical(dir) /\ pins' \in Pins /\ (pins' = "stop" <=> dir = "stop")
  BY <1>1, PhysicalIsPins DEF MotorGpio_WritePair
<1>3. cur \in CurData /\ cur.over \in 0 .. WindowMs /\ cur.block \in 0 .. BlockMs
  BY DEF PowerInv, PowerTypeOK, CurData
<1>4. /\ cur' \in CurData /\ cur'.over = cur.over /\ cur'.status = cur.status
      /\ cur'.block = IF dir # "stop" /\ pins' # pins /\ BlockMs # 0 THEN BlockMs ELSE cur.block
  BY <1>1, <1>2, <1>3, PowerConstants DEF MotorGpio_WritePair, CurData
<1>5. {calm, hot, since} \subseteq 0 .. Horizon
  BY DEF PowerInv, CounterTypes
<1>6. PowerTypeOK' /\ CounterTypes'
  <2>0. Horizon \in Nat
    BY PowerConstants DEF Horizon
  <2>1. since' \in 0 .. Horizon
    <3>1. since' = 0 \/ since' = since
      BY <1>1
    <3> QED BY <1>5, <2>0, <3>1
  <2> QED BY <1>1, <1>2, <1>4, <1>5, <2>1 DEF PowerInv, PowerTypeOK, CounterTypes, Horizon
<1>7. WaitIsCalm' /\ StatusIsWindow'
  BY <1>1, <1>4 DEF PowerInv, WaitIsCalm, StatusIsWindow
<1>8. WindowCounts'
  <2> SUFFICES ASSUME pins' # "stop"
               PROVE  IF cur'.block > 0 THEN since' + cur'.block = BlockMs
                      ELSE cur'.over >= WindowMs \/ cur'.over >= hot' \/ cur'.over + BlockMs >= since'
    BY DEF WindowCounts
  <2>1. CASE pins' # pins
    BY <1>1, <1>2, <1>3, <1>4, <2>1, PowerConstants
  <2>2. CASE pins' = pins
    BY <1>1, <1>4, <2>2 DEF PowerInv, WindowCounts
  <2> QED BY <2>1, <2>2
<1>9. WindowIsHot'
  <2>1. CASE pins' # pins /\ pins' # "stop"
    BY <1>1, <1>2, <1>4, <2>1, PowerConstants DEF PowerInv, WindowIsHot
  <2>2. CASE pins' = pins \/ pins' = "stop"
    BY <1>1, <1>2, <1>4, <2>2 DEF PowerInv, WindowIsHot
  <2> QED BY <2>1, <2>2
<1> QED BY <1>6, <1>7, <1>8, <1>9 DEF PowerInv

\* Both detectors start afresh with the motor braked.
LEMMA ResetInv ==
  ASSUME PowerInv, Reset
  PROVE  PowerInv'
<1>1. vm' = VoltReset(vm) /\ cur' = CurReset /\ pins = "stop" /\ calm' = 0
      /\ UNCHANGED <<pins, hot, since>>
  BY DEF Reset, BusVoltage_Init, CurrentSensor_Init
<1>2. vm' \in VoltData /\ cur' \in CurData
  BY <1>1, PowerConstants DEF PowerInv, PowerTypeOK, VoltReset, CurReset, VoltData, VoltFault, CurData
<1>3. {calm', hot', since'} \subseteq 0 .. Horizon /\ hot \in 0 .. Horizon
  BY <1>1, PowerConstants DEF PowerInv, CounterTypes, Horizon
<1>4. PowerTypeOK' /\ CounterTypes'
  BY <1>1, <1>2, <1>3 DEF PowerInv, PowerTypeOK, CounterTypes, Horizon
<1>5. WaitIsCalm' /\ WindowCounts'
  BY <1>1 DEF VoltReset, WaitIsCalm, WindowCounts
<1>6. StatusIsWindow' /\ WindowIsHot'
  BY <1>1, <1>3, PowerConstants DEF CurReset, StatusIsWindow, WindowIsHot, Horizon
<1> QED BY <1>4, <1>5, <1>6 DEF PowerInv

\* The other steps leave the detectors alone.
LEMMA RestInv ==
  ASSUME PowerInv, Receive \/ UNCHANGED mcVars
  PROVE  PowerInv'
BY DEF Receive, mcVars, PowerInv, PowerTypeOK, CounterTypes, Horizon, WaitIsCalm, StatusIsWindow,
       WindowCounts, WindowIsHot

\* Every interrupt and every output command keeps it.
LEMMA PowerNextInv == PowerInv /\ [MCNext]_mcVars => PowerInv'
BY IsrInv, WriteInv, ResetInv, RestInv DEF MCNext

\* The inductive invariant, for every recovery time, window and mask.
THEOREM PowerInvariant == MCSpec => []PowerInv
BY PowerInitInv, PowerNextInv, PTL DEF MCSpec

\* The detectors' variables have their types.
THEOREM PowerTypeCorrect == MCSpec => []PowerTypeOK
<1>1. PowerInv => PowerTypeOK
  BY DEF PowerInv
<1> QED BY <1>1, PowerInvariant, PTL

\* VOLT_NORMAL is never sent before the voltage has been good for recover_ms.
THEOREM PowerNormalNeedsCalm == MCSpec => []NormalNeedsCalm
<1>1. MCInit => NormalNeedsCalm
  BY DEF MCInit, NormalNeedsCalm
<1>2. PowerInv /\ NormalNeedsCalm /\ [MCNext]_mcVars => NormalNeedsCalm'
  <2> SUFFICES ASSUME PowerInv, NormalNeedsCalm, [MCNext]_mcVars PROVE NormalNeedsCalm'
    OBVIOUS
  <2>1. CASE Isr
    BY <2>1, IsrInv
  <2>2. CASE Write \/ Reset \/ Receive
    BY <2>2 DEF Write, Reset, Receive, NormalNeedsCalm
  <2>3. CASE UNCHANGED mcVars
    BY <2>3 DEF mcVars, NormalNeedsCalm
  <2> QED BY <2>1, <2>2, <2>3 DEF MCNext
<1> QED BY <1>1, <1>2, PowerInvariant, PTL DEF MCSpec

\* An over-current needs window_ms of high current, and a motor that has just
\* started needs its mask before, if there is a mask at all.
THEOREM PowerOverCurrentNeedsTime ==
  ASSUME BlockMs # 0
  PROVE  MCSpec => []OverCurrentNeedsTime
<1>1. MCInit => OverCurrentNeedsTime
  BY DEF MCInit, OverCurrentNeedsTime
<1>2. PowerInv /\ OverCurrentNeedsTime /\ [MCNext]_mcVars => OverCurrentNeedsTime'
  <2> SUFFICES ASSUME PowerInv, OverCurrentNeedsTime, [MCNext]_mcVars PROVE OverCurrentNeedsTime'
    OBVIOUS
  <2>1. CASE Isr
    BY <2>1, IsrInv
  <2>2. CASE Write \/ Reset \/ Receive
    BY <2>2 DEF Write, Reset, Receive, OverCurrentNeedsTime
  <2>3. CASE UNCHANGED mcVars
    BY <2>3 DEF mcVars, OverCurrentNeedsTime
  <2> QED BY <2>1, <2>2, <2>3 DEF MCNext
<1> QED BY <1>1, <1>2, PowerInvariant, PTL DEF MCSpec

\* A high current that outlasts mask and window is always reported.
THEOREM PowerHighCurrentReported == MCSpec => []HighCurrentReported
<1>1. PowerInv => HighCurrentReported
  <2> SUFFICES ASSUME PowerInv, hot >= BlockMs + WindowMs, pins # "stop",
                      since >= BlockMs + WindowMs
               PROVE  cur.status
    BY DEF HighCurrentReported
  <2>1. /\ hot \in Nat /\ since \in Nat
        /\ cur.over \in 0 .. WindowMs /\ cur.block \in 0 .. BlockMs
    BY PowerConstants DEF PowerInv, PowerTypeOK, CounterTypes, CurData, Horizon
  <2>2. cur.over >= WindowMs
    BY <2>1, PowerConstants DEF PowerInv, WindowCounts
  <2> QED BY <2>2 DEF PowerInv, StatusIsWindow
<1> QED BY <1>1, PowerInvariant, PTL
=============================================================================
