---------------------------- MODULE SysRunProofs ----------------------------
(***************************************************************************)
(* What the system state machine of dev_state.c does with the faults, the  *)
(* supply polarity and the motor while nobody types commands at the shell: *)
(* the phases of a fault and its recovery, as an inductive invariant.      *)
(***************************************************************************)
EXTENDS SysProofs

\* The arbiter as the rest of the system uses it: sys_sm posts stops only,
\* and a run command in the queue asks for the polarity seen last.
PostsStop == \A i \in DOMAIN todo : todo[i].do = "post" => todo[i].msg.verb \in {"CLEAR_ALLOW", "EMERGENCY_STOP"}
QueuedStops ==
  mq = <<>> \/ Head(mq).verb \in {"CLEAR_ALLOW", "EMERGENCY_STOP"} \/ (pol \in Dir /\ mq = <<RunMsg(pol)>>)

\* While the modules are initialised nothing is queued or about to be.
InitQuiet == Initialising => mq = <<>> /\ \A i \in DOMAIN todo : todo[i].do # "post"

\* The arbiter is initialised after the polarity.
InitOrder ==
  \A i \in DOMAIN todo : todo[i] = Init("pol") =>
    \E j \in DOMAIN todo : i < j /\ todo[j] = Init("act")

\* Nobody blocks a direction; the only run commands are those of the two
\* power devices on the main axis, each in its direction.
PowerOf(dir) == IF dir = "fwd" THEN PowerPos ELSE PowerNeg
PowerData(d) ==
  \A dir \in Dir :
    d.block[dir] = <<>> /\ \A e \in Device : Holds(d.allow[dir], e) => e = PowerOf(dir)
PowerOnly ==
  \A a \in Axis : PowerData(arb[a]) /\ (a # MainAxis => \A dir \in Dir : arb[a].allow[dir] = <<>>)

\* A run command against the polarity is about to be withdrawn.
FollowsPolarity ==
  \A dir \in Dir : arb[MainAxis].allow[dir] # <<>> =>
    \/ pol = dir \/ pol = "unpowered"
    \/ pol = Opposite(dir) /\ mq = <<RunMsg(pol)>>
    \/ pol = "unknown" /\ Pending(Init("act"))

ArbUse == PostsStop /\ QueuedStops /\ InitQuiet /\ InitOrder /\ PowerOnly /\ FollowsPolarity

\* A reversal of the supply after an over-current is still to be handled.
ReversalSeen ==
  "over_current" \in fault_bits =>
    /\ overcur_dir \in Dir
    /\ \/ pol # Opposite(overcur_dir)
       \/ "POLARITY_CHG" \in sys_evt \/ Pending(Bit("POLARITY_CHG"))

\* The bits that are sent without a hand on the shell, once started.
Ordinary ==
  {"OVER_CURRENT", "VOLT_OVER", "VOLT_UNDER", "VOLT_NORMAL", "VOLT_RECOVER_WAIT", "POLARITY_CHG"}

\* todo: some calls, then the events given and none else, then ordinary bits.
OrdinaryBits == \A i \in DOMAIN todo : todo[i].do = "bit" => todo[i].evt \in Ordinary
NoEvent == \A i \in DOMAIN todo : todo[i].do # "event"
OneEvent(e) ==
  \E k \in DOMAIN todo : todo[k] = Send(e) /\ \A i \in DOMAIN todo : todo[i].do = "event" => i = k
TwoEvents(e, f) ==
  \E k \in DOMAIN todo :
    /\ todo[k] = Send(e) /\ k + 1 \in DOMAIN todo /\ todo[k + 1] = Send(f)
    /\ \A i \in DOMAIN todo : todo[i].do = "event" => i \in {k, k + 1}

\* Power-up: the two bits that start the machine are on their way, or the
\* first has entered IDLE and the second waits behind the initialisation.
PowerUp ==
  /\ sm = "INIT" /\ ~ hw_started /\ mq = <<>> /\ pins = "stop"
  /\ \/ todo = <<>> /\ sys_evt = {"INIT_DONE", "CMD_WORK_ENABLE"}
     \/ /\ sys_evt = {} /\ Len(todo) = 2
        /\ todo[1] \in {Bit("INIT_DONE"), Send("INIT_DONE")}
        /\ todo[2] = Bit("CMD_WORK_ENABLE")
Starting ==
  /\ sm = "IDLE" /\ sys_evt \subseteq Ordinary
  /\ \E k \in DOMAIN todo :
       /\ todo[k] = Bit("CMD_WORK_ENABLE")
       /\ \A i \in DOMAIN todo : i # k => todo[i].do \in {"init", "start"}

\* Afterwards: at work, or in a fault, or on the way from one to the other.
Striking == {"OVER_CURRENT", "VOLT_OVER", "VOLT_UNDER"}
Faulty == fault_bits # {} /\ prev_state = "RUN"
Sound == fault_bits = {}

AtWork == Sound /\ sm = "RUN" /\ NoEvent
InFault == Faulty /\ sm = "FAULT" /\ NoEvent
Struck == Faulty /\ sm \in {"RUN", "FAULT"} /\ \E e \in Striking : OneEvent(e)
Stopping == Faulty /\ sm = "EMERGENCY" /\ OneEvent("FAULT")
Recovering == Sound /\ sm \in {"FAULT", "RUN"} /\ TwoEvents("RECOVERY", "CMD_WORK_ENABLE")
Calm == Sound /\ sm = "RUN" /\ OneEvent("RECOVERY")
Resuming == Sound /\ sm \in {"IDLE", "RUN"} /\ OneEvent("CMD_WORK_ENABLE")

Boot == Sound /\ (PowerUp \/ Starting)
Service ==
  /\ sys_evt \subseteq Ordinary /\ OrdinaryBits
  /\ AtWork \/ InFault \/ Struck \/ Stopping \/ Recovering \/ Calm \/ Resuming
Phase == Boot \/ Service

\* A voltage fault is on its way to the state table.
VoltComing ==
  \E e \in {"VOLT_OVER", "VOLT_UNDER"} : e \in sys_evt \/ Pending(Bit(e)) \/ Pending(Send(e))
Down == sm \in {"EMERGENCY", "FAULT"}

\* The detector's fault is known, or coming, or about to be forgotten; a lost
\* supply goes with a voltage fault.
Known(m) == VoltComing \/ Down \/ Pending(Init(m))
VoltKnown ==
  /\ ~ hw_started => vm.fault = 0
  /\ vm.fault # 0 => Known("vm")
UnpoweredKnown == pol = "unpowered" => Known("pol")

\* The motor turns as the polarity asks, or is about to, or is being stopped.
Driving ==
  pins # "stop" =>
    /\ ~ Initialising
    /\ \/ pol \in Dir /\ pins = Physical(pol)
       \/ pol \in Dir /\ mq = <<RunMsg(pol)>>
       \/ pol = "unpowered" \/ Down

HandsOff == hand = 0 => Phase /\ VoltKnown /\ UnpoweredKnown /\ Driving

RunInv == SysInv /\ ArbUse /\ ReversalSeen /\ HandsOff

-----------------------------------------------------------------------------
(* The arbiter with power commands only *)

\* A queue that holds no device is empty.
LEMMA HoldsNobody ==
  ASSUME NEW q \in Seq(Record), \A e \in Device : ~ Holds(q, e)
  PROVE  q = <<>>
<1>1. Len(q) \in Nat /\ DOMAIN q = 1 .. Len(q)
  BY LenProperties
<1>2. ASSUME Len(q) # 0 PROVE FALSE
  <2>1. 1 \in 1 .. Len(q)
    BY <1>1, <1>2
  <2>2. q[1] \in Record
    BY <2>1, QueuedRecord
  <2>3. q[1].device \in Device /\ Holds(q, q[1].device)
    BY <1>1, <2>1, <2>2 DEF Record, Holds
  <2> QED BY <2>3
<1> QED BY <1>2, EmptySeq

\* The device of the decision's direction has a command there.
LEMMA DecisionFollows ==
  ASSUME NEW d, DataInv(d)
  PROVE  LET e == Arb_Decision(d)
         IN /\ DataInv(e) /\ e.block = d.block /\ e.allow = d.allow
            /\ e.active_dir \in Dir => e.allow[e.active_dir] # <<>>
            /\ e.active_dir \in Dir \cup {"none"}
<1> DEFINE e == Arb_Decision(d)
<1>1. /\ DataInv(e) /\ e.block = d.block /\ e.allow = d.allow
      /\ e.active_dir \in Dir => Holds(e.allow[e.active_dir], e.active_device)
  BY DecisionOK
<1> HIDE DEF e
<1>2. e.active_dir \in Dir \cup {"none"}
  BY <1>1 DEF DataInv, ArbData
<1> QED BY <1>1, <1>2, EmptyQueueOK DEF e

\* A stop only withdraws run commands.
LEMMA StopTurn ==
  ASSUME NEW d, DataInv(d), PowerData(d), NEW m \in Msg, m.verb \in {"CLEAR_ALLOW", "EMERGENCY_STOP"}
  PROVE  LET e == Arb_Decision(Arb_ProcessMessage(d, m))
         IN PowerData(e) /\ \A x \in Dir : e.allow[x] \in {<<>>, d.allow[x]}
<1> DEFINE p == Arb_ProcessMessage(d, m)
           e == Arb_Decision(p)
<1>1. d \in ArbData /\ m.dir \in Dir
  BY RecordOfMsg DEF DataInv
<1>2. Arb_RemoveOppositePowerAllow(d, m) = d
  BY DEF Arb_RemoveOppositePowerAllow
<1>3. p.block = d.block /\ \A x \in Dir : p.allow[x] \in {<<>>, d.allow[x]}
  <2>1. CASE m.verb = "CLEAR_ALLOW"
    <3>1. p = [d EXCEPT !.allow[m.dir] = <<>>]
      BY <1>2, <2>1 DEF Arb_ProcessMessage
    <3> QED BY <1>1, <3>1 DEF ArbData
  <2>2. CASE m.verb = "EMERGENCY_STOP"
    <3>1. p = [d EXCEPT !.allow = [x \in Dir |-> <<>>]]
      BY <1>2, <2>2 DEF Arb_ProcessMessage
    <3> QED BY <1>1, <3>1 DEF ArbData
  <2> QED BY <2>1, <2>2
<1>4. e.block = p.block /\ e.allow = p.allow
  BY ProcessMessageOK, DecisionOK
<1> HIDE DEF e, p
<1>5. PowerData(e)
  BY <1>3, <1>4, EmptyQueueOK DEF PowerData
<1> QED BY <1>3, <1>4, <1>5 DEF e, p

\* A run command of one power device leaves none of the other.
LEMMA RunTurn ==
  ASSUME NEW d, DataInv(d), PowerData(d), NEW x \in Dir
  PROVE  LET e == Arb_Decision(Arb_ProcessMessage(d, RunMsg(x)))
         IN PowerData(e) /\ e.allow[Opposite(x)] = <<>>
<1> DEFINE m == RunMsg(x)
           p == Arb_ProcessMessage(d, m)
           e == Arb_Decision(p)
           d1 == Arb_RemoveOppositePowerAllow(d, m)
           o == Opposite(x)
<1>0. m \in Msg /\ m.verb = "RUN" /\ m.dir = x /\ m.device = PowerOf(x) /\ m.axis = MainAxis
  BY MsgOK DEF RunMsg, Cmd, PowerOf
<1>1. d \in ArbData /\ o \in Dir /\ x # o /\ \A y \in Dir : y = x \/ y = o
  BY DEF DataInv, Opposite, Dir
<1>2. PowerPos # PowerNeg /\ PowerOf(x) \in Device /\ PowerOf(o) \in Device
  BY ArbConstants DEF PowerOf
<1> HIDE DEF m
<1>3. d1 = [d EXCEPT !.allow[o] = Arb_CmdListRemove(@, PowerOf(o))]
  BY <1>0, <1>1, <1>2 DEF Arb_RemoveOppositePowerAllow, PowerOf, Opposite, Dir
<1>4. DataInv(d1)
  BY <1>0, RemoveOppositeOK
<1>5. d1.block = d.block /\ d1.allow[x] = d.allow[x] /\ d1.allow[o] = Arb_CmdListRemove(d.allow[o], PowerOf(o))
  BY <1>1, <1>3 DEF ArbData
<1>6. d1.allow[o] = <<>>
  <2>1. QueueOK(d.allow[o]) /\ d1.allow[o] \in Seq(Record)
    BY <1>1, <1>4 DEF DataInv, AllowOK, QueueOK
  <2>2. \A y \in Device : ~ Holds(d1.allow[o], y)
    BY <1>1, <1>5, <2>1, RemoveOK DEF PowerData
  <2> QED BY <2>1, <2>2, HoldsNobody
<1>7. d1.block[x] = <<>> /\ d1.block[o] = <<>>
  BY <1>1, <1>5 DEF PowerData
<1>8. p = RunCommand(d1, m)
  BY <1>0 DEF Arb_ProcessMessage
<1>9. Arb_CmdListRemove(d1.block[x], m.device) = <<>>
  <2>1. <<>> \in Seq(Record) /\ ~ Holds(<<>>, m.device)
    BY EmptyQueueOK DEF QueueOK
  <2>2. \A q \in Seq(Record) : \A y : ~ Holds(q, y) => Arb_CmdListRemove(q, y) = q
    BY RemoveKeeps
  <2> QED BY <1>7, <2>1, <2>2
<1> DEFINE r == RecordOf(m)
           s == Arb_CmdListSetAllow(d1.allow[x], <<>>, r)
<1>10. r \in Record /\ r.device = PowerOf(x) /\ r.dir = x
  BY <1>0, RecordOfMsg DEF RecordOf
<1> HIDE DEF r
<1>11. p = [d1 EXCEPT !.block[x] = <<>>, !.allow[x] = s]
  BY <1>0, <1>8, <1>9 DEF RunCommand, r
<1>12. \A y \in Device : Holds(s, y) => y = PowerOf(x)
  <2>1. AllowOK(d1.allow[x], r.dir)
    BY <1>4, <1>10 DEF DataInv
  <2>2. \A y : Holds(s, y) => Holds(d1.allow[x], y) \/ y = r.device
    BY <1>10, <2>1, SetAllowOK
  <2> QED BY <1>5, <1>10, <2>2 DEF PowerData
<1> HIDE DEF s, d1
<1>13. d1 \in ArbData
  BY <1>4 DEF DataInv
<1>14. /\ p.block[x] = <<>> /\ p.block[o] = <<>> /\ p.allow[x] = s /\ p.allow[o] = <<>>
  BY <1>1, <1>6, <1>7, <1>11, <1>13 DEF ArbData
<1>15. e.block = p.block /\ e.allow = p.allow
  BY <1>0, ProcessMessageOK, DecisionOK
<1> HIDE DEF e, p, o
<1>16. PowerData(e)
  BY <1>1, <1>12, <1>14, <1>15, EmptyQueueOK DEF PowerData
<1> QED BY <1>14, <1>15, <1>16 DEF e, p, o, m

-----------------------------------------------------------------------------
(* How the arbiter is used: every step keeps ArbUse *)

\* Behind an event there are events and bits, behind a bit only bits.
LEMMA BehindEvent ==
  ASSUME TodoOK, todo # <<>>, Head(todo).do \in {"bit", "event"}, NEW k \in DOMAIN todo
  PROVE  todo[k].do \in {"bit", "event"}
<1>1. /\ 1 \in DOMAIN todo /\ Head(todo) = todo[1] /\ DOMAIN todo = 1 .. Len(todo) /\ Len(todo) \in Nat
  BY HeadTailProperties, LenProperties, EmptySeq DEF TodoOK
<1> QED BY <1>1 DEF TodoOK, InOrder

\* What sys_sm has to do outside the initialisation: events, and stops.
StopOps(ops) ==
  \A i \in DOMAIN ops : \/ ops[i].do \in {"event", "enable"}
                        \/ ops[i].do = "post" /\ ops[i].msg.verb \in {"CLEAR_ALLOW", "EMERGENCY_STOP"}

\* sys_sm handles a bit or an event and initialises nothing.
LEMMA ThenUse ==
  ASSUME TodoOK, todo # <<>>, NEW ops \in Seq(Element), Then(ops), ArbUse,
         Head(todo).do \in {"bit", "event"}, UNCHANGED <<arb, mq, pol>>, StopOps(ops)
  PROVE  ArbUse'
<1>0. todo \in Seq(Element)
  BY DEF TodoOK
<1>1. \A i \in DOMAIN todo' :
        \/ todo'[i].do \in {"bit", "event", "enable"}
        \/ todo'[i].do = "post" /\ todo'[i].msg.verb \in {"CLEAR_ALLOW", "EMERGENCY_STOP"}
  BY <1>0, BehindEvent, ThenMoves DEF StopOps
<1>2. ~ Pending(Init("act"))
  <2>1. Init("act").do = "init"
    BY KindsOfElements
  <2> QED BY <2>1, BehindEvent DEF Pending
<1>3. Init("pol").do = "init"
  BY KindsOfElements
<1>4. PostsStop' /\ InitQuiet' /\ InitOrder'
  BY <1>1, <1>3 DEF PostsStop, InitQuiet, Initialising, InitOrder
<1>5. QueuedStops' /\ PowerOnly'
  BY DEF ArbUse, QueuedStops, PowerOnly
<1>6. FollowsPolarity'
  BY <1>2 DEF ArbUse, FollowsPolarity
<1> QED BY <1>4, <1>5, <1>6 DEF ArbUse

\* An event that enters IDLE.
LEMMA IdleUse ==
  ASSUME TodoOK, todo # <<>>, mq = <<>>, Then(sys_enter_idle), ArbUse,
         Head(todo).do = "event", UNCHANGED <<arb, mq, pol>>
  PROVE  ArbUse'
<1> DEFINE f == sys_enter_idle
<1>1. /\ f \in Seq(Element) /\ DOMAIN f = 1 .. 5 /\ f[3] = Init("pol") /\ f[4] = Init("act")
      /\ f[1] = Init("cur") /\ f[2] = Init("vm") /\ f[5] = StartHw
      /\ \A i \in 1 .. 5 : f[i].do \in {"init", "start"}
  BY IdleOpsOK
<1> HIDE DEF f
<1>2. Then(f) /\ todo \in Seq(Element)
  BY DEF f, TodoOK
<1>3. \A i \in DOMAIN todo' : \/ i \in 1 .. 5 /\ todo'[i] = f[i]
                              \/ todo'[i].do \in {"bit", "event"}
  BY <1>1, <1>2, BehindEvent, ThenMoves
<1>4. PostsStop' /\ InitQuiet'
  BY <1>1, <1>3 DEF PostsStop, InitQuiet
<1>5. 4 \in DOMAIN todo' /\ todo'[4] = Init("act")
  <2>1. /\ DOMAIN todo' = 1 .. Len(f) + Len(todo) - 1 /\ Len(todo) \in Nat /\ Len(todo) >= 1
        /\ \A i \in 1 .. Len(f) : todo'[i] = f[i]
        /\ DOMAIN f = 1 .. Len(f) /\ Len(f) \in Nat
    BY <1>1, <1>2, ThenElements
  <2>2. Len(f) = 5
    BY IdleOpsOK DEF f
  <2> QED BY <1>1, <2>1, <2>2
<1>6. InitOrder'
  <2>1. ASSUME NEW i \in DOMAIN todo', todo'[i] = Init("pol") PROVE i < 4
    <3>1. Init("pol").do = "init" /\ Init("pol").module = "pol" /\ Init("act").module = "act" /\ StartHw.do = "start"
      BY KindsOfElements
    <3>2. i \in 1 .. 5 /\ i # 4 /\ i # 5
      BY <1>1, <1>3, <2>1, <3>1
    <3> QED BY <3>2
  <2> QED BY <1>5, <2>1 DEF InitOrder
<1>7. ~ Pending(Init("act"))
  <2>1. Init("act").do = "init"
    BY KindsOfElements
  <2> QED BY <2>1, BehindEvent DEF Pending
<1>8. QueuedStops' /\ PowerOnly' /\ FollowsPolarity'
  BY <1>7 DEF ArbUse, QueuedStops, PowerOnly, FollowsPolarity
<1> QED BY <1>4, <1>6, <1>8 DEF ArbUse

\* What an event of the state table leaves to do.
LEMMA EventOps ==
  ASSUME sm \in State, StateMachine_SendEvent
  PROVE  Then(sys_enter_idle) \/ \E ops \in Seq(Element) : Then(ops) /\ StopOps(ops)
<1>2. CASE Then(<<>>)
  BY <1>2, ShortOps DEF StopOps
<1>3. CASE Then(sys_enter_emergency)
  <2> DEFINE f == sys_enter_emergency
             n == NumAxes
  <2>1. /\ f \in Seq(Element) /\ Len(f) = n + 1 /\ n \in Nat
        /\ \A i \in 1 .. n : \E a \in Axis : f[i] = Post(EStopMsg(a), TRUE)
        /\ f[n + 1] = Send("FAULT")
    BY EmergencyOpsOK, SysConstants
  <2>2. DOMAIN f = 1 .. n + 1
    BY <2>1, LenProperties
  <2> HIDE DEF f, n
  <2>3. ASSUME NEW i \in DOMAIN f
        PROVE  f[i].do = "event" \/ (f[i].do = "post" /\ f[i].msg.verb = "EMERGENCY_STOP")
    <3>1. CASE i = n + 1
      BY <2>1, <3>1, KindsOfElements
    <3>2. CASE i \in 1 .. n
      <4>1. PICK a \in Axis : f[i] = Post(EStopMsg(a), TRUE)
        BY <2>1, <3>2
      <4>2. /\ Post(EStopMsg(a), TRUE).do = "post" /\ Post(EStopMsg(a), TRUE).msg = EStopMsg(a)
            /\ EStopMsg(a).verb = "EMERGENCY_STOP"
        BY KindsOfElements, MsgOK
      <4> QED BY <4>1, <4>2
    <3> QED BY <2>1, <2>2, <3>1, <3>2
  <2>4. Then(f)
    BY <1>3 DEF f
  <2> QED BY <2>1, <2>3, <2>4 DEF StopOps
<1>4. CASE Then(sys_enter_fault)
  <2> DEFINE f == sys_enter_fault
  <2>1. /\ f \in Seq(Element)
        /\ \A i \in DOMAIN f : \E a \in Axis : f[i] = Enable(a, FALSE) \/ f[i] = Post(EStopMsg(a), TRUE)
    BY FaultOpsOK
  <2> HIDE DEF f
  <2>3. ASSUME NEW i \in DOMAIN f
        PROVE  f[i].do = "enable" \/ (f[i].do = "post" /\ f[i].msg.verb = "EMERGENCY_STOP")
    <3>1. PICK a \in Axis : f[i] = Enable(a, FALSE) \/ f[i] = Post(EStopMsg(a), TRUE)
      BY <2>1
    <3>2. /\ Post(EStopMsg(a), TRUE).do = "post" /\ Post(EStopMsg(a), TRUE).msg = EStopMsg(a)
          /\ EStopMsg(a).verb = "EMERGENCY_STOP" /\ Enable(a, FALSE).do = "enable"
      BY KindsOfElements, MsgOK
    <3> QED BY <3>1, <3>2
  <2>4. Then(f)
    BY <1>4 DEF f
  <2> QED BY <2>1, <2>3, <2>4 DEF StopOps
<1> QED BY <1>2, <1>3, <1>4, EventCases

\* Feeding an event to the state table.
LEMMA EventUse ==
  ASSUME TodoOK, sm \in State, ArbUse, StateMachine_SendEvent
  PROVE  ArbUse'
<1>1. todo # <<>> /\ mq = <<>> /\ Head(todo).do = "event" /\ UNCHANGED <<arb, mq, pol>>
  BY EventCases DEF StateMachine_SendEvent, arbVars
<1>2. CASE Then(sys_enter_idle)
  BY <1>1, <1>2, IdleUse
<1>3. ASSUME NEW ops \in Seq(Element), Then(ops), StopOps(ops) PROVE ArbUse'
  BY <1>1, <1>3, ThenUse
<1> QED BY <1>2, <1>3, EventOps

\* What popping the first element does to the invariants about todo.
LEMMA PopUse ==
  ASSUME TodoOK, todo # <<>>, Then(<<>>), PostsStop, InitOrder, InitQuiet
  PROVE  /\ PostsStop' /\ InitOrder'
         /\ Initialising' => Initialising /\ \A i \in DOMAIN todo' : todo'[i].do # "post"
<1>0. todo \in Seq(Element) /\ <<>> \in Seq(Element) /\ DOMAIN <<>> = {} /\ Len(<<>>) = 0
  BY ShortOps DEF TodoOK
<1>1. /\ Len(todo) \in Nat /\ DOMAIN todo = 1 .. Len(todo) /\ DOMAIN todo' = 1 .. Len(todo) - 1
      /\ \A i \in DOMAIN todo' : i + 1 \in DOMAIN todo /\ todo'[i] = todo[i + 1]
  <2>1. /\ Len(todo) \in Nat /\ Len(todo) >= 1 /\ DOMAIN todo = 1 .. Len(todo)
        /\ DOMAIN todo' = 1 .. 0 + Len(todo) - 1
        /\ \A i \in 0 + 1 .. 0 + Len(todo) - 1 : todo'[i] = todo[i - 0 + 1]
    BY <1>0, ThenElements
  <2> QED BY <2>1
<1>2. PostsStop'
  BY <1>1 DEF PostsStop
<1>3. InitOrder'
  <2>1. ASSUME NEW i \in DOMAIN todo', todo'[i] = Init("pol")
        PROVE  \E j \in DOMAIN todo' : i < j /\ todo'[j] = Init("act")
    <3>1. PICK k \in DOMAIN todo : i + 1 < k /\ todo[k] = Init("act")
      BY <1>1, <2>1 DEF InitOrder
    <3>2. k - 1 \in DOMAIN todo' /\ i < k - 1 /\ (k - 1) + 1 = k
      BY <1>1, <3>1
    <3>3. todo'[k - 1] = todo[(k - 1) + 1]
      BY <1>1, <3>2
    <3> QED BY <3>1, <3>2, <3>3
  <2> QED BY <2>1 DEF InitOrder
<1>4. ASSUME Initialising' PROVE Initialising /\ \A i \in DOMAIN todo' : todo'[i].do # "post"
  <2>1. Initialising
    BY <1>1, <1>4 DEF Initialising
  <2> QED BY <1>1, <2>1 DEF InitQuiet
<1> QED BY <1>2, <1>3, <1>4

\* The calls: posting, disabling, initialising, starting the timers.
LEMMA CallUse ==
  ASSUME ArbInv, TodoOK, Obeyed, ArbUse,
         Sys_State_ArbSendCommand \/ Sys_State_SetArbEnable \/ Dev_Registry_InitAll \/ StartHardware
  PROVE  ArbUse'
<1>1. todo # <<>> /\ mq = <<>> /\ Then(<<>>) /\ todo \in Seq(Element)
  BY DEF Sys_State_ArbSendCommand, Sys_State_SetArbEnable, Dev_Registry_InitAll, StartHardware, Do, TodoOK
<1>2. /\ PostsStop' /\ InitOrder'
      /\ Initialising' => Initialising /\ \A i \in DOMAIN todo' : todo'[i].do # "post"
  BY <1>1, PopUse DEF ArbUse
<1>3. Head(todo) \in Element /\ Head(todo) = todo[1] /\ 1 \in DOMAIN todo
  BY <1>1, HeadTailProperties, LenProperties, EmptySeq
<1>4. ASSUME Pending(Init("act")), Head(todo) # Init("act") PROVE Pending(Init("act"))'
  BY <1>1, <1>4, PopMoves
<1>5. Init("act").do = "init" /\ Init("act").module = "act" /\ Init("pol").module = "pol"
  BY KindsOfElements
<1>6. arb \in [Axis -> ArbData] /\ MainAxis \in Axis
  BY SysConstants DEF ArbInv, ArbTypeOK
<1>7. CASE Sys_State_ArbSendCommand
  <2>1. Head(todo).do = "post" /\ UNCHANGED <<arb, pol>> /\ mq' = <<Head(todo).msg>>
    BY <1>7, PostStep DEF Sys_State_ArbSendCommand, Do, Arb_SendCommand
  <2>2. Head(mq').verb \in {"CLEAR_ALLOW", "EMERGENCY_STOP"}
    BY <1>3, <2>1 DEF ArbUse, PostsStop
  <2>3. QueuedStops' /\ PowerOnly'
    BY <2>1, <2>2 DEF ArbUse, QueuedStops, PowerOnly
  <2>4. InitQuiet'
    BY <1>2, <1>3, <2>1 DEF ArbUse, InitQuiet
  <2>5. FollowsPolarity'
    BY <1>1, <1>4, <1>5, <2>1 DEF ArbUse, FollowsPolarity
  <2> QED BY <1>2, <2>3, <2>4, <2>5 DEF ArbUse
<1>8. CASE Sys_State_SetArbEnable
  <2>1. /\ Head(todo).do = "enable" /\ UNCHANGED <<mq, pol>>
        /\ Arb_SetEnable(Head(todo).axis, FALSE) /\ Head(todo).axis \in Axis
    BY <1>8, DisableStep DEF Sys_State_SetArbEnable, Do, Arb_SetEnable
  <2>2. \A b \in Axis : arb'[b].block = arb[b].block /\ arb'[b].allow = arb[b].allow
    BY <1>6, <2>1 DEF Arb_SetEnable, ArbData
  <2>3. QueuedStops' /\ PowerOnly'
    BY <2>1, <2>2 DEF ArbUse, QueuedStops, PowerOnly, PowerData
  <2>4. InitQuiet'
    BY <1>1, <1>2, <2>1 DEF InitQuiet
  <2>5. FollowsPolarity'
    BY <1>1, <1>4, <1>5, <1>6, <2>1, <2>2 DEF ArbUse, FollowsPolarity
  <2> QED BY <1>2, <2>3, <2>4, <2>5 DEF ArbUse
<1>9. CASE Dev_Registry_InitAll
  <2>1. Head(todo).do = "init" /\ UNCHANGED mq /\ QueuedStops' /\ InitQuiet'
    BY <1>1, <1>2, <1>9 DEF Dev_Registry_InitAll, Do, Arb_Module_Init, arbVars, QueuedStops, InitQuiet
  <2>2. CASE Head(todo).module = "act"
    <3>1. arb' = [a \in Axis |-> EmptyData]
      BY <1>9, <2>2 DEF Dev_Registry_InitAll, Arb_Module_Init
    <3>2. \A a \in Axis, x \in Dir : arb'[a].block[x] = <<>> /\ arb'[a].allow[x] = <<>>
      BY <3>1 DEF EmptyData
    <3>3. PowerOnly' /\ FollowsPolarity'
      BY <1>6, <3>2, EmptyQueueOK DEF PowerOnly, PowerData, FollowsPolarity
    <3> QED BY <1>2, <2>1, <3>3 DEF ArbUse
  <2>3. CASE Head(todo).module = "pol"
    <3>1. UNCHANGED arb /\ pol' = "unknown" /\ PowerOnly'
      BY <1>9, <2>3 DEF Dev_Registry_InitAll, arbVars, ArbUse, PowerOnly
    <3>2. Head(todo) = Init("pol")
      BY <1>3, <2>1, <2>3, ElementKinds
    <3>3. Pending(Init("act"))
      BY <1>3, <3>2 DEF ArbUse, InitOrder, Pending
    <3>4. Pending(Init("act"))'
      BY <1>4, <1>5, <3>2, <3>3
    <3>5. FollowsPolarity'
      BY <3>1, <3>4 DEF FollowsPolarity
    <3> QED BY <1>2, <2>1, <3>1, <3>5 DEF ArbUse
  <2>4. CASE Head(todo).module \notin {"act", "pol"}
    <3>1. UNCHANGED <<arb, pol>>
      BY <1>9, <2>4 DEF Dev_Registry_InitAll, arbVars
    <3>2. PowerOnly' /\ FollowsPolarity'
      BY <1>4, <1>5, <2>1, <2>4, <3>1 DEF ArbUse, PowerOnly, FollowsPolarity
    <3> QED BY <1>2, <2>1, <3>2 DEF ArbUse
  <2> QED BY <2>2, <2>3, <2>4
<1>10. CASE StartHardware
  <2>1. Head(todo).do = "start" /\ UNCHANGED <<mq, arb, pol>>
    BY <1>10 DEF StartHardware, Do, arbVars
  <2>2. QueuedStops' /\ PowerOnly' /\ InitQuiet'
    BY <1>1, <1>2, <2>1 DEF ArbUse, QueuedStops, PowerOnly, InitQuiet
  <2>3. FollowsPolarity'
    BY <1>4, <1>5, <2>1 DEF ArbUse, FollowsPolarity
  <2> QED BY <1>2, <2>2, <2>3 DEF ArbUse
<1> QED BY <1>7, <1>8, <1>9, <1>10

\* One turn of the arbitration thread: what it leaves in the queues, and what
\* it asks of the motor.
LEMMA ActUse ==
  ASSUME SysInv, ArbUse, Act
  PROVE  /\ ArbUse' /\ ~ Initialising
         /\ pins' # "stop" => \/ pol \in Dir /\ pins' = Physical(pol)
                              \/ pol = "unpowered"
<1> DEFINE m == Head(mq)
           c == m.axis
           e == Arb_Decision(Arb_ProcessMessage(arb[c], m))
<1>1. /\ mq = <<m>> /\ mq' = <<>> /\ m \in Msg /\ c \in Axis
      /\ \A a \in Axis : a # c => arb'[a] = arb[a]
      /\ arb'[c] = e /\ pins' = Physical(OutputOp(e))
  BY ActStep DEF SysInv
<1>2. UNCHANGED <<todo, pol>> /\ MainAxis \in Axis /\ pol \in Polarity
  BY SysConstants DEF Act, SysInv, SysTypeOK
<1>3. DataInv(arb[c])
  BY <1>1, ArbInvByAxis DEF SysInv, ByAxis
<1>4. ~ Initialising /\ ~ Pending(Init("act"))
  <2>1. ~ Initialising
    BY <1>1 DEF ArbUse, InitQuiet
  <2>2. Init("act").do = "init"
    BY KindsOfElements
  <2> QED BY <2>1, <2>2 DEF Pending, Initialising
<1>5. PostsStop' /\ QueuedStops' /\ InitQuiet' /\ InitOrder'
  BY <1>1, <1>2, <1>4 DEF ArbUse, PostsStop, QueuedStops, InitQuiet, InitOrder, Initialising
<1>6. PowerData(arb[c]) /\ (c # MainAxis => \A dir \in Dir : arb[c].allow[dir] = <<>>)
  BY <1>1 DEF ArbUse, PowerOnly
<1>7. /\ e.active_dir \in Dir \cup {"none"}
      /\ e.active_dir \in Dir => e.allow[e.active_dir] # <<>>
  BY <1>1, <1>3, ProcessMessageOK, DecisionFollows
<1>8. OutputOp(e) = (IF e.active_dir \in Dir THEN e.active_dir ELSE "stop") /\ Physical("stop") = "stop"
  BY <1>7 DEF OutputOp, Physical, Dir
<1> HIDE DEF e
<1>9. CASE m.verb \in {"CLEAR_ALLOW", "EMERGENCY_STOP"}
  <2>1. PowerData(e) /\ \A x \in Dir : e.allow[x] \in {<<>>, arb[c].allow[x]}
    BY <1>1, <1>3, <1>6, <1>9, StopTurn DEF e
  <2>2. PowerOnly'
    BY <1>1, <1>6, <2>1 DEF ArbUse, PowerOnly
  <2>3. \A x \in Dir : arb'[MainAxis].allow[x] # <<>> => arb[MainAxis].allow[x] # <<>>
    BY <1>1, <1>2, <2>1
  <2>4. mq # <<RunMsg(pol)>>
    <3>1. RunMsg(pol).verb = "RUN" /\ <<RunMsg(pol)>>[1] = RunMsg(pol) /\ mq[1] = m
      BY <1>1 DEF RunMsg, Cmd
    <3> QED BY <1>9, <3>1
  <2>5. \A x \in Dir : arb'[MainAxis].allow[x] # <<>> => pol = x \/ pol = "unpowered"
    BY <1>4, <2>3, <2>4 DEF ArbUse, FollowsPolarity
  <2>6. FollowsPolarity'
    BY <1>2, <2>5 DEF FollowsPolarity
  <2>7. ASSUME pins' # "stop" PROVE (pol \in Dir /\ pins' = Physical(pol)) \/ pol = "unpowered"
    <3>1. e.active_dir \in Dir /\ pins' = Physical(e.active_dir) /\ e.allow[e.active_dir] # <<>>
      BY <1>1, <1>7, <1>8, <2>7
    <3>2. c = MainAxis
      BY <1>6, <2>1, <3>1
    <3>3. pol = e.active_dir \/ pol = "unpowered"
      BY <1>1, <2>5, <3>1, <3>2
    <3> QED BY <3>1, <3>3
  <2> QED BY <1>4, <1>5, <2>2, <2>6, <2>7 DEF ArbUse
<1>10. CASE pol \in Dir /\ mq = <<RunMsg(pol)>>
  <2>1. m = RunMsg(pol) /\ c = MainAxis
    <3>1. m = RunMsg(pol)
      BY <1>10
    <3> QED BY <3>1 DEF RunMsg, Cmd
  <2>2. PowerData(e) /\ e.allow[Opposite(pol)] = <<>>
    BY <1>3, <1>6, <1>10, <2>1, RunTurn DEF e
  <2>3. PowerOnly'
    BY <1>1, <2>1, <2>2 DEF ArbUse, PowerOnly
  <2>4. \A x \in Dir : x = pol \/ x = Opposite(pol)
    BY <1>10 DEF Opposite, Dir
  <2>5. \A x \in Dir : arb'[MainAxis].allow[x] # <<>> => pol = x
    BY <1>1, <2>1, <2>2, <2>4
  <2>6. FollowsPolarity'
    BY <1>2, <2>5 DEF FollowsPolarity
  <2>7. ASSUME pins' # "stop" PROVE pins' = Physical(pol)
    <3>1. e.active_dir \in Dir /\ pins' = Physical(e.active_dir) /\ e.allow[e.active_dir] # <<>>
      BY <1>1, <1>7, <1>8, <2>7
    <3> QED BY <1>1, <2>1, <2>5, <3>1
  <2> QED BY <1>4, <1>5, <1>10, <2>3, <2>6, <2>7 DEF ArbUse
<1> QED BY <1>1, <1>9, <1>10 DEF ArbUse, QueuedStops

\* The polarity scan.
LEMMA ScanUse ==
  ASSUME SysInv, ArbUse, Polarity_Scan
  PROVE  ArbUse'
<1>1. /\ mq = <<>> /\ UNCHANGED <<arb, todo>>
      /\ \/ pol' = "unpowered" /\ UNCHANGED mq
         \/ pol' = pin /\ pin \in Dir /\ mq' = <<RunMsg(pin)>>
  BY ScanStep DEF SysInv
<1>2. ~ Initialising
  BY DEF Polarity_Scan
<1>3. PostsStop' /\ InitQuiet' /\ InitOrder' /\ PowerOnly'
  BY <1>1, <1>2 DEF ArbUse, PostsStop, InitQuiet, InitOrder, PowerOnly, Initialising
<1>4. QueuedStops' /\ FollowsPolarity'
  <2>1. CASE pol' = "unpowered" /\ UNCHANGED mq
    BY <1>1, <2>1 DEF QueuedStops, FollowsPolarity
  <2>2. CASE pol' = pin /\ pin \in Dir /\ mq' = <<RunMsg(pin)>>
    <3>1. \A x \in Dir : pol' = x \/ pol' = Opposite(x)
      BY <2>2 DEF Opposite, Dir
    <3> QED BY <2>2, <3>1 DEF QueuedStops, FollowsPolarity
  <2> QED BY <1>1, <2>1, <2>2
<1> QED BY <1>3, <1>4 DEF ArbUse

\* Every step keeps how the arbiter is used.
LEMMA UseStep == SysInv /\ ArbUse /\ [SysNext]_sysVars => ArbUse'
<1> SUFFICES ASSUME SysInv, ArbUse, [SysNext]_sysVars PROVE ArbUse'
  OBVIOUS
<1>1. ArbInv /\ SysTypeOK /\ TodoOK /\ Obeyed /\ sm \in State /\ sys_evt \subseteq EventBit
  BY DEF SysInv, SysTypeOK
<1>2. CASE UNCHANGED <<mq, arb, pol, todo>>
  BY <1>2 DEF ArbUse, PostsStop, QueuedStops, InitQuiet, InitOrder, PowerOnly, FollowsPolarity,
              Initialising, Pending
<1>3. CASE sys_sm_thread_entry
  <2>1. /\ \A i \in DOMAIN todo' : todo'[i].do = "bit"
    BY <1>1, <1>3, TakeStep
  <2>2. UNCHANGED <<mq, arb, pol>> /\ todo = <<>> /\ mq = <<>>
    BY <1>3 DEF sys_sm_thread_entry, arbVars
  <2>3. ~ Pending(Init("act"))
    BY <2>2 DEF Pending
  <2>4. Init("pol").do = "init"
    BY KindsOfElements
  <2>5. PostsStop' /\ InitQuiet' /\ InitOrder'
    BY <2>1, <2>4 DEF PostsStop, InitQuiet, InitOrder, Initialising
  <2>6. QueuedStops' /\ PowerOnly' /\ FollowsPolarity'
    BY <2>2, <2>3 DEF ArbUse, QueuedStops, PowerOnly, FollowsPolarity
  <2> QED BY <2>5, <2>6 DEF ArbUse
<1>4. CASE StateMachine_SendEvent
  BY <1>1, <1>4, EventUse
<1>5. CASE Sys_State_Dispatch
  <2>1. PICK ops \in Seq(Element) : BitOps(ops)
    BY <1>1, <1>5, BitLeaves
  <2>2. todo # <<>> /\ Head(todo).do = "bit" /\ UNCHANGED <<arb, mq, pol>>
    BY <1>1, <1>5, BitLeaves
  <2>3. Then(ops) /\ StopOps(ops)
    BY <2>1 DEF BitOps, StopOps
  <2> QED BY <1>1, <2>2, <2>3, ThenUse
<1>6. CASE Sys_State_ArbSendCommand \/ Sys_State_SetArbEnable \/ Dev_Registry_InitAll \/ StartHardware
  BY <1>1, <1>6, CallUse
<1>7. CASE Act
  BY <1>7, ActUse
<1>8. CASE Polarity_Scan
  BY <1>8, ScanUse
<1>9. CASE PowerIsr \/ cmd_sys_evt \/ Supply \/ UNCHANGED sysVars
  BY <1>2, <1>9 DEF PowerIsr, cmd_sys_evt, Supply, sysVars, arbVars
<1> QED BY <1>3, <1>4, <1>5, <1>6, <1>7, <1>8, <1>9 DEF SysNext, SysSm

-----------------------------------------------------------------------------
(* The reversal that forgives an over-current *)

\* Whatever sys_sm does once it has taken its bits, it does one thing: the
\* others stay to be done.
LEMMA SmKeepsRest ==
  ASSUME TodoOK, sm \in State, SysSm, ~ sys_sm_thread_entry
  PROVE  /\ todo # <<>> /\ mq = <<>>
         /\ \A x : Pending(x) /\ x # Head(todo) => Pending(x)'
<1>1. ASSUME NEW ops \in Seq(Element), Then(ops), todo # <<>>, NEW x, Pending(x), x # Head(todo)
      PROVE  Pending(x)'
  BY <1>1, ThenPending DEF TodoOK
<1>2. ASSUME Then(<<>>), todo # <<>>, NEW x, Pending(x), x # Head(todo) PROVE Pending(x)'
  BY <1>1, <1>2, ShortOps
<1>3. CASE StateMachine_SendEvent
  <2>1. todo # <<>> /\ mq = <<>>
    BY <1>3, EventCases
  <2>2. Then(<<>>) \/ Then(sys_enter_emergency) \/ Then(sys_enter_fault) \/ Then(sys_enter_idle)
    BY <1>3, EventCases
  <2>3. /\ sys_enter_emergency \in Seq(Element) /\ sys_enter_fault \in Seq(Element)
        /\ sys_enter_idle \in Seq(Element)
    BY EmergencyOpsOK, FaultOpsOK, IdleOpsOK
  <2> QED BY <1>1, <1>2, <2>1, <2>2, <2>3
<1>4. CASE Sys_State_Dispatch
  <2>1. PICK ops \in Seq(Element) : BitOps(ops)
    BY <1>4, BitLeaves
  <2>2. todo # <<>> /\ mq = <<>>
    BY <1>4, BitLeaves
  <2> QED BY <1>1, <2>1, <2>2 DEF BitOps
<1>5. CASE Sys_State_ArbSendCommand \/ Sys_State_SetArbEnable \/ Dev_Registry_InitAll \/ StartHardware
  BY <1>2, <1>5 DEF Sys_State_ArbSendCommand, Sys_State_SetArbEnable, Dev_Registry_InitAll,
                    StartHardware, Do
<1> QED BY <1>3, <1>4, <1>5 DEF SysSm

\* Every step keeps a reversal in sight.
LEMMA ReversalStep == SysInv /\ ArbUse /\ ReversalSeen /\ [SysNext]_sysVars => ReversalSeen'
<1> SUFFICES ASSUME SysInv, ArbUse, ReversalSeen, [SysNext]_sysVars, "over_current" \in fault_bits'
             PROVE  ReversalSeen'
  BY DEF ReversalSeen
<1>1. ArbInv /\ SysTypeOK /\ TodoOK /\ Obeyed /\ sm \in State /\ sys_evt \subseteq EventBit
  BY DEF SysInv, SysTypeOK
<1> DEFINE chg == Bit("POLARITY_CHG")
<1>2. /\ chg.do = "bit" /\ chg.evt = "POLARITY_CHG"
      /\ \A x \in Dir \cup {"unknown"} : Opposite(x) \in Dir /\ Opposite(x) # x
      /\ "unknown" \notin Dir /\ "unpowered" \notin Dir
  BY KindsOfElements DEF Opposite, Dir
<1>3. ASSUME UNCHANGED <<fault_bits, overcur_dir, pol>>, sys_evt \subseteq sys_evt' \/ "POLARITY_CHG" \notin sys_evt,
             Pending(chg) => Pending(chg)'
      PROVE  ReversalSeen'
  BY <1>3 DEF ReversalSeen, chg
<1> HIDE DEF chg
<1>4. CASE sys_sm_thread_entry
  <2>1. UNCHANGED <<fault_bits, overcur_dir, pol>> /\ todo = <<>>
    BY <1>4 DEF sys_sm_thread_entry, faultVars
  <2>2. ~ Pending(chg)
    BY <2>1 DEF Pending
  <2>3. "POLARITY_CHG" \in sys_evt => Pending(chg)'
    BY <1>1, <1>4, TakeStep DEF chg
  <2> QED BY <2>1, <2>2, <2>3 DEF ReversalSeen, chg
<1>5. CASE SysSm /\ ~ sys_sm_thread_entry /\ Head(todo).do # "bit"
  <2>1. Pending(chg) => Pending(chg)'
    BY <1>1, <1>2, <1>5, SmKeepsRest
  <2>2. CASE Dev_Registry_InitAll
    <3>1. UNCHANGED <<fault_bits, overcur_dir, sys_evt>> /\ (pol' = "unknown" \/ pol' = pol)
      BY <2>2 DEF Dev_Registry_InitAll, faultVars
    <3> QED BY <1>1, <1>2, <2>1, <3>1 DEF ReversalSeen, chg
  <2>3. CASE Sys_State_Dispatch
    BY <1>1, <1>5, <2>3, BitLeaves
  <2>4. CASE StateMachine_SendEvent \/ Sys_State_ArbSendCommand \/ Sys_State_SetArbEnable \/ StartHardware
    BY <1>3, <2>1, <2>4 DEF StateMachine_SendEvent, Sys_State_ArbSendCommand, Sys_State_SetArbEnable,
                            StartHardware, faultVars, powerVars
  <2> QED BY <1>5, <2>2, <2>3, <2>4 DEF SysSm
<1>6. CASE SysSm /\ ~ sys_sm_thread_entry /\ Head(todo).do = "bit"
  <2>1. Sys_State_Dispatch
    BY <1>6 DEF SysSm, StateMachine_SendEvent, Sys_State_ArbSendCommand, Sys_State_SetArbEnable,
                StartHardware, Dev_Registry_InitAll, Do
  <2>2. UNCHANGED <<pol, sys_evt>> /\ mq = <<>>
    BY <1>1, <2>1, BitLeaves
  <2>3. ASSUME Head(todo).evt # "POLARITY_CHG", Pending(chg) PROVE Pending(chg)'
    BY <1>1, <1>2, <1>6, <2>3, SmKeepsRest
  <2>4. CASE OnOverCurrent
    <3>1. Head(todo).evt = "OVER_CURRENT"
      BY <2>4 DEF OnOverCurrent
    <3>2. CASE UNCHANGED faultVars
      BY <1>3, <2>2, <2>3, <3>1, <3>2 DEF faultVars
    <3>3. CASE arb[MainAxis].active_dir \in Dir /\ overcur_dir' = arb[MainAxis].active_dir
      <4> DEFINE x == arb[MainAxis].active_dir
      <4>1. arb[MainAxis].allow[x] # <<>>
        BY <1>1, <3>3, SysConstants, EmptyQueueOK DEF ArbInv, ActiveIsJustified
      <4>2. pol # Opposite(x)
        BY <1>2, <2>2, <3>3, <4>1 DEF ArbUse, FollowsPolarity
      <4> QED BY <2>2, <3>3, <4>2 DEF ReversalSeen
    <3> QED BY <2>4, <3>2, <3>3 DEF OnOverCurrent
  <2>5. CASE OnPolarityChg
    <3>1. UNCHANGED overcur_dir /\ (~ ("over_current" \in fault_bits /\ Reversed)) /\ UNCHANGED fault_bits
      BY <2>5 DEF OnPolarityChg
    <3>2. overcur_dir \in Dir /\ pol = overcur_dir
      BY <1>2, <3>1 DEF ReversalSeen, Reversed
    <3> QED BY <1>2, <2>2, <3>1, <3>2 DEF ReversalSeen
  <2>6. CASE OnRodLimitFault \/ OnVoltFault \/ OnVoltNormal \/ OnRecovery \/ OnPlainBit \/ OnRecoverWait
    <3>1. Head(todo).evt # "POLARITY_CHG" /\ UNCHANGED overcur_dir /\ "over_current" \in fault_bits
      BY <2>6 DEF OnRodLimitFault, OnVoltFault, OnVoltNormal, OnRecovery, OnPlainBit, OnRecoverWait,
                  NoteFault, VoltBit, faultVars
    <3> QED BY <2>2, <2>3, <3>1 DEF ReversalSeen, chg
  <2> QED BY <2>1, <2>4, <2>5, <2>6 DEF Sys_State_Dispatch
<1>7. UNCHANGED todo => (Pending(chg) => Pending(chg)')
  BY DEF Pending
<1>8. CASE Polarity_Scan
  <2>1. /\ UNCHANGED <<fault_bits, overcur_dir, todo>>
        /\ \/ pol' = "unpowered" /\ UNCHANGED sys_evt
           \/ sys_evt' = sys_evt \cup {"POLARITY_CHG"}
    BY <1>1, <1>8, ScanStep
  <2> QED BY <1>1, <1>2, <1>7, <2>1 DEF ReversalSeen, chg
<1>9. CASE PowerIsr
  <2>1. UNCHANGED <<fault_bits, overcur_dir, pol, todo>> /\ sys_evt \subseteq sys_evt'
    BY <1>1, <1>9, IsrStep DEF PowerIsr, faultVars
  <2> QED BY <1>3, <1>7, <2>1
<1>10. CASE Act \/ cmd_sys_evt \/ Supply \/ UNCHANGED sysVars
  BY <1>3, <1>7, <1>10 DEF Act, cmd_sys_evt, Supply, sysVars, powerVars, faultVars
<1> QED BY <1>4, <1>5, <1>6, <1>8, <1>9, <1>10 DEF SysNext

-----------------------------------------------------------------------------
(* The phases: what a step of sys_sm does to the events and bits of todo *)

\* The head of todo is its first element.
LEMMA FirstIsHead ==
  ASSUME TodoOK, todo # <<>>
  PROVE  /\ todo \in Seq(Element) /\ Len(todo) \in Nat /\ DOMAIN todo = 1 .. Len(todo)
         /\ 1 \in DOMAIN todo /\ Head(todo) = todo[1] /\ Head(todo) \in Element
  BY HeadTailProperties, LenProperties, EmptySeq DEF TodoOK

\* Only bits stand behind a bit; no event but the head's stands behind an
\* event that comes alone, and one behind the first of two.
LEMMA HeadOfTodo ==
  ASSUME TodoOK, todo # <<>>
  PROVE  /\ Head(todo).do = "bit" => NoEvent /\ \A e, f : ~ OneEvent(e) /\ ~ TwoEvents(e, f)
         /\ Head(todo).do = "event" =>
              /\ ~ NoEvent
              /\ \A e : OneEvent(e) =>
                   Head(todo) = Send(e) /\ \A i \in DOMAIN todo : i > 1 => todo[i].do # "event"
              /\ \A e, f : TwoEvents(e, f) =>
                   /\ Head(todo) = Send(e) /\ 2 \in DOMAIN todo /\ todo[2] = Send(f)
                   /\ \A i \in DOMAIN todo : i > 2 => todo[i].do # "event"
<1>1. /\ 1 \in DOMAIN todo /\ Head(todo) = todo[1] /\ DOMAIN todo = 1 .. Len(todo) /\ Len(todo) \in Nat
  BY FirstIsHead
<1>2. \A e : Send(e).do = "event"
  BY KindsOfElements
<1>3. ASSUME Head(todo).do = "bit" PROVE NoEvent /\ \A e, f : ~ OneEvent(e) /\ ~ TwoEvents(e, f)
  <2>1. \A i \in DOMAIN todo : todo[i].do = "bit"
    BY <1>1, <1>3 DEF TodoOK, InOrder
  <2> QED BY <1>2, <2>1 DEF NoEvent, OneEvent, TwoEvents
<1>4. ASSUME Head(todo).do = "event" PROVE ~ NoEvent
  BY <1>1, <1>4 DEF NoEvent
<1>5. ASSUME Head(todo).do = "event", NEW e, OneEvent(e)
      PROVE  Head(todo) = Send(e) /\ \A i \in DOMAIN todo : i > 1 => todo[i].do # "event"
  BY <1>1, <1>5 DEF OneEvent
<1>6. ASSUME Head(todo).do = "event", NEW e, NEW f, TwoEvents(e, f)
      PROVE  /\ Head(todo) = Send(e) /\ 2 \in DOMAIN todo /\ todo[2] = Send(f)
             /\ \A i \in DOMAIN todo : i > 2 => todo[i].do # "event"
  <2>1. PICK k \in DOMAIN todo :
               /\ todo[k] = Send(e) /\ k + 1 \in DOMAIN todo /\ todo[k + 1] = Send(f)
               /\ \A i \in DOMAIN todo : todo[i].do = "event" => i \in {k, k + 1}
    BY <1>6 DEF TwoEvents
  <2>2. k = 1
    BY <1>1, <1>6, <2>1
  <2> QED BY <1>1, <2>1, <2>2
<1> QED BY <1>3, <1>4, <1>5, <1>6

\* Handling the head puts ops in its place.
LEMMA EventsAfter ==
  ASSUME TodoOK, todo # <<>>, NEW ops \in Seq(Element), Then(ops),
         \A i \in DOMAIN ops : ops[i].do # "bit"
  PROVE  /\ OrdinaryBits => OrdinaryBits'
         /\ /\ \A i \in DOMAIN ops : ops[i].do # "event"
            /\ \A i \in DOMAIN todo : i > 1 => todo[i].do # "event"
            => NoEvent'
         /\ \A k \in DOMAIN ops : \A e :
              /\ ops[k] = Send(e) /\ \A i \in DOMAIN ops : ops[i].do = "event" => i = k
              /\ \A i \in DOMAIN todo : i > 1 => todo[i].do # "event"
              => OneEvent(e)'
         /\ \A k \in DOMAIN todo : \A e :
              /\ k > 1 /\ todo[k] = Send(e)
              /\ \A i \in DOMAIN ops : ops[i].do # "event"
              /\ \A i \in DOMAIN todo : i > 1 /\ todo[i].do = "event" => i = k
              => OneEvent(e)'
<1>1. /\ \A i \in DOMAIN todo' :
           \/ i \in DOMAIN ops /\ todo'[i] = ops[i]
           \/ /\ i - Len(ops) + 1 \in DOMAIN todo /\ i - Len(ops) + 1 > 1
              /\ todo'[i] = todo[i - Len(ops) + 1]
      /\ \A k \in DOMAIN todo : k > 1 =>
           /\ k + Len(ops) - 1 \in DOMAIN todo'
           /\ todo'[k + Len(ops) - 1] = todo[k]
  BY FirstIsHead, ThenMoves
<1>2. /\ Len(ops) \in Nat /\ Len(todo) \in Nat /\ Len(todo) >= 1
      /\ DOMAIN todo = 1 .. Len(todo) /\ DOMAIN ops = 1 .. Len(ops)
      /\ DOMAIN todo' = 1 .. Len(ops) + Len(todo) - 1
      /\ \A i \in 1 .. Len(ops) : todo'[i] = ops[i]
  BY FirstIsHead, ThenElements
<1>3. \A e : Send(e).do = "event"
  BY KindsOfElements
<1> DEFINE n == Len(ops)
<1> HIDE DEF n
<1>4. OrdinaryBits => OrdinaryBits'
  BY <1>1 DEF OrdinaryBits
<1>5. ASSUME \A i \in DOMAIN ops : ops[i].do # "event",
             \A i \in DOMAIN todo : i > 1 => todo[i].do # "event"
      PROVE  NoEvent'
  BY <1>1, <1>5 DEF NoEvent
<1>6. ASSUME NEW k \in DOMAIN ops, NEW e, ops[k] = Send(e),
             \A i \in DOMAIN ops : ops[i].do = "event" => i = k,
             \A i \in DOMAIN todo : i > 1 => todo[i].do # "event"
      PROVE  OneEvent(e)'
  <2>1. k \in DOMAIN todo' /\ todo'[k] = Send(e)
    BY <1>2, <1>6
  <2>2. \A i \in DOMAIN todo' : todo'[i].do = "event" => i = k
    BY <1>1, <1>6
  <2> QED BY <2>1, <2>2 DEF OneEvent
<1>7. ASSUME NEW k \in DOMAIN todo, NEW e, k > 1, todo[k] = Send(e),
             \A i \in DOMAIN ops : ops[i].do # "event",
             \A i \in DOMAIN todo : i > 1 /\ todo[i].do = "event" => i = k
      PROVE  OneEvent(e)'
  <2>1. k + n - 1 \in DOMAIN todo' /\ todo'[k + n - 1] = Send(e)
    BY <1>1, <1>7 DEF n
  <2>2. ASSUME NEW i \in DOMAIN todo', todo'[i].do = "event" PROVE i = k + n - 1
    <3>1. i - n + 1 = k
      BY <1>1, <1>7, <2>2 DEF n
    <3> QED BY <1>2, <3>1 DEF n
  <2> QED BY <2>1, <2>2 DEF OneEvent
<1> QED BY <1>4, <1>5, <1>6, <1>7

\* A call is done: the events and bits are as they were.
LEMMA CallDone ==
  ASSUME TodoOK, todo # <<>>, Then(<<>>), Head(todo).do \notin {"bit", "event"}
  PROVE  /\ (OrdinaryBits => OrdinaryBits') /\ (NoEvent => NoEvent')
         /\ \A e : OneEvent(e) => OneEvent(e)'
         /\ \A e, f : TwoEvents(e, f) => TwoEvents(e, f)'
<1>1. /\ \A i \in DOMAIN todo' : i + 1 \in DOMAIN todo /\ todo'[i] = todo[i + 1]
      /\ \A k \in DOMAIN todo : k > 1 => k - 1 \in DOMAIN todo' /\ todo'[k - 1] = todo[k]
  <2>1. /\ Len(todo) \in Nat /\ DOMAIN todo = 1 .. Len(todo) /\ DOMAIN todo' = 1 .. 0 + Len(todo) - 1
        /\ \A i \in 0 + 1 .. 0 + Len(todo) - 1 : todo'[i] = todo[i - 0 + 1]
    BY FirstIsHead, ShortOps, ThenElements
  <2> QED BY <2>1
<1>2. /\ todo[1].do \notin {"bit", "event"} /\ DOMAIN todo = 1 .. Len(todo) /\ Len(todo) \in Nat
      /\ DOMAIN todo' \subseteq Int
  <2>1. DOMAIN todo' = 1 .. 0 + Len(todo) - 1
    BY FirstIsHead, ShortOps, ThenElements
  <2> QED BY <2>1, FirstIsHead
<1>3. \A e : Send(e).do = "event"
  BY KindsOfElements
<1>4. /\ (OrdinaryBits => OrdinaryBits') /\ (NoEvent => NoEvent')
  BY <1>1 DEF OrdinaryBits, NoEvent
<1>5. ASSUME NEW e, OneEvent(e) PROVE OneEvent(e)'
  <2>1. PICK k \in DOMAIN todo : todo[k] = Send(e) /\ \A i \in DOMAIN todo : todo[i].do = "event" => i = k
    BY <1>5 DEF OneEvent
  <2>2. k > 1 /\ k - 1 \in DOMAIN todo' /\ todo'[k - 1] = Send(e)
    BY <1>1, <1>2, <1>3, <2>1
  <2>3. ASSUME NEW i \in DOMAIN todo', todo'[i].do = "event" PROVE i = k - 1
    <3>1. i + 1 \in DOMAIN todo /\ todo'[i] = todo[i + 1]
      BY <1>1
    <3>2. i + 1 = k
      BY <2>1, <2>3, <3>1
    <3> QED BY <1>2, <2>1, <3>2
  <2> QED BY <2>2, <2>3 DEF OneEvent
<1>6. ASSUME NEW e, NEW f, TwoEvents(e, f) PROVE TwoEvents(e, f)'
  <2>1. PICK k \in DOMAIN todo :
               /\ todo[k] = Send(e) /\ k + 1 \in DOMAIN todo /\ todo[k + 1] = Send(f)
               /\ \A i \in DOMAIN todo : todo[i].do = "event" => i \in {k, k + 1}
    BY <1>6 DEF TwoEvents
  <2>2. /\ k > 1 /\ k - 1 \in DOMAIN todo' /\ todo'[k - 1] = Send(e)
        /\ (k - 1) + 1 \in DOMAIN todo' /\ todo'[(k - 1) + 1] = Send(f)
    BY <1>1, <1>2, <1>3, <2>1
  <2>3. \A i \in DOMAIN todo' : todo'[i].do = "event" => i \in {k - 1, (k - 1) + 1}
    BY <1>1, <1>2, <2>1
  <2> QED BY <2>2, <2>3 DEF TwoEvents
<1> QED BY <1>4, <1>5, <1>6

\* The calls keep the phase.
LEMMA PhaseCall ==
  ASSUME TodoOK, Phase,
         Sys_State_ArbSendCommand \/ Sys_State_SetArbEnable \/ Dev_Registry_InitAll \/ StartHardware
  PROVE  Phase'
<1>1. /\ todo # <<>> /\ Then(<<>>) /\ Head(todo).do \in {"post", "enable", "init", "start"}
      /\ UNCHANGED <<sm, fault_bits, prev_state, sys_evt>>
  BY DEF Sys_State_ArbSendCommand, Sys_State_SetArbEnable, Dev_Registry_InitAll, StartHardware,
         Do, smVars, faultVars, powerVars
<1>2. /\ (OrdinaryBits => OrdinaryBits') /\ (NoEvent => NoEvent')
      /\ \A e : OneEvent(e) => OneEvent(e)'
      /\ \A e, f : TwoEvents(e, f) => TwoEvents(e, f)'
  BY <1>1, CallDone
<1>3. /\ todo[1] = Head(todo) /\ Len(todo) \in Nat /\ DOMAIN todo = 1 .. Len(todo)
  BY <1>1, FirstIsHead
<1>4. CASE Service
  BY <1>1, <1>2, <1>4 DEF Service, AtWork, InFault, Struck, Stopping, Recovering, Calm, Resuming,
                          Faulty, Sound, Phase
<1>5. CASE PowerUp
  <2>1. Bit("INIT_DONE").do = "bit" /\ Send("INIT_DONE").do = "event"
    BY KindsOfElements
  <2> QED BY <1>1, <1>3, <1>5, <2>1 DEF PowerUp
<1>6. CASE Sound /\ Starting
  <2>1. PICK k \in DOMAIN todo :
               /\ todo[k] = Bit("CMD_WORK_ENABLE")
               /\ \A i \in DOMAIN todo : i # k => todo[i].do \in {"init", "start"}
    BY <1>6 DEF Starting
  <2>2. Bit("CMD_WORK_ENABLE").do = "bit"
    BY KindsOfElements
  <2>3. k > 1
    BY <1>1, <1>3, <2>1, <2>2
  <2>4. /\ k - 1 \in DOMAIN todo' /\ todo'[k - 1] = Bit("CMD_WORK_ENABLE")
        /\ \A i \in DOMAIN todo' : i \in Int /\ i + 1 \in DOMAIN todo /\ todo'[i] = todo[i + 1]
    <3>1. /\ DOMAIN todo' = 1 .. 0 + Len(todo) - 1
          /\ \A i \in 0 + 1 .. 0 + Len(todo) - 1 : todo'[i] = todo[i - 0 + 1]
      BY <1>1, FirstIsHead, ShortOps, ThenElements
    <3> QED BY <1>3, <2>1, <2>3, <3>1
  <2>5. \A i \in DOMAIN todo' : i # k - 1 => todo'[i].do \in {"init", "start"}
    BY <1>3, <2>1, <2>4
  <2>6. Starting'
    BY <1>1, <1>6, <2>4, <2>5 DEF Starting
  <2> QED BY <1>1, <1>6, <2>6 DEF Sound, Boot, Phase
<1> QED BY <1>4, <1>5, <1>6 DEF Phase, Boot

\* A bit is handled: what it leaves to do are the only events.
LEMMA BitDone ==
  ASSUME TodoOK, todo # <<>>, Head(todo).do = "bit"
  PROVE  /\ Then(<<>>) => NoEvent'
         /\ \A x \in Element : x.do = "post" /\ Then(<<x>>) => NoEvent'
         /\ \A e \in EventBit : Then(<<Send(e)>>) => OneEvent(e)'
         /\ prev_state = "RUN" /\ Then(ResumeOps) => TwoEvents("RECOVERY", "CMD_WORK_ENABLE")'
         /\ prev_state # "RUN" /\ Then(ResumeOps) => OneEvent("RECOVERY")'
<1>1. \A i \in DOMAIN todo : i > 1 => todo[i].do # "event"
  BY HeadOfTodo DEF NoEvent
<1>2. ASSUME NEW ops \in Seq(Element), Then(ops), \A i \in DOMAIN ops : ops[i].do = "post"
      PROVE  NoEvent'
  <2>1. \A i \in DOMAIN ops : ops[i].do # "event" /\ ops[i].do # "bit"
    BY <1>2
  <2> QED BY <1>1, <1>2, <2>1, EventsAfter
<1>3. ASSUME NEW ops \in Seq(Element), Then(ops), NEW e, DOMAIN ops = {1}, ops[1] = Send(e)
      PROVE  OneEvent(e)'
  <2>1. \A i \in DOMAIN ops : ops[i].do # "bit"
    BY <1>3, KindsOfElements
  <2>2. 1 \in DOMAIN ops /\ \A i \in DOMAIN ops : ops[i].do = "event" => i = 1
    BY <1>3
  <2> QED BY <1>1, <1>3, <2>1, <2>2, EventsAfter
<1>4. Then(<<>>) => NoEvent'
  BY <1>2, ShortOps
<1>5. ASSUME NEW x \in Element, x.do = "post", Then(<<x>>) PROVE NoEvent'
  <2>1. <<x>> \in Seq(Element) /\ \A i \in DOMAIN <<x>> : <<x>>[i].do = "post"
    BY <1>5, ShortOps
  <2> QED BY <1>2, <1>5, <2>1
<1>6. ASSUME NEW e \in EventBit, Then(<<Send(e)>>) PROVE OneEvent(e)'
  <2>1. Send(e) \in Element
    BY KindsOfElements
  <2>2. <<Send(e)>> \in Seq(Element) /\ DOMAIN <<Send(e)>> = {1} /\ <<Send(e)>>[1] = Send(e)
    BY <2>1, ShortOps
  <2> QED BY <1>3, <1>6, <2>2
<1> DEFINE r == ResumeOps
<1>7. /\ r \in Seq(Element) /\ Len(r) = (IF prev_state = "RUN" THEN 2 ELSE 1)
      /\ r[1] = Send("RECOVERY") /\ (prev_state = "RUN" => r[2] = Send("CMD_WORK_ENABLE"))
  BY ResumeOpsOK
<1>8. DOMAIN r = 1 .. Len(r)
  BY <1>7, LenProperties
<1> HIDE DEF r
<1>9. ASSUME prev_state = "RUN", Then(r) PROVE TwoEvents("RECOVERY", "CMD_WORK_ENABLE")'
  <2>0. Len(r) = 2 /\ todo \in Seq(Element)
    BY <1>7, <1>9, FirstIsHead
  <2>1. /\ Len(todo) \in Nat /\ Len(todo) >= 1 /\ DOMAIN todo' = 1 .. 2 + Len(todo) - 1
        /\ \A i \in 1 .. 2 : todo'[i] = r[i]
        /\ \A i \in 2 + 1 .. 2 + Len(todo) - 1 : todo'[i] = todo[i - 2 + 1]
    <3>1. /\ Len(todo) \in Nat /\ Len(todo) >= 1 /\ DOMAIN todo' = 1 .. Len(r) + Len(todo) - 1
          /\ \A i \in 1 .. Len(r) : todo'[i] = r[i]
          /\ \A i \in Len(r) + 1 .. Len(r) + Len(todo) - 1 : todo'[i] = todo[i - Len(r) + 1]
      BY <1>7, <1>9, <2>0, ThenElements
    <3> QED BY <2>0, <3>1
  <2>2. /\ 1 \in DOMAIN todo' /\ 1 + 1 \in DOMAIN todo'
        /\ todo'[1] = Send("RECOVERY") /\ todo'[1 + 1] = Send("CMD_WORK_ENABLE")
    BY <1>7, <1>9, <2>1
  <2>3. \A i \in DOMAIN todo' : todo'[i].do = "event" => i \in {1, 1 + 1}
    <3>1. ASSUME NEW i \in DOMAIN todo', i \notin {1, 1 + 1} PROVE todo'[i].do # "event"
      <4>1. todo'[i] = todo[i - 1] /\ i - 1 > 1 /\ i - 1 \in DOMAIN todo
        BY <2>1, <3>1, FirstIsHead
      <4> QED BY <1>1, <4>1
    <3> QED BY <3>1
  <2> QED BY <2>2, <2>3 DEF TwoEvents
<1>10. ASSUME prev_state # "RUN", Then(r) PROVE OneEvent("RECOVERY")'
  BY <1>3, <1>7, <1>8, <1>10
<1> QED BY <1>4, <1>5, <1>6, <1>9, <1>10 DEF r

\* Handling a bit: a fault strikes, the last fault goes, or nothing changes.
LEMMA PhaseBit ==
  ASSUME TodoOK, sys_evt \subseteq EventBit, sm \in State, fault_bits \subseteq Fault, arb \in [Axis -> ArbData],
         Phase, Sys_State_Dispatch
  PROVE  Phase'
<1>1. /\ todo # <<>> /\ Head(todo).do = "bit" /\ Head(todo).evt \in EventBit
      /\ UNCHANGED <<mq, pins, sys_evt, sm, hw_started>>
  BY BitLeaves
<1>2. /\ Then(<<>>) => NoEvent'
      /\ \A x \in Element : x.do = "post" /\ Then(<<x>>) => NoEvent'
      /\ \A e \in EventBit : Then(<<Send(e)>>) => OneEvent(e)'
      /\ prev_state = "RUN" /\ Then(ResumeOps) => TwoEvents("RECOVERY", "CMD_WORK_ENABLE")'
      /\ prev_state # "RUN" /\ Then(ResumeOps) => OneEvent("RECOVERY")'
  BY <1>1, BitDone
<1>3. OrdinaryBits => OrdinaryBits'
  <2>1. PICK ops \in Seq(Element) : BitOps(ops)
    BY BitLeaves
  <2>2. Then(ops) /\ \A i \in DOMAIN ops : ops[i].do # "bit"
    BY <2>1 DEF BitOps
  <2> QED BY <1>1, <2>2, EventsAfter
<1>4. todo[1] = Head(todo) /\ Head(todo) \in Element /\ DOMAIN todo = 1 .. Len(todo) /\ Len(todo) \in Nat
      /\ 1 \in DOMAIN todo
  BY <1>1, FirstIsHead
<1>5. Head(todo) = Bit(Head(todo).evt)
  BY <1>1, <1>4, ElementKinds
<1>6. CASE Service
  <2>1. Head(todo).evt \in Ordinary /\ (AtWork \/ InFault)
    BY <1>1, <1>4, <1>6, HeadOfTodo
       DEF Service, OrdinaryBits, AtWork, InFault, Struck, Stopping, Recovering, Calm, Resuming
  <2>2. sys_evt' \subseteq Ordinary /\ OrdinaryBits'
    BY <1>1, <1>3, <1>6 DEF Service
  <2>3. ASSUME UNCHANGED <<fault_bits, prev_state>>, NoEvent' PROVE AtWork' \/ InFault'
    BY <1>1, <2>1, <2>3 DEF AtWork, InFault, Sound, Faulty
  <2>4. ASSUME NEW f, NoteFault(f), NEW e \in Striking, OneEvent(e)' PROVE Struck'
    <3>1. fault_bits' # {} /\ prev_state' = "RUN" /\ sm' \in {"RUN", "FAULT"}
      BY <1>1, <2>1, <2>4 DEF NoteFault, AtWork, InFault, Sound, Faulty
    <3> QED BY <2>4, <3>1 DEF Struck, Faulty
  <2>5. ASSUME fault_bits' \subseteq fault_bits, UNCHANGED prev_state,
               Then(IF fault_bits' = {} THEN ResumeOps ELSE <<>>)
        PROVE  InFault' \/ Recovering' \/ Calm'
    <3>1. CASE fault_bits' = {} /\ prev_state = "RUN"
      BY <1>1, <1>2, <2>1, <2>5, <3>1 DEF Recovering, Sound, AtWork, InFault
    <3>2. CASE fault_bits' = {} /\ prev_state # "RUN"
      BY <1>1, <1>2, <2>1, <2>5, <3>2 DEF Calm, Sound, AtWork, InFault, Faulty
    <3>3. CASE fault_bits' # {}
      BY <1>1, <1>2, <2>1, <2>5, <3>3 DEF InFault, AtWork, Sound, Faulty
    <3> QED BY <3>1, <3>2, <3>3
  <2>6. CASE OnOverCurrent
    <3>1. CASE Then(<<>>) /\ UNCHANGED faultVars
      BY <1>2, <2>2, <2>3, <3>1 DEF faultVars, Service, Phase
    <3>2. CASE UNCHANGED faultVars /\ \E dir \in Dir : Then(<<Post(ClearMsg(dir), TRUE)>>)
      <4>1. PICK dir \in Dir : Then(<<Post(ClearMsg(dir), TRUE)>>)
        BY <3>2
      <4>2. Post(ClearMsg(dir), TRUE) \in Element /\ Post(ClearMsg(dir), TRUE).do = "post"
        BY MsgOK, KindsOfElements
      <4>3. NoEvent'
        BY <1>2, <4>1, <4>2
      <4> QED BY <2>2, <2>3, <3>2, <4>3 DEF faultVars, Service, Phase
    <3>3. CASE NoteFault("over_current") /\ Then(<<Send("OVER_CURRENT")>>)
      <4>1. OneEvent("OVER_CURRENT")'
        BY <1>2, <3>3, Bits
      <4>2. Struck'
        BY <2>4, <3>3, <4>1 DEF Striking
      <4> QED BY <2>2, <4>2 DEF Service, Phase
    <3> QED BY <2>6, <3>1, <3>2, <3>3 DEF OnOverCurrent
  <2>7. CASE OnVoltFault
    <3>1. PICK e \in {"VOLT_OVER", "VOLT_UNDER"} : NoteFault(VoltBit(e)) /\ Then(<<Send(e)>>)
      BY <2>7 DEF OnVoltFault
    <3>2. OneEvent(e)'
      BY <1>2, <3>1, Bits
    <3>3. Struck'
      BY <2>4, <3>1, <3>2 DEF Striking
    <3> QED BY <2>2, <3>3 DEF Service, Phase
  <2>8. CASE OnVoltNormal
    BY <2>2, <2>5, <2>8 DEF OnVoltNormal, Service, Phase
  <2>9. CASE OnPolarityChg
    <3>0. UNCHANGED prev_state
      BY <2>9 DEF OnPolarityChg
    <3>1. CASE Then(<<>>) /\ UNCHANGED fault_bits
      <4>1. AtWork' \/ InFault'
        BY <1>2, <2>3, <3>0, <3>1
      <4> QED BY <2>2, <4>1 DEF Service, Phase
    <3>2. CASE /\ fault_bits' = fault_bits \ {"over_current"}
               /\ Then(IF fault_bits' = {} THEN ResumeOps ELSE <<>>)
      <4>1. InFault' \/ Recovering' \/ Calm'
        BY <2>5, <3>0, <3>2
      <4> QED BY <2>2, <4>1 DEF Service, Phase
    <3> QED BY <2>9, <3>1, <3>2 DEF OnPolarityChg
  <2>10. CASE OnRecoverWait
    BY <1>2, <2>2, <2>3, <2>10 DEF OnRecoverWait, faultVars, Service, Phase
  <2>11. CASE OnRodLimitFault \/ OnRecovery \/ OnPlainBit
    BY <2>1, <2>11 DEF OnRodLimitFault, OnRecovery, OnPlainBit, Ordinary
  <2> QED BY <2>6, <2>7, <2>8, <2>9, <2>10, <2>11 DEF Sys_State_Dispatch
<1>7. ASSUME Head(todo).evt \in {"INIT_DONE", "CMD_WORK_ENABLE"}
      PROVE  Then(<<Send(Head(todo).evt)>>) /\ UNCHANGED fault_bits
  BY <1>7 DEF Sys_State_Dispatch, OnOverCurrent, OnRodLimitFault, OnVoltFault, OnVoltNormal,
              OnPolarityChg, OnRecovery, OnPlainBit, OnRecoverWait, faultVars
<1>8. CASE Sound /\ PowerUp
  <2>1. /\ todo[1] = Bit("INIT_DONE") /\ sys_evt = {} /\ Len(todo) = 2 /\ todo[2] = Bit("CMD_WORK_ENABLE")
    <3>1. Send("INIT_DONE").do = "event"
      BY KindsOfElements
    <3> QED BY <1>1, <1>4, <1>8, <3>1 DEF PowerUp
  <2>2. Head(todo).evt = "INIT_DONE"
    BY <1>4, <2>1, KindsOfElements
  <2>3. Then(<<Send("INIT_DONE")>>) /\ UNCHANGED fault_bits /\ Send("INIT_DONE") \in Element
    BY <1>7, <2>2, KindsOfElements, Bits
  <2>4. Len(todo') = 2 /\ todo'[1] = Send("INIT_DONE") /\ todo'[2] = todo[2]
    <3>1. /\ todo' \in Seq(Element) /\ DOMAIN todo' = 1 .. 1 + 2 - 1
          /\ \A i \in 1 .. 1 : todo'[i] = <<Send("INIT_DONE")>>[i]
          /\ \A i \in 1 + 1 .. 1 + 2 - 1 : todo'[i] = todo[i - 1 + 1]
      <4>1. /\ <<Send("INIT_DONE")>> \in Seq(Element) /\ Len(<<Send("INIT_DONE")>>) = 1
            /\ <<Send("INIT_DONE")>>[1] = Send("INIT_DONE")
        BY <2>3, ShortOps
      <4> QED BY <1>1, <2>1, <2>3, <4>1, FirstIsHead, ThenElements
    <3>2. Len(todo') \in Nat /\ DOMAIN todo' = 1 .. Len(todo')
      BY <3>1, LenProperties
    <3> QED BY <3>1, <3>2
  <2>5. PowerUp'
    BY <1>1, <1>8, <2>1, <2>4 DEF PowerUp
  <2> QED BY <1>8, <2>3, <2>5 DEF Sound, Boot, Phase
<1>9. CASE Sound /\ Starting
  <2>1. PICK k \in DOMAIN todo :
               /\ todo[k] = Bit("CMD_WORK_ENABLE")
               /\ \A i \in DOMAIN todo : i # k => todo[i].do \in {"init", "start"}
    BY <1>9 DEF Starting
  <2>2. k = 1 /\ \A i \in DOMAIN todo : todo[i].do = "bit"
    BY <1>1, <1>4, <2>1 DEF TodoOK, InOrder
  <2>3. Head(todo).evt = "CMD_WORK_ENABLE" /\ \A i \in DOMAIN todo : i = 1
    BY <1>4, <2>1, <2>2, KindsOfElements
  <2>4. Then(<<Send("CMD_WORK_ENABLE")>>) /\ UNCHANGED fault_bits /\ Send("CMD_WORK_ENABLE") \in Element
    BY <1>7, <2>3, KindsOfElements, Bits
  <2>5. OneEvent("CMD_WORK_ENABLE")'
    BY <1>2, <2>4, Bits
  <2>6. OrdinaryBits'
    <3>1. \A i \in DOMAIN todo' : todo'[i] = Send("CMD_WORK_ENABLE")
      BY <1>1, <2>3, <2>4, FirstIsHead, ShortOps, ThenMoves
    <3>2. Send("CMD_WORK_ENABLE").do = "event"
      BY KindsOfElements
    <3> QED BY <3>1, <3>2 DEF OrdinaryBits
  <2> QED BY <1>1, <1>9, <2>4, <2>5, <2>6 DEF Starting, Sound, Resuming, Service, Phase
<1> QED BY <1>6, <1>8, <1>9 DEF Phase, Boot

\* The rows of the state table a fault and its recovery need.
LEMMA RowsNeeded ==
  /\ \A e \in Striking : \E r \in sys_jump : r[1] = "RUN" /\ r[2] = e
  /\ \E r \in sys_jump : r[1] = "EMERGENCY" /\ r[2] = "FAULT"
  /\ \E r \in sys_jump : r[1] = "FAULT" /\ r[2] = "RECOVERY"
  /\ \E r \in sys_jump : r[1] = "IDLE" /\ r[2] = "CMD_WORK_ENABLE"
  /\ \E r \in sys_jump : r[1] = "INIT" /\ r[2] = "INIT_DONE"
<1>1. /\ \A e \in Striking : <<"RUN", e, "EMERGENCY">> \in sys_jump
      /\ <<"EMERGENCY", "FAULT", "FAULT">> \in sys_jump
      /\ <<"FAULT", "RECOVERY", "IDLE">> \in sys_jump
      /\ <<"IDLE", "CMD_WORK_ENABLE", "RUN">> \in sys_jump
      /\ <<"INIT", "INIT_DONE", "IDLE">> \in sys_jump
  BY DEF sys_jump, Striking, FaultEvents
<1>2. \A x, y, z : <<x, y, z>>[1] = x /\ <<x, y, z>>[2] = y
  OBVIOUS
<1> QED BY <1>1, <1>2

\* Feeding an event to the table: the next phase.
LEMMA PhaseEvent ==
  ASSUME TodoOK, sm \in State, Phase, StateMachine_SendEvent
  PROVE  Phase'
<1> DEFINE h == Head(todo).evt
<1>1. /\ todo # <<>> /\ mq = <<>> /\ Head(todo).do = "event"
      /\ UNCHANGED <<fault_bits, prev_state, sys_evt>>
  BY EventCases DEF StateMachine_SendEvent, faultVars, powerVars
<1>2. /\ todo[1] = Head(todo) /\ DOMAIN todo = 1 .. Len(todo) /\ Len(todo) \in Nat /\ 1 \in DOMAIN todo
  BY <1>1, FirstIsHead
<1>3. \A e : Send(e).do = "event" /\ Send(e).evt = e
  BY KindsOfElements
<1>4. \/ sm' = sm /\ Then(<<>>) /\ \A r \in sys_jump : ~ (r[1] = sm /\ r[2] = h)
      \/ sm' = "EMERGENCY" /\ sm \in {"IDLE", "RUN"} /\ h \in FaultEvents /\ Then(sys_enter_emergency)
      \/ sm' = "FAULT" /\ sm \in {"IDLE", "RUN", "EMERGENCY"} /\ h = "FAULT" /\ Then(sys_enter_fault)
      \/ sm' = "IDLE" /\ sm \in {"STOP", "FAULT", "EMERGENCY"} /\ h = "RECOVERY" /\ Then(sys_enter_idle)
      \/ sm' = "IDLE" /\ sm = "INIT" /\ h = "INIT_DONE" /\ Then(sys_enter_idle)
      \/ sm' = "RUN" /\ sm \in {"IDLE", "STOP"} /\ h = "CMD_WORK_ENABLE" /\ Then(<<>>)
      \/ sm' = "STOP" /\ sm \in {"IDLE", "RUN"} /\ h = "ST_WORK_ERROR" /\ Then(<<>>)
  BY EventCases
<1> HIDE DEF h
<1>5. ASSUME NEW e, OneEvent(e) PROVE h = e /\ \A i \in DOMAIN todo : i > 1 => todo[i].do # "event"
  BY <1>1, <1>3, <1>5, HeadOfTodo DEF h
<1>6. ASSUME NEW ops \in Seq(Element), Then(ops), \A i \in DOMAIN ops : ops[i].do \notin {"bit", "event"},
             \A i \in DOMAIN todo : i > 1 => todo[i].do # "event"
      PROVE  NoEvent'
  BY <1>1, <1>6, EventsAfter
<1>7. ASSUME Then(<<>>), \A i \in DOMAIN todo : i > 1 => todo[i].do # "event" PROVE NoEvent'
  BY <1>6, <1>7, ShortOps
<1>8. CASE Service
  <2>1. OrdinaryBits'
    <3>1. ASSUME NEW ops \in Seq(Element), Then(ops), \A i \in DOMAIN ops : ops[i].do # "bit"
          PROVE  OrdinaryBits'
      BY <1>1, <1>8, <3>1, EventsAfter DEF Service
    <3>2. CASE Then(<<>>)
      BY <3>1, <3>2, ShortOps
    <3>3. CASE Then(sys_enter_emergency)
      BY <3>1, <3>3, EmergencyOpsOK
    <3>4. CASE Then(sys_enter_idle)
      BY <3>1, <3>4, IdleOpsOK
    <3>5. CASE Then(sys_enter_fault)
      <4>1. \A i \in DOMAIN sys_enter_fault : \E a \in Axis :
               sys_enter_fault[i] = Enable(a, FALSE) \/ sys_enter_fault[i] = Post(EStopMsg(a), TRUE)
        BY FaultOpsOK
      <4>2. \A a \in Axis : Enable(a, FALSE).do = "enable" /\ Post(EStopMsg(a), TRUE).do = "post"
        BY KindsOfElements
      <4>3. sys_enter_fault \in Seq(Element) /\ \A i \in DOMAIN sys_enter_fault : sys_enter_fault[i].do # "bit"
        BY <4>1, <4>2, FaultOpsOK
      <4> QED BY <3>1, <3>5, <4>3
    <3> QED BY <1>4, <3>2, <3>3, <3>4, <3>5
  <2>2. sys_evt' \subseteq Ordinary
    BY <1>1, <1>8 DEF Service
  <2>3. CASE Struck
    <3>1. PICK e \in Striking : OneEvent(e)
      BY <2>3 DEF Struck
    <3>2. h = e /\ \A i \in DOMAIN todo : i > 1 => todo[i].do # "event"
      BY <1>5, <3>1
    <3>3. CASE sm = "RUN"
      <4> DEFINE f == sys_enter_emergency
                 n == NumAxes + 1
      <4>1. /\ f \in Seq(Element) /\ Len(f) = n /\ f[n] = Send("FAULT")
            /\ \A i \in DOMAIN f : f[i].do \in {"post", "event"}
            /\ \A i \in 1 .. NumAxes : \E a \in Axis : f[i] = Post(EStopMsg(a), TRUE)
        BY EmergencyOpsOK
      <4>2. NumAxes \in Nat /\ n \in DOMAIN f /\ DOMAIN f = 1 .. NumAxes + 1
        BY <4>1, LenProperties, SysConstants
      <4>3. \A a \in Axis : Post(EStopMsg(a), TRUE).do = "post"
        BY KindsOfElements
      <4> HIDE DEF f
      <4>4. ASSUME NEW i \in DOMAIN f, i # n PROVE f[i].do # "event"
        <5>1. i \in 1 .. NumAxes
          BY <4>2, <4>4
        <5>2. PICK a \in Axis : f[i] = Post(EStopMsg(a), TRUE)
          BY <4>1, <5>1
        <5> QED BY <4>3, <5>2
      <4> HIDE DEF n
      <4>5. sm' = "EMERGENCY" /\ Then(f)
        BY <1>4, <3>1, <3>2, <3>3, RowsNeeded DEF Striking, f
      <4>6. \A i \in DOMAIN f : f[i].do # "bit"
        BY <4>1
      <4>7. OneEvent("FAULT")'
        BY <1>1, <3>2, <4>1, <4>2, <4>4, <4>5, <4>6, EventsAfter
      <4> QED BY <1>1, <2>1, <2>2, <2>3, <4>5, <4>7 DEF Struck, Stopping, Faulty, Service, Phase
    <3>4. CASE sm = "FAULT"
      <4>1. sm' = "FAULT" /\ Then(<<>>)
        BY <1>4, <3>1, <3>2, <3>4 DEF Striking
      <4>2. NoEvent'
        BY <1>7, <3>2, <4>1
      <4> QED BY <1>1, <2>1, <2>2, <2>3, <4>1, <4>2 DEF Struck, InFault, Faulty, Service, Phase
    <3> QED BY <2>3, <3>3, <3>4 DEF Struck
  <2>4. CASE Stopping
    <3>1. h = "FAULT" /\ sm = "EMERGENCY" /\ \A i \in DOMAIN todo : i > 1 => todo[i].do # "event"
      BY <1>5, <2>4 DEF Stopping
    <3> DEFINE f == sys_enter_fault
    <3>2. sm' = "FAULT" /\ Then(f)
      BY <1>4, <3>1, RowsNeeded
    <3>3. \A i \in DOMAIN f : \E a \in Axis : f[i] = Enable(a, FALSE) \/ f[i] = Post(EStopMsg(a), TRUE)
      BY FaultOpsOK
    <3>4. \A a \in Axis : Enable(a, FALSE).do = "enable" /\ Post(EStopMsg(a), TRUE).do = "post"
      BY KindsOfElements
    <3>5. f \in Seq(Element)
      BY FaultOpsOK
    <3> HIDE DEF f
    <3>6. NoEvent'
      BY <1>6, <3>1, <3>2, <3>3, <3>4, <3>5
    <3> QED BY <1>1, <2>1, <2>2, <2>4, <3>2, <3>6 DEF Stopping, InFault, Faulty, Service, Phase
  <2>5. CASE Recovering
    <3>1. /\ h = "RECOVERY" /\ 2 \in DOMAIN todo /\ todo[2] = Send("CMD_WORK_ENABLE")
          /\ \A i \in DOMAIN todo : i > 2 => todo[i].do # "event"
      BY <1>1, <1>3, <2>5, HeadOfTodo DEF Recovering, h
    <3>2. ASSUME NEW ops \in Seq(Element), Then(ops), \A i \in DOMAIN ops : ops[i].do \notin {"bit", "event"}
          PROVE  OneEvent("CMD_WORK_ENABLE")'
      <4>1. \A i \in DOMAIN todo : i > 1 /\ todo[i].do = "event" => i = 2
        BY <1>2, <3>1
      <4>2. 2 > 1
        OBVIOUS
      <4> QED BY <1>1, <3>1, <3>2, <4>1, <4>2, EventsAfter
    <3>3. CASE sm = "FAULT"
      <4>1. sm' = "IDLE" /\ Then(sys_enter_idle)
        BY <1>4, <3>1, <3>3, RowsNeeded
      <4>2. OneEvent("CMD_WORK_ENABLE")'
        BY <3>2, <4>1, IdleOpsOK
      <4> QED BY <1>1, <2>1, <2>2, <2>5, <4>1, <4>2 DEF Recovering, Resuming, Sound, Service, Phase
    <3>4. CASE sm = "RUN"
      <4>1. sm' = "RUN" /\ Then(<<>>)
        BY <1>4, <3>1, <3>4 DEF FaultEvents
      <4>2. OneEvent("CMD_WORK_ENABLE")'
        BY <3>2, <4>1, ShortOps
      <4> QED BY <1>1, <2>1, <2>2, <2>5, <4>1, <4>2 DEF Recovering, Resuming, Sound, Service, Phase
    <3> QED BY <2>5, <3>3, <3>4 DEF Recovering
  <2>6. CASE Calm
    <3>1. h = "RECOVERY" /\ sm = "RUN" /\ \A i \in DOMAIN todo : i > 1 => todo[i].do # "event"
      BY <1>5, <2>6 DEF Calm
    <3>2. sm' = "RUN" /\ Then(<<>>)
      BY <1>4, <3>1 DEF FaultEvents
    <3>3. NoEvent'
      BY <1>7, <3>1, <3>2
    <3> QED BY <1>1, <2>1, <2>2, <2>6, <3>2, <3>3 DEF Calm, AtWork, Sound, Service, Phase
  <2>7. CASE Resuming
    <3>1. /\ h = "CMD_WORK_ENABLE" /\ sm \in {"IDLE", "RUN"}
          /\ \A i \in DOMAIN todo : i > 1 => todo[i].do # "event"
      BY <1>5, <2>7 DEF Resuming
    <3>2. sm' = "RUN" /\ Then(<<>>)
      BY <1>4, <3>1, RowsNeeded DEF FaultEvents
    <3>3. NoEvent'
      BY <1>7, <3>1, <3>2
    <3> QED BY <1>1, <2>1, <2>2, <2>7, <3>2, <3>3 DEF Resuming, AtWork, Sound, Service, Phase
  <2>8. ~ NoEvent
    BY <1>1, HeadOfTodo
  <2> QED BY <1>8, <2>3, <2>4, <2>5, <2>6, <2>7, <2>8 DEF Service, AtWork, InFault
<1>9. CASE Sound /\ PowerUp
  <2>1. /\ sm = "INIT" /\ sys_evt = {} /\ Len(todo) = 2 /\ todo[2] = Bit("CMD_WORK_ENABLE")
        /\ todo[1] = Send("INIT_DONE")
    <3>1. Bit("INIT_DONE").do = "bit"
      BY KindsOfElements
    <3> QED BY <1>1, <1>2, <1>9, <3>1 DEF PowerUp
  <2>2. h = "INIT_DONE"
    BY <1>2, <1>3, <2>1 DEF h
  <2> DEFINE f == sys_enter_idle
  <2>3. sm' = "IDLE" /\ Then(f)
    BY <1>4, <2>1, <2>2, RowsNeeded
  <2>4. /\ f \in Seq(Element) /\ Len(f) = 5 /\ DOMAIN f = 1 .. 5
        /\ \A i \in 1 .. 5 : f[i].do \in {"init", "start"}
    BY IdleOpsOK
  <2> HIDE DEF f
  <2>5. /\ DOMAIN todo' = 1 .. 5 + 2 - 1
        /\ \A i \in 1 .. 5 : todo'[i] = f[i]
        /\ \A i \in 5 + 1 .. 5 + 2 - 1 : todo'[i] = todo[i - 5 + 1]
    <3>1. /\ DOMAIN todo' = 1 .. Len(f) + Len(todo) - 1
          /\ \A i \in 1 .. Len(f) : todo'[i] = f[i]
          /\ \A i \in Len(f) + 1 .. Len(f) + Len(todo) - 1 : todo'[i] = todo[i - Len(f) + 1]
      BY <1>1, <2>3, <2>4, FirstIsHead, ThenElements
    <3> QED BY <2>1, <2>4, <3>1
  <2>6. 6 \in DOMAIN todo' /\ todo'[6] = Bit("CMD_WORK_ENABLE")
    BY <2>1, <2>5
  <2>7. \A i \in DOMAIN todo' : i # 6 => todo'[i].do \in {"init", "start"}
    BY <2>4, <2>5
  <2>8. Starting'
    BY <1>1, <2>1, <2>3, <2>6, <2>7 DEF Starting
  <2> QED BY <1>1, <1>9, <2>8 DEF Sound, Boot, Phase
<1>10. CASE Starting
  <2>1. Bit("CMD_WORK_ENABLE").do = "bit"
    BY KindsOfElements
  <2> QED BY <1>1, <1>2, <1>10, <2>1 DEF Starting
<1> QED BY <1>8, <1>9, <1>10 DEF Phase, Boot

\* The two bits of power-up are taken in the order Sys_State_Dispatch tests.
LEMMA TakeFirst ==
  ASSUME sys_sm_thread_entry, sys_evt = {"INIT_DONE", "CMD_WORK_ENABLE"}
  PROVE  Len(todo') = 2 /\ todo'[1] = Bit("INIT_DONE") /\ todo'[2] = Bit("CMD_WORK_ENABLE")
<1> DEFINE a == "INIT_DONE"
           b == "CMD_WORK_ENABLE"
<1>1. a # b
  OBVIOUS
<1>2. \A i \in DOMAIN BitOrder : (BitOrder[i] = a => i = 11) /\ (BitOrder[i] = b => i = 12)
  BY DEF BitOrder
<1>3. ~ TestedBefore(b, a)
  <2>1. ASSUME NEW i \in DOMAIN BitOrder, NEW j \in DOMAIN BitOrder, i < j, BitOrder[i] = b, BitOrder[j] = a
        PROVE  FALSE
    <3>1. i = 12 /\ j = 11
      BY <1>2, <2>1
    <3> QED BY <2>1, <3>1
  <2> QED BY <2>1 DEF TestedBefore
<1> HIDE DEF a, b
<1>4. Cardinality({a, b}) = 2
  <2>1. IsFiniteSet({a}) /\ Cardinality({a}) = 1 /\ b \notin {a}
    BY <1>1, FS_Singleton
  <2>2. Cardinality({a} \cup {b}) = 1 + 1
    BY <2>1, FS_AddElement
  <2>3. {a} \cup {b} = {a, b}
    OBVIOUS
  <2> QED BY <2>2, <2>3
<1>5. sys_evt = {a, b}
  BY DEF a, b
<1>6. PICK bits \in [1 .. Cardinality(sys_evt) -> sys_evt] :
        /\ Range(bits) = sys_evt
        /\ \A i, j \in DOMAIN bits : i < j => TestedBefore(bits[i], bits[j])
        /\ todo' = [i \in DOMAIN bits |-> Bit(bits[i])]
  BY DEF sys_sm_thread_entry
<1>7. DOMAIN bits = 1 .. 2
  BY <1>4, <1>5, <1>6
<1>8. PICK i \in 1 .. 2, j \in 1 .. 2 : bits[i] = a /\ bits[j] = b
  BY <1>5, <1>6, <1>7 DEF Range
<1>9. i = 1 /\ j = 2
  <2>1. i # j
    BY <1>1, <1>8
  <2>2. ~ (j < i)
    BY <1>3, <1>6, <1>7, <1>8
  <2> QED BY <2>1, <2>2
<1>10. todo' = [k \in 1 .. 2 |-> Bit(bits[k])]
  BY <1>6, <1>7
<1>11. Len(todo') = 2
  <2>1. todo' \in Seq({Bit(bits[k]) : k \in 1 .. 2}) /\ DOMAIN todo' = 1 .. 2
    BY <1>10
  <2>2. Len(todo') \in Nat /\ DOMAIN todo' = 1 .. Len(todo')
    BY <2>1, LenProperties
  <2> QED BY <2>1, <2>2
<1> QED BY <1>8, <1>9, <1>10, <1>11 DEF a, b

\* Taking the bits keeps the phase.
LEMMA PhaseTake ==
  ASSUME TodoOK, Obeyed, sys_evt \subseteq EventBit, Phase, sys_sm_thread_entry
  PROVE  Phase'
<1>1. /\ todo = <<>> /\ sys_evt' = {}
      /\ UNCHANGED <<mq, pins, hw_started, sm, fault_bits, prev_state>>
  BY DEF sys_sm_thread_entry, smVars, faultVars, arbVars
<1>2. \A i \in DOMAIN todo' : todo'[i].do = "bit" /\ todo'[i].evt \in sys_evt
  BY TakeStep
<1>3. DOMAIN todo = {} /\ Len(todo) = 0
  BY <1>1
<1>4. CASE Service
  <2>1. (AtWork \/ InFault) /\ sys_evt \subseteq Ordinary
    BY <1>3, <1>4 DEF Service, Struck, Stopping, Recovering, Calm, Resuming, OneEvent, TwoEvents
  <2>2. OrdinaryBits' /\ NoEvent'
    BY <1>2, <2>1 DEF OrdinaryBits, NoEvent
  <2>3. AtWork' \/ InFault'
    BY <1>1, <2>1, <2>2 DEF AtWork, InFault, Sound, Faulty
  <2> QED BY <1>1, <2>2, <2>3 DEF Service, Phase
<1>5. CASE Sound /\ PowerUp
  <2>1. sys_evt = {"INIT_DONE", "CMD_WORK_ENABLE"}
    BY <1>3, <1>5 DEF PowerUp
  <2>2. PowerUp'
    BY <1>1, <1>5, <2>1, TakeFirst DEF PowerUp
  <2> QED BY <1>1, <1>5, <2>2 DEF Sound, Boot, Phase
<1>6. CASE Starting
  BY <1>3, <1>6 DEF Starting
<1> QED BY <1>4, <1>5, <1>6 DEF Phase, Boot

\* The others send ordinary bits only.
LEMMA PhaseOthers ==
  ASSUME SysInv, Phase, UNCHANGED <<sm, fault_bits, prev_state, todo, hw_started>>,
         \/ Act
         \/ hw_started /\ \E new \in SUBSET Ordinary : sys_evt' = sys_evt \cup new
         \/ UNCHANGED <<sys_evt, mq, pins>>
  PROVE  Phase'
<1>1. /\ (OrdinaryBits => OrdinaryBits') /\ (NoEvent => NoEvent')
      /\ \A e : OneEvent(e) => OneEvent(e)'
      /\ \A e, f : TwoEvents(e, f) => TwoEvents(e, f)'
  BY DEF OrdinaryBits, NoEvent, OneEvent, TwoEvents
<1>2. sys_evt \subseteq Ordinary => sys_evt' \subseteq Ordinary
  BY DEF Act
<1>3. CASE Service
  BY <1>1, <1>2, <1>3 DEF Service, AtWork, InFault, Struck, Stopping, Recovering, Calm, Resuming,
                          Faulty, Sound, Phase
<1>4. CASE Sound /\ Starting
  BY <1>2, <1>4 DEF Sound, Starting, Boot, Phase
<1>5. CASE Sound /\ PowerUp
  <2>1. UNCHANGED <<sys_evt, mq, pins>>
    BY <1>5, ActStep DEF SysInv, PowerUp
  <2> QED BY <1>5, <2>1 DEF Sound, PowerUp, Boot, Phase
<1> QED BY <1>3, <1>4, <1>5 DEF Phase, Boot

-----------------------------------------------------------------------------
(* A voltage fault is not lost *)

\* A voltage event fed to the table finds the machine in RUN or in FAULT, and
\* leaves it in EMERGENCY or in FAULT.
LEMMA VoltEvent ==
  ASSUME TodoOK, sm \in State, Phase, StateMachine_SendEvent,
         NEW e \in {"VOLT_OVER", "VOLT_UNDER"}, Head(todo) = Send(e)
  PROVE  Down'
<1>1. /\ todo # <<>> /\ Head(todo).do = "event" /\ Head(todo).evt = e
      /\ todo[1] = Head(todo)
  BY EventCases, FirstIsHead, KindsOfElements
<1>2. ASSUME NEW x, OneEvent(x) PROVE x = e
  BY <1>1, <1>2, HeadOfTodo, KindsOfElements
<1>3. ~ TwoEvents("RECOVERY", "CMD_WORK_ENABLE") /\ ~ NoEvent
  BY <1>1, HeadOfTodo, KindsOfElements
<1>4. ~ PowerUp /\ ~ Starting
  <2>1. /\ Bit("INIT_DONE").do = "bit" /\ Send("INIT_DONE").evt = "INIT_DONE"
        /\ Bit("CMD_WORK_ENABLE").do = "bit"
    BY KindsOfElements
  <2>2. 1 \in DOMAIN todo
    BY <1>1, FirstIsHead
  <2> QED BY <1>1, <2>1, <2>2 DEF PowerUp, Starting
<1>5. Struck
  BY <1>2, <1>3, <1>4 DEF Phase, Boot, Service, AtWork, InFault, Stopping, Recovering, Calm, Resuming
<1>6. sm \in {"RUN", "FAULT"} /\ \E r \in sys_jump : r[1] = "RUN" /\ r[2] = e
  BY <1>5, RowsNeeded DEF Struck, Striking
<1> QED BY <1>1, <1>6, EventCases DEF Down

\* What is known of a voltage fault stays known until module m, to which it
\* may not have mattered yet, is initialised.
LEMMA KnownStep ==
  ASSUME SysInv, Phase, [SysNext]_sysVars, NEW m \in {"vm", "pol"}, Known(m)
  PROVE  Known(m)' \/ (Dev_Registry_InitAll /\ Head(todo).module = m)
<1>1. TodoOK /\ Obeyed /\ SysTypeOK /\ sm \in State /\ sys_evt \subseteq EventBit
  BY DEF SysInv, SysTypeOK
<1> DEFINE V == {"VOLT_OVER", "VOLT_UNDER"}
<1>2. /\ Init(m).do = "init" /\ Init(m).module = m
      /\ \A e : Bit(e).do = "bit" /\ Bit(e).evt = e /\ Send(e).do = "event" /\ Send(e).evt = e
  BY KindsOfElements
<1>3. CASE sys_sm_thread_entry
  <2>1. todo = <<>> /\ sm' = sm
    BY <1>3 DEF sys_sm_thread_entry, smVars
  <2>2. \A x : ~ Pending(x)
    BY <2>1 DEF Pending
  <2>3. \A e \in sys_evt : Pending(Bit(e))'
    BY <1>1, <1>3, TakeStep
  <2> QED BY <2>1, <2>2, <2>3 DEF Known, VoltComing, Down
<1>4. CASE SysSm /\ ~ sys_sm_thread_entry
  <2>1. /\ todo # <<>> /\ mq = <<>> /\ \A x : Pending(x) /\ x # Head(todo) => Pending(x)'
    BY <1>1, <1>4, SmKeepsRest
  <2>2. UNCHANGED sys_evt
    BY <1>4 DEF SysSm, StateMachine_SendEvent, Sys_State_Dispatch, OnOverCurrent, OnRodLimitFault,
                OnVoltFault, OnVoltNormal, OnPolarityChg, OnRecovery, OnPlainBit, OnRecoverWait,
                Sys_State_ArbSendCommand, Sys_State_SetArbEnable, Dev_Registry_InitAll, StartHardware, powerVars
  <2>3. CASE Down
    <3>1. CASE StateMachine_SendEvent
      <4>1. CASE Then(sys_enter_idle)
        <5>1. /\ sys_enter_idle \in Seq(Element) /\ todo \in Seq(Element)
              /\ \E i \in DOMAIN sys_enter_idle : sys_enter_idle[i] = Init(m)
          BY <1>1, IdleOpsOK DEF TodoOK
        <5>2. Pending(Init(m))'
          BY <2>1, <4>1, <5>1, ThenPending
        <5> QED BY <5>2 DEF Known
      <4>2. CASE sm' \in {sm, "EMERGENCY", "FAULT"}
        BY <2>3, <4>2 DEF Known, Down
      <4> QED BY <1>1, <2>3, <3>1, <4>1, <4>2, EventCases DEF Down
    <3>2. CASE ~ StateMachine_SendEvent
      <4>1. sm' = sm
        BY <1>4, <3>2 DEF SysSm, Sys_State_Dispatch, OnOverCurrent, OnRodLimitFault,
                OnVoltFault, OnVoltNormal, OnPolarityChg, OnRecovery, OnPlainBit, OnRecoverWait,
                Sys_State_ArbSendCommand, Sys_State_SetArbEnable, Dev_Registry_InitAll, StartHardware, smVars
      <4> QED BY <2>3, <4>1 DEF Known, Down
    <3> QED BY <3>1, <3>2
  <2>4. CASE \E e \in V : e \in sys_evt
    BY <2>2, <2>4 DEF Known, VoltComing
  <2>5. ASSUME NEW e \in V, Pending(Bit(e)) PROVE Known(m)'
    <3>1. CASE Head(todo) # Bit(e)
      BY <2>1, <2>5, <3>1 DEF Known, VoltComing
    <3>2. CASE Head(todo) = Bit(e)
      <4>1. Then(<<Send(e)>>)
        BY <1>2, <1>4, <3>2
           DEF SysSm, StateMachine_SendEvent, Sys_State_Dispatch, OnOverCurrent, OnRodLimitFault,
               OnVoltFault, OnVoltNormal, OnPolarityChg, OnRecovery, OnPlainBit, OnRecoverWait,
               Sys_State_ArbSendCommand, Sys_State_SetArbEnable, Dev_Registry_InitAll, StartHardware, Do
      <4>2. Send(e) \in Element
        BY KindsOfElements, Bits
      <4>3. <<Send(e)>> \in Seq(Element) /\ 1 \in DOMAIN <<Send(e)>> /\ <<Send(e)>>[1] = Send(e)
        BY <4>2, ShortOps
      <4>4. Pending(Send(e))'
        BY <1>1, <2>1, <4>1, <4>3, ThenPending DEF TodoOK
      <4> QED BY <4>4 DEF Known, VoltComing
    <3> QED BY <3>1, <3>2
  <2>6. ASSUME NEW e \in V, Pending(Send(e)) PROVE Known(m)'
    <3>1. CASE Head(todo) # Send(e)
      BY <2>1, <2>6, <3>1 DEF Known, VoltComing
    <3>2. CASE Head(todo) = Send(e)
      <4>1. StateMachine_SendEvent
        BY <1>2, <1>4, <3>2
           DEF SysSm, Sys_State_Dispatch, OnOverCurrent, OnRodLimitFault,
               OnVoltFault, OnVoltNormal, OnPolarityChg, OnRecovery, OnPlainBit, OnRecoverWait,
               Sys_State_ArbSendCommand, Sys_State_SetArbEnable, Dev_Registry_InitAll, StartHardware, Do
      <4>2. Down'
        BY <1>1, <3>2, <4>1, VoltEvent
      <4> QED BY <4>2 DEF Known
    <3> QED BY <3>1, <3>2
  <2>7. CASE Pending(Init(m))
    <3>1. CASE Head(todo) # Init(m)
      BY <2>1, <2>7, <3>1 DEF Known
    <3>2. CASE Head(todo) = Init(m)
      BY <1>2, <1>4, <3>2
           DEF SysSm, StateMachine_SendEvent, Sys_State_Dispatch, OnOverCurrent, OnRodLimitFault,
               OnVoltFault, OnVoltNormal, OnPolarityChg, OnRecovery, OnPlainBit, OnRecoverWait,
               Sys_State_ArbSendCommand, Sys_State_SetArbEnable, StartHardware, Do
    <3> QED BY <3>1, <3>2
  <2> QED BY <2>3, <2>4, <2>5, <2>6, <2>7 DEF Known, VoltComing
<1>5. CASE Act \/ PowerIsr \/ Polarity_Scan \/ cmd_sys_evt \/ Supply \/ UNCHANGED sysVars
  <2>1. UNCHANGED <<sm, todo>> /\ sys_evt \subseteq sys_evt'
    <3>1. CASE PowerIsr
      BY <1>1, <3>1, IsrStep DEF PowerIsr, smVars
    <3>2. CASE ~ PowerIsr
      BY <1>5, <3>2 DEF Act, Polarity_Scan, cmd_sys_evt, Supply, sysVars, smVars, powerVars
    <3> QED BY <3>1, <3>2
  <2> QED BY <2>1 DEF Known, VoltComing, Down, Pending
<1> QED BY <1>3, <1>4, <1>5 DEF SysNext

\* The detector's fault is known after every step.
LEMMA VoltKnownStep ==
  ASSUME SysInv, Phase, VoltKnown, [SysNext]_sysVars
  PROVE  VoltKnown'
<1>1. TodoOK /\ Obeyed /\ SysTypeOK
  BY DEF SysInv
<1>2. CASE PowerIsr
  <2>1. /\ hw_started /\ hw_started' = hw_started
        /\ vm.fault # 0 => vm'.fault \in {0, vm.fault}
        /\ vm'.fault # 0 /\ vm.fault = 0 => {"VOLT_OVER", "VOLT_UNDER"} \cap sys_evt' # {}
    BY <1>1, <1>2, IsrStep DEF PowerIsr
  <2>2. CASE vm.fault # 0
    <3>1. UNCHANGED <<sm, todo>> /\ sys_evt \subseteq sys_evt'
      BY <1>1, <1>2, IsrStep DEF PowerIsr, smVars
    <3>2. Known("vm")'
      BY <2>2, <3>1 DEF VoltKnown, Known, VoltComing, Down, Pending
    <3> QED BY <2>1, <3>2 DEF VoltKnown
  <2>3. CASE vm.fault = 0 /\ vm'.fault # 0
    BY <2>1, <2>3 DEF VoltKnown, Known, VoltComing
  <2> QED BY <2>1, <2>2, <2>3 DEF VoltKnown
<1>3. CASE Dev_Registry_InitAll /\ Head(todo).module = "vm"
  <2>1. vm'.fault = 0
    BY <1>3 DEF Dev_Registry_InitAll, BusVoltage_Init, VoltReset
  <2> QED BY <2>1 DEF VoltKnown
<1>4. CASE ~ PowerIsr /\ ~ (Dev_Registry_InitAll /\ Head(todo).module = "vm")
  <2>1. UNCHANGED vm /\ (hw_started => hw_started')
    <3>1. CASE Sys_State_Dispatch
      BY <1>1, <3>1, BitLeaves
    <3>2. CASE Dev_Registry_InitAll
      BY <1>4, <3>2 DEF Dev_Registry_InitAll
    <3>3. CASE StartHardware
      BY <3>3 DEF StartHardware, powerVars
    <3>4. CASE sys_sm_thread_entry \/ StateMachine_SendEvent \/ Sys_State_ArbSendCommand \/ Sys_State_SetArbEnable
      BY <3>4 DEF sys_sm_thread_entry, StateMachine_SendEvent, Sys_State_ArbSendCommand,
                  Sys_State_SetArbEnable, powerVars
    <3>5. CASE Polarity_Scan
      BY <1>1, <3>5, ScanStep
    <3>6. CASE Act \/ cmd_sys_evt \/ Supply \/ UNCHANGED sysVars
      BY <3>6 DEF Act, cmd_sys_evt, Supply, sysVars, powerVars
    <3> QED BY <1>4, <3>1, <3>2, <3>3, <3>4, <3>5, <3>6 DEF SysNext, SysSm
  <2>2. vm.fault # 0 => Known("vm")'
    BY <1>4, KnownStep DEF VoltKnown
  <2> QED BY <2>1, <2>2 DEF VoltKnown
<1> QED BY <1>2, <1>3, <1>4

\* ... and that of a lost supply.
LEMMA UnpoweredKnownStep ==
  ASSUME SysInv, Phase, VoltKnown, UnpoweredKnown, [SysNext]_sysVars
  PROVE  UnpoweredKnown'
<1>1. TodoOK /\ Obeyed /\ SysTypeOK
  BY DEF SysInv
<1>2. CASE Polarity_Scan /\ pol' = "unpowered"
  <2>1. vm.fault = 1 /\ ~ Initialising /\ UNCHANGED <<sm, todo>> /\ sys_evt \subseteq sys_evt'
    BY <1>1, <1>2 DEF Polarity_Scan, smVars, SysTypeOK, Dir
  <2>2. ~ Pending(Init("vm"))
    BY <2>1, KindsOfElements DEF Pending, Initialising
  <2>3. VoltComing \/ Down
    BY <2>1, <2>2 DEF VoltKnown, Known
  <2> QED BY <2>1, <2>3 DEF UnpoweredKnown, Known, VoltComing, Down, Pending
<1>3. CASE Dev_Registry_InitAll /\ Head(todo).module = "pol"
  BY <1>3 DEF Dev_Registry_InitAll, UnpoweredKnown
<1>4. CASE ~ (Polarity_Scan /\ pol' = "unpowered") /\ ~ (Dev_Registry_InitAll /\ Head(todo).module = "pol")
  <2>1. pol' = pol \/ pol' # "unpowered"
    <3>1. CASE Sys_State_Dispatch
      BY <1>1, <3>1, BitLeaves
    <3>2. CASE ~ Sys_State_Dispatch
      BY <1>4, <3>2
         DEF SysNext, SysSm, sys_sm_thread_entry, StateMachine_SendEvent, Sys_State_ArbSendCommand,
             Sys_State_SetArbEnable, Dev_Registry_InitAll, StartHardware, Act, PowerIsr, cmd_sys_evt,
             Supply, sysVars
    <3> QED BY <3>1, <3>2
  <2>2. pol = "unpowered" => Known("pol")'
    BY <1>4, KnownStep DEF UnpoweredKnown
  <2> QED BY <2>1, <2>2 DEF UnpoweredKnown
<1> QED BY <1>2, <1>3, <1>4

-----------------------------------------------------------------------------
(* The motor and the polarity *)

\* Nothing is being initialised after a step that enters no IDLE.
LEMMA StillNotInitialising ==
  ASSUME TodoOK, todo # <<>>, NEW ops \in Seq(Element), Then(ops), ~ Initialising,
         \A i \in DOMAIN ops : ops[i].do \notin {"init", "start"}
  PROVE  ~ Initialising'
  BY FirstIsHead, ThenMoves DEF Initialising

\* The machine leaves an emergency or a fault with the motor at a stand.
LEMMA LeavesAtStand ==
  ASSUME SysInv, Phase, StateMachine_SendEvent, Then(sys_enter_idle), sm' = "IDLE"
  PROVE  pins = "stop"
<1>1. TodoOK /\ Obeyed /\ sm \in State
  BY DEF SysInv, SysTypeOK
<1>2. /\ todo # <<>> /\ mq = <<>> /\ Head(todo).do = "event"
      /\ \/ sm \in {"STOP", "FAULT", "EMERGENCY"} /\ Head(todo).evt = "RECOVERY"
         \/ sm = "INIT"
         \/ sm = "IDLE" /\ \A r \in sys_jump : ~ (r[1] = sm /\ r[2] = Head(todo).evt)
  BY <1>1, EventCases
<1>3. CASE sm = "FAULT"
  <2>1. ASSUME NEW a \in Axis PROVE ~ Pending(Post(EStopMsg(a), TRUE)) /\ mq # <<EStopMsg(a)>>
    <3>1. Post(EStopMsg(a), TRUE).do = "post"
      BY KindsOfElements
    <3> QED BY <1>1, <1>2, <3>1, BehindEvent DEF Pending
  <2> QED BY <1>1, <1>3, <2>1 DEF Obeyed, FaultStops
<1>4. CASE sm = "INIT"
  BY <1>4 DEF Phase, Boot, PowerUp, Starting, Service, AtWork, InFault, Struck, Stopping, Recovering,
              Calm, Resuming
<1>5. CASE sm = "EMERGENCY" /\ Head(todo).evt = "RECOVERY"
  <2>1. OneEvent("FAULT")
    BY <1>5 DEF Phase, Boot, PowerUp, Starting, Service, AtWork, InFault, Struck, Stopping, Recovering,
                Calm, Resuming
  <2>2. Head(todo) = Send("FAULT") /\ Send("FAULT").evt = "FAULT"
    BY <1>1, <1>2, <2>1, HeadOfTodo, KindsOfElements
  <2> QED BY <1>5, <2>2
<1>6. CASE sm = "IDLE" /\ \A r \in sys_jump : ~ (r[1] = sm /\ r[2] = Head(todo).evt)
  <2>1. OneEvent("CMD_WORK_ENABLE")
    <3>1. ~ Starting
      <4>1. Bit("CMD_WORK_ENABLE").do = "bit" /\ todo[1] = Head(todo) /\ 1 \in DOMAIN todo
        BY <1>1, <1>2, FirstIsHead, KindsOfElements
      <4> QED BY <1>2, <4>1 DEF Starting
    <3> QED BY <1>6, <3>1 DEF Phase, Boot, PowerUp, Service, AtWork, InFault, Struck, Stopping,
                               Recovering, Calm, Resuming
  <2>2. Head(todo) = Send("CMD_WORK_ENABLE") /\ Send("CMD_WORK_ENABLE").evt = "CMD_WORK_ENABLE"
    BY <1>1, <1>2, <2>1, HeadOfTodo, KindsOfElements
  <2> QED BY <1>6, <2>2, RowsNeeded
<1>7. sm # "STOP"
  BY DEF Phase, Boot, PowerUp, Starting, Service, AtWork, InFault, Struck, Stopping, Recovering,
         Calm, Resuming
<1> QED BY <1>2, <1>3, <1>4, <1>5, <1>6, <1>7

\* Every step keeps the reason why the motor turns.
LEMMA DrivingStep ==
  ASSUME SysInv, ArbUse, Phase, Driving, [SysNext]_sysVars
  PROVE  Driving'
<1>1. TodoOK /\ Obeyed /\ ArbInv /\ SysTypeOK /\ sm \in State /\ sys_evt \subseteq EventBit
  BY DEF SysInv, SysTypeOK
<1>2. CASE Act
  <2>1. UNCHANGED <<pol, todo>>
    BY <1>2 DEF Act
  <2> QED BY <1>2, <2>1, ActUse DEF Driving, Initialising
<1>3. CASE Polarity_Scan
  <2>1. ~ Initialising
    BY <1>3 DEF Polarity_Scan
  <2>2. /\ UNCHANGED <<pins, todo>>
        /\ \/ pol' = "unpowered"
           \/ pol' = pin /\ pin' = pin /\ pin \in Dir /\ mq' = <<RunMsg(pin)>>
    BY <1>1, <1>3, ScanStep
  <2>3. ~ Initialising'
    BY <2>1, <2>2 DEF Initialising
  <2>4. \/ pol' = "unpowered" \/ (pol' \in Dir /\ mq' = <<RunMsg(pol')>>)
    BY <2>2
  <2>5. (pol \in Dir /\ mq = <<RunMsg(pol)>>)' <=> (pol' \in Dir /\ mq' = <<RunMsg(pol')>>)
    BY DEF RunMsg, Cmd
  <2> QED BY <2>3, <2>4, <2>5 DEF Driving
\* A step that leaves motor, polarity and commands alone.
<1>4. ASSUME UNCHANGED <<pins, pol>>, mq = <<>> \/ mq' = mq, Down => Down', ~ Initialising => ~ Initialising'
      PROVE  Driving'
  <2>1. CASE pins = "stop"
    BY <1>4, <2>1 DEF Driving
  <2>2. CASE pins # "stop"
    <3>1. ~ Initialising'
      BY <1>4, <2>2 DEF Driving
    <3>2. \/ pol \in Dir /\ pins = Physical(pol)
          \/ pol \in Dir /\ mq = <<RunMsg(pol)>>
          \/ pol = "unpowered" \/ Down
      BY <2>2 DEF Driving
    <3>3. CASE pol \in Dir /\ mq = <<RunMsg(pol)>>
      <4>1. mq' = mq
        BY <1>4, <3>3
      <4> QED BY <1>4, <3>1, <3>3, <4>1 DEF Driving, RunMsg, Cmd
    <3>4. CASE pol \in Dir /\ pins = Physical(pol)
      BY <1>4, <3>1, <3>4 DEF Driving, Physical
    <3>5. CASE pol = "unpowered" \/ Down
      BY <1>4, <3>1, <3>5 DEF Driving
    <3> QED BY <3>2, <3>3, <3>4, <3>5
  <2> QED BY <2>1, <2>2
<1>5. CASE StateMachine_SendEvent
  <2>1. /\ todo # <<>> /\ mq = <<>> /\ UNCHANGED <<pins, pol>>
    BY <1>1, <1>5, EventCases DEF StateMachine_SendEvent, powerVars
  <2>2. CASE Then(sys_enter_idle) /\ sm' = "IDLE"
    BY <1>5, <2>1, <2>2, LeavesAtStand DEF Driving
  <2>3. CASE Then(<<>>) /\ (Down => Down')
    BY <1>1, <1>4, <2>1, <2>3, ShortOps, StillNotInitialising
  <2>4. CASE Then(sys_enter_emergency) /\ sm' = "EMERGENCY"
    <3>1. \A i \in DOMAIN sys_enter_emergency : sys_enter_emergency[i].do \notin {"init", "start"}
      BY EmergencyOpsOK
    <3>2. ~ Initialising => ~ Initialising'
      BY <1>1, <2>1, <2>4, <3>1, EmergencyOpsOK, StillNotInitialising
    <3> QED BY <1>4, <2>1, <2>4, <3>2 DEF Down
  <2>5. CASE Then(sys_enter_fault) /\ sm' = "FAULT"
    <3> DEFINE f == sys_enter_fault
    <3>1. \A i \in DOMAIN f : \E a \in Axis : f[i] = Enable(a, FALSE) \/ f[i] = Post(EStopMsg(a), TRUE)
      BY FaultOpsOK
    <3>2. \A a \in Axis : Enable(a, FALSE).do = "enable" /\ Post(EStopMsg(a), TRUE).do = "post"
      BY KindsOfElements
    <3>3. f \in Seq(Element)
      BY FaultOpsOK
    <3> HIDE DEF f
    <3>4. \A i \in DOMAIN f : f[i].do \notin {"init", "start"}
      BY <3>1, <3>2
    <3>5. ~ Initialising => ~ Initialising'
      BY <1>1, <2>1, <2>5, <3>3, <3>4, StillNotInitialising DEF f
    <3> QED BY <1>4, <2>1, <2>5, <3>5 DEF Down
  <2> QED BY <1>1, <1>5, <2>2, <2>3, <2>4, <2>5, EventCases DEF Down
<1>6. CASE Sys_State_Dispatch
  <2>1. PICK ops \in Seq(Element) : BitOps(ops)
    BY <1>1, <1>6, BitLeaves
  <2>2. todo # <<>> /\ mq = <<>> /\ UNCHANGED <<pins, pol, sm>>
    BY <1>1, <1>6, BitLeaves
  <2>3. Then(ops) /\ \A i \in DOMAIN ops : ops[i].do \notin {"init", "start"}
    BY <2>1 DEF BitOps
  <2>4. ~ Initialising => ~ Initialising'
    BY <1>1, <2>2, <2>3, StillNotInitialising
  <2> QED BY <1>4, <2>2, <2>4 DEF Down
<1>7. CASE Sys_State_ArbSendCommand \/ Sys_State_SetArbEnable \/ Dev_Registry_InitAll \/ StartHardware
  <2>1. todo # <<>> /\ mq = <<>> /\ Then(<<>>) /\ UNCHANGED <<pins, sm>>
    BY <1>7 DEF Sys_State_ArbSendCommand, Sys_State_SetArbEnable, Dev_Registry_InitAll, StartHardware,
                Do, smVars, powerVars
  <2>2. ~ Initialising => ~ Initialising'
    BY <1>1, <2>1, ShortOps, StillNotInitialising
  <2>3. CASE ~ Dev_Registry_InitAll
    <3>1. UNCHANGED pol
      BY <1>7, <2>3 DEF Sys_State_ArbSendCommand, Sys_State_SetArbEnable, StartHardware
    <3> QED BY <1>4, <2>1, <2>2, <3>1 DEF Down
  <2>4. CASE Dev_Registry_InitAll
    <3>1. Initialising
      BY <1>1, <2>1, <2>4, FirstIsHead DEF Dev_Registry_InitAll, Do, Initialising
    <3> QED BY <2>1, <3>1 DEF Driving
  <2> QED BY <2>3, <2>4
<1>8. CASE sys_sm_thread_entry
  <2>1. UNCHANGED <<pins, pol, sm, mq>>
    BY <1>8 DEF sys_sm_thread_entry, smVars, arbVars
  <2>2. \A i \in DOMAIN todo' : todo'[i].do = "bit"
    BY <1>1, <1>8, TakeStep
  <2>3. ~ Initialising'
    BY <2>2 DEF Initialising
  <2> QED BY <1>4, <2>1, <2>3 DEF Down
<1>9. CASE PowerIsr \/ cmd_sys_evt \/ Supply \/ UNCHANGED sysVars
  <2>1. UNCHANGED <<pins, pol, sm, mq, todo>>
    BY <1>9 DEF PowerIsr, Dev_Power_Isr1ms, cmd_sys_evt, Supply, sysVars, smVars, arbVars, powerVars
  <2> QED BY <1>4, <2>1 DEF Down, Initialising
<1> QED BY <1>2, <1>3, <1>5, <1>6, <1>7, <1>8, <1>9 DEF SysNext, SysSm

-----------------------------------------------------------------------------
(* The theorems *)

\* Every step keeps the phase or moves to the next.
LEMMA PhaseStep ==
  ASSUME SysInv, Phase, [SysNext]_sysVars, hand' = 0, hand \in Nat
  PROVE  Phase'
<1>1. TodoOK /\ Obeyed /\ ArbInv /\ SysTypeOK /\ sm \in State /\ sys_evt \subseteq EventBit
      /\ fault_bits \subseteq Fault /\ arb \in [Axis -> ArbData]
  BY DEF SysInv, SysTypeOK, ArbTypeOK
<1>2. CASE SysSm
  BY <1>1, <1>2, PhaseTake, PhaseEvent, PhaseBit, PhaseCall DEF SysSm
<1>3. CASE Act
  BY <1>3, PhaseOthers DEF Act, smVars, faultVars
<1>4. CASE PowerIsr
  <2>1. /\ hw_started /\ UNCHANGED <<sm, fault_bits, prev_state, todo, hw_started>>
        /\ sys_evt \subseteq sys_evt'
        /\ sys_evt' \subseteq sys_evt \cup {"VOLT_RECOVER_WAIT", "VOLT_OVER", "VOLT_UNDER",
                                              "VOLT_NORMAL", "OVER_CURRENT"}
    BY <1>1, <1>4, IsrStep DEF PowerIsr, smVars, faultVars
  <2>2. sys_evt' = sys_evt \cup (sys_evt' \ sys_evt) /\ sys_evt' \ sys_evt \subseteq Ordinary
    BY <2>1 DEF Ordinary
  <2>3. \E new \in SUBSET Ordinary : sys_evt' = sys_evt \cup new
    BY <2>2
  <2> QED BY <2>1, <2>3, PhaseOthers
<1>5. CASE Polarity_Scan
  <2>1. /\ UNCHANGED <<sm, fault_bits, prev_state, todo, hw_started>>
        /\ sys_evt' = sys_evt \/ sys_evt' = sys_evt \cup {"POLARITY_CHG"}
    BY <1>1, <1>5, ScanStep
  <2>2. {} \in SUBSET Ordinary /\ {"POLARITY_CHG"} \in SUBSET Ordinary /\ sys_evt = sys_evt \cup {}
    BY DEF Ordinary
  <2>3. \E new \in SUBSET Ordinary : sys_evt' = sys_evt \cup new
    BY <2>1, <2>2
  <2>4. hw_started
    BY <1>5 DEF Polarity_Scan
  <2> QED BY <2>1, <2>3, <2>4, PhaseOthers
<1>6. CASE cmd_sys_evt
  BY <1>6 DEF cmd_sys_evt
<1>7. CASE Supply \/ UNCHANGED sysVars
  BY <1>7, PhaseOthers DEF Supply, sysVars, smVars, faultVars, arbVars, powerVars
<1> QED BY <1>2, <1>3, <1>4, <1>5, <1>6, <1>7 DEF SysNext

\* Without a hand on the shell the three parts hold together.
LEMMA HandsOffStep == SysInv /\ ArbUse /\ HandsOff /\ [SysNext]_sysVars => HandsOff'
<1> SUFFICES ASSUME SysInv, ArbUse, HandsOff, [SysNext]_sysVars, hand' = 0 PROVE HandsOff'
  BY DEF HandsOff
<1>1. hand \in Nat
  BY SysConstants DEF SysInv, SysTypeOK
<1>2. hand = 0
  <2>1. hand' = hand \/ hand' = hand + 1
    <3>1. CASE Sys_State_Dispatch
      BY <3>1, BitLeaves DEF SysInv
    <3>2. CASE ~ Sys_State_Dispatch
      BY <3>2 DEF SysNext, SysSm, sys_sm_thread_entry, StateMachine_SendEvent, Sys_State_ArbSendCommand,
             Sys_State_SetArbEnable, Dev_Registry_InitAll, StartHardware, Act, PowerIsr, Polarity_Scan,
             cmd_sys_evt, Supply, sysVars, envVars
    <3> QED BY <3>1, <3>2
  <2> QED BY <1>1, <2>1
<1>3. Phase /\ VoltKnown /\ UnpoweredKnown /\ Driving
  BY <1>2 DEF HandsOff
<1>4. Phase' /\ VoltKnown' /\ UnpoweredKnown' /\ Driving'
  BY <1>1, <1>3, PhaseStep, VoltKnownStep, UnpoweredKnownStep, DrivingStep
<1> QED BY <1>4 DEF HandsOff

\* The invariant holds after App_Model_Init.
LEMMA RunInit == App_Model_Init => RunInv
<1> SUFFICES ASSUME App_Model_Init PROVE RunInv
  OBVIOUS
<1>1. /\ todo = <<>> /\ mq = <<>> /\ sys_evt = {"INIT_DONE", "CMD_WORK_ENABLE"} /\ fault_bits = {}
      /\ pol = "unknown" /\ sm = "INIT" /\ pins = "stop" /\ ~ hw_started /\ vm.fault = 0
      /\ arb = [a \in Axis |-> EmptyData]
  BY DEF App_Model_Init, ArbInit, PowerInit
<1>2. DOMAIN todo = {}
  BY <1>1
<1>3. \A a \in Axis, dir \in Dir : arb[a].block[dir] = <<>> /\ arb[a].allow[dir] = <<>>
  BY <1>1 DEF EmptyData
<1>4. PowerOnly /\ FollowsPolarity
  BY <1>3, EmptyQueueOK, SysConstants DEF PowerOnly, PowerData, FollowsPolarity
<1>5. ArbUse
  BY <1>1, <1>2, <1>4 DEF ArbUse, PostsStop, QueuedStops, InitQuiet, InitOrder
<1>6. ReversalSeen
  BY <1>1 DEF ReversalSeen
<1>7. Phase
  BY <1>1 DEF Phase, Boot, Sound, PowerUp
<1>8. VoltKnown /\ UnpoweredKnown /\ Driving
  BY <1>1 DEF VoltKnown, UnpoweredKnown, Driving
<1> QED BY <1>5, <1>6, <1>7, <1>8, SysInitInv DEF RunInv, HandsOff

\* The invariant that explains a run: how the arbiter is used, which reversal
\* is still to be seen and, without a hand on the shell, the phase of fault
\* and recovery, what is known of the voltage and why the motor turns.
THEOREM SysRunInvariant == SysSpec => []RunInv
<1>1. RunInv /\ [SysNext]_sysVars => RunInv'
  BY SysArbInv, SysObeyed, SysTypes, UseStep, ReversalStep, HandsOffStep DEF RunInv, SysInv
<1> QED BY <1>1, RunInit, PTL DEF SysSpec

\* Nothing is pending at rest.
LEMMA NothingPending == Settled => \A x : ~ Pending(x)
<1>1. DOMAIN <<>> = {}
  OBVIOUS
<1> QED BY <1>1 DEF Settled, Pending

\* At rest the machine is at work or in FAULT, if it has been started.
LEMMA RestingPhase == RunInv /\ Settled /\ hand = 0 /\ sm # "INIT" => AtWork \/ InFault
<1>1. DOMAIN <<>> = {}
  OBVIOUS
<1> QED BY <1>1 DEF RunInv, HandsOff, Settled, Phase, Boot, PowerUp, Starting, Service, Struck, Stopping,
                    Recovering, Calm, Resuming, OneEvent, TwoEvents

\* Left alone, Sys_State_Dispatch brings the machine to rest in FAULT while a
\* fault bit stands and in RUN otherwise.
THEOREM SysFaultBitsExplainState == SysSpec => []FaultBitsExplainState
<1>1. RunInv => FaultBitsExplainState
  BY RestingPhase DEF FaultBitsExplainState, AtWork, InFault, Sound, Faulty
<1> QED BY <1>1, SysRunInvariant, PTL

\* Left alone, the machine never rests outside FAULT while the detector of
\* dev_bus_voltage.c holds a fault: the event that reported it is never lost
\* to merging, to the order of handling or to the reset in sys_enter_idle.
THEOREM SysVoltFaultHolds == SysSpec => []VoltFaultHolds
<1>1. RunInv => VoltFaultHolds
  <2> SUFFICES ASSUME RunInv, Quiet, vm.fault # 0, hand = 0 PROVE sm = "FAULT"
    BY DEF VoltFaultHolds
  <2>1. Known("vm") /\ Settled /\ sys_evt = {}
    BY DEF RunInv, HandsOff, VoltKnown, Quiet
  <2>2. Down
    BY <2>1, NothingPending DEF Known, VoltComing
  <2> QED BY <2>1, <2>2, RestingPhase DEF Down, AtWork, InFault
<1> QED BY <1>1, SysRunInvariant, PTL

\* No over-current stands at rest against a supply that has been turned round
\* since, whatever the shell sends.
THEOREM SysReversalForgives == SysSpec => []ReversalForgives
<1>1. RunInv => ReversalForgives
  BY NothingPending DEF RunInv, ReversalSeen, ReversalForgives, Quiet
<1> QED BY <1>1, SysRunInvariant, PTL

\* Left alone, a motor that turns at rest turns as the polarity scan saw last.
THEOREM SysDriveMatchesPolarity == SysSpec => []DriveMatchesPolarity
<1>1. RunInv => DriveMatchesPolarity
  <2> SUFFICES ASSUME RunInv, Quiet, pins # "stop", hand = 0 PROVE pins = Physical(pol)
    BY DEF DriveMatchesPolarity
  <2>1. Settled /\ sys_evt = {} /\ mq = <<>> /\ todo = <<>>
    BY DEF Quiet, Settled
  <2>2. ~ Down
    <3>1. sm # "FAULT"
      <4>1. FaultStops
        BY DEF RunInv, SysInv, Obeyed
      <4>2. \A a : mq # <<EStopMsg(a)>>
        BY <2>1
      <4> QED BY <2>1, <4>1, <4>2, NothingPending DEF FaultStops
    <3> QED BY <2>1, <3>1, RestingPhase DEF Down, AtWork, InFault
  <2>3. pol # "unpowered"
    BY <2>1, <2>2, NothingPending DEF RunInv, HandsOff, UnpoweredKnown, Known, VoltComing
  <2>4. mq # <<RunMsg(pol)>>
    BY <2>1
  <2> QED BY <2>2, <2>3, <2>4 DEF RunInv, HandsOff, Driving
<1> QED BY <1>1, SysRunInvariant, PTL
=============================================================================
