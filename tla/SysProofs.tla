------------------------------ MODULE SysProofs ------------------------------
(***************************************************************************)
(* The system state machine of dev_state.c with arbiter, detectors and     *)
(* polarity scan, for any number of axes, any shell commands and any       *)
(* timing of the detectors: what the states promise holds at rest.         *)
(***************************************************************************)
EXTENDS SysState, ArbiterProofs, FiniteSetTheorems

Module == {"cur", "vm", "pol", "act"}

\* What sys_sm may have to do.  An axis is only ever disabled this way: no row
\* of the table leads from FAULT to RUN.
Element ==
  [do : {"bit", "event"}, evt : EventBit] \cup
  [do : {"post"}, msg : Msg, urgent : BOOLEAN] \cup
  [do : {"enable"}, axis : Axis, on : {FALSE}] \cup
  [do : {"init"}, module : Module] \cup {StartHw}

Pending(x) == \E i \in DOMAIN todo : todo[i] = x

\* Calls come before events, events before bits.
InOrder(s) ==
  \A i, j \in DOMAIN s : i < j =>
    /\ s[i].do = "bit" => s[j].do = "bit"
    /\ s[i].do = "event" => s[j].do \in {"event", "bit"}

TodoOK == todo \in Seq(Element) /\ InOrder(todo)

\* At most one command is queued: its sender waits for act.
OneQueued == Len(mq) <= 1

\* An axis is disabled in FAULT only, and an emergency stop follows at once.
DisableThenStop ==
  \A i \in DOMAIN todo : todo[i].do = "enable" =>
    /\ sm = "FAULT"
    /\ i + 1 \in DOMAIN todo /\ todo[i + 1] = Post(EStopMsg(todo[i].axis), TRUE)

\* Modules are initialised outside FAULT.
InitNotInFault == \A i \in DOMAIN todo : todo[i].do = "init" => sm # "FAULT"

\* In FAULT every axis is disabled or about to be.
FaultDisables == sm = "FAULT" => \A a \in Axis : ~ arb[a].enable \/ Pending(Enable(a, FALSE))

\* In FAULT a motor that turns has an emergency stop before it.
FaultStops ==
  sm = "FAULT" /\ pins # "stop" =>
    \E a \in Axis : Pending(Post(EStopMsg(a), TRUE)) \/ mq = <<EStopMsg(a)>>

\* Outside FAULT every axis is enabled or the arbiter about to be initialised.
OthersEnable == sm # "FAULT" => Pending(Init("act")) \/ \A a \in Axis : arb[a].enable

Obeyed ==
  /\ DisableThenStop /\ InitNotInFault /\ FaultDisables /\ FaultStops /\ OthersEnable

SysInv == ArbInv /\ SysTypeOK /\ TodoOK /\ OneQueued /\ Obeyed
-----------------------------------------------------------------------------
(* What sys_sm has to do *)

\* An element shows what it is.
LEMMA ElementKinds ==
  ASSUME NEW x \in Element
  PROVE  /\ x.do \in {"bit", "event", "post", "enable", "init", "start"}
         /\ x.do = "bit" => x.evt \in EventBit /\ x = Bit(x.evt)
         /\ x.do = "event" => x.evt \in EventBit /\ x = Send(x.evt)
         /\ x.do = "post" => x.msg \in Msg /\ x.urgent \in BOOLEAN /\ x = Post(x.msg, x.urgent)
         /\ x.do = "enable" => x.axis \in Axis /\ x = Enable(x.axis, FALSE) /\ ~ x.on
         /\ x.do = "init" => x.module \in Module /\ x = Init(x.module)
<1>1. CASE x \in [do : {"bit", "event"}, evt : EventBit]
  BY <1>1 DEF Bit, Send
<1>2. CASE x \in [do : {"post"}, msg : Msg, urgent : BOOLEAN]
  BY <1>2 DEF Post
<1>3. CASE x \in [do : {"enable"}, axis : Axis, on : {FALSE}]
  BY <1>3 DEF Enable
<1>4. CASE x \in [do : {"init"}, module : Module]
  BY <1>4 DEF Init
<1>5. CASE x = StartHw
  BY <1>5 DEF StartHw
<1> QED BY <1>1, <1>2, <1>3, <1>4, <1>5 DEF Element

\* ... and the other way round.
LEMMA KindsOfElements ==
  /\ \A e \in EventBit : Bit(e) \in Element
  /\ \A e \in EventBit : Send(e) \in Element
  /\ \A m \in Msg : Post(m, TRUE) \in Element /\ Post(m, FALSE) \in Element
  /\ \A a \in Axis : Enable(a, FALSE) \in Element
  /\ \A m \in Module : Init(m) \in Element
  /\ StartHw \in Element /\ StartHw.do = "start"
  /\ \A e : Bit(e).do = "bit" /\ Bit(e).evt = e
  /\ \A e : Send(e).do = "event" /\ Send(e).evt = e
  /\ \A m : /\ Post(m, TRUE).do = "post" /\ Post(m, TRUE).msg = m /\ Post(m, TRUE).urgent
            /\ Post(m, FALSE).do = "post" /\ Post(m, FALSE).msg = m /\ ~ Post(m, FALSE).urgent
  /\ \A a : Enable(a, FALSE).do = "enable" /\ Enable(a, FALSE).axis = a /\ ~ Enable(a, FALSE).on
  /\ \A m : Init(m).do = "init" /\ Init(m).module = m
<1>1. \A e \in EventBit : Bit(e) \in Element
  BY DEF Element, Bit
<1>2. \A e \in EventBit : Send(e) \in Element
  BY DEF Element, Send
<1>3. \A m \in Msg : Post(m, TRUE) \in Element /\ Post(m, FALSE) \in Element
  BY DEF Element, Post
<1>4. \A a \in Axis : Enable(a, FALSE) \in Element
  BY DEF Element, Enable
<1>5. \A m \in Module : Init(m) \in Element
  BY DEF Element, Init
<1>6. StartHw \in Element /\ StartHw.do = "start"
  BY DEF Element, StartHw
<1>7. \A e : Bit(e).do = "bit" /\ Bit(e).evt = e
  BY DEF Bit
<1>8. \A e : Send(e).do = "event" /\ Send(e).evt = e
  BY DEF Send
<1>9. \A m : /\ Post(m, TRUE).do = "post" /\ Post(m, TRUE).msg = m /\ Post(m, TRUE).urgent
             /\ Post(m, FALSE).do = "post" /\ Post(m, FALSE).msg = m /\ ~ Post(m, FALSE).urgent
  BY DEF Post
<1>10. \A a : Enable(a, FALSE).do = "enable" /\ Enable(a, FALSE).axis = a /\ ~ Enable(a, FALSE).on
  BY DEF Enable
<1>11. \A m : Init(m).do = "init" /\ Init(m).module = m
  BY DEF Init
<1> QED BY <1>1, <1>2, <1>3, <1>4, <1>5, <1>6, <1>7, <1>8, <1>9, <1>10, <1>11, PTL

\* The messages sys_sm and di send are commands the arbiter accepts.
LEMMA MsgOK ==
  /\ \A dir \in Dir : RunMsg(dir) \in Msg /\ ClearMsg(dir) \in Msg
  /\ \A a \in Axis : EStopMsg(a) \in Msg /\ EStopMsg(a).axis = a
                      /\ EStopMsg(a).verb = "EMERGENCY_STOP"
<1>1. PrioPower \in Nat /\ PowerPos \in Device /\ PowerNeg \in Device
  BY ArbConstants
<1>2. MainAxis \in Axis /\ Emergency \in Device /\ RunDuty \in 0 .. 100
  BY SysConstants
<1> QED BY <1>1, <1>2 DEF RunMsg, ClearMsg, EStopMsg, Cmd, Msg, Verb, Dir

\* The first thing to do is replaced by ops.
LEMMA ThenElements ==
  ASSUME todo \in Seq(Element), todo # <<>>, NEW ops \in Seq(Element), Then(ops)
  PROVE  /\ todo' \in Seq(Element)
         /\ Len(ops) \in Nat /\ Len(todo) \in Nat /\ Len(todo) >= 1
         /\ DOMAIN todo = 1 .. Len(todo) /\ DOMAIN ops = 1 .. Len(ops)
         /\ Head(todo) = todo[1] /\ Head(todo) \in Element
         /\ DOMAIN todo' = 1 .. Len(ops) + Len(todo) - 1
         /\ \A i \in 1 .. Len(ops) : todo'[i] = ops[i]
         /\ \A i \in Len(ops) + 1 .. Len(ops) + Len(todo) - 1 : todo'[i] = todo[i - Len(ops) + 1]
<1> DEFINE t == Tail(todo)
<1>1. /\ Len(todo) \in Nat /\ Len(todo) >= 1 /\ DOMAIN todo = 1 .. Len(todo)
      /\ Len(ops) \in Nat /\ DOMAIN ops = 1 .. Len(ops)
  BY LenProperties, EmptySeq
<1>2. /\ t \in Seq(Element) /\ Len(t) = Len(todo) - 1
      /\ \A i \in 1 .. Len(todo) - 1 : t[i] = todo[i + 1]
      /\ Head(todo) = todo[1] /\ Head(todo) \in Element
  BY <1>1, HeadTailProperties
<1>3. todo' = ops \o t
  BY DEF Then
<1> HIDE DEF t
<1>4. /\ todo' \in Seq(Element) /\ Len(todo') = Len(ops) + Len(t)
      /\ \A i \in 1 .. Len(ops) + Len(t) : todo'[i] = IF i <= Len(ops) THEN ops[i] ELSE t[i - Len(ops)]
  BY <1>2, <1>3, ConcatProperties
<1>5. DOMAIN todo' = 1 .. Len(todo')
  BY <1>4, LenProperties
<1>6. ASSUME NEW i \in Len(ops) + 1 .. Len(ops) + Len(todo) - 1
      PROVE  todo'[i] = todo[i - Len(ops) + 1]
  <2>1. /\ i \in 1 .. Len(ops) + Len(t) /\ ~ i <= Len(ops)
        /\ i - Len(ops) \in 1 .. Len(todo) - 1 /\ (i - Len(ops)) + 1 = i - Len(ops) + 1
    BY <1>1, <1>2
  <2> QED BY <1>2, <1>4, <2>1
<1>7. ASSUME NEW i \in 1 .. Len(ops) PROVE todo'[i] = ops[i]
  <2>1. i \in 1 .. Len(ops) + Len(t) /\ i <= Len(ops)
    BY <1>1, <1>2
  <2> QED BY <1>4, <2>1
<1>8. DOMAIN todo' = 1 .. Len(ops) + Len(todo) - 1
  BY <1>1, <1>2, <1>4, <1>5
<1> QED BY <1>1, <1>2, <1>4, <1>6, <1>7, <1>8

\* Nothing but the first is lost, and only ops is new.
LEMMA ThenPending ==
  ASSUME todo \in Seq(Element), todo # <<>>, NEW ops \in Seq(Element), Then(ops), NEW x
  PROVE  /\ Pending(x) => x = Head(todo) \/ Pending(x)'
         /\ \A i \in DOMAIN ops : ops[i] = x => Pending(x)'
         /\ Pending(x)' => Pending(x) \/ \E i \in DOMAIN ops : ops[i] = x
<1>0. /\ Len(ops) \in Nat /\ Len(todo) \in Nat /\ Len(todo) >= 1 /\ Head(todo) = todo[1]
      /\ DOMAIN todo = 1 .. Len(todo) /\ DOMAIN ops = 1 .. Len(ops)
      /\ DOMAIN todo' = 1 .. Len(ops) + Len(todo) - 1
      /\ \A i \in 1 .. Len(ops) : todo'[i] = ops[i]
      /\ \A i \in Len(ops) + 1 .. Len(ops) + Len(todo) - 1 : todo'[i] = todo[i - Len(ops) + 1]
  BY ThenElements
<1>1. ASSUME NEW i \in DOMAIN todo, todo[i] = x, x # Head(todo)
      PROVE  Pending(x)'
  <2>1. i \in 2 .. Len(todo)
    BY <1>0, <1>1
  <2>2. i + Len(ops) - 1 \in DOMAIN todo' /\ todo'[i + Len(ops) - 1] = todo[i]
    BY <1>0, <2>1
  <2> QED BY <1>1, <2>2 DEF Pending
<1>2. ASSUME NEW i \in DOMAIN ops, ops[i] = x PROVE Pending(x)'
  <2>1. i \in DOMAIN todo' /\ todo'[i] = ops[i]
    BY <1>0
  <2> QED BY <1>2, <2>1 DEF Pending
<1>3. ASSUME NEW i \in DOMAIN todo', todo'[i] = x
      PROVE  Pending(x) \/ \E k \in DOMAIN ops : ops[k] = x
  <2>1. CASE i \in 1 .. Len(ops)
    BY <1>3, <2>1, ThenElements
  <2>2. CASE i \in Len(ops) + 1 .. Len(ops) + Len(todo) - 1
    <3>1. i - Len(ops) + 1 \in DOMAIN todo /\ todo[i - Len(ops) + 1] = x
      BY <1>3, <2>2, ThenElements
    <3> QED BY <3>1 DEF Pending
  <2> QED BY <2>1, <2>2, ThenElements
<1> QED BY <1>1, <1>2, <1>3 DEF Pending

\* Calls, then events, then bits: also after a step.
LEMMA ThenInOrder ==
  ASSUME TodoOK, todo # <<>>, NEW ops \in Seq(Element), Then(ops), InOrder(ops),
         \/ ops = <<>>
         \/ Head(todo).do = "bit"
         \/ Head(todo).do = "event" /\ \A i \in DOMAIN ops : ops[i].do # "bit"
  PROVE  TodoOK'
<1> DEFINE n == Len(ops)
<1>0. todo \in Seq(Element) /\ InOrder(todo)
  BY DEF TodoOK
<1>1. /\ todo' \in Seq(Element) /\ n \in Nat /\ Len(todo) \in Nat /\ Len(todo) >= 1
      /\ DOMAIN todo = 1 .. Len(todo) /\ DOMAIN ops = 1 .. n /\ Head(todo) = todo[1]
      /\ DOMAIN todo' = 1 .. n + Len(todo) - 1
      /\ \A i \in 1 .. n : todo'[i] = ops[i]
      /\ \A i \in n + 1 .. n + Len(todo) - 1 : todo'[i] = todo[i - n + 1]
  BY <1>0, ThenElements
<1> HIDE DEF n
<1>2. ASSUME NEW i \in DOMAIN todo', NEW j \in DOMAIN todo', i < j
      PROVE  /\ todo'[i].do = "bit" => todo'[j].do = "bit"
             /\ todo'[i].do = "event" => todo'[j].do \in {"event", "bit"}
  <2>1. CASE j <= n
    <3>1. i \in DOMAIN ops /\ j \in DOMAIN ops /\ todo'[i] = ops[i] /\ todo'[j] = ops[j]
      BY <1>1, <1>2, <2>1
    <3> QED BY <1>2, <3>1 DEF InOrder
  <2>2. CASE i > n
    <3>0. i \in n + 1 .. n + Len(todo) - 1 /\ j \in n + 1 .. n + Len(todo) - 1
      BY <1>1, <1>2, <2>2
    <3>a. todo'[i] = todo[i - n + 1] /\ todo'[j] = todo[j - n + 1]
      BY <1>1, <3>0
    <3>1. /\ i - n + 1 \in DOMAIN todo /\ j - n + 1 \in DOMAIN todo /\ i - n + 1 < j - n + 1
          /\ todo'[i] = todo[i - n + 1] /\ todo'[j] = todo[j - n + 1]
      <4> DEFINE l == Len(todo)
      <4>1. l \in Nat /\ n \in Nat /\ i \in n + 1 .. n + l - 1 /\ j \in n + 1 .. n + l - 1 /\ i < j
            /\ DOMAIN todo = 1 .. l
        BY <1>1, <1>2, <3>0
      <4> HIDE DEF l
      <4> QED BY <3>a, <4>1
    <3> QED BY <1>0, <3>1 DEF InOrder
  <2>3. CASE i <= n /\ n < j
    <3>0. j \in n + 1 .. n + Len(todo) - 1 /\ i \in 1 .. n
      BY <1>1, <1>2, <2>3
    <3>1. /\ 1 \in DOMAIN todo /\ j - n + 1 \in DOMAIN todo /\ 1 < j - n + 1
          /\ todo'[j] = todo[j - n + 1] /\ todo'[i] = ops[i] /\ i \in DOMAIN ops
      <4> DEFINE l == Len(todo)
      <4>1. l \in Nat /\ n \in Nat /\ j \in n + 1 .. n + l - 1 /\ DOMAIN todo = 1 .. l
        BY <1>1, <3>0
      <4>2. todo'[j] = todo[j - n + 1] /\ todo'[i] = ops[i] /\ i \in DOMAIN ops
        BY <1>1, <3>0
      <4> HIDE DEF l
      <4> QED BY <4>1, <4>2
    <3>2. ops # <<>>
      BY <3>1
    <3>3. /\ todo[1].do = "bit" => todo[j - n + 1].do = "bit"
          /\ todo[1].do = "event" => todo[j - n + 1].do \in {"event", "bit"}
      BY <1>0, <3>1 DEF InOrder
    <3>4. todo[1].do = "bit" \/ (todo[1].do = "event" /\ ops[i].do # "bit")
      BY <1>1, <3>1, <3>2
    <3> QED BY <3>1, <3>3, <3>4
  <2> QED BY <1>1, <2>1, <2>2, <2>3
<1> QED BY <1>1, <1>2 DEF TodoOK, InOrder

\* The sequences the bits and the entry functions leave to do.
LEMMA ShortOps ==
  /\ <<>> \in Seq(Element) /\ InOrder(<<>>) /\ DOMAIN <<>> = {} /\ Len(<<>>) = 0
  /\ \A x \in Element : /\ <<x>> \in Seq(Element) /\ InOrder(<<x>>)
                        /\ DOMAIN <<x>> = {1} /\ <<x>>[1] = x /\ Len(<<x>>) = 1
<1>1. /\ <<>> \in Seq(Element) /\ DOMAIN <<>> = {} /\ Len(<<>>) = 0
  OBVIOUS
<1>2. ASSUME NEW x \in Element
      PROVE  /\ <<x>> \in Seq(Element) /\ DOMAIN <<x>> = {1} /\ <<x>>[1] = x /\ Len(<<x>>) = 1
  OBVIOUS
<1>3. InOrder(<<>>)
  BY <1>1 DEF InOrder
<1>4. ASSUME NEW x \in Element PROVE InOrder(<<x>>)
  BY <1>2, <1>4 DEF InOrder
<1> QED BY <1>1, <1>2, <1>3, <1>4

\* The bits the code names are bits.
LEMMA Bits ==
  /\ "OVER_CURRENT" \in EventBit /\ "ROD_LIMIT_FAULT" \in EventBit /\ "VOLT_OVER" \in EventBit
  /\ "VOLT_UNDER" \in EventBit /\ "FAULT" \in EventBit /\ "EMERGENCY" \in EventBit
  /\ "RECOVERY" \in EventBit /\ "VOLT_NORMAL" \in EventBit /\ "VOLT_RECOVER_WAIT" \in EventBit
  /\ "POLARITY_CHG" \in EventBit /\ "INIT_DONE" \in EventBit /\ "CMD_WORK_ENABLE" \in EventBit
  /\ "ST_WORK_ERROR" \in EventBit
<1>1. DOMAIN BitOrder = 1 .. 13
  BY DEF BitOrder
<1>2. /\ BitOrder[1] = "OVER_CURRENT" /\ BitOrder[2] = "ROD_LIMIT_FAULT"
      /\ BitOrder[3] = "VOLT_OVER" /\ BitOrder[4] = "VOLT_UNDER" /\ BitOrder[5] = "FAULT"
      /\ BitOrder[6] = "EMERGENCY" /\ BitOrder[7] = "RECOVERY" /\ BitOrder[8] = "VOLT_NORMAL"
      /\ BitOrder[9] = "VOLT_RECOVER_WAIT" /\ BitOrder[10] = "POLARITY_CHG"
      /\ BitOrder[11] = "INIT_DONE" /\ BitOrder[12] = "CMD_WORK_ENABLE"
      /\ BitOrder[13] = "ST_WORK_ERROR"
  BY DEF BitOrder
<1>3. \A i \in 1 .. 13 : BitOrder[i] \in EventBit
  BY <1>1 DEF EventBit, Range
<1> QED BY <1>2, <1>3

\* After a fault the machine is sent RECOVERY and maybe CMD_WORK_ENABLE.
LEMMA ResumeOpsOK ==
  /\ ResumeOps \in Seq(Element) /\ InOrder(ResumeOps)
  /\ \A i \in DOMAIN ResumeOps : ResumeOps[i].do = "event"
  /\ Len(ResumeOps) = (IF prev_state = "RUN" THEN 2 ELSE 1)
  /\ ResumeOps[1] = Send("RECOVERY")
  /\ prev_state = "RUN" => ResumeOps[2] = Send("CMD_WORK_ENABLE")
<1> DEFINE r == Send("RECOVERY")
           c == Send("CMD_WORK_ENABLE")
<1>1. r \in Element /\ c \in Element /\ r.do = "event" /\ c.do = "event"
  BY KindsOfElements, Bits
<1>2. /\ <<r>> \in Seq(Element) /\ <<c>> \in Seq(Element) /\ Len(<<r>>) = 1 /\ Len(<<c>>) = 1
      /\ <<r>>[1] = r /\ <<c>>[1] = c
  BY <1>1, ShortOps
<1> HIDE DEF r, c
<1>3. CASE prev_state = "RUN"
  <2>1. ResumeOps = <<r>> \o <<c>>
    BY <1>3 DEF ResumeOps, r, c
  <2>2. /\ ResumeOps \in Seq(Element) /\ Len(ResumeOps) = 1 + 1
        /\ \A i \in 1 .. 1 + 1 : ResumeOps[i] = IF i <= 1 THEN <<r>>[i] ELSE <<c>>[i - 1]
    BY <1>2, <2>1, ConcatProperties
  <2>3. DOMAIN ResumeOps = 1 .. 2 /\ ResumeOps[1] = r /\ ResumeOps[2] = c
    BY <1>2, <2>2, LenProperties
  <2>4. \A i \in DOMAIN ResumeOps : ResumeOps[i].do = "event"
    BY <1>1, <2>3
  <2> QED BY <1>3, <2>2, <2>3, <2>4 DEF InOrder, r, c
<1>4. CASE prev_state # "RUN"
  <2>1. ResumeOps = <<r>>
    <3>1. ResumeOps = <<r>> \o <<>>
      BY <1>4 DEF ResumeOps, r
    <3> QED BY <1>2, <3>1, ConcatEmptySeq
  <2>2. DOMAIN ResumeOps = {1}
    BY <2>1
  <2> QED BY <1>1, <1>2, <1>4, <2>1, <2>2, ShortOps DEF r
<1> QED BY <1>3, <1>4

\* The calls that enter IDLE.
LEMMA IdleOpsOK ==
  /\ sys_enter_idle \in Seq(Element) /\ InOrder(sys_enter_idle)
  /\ DOMAIN sys_enter_idle = 1 .. 5 /\ Len(sys_enter_idle) = 5
  /\ sys_enter_idle[1] = Init("cur") /\ sys_enter_idle[2] = Init("vm")
  /\ sys_enter_idle[3] = Init("pol") /\ sys_enter_idle[4] = Init("act")
  /\ sys_enter_idle[5] = StartHw
  /\ \A i \in 1 .. 5 : sys_enter_idle[i].do \in {"init", "start"}
<1>1. /\ Init("cur") \in Element /\ Init("vm") \in Element /\ Init("pol") \in Element
      /\ Init("act") \in Element /\ StartHw \in Element
  BY KindsOfElements DEF Module
<1>2. /\ Init("cur").do = "init" /\ Init("vm").do = "init" /\ Init("pol").do = "init"
      /\ Init("act").do = "init" /\ StartHw.do = "start"
  BY DEF Init, StartHw
<1>3. /\ DOMAIN sys_enter_idle = 1 .. 5 /\ Len(sys_enter_idle) = 5
      /\ sys_enter_idle[1] = Init("cur") /\ sys_enter_idle[2] = Init("vm")
      /\ sys_enter_idle[3] = Init("pol") /\ sys_enter_idle[4] = Init("act")
      /\ sys_enter_idle[5] = StartHw
  BY DEF sys_enter_idle
<1>4. sys_enter_idle \in Seq(Element)
  BY <1>1 DEF sys_enter_idle
<1>5. \A i \in 1 .. 5 : sys_enter_idle[i].do \in {"init", "start"}
  BY <1>2, <1>3
<1>6. InOrder(sys_enter_idle)
  BY <1>3, <1>5 DEF InOrder
<1> QED BY <1>3, <1>4, <1>5, <1>6

\* The calls that enter FAULT: every axis is disabled, then stopped.
LEMMA FaultOpsOK ==
  /\ sys_enter_fault \in Seq(Element) /\ InOrder(sys_enter_fault)
  /\ DOMAIN sys_enter_fault = 1 .. 2 * NumAxes /\ Len(sys_enter_fault) = 2 * NumAxes
  /\ \A i \in DOMAIN sys_enter_fault :
       \/ \E a \in Axis : sys_enter_fault[i] = Enable(a, FALSE) /\ i + 1 \in DOMAIN sys_enter_fault
                            /\ sys_enter_fault[i + 1] = Post(EStopMsg(a), TRUE)
       \/ \E a \in Axis : sys_enter_fault[i] = Post(EStopMsg(a), TRUE)
  /\ \A a \in Axis : \E i \in DOMAIN sys_enter_fault : sys_enter_fault[i] = Enable(a, FALSE)
<1> DEFINE f == sys_enter_fault
           n == NumAxes
<1>1. n \in Nat \ {0} /\ Axis = 0 .. n - 1
  BY SysConstants
<1>2. f = [i \in 1 .. 2 * n |-> IF i % 2 = 1 THEN Enable((i - 1) \div 2, FALSE)
                                              ELSE Post(EStopMsg((i - 2) \div 2), TRUE)]
  BY DEF sys_enter_fault, ForAxesBoth
<1>3. DOMAIN f = 1 .. 2 * n
  BY <1>2
<1>4. ASSUME NEW a \in Axis
      PROVE  /\ 2 * a + 1 \in DOMAIN f /\ f[2 * a + 1] = Enable(a, FALSE)
             /\ 2 * a + 2 \in DOMAIN f /\ f[2 * a + 2] = Post(EStopMsg(a), TRUE)
  <2>1. /\ 2 * a + 1 \in 1 .. 2 * n /\ (2 * a + 1) % 2 = 1 /\ ((2 * a + 1) - 1) \div 2 = a
        /\ 2 * a + 2 \in 1 .. 2 * n /\ (2 * a + 2) % 2 # 1 /\ ((2 * a + 2) - 2) \div 2 = a
    BY <1>1
  <2> QED BY <1>2, <2>1
<1>5. ASSUME NEW i \in DOMAIN f
      PROVE  \E a \in Axis : i = 2 * a + 1 \/ i = 2 * a + 2
  <2>1. CASE i % 2 = 1
    <3>1. (i - 1) \div 2 \in Axis /\ i = 2 * ((i - 1) \div 2) + 1
      BY <1>1, <1>3, <2>1
    <3> QED BY <3>1
  <2>2. CASE i % 2 # 1
    <3>1. (i - 2) \div 2 \in Axis /\ i = 2 * ((i - 2) \div 2) + 2
      BY <1>1, <1>3, <2>2
    <3> QED BY <3>1
  <2> QED BY <2>1, <2>2
<1> HIDE DEF f
<1>6. ASSUME NEW i \in DOMAIN f
      PROVE  \/ \E a \in Axis : f[i] = Enable(a, FALSE) /\ i + 1 \in DOMAIN f
                                  /\ f[i + 1] = Post(EStopMsg(a), TRUE)
             \/ \E a \in Axis : f[i] = Post(EStopMsg(a), TRUE)
  <2>1. PICK a \in Axis : i = 2 * a + 1 \/ i = 2 * a + 2
    BY <1>5
  <2>2. CASE i = 2 * a + 1
    <3>1. i + 1 = 2 * a + 2
      BY <1>1, <2>2
    <3> QED BY <1>4, <2>2, <3>1
  <2>3. CASE i = 2 * a + 2
    BY <1>4, <2>3
  <2> QED BY <2>1, <2>2, <2>3
<1>7. ASSUME NEW i \in DOMAIN f PROVE f[i] \in Element /\ f[i].do \in {"enable", "post"}
  <2>1. PICK a \in Axis : f[i] = Enable(a, FALSE) \/ f[i] = Post(EStopMsg(a), TRUE)
    BY <1>6
  <2>2. EStopMsg(a) \in Msg
    BY MsgOK
  <2>3. Enable(a, FALSE) \in Element /\ Enable(a, FALSE).do = "enable"
    BY KindsOfElements
  <2>4. Post(EStopMsg(a), TRUE) \in Element /\ Post(EStopMsg(a), TRUE).do = "post"
    BY <2>2, KindsOfElements
  <2> QED BY <2>1, <2>3, <2>4
<1>8. f \in Seq(Element) /\ Len(f) = 2 * n
  <2>1. 2 * n \in Nat /\ f \in [1 .. 2 * n -> Element]
    <3>1. f = [i \in 1 .. 2 * n |-> f[i]]
      BY <1>2 DEF f
    <3> QED BY <1>1, <1>3, <1>7, <3>1
  <2> QED BY <2>1, SeqDef, LenProperties
<1>9. InOrder(f)
  BY <1>7 DEF InOrder
<1> QED BY <1>3, <1>4, <1>6, <1>8, <1>9 DEF f

\* The calls that enter EMERGENCY: every axis is stopped, then FAULT follows.
LEMMA EmergencyOpsOK ==
  /\ sys_enter_emergency \in Seq(Element) /\ InOrder(sys_enter_emergency)
  /\ Len(sys_enter_emergency) = NumAxes + 1
  /\ \A i \in 1 .. NumAxes : \E a \in Axis : sys_enter_emergency[i] = Post(EStopMsg(a), TRUE)
  /\ sys_enter_emergency[NumAxes + 1] = Send("FAULT")
  /\ \A i \in DOMAIN sys_enter_emergency : sys_enter_emergency[i].do \in {"post", "event"}
<1> DEFINE n == NumAxes
           p == [i \in 1 .. n |-> Post(EStopMsg(i - 1), TRUE)]
           s == <<Send("FAULT")>>
           f == sys_enter_emergency
<1>1. n \in Nat \ {0} /\ Axis = 0 .. n - 1
  BY SysConstants
<1>2. f = p \o s
  BY DEF sys_enter_emergency, ForAxes
<1>3. ASSUME NEW i \in 1 .. n
      PROVE  i - 1 \in Axis /\ p[i] = Post(EStopMsg(i - 1), TRUE) /\ p[i] \in Element /\ p[i].do = "post"
  <2>1. i - 1 \in Axis
    BY <1>1
  <2>2. EStopMsg(i - 1) \in Msg
    BY <2>1, MsgOK
  <2>3. Post(EStopMsg(i - 1), TRUE) \in Element /\ Post(EStopMsg(i - 1), TRUE).do = "post"
    BY <2>2, KindsOfElements
  <2> QED BY <2>1, <2>3
<1>4. p \in Seq(Element) /\ Len(p) = n
  <2>1. p \in [1 .. n -> Element]
    BY <1>3
  <2> HIDE DEF p
  <2> QED BY <1>1, <2>1, SeqDef, LenProperties
<1>5. /\ Send("FAULT") \in Element /\ Send("FAULT").do = "event"
      /\ s \in Seq(Element) /\ Len(s) = 1 /\ s[1] = Send("FAULT")
  BY KindsOfElements, Bits, ShortOps
<1> HIDE DEF p, s, f, n
<1>6. /\ f \in Seq(Element) /\ Len(f) = n + 1
      /\ \A i \in 1 .. n + 1 : f[i] = IF i <= n THEN p[i] ELSE s[i - n]
  BY <1>2, <1>4, <1>5, ConcatProperties
<1>7. DOMAIN f = 1 .. n + 1
  BY <1>6, LenProperties
<1>8. \A i \in 1 .. n : f[i] = p[i]
  BY <1>1, <1>6
<1>9. f[n + 1] = Send("FAULT")
  <2>1. n + 1 \in 1 .. n + 1 /\ ~ n + 1 <= n /\ (n + 1) - n = 1
    BY <1>1
  <2> QED BY <1>5, <1>6, <2>1
<1>10. \A i \in 1 .. n : f[i].do = "post"
  BY <1>3, <1>8
<1>11. /\ \A i \in DOMAIN f : f[i].do \in {"post", "event"}
       /\ \A i \in DOMAIN f : f[i].do = "event" => i = n + 1
  BY <1>1, <1>5, <1>7, <1>9, <1>10
<1>12. InOrder(f)
  BY <1>1, <1>7, <1>11 DEF InOrder
<1>13. \A i \in 1 .. n : \E a \in Axis : f[i] = Post(EStopMsg(a), TRUE)
  BY <1>3, <1>8
<1> QED BY <1>6, <1>9, <1>11, <1>12, <1>13 DEF f, n

-----------------------------------------------------------------------------
(* The steps, one conjunct of the invariant after the other *)

\* Every element of todo that is not the first is one of todo' too, and every
\* one of todo' comes from there or from ops.
LEMMA ThenMoves ==
  ASSUME todo \in Seq(Element), todo # <<>>, NEW ops \in Seq(Element), Then(ops)
  PROVE  /\ \A i \in DOMAIN todo' :
              \/ i \in DOMAIN ops /\ todo'[i] = ops[i]
              \/ /\ i - Len(ops) + 1 \in DOMAIN todo /\ i - Len(ops) + 1 > 1
                 /\ todo'[i] = todo[i - Len(ops) + 1]
         /\ \A k \in DOMAIN todo : k > 1 =>
              /\ k + Len(ops) - 1 \in DOMAIN todo'
              /\ todo'[k + Len(ops) - 1] = todo[k]
<1> DEFINE n == Len(ops)
           l == Len(todo)
<1>1. /\ n \in Nat /\ l \in Nat /\ l >= 1
      /\ DOMAIN todo = 1 .. l /\ DOMAIN ops = 1 .. n /\ DOMAIN todo' = 1 .. n + l - 1
      /\ \A i \in 1 .. n : todo'[i] = ops[i]
      /\ \A i \in n + 1 .. n + l - 1 : todo'[i] = todo[i - n + 1]
  BY ThenElements
<1> HIDE DEF n, l
<1>2. ASSUME NEW i \in DOMAIN todo'
      PROVE  \/ i \in DOMAIN ops /\ todo'[i] = ops[i]
             \/ /\ i - n + 1 \in DOMAIN todo /\ i - n + 1 > 1 /\ todo'[i] = todo[i - n + 1]
  <2>1. CASE i <= n
    BY <1>1, <2>1
  <2>2. CASE i > n
    <3>1. i \in n + 1 .. n + l - 1
      BY <1>1, <2>2
    <3>2. i - n + 1 \in 1 .. l /\ i - n + 1 > 1
      BY <1>1, <3>1
    <3> QED BY <1>1, <3>1, <3>2
  <2> QED BY <1>1, <2>1, <2>2
<1>3. ASSUME NEW k \in DOMAIN todo, k > 1
      PROVE  k + n - 1 \in DOMAIN todo' /\ todo'[k + n - 1] = todo[k]
  <2>1. k + n - 1 \in n + 1 .. n + l - 1 /\ (k + n - 1) - n + 1 = k /\ k + n - 1 \in 1 .. n + l - 1
    BY <1>1, <1>3
  <2>2. todo'[k + n - 1] = todo[(k + n - 1) - n + 1]
    BY <1>1, <2>1
  <2> QED BY <1>1, <2>1, <2>2
<1> QED BY <1>2, <1>3 DEF n

\* A disabling still to come keeps its emergency stop behind it.
LEMMA ThenDisableThenStop ==
  ASSUME TodoOK, todo # <<>>, NEW ops \in Seq(Element), Then(ops), DisableThenStop,
         \A i \in DOMAIN ops : ops[i].do # "enable",
         sm = "FAULT" => sm' = "FAULT"
  PROVE  DisableThenStop'
<1>1. SUFFICES ASSUME NEW i \in DOMAIN todo', todo'[i].do = "enable"
               PROVE  /\ sm' = "FAULT" /\ i + 1 \in DOMAIN todo'
                      /\ todo'[i + 1] = Post(EStopMsg(todo'[i].axis), TRUE)
  BY DEF DisableThenStop
<1> DEFINE n == Len(ops)
           k == i - n + 1
<1>2. k \in DOMAIN todo /\ k > 1 /\ todo'[i] = todo[k]
  BY <1>1, ThenMoves DEF TodoOK
<1>3. /\ sm = "FAULT" /\ k + 1 \in DOMAIN todo
      /\ todo[k + 1] = Post(EStopMsg(todo[k].axis), TRUE)
  BY <1>1, <1>2 DEF DisableThenStop
<1>4. /\ n \in Nat /\ i \in Nat /\ (k + 1) + n - 1 = i + 1 /\ k + 1 > 1
  <2>1. n \in Nat /\ DOMAIN todo' = 1 .. n + Len(todo) - 1 /\ Len(todo) \in Nat
    BY ThenElements DEF TodoOK
  <2> HIDE DEF n
  <2> QED BY <1>2, <2>1
<1>5. (k + 1) + n - 1 \in DOMAIN todo' /\ todo'[(k + 1) + n - 1] = todo[k + 1]
  BY <1>3, <1>4, ThenMoves DEF TodoOK
<1> QED BY <1>2, <1>3, <1>4, <1>5

\* A step of sys_sm that neither calls the arbiter nor initialises, and
\* neither enters nor leaves FAULT.
LEMMA ThenKeeps ==
  ASSUME TodoOK, Obeyed, todo # <<>>, NEW ops \in Seq(Element), Then(ops),
         \A i \in DOMAIN ops : ops[i].do \in {"post", "event"},
         Head(todo).do \in {"bit", "event", "start"},
         sm = "FAULT" <=> sm' = "FAULT", UNCHANGED <<arb, pins, mq>>
  PROVE  Obeyed'
<1>0. todo \in Seq(Element)
  BY DEF TodoOK
<1>1. DisableThenStop'
  BY ThenDisableThenStop DEF Obeyed
<1>2. InitNotInFault'
  <2>1. ASSUME NEW i \in DOMAIN todo', todo'[i].do = "init" PROVE sm' # "FAULT"
    <3>1. i - Len(ops) + 1 \in DOMAIN todo /\ todo'[i] = todo[i - Len(ops) + 1]
      BY <1>0, <2>1, ThenMoves
    <3> QED BY <2>1, <3>1 DEF Obeyed, InitNotInFault
  <2> QED BY <2>1 DEF InitNotInFault
<1>3. ASSUME NEW x, Pending(x), x.do \notin {"bit", "event", "start"} PROVE Pending(x)'
  BY <1>0, <1>3, ThenPending
<1>4. FaultDisables'
  <2>1. ASSUME NEW a \in Axis, Pending(Enable(a, FALSE)) PROVE Pending(Enable(a, FALSE))'
    BY <1>3, <2>1, KindsOfElements
  <2>2. ASSUME NEW a \in Axis, sm' = "FAULT" PROVE ~ arb'[a].enable \/ Pending(Enable(a, FALSE))'
    <3>1. ~ arb[a].enable \/ Pending(Enable(a, FALSE))
      BY <2>2 DEF Obeyed, FaultDisables
    <3> QED BY <2>1, <3>1
  <2> QED BY <2>2 DEF FaultDisables
<1>5. FaultStops'
  <2>1. ASSUME NEW a \in Axis, Pending(Post(EStopMsg(a), TRUE))
        PROVE  Pending(Post(EStopMsg(a), TRUE))'
    BY <1>3, <2>1, KindsOfElements
  <2>2. ASSUME sm' = "FAULT", pins' # "stop"
        PROVE  \E a \in Axis : Pending(Post(EStopMsg(a), TRUE))' \/ mq' = <<EStopMsg(a)>>
    <3>1. PICK a \in Axis : Pending(Post(EStopMsg(a), TRUE)) \/ mq = <<EStopMsg(a)>>
      BY <2>2 DEF Obeyed, FaultStops
    <3> QED BY <2>1, <3>1
  <2> QED BY <2>2 DEF FaultStops
<1>6. OthersEnable'
  <2>1. Pending(Init("act")) => Pending(Init("act"))'
    BY <1>3, KindsOfElements
  <2> QED BY <2>1 DEF Obeyed, OthersEnable
<1> QED BY <1>1, <1>2, <1>4, <1>5, <1>6 DEF Obeyed

\* The rows of the state table, by the state they lead to.
LEMMA Rows ==
  ASSUME NEW r \in sys_jump
  PROVE  \/ r[3] = "EMERGENCY" /\ r[1] \in {"IDLE", "RUN"} /\ r[2] \in FaultEvents
         \/ r[3] = "FAULT" /\ r[1] \in {"IDLE", "RUN", "EMERGENCY"} /\ r[2] = "FAULT"
         \/ r[3] = "IDLE" /\ r[1] \in {"STOP", "FAULT", "EMERGENCY"} /\ r[2] = "RECOVERY"
         \/ r[3] = "IDLE" /\ r[1] = "INIT" /\ r[2] = "INIT_DONE"
         \/ r[3] = "RUN" /\ r[1] \in {"IDLE", "STOP"} /\ r[2] = "CMD_WORK_ENABLE"
         \/ r[3] = "STOP" /\ r[1] \in {"IDLE", "RUN"} /\ r[2] = "ST_WORK_ERROR"
<1>1. CASE r \in {<<s, e, "EMERGENCY">> : s \in {"IDLE", "RUN"}, e \in FaultEvents}
  BY <1>1
<1>2. CASE r \in {<<s, "FAULT", "FAULT">> : s \in {"IDLE", "RUN", "EMERGENCY"}}
  BY <1>2
<1>3. CASE r \in {<<s, "RECOVERY", "IDLE">> : s \in {"STOP", "FAULT", "EMERGENCY"}}
  BY <1>3
<1>4. CASE r \in {<<s, "CMD_WORK_ENABLE", "RUN">> : s \in {"IDLE", "STOP"}}
  BY <1>4
<1>5. CASE r \in {<<s, "ST_WORK_ERROR", "STOP">> : s \in {"IDLE", "RUN"}}
  BY <1>5
<1>6. CASE r = <<"INIT", "INIT_DONE", "IDLE">>
  BY <1>6
<1> QED BY <1>1, <1>2, <1>3, <1>4, <1>5, <1>6 DEF sys_jump

\* An event without a row is dropped; one with a row runs the entry function.
LEMMA EventCases ==
  ASSUME StateMachine_SendEvent, sm \in State
  PROVE  /\ todo # <<>> /\ mq = <<>> /\ Head(todo).do = "event"
         /\ LET e == Head(todo).evt
            IN \/ sm' = sm /\ UNCHANGED previous_state /\ Then(<<>>) /\ \A r \in sys_jump : ~ (r[1] = sm /\ r[2] = e)
               \/ /\ sm' = "EMERGENCY" /\ sm \in {"IDLE", "RUN"} /\ e \in FaultEvents
                  /\ Then(sys_enter_emergency) /\ previous_state' = sm
               \/ /\ sm' = "FAULT" /\ sm \in {"IDLE", "RUN", "EMERGENCY"} /\ e = "FAULT"
                  /\ Then(sys_enter_fault) /\ previous_state' = sm
               \/ /\ sm' = "IDLE" /\ sm \in {"STOP", "FAULT", "EMERGENCY"} /\ e = "RECOVERY"
                  /\ Then(sys_enter_idle) /\ previous_state' = sm
               \/ /\ sm' = "IDLE" /\ sm = "INIT" /\ e = "INIT_DONE"
                  /\ Then(sys_enter_idle) /\ previous_state' = sm
               \/ /\ sm' = "RUN" /\ sm \in {"IDLE", "STOP"} /\ e = "CMD_WORK_ENABLE"
                  /\ Then(<<>>) /\ previous_state' = sm
               \/ /\ sm' = "STOP" /\ sm \in {"IDLE", "RUN"} /\ e = "ST_WORK_ERROR"
                  /\ Then(<<>>) /\ previous_state' = sm
<1> DEFINE e == Head(todo).evt
           row == {r \in sys_jump : r[1] = sm /\ r[2] = e}
<1>1. todo # <<>> /\ mq = <<>> /\ Head(todo).do = "event"
  BY DEF StateMachine_SendEvent, Do
<1>2. \/ row = {} /\ Then(<<>>) /\ UNCHANGED smVars
      \/ \E r \in row : previous_state' = sm /\ sm' = r[3] /\ Then(Enter(r[3], sm))
  BY DEF StateMachine_SendEvent
<1>3. CASE row = {} /\ Then(<<>>) /\ UNCHANGED smVars
  <2>1. \A r \in sys_jump : ~ (r[1] = sm /\ r[2] = e)
    BY <1>3
  <2> QED BY <1>1, <1>3, <2>1 DEF smVars
<1>4. CASE \E r \in row : previous_state' = sm /\ sm' = r[3] /\ Then(Enter(r[3], sm))
  <2>1. PICK r \in row : previous_state' = sm /\ sm' = r[3] /\ Then(Enter(r[3], sm))
    BY <1>4
  <2>2. r \in sys_jump /\ r[1] = sm /\ r[2] = e
    BY <2>1
  <2> HIDE DEF row, e
  <2>3. \/ sm' = "EMERGENCY" /\ sm \in {"IDLE", "RUN"} /\ e \in FaultEvents
        \/ sm' = "FAULT" /\ sm \in {"IDLE", "RUN", "EMERGENCY"} /\ e = "FAULT"
        \/ sm' = "IDLE" /\ sm \in {"STOP", "FAULT", "EMERGENCY"} /\ e = "RECOVERY"
        \/ sm' = "IDLE" /\ sm = "INIT" /\ e = "INIT_DONE"
        \/ sm' = "RUN" /\ sm \in {"IDLE", "STOP"} /\ e = "CMD_WORK_ENABLE"
        \/ sm' = "STOP" /\ sm \in {"IDLE", "RUN"} /\ e = "ST_WORK_ERROR"
    BY <2>1, <2>2, Rows
  <2>4. Then(Enter(sm', sm)) /\ previous_state' = sm
    BY <2>1
  <2>5. /\ sm' = "EMERGENCY" => Then(sys_enter_emergency)
        /\ sm' = "FAULT" => Then(sys_enter_fault)
        /\ sm' = "IDLE" => Then(sys_enter_idle)
        /\ sm' = "RUN" /\ sm # "FAULT" => Then(<<>>)
        /\ sm' = "STOP" => Then(<<>>)
    BY <2>4 DEF Enter, sys_enter_run
  <2> QED BY <1>1, <2>3, <2>4, <2>5 DEF e
<1> QED BY <1>2, <1>3, <1>4

\* Feeding an event to the state table.
LEMMA EventStep ==
  ASSUME TodoOK, Obeyed, sm \in State, StateMachine_SendEvent
  PROVE  TodoOK' /\ Obeyed'
<1>1. todo # <<>> /\ Head(todo).do = "event" /\ UNCHANGED <<arb, pins, mq>> /\ todo \in Seq(Element)
  BY EventCases DEF StateMachine_SendEvent, arbVars, powerVars, TodoOK
<1>2. CASE Then(<<>>) /\ (sm = "FAULT" <=> sm' = "FAULT")
  BY <1>1, <1>2, ShortOps, ThenInOrder, ThenKeeps
<1>3. CASE Then(sys_enter_emergency) /\ sm # "FAULT" /\ sm' # "FAULT"
  <2>1. /\ sys_enter_emergency \in Seq(Element) /\ InOrder(sys_enter_emergency)
        /\ \A i \in DOMAIN sys_enter_emergency : sys_enter_emergency[i].do \in {"post", "event"}
    BY EmergencyOpsOK
  <2> QED BY <1>1, <1>3, <2>1, ThenInOrder, ThenKeeps
\* What is left behind an event: events and bits.
<1>4. ASSUME NEW k \in DOMAIN todo, k > 1 PROVE todo[k].do \in {"event", "bit"}
  <2>1. 1 \in DOMAIN todo /\ Head(todo) = todo[1] /\ DOMAIN todo = 1 .. Len(todo) /\ Len(todo) \in Nat
    BY <1>1, HeadTailProperties, LenProperties, EmptySeq
  <2> QED BY <1>1, <1>4, <2>1 DEF TodoOK, InOrder
<1>5. CASE Then(sys_enter_fault) /\ sm' = "FAULT"
  <2> DEFINE f == sys_enter_fault
  <2>1. /\ f \in Seq(Element) /\ InOrder(f)
        /\ \A i \in DOMAIN f :
             \/ \E a \in Axis : f[i] = Enable(a, FALSE) /\ i + 1 \in DOMAIN f
                                  /\ f[i + 1] = Post(EStopMsg(a), TRUE)
             \/ \E a \in Axis : f[i] = Post(EStopMsg(a), TRUE)
        /\ \A a \in Axis : \E i \in DOMAIN f : f[i] = Enable(a, FALSE)
    BY FaultOpsOK
  <2> HIDE DEF f
  <2>2. Then(f)
    BY <1>5 DEF f
  <2>3. \A i \in DOMAIN f : f[i].do \in {"enable", "post"}
    <3>1. ASSUME NEW i \in DOMAIN f PROVE f[i].do \in {"enable", "post"}
      <4>1. PICK a \in Axis : f[i] = Enable(a, FALSE) \/ f[i] = Post(EStopMsg(a), TRUE)
        BY <2>1
      <4>2. Enable(a, FALSE).do = "enable" /\ Post(EStopMsg(a), TRUE).do = "post"
        BY KindsOfElements
      <4> QED BY <4>1, <4>2
    <3> QED BY <3>1
  <2>4. TodoOK'
    BY <1>1, <2>1, <2>2, <2>3, ThenInOrder
  <2>5. ASSUME NEW i \in DOMAIN todo', todo'[i].do \notin {"event", "bit"}
        PROVE  i \in DOMAIN f /\ todo'[i] = f[i]
    BY <1>1, <1>4, <2>1, <2>2, <2>5, ThenMoves
  <2>6. DisableThenStop'
    <3>1. ASSUME NEW i \in DOMAIN todo', todo'[i].do = "enable"
          PROVE  i + 1 \in DOMAIN todo' /\ todo'[i + 1] = Post(EStopMsg(todo'[i].axis), TRUE)
      <4>1. i \in DOMAIN f /\ todo'[i] = f[i]
        BY <2>5, <3>1
      <4>2. PICK a \in Axis : f[i] = Enable(a, FALSE) /\ i + 1 \in DOMAIN f
                                /\ f[i + 1] = Post(EStopMsg(a), TRUE)
        <5>1. \A b \in Axis : Post(EStopMsg(b), TRUE).do = "post"
          BY KindsOfElements
        <5> QED BY <2>1, <3>1, <4>1, <5>1
      <4>3. i + 1 \in DOMAIN todo' /\ todo'[i + 1] = f[i + 1]
        <5>1. /\ DOMAIN f = 1 .. Len(f) /\ Len(f) \in Nat /\ Len(todo) \in Nat /\ Len(todo) >= 1
              /\ DOMAIN todo' = 1 .. Len(f) + Len(todo) - 1
              /\ \A j \in 1 .. Len(f) : todo'[j] = f[j]
          BY <1>1, <2>1, <2>2, ThenElements
        <5>2. i + 1 \in 1 .. Len(f)
          BY <4>2, <5>1
        <5>3. i + 1 \in 1 .. Len(f) + Len(todo) - 1
          BY <5>1, <5>2
        <5> QED BY <5>1, <5>2, <5>3
      <4>4. todo'[i].axis = a
        <5>1. Enable(a, FALSE).axis = a
          BY KindsOfElements
        <5> QED BY <4>1, <4>2, <5>1
      <4> QED BY <4>2, <4>3, <4>4
    <3> QED BY <1>5, <3>1 DEF DisableThenStop
  <2>7. InitNotInFault'
    BY <2>3, <2>5 DEF InitNotInFault
  <2>8. \A a \in Axis : Pending(Enable(a, FALSE))'
    <3>1. ASSUME NEW a \in Axis PROVE Pending(Enable(a, FALSE))'
      <4>1. PICK i \in DOMAIN f : f[i] = Enable(a, FALSE)
        BY <2>1
      <4> QED BY <1>1, <2>1, <2>2, <4>1, ThenPending
    <3> QED BY <3>1
  <2>9. \E a \in Axis : Pending(Post(EStopMsg(a), TRUE))'
    <3>1. PICK a \in Axis : TRUE
      BY SysConstants
    <3>2. PICK i \in DOMAIN f : f[i] = Enable(a, FALSE)
      BY <2>1
    <3>3. PICK b \in Axis : i + 1 \in DOMAIN f /\ f[i + 1] = Post(EStopMsg(b), TRUE)
      <4>1. Enable(a, FALSE).do = "enable"
        BY KindsOfElements
      <4>2. \A b \in Axis : Post(EStopMsg(b), TRUE).do = "post"
        BY KindsOfElements
      <4> QED BY <2>1, <3>2, <4>1, <4>2
    <3> QED BY <1>1, <2>1, <2>2, <3>3, ThenPending
  <2> QED BY <1>5, <2>4, <2>6, <2>7, <2>8, <2>9
         DEF Obeyed, FaultDisables, FaultStops, OthersEnable
<1>6. CASE Then(sys_enter_idle) /\ sm' = "IDLE"
  <2> DEFINE f == sys_enter_idle
  <2>1. /\ f \in Seq(Element) /\ InOrder(f) /\ DOMAIN f = 1 .. 5 /\ f[4] = Init("act")
        /\ \A i \in 1 .. 5 : f[i].do \in {"init", "start"}
    BY IdleOpsOK
  <2> HIDE DEF f
  <2>2. Then(f)
    BY <1>6 DEF f
  <2>3. TodoOK'
    BY <1>1, <2>1, <2>2, ThenInOrder
  <2>4. ASSUME NEW i \in DOMAIN todo' PROVE todo'[i].do # "enable"
    BY <1>1, <1>4, <2>1, <2>2, ThenMoves
  <2>5. Pending(Init("act"))'
    BY <1>1, <2>1, <2>2, ThenPending
  <2> QED BY <1>6, <2>3, <2>4, <2>5
         DEF Obeyed, DisableThenStop, InitNotInFault, FaultDisables, FaultStops, OthersEnable
<1> QED BY <1>2, <1>3, <1>5, <1>6, EventCases

\* Handling a bit leaves events to feed to the table, or one command that
\* withdraws a direction.
BitOps(ops) ==
  /\ Then(ops) /\ InOrder(ops)
  /\ \A i \in DOMAIN ops :
       ops[i].do = "event" \/ (ops[i].do = "post" /\ ops[i].msg.verb = "CLEAR_ALLOW")

\* What handling one bit of Sys_State_Dispatch leaves behind.
LEMMA BitLeaves ==
  ASSUME TodoOK, Sys_State_Dispatch
  PROVE  /\ todo # <<>> /\ mq = <<>> /\ Head(todo).do = "bit" /\ Head(todo).evt \in EventBit
         /\ UNCHANGED <<mq, arb, out, vm, cur, pins, sys_evt, sm, previous_state, pol, hw_started,
                        volt, pin, hand>>
         /\ \E ops \in Seq(Element) : BitOps(ops)
<1>0. todo \in Seq(Element)
  BY DEF TodoOK
<1>1. /\ todo # <<>> /\ mq = <<>> /\ Head(todo).do = "bit"
      /\ UNCHANGED <<mq, arb, out, vm, cur, pins, sys_evt, sm, previous_state, pol, hw_started,
                     volt, pin, hand>>
  BY DEF Sys_State_Dispatch, OnOverCurrent, OnRodLimitFault, OnVoltFault, OnVoltNormal,
         OnPolarityChg, OnRecovery, OnPlainBit, OnRecoverWait, Do, arbVars, powerVars, smVars, envVars
<1>2. Head(todo) \in Element /\ Head(todo).evt \in EventBit
  <2>1. Head(todo) \in Element
    BY <1>0, <1>1, HeadTailProperties
  <2> QED BY <1>1, <2>1, ElementKinds
<1>3. \E ops \in Seq(Element) : BitOps(ops)
  <2>1. ASSUME Then(<<>>) PROVE <1>3
    BY <2>1, ShortOps DEF BitOps
  <2>2. ASSUME NEW x \in Element, Then(<<x>>),
               x.do = "event" \/ (x.do = "post" /\ x.msg.verb = "CLEAR_ALLOW")
        PROVE  <1>3
    <3>1. /\ <<x>> \in Seq(Element) /\ InOrder(<<x>>)
          /\ DOMAIN <<x>> = {1} /\ <<x>>[1] = x
      BY ShortOps
    <3> QED BY <2>2, <3>1 DEF BitOps
  <2>3. ASSUME NEW e \in EventBit, Then(<<Send(e)>>) PROVE <1>3
    <3>1. Send(e) \in Element /\ Send(e).do = "event"
      BY KindsOfElements
    <3> QED BY <2>2, <2>3, <3>1
  <2>4. ASSUME Then(ResumeOps) PROVE <1>3
    BY <2>4, ResumeOpsOK DEF BitOps
  <2>5. CASE OnOverCurrent
    <3>1. ASSUME NEW d \in Dir, Then(<<Post(ClearMsg(d), TRUE)>>) PROVE <1>3
      <4>1. /\ Post(ClearMsg(d), TRUE) \in Element /\ Post(ClearMsg(d), TRUE).do = "post"
            /\ Post(ClearMsg(d), TRUE).msg = ClearMsg(d)
        BY KindsOfElements, MsgOK
      <4>2. ClearMsg(d).verb = "CLEAR_ALLOW"
        BY DEF ClearMsg, Cmd
      <4> QED BY <2>2, <3>1, <4>1, <4>2
    <3>2. \/ Then(<<>>)
          \/ \E d \in Dir : Then(<<Post(ClearMsg(d), TRUE)>>)
          \/ Then(<<Send("OVER_CURRENT")>>)
      BY <2>5 DEF OnOverCurrent
    <3> QED BY <2>1, <2>3, <3>1, <3>2, Bits
  <2>6. CASE OnVoltNormal \/ OnPolarityChg
    BY <2>1, <2>4, <2>6 DEF OnVoltNormal, OnPolarityChg
  <2>7. CASE OnRodLimitFault \/ OnRecovery
    BY <2>3, <2>7, Bits DEF OnRodLimitFault, OnRecovery
  <2>8. CASE OnVoltFault \/ OnPlainBit
    BY <1>2, <2>3, <2>8 DEF OnVoltFault, OnPlainBit
  <2>9. CASE OnRecoverWait
    BY <2>1, <2>9 DEF OnRecoverWait
  <2> QED BY <2>5, <2>6, <2>7, <2>8, <2>9 DEF Sys_State_Dispatch
<1> QED BY <1>1, <1>2, <1>3

\* Handling one bit keeps what is still to do in order.
LEMMA BitStep ==
  ASSUME TodoOK, Obeyed, Sys_State_Dispatch
  PROVE  /\ TodoOK' /\ Obeyed'
         /\ UNCHANGED <<mq, arb, out, vm, cur, pins, sys_evt, sm, previous_state, pol, hw_started,
                        volt, pin, hand>>
<1>1. PICK ops \in Seq(Element) : BitOps(ops)
  BY BitLeaves
<1>2. /\ Then(ops) /\ InOrder(ops) /\ \A i \in DOMAIN ops : ops[i].do \in {"post", "event"}
  BY <1>1 DEF BitOps
<1>3. todo # <<>> /\ Head(todo).do = "bit" /\ UNCHANGED <<sm, arb, pins, mq>>
  BY BitLeaves
<1> QED BY <1>2, <1>3, BitLeaves, ThenInOrder, ThenKeeps

\* The first thing done and nothing new to do.
LEMMA PopMoves ==
  ASSUME TodoOK, todo # <<>>, Then(<<>>)
  PROVE  /\ TodoOK'
         /\ DisableThenStop /\ (sm = "FAULT" => sm' = "FAULT") => DisableThenStop'
         /\ InitNotInFault /\ sm' = sm => InitNotInFault'
         /\ \A x : Pending(x) /\ x # Head(todo) => Pending(x)'
         /\ \A x : Pending(x)' => Pending(x)
<1>0. todo \in Seq(Element) /\ <<>> \in Seq(Element) /\ InOrder(<<>>) /\ DOMAIN <<>> = {}
  BY ShortOps DEF TodoOK
<1>1. TodoOK'
  BY <1>0, ThenInOrder
<1>2. ASSUME DisableThenStop, sm = "FAULT" => sm' = "FAULT" PROVE DisableThenStop'
  BY <1>0, <1>2, ThenDisableThenStop
<1>3. ASSUME InitNotInFault, sm' = sm PROVE InitNotInFault'
  <2>1. ASSUME NEW i \in DOMAIN todo' PROVE \E j \in DOMAIN todo : todo'[i] = todo[j]
    BY <1>0, <2>1, ThenMoves
  <2> QED BY <1>3, <2>1 DEF InitNotInFault
<1>4. ASSUME NEW x
      PROVE  (Pending(x) /\ x # Head(todo) => Pending(x)') /\ (Pending(x)' => Pending(x))
  BY <1>0, ThenPending
<1> QED BY <1>1, <1>2, <1>3, <1>4

\* Posting a command to the arbiter.
LEMMA PostStep ==
  ASSUME TodoOK, Obeyed, Sys_State_ArbSendCommand
  PROVE  TodoOK' /\ Obeyed' /\ mq' = <<Head(todo).msg>> /\ Head(todo).msg \in Msg /\ OneQueued'
<1>1. /\ todo # <<>> /\ Head(todo).do = "post" /\ mq = <<>> /\ Then(<<>>)
      /\ UNCHANGED <<arb, pins, sm>> /\ todo \in Seq(Element)
  BY DEF Sys_State_ArbSendCommand, Do, Arb_SendCommand, powerVars, smVars, TodoOK
<1> DEFINE m == Head(todo).msg
<1>2. Head(todo) \in Element
  BY <1>1, HeadTailProperties
<1>3. m \in Msg /\ Head(todo).urgent \in BOOLEAN
  BY <1>1, <1>2, ElementKinds
<1>4. mq' = <<m>>
  <2>1. Len(mq) = 0 /\ ~ Len(mq) >= MqDepth
    BY <1>1, ArbConstants
  <2>2. mq' = IF Head(todo).urgent THEN <<m>> \o mq ELSE Append(mq, m)
    BY <2>1 DEF Sys_State_ArbSendCommand, Arb_SendCommand
  <2>3. <<m>> \o mq = <<m>> /\ Append(mq, m) = <<m>>
    <3>1. <<m>> \in Seq(Msg)
      BY <1>3
    <3> QED BY <1>1, <3>1, ConcatEmptySeq
  <2> QED BY <2>2, <2>3
<1>5. OneQueued'
  BY <1>4 DEF OneQueued
<1>6. TodoOK' /\ DisableThenStop' /\ InitNotInFault'
  BY <1>1, PopMoves DEF Obeyed
<1>7. ASSUME NEW x, Pending(x), x # Head(todo) PROVE Pending(x)'
  BY <1>1, <1>7, PopMoves
<1>8. FaultDisables'
  <2>1. ASSUME NEW a \in Axis, Pending(Enable(a, FALSE)) PROVE Pending(Enable(a, FALSE))'
    BY <1>1, <1>7, <2>1, KindsOfElements
  <2> QED BY <1>1, <2>1 DEF Obeyed, FaultDisables
<1>9. FaultStops'
  <2>1. SUFFICES ASSUME sm' = "FAULT", pins' # "stop"
                 PROVE  \E a \in Axis : Pending(Post(EStopMsg(a), TRUE))' \/ mq' = <<EStopMsg(a)>>
    BY DEF FaultStops
  <2>2. PICK a \in Axis : Pending(Post(EStopMsg(a), TRUE))
    BY <1>1, <2>1 DEF Obeyed, FaultStops
  <2>3. CASE Post(EStopMsg(a), TRUE) = Head(todo)
    <3>1. m = EStopMsg(a)
      BY <2>3, KindsOfElements
    <3> QED BY <1>4, <3>1
  <2>4. CASE Post(EStopMsg(a), TRUE) # Head(todo)
    BY <1>7, <2>2, <2>4
  <2> QED BY <2>3, <2>4
<1>10. OthersEnable'
  <2>1. Pending(Init("act")) => Pending(Init("act"))'
    BY <1>1, <1>7, KindsOfElements
  <2> QED BY <1>1, <2>1 DEF Obeyed, OthersEnable
<1> QED BY <1>3, <1>4, <1>5, <1>6, <1>8, <1>9, <1>10 DEF Obeyed

\* Disabling an axis.
LEMMA DisableStep ==
  ASSUME ArbInv, TodoOK, Obeyed, Sys_State_SetArbEnable
  PROVE  TodoOK' /\ Obeyed' /\ Arb_SetEnable(Head(todo).axis, FALSE) /\ Head(todo).axis \in Axis
<1>1. /\ todo # <<>> /\ Head(todo).do = "enable" /\ mq = <<>> /\ Then(<<>>)
      /\ UNCHANGED <<mq, pins, sm>> /\ todo \in Seq(Element)
  BY DEF Sys_State_SetArbEnable, Do, Arb_SetEnable, powerVars, smVars, TodoOK
<1> DEFINE a == Head(todo).axis
<1>2. Head(todo) \in Element /\ Head(todo) = todo[1] /\ 1 \in DOMAIN todo
  BY <1>1, HeadTailProperties, LenProperties, EmptySeq
<1>3. a \in Axis /\ Head(todo) = Enable(a, FALSE)
  BY <1>1, <1>2, ElementKinds
<1>4. Arb_SetEnable(a, FALSE)
  <2>1. Head(todo).on = FALSE
    BY <1>3 DEF Enable
  <2> QED BY <2>1 DEF Sys_State_SetArbEnable
<1>5. sm = "FAULT"
  BY <1>1, <1>2 DEF Obeyed, DisableThenStop
<1>6. arb \in [Axis -> ArbData]
  BY DEF ArbInv, ArbTypeOK
<1>7. \A b \in Axis : arb'[b].enable = IF b = a THEN FALSE ELSE arb[b].enable
  BY <1>3, <1>4, <1>6 DEF Arb_SetEnable, ArbData
<1>8. TodoOK' /\ DisableThenStop' /\ InitNotInFault'
  BY <1>1, PopMoves DEF Obeyed
<1>9. ASSUME NEW x, Pending(x), x # Head(todo) PROVE Pending(x)'
  BY <1>1, <1>9, PopMoves
<1> HIDE DEF a
<1>10. FaultDisables'
  <2>1. ASSUME NEW b \in Axis, b # a, Pending(Enable(b, FALSE)) PROVE Pending(Enable(b, FALSE))'
    <3>1. Enable(b, FALSE).axis = b /\ Head(todo).axis = a
      BY KindsOfElements DEF a
    <3>2. Enable(b, FALSE) # Head(todo)
      BY <2>1, <3>1
    <3> QED BY <1>9, <2>1, <3>2
  <2>2. ASSUME NEW b \in Axis PROVE ~ arb'[b].enable \/ Pending(Enable(b, FALSE))'
    <3>1. ~ arb[b].enable \/ Pending(Enable(b, FALSE))
      BY <1>5 DEF Obeyed, FaultDisables
    <3> QED BY <1>7, <2>1, <3>1
  <2> QED BY <2>2 DEF FaultDisables
<1>11. FaultStops'
  <2>1. ASSUME NEW b \in Axis, Pending(Post(EStopMsg(b), TRUE))
        PROVE  Pending(Post(EStopMsg(b), TRUE))'
    BY <1>1, <1>9, <2>1, KindsOfElements
  <2> QED BY <1>1, <2>1 DEF Obeyed, FaultStops
<1>12. OthersEnable'
  BY <1>1, <1>5 DEF OthersEnable
<1> QED BY <1>3, <1>4, <1>8, <1>10, <1>11, <1>12 DEF Obeyed, a

\* An initialiser of Dev_Registry_InitAll.
LEMMA ModuleStep ==
  ASSUME TodoOK, Obeyed, Dev_Registry_InitAll
  PROVE  TodoOK' /\ Obeyed' /\ UNCHANGED mq
<1>1. /\ todo # <<>> /\ Head(todo).do = "init" /\ mq = <<>> /\ Then(<<>>)
      /\ UNCHANGED <<mq, pins, sm>> /\ todo \in Seq(Element)
      /\ \/ Head(todo).module = "act" /\ arb' = [a \in Axis |-> EmptyData]
         \/ Head(todo).module # "act" /\ UNCHANGED arb
  BY DEF Dev_Registry_InitAll, Do, Arb_Module_Init, arbVars, smVars, TodoOK
<1>2. Head(todo) = todo[1] /\ 1 \in DOMAIN todo
  BY <1>1, HeadTailProperties, LenProperties, EmptySeq
<1>3. sm # "FAULT"
  BY <1>1, <1>2 DEF Obeyed, InitNotInFault
<1>4. TodoOK' /\ DisableThenStop' /\ InitNotInFault'
  BY <1>1, PopMoves DEF Obeyed
<1>5. OthersEnable'
  <2>1. CASE Head(todo).module = "act"
    <3>1. \A a \in Axis : arb'[a].enable
      BY <1>1, <2>1 DEF EmptyData
    <3> QED BY <3>1 DEF OthersEnable
  <2>2. CASE Head(todo).module # "act"
    <3>1. Init("act").module = "act"
      BY KindsOfElements
    <3>2. Init("act") # Head(todo)
      BY <2>2, <3>1
    <3>3. Pending(Init("act")) => Pending(Init("act"))'
      BY <1>1, <3>2, PopMoves
    <3> QED BY <1>1, <2>2, <3>3 DEF Obeyed, OthersEnable
  <2> QED BY <2>1, <2>2
<1> QED BY <1>1, <1>3, <1>4, <1>5 DEF Obeyed, FaultDisables, FaultStops

\* The timers are started.
LEMMA StartStep ==
  ASSUME TodoOK, Obeyed, StartHardware
  PROVE  TodoOK' /\ Obeyed'
<1>1. /\ todo # <<>> /\ Head(todo).do = "start" /\ Then(<<>>) /\ UNCHANGED <<arb, mq, pins, sm>>
  BY DEF StartHardware, Do, arbVars, powerVars, smVars
<1>2. <<>> \in Seq(Element) /\ DOMAIN <<>> = {}
  BY ShortOps
<1> QED BY <1>1, <1>2, PopMoves, ThenKeeps

\* There are finitely many event bits.
LEMMA FewBits ==
  ASSUME NEW S \in SUBSET EventBit
  PROVE  IsFiniteSet(S) /\ Cardinality(S) \in Nat
<1> DEFINE n == 13
<1>0. n \in Int
  OBVIOUS
<1>1. BitOrder \in Surjection(1 .. n, EventBit)
  <2>1. DOMAIN BitOrder = 1 .. 13 /\ BitOrder = [i \in 1 .. 13 |-> BitOrder[i]]
    BY DEF BitOrder
  <2> QED BY <2>1 DEF Surjection, EventBit, Range
<1> HIDE DEF n
<1>2. IsFiniteSet(EventBit)
  <2>1. IsFiniteSet(1 .. n)
    BY <1>0, FS_Interval
  <2> QED BY <1>1, <2>1, FS_Surjection
<1> QED BY <1>2, FS_Subset, FS_CardinalityType

\* sys_sm takes the bits that are set, in the order it tests them.
LEMMA TakeStep ==
  ASSUME TodoOK, Obeyed, sys_evt \subseteq EventBit, sys_sm_thread_entry
  PROVE  /\ TodoOK' /\ Obeyed'
         /\ \A i \in DOMAIN todo' : todo'[i].do = "bit" /\ todo'[i].evt \in sys_evt
                                     /\ todo'[i] = Bit(todo'[i].evt)
         /\ \A e \in sys_evt : Pending(Bit(e))'
<1>1. todo = <<>> /\ mq = <<>> /\ UNCHANGED <<mq, arb, pins, sm>>
  BY DEF sys_sm_thread_entry, arbVars, smVars
<1>2. PICK bits \in [1 .. Cardinality(sys_evt) -> sys_evt] :
        Range(bits) = sys_evt /\ todo' = [i \in DOMAIN bits |-> Bit(bits[i])]
  BY DEF sys_sm_thread_entry
<1> DEFINE n == Cardinality(sys_evt)
<1>3. n \in Nat
  BY FewBits
<1> HIDE DEF n
<1>4. DOMAIN bits = 1 .. n /\ DOMAIN todo' = 1 .. n /\ \A i \in 1 .. n : bits[i] \in sys_evt /\ todo'[i] = Bit(bits[i])
  BY <1>2 DEF n
<1>5. ASSUME NEW i \in DOMAIN todo'
      PROVE  /\ todo'[i] \in Element /\ todo'[i].do = "bit" /\ todo'[i].evt \in sys_evt
             /\ todo'[i] = Bit(todo'[i].evt)
  <2>1. todo'[i] = Bit(bits[i]) /\ bits[i] \in sys_evt /\ bits[i] \in EventBit
    BY <1>4
  <2>2. Bit(bits[i]) \in Element /\ Bit(bits[i]).do = "bit" /\ Bit(bits[i]).evt = bits[i]
    BY <2>1, KindsOfElements
  <2> QED BY <2>1, <2>2
<1>6. todo' \in Seq(Element)
  <2>1. todo' = [i \in 1 .. n |-> todo'[i]]
    BY <1>2, <1>4
  <2> QED BY <1>3, <1>4, <1>5, <2>1, IsASeq
<1>7. TodoOK'
  BY <1>5, <1>6 DEF TodoOK, InOrder
<1>8. ASSUME NEW e \in sys_evt PROVE Pending(Bit(e))'
  <2>1. PICK i \in 1 .. n : bits[i] = e
    BY <1>2, <1>4 DEF Range
  <2> QED BY <1>4, <2>1 DEF Pending
<1>9. \A x : ~ Pending(x)
  <2>1. DOMAIN todo = {}
    BY <1>1
  <2> QED BY <2>1 DEF Pending
<1>10. Obeyed'
  <2>1. DisableThenStop' /\ InitNotInFault'
    BY <1>5 DEF DisableThenStop, InitNotInFault
  <2>2. FaultDisables' /\ OthersEnable'
    BY <1>1, <1>9 DEF Obeyed, FaultDisables, OthersEnable
  <2>3. FaultStops'
    BY <1>1, <1>9 DEF Obeyed, FaultStops
  <2> QED BY <2>1, <2>2, <2>3 DEF Obeyed
<1> QED BY <1>5, <1>7, <1>8, <1>10

-----------------------------------------------------------------------------
(* The other actors *)

\* The voltage detector keeps its type, keeps a fault's kind, and reports
\* every change of its verdict.
LEMMA VoltIsr ==
  ASSUME NEW d \in VoltData, NEW v \in Zone
  PROVE  LET e == BusVoltage_Isr1ms(d, v)
         IN /\ e \in VoltData
            /\ d.fault # 0 => e.fault \in {0, d.fault}
            /\ VoltEvents(d, e) \subseteq {"VOLT_RECOVER_WAIT", "VOLT_OVER", "VOLT_UNDER", "VOLT_NORMAL"}
            /\ e.fault # d.fault => (CASE e.fault = 2 -> "VOLT_OVER" [] e.fault = 1 -> "VOLT_UNDER"
                                       [] OTHER -> "VOLT_NORMAL") \in VoltEvents(d, e)
            /\ {"VOLT_OVER", "VOLT_UNDER"} \cap VoltEvents(d, e) # {} => e.fault # 0
            /\ "VOLT_NORMAL" \in VoltEvents(d, e) => d.fault # 0 /\ e.fault = 0
<1> DEFINE e == BusVoltage_Isr1ms(d, v)
           d1 == [d EXCEPT !.seen = @ \/ v >= Good]
<1>1. d1 \in VoltData /\ d1.fault = d.fault /\ d1.waiting = d.waiting /\ d1.cnt = d.cnt
  <2>1. (d.seen \/ v >= Good) \in BOOLEAN
    BY Zenon
  <2> QED BY <2>1 DEF VoltData
<1>2. e = IF d1.fault # 0 THEN VoltRecover(d1, v) ELSE VoltDetect(d1, v)
  BY DEF BusVoltage_Isr1ms
<1> HIDE DEF d1, e
<1>3. e \in VoltData /\ (d.fault # 0 => e.fault \in {0, d.fault})
  <2>1. CASE d1.fault = 0
    BY <1>1, <1>2, <2>1 DEF VoltDetect, VoltData, VoltFault
  <2>2. CASE d1.fault # 0
    <3>1. e = VoltRecover(d1, v)
      BY <1>2, <2>2
    <3>2. CASE ~ BackToGood(d1.fault, v) \/ ~ d1.waiting
      <4>1. 0 \in 0 .. RecoverMs
        BY PowerConstants
      <4> QED BY <1>1, <3>1, <3>2, <4>1 DEF VoltRecover, VoltData
    <3>3. CASE BackToGood(d1.fault, v) /\ d1.waiting /\ d1.cnt + 1 >= RecoverMs
      <4>1. 0 \in 0 .. RecoverMs /\ 0 \in VoltFault
        BY PowerConstants DEF VoltFault
      <4> QED BY <1>1, <3>1, <3>3, <4>1 DEF VoltRecover, VoltReset, VoltData
    <3>4. CASE BackToGood(d1.fault, v) /\ d1.waiting /\ ~ (d1.cnt + 1 >= RecoverMs)
      <4>1. d1.cnt + 1 \in 0 .. RecoverMs
        BY <1>1, <3>4, PowerConstants DEF VoltData
      <4> QED BY <1>1, <3>1, <3>4, <4>1 DEF VoltRecover, VoltData
    <3> QED BY <3>2, <3>3, <3>4
  <2> QED BY <2>1, <2>2
<1>4. d.fault \in 0 .. 2 /\ e.fault \in 0 .. 2
  BY <1>3 DEF VoltData, VoltFault
<1>5. /\ VoltEvents(d, e) \subseteq {"VOLT_RECOVER_WAIT", "VOLT_OVER", "VOLT_UNDER", "VOLT_NORMAL"}
      /\ e.fault # d.fault => (CASE e.fault = 2 -> "VOLT_OVER" [] e.fault = 1 -> "VOLT_UNDER"
                                 [] OTHER -> "VOLT_NORMAL") \in VoltEvents(d, e)
      /\ {"VOLT_OVER", "VOLT_UNDER"} \cap VoltEvents(d, e) # {} => e.fault # 0
      /\ "VOLT_NORMAL" \in VoltEvents(d, e) => d.fault # 0 /\ e.fault = 0
  BY <1>4 DEF VoltEvents
<1> QED BY <1>3, <1>5 DEF e

\* The current detector keeps its type, masked or not.
LEMMA CurIsr ==
  ASSUME NEW c \in CurData, NEW high \in BOOLEAN
  PROVE  CurrentSensor_Isr1ms(c, high) \in CurData
<1>1. CASE c.block # 0
  BY <1>1, PowerConstants DEF CurrentSensor_Isr1ms, CurData
<1>2. CASE c.block = 0
  <2> DEFINE n == IF high THEN (IF c.over < WindowMs THEN c.over + 1 ELSE c.over) ELSE 0
  <2>1. n \in 0 .. WindowMs
    BY PowerConstants DEF CurData
  <2>2. CurrentSensor_Isr1ms(c, high) = [status |-> n >= WindowMs, over |-> n, block |-> 0]
    BY <1>2 DEF CurrentSensor_Isr1ms, CurData
  <2>3. (n >= WindowMs) \in BOOLEAN
    BY <2>1, PowerConstants
  <2> HIDE DEF n
  <2> QED BY <2>1, <2>2, <2>3, PowerConstants DEF CurData
<1> QED BY <1>1, <1>2

\* The interrupt: types, and the events it may send.
LEMMA IsrTypes ==
  ASSUME SysTypeOK, NEW high \in BOOLEAN, Dev_Power_Isr1ms(volt, high)
  PROVE  /\ vm' \in VoltData /\ cur' \in CurData /\ sys_evt \subseteq sys_evt'
         /\ sys_evt' \subseteq sys_evt \cup {"VOLT_RECOVER_WAIT", "VOLT_OVER", "VOLT_UNDER",
                                             "VOLT_NORMAL", "OVER_CURRENT"}
         /\ vm.fault # 0 => vm'.fault \in {0, vm.fault}
         /\ vm'.fault # 0 /\ vm.fault = 0 => {"VOLT_OVER", "VOLT_UNDER"} \cap sys_evt' # {}
<1>1. vm \in VoltData /\ cur \in CurData /\ volt \in Zone
  BY DEF SysTypeOK, PowerTypeOK
<1>3. /\ vm' = BusVoltage_Isr1ms(vm, volt) /\ cur' = CurrentSensor_Isr1ms(cur, high)
      /\ sys_evt' = sys_evt \cup VoltEvents(vm, vm') \cup CurEvents(cur, cur')
  BY DEF Dev_Power_Isr1ms
<1>4. /\ vm' \in VoltData /\ (vm.fault # 0 => vm'.fault \in {0, vm.fault})
      /\ VoltEvents(vm, vm') \subseteq {"VOLT_RECOVER_WAIT", "VOLT_OVER", "VOLT_UNDER", "VOLT_NORMAL"}
      /\ vm'.fault # vm.fault => (CASE vm'.fault = 2 -> "VOLT_OVER" [] vm'.fault = 1 -> "VOLT_UNDER"
                                 [] OTHER -> "VOLT_NORMAL") \in VoltEvents(vm, vm')
  BY <1>1, <1>3, VoltIsr
<1>5. cur' \in CurData
  BY <1>1, <1>3, CurIsr
<1>6. CurEvents(cur, cur') \subseteq {"OVER_CURRENT"}
  BY DEF CurEvents
<1>7. vm'.fault \in 0 .. 2
  BY <1>4 DEF VoltData, VoltFault
<1>8. vm'.fault # 0 /\ vm.fault = 0 => {"VOLT_OVER", "VOLT_UNDER"} \cap sys_evt' # {}
  BY <1>3, <1>4, <1>7
<1> QED BY <1>3, <1>4, <1>5, <1>6, <1>8

\* ... as the system takes it, whatever the current comparison may say.
LEMMA IsrStep ==
  ASSUME SysTypeOK, PowerIsr
  PROVE  /\ vm' \in VoltData /\ cur' \in CurData /\ sys_evt \subseteq sys_evt'
         /\ sys_evt' \subseteq sys_evt \cup {"VOLT_RECOVER_WAIT", "VOLT_OVER", "VOLT_UNDER",
                                             "VOLT_NORMAL", "OVER_CURRENT"}
         /\ vm.fault # 0 => vm'.fault \in {0, vm.fault}
         /\ vm'.fault # 0 /\ vm.fault = 0 => {"VOLT_OVER", "VOLT_UNDER"} \cap sys_evt' # {}
<1>1. PICK high \in BOOLEAN : Dev_Power_Isr1ms(volt, high)
  BY SysConstants DEF PowerIsr
<1> QED BY <1>1, IsrTypes

\* One turn of the arbitration thread, down to the pins.
LEMMA ActStep ==
  ASSUME ArbInv, SysTypeOK, OneQueued, Act
  PROVE  LET m == Head(mq)
         IN /\ mq = <<m>> /\ mq' = <<>> /\ m \in Msg /\ m.axis \in Axis
            /\ \A a \in Axis : arb'[a].enable = arb[a].enable
            /\ \A a \in Axis : a # m.axis => arb'[a] = arb[a]
            /\ arb'[m.axis] = Arb_Decision(Arb_ProcessMessage(arb[m.axis], m))
            /\ out'[m.axis] = OutputOp(arb'[m.axis]) /\ pins' = Physical(out'[m.axis])
            /\ ~ arb[m.axis].enable \/ m.verb = "EMERGENCY_STOP" => pins' = "stop"
            /\ pins' \in Pins /\ cur' \in CurData
<1> DEFINE m == Head(mq)
           p == Arb_ProcessMessage(arb[m.axis], m)
           e == Arb_Decision(p)
<1>1. mq # <<>> /\ mq \in Seq(Msg) /\ arb \in [Axis -> ArbData] /\ out \in [Axis -> Dir \cup {"stop"}]
  BY DEF Act, Arb_ThreadEntry, ArbInv, ArbTypeOK
<1>2. m \in Msg /\ m.axis \in Axis
  <2>1. m \in Msg
    BY <1>1, HeadTailProperties
  <2> QED BY <2>1 DEF Msg
<1>3. mq = <<m>> /\ Tail(mq) = <<>>
  <2>1. Len(mq) \in Nat /\ Len(mq) # 0
    BY <1>1, LenProperties, EmptySeq
  <2>2. Len(mq) = 1
    BY <2>1 DEF OneQueued
  <2>3. mq[1] = m /\ Len(Tail(mq)) = 0 /\ Tail(mq) \in Seq(Msg)
    BY <1>1, <2>2, HeadTailProperties
  <2>4. Tail(mq) = <<>>
    BY <2>3, EmptySeq
  <2>5. /\ <<m>> \in Seq(Msg) /\ Len(mq) = Len(<<m>>)
        /\ \A i \in 1 .. Len(mq) : mq[i] = <<m>>[i]
    BY <1>2, <2>2, <2>3
  <2>6. mq = <<m>>
    BY <1>1, <2>5, SeqEqual
  <2> QED BY <2>4, <2>6
<1>4. DataInv(arb[m.axis])
  BY <1>2, ArbInvByAxis DEF ByAxis
<1>5. e.enable = arb[m.axis].enable /\ e \in ArbData /\ OutputOp(e) \in Dir \cup {"stop"}
  BY <1>2, <1>4, ProcessKeeps, ProcessMessageOK, DecisionOK, TurnOK
<1>6. ~ arb[m.axis].enable \/ m.verb = "EMERGENCY_STOP" => OutputOp(e) = "stop"
  BY <1>2, <1>4, StoppedTurn
<1>7. /\ arb' = [arb EXCEPT ![m.axis] = e] /\ out' = [out EXCEPT ![m.axis] = OutputOp(e)]
      /\ mq' = Tail(mq) /\ MotorGpio_WritePair(out'[m.axis])
  BY DEF Act, Arb_ThreadEntry
<1> HIDE DEF e, p
<1>8. /\ arb'[m.axis] = e /\ \A a \in Axis : a # m.axis => arb'[a] = arb[a]
      /\ out'[m.axis] = OutputOp(e)
  BY <1>1, <1>2, <1>7
<1>9. \A a \in Axis : arb'[a].enable = arb[a].enable
  BY <1>5, <1>8
<1>10. pins' = Physical(OutputOp(e)) /\ pins' \in Pins /\ cur' \in CurData
  <2>1. pins' = Physical(OutputOp(e))
    BY <1>7, <1>8 DEF MotorGpio_WritePair
  <2>2. Physical(OutputOp(e)) \in Pins
    BY <1>5 DEF Physical, Pins, Dir
  <2>3. cur \in CurData /\ BlockMs \in 0 .. BlockMs
    BY PowerConstants DEF SysTypeOK, PowerTypeOK
  <2>4. cur' \in {cur, [cur EXCEPT !.block = BlockMs]}
    BY <1>7 DEF MotorGpio_WritePair
  <2>5. cur' \in CurData
    BY <2>3, <2>4 DEF CurData
  <2> QED BY <2>1, <2>2, <2>5
<1>11. Physical("stop") = "stop"
  BY DEF Physical
<1> QED BY <1>2, <1>3, <1>6, <1>7, <1>8, <1>9, <1>10, <1>11 DEF e, p

\* A decision of the arbiter never turns the motor in FAULT unless an
\* emergency stop is still to come.
LEMMA ActObeys ==
  ASSUME SysInv, Act
  PROVE  TodoOK' /\ OneQueued' /\ Obeyed'
<1> DEFINE m == Head(mq)
<1>1. ArbInv /\ SysTypeOK /\ TodoOK /\ OneQueued /\ Obeyed
  BY DEF SysInv
<1>2. UNCHANGED <<todo, sm>>
  BY DEF Act, smVars
<1>3. /\ mq = <<m>> /\ mq' = <<>> /\ m \in Msg /\ m.axis \in Axis
      /\ \A a \in Axis : arb'[a].enable = arb[a].enable
      /\ ~ arb[m.axis].enable \/ m.verb = "EMERGENCY_STOP" => pins' = "stop"
  BY <1>1, ActStep
<1>4. TodoOK' /\ OneQueued'
  BY <1>1, <1>2, <1>3 DEF TodoOK, InOrder, OneQueued
<1>5. \A x : Pending(x)' <=> Pending(x)
  BY <1>2 DEF Pending
<1>6. DisableThenStop' /\ InitNotInFault' /\ FaultDisables' /\ OthersEnable'
  BY <1>1, <1>2, <1>3, <1>5 DEF Obeyed, DisableThenStop, InitNotInFault, FaultDisables, OthersEnable
<1>7. FaultStops'
  <2>1. SUFFICES ASSUME sm = "FAULT", pins' # "stop"
                 PROVE  \E a \in Axis : Pending(Post(EStopMsg(a), TRUE))
    BY <1>2, <1>5 DEF FaultStops
  <2>2. Pending(Enable(m.axis, FALSE))
    BY <1>1, <1>3, <2>1 DEF Obeyed, FaultDisables
  <2>3. PICK i \in DOMAIN todo : todo[i] = Enable(m.axis, FALSE)
    BY <2>2 DEF Pending
  <2>4. todo[i].do = "enable" /\ todo[i].axis = m.axis
    <3>1. Enable(m.axis, FALSE).do = "enable" /\ Enable(m.axis, FALSE).axis = m.axis
      BY KindsOfElements
    <3> QED BY <2>3, <3>1
  <2>5. i + 1 \in DOMAIN todo /\ todo[i + 1] = Post(EStopMsg(m.axis), TRUE)
    BY <1>1, <2>4 DEF Obeyed, DisableThenStop
  <2> QED BY <1>3, <2>5 DEF Pending
<1> QED BY <1>4, <1>6, <1>7 DEF Obeyed

\* The polarity scan posts at most one command, to an empty queue.
LEMMA ScanStep ==
  ASSUME SysTypeOK, Polarity_Scan
  PROVE  /\ mq = <<>> /\ pol' \in Polarity
         /\ UNCHANGED <<arb, out, vm, cur, pins, sm, previous_state, fault_bits, prev_state,
                        overcur_dir, todo, hw_started, volt, pin, hand>>
         /\ \/ pol' = "unpowered" /\ UNCHANGED <<mq, sys_evt>>
            \/ /\ pol' = pin /\ pol' # pol /\ pin \in Dir /\ RunMsg(pin) \in Msg /\ mq' = <<RunMsg(pin)>>
               /\ Arb_SendCommand(RunMsg(pin), FALSE)
               /\ sys_evt' = sys_evt \cup {"POLARITY_CHG"} /\ vm.fault # 1
<1>1. /\ mq = <<>>
      /\ UNCHANGED <<vm, cur, pins, sm, previous_state, fault_bits, prev_state,
                     overcur_dir, todo, hw_started, volt, pin, hand>>
  BY DEF Polarity_Scan, smVars, faultVars, envVars
<1>2. pin \in Dir
  BY DEF SysTypeOK
<1>3. CASE vm.fault = 1 /\ pol' = "unpowered" /\ UNCHANGED <<arbVars, sys_evt>>
  BY <1>1, <1>3 DEF arbVars, Polarity
<1>4. CASE /\ vm.fault # 1 /\ pol # pin /\ pol' = pin /\ sys_evt' = sys_evt \cup {"POLARITY_CHG"}
           /\ Arb_SendCommand(RunMsg(pin), FALSE)
  <2>1. RunMsg(pin) \in Msg
    BY <1>2, MsgOK
  <2>2. Len(mq) = 0 /\ ~ Len(mq) >= MqDepth
    BY <1>1, ArbConstants
  <2>3. mq' = Append(mq, RunMsg(pin)) /\ UNCHANGED <<arb, out>>
    BY <1>4, <2>2 DEF Arb_SendCommand
  <2>4. mq' = <<RunMsg(pin)>>
    BY <1>1, <2>3
  <2> QED BY <1>1, <1>2, <1>4, <2>1, <2>3, <2>4 DEF Polarity
<1> QED BY <1>3, <1>4 DEF Polarity_Scan

\* Every step of every actor preserves the arbiter's invariant.
LEMMA SysArbInv == SysInv /\ [SysNext]_sysVars => ArbInv'
<1> SUFFICES ASSUME SysInv, [SysNext]_sysVars PROVE [ArbStep]_arbVars
  BY StepInv DEF SysInv
<1>1. ArbInv /\ SysTypeOK /\ TodoOK /\ Obeyed /\ sm \in State
  BY DEF SysInv, SysTypeOK
<1>2. CASE Sys_State_ArbSendCommand
  <2>1. Head(todo).msg \in Msg
    BY <1>1, <1>2, PostStep
  <2>2. Head(todo).urgent \in BOOLEAN
    <3>1. Head(todo) \in Element /\ Head(todo).do = "post"
      BY <1>1, <1>2, HeadTailProperties DEF Sys_State_ArbSendCommand, Do, TodoOK
    <3> QED BY <3>1, ElementKinds
  <2> QED BY <1>2, <2>1, <2>2 DEF Sys_State_ArbSendCommand, ArbStep
<1>3. CASE Sys_State_SetArbEnable
  BY <1>1, <1>3, DisableStep DEF ArbStep
<1>4. CASE Dev_Registry_InitAll
  BY <1>4 DEF Dev_Registry_InitAll, ArbStep
<1>5. CASE Act
  BY <1>5 DEF Act, ArbStep
<1>6. CASE Polarity_Scan
  <2>1. UNCHANGED arbVars \/ (RunMsg(pin) \in Msg /\ Arb_SendCommand(RunMsg(pin), FALSE))
    BY <1>1, <1>6, ScanStep DEF arbVars
  <2> QED BY <2>1 DEF ArbStep
<1>7. CASE sys_sm_thread_entry \/ StateMachine_SendEvent \/ StartHardware \/ PowerIsr \/ cmd_sys_evt
           \/ Supply \/ UNCHANGED sysVars
  BY <1>7 DEF sys_sm_thread_entry, StateMachine_SendEvent, StartHardware, PowerIsr, cmd_sys_evt,
              Supply, sysVars, arbVars
<1>8. CASE Sys_State_Dispatch
  BY <1>1, <1>8, BitStep DEF arbVars
<1> QED BY <1>2, <1>3, <1>4, <1>5, <1>6, <1>7, <1>8 DEF SysNext, SysSm

\* ... and the invariants of what sys_sm has to do.
LEMMA SysObeyed == SysInv /\ [SysNext]_sysVars => TodoOK' /\ OneQueued' /\ Obeyed'
<1> SUFFICES ASSUME SysInv, [SysNext]_sysVars PROVE TodoOK' /\ OneQueued' /\ Obeyed'
  OBVIOUS
<1>1. ArbInv /\ SysTypeOK /\ TodoOK /\ OneQueued /\ Obeyed /\ sm \in State /\ sys_evt \subseteq EventBit
  BY DEF SysInv, SysTypeOK
<1>2. UNCHANGED mq => OneQueued'
  BY <1>1 DEF OneQueued
<1>3. CASE sys_sm_thread_entry
  BY <1>1, <1>2, <1>3, TakeStep DEF sys_sm_thread_entry, arbVars
<1>4. CASE StateMachine_SendEvent
  BY <1>1, <1>2, <1>4, EventStep DEF StateMachine_SendEvent, arbVars
<1>5. CASE Sys_State_Dispatch
  BY <1>1, <1>2, <1>5, BitStep
<1>6. CASE Sys_State_ArbSendCommand
  BY <1>1, <1>6, PostStep
<1>7. CASE Sys_State_SetArbEnable
  BY <1>1, <1>2, <1>7, DisableStep DEF Arb_SetEnable
<1>8. CASE Dev_Registry_InitAll
  BY <1>1, <1>2, <1>8, ModuleStep
<1>9. CASE StartHardware
  BY <1>1, <1>2, <1>9, StartStep DEF StartHardware, arbVars
<1>10. CASE Act
  BY <1>10, ActObeys
<1>11. CASE UNCHANGED <<mq, arb, pins, sm, todo>>
  <2>1. \A x : Pending(x)' <=> Pending(x)
    BY <1>11 DEF Pending
  <2> QED BY <1>1, <1>2, <1>11, <2>1 DEF TodoOK, InOrder, Obeyed, DisableThenStop, InitNotInFault,
                                        FaultDisables, FaultStops, OthersEnable
<1>12. CASE PowerIsr \/ cmd_sys_evt \/ Supply \/ UNCHANGED sysVars
  BY <1>11, <1>12 DEF PowerIsr, Dev_Power_Isr1ms, cmd_sys_evt, Supply, sysVars, arbVars, powerVars, smVars
<1>13. CASE Polarity_Scan
  <2>1. mq = <<>> /\ UNCHANGED <<arb, pins, sm, todo>> /\ (UNCHANGED mq \/ mq' = <<RunMsg(pin)>>)
    BY <1>1, <1>13, ScanStep
  <2>2. OneQueued'
    <3>1. CASE mq' = <<RunMsg(pin)>>
      <4>1. Len(mq') = 1
        BY <3>1
      <4> QED BY <4>1 DEF OneQueued
    <3> QED BY <1>2, <2>1, <3>1
  <2>3. \A x : Pending(x)' <=> Pending(x)
    BY <2>1 DEF Pending
  <2>4. TodoOK' /\ DisableThenStop' /\ InitNotInFault' /\ FaultDisables' /\ OthersEnable'
    BY <1>1, <2>1, <2>3 DEF TodoOK, InOrder, Obeyed, DisableThenStop, InitNotInFault,
                            FaultDisables, OthersEnable
  <2>5. FaultStops'
    BY <1>1, <2>1, <2>3 DEF Obeyed, FaultStops
  <2> QED BY <2>2, <2>4, <2>5 DEF Obeyed
<1> QED BY <1>3, <1>4, <1>5, <1>6, <1>7, <1>8, <1>9, <1>10, <1>12, <1>13 DEF SysNext, SysSm

\* ... and the types.
LEMMA SysTypes == SysInv /\ [SysNext]_sysVars => SysTypeOK'
<1> SUFFICES ASSUME SysInv, [SysNext]_sysVars PROVE SysTypeOK'
  OBVIOUS
<1>1. ArbInv /\ SysTypeOK /\ TodoOK /\ OneQueued /\ Obeyed
  BY DEF SysInv
<1>2. ArbTypeOK'
  BY SysArbInv DEF ArbInv
<1>3. vm' \in VoltData /\ cur' \in CurData /\ pins' \in Pins
  <2>0. vm \in VoltData /\ cur \in CurData /\ pins \in Pins
    BY <1>1 DEF SysTypeOK, PowerTypeOK
  <2>1. CASE Dev_Registry_InitAll
    <3>1. CurReset \in CurData
      <4>1. 0 \in 0 .. WindowMs /\ 0 \in 0 .. BlockMs
        BY PowerConstants
      <4> QED BY <4>1 DEF CurReset, CurData
    <3>2. VoltReset(vm) \in VoltData
      <4>1. 0 \in 0 .. RecoverMs /\ 0 \in VoltFault
        BY PowerConstants DEF VoltFault
      <4> QED BY <2>0, <4>1 DEF VoltReset, VoltData
    <3> QED BY <2>0, <2>1, <3>1, <3>2 DEF Dev_Registry_InitAll, CurrentSensor_Init, BusVoltage_Init
  <2>2. CASE Act
    BY <1>1, <2>0, <2>2, ActStep DEF Act
  <2>3. CASE PowerIsr
    BY <1>1, <2>0, <2>3, IsrStep DEF PowerIsr, Dev_Power_Isr1ms
  <2>4. CASE UNCHANGED <<vm, cur, pins>>
    BY <2>0, <2>4
  <2>5. CASE Sys_State_Dispatch
    BY <1>1, <2>4, <2>5, BitStep
  <2> QED BY <2>1, <2>2, <2>3, <2>4, <2>5
         DEF SysNext, SysSm, sys_sm_thread_entry, StateMachine_SendEvent, Sys_State_ArbSendCommand,
             Sys_State_SetArbEnable, StartHardware, Polarity_Scan, cmd_sys_evt, Supply, sysVars, powerVars
<1>4. sys_evt' \subseteq EventBit
  <2>0. sys_evt \subseteq EventBit
    BY <1>1 DEF SysTypeOK
  <2>1. CASE PowerIsr
    BY <1>1, <2>0, <2>1, IsrStep, Bits
  <2>2. CASE Polarity_Scan
    BY <1>1, <2>0, <2>2, ScanStep, Bits
  <2>3. CASE cmd_sys_evt
    BY <2>3, SysConstants DEF cmd_sys_evt
  <2>4. CASE sys_evt' \in {sys_evt, {}}
    BY <2>0, <2>4
  <2>5. CASE Sys_State_Dispatch
    BY <1>1, <2>4, <2>5, BitStep
  <2> QED BY <2>1, <2>2, <2>3, <2>4, <2>5
         DEF SysNext, SysSm, sys_sm_thread_entry, StateMachine_SendEvent, Sys_State_ArbSendCommand,
             Sys_State_SetArbEnable, StartHardware, Dev_Registry_InitAll, Act, Supply, sysVars, powerVars
<1>5. sm' \in State /\ previous_state' \in State
  <2>0. sm \in State /\ previous_state \in State
    BY <1>1 DEF SysTypeOK
  <2>1. CASE StateMachine_SendEvent
    BY <2>0, <2>1, EventCases DEF State
  <2>2. CASE UNCHANGED <<sm, previous_state>>
    BY <2>0, <2>2
  <2>3. CASE Sys_State_Dispatch
    BY <1>1, <2>2, <2>3, BitStep
  <2> QED BY <2>1, <2>2, <2>3
         DEF SysNext, SysSm, sys_sm_thread_entry, Sys_State_ArbSendCommand, PowerIsr, cmd_sys_evt,
             Sys_State_SetArbEnable, StartHardware, Dev_Registry_InitAll, Act, Polarity_Scan, Supply,
             sysVars, smVars
<1>6. prev_state' \in State /\ fault_bits' \subseteq Fault /\ overcur_dir' \in Dir \cup {"unknown"}
  <2>0. /\ prev_state \in State /\ sm \in State /\ fault_bits \subseteq Fault
        /\ overcur_dir \in Dir \cup {"unknown"}
    BY <1>1 DEF SysTypeOK
  <2>1. CASE OnOverCurrent
    BY <2>0, <2>1 DEF OnOverCurrent, NoteFault, Fault, faultVars
  <2>2. CASE OnRodLimitFault \/ OnVoltFault
    BY <2>0, <2>2 DEF OnRodLimitFault, OnVoltFault, NoteFault, VoltBit, Fault
  <2>3. CASE OnVoltNormal \/ OnPolarityChg \/ OnRecovery
    BY <2>0, <2>3 DEF OnVoltNormal, OnPolarityChg, OnRecovery
  <2>4. CASE UNCHANGED <<fault_bits, prev_state, overcur_dir>>
    BY <2>0, <2>4
  <2> QED BY <2>1, <2>2, <2>3, <2>4
         DEF SysNext, SysSm, Sys_State_Dispatch, OnPlainBit, OnRecoverWait, sys_sm_thread_entry,
             StateMachine_SendEvent, Sys_State_ArbSendCommand, PowerIsr, cmd_sys_evt,
             Sys_State_SetArbEnable, StartHardware, Dev_Registry_InitAll, Act, Polarity_Scan, Supply,
             sysVars, faultVars
<1>7. pol' \in Polarity
  <2>0. pol \in Polarity
    BY <1>1 DEF SysTypeOK
  <2>1. CASE Polarity_Scan
    BY <1>1, <2>1, ScanStep
  <2>2. CASE Dev_Registry_InitAll
    BY <2>0, <2>2 DEF Dev_Registry_InitAll, Polarity
  <2>3. CASE UNCHANGED pol
    BY <2>0, <2>3
  <2>4. CASE Sys_State_Dispatch
    BY <1>1, <2>3, <2>4, BitStep
  <2> QED BY <2>1, <2>2, <2>3, <2>4
         DEF SysNext, SysSm, sys_sm_thread_entry, StateMachine_SendEvent, Sys_State_ArbSendCommand,
             PowerIsr, cmd_sys_evt, Sys_State_SetArbEnable, StartHardware, Act, Supply, sysVars
<1>8. hw_started' \in BOOLEAN /\ volt' \in Zone /\ pin' \in Dir /\ hand' \in 0 .. MaxShell
  <2>0. hw_started \in BOOLEAN /\ volt \in Zone /\ pin \in Dir /\ hand \in 0 .. MaxShell
    BY <1>1 DEF SysTypeOK
  <2>1. CASE Supply
    BY <2>0, <2>1, SysConstants DEF Supply, Opposite, Dir
  <2>2. CASE cmd_sys_evt
    BY <2>0, <2>2, SysConstants DEF cmd_sys_evt
  <2>3. CASE StartHardware
    BY <2>0, <2>3 DEF StartHardware, envVars
  <2>4. CASE UNCHANGED <<hw_started, volt, pin, hand>>
    BY <2>0, <2>4
  <2>5. CASE Sys_State_Dispatch
    BY <1>1, <2>4, <2>5, BitStep
  <2> QED BY <2>1, <2>2, <2>3, <2>4, <2>5
         DEF SysNext, SysSm, sys_sm_thread_entry, StateMachine_SendEvent, Sys_State_ArbSendCommand,
             PowerIsr, Sys_State_SetArbEnable, Dev_Registry_InitAll, Act, Polarity_Scan, sysVars, envVars
<1> QED BY <1>2, <1>3, <1>4, <1>5, <1>6, <1>7, <1>8 DEF SysTypeOK, PowerTypeOK

\* Everything holds at power-up.
LEMMA SysInitInv == App_Model_Init => SysInv
<1> SUFFICES ASSUME App_Model_Init PROVE SysInv
  OBVIOUS
<1>1. /\ ArbInit /\ mq = <<>> /\ todo = <<>> /\ sm = "INIT" /\ arb = [a \in Axis |-> EmptyData]
  BY DEF App_Model_Init, ArbInit
<1>2. ArbInv
  BY <1>1, InitInv
<1>3. SysTypeOK
  <2>1. ArbTypeOK
    BY <1>2 DEF ArbInv
  <2>2. PowerTypeOK
    <3>1. 0 \in 0 .. WindowMs /\ 0 \in 0 .. BlockMs /\ 0 \in 0 .. RecoverMs /\ 0 \in VoltFault
      BY PowerConstants DEF VoltFault
    <3> QED BY <3>1 DEF App_Model_Init, PowerInit, PowerTypeOK, CurReset, CurData, VoltData, Pins
  <2>3. sys_evt \subseteq EventBit
    BY Bits DEF App_Model_Init
  <2>4. volt \in Zone /\ hand \in 0 .. MaxShell
    BY SysConstants DEF App_Model_Init
  <2> QED BY <2>1, <2>2, <2>3, <2>4 DEF App_Model_Init, SysTypeOK, State, Polarity, Dir, Fault
<1>4. TodoOK /\ OneQueued /\ DOMAIN todo = {}
  BY <1>1, ShortOps DEF TodoOK, OneQueued
<1>5. \A a \in Axis : arb[a].enable
  BY <1>1 DEF EmptyData
<1>6. Obeyed
  BY <1>1, <1>4, <1>5 DEF Obeyed, DisableThenStop, InitNotInFault, FaultDisables, FaultStops, OthersEnable
<1> QED BY <1>2, <1>3, <1>4, <1>6 DEF SysInv

\* The system keeps its inductive invariant.
THEOREM SysInvariant == SysSpec => []SysInv
<1>1. SysInv /\ [SysNext]_sysVars => SysInv'
  BY SysArbInv, SysObeyed, SysTypes DEF SysInv
<1> QED BY <1>1, SysInitInv, PTL DEF SysSpec

\* Whatever the detectors report, the supply does and the shell sends, every
\* variable of the composed system has its type.
THEOREM SysTypeCorrect == SysSpec => []SysTypeOK
<1>1. SysInv => SysTypeOK
  BY DEF SysInv
<1> QED BY <1>1, SysInvariant, PTL

\* At rest the state is obeyed.
LEMMA InvObeyed == SysInv => StateIsObeyed
<1> SUFFICES ASSUME SysInv, todo = <<>>, mq = <<>>
             PROVE  /\ sm = "FAULT" => pins = "stop" /\ \A a \in Axis : ~ arb[a].enable
                    /\ sm # "FAULT" => \A a \in Axis : arb[a].enable
  BY DEF StateIsObeyed, FaultIsStopped, WorkingIsEnabled, Settled
<1>1. \A x : ~ Pending(x)
  <2>1. DOMAIN todo = {}
    OBVIOUS
  <2> QED BY <2>1 DEF Pending
<1>2. FaultDisables /\ FaultStops /\ OthersEnable
  BY DEF SysInv, Obeyed
<1>3. \A a : mq # <<EStopMsg(a)>>
  OBVIOUS
<1> QED BY <1>1, <1>2, <1>3 DEF FaultDisables, FaultStops, OthersEnable

\* At rest FAULT means a braked motor and disabled axes, and IDLE, RUN and
\* STOP mean enabled axes, for any number of axes and any shell commands.
THEOREM SysStateIsObeyed == SysSpec => []StateIsObeyed
<1> QED BY InvObeyed, SysInvariant, PTL
=============================================================================
