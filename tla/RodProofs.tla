------------------------------ MODULE RodProofs ------------------------------
(***************************************************************************)
(* The push rod of rod_task.c and dev_rod, composed with the system state  *)
(* machine, the arbiter and the detectors: which direction is blocked when *)
(* the rod is at a limit, and when a calibrated position is the true one.  *)
(***************************************************************************)
EXTENDS Rod, SysRunProofs

\* The state at the end of a direction, and its block in the arbiter.
LimitOf(dir) == IF dir = "fwd" THEN "EXT_LIMIT" ELSE "RET_LIMIT"
LimitDevice(dir) == IF dir = "fwd" THEN RodLimitFwd ELSE RodLimitRev
BlockRecord(dir) ==
  [device |-> LimitDevice(dir), priority |-> PrioLimit, dir |-> dir, duty |-> 0]

Blocks(dir) == arb[MainAxis].block[dir]
Allows(dir) == arb[MainAxis].allow[dir]

Calib == [pos : Int, done : BOOLEAN, min : BOOLEAN, max : BOOLEAN]
RodTypes ==
  /\ rod \in RodState /\ calib \in Calib /\ req \in CalibReq
  /\ phys \in 0 .. Stroke /\ delta \in -1 .. 1
  /\ ticked \in BOOLEAN /\ reset \in BOOLEAN

\* Only the rod blocks a direction, once; only the power devices ask for one.
BlockQueues == \A dir \in Dir : Blocks(dir) \in {<<>>, <<BlockRecord(dir)>>}
PowerAllows == \A dir \in Dir : \A e \in Device : Holds(Allows(dir), e) => e = PowerOf(dir)

\* A queued command that blocks nothing and lifts no block of the rod's.
Stops == {"CLEAR_ALLOW", "EMERGENCY_STOP"}
Plain == mq = <<>> \/ Head(mq).verb \in Stops \/ \E dir \in Dir : mq = <<RunMsg(dir)>>

\* The rod task has posted everything: the blocks are those of its state.
Posted ==
  /\ Plain /\ cmds = <<>>
  /\ \A dir \in Dir : Blocks(dir) # <<>> <=> ~ reset /\ rod = LimitOf(dir)

\* It is at a limit and has still to block the direction.
Arriving(dir) ==
  /\ rod = LimitOf(dir) /\ ~ reset /\ Blocks(Opposite(dir)) = <<>>
  /\ \/ Plain /\ cmds \in {<<LimitMsg("CLEAR_ALLOW", dir), LimitMsg("BLOCK", dir)>>,
                           <<LimitMsg("BLOCK", dir)>>}
     \/ mq = <<LimitMsg("BLOCK", dir)>> /\ cmds = <<>>

\* It has left a limit and has still to lift the block; lifting it starts
\* nothing.
Leaving(dir) ==
  /\ rod \notin {"EXT_LIMIT", "RET_LIMIT"} /\ ~ reset /\ Blocks(Opposite(dir)) = <<>>
  /\ Allows(dir) = <<>> \/ Blocks(dir) = <<>>
  /\ \/ Plain /\ cmds = <<LimitMsg("UNBLOCK", dir)>>
     \/ mq = <<LimitMsg("UNBLOCK", dir)>> /\ cmds = <<>>

AtLimits == Posted \/ \E dir \in Dir : Arriving(dir) \/ Leaving(dir)

RodInv ==
  SysInv /\ PostsStop /\ RodTypes /\ BlockQueues /\ PowerAllows /\ AtLimits

-----------------------------------------------------------------------------
(* One turn of the arbiter *)

\* The data of the main axis, as the rod and the polarity leave it.
RodData(d) ==
  /\ DataInv(d)
  /\ \A dir \in Dir : /\ d.block[dir] \in {<<>>, <<BlockRecord(dir)>>}
                      /\ \A e \in Device : Holds(d.allow[dir], e) => e = PowerOf(dir)

\* The directions, and the devices of each.
LEMMA Directions ==
  /\ "fwd" \in Dir /\ "rev" \in Dir /\ "none" \notin Dir /\ "stop" \notin Dir
  /\ \A x \in Dir : /\ Opposite(x) \in Dir /\ x # Opposite(x) /\ Opposite(Opposite(x)) = x
                    /\ \A y \in Dir : y = x \/ y = Opposite(x)
                    /\ PowerOf(x) \in Device /\ LimitDevice(x) \in Device
                    /\ \A y \in Dir : LimitDevice(x) # PowerOf(y)
                    /\ LimitOf(x) # LimitOf(Opposite(x))
  /\ PowerOf("fwd") = PowerPos /\ PowerOf("rev") = PowerNeg /\ PowerPos # PowerNeg
BY ArbConstants, RodConstants DEF Dir, Opposite, PowerOf, LimitDevice, LimitOf

\* What the rod task posts is a command of its device on the main axis.
LEMMA LimitMsgs ==
  ASSUME NEW x \in Dir, NEW verb \in Verb
  PROVE  LET m == LimitMsg(verb, x)
         IN /\ m \in Msg /\ m.axis = MainAxis /\ m.verb = verb /\ m.dir = x
            /\ m.device = LimitDevice(x) /\ m.priority = PrioLimit
<1>1. MainAxis \in Axis /\ LimitDevice(x) \in Device /\ 0 \in 0 .. 100
  BY SysConstants, Directions
<1>2. PrioLimit \in 0 .. PrioPower
  BY RodConstants
<1> QED BY <1>1, <1>2 DEF LimitMsg, LimitDevice, Cmd, Msg

\* The block of the rod: a good queue, held by its device alone.
LEMMA BlockQueue ==
  ASSUME NEW x \in Dir
  PROVE  /\ BlockRecord(x) \in Record /\ <<BlockRecord(x)>> \in Seq(Record)
         /\ <<BlockRecord(x)>> # <<>>
         /\ \A e : Holds(<<BlockRecord(x)>>, e) <=> e = LimitDevice(x)
         /\ Arb_CmdListRemove(<<BlockRecord(x)>>, LimitDevice(x)) = <<>>
         /\ \A e : e # LimitDevice(x) =>
              Arb_CmdListRemove(<<BlockRecord(x)>>, e) = <<BlockRecord(x)>>
<1> DEFINE r == BlockRecord(x)
           q == <<r>>
<1>1. r \in Record /\ r.device = LimitDevice(x)
  BY Directions, RodConstants, ArbConstants DEF BlockRecord, Record
<1> HIDE DEF r
<1>2. q \in Seq(Record) /\ Len(q) = 1 /\ DOMAIN q = {1} /\ q[1] = r /\ q # <<>>
  BY <1>1
<1> HIDE DEF q
<1>3. \A e : Holds(q, e) <=> e = LimitDevice(x)
  BY <1>1, <1>2 DEF Holds
<1>4. Arb_CmdListRemove(q, LimitDevice(x)) = <<>>
  <2>1. Arb_CmdListRemove(q, LimitDevice(x)) \in Seq(Record) /\ Len(Arb_CmdListRemove(q, LimitDevice(x))) = 1 - 1
    BY <1>2, <1>3, RemoveKeeps
  <2> QED BY <2>1, EmptySeq
<1>5. \A e : e # LimitDevice(x) => Arb_CmdListRemove(q, e) = q
  BY <1>2, <1>3, RemoveKeeps
<1> QED BY <1>1, <1>2, <1>3, <1>4, <1>5 DEF q, r

\* The decision leaves the queues alone.
LEMMA DecisionQueues ==
  ASSUME NEW d, RodData(d), NEW m \in Msg
  PROVE  LET p == Arb_ProcessMessage(d, m)
             e == Arb_Decision(p)
         IN /\ DataInv(p) /\ DataInv(e) /\ e.block = p.block /\ e.allow = p.allow /\ e.enable = d.enable
            /\ p \in ArbData /\ d \in ArbData
<1>1. DataInv(d)
  BY DEF RodData
<1>2. DataInv(Arb_ProcessMessage(d, m))
  BY <1>1, ProcessMessageOK
<1>3. Arb_ProcessMessage(d, m).enable = d.enable
  BY <1>1, ProcessKeeps DEF DataInv
<1> QED BY <1>1, <1>2, <1>3, DecisionOK DEF DataInv

\* A stop only withdraws run commands.
LEMMA RodStopTurn ==
  ASSUME NEW d, RodData(d), NEW m \in Msg, m.verb \in Stops
  PROVE  LET e == Arb_Decision(Arb_ProcessMessage(d, m))
         IN RodData(e) /\ e.block = d.block /\ \A x \in Dir : e.allow[x] \in {<<>>, d.allow[x]}
<1> DEFINE p == Arb_ProcessMessage(d, m)
           e == Arb_Decision(p)
<1>1. /\ DataInv(e) /\ e.block = p.block /\ e.allow = p.allow /\ d \in ArbData
  BY DecisionQueues
<1>2. Arb_RemoveOppositePowerAllow(d, m) = d /\ m.dir \in Dir
  BY RecordOfMsg DEF Arb_RemoveOppositePowerAllow, Stops
<1>3. p.block = d.block /\ \A x \in Dir : p.allow[x] \in {<<>>, d.allow[x]}
  <2>1. CASE m.verb = "CLEAR_ALLOW"
    <3>1. p = [d EXCEPT !.allow[m.dir] = <<>>]
      BY <1>2, <2>1 DEF Arb_ProcessMessage
    <3> QED BY <1>1, <1>2, <3>1 DEF ArbData
  <2>2. CASE m.verb = "EMERGENCY_STOP"
    <3>1. p = [d EXCEPT !.allow = [x \in Dir |-> <<>>]]
      BY <1>2, <2>2 DEF Arb_ProcessMessage
    <3> QED BY <1>1, <3>1 DEF ArbData
  <2> QED BY <2>1, <2>2 DEF Stops
<1> HIDE DEF e, p
<1>4. RodData(e)
  BY <1>1, <1>3, EmptyQueueOK DEF RodData
<1> QED BY <1>1, <1>3, <1>4 DEF e, p

\* A run command of a power device withdraws the other's and lifts no block of
\* the rod's; against a block it is not queued.
LEMMA RodRunTurn ==
  ASSUME NEW d, RodData(d), NEW x \in Dir
  PROVE  LET e == Arb_Decision(Arb_ProcessMessage(d, RunMsg(x)))
         IN /\ RodData(e) /\ e.block = d.block /\ e.allow[Opposite(x)] = <<>>
            /\ d.block[x] # <<>> => e.allow[x] = d.allow[x]
<1> DEFINE m == RunMsg(x)
           p == Arb_ProcessMessage(d, m)
           e == Arb_Decision(p)
           d1 == Arb_RemoveOppositePowerAllow(d, m)
           o == Opposite(x)
<1>0. m \in Msg /\ m.verb = "RUN" /\ m.dir = x /\ m.device = PowerOf(x) /\ m.axis = MainAxis
  BY MsgOK DEF RunMsg, Cmd, PowerOf
<1>1. d \in ArbData /\ DataInv(d) /\ o \in Dir /\ x # o /\ \A y \in Dir : y = x \/ y = o
  BY Directions DEF RodData, DataInv
<1>2. PowerPos # PowerNeg /\ PowerOf(x) \in Device /\ PowerOf(o) \in Device
  BY ArbConstants DEF PowerOf
<1> HIDE DEF m
<1>3. d1 = [d EXCEPT !.allow[o] = Arb_CmdListRemove(@, PowerOf(o))]
  BY <1>0, <1>1, <1>2 DEF Arb_RemoveOppositePowerAllow, PowerOf, Opposite, Dir
<1>4. DataInv(d1)
  BY <1>0, <1>1, RemoveOppositeOK
<1>5. d1.block = d.block /\ d1.allow[x] = d.allow[x] /\ d1.allow[o] = Arb_CmdListRemove(d.allow[o], PowerOf(o))
  BY <1>1, <1>3 DEF ArbData
<1>6. d1.allow[o] = <<>>
  <2>1. QueueOK(d.allow[o]) /\ d1.allow[o] \in Seq(Record)
    BY <1>1, <1>4 DEF DataInv, AllowOK, QueueOK
  <2>2. \A y \in Device : ~ Holds(d1.allow[o], y)
    BY <1>1, <1>5, <2>1, RemoveOK DEF RodData
  <2> QED BY <2>1, <2>2, HoldsNobody
<1>7. p = RunCommand(d1, m)
  BY <1>0 DEF Arb_ProcessMessage
<1>8. Arb_CmdListRemove(d1.block[x], m.device) = d.block[x]
  <2>1. m.device # LimitDevice(x)
    BY <1>0, Directions
  <2>2. CASE d.block[x] = <<>>
    <3>1. <<>> \in Seq(Record) /\ ~ Holds(<<>>, m.device)
      BY EmptyQueueOK DEF QueueOK
    <3>2. Arb_CmdListRemove(<<>>, m.device) = <<>>
      BY <3>1, RemoveKeeps
    <3> QED BY <1>5, <2>2, <3>2
  <2>3. CASE d.block[x] = <<BlockRecord(x)>>
    BY <1>5, <2>1, <2>3, BlockQueue
  <2> QED BY <2>2, <2>3 DEF RodData
<1> DEFINE r == RecordOf(m)
           s == Arb_CmdListSetAllow(d1.allow[x], d.block[x], r)
<1>9. r \in Record /\ r.device = PowerOf(x) /\ r.dir = x
  BY <1>0, RecordOfMsg
<1> HIDE DEF r
<1>10. p = [d1 EXCEPT !.block[x] = d.block[x], !.allow[x] = s]
  BY <1>0, <1>7, <1>8 DEF RunCommand, r
<1>11. \A y \in Device : Holds(s, y) => y = PowerOf(x)
  <2>1. AllowOK(d1.allow[x], r.dir)
    BY <1>4, <1>9 DEF DataInv
  <2>2. \A y : Holds(s, y) => Holds(d1.allow[x], y) \/ y = r.device
    BY <1>9, <2>1, SetAllowOK
  <2> QED BY <1>5, <1>9, <2>2 DEF RodData
<1>12. d.block[x] # <<>> => s = d.allow[x]
  BY <1>5 DEF Arb_CmdListSetAllow
<1> HIDE DEF s, d1
<1>13. d1 \in ArbData
  BY <1>4 DEF DataInv
<1>14. p.block[x] = d.block[x] /\ p.block[o] = d.block[o] /\ p.allow[x] = s /\ p.allow[o] = <<>>
  BY <1>1, <1>5, <1>6, <1>10, <1>13 DEF ArbData
<1>15. DataInv(e) /\ e.block = p.block /\ e.allow = p.allow /\ p \in ArbData
  BY <1>0, DecisionQueues
<1> HIDE DEF e, p, o
<1>16. e.block = d.block
  <2>1. e.block \in [Dir -> Seq(Record)] /\ d.block \in [Dir -> Seq(Record)]
    BY <1>1, <1>15 DEF ArbData
  <2>2. \A y \in Dir : e.block[y] = d.block[y]
    BY <1>1, <1>14, <1>15
  <2>3. ASSUME NEW f \in [Dir -> Seq(Record)], NEW g \in [Dir -> Seq(Record)], \A y \in Dir : f[y] = g[y]
        PROVE  f = g
    BY <2>3
  <2> QED BY <2>1, <2>2, <2>3
<1>17. RodData(e)
  BY <1>1, <1>11, <1>14, <1>15, <1>16, EmptyQueueOK DEF RodData
<1> QED BY <1>12, <1>14, <1>15, <1>16, <1>17 DEF e, p, o, m

\* The rod task blocks a direction.
LEMMA RodBlockTurn ==
  ASSUME NEW d, RodData(d), NEW x \in Dir
  PROVE  LET e == Arb_Decision(Arb_ProcessMessage(d, LimitMsg("BLOCK", x)))
         IN /\ RodData(e) /\ e.allow = d.allow
            /\ e.block[x] = <<BlockRecord(x)>> /\ e.block[Opposite(x)] = d.block[Opposite(x)]
<1> DEFINE m == LimitMsg("BLOCK", x)
           p == Arb_ProcessMessage(d, m)
           e == Arb_Decision(p)
           q == Arb_CmdListSetBlock(d.block[x], RecordOf(m))
<1>1. /\ m \in Msg /\ m.verb = "BLOCK" /\ m.dir = x /\ m.device = LimitDevice(x)
      /\ RecordOf(m).device = LimitDevice(x)
  <2>1. "BLOCK" \in Verb
    BY DEF Verb
  <2> QED BY <2>1, LimitMsgs, RecordOfMsg
<1>2. [RecordOf(m) EXCEPT !.duty = 0] = BlockRecord(x)
  BY DEF RecordOf, LimitMsg, Cmd, BlockRecord, LimitDevice
<1>3. q = <<BlockRecord(x)>>
  <2>1. CASE d.block[x] = <<>>
    <3>1. ~ Holds(<<>>, LimitDevice(x)) /\ ~ (Len(<<>>) >= MaxQueue)
      BY ArbConstants, EmptyQueueOK
    <3>2. q = Append(<<>>, BlockRecord(x))
      BY <1>1, <1>2, <2>1, <3>1 DEF Arb_CmdListSetBlock
    <3> QED BY <3>2
  <2>2. CASE d.block[x] = <<BlockRecord(x)>>
    BY <1>1, <2>2, BlockQueue DEF Arb_CmdListSetBlock
  <2> QED BY <2>1, <2>2 DEF RodData
<1>4. DataInv(e) /\ e.block = p.block /\ e.allow = p.allow /\ d \in ArbData
  BY <1>1, DecisionQueues
<1>5. p = [d EXCEPT !.block[x] = q]
  BY <1>1 DEF Arb_ProcessMessage, Arb_RemoveOppositePowerAllow
<1> HIDE DEF e, p, q, m
<1>6. p.allow = d.allow /\ p.block[x] = q /\ \A y \in Dir : y # x => p.block[y] = d.block[y]
  BY <1>4, <1>5 DEF ArbData
<1>7. RodData(e)
  BY <1>3, <1>4, <1>6 DEF RodData
<1> QED BY <1>3, <1>4, <1>6, <1>7, Directions DEF e, p, m

\* ... and lifts its block.
LEMMA RodUnblockTurn ==
  ASSUME NEW d, RodData(d), NEW x \in Dir
  PROVE  LET e == Arb_Decision(Arb_ProcessMessage(d, LimitMsg("UNBLOCK", x)))
         IN /\ RodData(e) /\ e.allow = d.allow
            /\ e.block[x] = <<>> /\ e.block[Opposite(x)] = d.block[Opposite(x)]
<1> DEFINE m == LimitMsg("UNBLOCK", x)
           p == Arb_ProcessMessage(d, m)
           e == Arb_Decision(p)
           q == Arb_CmdListRemove(d.block[x], LimitDevice(x))
<1>1. m \in Msg /\ m.verb = "UNBLOCK" /\ m.dir = x /\ m.device = LimitDevice(x)
  <2>1. "UNBLOCK" \in Verb
    BY DEF Verb
  <2> QED BY <2>1, LimitMsgs
<1>3. q = <<>>
  <2>1. CASE d.block[x] = <<>>
    <3>1. <<>> \in Seq(Record) /\ ~ Holds(<<>>, LimitDevice(x))
      BY EmptyQueueOK DEF QueueOK
    <3>2. Arb_CmdListRemove(<<>>, LimitDevice(x)) = <<>>
      BY <3>1, RemoveKeeps
    <3> QED BY <2>1, <3>2
  <2>2. CASE d.block[x] = <<BlockRecord(x)>>
    BY <2>2, BlockQueue
  <2> QED BY <2>1, <2>2 DEF RodData
<1>4. DataInv(e) /\ e.block = p.block /\ e.allow = p.allow /\ d \in ArbData
  BY <1>1, DecisionQueues
<1>5. p = [d EXCEPT !.block[x] = q]
  BY <1>1 DEF Arb_ProcessMessage, Arb_RemoveOppositePowerAllow
<1> HIDE DEF e, p, q, m
<1>6. p.allow = d.allow /\ p.block[x] = q /\ \A y \in Dir : y # x => p.block[y] = d.block[y]
  BY <1>4, <1>5 DEF ArbData
<1>7. RodData(e)
  BY <1>3, <1>4, <1>6 DEF RodData
<1> QED BY <1>3, <1>4, <1>6, <1>7, Directions DEF e, p, m

-----------------------------------------------------------------------------
(* The rod state machine *)

\* A limit state is left only the other way, by the command to go there.
LEMMA RodJump ==
  ASSUME NEW s \in RodState, NEW e
  PROVE  LET t == NextRodState(s, e)
         IN /\ t \in RodState
            /\ s = "EXT_LIMIT" => t = s \/ (t = "RETRACTING" /\ e = "CMD_RETRACT")
            /\ s = "RET_LIMIT" => t = s \/ (t = "EXTENDING" /\ e = "CMD_EXTEND")
            /\ t = "EXT_LIMIT" /\ s # t => e = "AT_MAX"
            /\ t = "RET_LIMIT" /\ s # t => e = "AT_MIN"
<1> DEFINE row == {r \in rod_jump : r[1] = s /\ r[2] = e}
           t == NextRodState(s, e)
<1>1. CASE row = {}
  BY <1>1 DEF NextRodState
<1>2. CASE row # {}
  <2>1. PICK r \in row : t = r[3]
    BY <1>2 DEF NextRodState
  <2>2. r \in rod_jump /\ r[1] = s /\ r[2] = e
    BY <2>1
  <2> QED BY <2>1, <2>2 DEF rod_jump, RodState
<1> QED BY <1>1, <1>2

\* A command is what the arbiter drives.
LEMMA EventOfDrive ==
  ASSUME NEW c, NEW s, NEW dir, NEW e \in RodState_SynthesizeEvent(c, s, dir)
  PROVE  /\ e = "CMD_RETRACT" => dir = "rev"
         /\ e = "CMD_EXTEND" => dir = "fwd"
<1>1. e \in {"AT_MAX", "AT_MIN", "TIMEOUT", CmdEvent(dir)}
  BY DEF RodState_SynthesizeEvent
<1> QED BY <1>1 DEF CmdEvent

\* What the arbiter drives it is asked for, and nobody asks for the contrary.
LEMMA OneWay ==
  ASSUME NEW d, RodData(d), NEW x \in Dir, d.allow[x] # <<>>
  PROVE  d.allow[Opposite(x)] = <<>>
<1> DEFINE o == Opposite(x)
<1>1. o \in Dir /\ x # o /\ d.allow[x] \in Seq(Record) /\ d.allow[o] \in Seq(Record)
  BY Directions DEF RodData, DataInv, AllowOK, QueueOK
<1>2. PICK e \in Device : Holds(d.allow[x], e)
  BY <1>1, HoldsNobody
<1>3. Holds(d.allow[x], PowerOf(x))
  BY <1>2 DEF RodData
<1>4. ~ Holds(d.allow[o], PowerOf(o))
  <2>1. ~ (Holds(d.allow["fwd"], PowerPos) /\ Holds(d.allow["rev"], PowerNeg))
    BY DEF RodData, DataInv, NoPowerConflict
  <2> QED BY <1>3, <2>1 DEF PowerOf, Opposite, Dir
<1>5. \A y \in Device : ~ Holds(d.allow[o], y)
  BY <1>1, <1>4 DEF RodData
<1> QED BY <1>1, <1>5, HoldsNobody

\* The main axis is as the rod and the polarity leave it.
LEMMA MainData ==
  ASSUME ArbInv
  PROVE  /\ (BlockQueues /\ PowerAllows) <=> RodData(arb[MainAxis])
         /\ MainAxis \in Axis /\ arb[MainAxis] \in ArbData
<1>1. MainAxis \in Axis
  BY SysConstants
<1>2. DataInv(arb[MainAxis])
  BY <1>1, ArbInvByAxis DEF ByAxis
<1> QED BY <1>1, <1>2 DEF RodData, DataInv, BlockQueues, PowerAllows, Blocks, Allows

\* Two sequences of one element make one of two.
LEMMA PairOf ==
  ASSUME NEW u, NEW v
  PROVE  <<u>> \o <<v>> = <<u, v>> /\ <<>> \o <<v>> = <<v>>
<1> DEFINE S == {u, v}
           a == <<u>>
           b == <<v>>
           c == <<u, v>>
<1>1. a \in Seq(S) /\ b \in Seq(S) /\ c \in Seq(S)
  OBVIOUS
<1>2. Len(a) = 1 /\ Len(b) = 1 /\ Len(c) = 2 /\ a[1] = u /\ b[1] = v /\ c[1] = u /\ c[2] = v
  OBVIOUS
<1> HIDE DEF a, b, c, S
<1>3. /\ a \o b \in Seq(S) /\ Len(a \o b) = Len(a) + Len(b)
      /\ \A i \in 1 .. Len(a) + Len(b) : (a \o b)[i] = IF i <= Len(a) THEN a[i] ELSE b[i - Len(a)]
  BY <1>1, ConcatProperties
<1>4. Len(a \o b) = 2 /\ (a \o b)[1] = u /\ (a \o b)[2] = v
  BY <1>2, <1>3
<1>5. a \o b = c
  <2>1. \A i \in 1 .. Len(a \o b) : (a \o b)[i] = c[i]
    BY <1>2, <1>4
  <2> QED BY <1>1, <1>2, <1>3, <1>4, <2>1, SeqEqual
<1> QED BY <1>1, <1>5, ConcatEmptySeq DEF a, b, c

\* What one turn of the rod task leaves to post.
LEMMA SideEffectsOf ==
  ASSUME NEW s \in RodState, NEW t \in RodState
  PROVE  /\ t = "EXT_LIMIT" => SideEffects(s, t) \in
              {<<LimitMsg("CLEAR_ALLOW", "fwd"), LimitMsg("BLOCK", "fwd")>>, <<LimitMsg("BLOCK", "fwd")>>}
         /\ t = "RET_LIMIT" => SideEffects(s, t) \in
              {<<LimitMsg("CLEAR_ALLOW", "rev"), LimitMsg("BLOCK", "rev")>>, <<LimitMsg("BLOCK", "rev")>>}
         /\ s = "EXT_LIMIT" /\ t = "RETRACTING" => SideEffects(s, t) = <<LimitMsg("UNBLOCK", "fwd")>>
         /\ s = "RET_LIMIT" /\ t = "EXTENDING" => SideEffects(s, t) = <<LimitMsg("UNBLOCK", "rev")>>
         /\ s \notin {"EXT_LIMIT", "RET_LIMIT"} /\ t \notin {"EXT_LIMIT", "RET_LIMIT"} =>
              SideEffects(s, t) = <<>>
<1>1. ASSUME NEW x PROVE AtLimit(s, t, x) \in
              {<<LimitMsg("CLEAR_ALLOW", x), LimitMsg("BLOCK", x)>>, <<LimitMsg("BLOCK", x)>>}
  <2> DEFINE u == LimitMsg("CLEAR_ALLOW", x)
             v == LimitMsg("BLOCK", x)
  <2> HIDE DEF u, v
  <2>1. <<u>> \o <<v>> = <<u, v>> /\ <<>> \o <<v>> = <<v>>
    BY PairOf
  <2> QED BY <2>1 DEF AtLimit, u, v
<1>2. CASE t = "EXT_LIMIT"
  BY <1>1, <1>2 DEF SideEffects
<1>3. CASE t = "RET_LIMIT"
  BY <1>1, <1>3 DEF SideEffects
<1>4. CASE s = "EXT_LIMIT" /\ t = "RETRACTING"
  BY <1>4 DEF SideEffects
<1>5. CASE s = "RET_LIMIT" /\ t = "EXTENDING"
  BY <1>5 DEF SideEffects
<1>6. CASE s \notin {"EXT_LIMIT", "RET_LIMIT"} /\ t \notin {"EXT_LIMIT", "RET_LIMIT"}
  BY <1>6 DEF SideEffects
<1> QED BY <1>2, <1>3, <1>4, <1>5, <1>6

\* With nothing queued and nothing left to post, everything is posted.
LEMMA NothingToPost == AtLimits /\ mq = <<>> /\ cmds = <<>> => Posted
<1>1. ASSUME NEW x, <<x>> = <<>> PROVE FALSE
  BY <1>1
<1>2. ASSUME NEW x, NEW y, <<x, y>> = <<>> PROVE FALSE
  BY <1>2
<1> QED BY <1>1, <1>2 DEF AtLimits, Arriving, Leaving

\* A turn of the rod task.
LEMMA TickStep ==
  ASSUME RodInv, Actuator_Tick
  PROVE  rod' \in RodState /\ AtLimits'
<1>1. /\ mq = <<>> /\ cmds = <<>> /\ ~ reset' /\ UNCHANGED <<mq, arb, out>>
      /\ rod \in RodState /\ ArbInv /\ RodData(arb[MainAxis])
  BY MainData DEF Actuator_Tick, RodInv, RodTypes, SysInv, sysVars
<1>2. Posted
  BY <1>1, NothingToPost DEF RodInv
<1> DEFINE dir == IF arb[MainAxis].enable THEN arb[MainAxis].active_dir ELSE "none"
<1> DEFINE c == RodPosition_OnLimit(RodPosition_Update(calib, delta), req)
<1>3. PICK e \in RodState_SynthesizeEvent(c, rod, dir) :
             rod' = NextRodState(rod, e) /\ cmds' = SideEffects(rod, rod')
  BY DEF Actuator_Tick
<1>4. /\ e = "CMD_RETRACT" => dir = "rev"
      /\ e = "CMD_EXTEND" => dir = "fwd"
  BY <1>3, EventOfDrive
<1> HIDE DEF dir, c
<1>5. /\ rod' \in RodState
      /\ rod = "EXT_LIMIT" => rod' = rod \/ (rod' = "RETRACTING" /\ e = "CMD_RETRACT")
      /\ rod = "RET_LIMIT" => rod' = rod \/ (rod' = "EXTENDING" /\ e = "CMD_EXTEND")
  BY <1>1, <1>3, RodJump
<1>6. ASSUME NEW x \in Dir, dir = x PROVE Allows(Opposite(x)) = <<>>
  <2>1. arb[MainAxis].active_dir = x
    BY <1>6, Directions DEF dir
  <2>2. Holds(Allows(x), arb[MainAxis].active_device)
    BY <1>1, <2>1, MainData DEF ArbInv, ActiveIsJustified, Allows
  <2>3. arb[MainAxis].allow[x] # <<>>
    BY <2>2, EmptyQueueOK DEF Allows
  <2> QED BY <1>1, <2>3, OneWay DEF Allows
<1>7. \A x \in Dir : Blocks(x)' = Blocks(x) /\ Allows(x)' = Allows(x)
  BY <1>1 DEF Blocks, Allows
<1>8. Plain'
  BY <1>1 DEF Plain
<1>9. \A x \in Dir : Blocks(x) # <<>> => rod = LimitOf(x)
  BY <1>2 DEF Posted
<1>10. "fwd" \in Dir /\ "rev" \in Dir /\ Opposite("fwd") = "rev" /\ Opposite("rev") = "fwd"
       /\ LimitOf("fwd") = "EXT_LIMIT" /\ LimitOf("rev") = "RET_LIMIT"
       /\ \A x \in Dir : x = "fwd" \/ x = "rev"
  BY DEF Dir, Opposite, LimitOf
<1>11. CASE rod' = "EXT_LIMIT"
  <2>1. Blocks("rev")' = <<>>
    BY <1>5, <1>7, <1>9, <1>10, <1>11
  <2>2. cmds' \in {<<LimitMsg("CLEAR_ALLOW", "fwd"), LimitMsg("BLOCK", "fwd")>>, <<LimitMsg("BLOCK", "fwd")>>}
    BY <1>1, <1>3, <1>5, <1>11, SideEffectsOf
  <2>3. Arriving("fwd")'
    BY <1>1, <1>8, <1>10, <1>11, <2>1, <2>2 DEF Arriving
  <2> QED BY <1>5, <1>10, <2>3 DEF AtLimits
<1>12. CASE rod' = "RET_LIMIT"
  <2>1. Blocks("fwd")' = <<>>
    BY <1>5, <1>7, <1>9, <1>10, <1>12
  <2>2. cmds' \in {<<LimitMsg("CLEAR_ALLOW", "rev"), LimitMsg("BLOCK", "rev")>>, <<LimitMsg("BLOCK", "rev")>>}
    BY <1>1, <1>3, <1>5, <1>12, SideEffectsOf
  <2>3. Arriving("rev")'
    BY <1>1, <1>8, <1>10, <1>12, <2>1, <2>2 DEF Arriving
  <2> QED BY <1>5, <1>10, <2>3 DEF AtLimits
<1>13. CASE rod = "EXT_LIMIT" /\ rod' = "RETRACTING" /\ e = "CMD_RETRACT"
  <2>1. Blocks("rev")' = <<>> /\ Allows("fwd")' = <<>>
    BY <1>4, <1>6, <1>7, <1>9, <1>10, <1>13
  <2>2. cmds' = <<LimitMsg("UNBLOCK", "fwd")>>
    BY <1>1, <1>3, <1>5, <1>13, SideEffectsOf
  <2>3. Leaving("fwd")'
    BY <1>1, <1>8, <1>10, <1>13, <2>1, <2>2 DEF Leaving
  <2> QED BY <1>5, <1>10, <2>3 DEF AtLimits
<1>14. CASE rod = "RET_LIMIT" /\ rod' = "EXTENDING" /\ e = "CMD_EXTEND"
  <2>1. Blocks("fwd")' = <<>> /\ Allows("rev")' = <<>>
    BY <1>4, <1>6, <1>7, <1>9, <1>10, <1>14
  <2>2. cmds' = <<LimitMsg("UNBLOCK", "rev")>>
    BY <1>1, <1>3, <1>5, <1>14, SideEffectsOf
  <2>3. Leaving("rev")'
    BY <1>1, <1>8, <1>10, <1>14, <2>1, <2>2 DEF Leaving
  <2> QED BY <1>5, <1>10, <2>3 DEF AtLimits
<1>15. CASE rod \notin {"EXT_LIMIT", "RET_LIMIT"} /\ rod' \notin {"EXT_LIMIT", "RET_LIMIT"}
  <2>1. cmds' = <<>>
    BY <1>1, <1>3, <1>5, <1>15, SideEffectsOf
  <2>2. \A x \in Dir : Blocks(x)' = <<>>
    BY <1>7, <1>9, <1>10, <1>15
  <2>3. Posted'
    BY <1>8, <1>10, <1>15, <2>1, <2>2 DEF Posted
  <2> QED BY <1>5, <2>3 DEF AtLimits
<1> QED BY <1>5, <1>11, <1>12, <1>13, <1>14, <1>15

-----------------------------------------------------------------------------
(* sys_sm *)

\* Whatever sys_sm puts before the rest of what it has to do, it posts nothing
\* but stops.
LEMMA ThenPosts ==
  ASSUME TodoOK, todo # <<>>, NEW ops \in Seq(Element), Then(ops), PostsStop,
         StopOps(ops) \/ \A i \in DOMAIN ops : ops[i].do \in {"init", "start"}
  PROVE  PostsStop'
<1>1. todo \in Seq(Element)
  BY DEF TodoOK
<1>2. \A i \in DOMAIN ops : ops[i].do = "post" => ops[i].msg.verb \in {"CLEAR_ALLOW", "EMERGENCY_STOP"}
  BY DEF StopOps
<1>3. \A i \in DOMAIN todo' :
        \/ i \in DOMAIN ops /\ todo'[i] = ops[i]
        \/ i - Len(ops) + 1 \in DOMAIN todo /\ todo'[i] = todo[i - Len(ops) + 1]
  BY <1>1, ThenMoves
<1> QED BY <1>2, <1>3 DEF PostsStop

\* What sys_sm does to the main axis: it queues a stop, or disables it, or
\* initialises it.
LEMMA SmMain ==
  ASSUME SysInv, PostsStop, SysSm
  PROVE  /\ mq = <<>> /\ PostsStop' /\ Plain'
         /\ InitActAndHall => arb'[MainAxis] = EmptyData
         /\ ~ InitActAndHall => \A x \in Dir : Blocks(x)' = Blocks(x) /\ Allows(x)' = Allows(x)
<1>1. ArbInv /\ SysTypeOK /\ TodoOK /\ Obeyed /\ sm \in State /\ sys_evt \subseteq EventBit
  BY DEF SysInv, SysTypeOK
<1>2. MainAxis \in Axis /\ arb \in [Axis -> ArbData]
  BY <1>1, SysConstants DEF ArbInv, ArbTypeOK
<1>3. ASSUME UNCHANGED <<arb, mq>>, mq = <<>>
      PROVE  Plain' /\ \A x \in Dir : Blocks(x)' = Blocks(x) /\ Allows(x)' = Allows(x)
  BY <1>3 DEF Plain, Blocks, Allows
<1>4. ASSUME todo # <<>>, Head(todo).do # "init" PROVE ~ InitActAndHall
  BY <1>4, KindsOfElements DEF InitActAndHall
<1>5. ASSUME todo # <<>>, Then(<<>>) PROVE PostsStop'
  BY <1>1, <1>5, ShortOps, ThenPosts DEF StopOps
<1>6. CASE sys_sm_thread_entry
  <2>1. \A i \in DOMAIN todo' : todo'[i].do = "bit"
    BY <1>1, <1>6, TakeStep
  <2>2. UNCHANGED <<mq, arb>> /\ todo = <<>> /\ mq = <<>>
    BY <1>6 DEF sys_sm_thread_entry, arbVars
  <2>3. PostsStop'
    BY <2>1 DEF PostsStop
  <2> QED BY <1>3, <2>2, <2>3 DEF InitActAndHall
<1>7. CASE StateMachine_SendEvent
  <2>1. todo # <<>> /\ mq = <<>> /\ Head(todo).do = "event" /\ UNCHANGED <<mq, arb>>
    BY <1>7 DEF StateMachine_SendEvent, Do, arbVars
  <2>2. PostsStop'
    <3>1. CASE Then(sys_enter_idle)
      BY <1>1, <2>1, <3>1, IdleOpsOK, ThenPosts
    <3>2. CASE \E ops \in Seq(Element) : Then(ops) /\ StopOps(ops)
      BY <1>1, <2>1, <3>2, ThenPosts
    <3> QED BY <1>1, <1>7, <3>1, <3>2, EventOps
  <2> QED BY <1>3, <1>4, <2>1, <2>2
<1>8. CASE Sys_State_Dispatch
  <2>1. PICK ops \in Seq(Element) : BitOps(ops)
    BY <1>1, <1>8, BitLeaves
  <2>2. todo # <<>> /\ mq = <<>> /\ Head(todo).do = "bit" /\ UNCHANGED <<arb, mq>>
    BY <1>1, <1>8, BitLeaves
  <2>3. Then(ops) /\ StopOps(ops)
    BY <2>1 DEF BitOps, StopOps
  <2>4. PostsStop'
    BY <1>1, <2>2, <2>3, ThenPosts
  <2> QED BY <1>3, <1>4, <2>2, <2>4
<1>9. CASE Sys_State_ArbSendCommand
  <2>1. todo # <<>> /\ mq = <<>> /\ Head(todo).do = "post" /\ UNCHANGED arb /\ Then(<<>>)
    BY <1>9 DEF Sys_State_ArbSendCommand, Do, Arb_SendCommand
  <2>2. mq' = <<Head(todo).msg>>
    BY <1>1, <1>9, PostStep
  <2>3. Head(todo).msg.verb \in Stops
    BY <1>1, <2>1, FirstIsHead DEF PostsStop, Stops
  <2>4. Plain'
    <3> DEFINE m == Head(todo).msg
    <3> HIDE DEF m
    <3>1. mq' = <<m>> /\ m.verb \in Stops
      BY <2>2, <2>3 DEF m
    <3>2. Head(mq') = m
      BY <3>1
    <3> QED BY <3>1, <3>2 DEF Plain
  <2> QED BY <1>4, <1>5, <2>1, <2>4 DEF Blocks, Allows
<1>10. CASE Sys_State_SetArbEnable
  <2>1. todo # <<>> /\ mq = <<>> /\ Head(todo).do = "enable" /\ Then(<<>>)
    BY <1>10 DEF Sys_State_SetArbEnable, Do
  <2>2. PICK a \in Axis : Arb_SetEnable(a, FALSE)
    BY <1>1, <1>10, DisableStep
  <2>3. UNCHANGED mq /\ arb' = [arb EXCEPT ![a].enable = FALSE]
    BY <2>2 DEF Arb_SetEnable
  <2>4. arb'[MainAxis].block = arb[MainAxis].block /\ arb'[MainAxis].allow = arb[MainAxis].allow
    BY <1>2, <2>3 DEF ArbData
  <2>5. Plain'
    BY <2>1, <2>3 DEF Plain
  <2> QED BY <1>4, <1>5, <2>1, <2>4, <2>5 DEF Blocks, Allows
<1>11. CASE Dev_Registry_InitAll
  <2>1. todo # <<>> /\ mq = <<>> /\ Head(todo).do = "init" /\ Then(<<>>) /\ UNCHANGED mq
    BY <1>11 DEF Dev_Registry_InitAll, Do, Arb_Module_Init, arbVars
  <2>2. Head(todo) = Init(Head(todo).module)
    BY <1>1, <2>1, FirstIsHead, ElementKinds
  <2>3. Plain'
    BY <2>1 DEF Plain
  <2>4. CASE InitActAndHall
    <3>1. Head(todo).module = "act"
      BY <2>4, KindsOfElements DEF InitActAndHall
    <3>2. arb' = [a \in Axis |-> EmptyData]
      BY <1>11, <3>1 DEF Dev_Registry_InitAll, Arb_Module_Init
    <3> QED BY <1>2, <1>5, <2>1, <2>3, <2>4, <3>2
  <2>5. CASE ~ InitActAndHall
    <3>1. Head(todo).module # "act"
      BY <2>1, <2>2, <2>5 DEF InitActAndHall
    <3>2. UNCHANGED arb
      BY <1>11, <3>1 DEF Dev_Registry_InitAll, arbVars
    <3> QED BY <1>3, <1>5, <2>1, <2>3, <2>5, <3>2
  <2> QED BY <2>4, <2>5
<1>12. CASE StartHardware
  <2>1. todo # <<>> /\ mq = <<>> /\ Head(todo).do = "start" /\ Then(<<>>) /\ UNCHANGED <<mq, arb>>
    BY <1>12 DEF StartHardware, Do, arbVars
  <2> QED BY <1>3, <1>4, <1>5, <2>1
<1> QED BY <1>6, <1>7, <1>8, <1>9, <1>10, <1>11, <1>12 DEF SysSm

\* sys_sm leaves the blocks alone, but for the initialisation of the arbiter.
LEMMA RodSmStep ==
  ASSUME RodInv, RodSysSm
  PROVE  PostsStop' /\ BlockQueues' /\ PowerAllows' /\ AtLimits'
<1>1. /\ cmds = <<>> /\ UNCHANGED <<rod, cmds>> /\ SysInv /\ PostsStop /\ SysSm
      /\ reset' = (reset \/ InitActAndHall) /\ reset \in BOOLEAN
  BY DEF RodSysSm, RodInv, RodTypes
<1>2. /\ mq = <<>> /\ PostsStop' /\ Plain'
      /\ InitActAndHall => arb'[MainAxis] = EmptyData
      /\ ~ InitActAndHall => \A x \in Dir : Blocks(x)' = Blocks(x) /\ Allows(x)' = Allows(x)
  BY <1>1, SmMain
<1>3. Posted
  BY <1>1, <1>2, NothingToPost DEF RodInv
<1>4. CASE InitActAndHall
  <2>1. \A x \in Dir : Blocks(x)' = <<>> /\ Allows(x)' = <<>>
    BY <1>2, <1>4 DEF Blocks, Allows, EmptyData
  <2>2. BlockQueues' /\ PowerAllows'
    BY <2>1, EmptyQueueOK DEF BlockQueues, PowerAllows
  <2>3. Posted'
    BY <1>1, <1>2, <1>4, <2>1 DEF Posted
  <2> QED BY <1>2, <2>2, <2>3 DEF AtLimits
<1>5. CASE ~ InitActAndHall
  <2>1. BlockQueues' /\ PowerAllows'
    BY <1>2, <1>5 DEF RodInv, BlockQueues, PowerAllows
  <2>2. Posted'
    BY <1>1, <1>2, <1>3, <1>5 DEF Posted
  <2> QED BY <1>2, <2>1, <2>2 DEF AtLimits
<1> QED BY <1>4, <1>5

-----------------------------------------------------------------------------
(* The rod task posts, the arbiter takes *)

\* A command of the rod task turns no motor.
RodsOwn(m) == m.axis = MainAxis /\ m.verb # "RUN"

\* The commands the rod task has still to post.
LEMMA CommandsLeft ==
  ASSUME NEW x \in Dir
  PROVE  LET c == LimitMsg("CLEAR_ALLOW", x)
             b == LimitMsg("BLOCK", x)
             u == LimitMsg("UNBLOCK", x)
         IN /\ c \in Msg /\ b \in Msg /\ u \in Msg /\ c.verb \in Stops
            /\ RodsOwn(c) /\ RodsOwn(b) /\ RodsOwn(u)
            /\ Head(<<c, b>>) = c /\ Tail(<<c, b>>) = <<b>>
            /\ Head(<<b>>) = b /\ Tail(<<b>>) = <<>>
            /\ Head(<<u>>) = u /\ Tail(<<u>>) = <<>>
<1> DEFINE c == LimitMsg("CLEAR_ALLOW", x)
           b == LimitMsg("BLOCK", x)
           u == LimitMsg("UNBLOCK", x)
<1>1. /\ c \in Msg /\ b \in Msg /\ u \in Msg /\ c.verb \in Stops
      /\ RodsOwn(c) /\ RodsOwn(b) /\ RodsOwn(u)
  <2>1. {"CLEAR_ALLOW", "BLOCK", "UNBLOCK"} \subseteq Verb
    BY DEF Verb
  <2> QED BY <2>1, LimitMsgs DEF Stops, RodsOwn
<1> HIDE DEF c, b, u
<1>2. /\ Head(<<c, b>>) = c /\ Tail(<<c, b>>) = <<b>>
      /\ Head(<<b>>) = b /\ Tail(<<b>>) = <<>>
      /\ Head(<<u>>) = u /\ Tail(<<u>>) = <<>>
  OBVIOUS
<1> QED BY <1>1, <1>2 DEF c, b, u

\* Posting a command leaves everything else alone.
LEMMA RodPostStep ==
  ASSUME RodInv, RodPost
  PROVE  /\ SysInv' /\ PostsStop' /\ BlockQueues' /\ PowerAllows' /\ AtLimits'
         /\ \E m \in Msg : RodsOwn(m) /\ mq' = <<m>>
<1>1. /\ mq = <<>> /\ cmds # <<>> /\ cmds' = Tail(cmds) /\ Arb_SendCommand(Head(cmds), TRUE)
      /\ UNCHANGED <<arb, out, vm, cur, pins, sys_evt, sm, previous_state, fault_bits, prev_state,
                     overcur_dir, pol, todo, hw_started, volt, pin, hand, rod, reset>>
  BY DEF RodPost, Arb_SendCommand, powerVars, smVars, faultVars, envVars
<1>2. \A x \in Dir : Blocks(x)' = Blocks(x) /\ Allows(x)' = Allows(x)
  BY <1>1 DEF Blocks, Allows
<1> DEFINE m == Head(cmds)
<1>3. ASSUME m \in Msg PROVE mq' = <<m>>
  <2> HIDE DEF m
  <2>1. ~ (Len(<<>>) >= MqDepth)
    BY ArbConstants
  <2>2. <<m>> \in Seq(Msg)
    BY <1>3
  <2>3. mq' = <<m>> \o <<>>
    BY <1>1, <2>1 DEF Arb_SendCommand, m
  <2> QED BY <2>2, <2>3, ConcatEmptySeq
<1>4. m \in Msg /\ RodsOwn(m) /\ AtLimits'
  <2>1. PICK x \in Dir : Arriving(x) \/ Leaving(x)
    BY <1>1 DEF RodInv, AtLimits, Posted
  <2> DEFINE c == LimitMsg("CLEAR_ALLOW", x)
             b == LimitMsg("BLOCK", x)
             u == LimitMsg("UNBLOCK", x)
  <2>2. /\ c \in Msg /\ b \in Msg /\ u \in Msg /\ c.verb \in Stops
        /\ RodsOwn(c) /\ RodsOwn(b) /\ RodsOwn(u)
        /\ Head(<<c, b>>) = c /\ Tail(<<c, b>>) = <<b>>
        /\ Head(<<b>>) = b /\ Tail(<<b>>) = <<>>
        /\ Head(<<u>>) = u /\ Tail(<<u>>) = <<>>
    BY CommandsLeft
  <2>3. \/ Arriving(x) /\ cmds \in {<<c, b>>, <<b>>}
        \/ Leaving(x) /\ cmds = <<u>>
    BY <1>1, <2>1 DEF Arriving, Leaving
  <2>4. Opposite(x) \in Dir
    BY Directions
  <2> HIDE DEF c, b, u
  <2>5. CASE Arriving(x) /\ cmds = <<c, b>>
    <3>1. m = c /\ mq' = <<c>> /\ cmds' = <<b>>
      BY <1>1, <1>3, <2>2, <2>5
    <3>2. Plain'
      <4>1. Head(mq') = c
        BY <3>1
      <4> QED BY <2>2, <4>1 DEF Plain
    <3>3. Arriving(x)'
      BY <1>1, <1>2, <2>4, <2>5, <3>1, <3>2 DEF Arriving, b
    <3> QED BY <2>2, <3>1, <3>3 DEF AtLimits
  <2>6. CASE Arriving(x) /\ cmds = <<b>>
    <3>1. m = b /\ mq' = <<b>> /\ cmds' = <<>>
      BY <1>1, <1>3, <2>2, <2>6
    <3>2. Arriving(x)'
      BY <1>1, <1>2, <2>4, <2>6, <3>1 DEF Arriving, b
    <3> QED BY <2>2, <3>1, <3>2 DEF AtLimits
  <2>7. CASE Leaving(x) /\ cmds = <<u>>
    <3>1. m = u /\ mq' = <<u>> /\ cmds' = <<>>
      BY <1>1, <1>3, <2>2, <2>7
    <3>2. Leaving(x)'
      BY <1>1, <1>2, <2>4, <2>7, <3>1 DEF Leaving, u
    <3> QED BY <2>2, <3>1, <3>2 DEF AtLimits
  <2> QED BY <2>3, <2>5, <2>6, <2>7
<1>5. ArbInv' /\ SysTypeOK'
  <2>1. ArbInv /\ SysTypeOK
    BY DEF RodInv, SysInv
  <2>2. ArbInv'
    BY <1>1, <1>4, <2>1, StepInv DEF ArbStep
  <2> QED BY <1>1, <2>1, <2>2 DEF SysTypeOK, PowerTypeOK, ArbInv
<1>6. TodoOK' /\ OneQueued' /\ Obeyed'
  <2>1. TodoOK /\ Obeyed /\ \A y : Pending(y)' <=> Pending(y)
    BY <1>1 DEF Pending, RodInv, SysInv
  <2>2. OneQueued'
    <3> HIDE DEF m
    <3>1. Len(mq') = 1
      BY <1>3, <1>4
    <3> QED BY <3>1 DEF OneQueued
  <2>3. FaultStops'
    BY <1>1, <2>1 DEF Obeyed, FaultStops
  <2>4. TodoOK' /\ DisableThenStop' /\ InitNotInFault' /\ FaultDisables' /\ OthersEnable'
    BY <1>1, <2>1 DEF TodoOK, InOrder, Obeyed, DisableThenStop, InitNotInFault, FaultDisables, OthersEnable
  <2> QED BY <2>2, <2>3, <2>4 DEF Obeyed
<1>7. PostsStop' /\ BlockQueues' /\ PowerAllows'
  BY <1>1, <1>2 DEF RodInv, PostsStop, BlockQueues, PowerAllows
<1> HIDE DEF m
<1>8. \E r \in Msg : RodsOwn(r) /\ mq' = <<r>>
  BY <1>3, <1>4, Zenon
<1> QED BY <1>4, <1>5, <1>6, <1>7, <1>8 DEF SysInv

\* A run command of the polarity is no block.
LEMMA RunIsNoBlock ==
  ASSUME mq = <<Head(mq)>>, Head(mq).verb \in {"BLOCK", "UNBLOCK"}
  PROVE  mq # <<>> /\ \A y \in Dir : mq # <<RunMsg(y)>>
<1> DEFINE m == Head(mq)
<1> HIDE DEF m
<1>1. mq = <<m>> /\ m.verb \in {"BLOCK", "UNBLOCK"}
  BY DEF m
<1>2. \A y \in Dir : m # RunMsg(y)
  BY <1>1 DEF RunMsg, Cmd
<1>3. ASSUME NEW r, <<m>> = <<r>> PROVE m = r
  BY <1>3
<1> QED BY <1>1, <1>2, <1>3

\* A command that is neither the rod's block nor its release leaves the blocks
\* alone, and starts nothing in a direction that is blocked.
LEMMA PlainTurn ==
  ASSUME RodInv, Act, Plain
  PROVE  /\ RodData(arb'[MainAxis])
         /\ \A x \in Dir : /\ Blocks(x)' = Blocks(x)
                           /\ Blocks(x) # <<>> /\ Allows(x) = <<>> => Allows(x)' = <<>>
<1> DEFINE m == Head(mq)
           d == arb[MainAxis]
           e == arb'[MainAxis]
<1>1. /\ mq = <<m>> /\ m \in Msg /\ \A a \in Axis : a # m.axis => arb'[a] = arb[a]
      /\ arb'[m.axis] = Arb_Decision(Arb_ProcessMessage(arb[m.axis], m))
  BY ActStep DEF RodInv, SysInv
<1>2. RodData(d) /\ MainAxis \in Axis
  BY MainData DEF RodInv, SysInv
<1>3. ASSUME RodData(e), e.block = d.block,
             \A x \in Dir : d.block[x] # <<>> /\ d.allow[x] = <<>> => e.allow[x] = <<>>
      PROVE  /\ RodData(arb'[MainAxis])
             /\ \A x \in Dir : /\ Blocks(x)' = Blocks(x)
                               /\ Blocks(x) # <<>> /\ Allows(x) = <<>> => Allows(x)' = <<>>
  BY <1>3 DEF Blocks, Allows
<1>4. CASE m.axis # MainAxis
  <2>1. e = d
    BY <1>1, <1>2, <1>4
  <2> QED BY <1>2, <1>3, <2>1
<1>5. CASE m.axis = MainAxis
  <2>1. e = Arb_Decision(Arb_ProcessMessage(d, m))
    BY <1>1, <1>5
  <2>2. CASE m.verb \in Stops
    <3>1. RodData(e) /\ e.block = d.block /\ \A x \in Dir : e.allow[x] \in {<<>>, d.allow[x]}
      BY <1>1, <1>2, <2>1, <2>2, RodStopTurn
    <3> QED BY <1>3, <3>1
  <2>3. CASE \E y \in Dir : mq = <<RunMsg(y)>>
    <3>1. PICK y \in Dir : mq = <<RunMsg(y)>>
      BY <2>3
    <3>2. m = RunMsg(y)
      <4>1. ASSUME NEW r PROVE Head(<<r>>) = r
        OBVIOUS
      <4> QED BY <3>1, <4>1
    <3>3. /\ RodData(e) /\ e.block = d.block /\ e.allow[Opposite(y)] = <<>>
          /\ d.block[y] # <<>> => e.allow[y] = d.allow[y]
      BY <1>2, <2>1, <3>2, RodRunTurn
    <3>4. \A x \in Dir : d.block[x] # <<>> /\ d.allow[x] = <<>> => e.allow[x] = <<>>
      BY <3>3, Directions
    <3> QED BY <1>3, <3>3, <3>4
  <2>4. mq # <<>>
    BY <1>1
  <2> QED BY <2>2, <2>3, <2>4 DEF Plain
<1> QED BY <1>4, <1>5

\* A turn of the arbiter.
LEMMA RodActStep ==
  ASSUME RodInv, RodAct
  PROVE  BlockQueues' /\ PowerAllows' /\ AtLimits' /\ PostsStop'
<1>1. Act /\ UNCHANGED <<rod, cmds, reset, todo>>
  BY DEF RodAct, Act
<1>2. /\ mq' = <<>> /\ mq = <<Head(mq)>> /\ arb'[Head(mq).axis] = Arb_Decision(Arb_ProcessMessage(arb[Head(mq).axis], Head(mq)))
  BY <1>1, ActStep DEF RodInv, SysInv
<1>3. RodData(arb[MainAxis])
  BY MainData DEF RodInv, SysInv
<1>4. ArbInv'
  BY <1>1, SysArbInv DEF RodInv, SysNext
<1>5. Plain' /\ PostsStop'
  BY <1>1, <1>2 DEF Plain, PostsStop, RodInv
<1>6. ASSUME RodData(arb'[MainAxis]) PROVE BlockQueues' /\ PowerAllows'
  BY <1>6 DEF RodData, BlockQueues, PowerAllows, Blocks, Allows
<1>7. CASE Plain
  <2>1. /\ RodData(arb'[MainAxis])
        /\ \A x \in Dir : /\ Blocks(x)' = Blocks(x)
                          /\ Blocks(x) # <<>> /\ Allows(x) = <<>> => Allows(x)' = <<>>
    BY <1>1, <1>7, PlainTurn
  <2>2. CASE Posted
    <3>1. Posted'
      BY <1>1, <1>5, <2>1, <2>2 DEF Posted
    <3> QED BY <1>5, <1>6, <2>1, <3>1 DEF AtLimits
  <2>3. CASE \E x \in Dir : Arriving(x) \/ Leaving(x)
    <3>1. PICK x \in Dir : Arriving(x) \/ Leaving(x)
      BY <2>3
    <3>2. Opposite(x) \in Dir /\ \A y \in Dir : y = x \/ y = Opposite(x)
      BY Directions
    <3>3. CASE cmds = <<>>
      <4>1. mq \in {<<LimitMsg("BLOCK", x)>>, <<LimitMsg("UNBLOCK", x)>>}
        <5>1. ASSUME NEW u, <<u>> = <<>> PROVE FALSE
          BY <5>1
        <5>2. ASSUME NEW u, NEW v, <<u, v>> = <<>> PROVE FALSE
          BY <5>2
        <5> QED BY <3>1, <3>3, <5>1, <5>2 DEF Arriving, Leaving
      <4>2. Head(mq).verb \in {"BLOCK", "UNBLOCK"}
        BY <4>1, CommandsLeft, LimitMsgs DEF Verb
      <4>3. mq # <<>> /\ \A y \in Dir : mq # <<RunMsg(y)>>
        BY <1>2, <4>2, RunIsNoBlock
      <4> QED BY <1>7, <4>2, <4>3 DEF Plain, Stops
    <3>4. CASE cmds # <<>> /\ Arriving(x)
      <4>1. Arriving(x)'
        BY <1>1, <1>5, <2>1, <3>2, <3>4 DEF Arriving
      <4> QED BY <1>5, <1>6, <2>1, <4>1 DEF AtLimits
    <3>5. CASE cmds # <<>> /\ Leaving(x)
      <4>1. Leaving(x)'
        BY <1>1, <1>5, <2>1, <3>2, <3>5 DEF Leaving
      <4> QED BY <1>5, <1>6, <2>1, <4>1 DEF AtLimits
    <3> QED BY <3>1, <3>3, <3>4, <3>5
  <2> QED BY <2>2, <2>3 DEF RodInv, AtLimits
<1>8. CASE ~ Plain
  <2>1. PICK x \in Dir : \/ Arriving(x) /\ mq = <<LimitMsg("BLOCK", x)>> /\ cmds = <<>>
                         \/ Leaving(x) /\ mq = <<LimitMsg("UNBLOCK", x)>> /\ cmds = <<>>
    BY <1>8 DEF RodInv, AtLimits, Posted, Arriving, Leaving
  <2>2. Opposite(x) \in Dir /\ \A y \in Dir : y = x \/ y = Opposite(x)
    BY Directions
  <2>3. CASE Arriving(x) /\ mq = <<LimitMsg("BLOCK", x)>> /\ cmds = <<>>
    <3>1. Head(mq) = LimitMsg("BLOCK", x) /\ Head(mq).axis = MainAxis
      BY <2>3, CommandsLeft, LimitMsgs DEF Verb
    <3>2. /\ RodData(arb'[MainAxis]) /\ arb'[MainAxis].block[x] = <<BlockRecord(x)>>
          /\ arb'[MainAxis].block[Opposite(x)] = arb[MainAxis].block[Opposite(x)]
      BY <1>2, <1>3, <3>1, RodBlockTurn
    <3>3. Blocks(x)' # <<>> /\ Blocks(Opposite(x))' = <<>>
      BY <2>3, <3>2, BlockQueue DEF Blocks, Arriving
    <3>4. Posted'
      <4>1. rod = LimitOf(x) /\ rod # LimitOf(Opposite(x)) /\ ~ reset
        BY <2>3, Directions DEF Arriving
      <4> QED BY <1>1, <1>5, <2>2, <2>3, <3>3, <4>1 DEF Posted
    <3> QED BY <1>5, <1>6, <3>2, <3>4 DEF AtLimits
  <2>4. CASE Leaving(x) /\ mq = <<LimitMsg("UNBLOCK", x)>> /\ cmds = <<>>
    <3>1. Head(mq) = LimitMsg("UNBLOCK", x) /\ Head(mq).axis = MainAxis
      BY <2>4, CommandsLeft, LimitMsgs DEF Verb
    <3>2. /\ RodData(arb'[MainAxis]) /\ arb'[MainAxis].block[x] = <<>>
          /\ arb'[MainAxis].block[Opposite(x)] = arb[MainAxis].block[Opposite(x)]
      BY <1>2, <1>3, <3>1, RodUnblockTurn
    <3>3. Blocks(x)' = <<>> /\ Blocks(Opposite(x))' = <<>>
      BY <2>4, <3>2 DEF Blocks, Leaving
    <3>4. Posted'
      <4>1. \A y \in Dir : rod # LimitOf(y)
        BY <2>4 DEF Leaving, LimitOf
      <4> QED BY <1>1, <1>5, <2>2, <2>4, <3>3, <4>1 DEF Posted
    <3> QED BY <1>5, <1>6, <3>2, <3>4 DEF AtLimits
  <2> QED BY <2>1, <2>3, <2>4
<1> QED BY <1>7, <1>8

\* Whether a position is in a calibration window, and a step of the rod.
LEMMA ZoneTypes == \A p \in Int : InZoneMin(p) \in BOOLEAN /\ InZoneMax(p) \in BOOLEAN
<1> SUFFICES ASSUME NEW p \in Int PROVE InZoneMin(p) \in BOOLEAN /\ InZoneMax(p) \in BOOLEAN
  OBVIOUS
<1>1. {WinA, WinC} \subseteq Int
  BY RodConstants
<1>2. (p <= WinA) \in BOOLEAN /\ (p >= WinC) \in BOOLEAN
  BY <1>1
<1>3. (p \in WinA .. WinB) \in BOOLEAN /\ (p \in WinD .. WinC) \in BOOLEAN
  OBVIOUS
<1> QED BY <1>2, <1>3, Zenon DEF InZoneMin, InZoneMax

LEMMA UpdateTypes ==
  ASSUME NEW c \in Calib, NEW n \in -1 .. 1
  PROVE  RodPosition_Update(c, n) \in Calib
<1>1. c.pos + n \in Int
  BY DEF Calib
<1> QED BY <1>1, ZoneTypes DEF RodPosition_Update, Calib

LEMMA MoveTypes ==
  ASSUME RodTypes, Move
  PROVE  phys' \in 0 .. Stroke /\ delta' \in -1 .. 1
<1>1. phys \in 0 .. Stroke /\ Stroke \in Nat
  BY RodConstants DEF RodTypes
<1>2. CASE out[MainAxis] = "fwd"
  BY <1>1, <1>2 DEF Move, AtEnd
<1>3. CASE out[MainAxis] # "fwd"
  BY <1>1, <1>3 DEF Move, AtEnd
<1> QED BY <1>2, <1>3

-----------------------------------------------------------------------------
(* The invariant *)

\* What reads none of the rod's variables nor the main axis leaves its
\* invariant alone.
LEMMA LimitsKept ==
  ASSUME RodInv, UNCHANGED <<mq, arb, todo, rod, cmds, reset>>
  PROVE  PostsStop' /\ BlockQueues' /\ PowerAllows' /\ AtLimits'
<1>1. \A x \in Dir : Blocks(x)' = Blocks(x) /\ Allows(x)' = Allows(x)
  BY DEF Blocks, Allows
<1>2. PostsStop' /\ BlockQueues' /\ PowerAllows' /\ (Plain' <=> Plain)
  BY <1>1 DEF RodInv, PostsStop, BlockQueues, PowerAllows, Plain
<1>3. \A x \in Dir : Opposite(x) \in Dir
  BY Directions
<1>4. (Posted => Posted') /\ \A x \in Dir : (Arriving(x) => Arriving(x)') /\ (Leaving(x) => Leaving(x)')
  BY <1>1, <1>2, <1>3 DEF Posted, Arriving, Leaving
<1> QED BY <1>2, <1>4 DEF RodInv, AtLimits

\* An edge of the polarity queues a run command.
LEMMA RodScanStep ==
  ASSUME RodInv, RodPolarity_Scan
  PROVE  PostsStop' /\ BlockQueues' /\ PowerAllows' /\ AtLimits'
<1>1. /\ mq = <<>> /\ UNCHANGED <<arb, todo, rod, cmds, reset>>
      /\ UNCHANGED mq \/ (pin \in Dir /\ mq' = <<RunMsg(pin)>>)
  BY ScanStep DEF RodPolarity_Scan, RodInv, SysInv, rodVars
<1>2. \A x \in Dir : Blocks(x)' = Blocks(x) /\ Allows(x)' = Allows(x)
  BY <1>1 DEF Blocks, Allows
<1>3. PostsStop' /\ BlockQueues' /\ PowerAllows' /\ Plain'
  BY <1>1, <1>2 DEF RodInv, PostsStop, BlockQueues, PowerAllows, Plain
<1>4. \A x \in Dir : Opposite(x) \in Dir
  BY Directions
<1>5. ASSUME NEW r, <<r>> = <<>> PROVE FALSE
  BY <1>5
<1>6. (Posted => Posted') /\ \A x \in Dir : (Arriving(x) => Arriving(x)') /\ (Leaving(x) => Leaving(x)')
  BY <1>1, <1>2, <1>3, <1>4, <1>5 DEF Posted, Arriving, Leaving
<1> QED BY <1>3, <1>6 DEF RodInv, AtLimits

\* The system's own invariant holds with the rod as well.
LEMMA RodSysInv ==
  ASSUME RodInv, [RodNext]_rodAllVars
  PROVE  SysInv'
<1>1. ASSUME [SysNext]_sysVars PROVE SysInv'
  BY <1>1, SysArbInv, SysObeyed, SysTypes DEF RodInv, SysInv
<1>2. CASE Actuator_Tick \/ Move \/ UNCHANGED rodAllVars
  BY <1>1, <1>2 DEF Actuator_Tick, Move, rodAllVars
<1>3. CASE RodPost
  BY <1>3, RodPostStep
<1>4. CASE RodSysSm \/ RodAct \/ RodPolarity_Scan \/ RodSupply
  BY <1>1, <1>4 DEF RodSysSm, RodAct, RodPolarity_Scan, RodSupply, SysNext
<1>5. CASE RodPowerIsr
  <2>1. PICK high \in BOOLEAN : Dev_Power_Isr1ms(volt, high)
    BY <1>5 DEF RodPowerIsr
  <2>2. UNCHANGED <<mq, arb, out, pins, sm, previous_state, fault_bits, prev_state, overcur_dir, pol,
                    todo, hw_started, volt, pin, hand>>
    BY <1>5, <2>1 DEF RodPowerIsr, Dev_Power_Isr1ms, arbVars, smVars, faultVars, envVars
  <2>3. ArbInv /\ SysTypeOK /\ TodoOK /\ OneQueued /\ Obeyed
    BY DEF RodInv, SysInv
  <2>4. ArbInv'
    BY <2>2, <2>3, StepInv DEF arbVars
  <2>5. SysTypeOK'
    <3>1. vm' \in VoltData /\ cur' \in CurData /\ sys_evt' \subseteq EventBit
      <4>1. /\ vm' \in VoltData /\ cur' \in CurData
            /\ sys_evt' \subseteq sys_evt \cup {"VOLT_RECOVER_WAIT", "VOLT_OVER", "VOLT_UNDER",
                                                "VOLT_NORMAL", "OVER_CURRENT"}
        BY <2>1, <2>3, IsrTypes
      <4> QED BY <2>3, <4>1, Bits DEF SysTypeOK
    <3> QED BY <2>2, <2>3, <2>4, <3>1 DEF SysTypeOK, PowerTypeOK, ArbInv
  <2>6. TodoOK' /\ OneQueued' /\ Obeyed'
    <3>1. \A x : Pending(x)' <=> Pending(x)
      BY <2>2 DEF Pending
    <3> QED BY <2>2, <2>3, <3>1 DEF TodoOK, InOrder, OneQueued, Obeyed, DisableThenStop, InitNotInFault,
                                    FaultDisables, FaultStops, OthersEnable
  <2> QED BY <2>4, <2>5, <2>6 DEF SysInv
<1> QED BY <1>2, <1>3, <1>4, <1>5 DEF RodNext

\* Every variable of the rod keeps its type.
LEMMA RodTypesStep ==
  ASSUME RodInv, [RodNext]_rodAllVars
  PROVE  RodTypes'
<1>1. RodTypes
  BY DEF RodInv
<1>2. CASE Actuator_Tick
  <2>1. rod' \in RodState
    BY <1>2, TickStep
  <2> DEFINE u == RodPosition_Update(calib, delta)
  <2>2. u \in Calib
    BY <1>1, UpdateTypes DEF RodTypes
  <2> HIDE DEF u
  <2>3. RodPosition_OnLimit(u, req) \in Calib
    <3>1. \A p \in Int : [u EXCEPT !.pos = p, !.done = TRUE] \in Calib
      BY <2>2 DEF Calib
    <3>2. Stroke \in Int /\ 0 \in Int
      BY RodConstants
    <3> QED BY <2>2, <3>1, <3>2 DEF RodPosition_OnLimit
  <2>4. calib' = RodPosition_OnLimit(u, req) /\ req' = "none" /\ delta' = 0 /\ phys' = phys
    BY <1>2 DEF Actuator_Tick, u
  <2>5. ticked' \in BOOLEAN /\ reset' \in BOOLEAN
    BY <1>2 DEF Actuator_Tick
  <2> QED BY <1>1, <2>1, <2>3, <2>4, <2>5 DEF RodTypes, CalibReq
<1>3. CASE Move
  BY <1>1, <1>3, MoveTypes DEF RodTypes, Move
<1>4. CASE RodSysSm
  BY <1>1, <1>4 DEF RodSysSm, RodCalib_OnOverCurrent, RodTypes, CalibReq
<1>5. CASE RodAct
  BY <1>1, <1>5 DEF RodAct, RodTypes
<1>6. CASE RodPost \/ RodPowerIsr \/ RodPolarity_Scan \/ RodSupply \/ UNCHANGED rodAllVars
  BY <1>1, <1>6 DEF RodPost, RodPowerIsr, RodPolarity_Scan, RodSupply, rodAllVars, rodVars, RodTypes
<1> QED BY <1>2, <1>3, <1>4, <1>5, <1>6 DEF RodNext

\* One step of the rod, the system and the supply.
LEMMA RodStep == RodInv /\ [RodNext]_rodAllVars => RodInv'
<1> SUFFICES ASSUME RodInv, [RodNext]_rodAllVars PROVE RodInv'
  OBVIOUS
<1>1. SysInv' /\ RodTypes'
  BY RodSysInv, RodTypesStep
<1>2. CASE Actuator_Tick
  <2>1. UNCHANGED <<arb, todo>>
    BY <1>2 DEF Actuator_Tick, sysVars
  <2>2. PostsStop' /\ BlockQueues' /\ PowerAllows'
    BY <2>1 DEF RodInv, PostsStop, BlockQueues, PowerAllows, Blocks, Allows
  <2> QED BY <1>1, <1>2, <2>2, TickStep DEF RodInv
<1>3. CASE RodPost
  BY <1>1, <1>3, RodPostStep DEF RodInv
<1>4. CASE RodSysSm
  BY <1>1, <1>4, RodSmStep DEF RodInv
<1>5. CASE RodAct
  BY <1>1, <1>5, RodActStep DEF RodInv
<1>6. CASE RodPolarity_Scan
  BY <1>1, <1>6, RodScanStep DEF RodInv
<1>7. CASE RodPowerIsr \/ Move \/ RodSupply \/ UNCHANGED rodAllVars
  <2>1. UNCHANGED <<mq, arb, todo, rod, cmds, reset>>
    BY <1>7 DEF RodPowerIsr, Move, RodSupply, Supply, rodAllVars, rodVars, sysVars, arbVars
  <2> QED BY <1>1, <2>1, LimitsKept DEF RodInv
<1> QED BY <1>2, <1>3, <1>4, <1>5, <1>6, <1>7 DEF RodNext

\* It starts away from its limits, with nothing blocked.
LEMMA RodInitInv == RodInit => RodInv
<1> SUFFICES ASSUME RodInit PROVE RodInv
  OBVIOUS
<1>1. SysInv /\ todo = <<>> /\ mq = <<>> /\ arb = [a \in Axis |-> EmptyData]
  BY SysInitInv DEF RodInit, App_Model_Init, ArbInit
<1>2. \A x \in Dir : Blocks(x) = <<>> /\ Allows(x) = <<>>
  BY <1>1, SysConstants DEF Blocks, Allows, EmptyData
<1>3. RodTypes
  <2>1. phys \in 0 .. Stroke /\ phys \in Int
    BY RodConstants DEF RodInit
  <2>2. calib \in Calib
    <3>1. [pos |-> 0, done |-> FALSE, min |-> FALSE, max |-> FALSE] \in Calib
      BY DEF Calib
    <3>2. [pos |-> phys, done |-> TRUE, min |-> FALSE, max |-> FALSE] \in Calib
      BY <2>1 DEF Calib
    <3> QED BY <3>1, <3>2, Zenon DEF RodInit
  <2>3. ticked \in BOOLEAN /\ reset \in BOOLEAN
    BY Zenon DEF RodInit
  <2> QED BY <2>1, <2>2, <2>3 DEF RodInit, RodTypes, RodState, CalibReq
<1>4. PostsStop /\ BlockQueues /\ PowerAllows
  BY <1>1, <1>2, EmptyQueueOK DEF PostsStop, BlockQueues, PowerAllows
<1>5. Posted
  BY <1>1, <1>2 DEF RodInit, Posted, Plain, LimitOf
<1> QED BY <1>1, <1>3, <1>4, <1>5 DEF RodInv, AtLimits

\* The rod, sys_sm, the arbiter and the detectors together keep the invariant,
\* for every stroke, window, margin and number of axes.
THEOREM RodInvariant == RodSpec => []RodInv
<1> QED BY RodInitInv, RodStep, PTL DEF RodSpec

\* A direction is blocked at the arbiter exactly while the rod is at that
\* limit, whatever faults, resets and edges come between the commands of the
\* rod task.
THEOREM RodBlockMatchesLimit == RodSpec => []BlockMatchesLimit
<1>1. RodInv => BlockMatchesLimit
  <2> SUFFICES ASSUME RodInv, mq = <<>>, cmds = <<>>, ~ reset
               PROVE  /\ (arb[MainAxis].block["fwd"] # <<>>) = (rod = "EXT_LIMIT")
                      /\ (arb[MainAxis].block["rev"] # <<>>) = (rod = "RET_LIMIT")
    BY DEF BlockMatchesLimit
  <2>1. Posted
    BY NothingToPost DEF RodInv
  <2> QED BY <2>1, Directions DEF Posted, Blocks, LimitOf
<1> QED BY <1>1, RodInvariant, PTL

\* Running the rod, whose task commands the arbiter too, leaves what the
\* system's states mean for the motor in force.
THEOREM RodStateIsObeyed == RodSpec => []StateIsObeyed
<1>1. RodInv => StateIsObeyed
  BY InvObeyed DEF RodInv
<1> QED BY <1>1, RodInvariant, PTL

-----------------------------------------------------------------------------
(* The calibrated position *)

\* The zones in which no fault starts.
InLimits == 2 .. 4

\* With a good supply nothing but an over-current and an edge of the polarity
\* ever comes; the modules are initialised once, before the hardware starts.
QuietBits == {"OVER_CURRENT", "POLARITY_CHG", "INIT_DONE", "CMD_WORK_ENABLE"}
QuietElement(x) ==
  \/ x.do = "bit" /\ x.evt \in QuietBits
  \/ x.do = "event" /\ x.evt \in {"INIT_DONE", "CMD_WORK_ENABLE"}
  \/ \E dir \in Dir : x = Post(ClearMsg(dir), TRUE)
  \/ x.do = "init" /\ ~ hw_started /\ sm # "INIT"
  \/ x.do = "start" /\ sm # "INIT"
InitsLead(s) == \A i, j \in DOMAIN s : i < j /\ s[j].do = "init" => s[i].do = "init"
RunQueued == \E dir \in Dir : mq = <<RunMsg(dir)>>
GoodSupply ==
  /\ volt \in InLimits /\ vm.fault = 0 /\ ~ vm.waiting
  /\ fault_bits = {} /\ sys_evt \subseteq QuietBits
  /\ \A i \in DOMAIN todo : QuietElement(todo[i])
  /\ InitsLead(todo)
  /\ sm \in {"INIT", "IDLE", "RUN"} /\ (sm = "INIT" => ~ hw_started)
  /\ mq = <<>> \/ Head(mq).axis = MainAxis
  /\ ~ hw_started => /\ out[MainAxis] = "stop" /\ delta = 0 /\ ~ RunQueued
                     /\ "OVER_CURRENT" \notin sys_evt

\* The motor does what the queues say.
Decided ==
  /\ arb[MainAxis].enable /\ pins = Physical(out[MainAxis])
  /\ \A dir \in Dir : out[MainAxis] = dir <=> Allows(dir) # <<>> /\ Blocks(dir) = <<>>

\* The detector has reported its over-current and reports no other.
Reported == cur.status /\ cur.block = 0 /\ cur.over = WindowMs

\* The motor, if it turns, pushes against the end of the stroke.
AtStop(dirs) ==
  /\ delta = 0 /\ ~ RunQueued
  /\ \/ out[MainAxis] = "stop"
     \/ out[MainAxis] \in dirs /\ AtEnd(out[MainAxis]) /\ ticked /\ Reported

ZonesFresh == calib.min = InZoneMin(calib.pos) /\ calib.max = InZoneMax(calib.pos)
NewBit == "OVER_CURRENT" \in sys_evt
TakenBit == Pending(Bit("OVER_CURRENT"))

\* An over-current on its way, once, is one of the end the rod is at, with a
\* position that says so; so is a calibration request.
EndsKnown ==
  /\ ~ (NewBit /\ TakenBit)
  /\ \A i, j \in DOMAIN todo : todo[i] = Bit("OVER_CURRENT") /\ todo[j] = todo[i] => i = j
  /\ NewBit \/ TakenBit =>
       /\ req = "none" /\ AtStop(Dir)
       /\ Turning /\ calib.done => ZonesFresh
  /\ req = "max" => phys = Stroke /\ AtStop({"fwd"})
  /\ req = "min" => phys = 0 /\ AtStop({"rev"})
  /\ Turning /\ ticked /\ calib.done /\ ~ ZonesFresh => AtEnd(out[MainAxis]) /\ delta = 0 /\ Reported

CalibInv == RodInv /\ GoodSupply /\ Decided /\ EndsKnown /\ CalibratedIsRight

\* What the decision does for one direction at most: it drives the one asked
\* for and not blocked.
LEMMA DecidedTurn ==
  ASSUME NEW d, RodData(d), d.enable, NEW m \in Msg,
         RodData(Arb_Decision(Arb_ProcessMessage(d, m)))
  PROVE  LET e == Arb_Decision(Arb_ProcessMessage(d, m))
         IN /\ e.enable
            /\ \A x \in Dir : OutputOp(e) = x <=> e.allow[x] # <<>> /\ e.block[x] = <<>>
<1> DEFINE p == Arb_ProcessMessage(d, m)
           e == Arb_Decision(p)
<1>1. /\ DataInv(p) /\ e.block = p.block /\ e.allow = p.allow /\ e.enable = d.enable /\ p \in ArbData
      /\ p.enable
  <2>1. p.enable = d.enable
    BY ProcessKeeps DEF RodData
  <2> QED BY <2>1, DecisionQueues
<1>2. RodData(p)
  BY <1>1 DEF RodData
<1> HIDE DEF p
<1> DEFINE q == [p EXCEPT !.conflict_fault = p.enable /\ Conflict(p)]
<1>3. q.allow = p.allow /\ q.block = p.block /\ q.enable = p.enable
  BY <1>1 DEF ArbData
<1>4. e = IF q.enable /\ FinalCommands(q) # {}
          THEN ApplyRun(q, CHOOSE c \in FinalCommands(q) : TRUE) ELSE Arb_ApplyStop(q)
  BY DEF Arb_Decision
<1>5. q \in ArbData
  BY <1>1 DEF ArbData
<1> HIDE DEF q
<1>6. \A x \in Dir : x # "none" /\ x # "stop"
  BY Directions
<1>7. CASE \E x \in Dir : p.allow[x] # <<>> /\ p.block[x] = <<>>
  <2>1. PICK x \in Dir : p.allow[x] # <<>> /\ p.block[x] = <<>>
    BY <1>7
  <2>2. p.allow[Opposite(x)] = <<>> /\ Opposite(x) \in Dir /\ \A y \in Dir : y = x \/ y = Opposite(x)
    BY <1>2, <2>1, OneWay, Directions
  <2> DEFINE c == Head(p.allow[x])
  <2>3. Candidates(q, x) = {c} /\ Candidates(q, Opposite(x)) = {}
    BY <1>3, <2>1, <2>2 DEF Candidates
  <2>4. c \in Record /\ c.dir = x
    BY <1>1, <2>1, <2>3, CandidateOK, <1>3 DEF Candidates
  <2> HIDE DEF c
  <2>5. ~ Conflict(q) /\ Candidates(q, "fwd") \cup Candidates(q, "rev") = {c}
    BY <2>3 DEF Conflict, Opposite, Dir
  <2>6. FinalCommands(q) = {c}
    <3>1. c.priority <= c.priority
      BY <2>4, ArbConstants DEF Record
    <3> QED BY <2>5, <3>1 DEF FinalCommands
  <2>7. e = ApplyRun(q, c)
    BY <1>1, <1>3, <1>4, <2>6
  <2>8. OutputOp(e) = x
    BY <1>5, <1>6, <2>4, <2>7 DEF ApplyRun, OutputOp, ArbData
  <2> QED BY <1>1, <2>1, <2>2, <2>8 DEF p
<1>8. CASE \A x \in Dir : ~ (p.allow[x] # <<>> /\ p.block[x] = <<>>)
  <2>1. \A x \in Dir : Candidates(q, x) = {}
    BY <1>3, <1>8 DEF Candidates
  <2>2. FinalCommands(q) = {}
    BY <2>1, Directions DEF FinalCommands
  <2>3. OutputOp(e) = "stop"
    BY <1>4, <1>5, <2>2 DEF Arb_ApplyStop, OutputOp, ArbData
  <2> QED BY <1>1, <1>6, <1>8, <2>3 DEF p
<1> QED BY <1>7, <1>8

\* A turn of the arbiter without a run command leaves the motor as it is or
\* stops it; a motor that goes on as before keeps the verdict on its current.
LEMMA RodActOut ==
  ASSUME RodInv, Decided, RodAct, Head(mq).axis = MainAxis
  PROVE  /\ Decided' /\ mq' = <<>>
         /\ RunQueued \/ out'[MainAxis] \in {out[MainAxis], "stop"}
         /\ out'[MainAxis] # out[MainAxis] => ticked' = FALSE
         /\ out'[MainAxis] = out[MainAxis] => ticked' = ticked /\ cur' = cur
<1> DEFINE m == Head(mq)
           d == arb[MainAxis]
           e == arb'[MainAxis]
<1>1. /\ mq = <<m>> /\ mq' = <<>> /\ m \in Msg /\ e = Arb_Decision(Arb_ProcessMessage(d, m))
      /\ out'[MainAxis] = OutputOp(e) /\ pins' = Physical(out'[MainAxis])
  BY ActStep DEF RodInv, SysInv, RodAct
<1>2. RodData(d) /\ d.enable /\ MainAxis \in Axis /\ pins = Physical(out[MainAxis])
  BY MainData DEF RodInv, SysInv, Decided
<1>3. out \in [Axis -> Dir \cup {"stop"}] /\ ticked \in BOOLEAN
  BY DEF RodInv, SysInv, ArbInv, ArbTypeOK, RodTypes
<1>4. out' = [out EXCEPT ![MainAxis] = out'[MainAxis]]
  <2>1. out' = [out EXCEPT ![MainAxis] = OutputOp(Arb_Decision(Arb_ProcessMessage(d, m)))]
    BY DEF RodAct, Act, Arb_ThreadEntry
  <2> QED BY <1>2, <1>3, <2>1
<1>5. RodData(e)
  <2>1. BlockQueues' /\ PowerAllows'
    BY RodActStep
  <2>2. DataInv(e)
    BY <1>1, <1>2, TurnOK DEF RodData
  <2> QED BY <2>1, <2>2 DEF RodData, BlockQueues, PowerAllows, Blocks, Allows
<1>6. e.enable /\ \A x \in Dir : out'[MainAxis] = x <=> e.allow[x] # <<>> /\ e.block[x] = <<>>
  BY <1>1, <1>2, <1>5, DecidedTurn
<1>7. Decided'
  BY <1>1, <1>6 DEF Decided, Allows, Blocks
<1>8. out'[MainAxis] # out[MainAxis] => ticked' = FALSE
  BY DEF RodAct
<1>9. ASSUME out'[MainAxis] = out[MainAxis] PROVE ticked' = ticked /\ cur' = cur
  <2>1. out' = out
    BY <1>2, <1>3, <1>4, <1>9
  <2>2. ticked' = ticked
    BY <1>3, <2>1, Zenon DEF RodAct
  <2>3. MotorGpio_WritePair(out'[MainAxis])
    BY DEF RodAct, Act
  <2>4. cur' = cur
    BY <1>2, <1>9, <2>3 DEF MotorGpio_WritePair
  <2> QED BY <2>2, <2>4
<1>10. \A x \in Dir : out[MainAxis] = x <=> d.allow[x] # <<>> /\ d.block[x] = <<>>
  BY DEF Decided, Allows, Blocks
<1>11. out'[MainAxis] \in Dir \cup {"stop"}
  BY <1>2, SysArbInv DEF RodInv, RodAct, SysNext, ArbInv, ArbTypeOK
<1>12. ASSUME ~ RunQueued, NEW x \in Dir, e.allow[x] # <<>>, e.block[x] = <<>>
       PROVE  d.allow[x] # <<>> /\ d.block[x] = <<>>
  <2>1. CASE Plain
    <3>1. m.verb \in Stops
      <4>1. mq # <<>>
        BY DEF RodAct, Act, Arb_ThreadEntry
      <4> QED BY <1>12, <2>1, <4>1 DEF Plain, RunQueued
    <3>2. e.block = d.block /\ \A y \in Dir : e.allow[y] \in {<<>>, d.allow[y]}
      BY <1>1, <1>2, <3>1, RodStopTurn
    <3> QED BY <1>12, <3>2
  <2>2. CASE ~ Plain
    <3>1. PICK y \in Dir : \/ mq = <<LimitMsg("BLOCK", y)>>
                           \/ mq = <<LimitMsg("UNBLOCK", y)>> /\ (d.allow[y] = <<>> \/ d.block[y] = <<>>)
      BY <2>2 DEF RodInv, AtLimits, Posted, Arriving, Leaving, Allows, Blocks
    <3>2. Opposite(y) \in Dir /\ (x = y \/ x = Opposite(y))
      BY Directions
    <3>3. CASE mq = <<LimitMsg("BLOCK", y)>>
      <4>1. m = LimitMsg("BLOCK", y)
        BY <3>3, CommandsLeft
      <4>2. /\ e.allow = d.allow /\ e.block[y] = <<BlockRecord(y)>>
            /\ e.block[Opposite(y)] = d.block[Opposite(y)]
        BY <1>1, <1>2, <4>1, RodBlockTurn
      <4>3. <<BlockRecord(y)>> # <<>>
        BY BlockQueue
      <4> QED BY <1>12, <3>2, <4>2, <4>3
    <3>4. CASE mq = <<LimitMsg("UNBLOCK", y)>> /\ (d.allow[y] = <<>> \/ d.block[y] = <<>>)
      <4>1. m = LimitMsg("UNBLOCK", y)
        BY <3>4, CommandsLeft
      <4>2. /\ e.allow = d.allow /\ e.block[Opposite(y)] = d.block[Opposite(y)]
        BY <1>1, <1>2, <4>1, RodUnblockTurn
      <4> QED BY <1>12, <3>2, <3>4, <4>2
    <3> QED BY <3>1, <3>3, <3>4
  <2> QED BY <2>1, <2>2
<1>13. RunQueued \/ out'[MainAxis] \in {out[MainAxis], "stop"}
  BY <1>6, <1>10, <1>11, <1>12
<1> QED BY <1>1, <1>7, <1>8, <1>9, <1>13

\* What the rod's own invariant says of its variables.
LEMMA RodFacts ==
  ASSUME RodInv
  PROVE  /\ SysInv /\ TodoOK /\ sm \in State /\ cur \in CurData /\ vm \in VoltData
         /\ calib \in Calib /\ req \in CalibReq /\ phys \in 0 .. Stroke /\ delta \in -1 .. 1
         /\ ticked \in BOOLEAN /\ reset \in BOOLEAN /\ arb[MainAxis] \in ArbData
         /\ out[MainAxis] \in Dir \cup {"stop"} /\ OneQueued
BY MainData, SysConstants DEF RodInv, SysInv, RodTypes, SysTypeOK, PowerTypeOK, ArbInv, ArbTypeOK

\* The arbiter turns.
LEMMA CalibAct ==
  ASSUME CalibInv, RodAct
  PROVE  GoodSupply' /\ Decided' /\ EndsKnown' /\ CalibratedIsRight'
<1>1. /\ UNCHANGED <<vm, sys_evt, sm, fault_bits, todo, hw_started, volt, calib, req, phys, delta>>
      /\ mq # <<>>
  BY DEF RodAct, Act, Arb_ThreadEntry, smVars, faultVars, envVars
<1>2. /\ Decided' /\ mq' = <<>>
      /\ RunQueued \/ out'[MainAxis] \in {out[MainAxis], "stop"}
      /\ out'[MainAxis] # out[MainAxis] => ticked' = FALSE
      /\ out'[MainAxis] = out[MainAxis] => ticked' = ticked /\ cur' = cur
  BY <1>1, RodActOut DEF CalibInv, GoodSupply
<1>3. ~ RunQueued'
  <2>1. ASSUME NEW r, <<>> = <<r>> PROVE FALSE
    BY <2>1
  <2> QED BY <1>2, <2>1 DEF RunQueued
<1>4. GoodSupply'
  <2>1. \A i \in DOMAIN todo : QuietElement(todo[i])' <=> QuietElement(todo[i])
    BY <1>1 DEF QuietElement
  <2>2. ~ hw_started => out'[MainAxis] = "stop"
    BY <1>2 DEF CalibInv, GoodSupply
  <2> QED BY <1>1, <1>2, <1>3, <2>1, <2>2 DEF CalibInv, GoodSupply, InitsLead
<1>5. \A dirs : AtStop(dirs) => AtStop(dirs)'
  BY <1>1, <1>2, <1>3 DEF AtStop, AtEnd, Reported
<1>6. /\ (NewBit' <=> NewBit) /\ (TakenBit' <=> TakenBit) /\ (ZonesFresh' <=> ZonesFresh)
  BY <1>1 DEF NewBit, TakenBit, Pending, ZonesFresh
<1>7. NewBit \/ TakenBit => ~ RunQueued /\ (Turning' => Turning)
  <2>1. NewBit \/ TakenBit => ~ RunQueued
    BY DEF CalibInv, EndsKnown, AtStop
  <2> QED BY <1>2, <2>1, Directions DEF Turning
<1>8. Turning' /\ ticked' => Turning /\ ticked /\ cur' = cur /\ out'[MainAxis] = out[MainAxis]
  BY <1>2 DEF Turning
<1>9. EndsKnown'
  BY <1>1, <1>5, <1>6, <1>7, <1>8 DEF CalibInv, EndsKnown, AtEnd, Reported
<1>10. CalibratedIsRight'
  BY <1>1 DEF CalibInv, CalibratedIsRight
<1> QED BY <1>2, <1>4, <1>9, <1>10

\* What leaves the system and the arbiter alone leaves these alone.
LEMMA SupplyKept ==
  ASSUME GoodSupply, Decided,
         UNCHANGED <<mq, arb, out, vm, pins, sys_evt, sm, fault_bits, todo, hw_started>>,
         volt' \in InLimits, ~ hw_started => delta' = 0
  PROVE  GoodSupply' /\ Decided' /\ (RunQueued' <=> RunQueued)
<1>1. \A i \in DOMAIN todo : QuietElement(todo[i])' <=> QuietElement(todo[i])
  BY DEF QuietElement
<1>2. RunQueued' <=> RunQueued
  BY DEF RunQueued
<1>3. GoodSupply'
  BY <1>1, <1>2 DEF GoodSupply, InitsLead
<1>4. Decided'
  BY DEF Decided, Allows, Blocks
<1> QED BY <1>2, <1>3, <1>4

\* The rod task looks.  A request sets the position it is at; the windows are
\* those of the position before, until the next turn.
LEMMA CalibTick ==
  ASSUME CalibInv, Actuator_Tick
  PROVE  GoodSupply' /\ Decided' /\ EndsKnown' /\ CalibratedIsRight'
<1> DEFINE u == RodPosition_Update(calib, delta)
           c == RodPosition_OnLimit(u, req)
<1>1. /\ UNCHANGED <<mq, arb, out, vm, cur, pins, sys_evt, sm, fault_bits, todo, hw_started, volt, phys>>
      /\ req' = "none" /\ delta' = 0 /\ calib' = c
  BY DEF Actuator_Tick, sysVars
<1>2. ticked' = TRUE
  BY DEF Actuator_Tick
<1>3. GoodSupply' /\ Decided' /\ (RunQueued' <=> RunQueued)
  BY <1>1, SupplyKept DEF CalibInv, GoodSupply
<1>4. /\ calib \in Calib /\ req \in CalibReq /\ phys \in 0 .. Stroke /\ delta \in -1 .. 1 /\ Stroke \in Nat
  BY RodFacts, RodConstants DEF CalibInv
<1>5. /\ u.pos = calib.pos + delta /\ u.done = calib.done /\ u \in Calib
      /\ u.min = InZoneMin(u.pos) /\ u.max = InZoneMax(u.pos)
  <2>1. u \in Calib
    BY <1>4, UpdateTypes
  <2>2. u.pos = calib.pos + delta /\ u.done = calib.done
    BY <1>4 DEF RodPosition_Update, Calib
  <2>3. u.min = InZoneMin(calib.pos + delta) /\ u.max = InZoneMax(calib.pos + delta)
    BY <1>4 DEF RodPosition_Update, Calib
  <2> QED BY <2>1, <2>2, <2>3
<1> HIDE DEF u
<1>6. CASE req = "none"
  <2>1. c = u
    BY <1>6 DEF RodPosition_OnLimit
  <2>2. ZonesFresh'
    BY <1>1, <1>5, <2>1 DEF ZonesFresh
  <2>3. CalibratedIsRight'
    BY <1>1, <1>4, <1>5, <2>1 DEF CalibInv, CalibratedIsRight, Calib
  <2>4. \A dirs : AtStop(dirs) => AtStop(dirs)'
    BY <1>1, <1>2, <1>3 DEF AtStop, AtEnd, Reported
  <2>5. (NewBit' <=> NewBit) /\ (TakenBit' <=> TakenBit)
    BY <1>1 DEF NewBit, TakenBit, Pending
  <2>6. EndsKnown'
    BY <1>1, <2>2, <2>4, <2>5 DEF CalibInv, EndsKnown
  <2> QED BY <1>3, <2>3, <2>6
<1>7. CASE req # "none"
  <2>1. /\ ~ NewBit /\ ~ TakenBit
        /\ \/ req = "max" /\ phys = Stroke /\ AtStop({"fwd"})
           \/ req = "min" /\ phys = 0 /\ AtStop({"rev"})
    BY <1>4, <1>7 DEF CalibInv, EndsKnown, CalibReq
  <2>2. (NewBit' <=> NewBit) /\ (TakenBit' <=> TakenBit)
    BY <1>1 DEF NewBit, TakenBit, Pending
  <2>3. delta = 0 /\ (Turning' => AtEnd(out[MainAxis])' /\ Reported')
    BY <1>1, <2>1, Directions DEF AtStop, AtEnd, Reported, Turning
  <2>4. EndsKnown'
    BY <1>1, <2>1, <2>2, <2>3 DEF CalibInv, EndsKnown
  <2>5. CalibratedIsRight'
    <3>1. CASE c = u
      BY <1>1, <1>4, <1>5, <2>3, <3>1 DEF CalibInv, CalibratedIsRight, Calib
    <3>2. CASE c # u
      <4>1. c.pos = IF req = "max" THEN Stroke ELSE 0
        BY <1>5, <3>2 DEF RodPosition_OnLimit, Calib
      <4> HIDE DEF c
      <4> QED BY <1>1, <1>4, <2>1, <4>1 DEF CalibratedIsRight
    <3> QED BY <3>1, <3>2
  <2> QED BY <1>3, <2>4, <2>5
<1> QED BY <1>6, <1>7

\* The rod task posts.
LEMMA CalibPost ==
  ASSUME CalibInv, RodPost
  PROVE  GoodSupply' /\ Decided' /\ EndsKnown' /\ CalibratedIsRight'
<1>1. UNCHANGED <<arb, out, vm, cur, pins, sys_evt, sm, fault_bits, todo, hw_started, volt,
                  calib, req, phys, delta, ticked>>
  BY DEF RodPost, Arb_SendCommand, powerVars, smVars, faultVars, envVars
<1>2. PICK m \in Msg : RodsOwn(m) /\ mq' = <<m>>
  BY RodPostStep DEF CalibInv
<1>3. Head(mq') = m
  BY <1>2
<1>4. ~ RunQueued'
  <2>1. \A dir \in Dir : m # RunMsg(dir)
    BY <1>2 DEF RodsOwn, RunMsg, Cmd
  <2>2. ASSUME NEW r, <<m>> = <<r>> PROVE m = r
    BY <2>2
  <2> QED BY <1>2, <2>1, <2>2 DEF RunQueued
<1>5. GoodSupply'
  <2>1. \A i \in DOMAIN todo : QuietElement(todo[i])' <=> QuietElement(todo[i])
    BY <1>1 DEF QuietElement
  <2> QED BY <1>1, <1>2, <1>3, <1>4, <2>1 DEF CalibInv, GoodSupply, InitsLead, RodsOwn
<1>6. Decided'
  BY <1>1 DEF CalibInv, Decided, Allows, Blocks
<1>7. EndsKnown'
  <2>1. \A dirs : AtStop(dirs) => AtStop(dirs)'
    BY <1>1, <1>4 DEF AtStop, AtEnd, Reported
  <2>2. /\ (NewBit' <=> NewBit) /\ (TakenBit' <=> TakenBit) /\ (ZonesFresh' <=> ZonesFresh)
        /\ Turning' <=> Turning
    BY <1>1 DEF NewBit, TakenBit, Pending, ZonesFresh, Turning
  <2> QED BY <1>1, <2>1, <2>2 DEF CalibInv, EndsKnown, AtEnd, Reported
<1>8. CalibratedIsRight'
  BY <1>1 DEF CalibInv, CalibratedIsRight
<1> QED BY <1>5, <1>6, <1>7, <1>8

\* The rod moves: not while an over-current or a request is on its way.
LEMMA CalibMove ==
  ASSUME CalibInv, Move
  PROVE  GoodSupply' /\ Decided' /\ EndsKnown' /\ CalibratedIsRight'
<1>1. /\ UNCHANGED <<mq, arb, out, vm, cur, pins, sys_evt, sm, fault_bits, todo, hw_started, volt,
                     calib, req, ticked>>
      /\ Turning /\ ticked /\ ~ AtEnd(out[MainAxis]) /\ delta = 0
      /\ \E n \in {1, -1} : phys' = phys + n /\ delta' = n
  BY DEF Move, sysVars
<1>2. hw_started /\ out[MainAxis] # "stop"
  BY <1>1, Directions DEF CalibInv, GoodSupply, Turning
<1>3. GoodSupply' /\ Decided'
  BY <1>1, <1>2, SupplyKept DEF CalibInv, GoodSupply
<1>4. \A dirs : ~ AtStop(dirs)
  BY <1>1, <1>2 DEF AtStop
<1>5. ~ NewBit /\ ~ TakenBit /\ req = "none"
  BY <1>4, RodFacts DEF CalibInv, EndsKnown, CalibReq
<1>6. /\ (NewBit' <=> NewBit) /\ (TakenBit' <=> TakenBit) /\ (ZonesFresh' <=> ZonesFresh)
  BY <1>1 DEF NewBit, TakenBit, Pending, ZonesFresh
<1>7. calib.done => ZonesFresh
  BY <1>1 DEF CalibInv, EndsKnown
<1>8. EndsKnown'
  BY <1>1, <1>5, <1>6, <1>7 DEF CalibInv, EndsKnown
<1>9. CalibratedIsRight'
  BY <1>1, RodFacts DEF CalibInv, CalibratedIsRight, Calib
<1> QED BY <1>3, <1>8, <1>9

\* A supply between the thresholds and no obstacle, over-currents handled before the next edge
\* of the polarity, and windows that hold the ends of the stroke, as the
\* defaults of dev_param.h do.
NormalUse ==
  Prompt /\ ~ Obstacles /\ Volts \subseteq InLimits /\ InZoneMin(0) /\ InZoneMax(Stroke)

\* Bits that come in while sys_sm is busy.
LEMMA CalibScan ==
  ASSUME NormalUse, CalibInv, RodPolarity_Scan
  PROVE  GoodSupply' /\ Decided' /\ EndsKnown' /\ CalibratedIsRight'
<1>1. /\ UNCHANGED <<arb, out, vm, cur, pins, sm, fault_bits, todo, hw_started, volt,
                     calib, req, phys, delta, ticked>>
      /\ mq = <<>> /\ hw_started /\ ~ OverCurrentPending
      /\ sys_evt' \in {sys_evt, sys_evt \cup {"POLARITY_CHG"}}
      /\ UNCHANGED mq \/ \E dir \in Dir : mq' = <<RunMsg(dir)>>
  <2>1. SysTypeOK /\ Polarity_Scan
    BY RodFacts DEF CalibInv, SysInv, RodPolarity_Scan
  <2>2. UNCHANGED <<calib, req, phys, delta, ticked>> /\ ~ OverCurrentPending
    BY DEF RodPolarity_Scan, rodVars, NormalUse
  <2>3. hw_started
    BY <2>1 DEF Polarity_Scan
  <2> QED BY <2>1, <2>2, <2>3, ScanStep
<1>2. ~ NewBit /\ ~ TakenBit /\ req = "none" /\ ~ NewBit' /\ ~ TakenBit'
  <2>1. ~ NewBit /\ ~ TakenBit /\ req = "none"
    BY <1>1 DEF OverCurrentPending, NewBit, TakenBit, Pending
  <2> QED BY <1>1, <2>1 DEF NewBit, TakenBit, Pending
<1>3. GoodSupply'
  <2>1. \A i \in DOMAIN todo : QuietElement(todo[i])' <=> QuietElement(todo[i])
    BY <1>1 DEF QuietElement
  <2>2. mq' = <<>> \/ Head(mq').axis = MainAxis
    <3>1. ASSUME NEW dir \in Dir, mq' = <<RunMsg(dir)>> PROVE Head(mq').axis = MainAxis
      <4>1. RunMsg(dir).axis = MainAxis
        BY DEF RunMsg, Cmd
      <4>2. ASSUME NEW r PROVE Head(<<r>>) = r
        OBVIOUS
      <4> QED BY <3>1, <4>1, <4>2
    <3> QED BY <1>1, <3>1
  <2>3. sys_evt' \subseteq QuietBits
    BY <1>1 DEF CalibInv, GoodSupply, QuietBits
  <2> QED BY <1>1, <2>1, <2>2, <2>3 DEF CalibInv, GoodSupply, InitsLead
<1>4. Decided'
  BY <1>1 DEF CalibInv, Decided, Allows, Blocks
<1>5. EndsKnown'
  <2>1. (ZonesFresh' <=> ZonesFresh) /\ (Turning' <=> Turning)
    BY <1>1 DEF ZonesFresh, Turning
  <2> QED BY <1>1, <1>2, <2>1 DEF CalibInv, EndsKnown, AtEnd, Reported
<1>6. CalibratedIsRight'
  BY <1>1 DEF CalibInv, CalibratedIsRight
<1> QED BY <1>3, <1>4, <1>5, <1>6

\* What changes nothing of all this; and the user turns the supply round.
LEMMA CalibKept ==
  ASSUME CalibInv,
         UNCHANGED <<mq, arb, out, vm, cur, pins, sys_evt, sm, fault_bits, todo, hw_started,
                     calib, req, phys, delta, ticked>>,
         volt' \in InLimits
  PROVE  GoodSupply' /\ Decided' /\ EndsKnown' /\ CalibratedIsRight'
<1>1. GoodSupply' /\ Decided' /\ (RunQueued' <=> RunQueued)
  BY SupplyKept DEF CalibInv, GoodSupply
<1>2. EndsKnown'
  <2>1. \A dirs : AtStop(dirs) => AtStop(dirs)'
    BY <1>1 DEF AtStop, AtEnd, Reported
  <2>2. /\ (NewBit' <=> NewBit) /\ (TakenBit' <=> TakenBit) /\ (ZonesFresh' <=> ZonesFresh)
        /\ Turning' <=> Turning
    BY DEF NewBit, TakenBit, Pending, ZonesFresh, Turning
  <2> QED BY <2>1, <2>2 DEF CalibInv, EndsKnown, AtEnd, Reported
<1>3. CalibratedIsRight'
  BY DEF CalibInv, CalibratedIsRight
<1> QED BY <1>1, <1>2, <1>3

LEMMA CalibSupply ==
  ASSUME NormalUse, CalibInv, RodSupply
  PROVE  GoodSupply' /\ Decided' /\ EndsKnown' /\ CalibratedIsRight'
<1>1. volt' \in InLimits
  BY DEF NormalUse, CalibInv, GoodSupply, RodSupply, Supply
<1> QED BY <1>1, CalibKept DEF RodSupply, Supply, arbVars, powerVars, smVars, faultVars, rodVars

\* A good voltage reports nothing; a high current is that of the end of the
\* stroke, reported once.
LEMMA CalibIsr ==
  ASSUME NormalUse, CalibInv, RodPowerIsr
  PROVE  GoodSupply' /\ Decided' /\ EndsKnown' /\ CalibratedIsRight'
<1>1. PICK high \in BOOLEAN :
             /\ high => Stuck /\ AtEnd(out[MainAxis]) /\ mq = <<>>
             /\ ~ high => ~ (Stuck /\ AtEnd(out[MainAxis]))
             /\ Dev_Power_Isr1ms(volt, high)
  BY DEF RodPowerIsr, NormalUse
<1>2. UNCHANGED <<mq, arb, out, pins, sm, fault_bits, todo, hw_started, volt, calib, req, phys, delta, ticked>>
  BY <1>1 DEF RodPowerIsr, Dev_Power_Isr1ms, arbVars, smVars, faultVars, envVars, rodVars
<1>3. hw_started /\ volt \in InLimits /\ vm.fault = 0 /\ ~ vm.waiting /\ vm \in VoltData /\ cur \in CurData
  BY RodFacts DEF RodPowerIsr, CalibInv, GoodSupply
<1>4. vm'.fault = 0 /\ ~ vm'.waiting /\ VoltEvents(vm, vm') = {}
  <2>1. vm' = BusVoltage_Isr1ms(vm, volt)
    BY <1>1, <1>3 DEF Dev_Power_Isr1ms
  <2>2. vm'.fault = 0 /\ vm'.waiting = vm.waiting
    BY <1>3, <2>1 DEF BusVoltage_Isr1ms, VoltDetect, VoltData, InLimits
  <2> QED BY <1>3, <2>2 DEF VoltEvents
<1>5. /\ cur' = CurrentSensor_Isr1ms(cur, high)
      /\ sys_evt' = sys_evt \cup CurEvents(cur, cur')
  BY <1>1, <1>4 DEF Dev_Power_Isr1ms
<1>6. Reported /\ high => Reported' /\ CurEvents(cur, cur') = {}
  <2>1. ASSUME Reported, high PROVE cur'.status /\ cur'.block = 0 /\ cur'.over = WindowMs
    BY <1>3, <1>5, <2>1, PowerConstants DEF Reported, CurrentSensor_Isr1ms, CurData
  <2> QED BY <2>1 DEF Reported, CurEvents
<1>7. CurEvents(cur, cur') # {} => high /\ Reported'
  <2>1. ASSUME ~ cur.status, cur'.status PROVE high /\ cur'.block = 0 /\ cur'.over = WindowMs
    BY <1>3, <1>5, <2>1, PowerConstants DEF CurrentSensor_Isr1ms, CurData
  <2> QED BY <2>1 DEF Reported, CurEvents
<1>8. sys_evt' = sys_evt \/ sys_evt' = sys_evt \cup {"OVER_CURRENT"}
  BY <1>5 DEF CurEvents
<1>9. GoodSupply'
  <2>1. \A i \in DOMAIN todo : QuietElement(todo[i])' <=> QuietElement(todo[i])
    BY <1>2 DEF QuietElement
  <2>2. sys_evt' \subseteq QuietBits
    BY <1>8 DEF CalibInv, GoodSupply, QuietBits
  <2> QED BY <1>2, <1>3, <1>4, <2>1, <2>2 DEF CalibInv, GoodSupply, InitsLead
<1>10. Decided'
  BY <1>2 DEF CalibInv, Decided, Allows, Blocks
<1>11. /\ (TakenBit' <=> TakenBit) /\ (ZonesFresh' <=> ZonesFresh) /\ (Turning' <=> Turning)
       /\ (RunQueued' <=> RunQueued)
  BY <1>2 DEF TakenBit, Pending, ZonesFresh, Turning, RunQueued
<1>12. \A dirs : AtStop(dirs) => AtStop(dirs)' /\ (NewBit' <=> NewBit)
  <2> SUFFICES ASSUME NEW dirs, AtStop(dirs) PROVE AtStop(dirs)' /\ (NewBit' <=> NewBit)
    OBVIOUS
  <2>1. CASE out[MainAxis] = "stop"
    <3>1. ~ high
      BY <1>1, <2>1, Directions DEF Stuck, Turning
    <3>2. sys_evt' = sys_evt
      BY <1>5, <1>7, <3>1
    <3> QED BY <1>2, <1>11, <2>1, <3>2 DEF AtStop, NewBit
  <2>2. CASE out[MainAxis] # "stop"
    <3>1. Stuck /\ AtEnd(out[MainAxis]) /\ Reported
      BY <2>2, RodFacts DEF AtStop, Stuck, Turning, CalibInv
    <3>2. high
      BY <1>1, <3>1
    <3>3. Reported' /\ sys_evt' = sys_evt
      BY <1>5, <1>6, <3>1, <3>2
    <3> QED BY <1>2, <1>11, <3>3 DEF AtStop, NewBit, AtEnd
  <2> QED BY <2>1, <2>2
<1>13. ASSUME Turning, ticked, calib.done, ~ ZonesFresh PROVE Reported' /\ (NewBit' <=> NewBit)
  <2>1. AtEnd(out[MainAxis]) /\ delta = 0 /\ Reported
    BY <1>13 DEF CalibInv, EndsKnown
  <2>2. high
    BY <1>1, <1>13, <2>1 DEF Stuck
  <2> QED BY <1>5, <1>6, <2>1, <2>2 DEF NewBit
<1>14. ASSUME NewBit', ~ NewBit
       PROVE  ~ TakenBit /\ req = "none" /\ AtStop(Dir)' /\ (calib.done => ZonesFresh)
  <2>1. ~ TakenBit /\ req = "none"
    BY <1>12, <1>14, RodFacts DEF CalibInv, EndsKnown, CalibReq
  <2>2. high /\ Reported'
    BY <1>5, <1>7, <1>14 DEF NewBit
  <2>3. Turning /\ ticked /\ delta = 0 /\ AtEnd(out[MainAxis]) /\ mq = <<>>
    BY <1>1, <2>2 DEF Stuck
  <2>4. ~ RunQueued
    <3>1. ASSUME NEW r, <<>> = <<r>> PROVE FALSE
      BY <3>1
    <3> QED BY <2>3, <3>1 DEF RunQueued
  <2>5. AtStop(Dir)'
    BY <1>2, <1>11, <2>2, <2>3, <2>4 DEF AtStop, AtEnd, Turning
  <2> QED BY <1>13, <1>14, <2>1, <2>3, <2>5
<1>15. EndsKnown'
  <2>1. ~ (NewBit' /\ TakenBit')
    BY <1>11, <1>14 DEF CalibInv, EndsKnown
  <2>2. \A i, j \in DOMAIN todo' : todo'[i] = Bit("OVER_CURRENT") /\ todo'[j] = todo'[i] => i = j
    BY <1>2 DEF CalibInv, EndsKnown
  <2>3. NewBit' \/ TakenBit' => req' = "none" /\ AtStop(Dir)' /\ (Turning' /\ calib'.done => ZonesFresh')
    BY <1>2, <1>11, <1>12, <1>14 DEF CalibInv, EndsKnown
  <2>4. /\ req' = "max" => phys' = Stroke /\ AtStop({"fwd"})'
        /\ req' = "min" => phys' = 0 /\ AtStop({"rev"})'
    BY <1>2, <1>12 DEF CalibInv, EndsKnown
  <2>5. Turning' /\ ticked' /\ calib'.done /\ ~ ZonesFresh' =>
          AtEnd(out[MainAxis])' /\ delta' = 0 /\ Reported'
    BY <1>2, <1>11, <1>13 DEF CalibInv, EndsKnown, AtEnd
  <2> QED BY <2>1, <2>2, <2>3, <2>4, <2>5 DEF EndsKnown
<1>16. CalibratedIsRight'
  BY <1>2 DEF CalibInv, CalibratedIsRight
<1> QED BY <1>9, <1>10, <1>15, <1>16

\* sys_sm: what it puts before the rest of what it has to do.
QuietOps(ops) == \A i \in DOMAIN ops : QuietElement(ops[i]) /\ ops[i].do # "bit"
TakenOnce == \A i, j \in DOMAIN todo : todo[i] = Bit("OVER_CURRENT") /\ todo[j] = todo[i] => i = j
QuietTodo == (\A i \in DOMAIN todo : QuietElement(todo[i])) /\ InitsLead(todo)

LEMMA ThenQuiet ==
  ASSUME TodoOK, todo # <<>>, NEW ops \in Seq(Element), Then(ops),
         UNCHANGED hw_started \/ Head(todo).do = "start", sm' = "INIT" => sm = "INIT",
         QuietTodo, TakenOnce, QuietOps(ops)',
         ops = <<>> \/ (Head(todo).do \in {"bit", "event"} /\ InitsLead(ops))
  PROVE  /\ QuietTodo' /\ TakenOnce'
         /\ TakenBit' => TakenBit /\ Head(todo) # Bit("OVER_CURRENT")
<1>1. /\ todo \in Seq(Element) /\ Len(todo) \in Nat /\ DOMAIN todo = 1 .. Len(todo)
      /\ 1 \in DOMAIN todo /\ Head(todo) = todo[1]
  BY FirstIsHead
<1>2. \A i \in DOMAIN todo' :
        \/ i \in DOMAIN ops /\ todo'[i] = ops[i]
        \/ /\ i - Len(ops) + 1 \in DOMAIN todo /\ i - Len(ops) + 1 > 1
           /\ todo'[i] = todo[i - Len(ops) + 1]
  BY <1>1, ThenMoves
<1>3. DOMAIN ops = 1 .. Len(ops) /\ Len(ops) \in Nat
  BY LenProperties
<1>4. \A i \in DOMAIN todo' : i \in Int
  <2>1. todo' \in Seq(Element)
    BY <1>1, HeadTailProperties, ConcatProperties DEF Then
  <2> QED BY <2>1, LenProperties
<1>5. \A x : QuietElement(x) /\ (x.do = "init" => hw_started' = hw_started) => QuietElement(x)'
  <2> SUFFICES ASSUME NEW x, QuietElement(x), x.do = "init" => hw_started' = hw_started
               PROVE  QuietElement(x)'
    OBVIOUS
  <2>1. CASE hw_started' = hw_started
    BY <2>1 DEF QuietElement
  <2>2. CASE x.do # "init"
    BY <2>2 DEF QuietElement
  <2> QED BY <2>1, <2>2
<1>6. ASSUME NEW i \in DOMAIN todo' PROVE QuietElement(todo[i])'
  <2>1. CASE i \in DOMAIN ops /\ todo'[i] = ops[i]
    BY <2>1 DEF QuietOps
  <2>2. CASE i - Len(ops) + 1 \in DOMAIN todo /\ i - Len(ops) + 1 > 1 /\ todo'[i] = todo[i - Len(ops) + 1]
    <3>1. PICK k \in DOMAIN todo : k > 1 /\ todo'[i] = todo[k]
      BY <2>2
    <3>2. PICK x : x = todo[k]
      OBVIOUS
    <3>5. x.do = "init" => hw_started' = hw_started
      <4>1. 1 < k
        BY <1>1, <3>1
      <4> QED BY <1>1, <3>2, <4>1 DEF QuietTodo, InitsLead
    <3>3. QuietElement(x)'
      BY <1>5, <3>1, <3>2, <3>5 DEF QuietTodo
    <3>4. todo'[i] = x
      BY <3>1, <3>2
    <3> QED BY <3>3, <3>4
  <2> QED BY <1>2, <2>1, <2>2
<1>7. InitsLead(todo)'
  <2> SUFFICES ASSUME NEW i \in DOMAIN todo', NEW j \in DOMAIN todo', i < j, todo'[j].do = "init"
               PROVE  todo'[i].do = "init"
    BY DEF InitsLead
  <2>1. CASE ops = <<>>
    <3>1. DOMAIN ops = {} /\ Len(ops) = 0
      BY <2>1, ShortOps
    <3>2. i + 1 \in DOMAIN todo /\ j + 1 \in DOMAIN todo /\ todo'[i] = todo[i + 1] /\ todo'[j] = todo[j + 1]
      BY <1>2, <1>4, <3>1
    <3>3. i + 1 < j + 1
      BY <1>4
    <3> QED BY <3>2, <3>3 DEF QuietTodo, InitsLead
  <2>2. CASE Head(todo).do \in {"bit", "event"} /\ InitsLead(ops)
    <3>1. \A k \in DOMAIN todo : todo[k].do # "init"
      BY <2>2, BehindEvent
    <3>2. j \in DOMAIN ops /\ todo'[j] = ops[j]
      BY <1>2, <3>1
    <3>3. i \in DOMAIN ops /\ todo'[i] = ops[i]
      BY <1>2, <1>3, <1>4, <3>2
    <3> QED BY <2>2, <3>2, <3>3 DEF InitsLead
  <2> QED BY <2>1, <2>2
<1>8. ASSUME NEW i \in DOMAIN todo', todo'[i] = Bit("OVER_CURRENT")
      PROVE  /\ i - Len(ops) + 1 \in DOMAIN todo /\ i - Len(ops) + 1 > 1
             /\ todo[i - Len(ops) + 1] = Bit("OVER_CURRENT")
  <2>1. ~ (i \in DOMAIN ops /\ todo'[i] = ops[i])
    BY <1>8, KindsOfElements DEF QuietOps
  <2> QED BY <1>2, <1>8, <2>1
<1>9. TakenOnce'
  <2> SUFFICES ASSUME NEW i \in DOMAIN todo', NEW j \in DOMAIN todo',
                      todo'[i] = Bit("OVER_CURRENT"), todo'[j] = todo'[i]
               PROVE  i = j
    BY DEF TakenOnce
  <2>1. i - Len(ops) + 1 = j - Len(ops) + 1
    BY <1>8 DEF TakenOnce
  <2> QED BY <1>3, <1>4, <2>1
<1>10. ASSUME TakenBit' PROVE TakenBit /\ Head(todo) # Bit("OVER_CURRENT")
  <2>1. PICK i \in DOMAIN todo' : todo'[i] = Bit("OVER_CURRENT")
    BY <1>10 DEF TakenBit, Pending
  <2>2. PICK k \in DOMAIN todo : k > 1 /\ todo[k] = Bit("OVER_CURRENT")
    BY <1>8, <2>1
  <2>3. k # 1
    BY <1>1, <2>2
  <2> QED BY <1>1, <2>2, <2>3 DEF TakenBit, Pending, TakenOnce
<1> QED BY <1>6, <1>7, <1>9, <1>10 DEF QuietTodo

\* A step of sys_sm that leaves the rod and the output alone.
LEMMA CalibSmRest ==
  ASSUME CalibInv,
         UNCHANGED <<out, sys_evt, volt, fault_bits, calib, phys, ticked, req, delta>>,
         vm'.fault = 0 /\ ~ vm'.waiting,
         sm' \in {"INIT", "IDLE", "RUN"}, sm' = "INIT" => ~ hw_started', hw_started => hw_started',
         mq' = <<>> \/ Head(mq').axis = MainAxis, ~ RunQueued',
         cur' = cur \/ out[MainAxis] = "stop",
         QuietTodo', TakenOnce', TakenBit' => TakenBit
  PROVE  GoodSupply' /\ EndsKnown' /\ CalibratedIsRight'
<1>1. GoodSupply'
  BY DEF CalibInv, GoodSupply, QuietTodo
<1>2. \A dirs : AtStop(dirs) => AtStop(dirs)'
  BY DEF AtStop, AtEnd, Reported
<1>3. (NewBit' <=> NewBit) /\ (ZonesFresh' <=> ZonesFresh) /\ (Turning' <=> Turning)
  BY DEF NewBit, ZonesFresh, Turning
<1>4. Turning => cur' = cur
  BY Directions DEF Turning
<1>5. EndsKnown'
  BY <1>2, <1>3, <1>4 DEF CalibInv, EndsKnown, AtEnd, Reported, TakenOnce
<1>6. CalibratedIsRight'
  BY DEF CalibInv, CalibratedIsRight
<1> QED BY <1>1, <1>5, <1>6

\* Sys_State_Dispatch tests a bit once.
LEMMA BitOnce == ~ TestedBefore("OVER_CURRENT", "OVER_CURRENT")
BY DEF TestedBefore, BitOrder

\* A bit that was new is now taken, once.
LEMMA CalibTake ==
  ASSUME CalibInv, RodSysSm, sys_sm_thread_entry
  PROVE  GoodSupply' /\ Decided' /\ EndsKnown' /\ CalibratedIsRight'
<1>1. /\ UNCHANGED <<mq, arb, out, vm, cur, pins, sm, fault_bits, hw_started, volt>>
      /\ mq = <<>> /\ todo = <<>> /\ sys_evt' = {}
  BY DEF sys_sm_thread_entry, arbVars, smVars, faultVars, envVars
<1>2. UNCHANGED <<calib, phys, ticked, req, delta>>
  BY <1>1 DEF RodSysSm, RodCalib_OnOverCurrent, Handles, InitActAndHall
<1>3. TodoOK /\ Obeyed /\ sys_evt \subseteq EventBit
  BY RodFacts DEF CalibInv, SysInv, SysTypeOK
<1>4. \A i \in DOMAIN todo' : todo'[i].do = "bit" /\ todo'[i].evt \in sys_evt /\ todo'[i] = Bit(todo'[i].evt)
  BY <1>3, TakeStep
<1>5. QuietTodo'
  BY <1>4 DEF CalibInv, GoodSupply, QuietTodo, QuietElement, InitsLead
<1>6. TakenOnce'
  <2>1. PICK bits \in [1 .. Cardinality(sys_evt) -> sys_evt] :
               /\ \A i, j \in DOMAIN bits : i < j => TestedBefore(bits[i], bits[j])
               /\ todo' = [i \in DOMAIN bits |-> Bit(bits[i])]
    BY DEF sys_sm_thread_entry
  <2>2. Cardinality(sys_evt) \in Nat
    BY <1>3, FewBits
  <2>3. \A i \in DOMAIN todo' : todo'[i] = Bit("OVER_CURRENT") => i \in DOMAIN bits /\ bits[i] = "OVER_CURRENT"
    BY <2>1, KindsOfElements
  <2>4. \A i, j \in DOMAIN bits : i < j \/ j < i \/ i = j
    BY <2>1, <2>2
  <2> QED BY <2>1, <2>3, <2>4, BitOnce DEF TakenOnce
<1>7. TakenBit' => NewBit
  BY <1>4, KindsOfElements DEF TakenBit, Pending, NewBit
<1>8. ~ RunQueued'
  <2>1. ASSUME NEW r, <<>> = <<r>> PROVE FALSE
    BY <2>1
  <2> QED BY <1>1, <2>1 DEF RunQueued
<1>9. GoodSupply'
  BY <1>1, <1>2, <1>5, <1>8 DEF CalibInv, GoodSupply, QuietTodo
<1>10. Decided'
  BY <1>1 DEF CalibInv, Decided, Allows, Blocks
<1>11. EndsKnown'
  <2>1. \A dirs : AtStop(dirs) => AtStop(dirs)'
    BY <1>1, <1>2, <1>8 DEF AtStop, AtEnd, Reported
  <2>2. (ZonesFresh' <=> ZonesFresh) /\ (Turning' <=> Turning) /\ ~ NewBit'
    BY <1>1, <1>2 DEF ZonesFresh, Turning, NewBit
  <2> QED BY <1>1, <1>2, <1>6, <1>7, <2>1, <2>2 DEF CalibInv, EndsKnown, AtEnd, Reported, TakenOnce
<1>12. CalibratedIsRight'
  BY <1>2 DEF CalibInv, CalibratedIsRight
<1> QED BY <1>9, <1>10, <1>11, <1>12

\* What a quiet head can be.
LEMMA QuietHead ==
  ASSUME CalibInv, todo # <<>>
  PROVE  /\ Head(todo).do \in {"bit", "event", "post", "init", "start"}
         /\ Head(todo).do = "bit" => Head(todo).evt \in QuietBits /\ Head(todo) = Bit(Head(todo).evt)
         /\ Head(todo).do = "event" => Head(todo).evt \in {"INIT_DONE", "CMD_WORK_ENABLE"}
         /\ Head(todo).do = "post" => \E dir \in Dir : Head(todo) = Post(ClearMsg(dir), TRUE)
         /\ Head(todo).do = "init" => ~ hw_started /\ sm # "INIT"
         /\ Head(todo).do = "start" => sm # "INIT"
         /\ QuietTodo /\ TakenOnce
<1>1. TodoOK
  BY RodFacts DEF CalibInv
<1>2. 1 \in DOMAIN todo /\ Head(todo) = todo[1] /\ Head(todo) \in Element
  BY <1>1, FirstIsHead
<1>3. QuietElement(Head(todo))
  BY <1>2 DEF CalibInv, GoodSupply
<1>4. \A dir : Post(ClearMsg(dir), TRUE).do = "post"
  BY KindsOfElements
<1>5. Head(todo).do = "bit" => Head(todo) = Bit(Head(todo).evt)
  BY <1>2, ElementKinds
<1>6. QuietTodo /\ TakenOnce
  BY DEF CalibInv, GoodSupply, EndsKnown, QuietTodo, TakenOnce
<1> QED BY <1>3, <1>4, <1>5, <1>6 DEF QuietElement

\* Without an over-current to judge and the arbiter to initialise, sys_sm
\* leaves the rod alone.
LEMMA NoRequest ==
  ASSUME RodSysSm, ~ Handles("OVER_CURRENT"), ~ InitActAndHall
  PROVE  UNCHANGED <<calib, phys, ticked, req, delta>>
BY DEF RodSysSm, RodCalib_OnOverCurrent

\* An empty queue holds no run command.
LEMMA NoneQueued == mq = <<>> => ~ RunQueued
<1>1. ASSUME NEW r, <<>> = <<r>> PROVE FALSE
  BY <1>1
<1> QED BY <1>1 DEF RunQueued

\* An event of the state table.
LEMMA CalibEvent ==
  ASSUME CalibInv, RodSysSm, StateMachine_SendEvent
  PROVE  GoodSupply' /\ Decided' /\ EndsKnown' /\ CalibratedIsRight'
<1>1. TodoOK /\ sm \in State /\ sm \in {"INIT", "IDLE", "RUN"} /\ (sm = "INIT" => ~ hw_started)
  BY RodFacts DEF CalibInv, GoodSupply
<1>2. /\ todo # <<>> /\ mq = <<>> /\ Head(todo).do = "event"
      /\ UNCHANGED <<mq, arb, out, vm, cur, pins, sys_evt, fault_bits, hw_started, volt>>
  BY DEF StateMachine_SendEvent, Do, arbVars, powerVars, faultVars, envVars
<1>3. Head(todo).evt \in {"INIT_DONE", "CMD_WORK_ENABLE"} /\ QuietTodo /\ TakenOnce
  BY <1>2, QuietHead
<1>4. UNCHANGED <<calib, phys, ticked, req, delta>>
  <2>1. ~ Handles("OVER_CURRENT") /\ ~ InitActAndHall
    BY <1>2, KindsOfElements DEF Handles, InitActAndHall
  <2> QED BY <2>1, NoRequest
<1>5. PICK ops \in Seq(Element) :
             /\ Then(ops) /\ sm' \in {"IDLE", "RUN", sm}
             /\ ops = <<>> \/ (ops = sys_enter_idle /\ sm = "INIT" /\ sm' = "IDLE")
  <2>1. \/ Then(<<>>) /\ sm' \in {"RUN", sm}
        \/ Then(sys_enter_idle) /\ sm = "INIT" /\ sm' = "IDLE"
    BY <1>1, <1>3, EventCases DEF FaultEvents
  <2> QED BY <2>1, ShortOps, IdleOpsOK
<1>6. sm' \in {"INIT", "IDLE", "RUN"} /\ (sm' = "INIT" => sm = "INIT")
  BY <1>1, <1>5
<1>7. QuietOps(ops)' /\ InitsLead(ops)
  <2>1. CASE ops = <<>>
    <3>1. DOMAIN ops = {}
      BY <2>1, ShortOps
    <3> QED BY <3>1 DEF QuietOps, InitsLead
  <2>2. CASE ops = sys_enter_idle /\ sm = "INIT" /\ sm' = "IDLE"
    <3>1. /\ DOMAIN ops = 1 .. 5 /\ ops[5].do = "start"
          /\ \A i \in 1 .. 4 : ops[i].do = "init"
      <4>1. /\ DOMAIN ops = 1 .. 5 /\ ops[5] = StartHw
            /\ ops[1] = Init("cur") /\ ops[2] = Init("vm") /\ ops[3] = Init("pol") /\ ops[4] = Init("act")
        BY <2>2, IdleOpsOK
      <4>2. ops[5].do = "start" /\ ops[1].do = "init" /\ ops[2].do = "init" /\ ops[3].do = "init" /\ ops[4].do = "init"
        BY <4>1, KindsOfElements
      <4>3. \A i \in 1 .. 4 : i = 1 \/ i = 2 \/ i = 3 \/ i = 4
        OBVIOUS
      <4> QED BY <4>1, <4>2, <4>3
    <3>2. InitsLead(ops)
      BY <3>1 DEF InitsLead
    <3>3. ~ hw_started' /\ sm' # "INIT"
      BY <1>1, <1>2, <2>2
    <3>4. \A i \in DOMAIN ops : ops[i].do \in {"init", "start"}
      BY <3>1
    <3>5. QuietOps(ops)'
      BY <3>3, <3>4 DEF QuietOps, QuietElement
    <3> QED BY <3>2, <3>5
  <2> QED BY <1>5, <2>1, <2>2
<1>8. QuietTodo' /\ TakenOnce' /\ (TakenBit' => TakenBit)
  <2>1. hw_started' = hw_started
    BY <1>2
  <2>2. ops = <<>> \/ (Head(todo).do \in {"bit", "event"} /\ InitsLead(ops))
    BY <1>2, <1>7
  <2> QED BY <1>1, <1>2, <1>3, <1>5, <1>6, <1>7, <2>1, <2>2, ThenQuiet
<1>9. ~ RunQueued'
  BY <1>2, NoneQueued DEF RunQueued
<1>10. vm'.fault = 0 /\ ~ vm'.waiting
  BY <1>2 DEF CalibInv, GoodSupply
<1>11. (sm' = "INIT" => ~ hw_started') /\ (hw_started => hw_started')
  BY <1>1, <1>2, <1>6
<1>12. GoodSupply' /\ EndsKnown' /\ CalibratedIsRight'
  BY <1>2, <1>4, <1>6, <1>8, <1>9, <1>10, <1>11, CalibSmRest
<1>13. Decided'
  BY <1>2 DEF CalibInv, Decided, Allows, Blocks
<1> QED BY <1>12, <1>13

\* A bit that is handed on, or that means nothing.
LEMMA CalibBitRest ==
  ASSUME CalibInv, RodSysSm, todo # <<>>, Head(todo).do = "bit", mq = <<>>,
         UNCHANGED <<mq, arb, out, vm, cur, pins, sys_evt, sm, hw_started, volt, fault_bits, req>>,
         NEW ops \in Seq(Element), Then(ops),
         ops = <<>> \/ \E e \in {"INIT_DONE", "CMD_WORK_ENABLE"} : ops = <<Send(e)>>
  PROVE  GoodSupply' /\ Decided' /\ EndsKnown' /\ CalibratedIsRight'
<1>1. TodoOK /\ sm \in {"INIT", "IDLE", "RUN"} /\ (sm = "INIT" => ~ hw_started)
  BY RodFacts DEF CalibInv, GoodSupply
<1>2. QuietTodo /\ TakenOnce
  BY QuietHead
<1>3. UNCHANGED <<calib, phys, ticked, delta>>
  <2>1. ~ InitActAndHall
    BY KindsOfElements DEF InitActAndHall
  <2> QED BY <2>1 DEF RodSysSm
<1>4. QuietOps(ops)' /\ InitsLead(ops)
  <2>1. CASE ops = <<>>
    <3>1. DOMAIN ops = {}
      BY <2>1, ShortOps
    <3> QED BY <3>1 DEF QuietOps, InitsLead
  <2>2. ASSUME NEW e \in {"INIT_DONE", "CMD_WORK_ENABLE"}, ops = <<Send(e)>>
        PROVE  QuietOps(ops)' /\ InitsLead(ops)
    <3>1. DOMAIN ops = {1} /\ ops[1] = Send(e)
      BY <2>2
    <3>2. ops[1].do = "event" /\ ops[1].evt = e
      BY <3>1, KindsOfElements
    <3> QED BY <3>1, <3>2 DEF QuietOps, InitsLead, QuietElement
  <2> QED BY <2>1, <2>2
<1>5. QuietTodo' /\ TakenOnce' /\ (TakenBit' => TakenBit)
  <2>1. hw_started' = hw_started /\ (sm' = "INIT" => sm = "INIT")
    OBVIOUS
  <2>2. ops = <<>> \/ (Head(todo).do \in {"bit", "event"} /\ InitsLead(ops))
    BY <1>4
  <2> QED BY <1>1, <1>2, <1>4, <2>1, <2>2, ThenQuiet
<1>6. ~ RunQueued'
  BY NoneQueued DEF RunQueued
<1>7. vm'.fault = 0 /\ ~ vm'.waiting
  BY DEF CalibInv, GoodSupply
<1>8. sm' \in {"INIT", "IDLE", "RUN"} /\ (sm' = "INIT" => ~ hw_started') /\ (hw_started => hw_started')
  BY <1>1
<1>9. GoodSupply' /\ EndsKnown' /\ CalibratedIsRight'
  BY <1>3, <1>5, <1>6, <1>7, <1>8, CalibSmRest
<1>10. Decided'
  BY DEF CalibInv, Decided, Allows, Blocks
<1> QED BY <1>9, <1>10

\* An over-current of a motor that turns: the rod is at the end of the stroke
\* and its position says so.
LEMMA CalibEnd ==
  ASSUME NormalUse, CalibInv, RodSysSm, OnOverCurrent,
         arb[MainAxis].enable, arb[MainAxis].active_dir \in Dir
  PROVE  GoodSupply' /\ Decided' /\ EndsKnown' /\ CalibratedIsRight'
<1> DEFINE dir == arb[MainAxis].active_dir
           op == Post(ClearMsg(dir), TRUE)
<1>1. /\ todo # <<>> /\ mq = <<>> /\ Head(todo).do = "bit" /\ Head(todo).evt = "OVER_CURRENT"
      /\ UNCHANGED <<mq, arb, out, vm, cur, pins, sys_evt, sm, hw_started, volt>>
  BY DEF OnOverCurrent, Do, arbVars, powerVars, smVars, envVars
<1>2. Head(todo) = Bit("OVER_CURRENT") /\ QuietTodo /\ TakenOnce
  BY <1>1, QuietHead
<1>3. /\ TodoOK /\ sm \in {"INIT", "IDLE", "RUN"} /\ 1 \in DOMAIN todo /\ Head(todo) = todo[1]
      /\ calib \in Calib /\ phys \in 0 .. Stroke /\ Stroke \in Nat
  <2>1. TodoOK /\ calib \in Calib /\ phys \in 0 .. Stroke
    BY RodFacts DEF CalibInv
  <2> QED BY <1>1, <2>1, FirstIsHead, RodConstants DEF CalibInv, GoodSupply
<1>4. out[MainAxis] = dir
  BY SysConstants DEF CalibInv, RodInv, SysInv, ArbInv, ActiveIsJustified
<1>5. TakenBit
  BY <1>2, <1>3 DEF TakenBit, Pending
<1>6. /\ ~ NewBit /\ delta = 0 /\ AtEnd(dir) /\ ticked /\ Reported /\ Turning
      /\ calib.done => ZonesFresh
  BY <1>4, <1>5, Directions DEF CalibInv, EndsKnown, AtStop, Turning
<1>7. SoftLimit(dir)
  <2>1. CASE ~ calib.done
    BY <2>1 DEF SoftLimit
  <2>2. CASE calib.done
    <3>1. calib.pos = phys
      BY <1>3, <1>6, <2>2 DEF CalibInv, CalibratedIsRight, Calib
    <3>2. CASE dir = "fwd"
      <4>1. calib.pos = Stroke /\ calib.max = InZoneMax(calib.pos)
        BY <1>6, <2>2, <3>1, <3>2 DEF AtEnd, ZonesFresh
      <4>2. calib.max
        BY <4>1 DEF NormalUse
      <4> QED BY <3>2, <4>2 DEF SoftLimit
    <3>3. CASE dir # "fwd"
      <4>1. calib.pos = 0 /\ calib.min = InZoneMin(calib.pos)
        BY <1>6, <2>2, <3>1, <3>3 DEF AtEnd, ZonesFresh
      <4>2. calib.min
        BY <4>1 DEF NormalUse
      <4> QED BY <3>3, <4>2 DEF SoftLimit
    <3> QED BY <3>2, <3>3
  <2> QED BY <2>1, <2>2
<1>8. Handles("OVER_CURRENT") /\ ~ InitActAndHall
  BY <1>1, KindsOfElements DEF Handles, InitActAndHall
<1>9. /\ todo'[1].do = "post" /\ req' = IF dir = "fwd" THEN "max" ELSE "min"
      /\ UNCHANGED <<calib, phys, ticked, delta>>
  BY <1>7, <1>8 DEF RodSysSm, RodCalib_OnOverCurrent
<1>10. op \in Element /\ op.do = "post"
  <2>1. ClearMsg(dir) \in Msg
    BY MsgOK
  <2> QED BY <2>1, KindsOfElements
<1>11. Then(<<op>>) /\ UNCHANGED fault_bits
  <2>1. \/ Then(<<op>>) /\ UNCHANGED fault_bits
        \/ Then(<<Send("OVER_CURRENT")>>)
    BY DEF OnOverCurrent, faultVars
  <2>2. ASSUME Then(<<Send("OVER_CURRENT")>>) PROVE FALSE
    <3> DEFINE x == Send("OVER_CURRENT")
    <3>1. x \in Element /\ x.do = "event"
      <4>1. "OVER_CURRENT" \in EventBit
        BY Bits
      <4> QED BY <4>1, KindsOfElements
    <3> HIDE DEF x
    <3>2. todo' = <<x>> \o Tail(todo) /\ Tail(todo) \in Seq(Element)
      BY <1>1, <1>3, <2>2, FirstIsHead, HeadTailProperties DEF Then, x
    <3>3. todo'[1] = x
      BY <3>1, <3>2
    <3> QED BY <1>9, <3>1, <3>3
  <2> QED BY <2>1, <2>2
<1>12. PICK ops \in Seq(Element) : Then(ops) /\ QuietOps(ops)' /\ InitsLead(ops)
  <2>1. PICK z \in Dir : z = dir
    OBVIOUS
  <2>2. PICK o : o = Post(ClearMsg(z), TRUE)
    OBVIOUS
  <2>3. o.do = "post" /\ o \in Element /\ Then(<<o>>)
    BY <1>10, <1>11, <2>1, <2>2
  <2>4. QuietElement(o)'
    BY <2>2 DEF QuietElement
  <2>5. DOMAIN <<o>> = {1} /\ <<o>>[1] = o /\ <<o>> \in Seq(Element)
    BY <2>3
  <2>6. InitsLead(<<o>>) /\ QuietOps(<<o>>)'
    BY <2>3, <2>4, <2>5 DEF InitsLead, QuietOps
  <2> QED BY <2>3, <2>5, <2>6
<1>13. QuietTodo' /\ TakenOnce' /\ ~ TakenBit'
  <2>1. hw_started' = hw_started /\ (sm' = "INIT" => sm = "INIT")
    BY <1>1
  <2>2. ops = <<>> \/ (Head(todo).do \in {"bit", "event"} /\ InitsLead(ops))
    BY <1>1, <1>12
  <2> QED BY <1>1, <1>2, <1>3, <1>12, <2>1, <2>2, ThenQuiet
<1>14. ~ RunQueued'
  BY <1>1, NoneQueued DEF RunQueued
<1>15. GoodSupply'
  <2>1. mq' = <<>> /\ volt' \in InLimits /\ vm'.fault = 0 /\ ~ vm'.waiting /\ fault_bits' = {}
    BY <1>1, <1>11 DEF CalibInv, GoodSupply
  <2>2. sys_evt' \subseteq QuietBits /\ sm' \in {"INIT", "IDLE", "RUN"} /\ (sm' = "INIT" => ~ hw_started')
    BY <1>1 DEF CalibInv, GoodSupply
  <2>3. hw_started
    BY <1>4, Directions DEF CalibInv, GoodSupply
  <2>4. hw_started'
    BY <1>1, <2>3
  <2> QED BY <1>13, <2>1, <2>2, <2>4 DEF GoodSupply, QuietTodo
<1>16. Decided'
  BY <1>1 DEF CalibInv, Decided, Allows, Blocks
<1>17. EndsKnown'
  <2>1. ~ NewBit' /\ ~ TakenBit'
    BY <1>1, <1>6, <1>13 DEF NewBit
  <2>2. out'[MainAxis] = dir /\ delta' = 0 /\ ticked' /\ Reported' /\ phys' = phys
    BY <1>1, <1>4, <1>6, <1>9 DEF Reported
  <2>3. dir = "fwd" => phys' = Stroke /\ AtStop({"fwd"})' /\ req' = "max"
    BY <1>6, <1>9, <1>14, <2>2 DEF AtStop, AtEnd
  <2>4. dir # "fwd" => dir = "rev"
    BY Directions DEF Opposite
  <2>5. dir # "fwd" => phys' = 0 /\ AtStop({"rev"})' /\ req' = "min"
    BY <1>6, <1>9, <1>14, <2>2, <2>4 DEF AtStop, AtEnd
  <2>6. calib'.done => ZonesFresh'
    BY <1>6, <1>9 DEF ZonesFresh
  <2> QED BY <1>13, <2>1, <2>3, <2>5, <2>6 DEF EndsKnown, TakenOnce
<1>18. CalibratedIsRight'
  BY <1>9 DEF CalibInv, CalibratedIsRight
<1> QED BY <1>15, <1>16, <1>17, <1>18

\* Any bit.
LEMMA CalibBit ==
  ASSUME NormalUse, CalibInv, RodSysSm, Sys_State_Dispatch
  PROVE  GoodSupply' /\ Decided' /\ EndsKnown' /\ CalibratedIsRight'
<1>1. TodoOK /\ fault_bits = {}
  BY RodFacts DEF CalibInv, GoodSupply
<1>2. /\ todo # <<>> /\ mq = <<>> /\ Head(todo).do = "bit"
      /\ UNCHANGED <<mq, arb, out, vm, cur, pins, sys_evt, sm, hw_started, volt>>
  BY <1>1, BitLeaves
<1>3. Head(todo).evt \in QuietBits
  BY <1>2, QuietHead
<1>4. \/ OnOverCurrent
      \/ OnPolarityChg
      \/ OnPlainBit
  BY <1>3 DEF Sys_State_Dispatch, OnRodLimitFault, OnVoltFault, OnVoltNormal, OnRecovery, OnRecoverWait, QuietBits
<1>5. ~ InitActAndHall
  BY <1>2, KindsOfElements DEF InitActAndHall
<1>6. CASE OnOverCurrent /\ arb[MainAxis].enable /\ arb[MainAxis].active_dir \in Dir
  BY <1>6, CalibEnd
<1>7. CASE OnOverCurrent /\ ~ (arb[MainAxis].enable /\ arb[MainAxis].active_dir \in Dir)
  <2>1. Then(<<>>) /\ UNCHANGED fault_bits
    BY <1>7 DEF OnOverCurrent, faultVars
  <2>2. req' = req
    BY <1>7 DEF RodSysSm, RodCalib_OnOverCurrent
  <2> QED BY <1>2, <2>1, <2>2, ShortOps, CalibBitRest
<1>8. CASE OnPolarityChg
  <2>1. Then(<<>>) /\ UNCHANGED fault_bits
    BY <1>1, <1>8 DEF OnPolarityChg
  <2>2. ~ Handles("OVER_CURRENT")
    BY <1>8 DEF OnPolarityChg, Handles
  <2>3. req' = req
    BY <1>5, <2>2, NoRequest
  <2> QED BY <1>2, <2>1, <2>3, ShortOps, CalibBitRest
<1>9. CASE OnPlainBit
  <2>1. PICK e : e = Head(todo).evt
    OBVIOUS
  <2>2. Then(<<Send(e)>>) /\ e \in {"INIT_DONE", "CMD_WORK_ENABLE"} /\ UNCHANGED fault_bits
    BY <1>3, <1>9, <2>1 DEF OnPlainBit, faultVars, QuietBits
  <2>3. ~ Handles("OVER_CURRENT")
    BY <2>1, <2>2 DEF Handles
  <2>4. req' = req
    BY <1>5, <2>3, NoRequest
  <2>5. Send(e) \in Element
    <3>1. e \in EventBit
      BY <2>2, Bits
    <3> QED BY <3>1, KindsOfElements
  <2>6. PICK ops \in Seq(Element) : ops = <<Send(e)>>
    BY <2>5, ShortOps
  <2>7. Then(ops)
    BY <2>2, <2>6
  <2> QED BY <1>2, <2>2, <2>4, <2>6, <2>7, CalibBitRest
<1> QED BY <1>4, <1>6, <1>7, <1>8, <1>9

\* sys_sm cuts the power.
LEMMA CalibCut ==
  ASSUME CalibInv, RodSysSm, Sys_State_ArbSendCommand
  PROVE  GoodSupply' /\ Decided' /\ EndsKnown' /\ CalibratedIsRight'
<1>1. /\ TodoOK /\ Obeyed /\ sm \in {"INIT", "IDLE", "RUN"} /\ (sm = "INIT" => ~ hw_started)
      /\ vm.fault = 0 /\ ~ vm.waiting
  BY RodFacts DEF CalibInv, GoodSupply, SysInv
<1>2. /\ todo # <<>> /\ Head(todo).do = "post" /\ Then(<<>>)
      /\ UNCHANGED <<arb, out, vm, cur, pins, sys_evt, sm, fault_bits, hw_started, volt>>
  BY DEF Sys_State_ArbSendCommand, Do, Arb_SendCommand, powerVars, smVars, faultVars, envVars
<1>3. UNCHANGED <<calib, phys, ticked, req, delta>>
  <2>1. ~ Handles("OVER_CURRENT") /\ ~ InitActAndHall
    BY <1>2, KindsOfElements DEF Handles, InitActAndHall
  <2> QED BY <2>1, NoRequest
<1>4. QuietTodo /\ TakenOnce /\ \E dir \in Dir : Head(todo) = Post(ClearMsg(dir), TRUE)
  BY <1>2, QuietHead
<1>5. PICK dir \in Dir : Head(todo) = Post(ClearMsg(dir), TRUE)
  BY <1>4
<1>6. PICK m : m = ClearMsg(dir)
  OBVIOUS
<1>7. mq' = <<m>>
  <2>1. mq' = <<Head(todo).msg>>
    BY <1>1, PostStep
  <2> QED BY <1>5, <1>6, <2>1, KindsOfElements
<1>8. Head(mq') = m
  BY <1>7
<1>9. m.axis = MainAxis /\ \A x \in Dir : m # RunMsg(x)
  BY <1>6 DEF ClearMsg, RunMsg, Cmd
<1>10. ~ RunQueued'
  <2>1. ASSUME NEW r, <<m>> = <<r>> PROVE m = r
    BY <2>1
  <2> QED BY <1>7, <1>9, <2>1 DEF RunQueued
<1>11. QuietTodo' /\ TakenOnce' /\ (TakenBit' => TakenBit)
  <2>1. PICK ops \in Seq(Element) : ops = <<>>
    BY ShortOps
  <2>2. Then(ops) /\ hw_started' = hw_started /\ (sm' = "INIT" => sm = "INIT")
    BY <1>2, <2>1
  <2>3. QuietOps(ops)'
    BY <2>1, ShortOps DEF QuietOps
  <2> QED BY <1>1, <1>2, <1>4, <2>1, <2>2, <2>3, ThenQuiet
<1>12. /\ sm' \in {"INIT", "IDLE", "RUN"} /\ (sm' = "INIT" => ~ hw_started') /\ (hw_started => hw_started')
       /\ vm'.fault = 0 /\ ~ vm'.waiting
  BY <1>1, <1>2
<1>13. Head(mq').axis = MainAxis
  BY <1>8, <1>9
<1>14. GoodSupply' /\ EndsKnown' /\ CalibratedIsRight'
  BY <1>2, <1>3, <1>10, <1>11, <1>12, <1>13, CalibSmRest
<1>15. Decided'
  BY <1>2 DEF CalibInv, Decided, Allows, Blocks
<1> QED BY <1>14, <1>15

\* A module is initialised, while the motor stands, or the hardware starts.
LEMMA CalibBoot ==
  ASSUME CalibInv, RodSysSm, Dev_Registry_InitAll \/ StartHardware
  PROVE  GoodSupply' /\ Decided' /\ EndsKnown' /\ CalibratedIsRight'
<1>1. TodoOK /\ sm \in {"INIT", "IDLE", "RUN"} /\ vm.fault = 0 /\ ~ vm.waiting /\ vm \in VoltData
  BY RodFacts DEF CalibInv, GoodSupply
<1>2. /\ todo # <<>> /\ Head(todo).do \in {"init", "start"} /\ Then(<<>>) /\ mq = <<>>
      /\ UNCHANGED <<mq, out, pins, sys_evt, sm, fault_bits, volt>>
  BY DEF Dev_Registry_InitAll, StartHardware, Do, Arb_Module_Init, arbVars, powerVars, smVars, faultVars, envVars
<1>3. QuietTodo /\ TakenOnce /\ sm # "INIT"
  BY <1>2, QuietHead
<1>4. Head(todo).do = "init" => ~ hw_started /\ out[MainAxis] = "stop" /\ delta = 0
  BY <1>2, QuietHead DEF CalibInv, GoodSupply
<1>5. /\ UNCHANGED <<vm, cur, arb>> \/ Head(todo).do = "init"
      /\ UNCHANGED hw_started \/ (Head(todo).do = "start" /\ hw_started')
      /\ vm' = vm \/ vm' = VoltReset(vm)
      /\ arb' = arb \/ arb' = [a \in Axis |-> EmptyData]
  BY DEF Dev_Registry_InitAll, StartHardware, Do, BusVoltage_Init, Arb_Module_Init, arbVars, powerVars
<1>6. UNCHANGED <<calib, phys, ticked, req, delta>>
  <2>1. ~ Handles("OVER_CURRENT")
    BY <1>2 DEF Handles
  <2>2. InitActAndHall => Head(todo).do = "init"
    BY KindsOfElements DEF InitActAndHall
  <2>3. UNCHANGED <<calib, phys, ticked, req>> /\ delta' \in {delta, IF InitActAndHall THEN 0 ELSE delta}
    BY <2>1 DEF RodSysSm, RodCalib_OnOverCurrent
  <2> QED BY <1>4, <2>2, <2>3
<1>7. QuietTodo' /\ TakenOnce' /\ (TakenBit' => TakenBit)
  <2>1. PICK ops \in Seq(Element) : ops = <<>>
    BY ShortOps
  <2>2. Then(ops) /\ (UNCHANGED hw_started \/ Head(todo).do = "start") /\ (sm' = "INIT" => sm = "INIT")
    BY <1>2, <1>5, <2>1
  <2>3. QuietOps(ops)'
    BY <2>1, ShortOps DEF QuietOps
  <2> QED BY <1>1, <1>2, <1>3, <2>1, <2>2, <2>3, ThenQuiet
<1>8. ~ RunQueued'
  BY <1>2, NoneQueued DEF RunQueued
<1>9. vm'.fault = 0 /\ ~ vm'.waiting
  <2>1. VoltReset(vm).fault = 0 /\ ~ VoltReset(vm).waiting
    BY DEF VoltReset
  <2> QED BY <1>1, <1>5, <2>1
<1>10. sm' \in {"INIT", "IDLE", "RUN"} /\ sm' # "INIT" /\ (hw_started => hw_started')
  BY <1>1, <1>2, <1>3, <1>5
<1>11. cur' = cur \/ out[MainAxis] = "stop"
  BY <1>4, <1>5
<1>12. GoodSupply' /\ EndsKnown' /\ CalibratedIsRight'
  BY <1>2, <1>6, <1>7, <1>8, <1>9, <1>10, <1>11, CalibSmRest
<1>13. Decided'
  <2>1. CASE arb' = arb
    BY <1>2, <2>1 DEF CalibInv, Decided, Allows, Blocks
  <2>2. CASE arb' = [a \in Axis |-> EmptyData] /\ arb' # arb
    <3>1. out'[MainAxis] = "stop" /\ pins' = Physical(out'[MainAxis])
      BY <1>2, <1>4, <1>5, <2>2 DEF CalibInv, Decided
    <3>2. arb'[MainAxis] = EmptyData
      BY <2>2, SysConstants
    <3>3. arb'[MainAxis].enable /\ \A x \in Dir : Allows(x)' = <<>> /\ out'[MainAxis] # x
      BY <3>1, <3>2, Directions DEF EmptyData, Allows
    <3> QED BY <3>1, <3>3 DEF Decided
  <2> QED BY <1>5, <2>1, <2>2
<1> QED BY <1>12, <1>13

\* Every step, with a good supply and no obstacle.
LEMMA CalibStep == NormalUse /\ CalibInv /\ [RodNext]_rodAllVars => CalibInv'
<1> SUFFICES ASSUME NormalUse, CalibInv, [RodNext]_rodAllVars
             PROVE  GoodSupply' /\ Decided' /\ EndsKnown' /\ CalibratedIsRight'
  BY RodStep DEF CalibInv
<1>1. CASE RodSysSm
  <2>1. ~ Sys_State_SetArbEnable
    BY QuietHead DEF Sys_State_SetArbEnable, Do
  <2>2. \/ sys_sm_thread_entry \/ StateMachine_SendEvent \/ Sys_State_Dispatch
        \/ Sys_State_ArbSendCommand \/ Dev_Registry_InitAll \/ StartHardware
    BY <1>1, <2>1 DEF RodSysSm, SysSm
  <2> QED BY <1>1, <2>2, CalibTake, CalibEvent, CalibBit, CalibCut, CalibBoot
<1>2. CASE UNCHANGED rodAllVars
  BY <1>2, CalibKept DEF rodAllVars, sysVars, rodVars, CalibInv, GoodSupply
<1> QED BY <1>1, <1>2, CalibTick, CalibPost, CalibAct, CalibIsr, CalibScan, CalibMove, CalibSupply
        DEF RodNext

\* At power-on nothing turns and nothing is on its way.
LEMMA CalibInit == NormalUse /\ RodInit => CalibInv
<1> SUFFICES ASSUME NormalUse, RodInit PROVE CalibInv
  OBVIOUS
<1>1. RodInv
  BY RodInitInv
<1>2. /\ mq = <<>> /\ todo = <<>> /\ arb = [a \in Axis |-> EmptyData] /\ out = [a \in Axis |-> "stop"]
      /\ sys_evt = {"INIT_DONE", "CMD_WORK_ENABLE"} /\ sm = "INIT" /\ fault_bits = {} /\ pins = "stop"
      /\ vm.fault = 0 /\ volt \in InLimits /\ req = "none" /\ delta = 0
  BY DEF RodInit, App_Model_Init, ArbInit, PowerInit, NormalUse
<1>3. ~ hw_started /\ ~ vm.waiting
  BY DEF RodInit, App_Model_Init, PowerInit
<1>4. MainAxis \in Axis /\ out[MainAxis] = "stop" /\ arb[MainAxis] = EmptyData
  BY <1>2, SysConstants
<1>5. DOMAIN todo = {}
  BY <1>2
<1>6. ~ RunQueued
  BY <1>2, NoneQueued
<1>7. GoodSupply
  BY <1>2, <1>3, <1>4, <1>5, <1>6 DEF GoodSupply, InitsLead, QuietBits
<1>8. Decided
  <2>1. Physical("stop") = "stop"
    BY DEF Physical
  <2>2. arb[MainAxis].enable /\ \A x \in Dir : Allows(x) = <<>> /\ out[MainAxis] # x
    BY <1>4, Directions DEF EmptyData, Allows
  <2> QED BY <1>2, <1>4, <2>1, <2>2 DEF Decided
<1>9. EndsKnown
  <2>1. ~ NewBit /\ ~ TakenBit /\ ~ Turning
    BY <1>2, <1>4, <1>5, Directions DEF NewBit, TakenBit, Pending, Turning
  <2> QED BY <1>2, <1>5, <2>1 DEF EndsKnown
<1>10. CalibratedIsRight
  <2>1. phys \in 0 .. Stroke /\ Stroke \in Nat
    BY RodConstants DEF RodInit
  <2>2. calib.done => calib.pos = phys
    BY DEF RodInit
  <2> QED BY <1>2, <2>1, <2>2 DEF CalibratedIsRight
<1> QED BY <1>1, <1>7, <1>8, <1>9, <1>10 DEF CalibInv

\* Whatever the user does with the polarity switch, a position that counts as
\* calibrated is the true one, for every stroke and every window that holds
\* its end: RodPosition_OnMaxLimit and RodPosition_OnMinLimit run only while
\* the rod is at that end, and an end is never taken for an obstacle.
THEOREM RodCalibratedIsRight == NormalUse => (RodSpec => []CalibratedIsRight)
<1> SUFFICES ASSUME NormalUse PROVE RodSpec => []CalibratedIsRight
  OBVIOUS
<1>1. RodInit => CalibInv
  BY CalibInit
<1>2. CalibInv /\ [RodNext]_rodAllVars => CalibInv'
  BY CalibStep
<1>3. CalibInv => CalibratedIsRight
  BY DEF CalibInv
<1> QED BY <1>1, <1>2, <1>3, PTL DEF RodSpec
=============================================================================
