------------------------------- MODULE Arbiter -------------------------------
(***************************************************************************)
(* The motor arbitration kernel, Dev/dev_act/dev_act.c.                    *)
(*                                                                         *)
(* Input sources post commands to one bounded message queue.  The          *)
(* arbitration thread takes one command at a time, updates the four        *)
(* command queues of the axis it names, decides which direction the motor  *)
(* turns and calls the output operation.  Any thread may meanwhile post    *)
(* commands, enable or disable an axis, or reset the module (every entry   *)
(* of the system state IDLE does).                                         *)
(*                                                                         *)
(* Abstractions.  A command type is its verb (RUN, BLOCK, ...) and its     *)
(* direction, so each pair X_FWD / X_REV of the code is one command.       *)
(* Time stamps, the arbitration counter and the debugger mirrors are left  *)
(* out: nothing reads them back.  A section of the code under the axis     *)
(* mutex is one step.  rt_mq_recv and the mutex section that follows it    *)
(* are one step, because the sections of other threads commute with the    *)
(* receipt.  A command Arb_SendCommand refuses changes nothing.            *)
(***************************************************************************)
EXTENDS Integers, SequencesExt

CONSTANTS
  Axis,       \* axis numbers, 0 .. ARB_MAX_AXIS_NUM - 1
  Device,     \* source device identifiers, DEV_ID_POWER_POS .. DEV_ID_MAX - 1
  PowerPos,   \* DEV_ID_POWER_POS
  PowerNeg,   \* DEV_ID_POWER_NEG
  NoDevice,   \* DEV_ID_NONE
  PrioPower,  \* PRIO_POWER, the largest (weakest) priority number accepted
  MaxQueue,   \* MAX_CMD_QUEUE_SIZE
  MqDepth,    \* ARB_MQ_DEPTH
  Command     \* the commands the input sources may post

Dir == {"fwd", "rev"}
Opposite(dir) == IF dir = "fwd" THEN "rev" ELSE "fwd"
Verb == {"RUN", "STOP", "BLOCK", "UNBLOCK", "CLEAR_ALLOW", "EMERGENCY_STOP"}

\* ArbCommandMsg_t, within the limits Arb_SendCommand accepts.
Msg == [axis : Axis, device : Device, priority : 0 .. PrioPower, verb : Verb,
        dir : Dir, duty : 0 .. 100]

\* ArbCommandRecord_t; the direction stands for its cmd_type.
Record == [device : Device, priority : 0 .. PrioPower, dir : Dir, duty : 0 .. 100]

\* ArbData_t.
ArbData == [block : [Dir -> Seq(Record)], allow : [Dir -> Seq(Record)],
            active_dir : Dir \cup {"none"}, active_device : Device \cup {NoDevice},
            duty : 0 .. 100, enable : BOOLEAN, conflict_fault : BOOLEAN]

ASSUME ArbConstants ==
  /\ PowerPos \in Device /\ PowerNeg \in Device /\ PowerPos # PowerNeg
  /\ NoDevice \notin Device
  /\ PrioPower \in Nat
  /\ MaxQueue \in Nat \ {0}
  /\ MqDepth \in Nat \ {0}
  /\ Command \subseteq Msg

VARIABLES
  mq,    \* s_arb_mq
  arb,   \* s_arb_axis[a].arb
  out    \* the output operation called last for each axis

arbVars == <<mq, arb, out>>
-----------------------------------------------------------------------------
(* The command queues *)

RecordOf(m) ==
  [device |-> m.device, priority |-> m.priority, dir |-> m.dir, duty |-> m.duty]

Holds(q, device) == \E i \in DOMAIN q : q[i].device = device

\* The first record of the device is removed, if there is one.
Arb_CmdListRemove(q, device) ==
  RemoveFirstMatch(q, LAMBDA r : r.device = device)

\* The slot of a new record: before the first strictly weaker one.
InsertSlot(q, priority) ==
  LET i == SelectInSeq(q, LAMBDA r : priority < r.priority)
  IN IF i = 0 THEN Len(q) + 1 ELSE i

\* Mutant: the device's previous record is kept.
SetAllow_KeepsOld(q, blockq, r) ==
  IF blockq # <<>> \/ Len(q) >= MaxQueue THEN q
  ELSE InsertAt(q, InsertSlot(q, r.priority), r)

\* A run command replaces the one of the same device, unless the direction
\* is blocked, and is inserted by priority if there is room.
Arb_CmdListSetAllow(q, blockq, r) ==
  LET rest == Arb_CmdListRemove(q, r.device)
  IN IF blockq # <<>> THEN q
     ELSE IF Len(rest) >= MaxQueue THEN rest
     ELSE InsertAt(rest, InsertSlot(rest, r.priority), r)

\* A device blocks a direction at most once; a full queue ignores the block.
Arb_CmdListSetBlock(q, r) ==
  IF Holds(q, r.device) \/ Len(q) >= MaxQueue THEN q
  ELSE Append(q, [r EXCEPT !.duty = 0])
-----------------------------------------------------------------------------
(* One command *)

\* Mutant: the opposite power command stays.
RemoveOpposite_Skipped(d, m) == d

\* The two power devices are one physical source: a run command of one
\* withdraws the opposite run command of the other.
Arb_RemoveOppositePowerAllow(d, m) ==
  CASE m.verb = "RUN" /\ m.device = PowerPos ->
         [d EXCEPT !.allow["rev"] = Arb_CmdListRemove(@, PowerNeg)]
    [] m.verb = "RUN" /\ m.device = PowerNeg ->
         [d EXCEPT !.allow["fwd"] = Arb_CmdListRemove(@, PowerPos)]
    [] OTHER -> d

RunCommand(d, m) ==
  LET blockq == Arb_CmdListRemove(d.block[m.dir], m.device)
  IN [d EXCEPT !.block[m.dir] = blockq,
               !.allow[m.dir] = Arb_CmdListSetAllow(@, blockq, RecordOf(m))]

Arb_ProcessMessage(d0, m) ==
  LET d == Arb_RemoveOppositePowerAllow(d0, m)
  IN CASE m.verb = "RUN" -> RunCommand(d, m)
       [] m.verb = "STOP" ->
            [d EXCEPT !.allow = [x \in Dir |-> Arb_CmdListRemove(d.allow[x], m.device)]]
       [] m.verb = "BLOCK" ->
            [d EXCEPT !.block[m.dir] = Arb_CmdListSetBlock(@, RecordOf(m))]
       [] m.verb = "UNBLOCK" ->
            [d EXCEPT !.block[m.dir] = Arb_CmdListRemove(@, m.device)]
       [] m.verb = "CLEAR_ALLOW" -> [d EXCEPT !.allow[m.dir] = <<>>]
       [] m.verb = "EMERGENCY_STOP" -> [d EXCEPT !.allow = [x \in Dir |-> <<>>]]

-----------------------------------------------------------------------------
(* The decision *)

\* Mutant: the decision forgets to look at the block queue.
Candidates_IgnoreBlock(d, dir) ==
  IF d.allow[dir] # <<>> THEN {Head(d.allow[dir])} ELSE {}

\* The command a direction puts forward: the head of its queue, unless blocked.
Candidates(d, dir) ==
  IF d.block[dir] = <<>> /\ d.allow[dir] # <<>> THEN {Head(d.allow[dir])} ELSE {}

\* Opposite commands of one device, or of equal priority, cancel each other.
Conflict(d) ==
  \E f \in Candidates(d, "fwd"), r \in Candidates(d, "rev") :
    f.device = r.device \/ f.priority = r.priority

FinalCommands(d) ==
  LET all == Candidates(d, "fwd") \cup Candidates(d, "rev")
  IN IF Conflict(d) THEN {}
     ELSE {c \in all : \A x \in all : c.priority <= x.priority}

\* Mutant: a stop clears the duty cycle only.
ApplyStop_DutyOnly(d) == [d EXCEPT !.duty = 0]

\* Mutant: a stop leaves an invalid direction behind.
ApplyStop_BadDir(d) == [d EXCEPT !.active_device = NoDevice, !.active_dir = "brake"]

Arb_ApplyStop(d) ==
  [d EXCEPT !.active_device = NoDevice, !.active_dir = "none", !.duty = 0]

ApplyRun(d, c) ==
  [d EXCEPT !.active_device = c.device, !.active_dir = c.dir, !.duty = c.duty]

\* Mutant: the enable flag is not looked at.
Decision_IgnoreEnable(d0) ==
  LET d == [d0 EXCEPT !.conflict_fault = Conflict(d0)]
  IN IF FinalCommands(d) # {}
     THEN ApplyRun(d, CHOOSE c \in FinalCommands(d) : TRUE)
     ELSE Arb_ApplyStop(d)

Arb_Decision(d0) ==
  LET d == [d0 EXCEPT !.conflict_fault = d0.enable /\ Conflict(d0)]
  IN IF d.enable /\ FinalCommands(d) # {}
     THEN ApplyRun(d, CHOOSE c \in FinalCommands(d) : TRUE)
     ELSE Arb_ApplyStop(d)

\* The output operation a decision calls: fwd, rev or stop.
OutputOp(d) == IF d.active_dir = "none" THEN "stop" ELSE d.active_dir
-----------------------------------------------------------------------------
(* The module *)

EmptyData == [block |-> [x \in Dir |-> <<>>], allow |-> [x \in Dir |-> <<>>],
              active_dir |-> "none", active_device |-> NoDevice, duty |-> 0,
              enable |-> TRUE, conflict_fault |-> FALSE]

ArbInit ==
  /\ mq = <<>>
  /\ arb = [a \in Axis |-> EmptyData]
  /\ out = [a \in Axis |-> "stop"]

\* A later Arb_Module_Init: the axes start afresh, but commands still queued
\* stay queued and no output operation is called.
Arb_Module_Init ==
  /\ arb' = [a \in Axis |-> EmptyData]
  /\ UNCHANGED <<mq, out>>

\* Posting never waits: a full queue refuses the command.
Arb_SendCommand(m, urgent) ==
  /\ mq' = IF Len(mq) >= MqDepth THEN mq
           ELSE IF urgent THEN <<m>> \o mq ELSE Append(mq, m)
  /\ UNCHANGED <<arb, out>>

Arb_SetEnable(a, enable) ==
  /\ arb' = [arb EXCEPT ![a].enable = enable]
  /\ UNCHANGED <<mq, out>>

\* One turn of the thread's loop.
Arb_ThreadEntry ==
  /\ mq # <<>>
  /\ LET m == Head(mq)
         d == Arb_Decision(Arb_ProcessMessage(arb[m.axis], m))
     IN /\ arb' = [arb EXCEPT ![m.axis] = d]
        /\ out' = [out EXCEPT ![m.axis] = OutputOp(d)]
  /\ mq' = Tail(mq)

ArbNext ==
  \/ \E m \in Command, urgent \in BOOLEAN : Arb_SendCommand(m, urgent)
  \/ \E a \in Axis, enable \in BOOLEAN : Arb_SetEnable(a, enable)
  \/ Arb_ThreadEntry
  \/ Arb_Module_Init

ArbSpec == ArbInit /\ [][ArbNext]_arbVars
-----------------------------------------------------------------------------
(* Properties *)

\* Every variable has its type.
ArbTypeOK ==
  /\ mq \in Seq(Msg)
  /\ arb \in [Axis -> ArbData]
  /\ out \in [Axis -> Dir \cup {"stop"}]

\* No queue outgrows its array: the code writes records[count] after checking
\* count against MAX_CMD_QUEUE_SIZE only, and posting against the queue depth.
QueuesBounded ==
  /\ Len(mq) <= MqDepth
  /\ \A a \in Axis, dir \in Dir :
       Len(arb[a].block[dir]) <= MaxQueue /\ Len(arb[a].allow[dir]) <= MaxQueue

DistinctDevices(q) ==
  \A i, j \in DOMAIN q : q[i].device = q[j].device => i = j

\* A device has at most one record per queue, so removing the first record
\* found (Arb_CmdListRemove returns after one) withdraws the device for good.
OneRecordPerDevice ==
  \A a \in Axis, dir \in Dir :
    DistinctDevices(arb[a].block[dir]) /\ DistinctDevices(arb[a].allow[dir])

Sorted(q) == \A i, j \in DOMAIN q : i < j => q[i].priority <= q[j].priority

\* The decision looks at records[0] only; that record is a strongest one.
AllowSorted == \A a \in Axis, dir \in Dir : Sorted(arb[a].allow[dir])

\* The queues of dev_act.c stay well formed, whatever commands replace,
\* withdraw or overtake each other: within their arrays, no device twice, a
\* strongest command first.
QueuesWellFormed == QueuesBounded /\ OneRecordPerDevice /\ AllowSorted

\* The decision turns the motor by the cmd_type of the record it picks; a
\* record of the forward queue never turns it backwards.
RecordsMatchQueue ==
  \A a \in Axis, dir \in Dir :
    \A i \in DOMAIN arb[a].allow[dir] : arb[a].allow[dir][i].dir = dir

\* The motor never turns in a direction somebody blocks, whatever the order
\* of blocks, run commands, enables and resets.
NeverDriveBlocked ==
  \A a \in Axis : out[a] \in Dir => arb[a].block[out[a]] = <<>>

\* A direction is reported active only while a run command of the reported
\* device stands in its queue, and the motor really turns that way.
ActiveIsJustified ==
  \A a \in Axis : arb[a].active_dir \in Dir =>
    /\ out[a] = arb[a].active_dir
    /\ Holds(arb[a].allow[arb[a].active_dir], arb[a].active_device)

\* The two power devices never hold opposite run commands together, so a
\* change of supply polarity never ends in the equal-priority conflict stop.
PowerNeverConflicts ==
  \A a \in Axis : ~ (/\ Holds(arb[a].allow["fwd"], PowerPos)
                     /\ Holds(arb[a].allow["rev"], PowerNeg))

\* A motor at rest on a disabled axis stays at rest; so does one whose
\* emergency stop is being carried out.
DisabledStaysStopped ==
  [][\A a \in Axis :
       /\ ~ arb[a].enable /\ out[a] = "stop" => out'[a] = "stop"
       /\ (mq # <<>> /\ mq' = Tail(mq) /\ Head(mq).axis = a
             /\ (~ arb[a].enable \/ Head(mq).verb = "EMERGENCY_STOP"))
          => out'[a] = "stop"]_arbVars

\* The inductive invariant the proofs use: all of the above together.
ArbInv ==
  /\ ArbTypeOK
  /\ QueuesBounded
  /\ OneRecordPerDevice
  /\ AllowSorted
  /\ RecordsMatchQueue
  /\ NeverDriveBlocked
  /\ ActiveIsJustified
  /\ PowerNeverConflicts
=============================================================================
