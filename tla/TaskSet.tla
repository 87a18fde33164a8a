------------------------------- MODULE TaskSet -------------------------------
(***************************************************************************)
(* The starvation guard, Task/task_set.c.                                  *)
(*                                                                         *)
(* main creates the threads and keeps a slot for each; a periodic thread   *)
(* stamps its slot in every round of its loop, and once a second main      *)
(* names those whose stamp is too old.  The tick is a 32-bit counter, and  *)
(* a stamp of 0 stands for no stamp.                                       *)
(*                                                                         *)
(* main reads the tick before it reads the slots, without a lock.  Threads *)
(* weaker than main stand still while it creates and checks; the canary is *)
(* stronger.                                                               *)
(***************************************************************************)
EXTENDS Integers, Sequences

CONSTANTS
  Task,         \* the threads made with Task_Set_Create
  Periodic,     \* those with beat_ms # 0
  Stronger,     \* those stronger than main: the canary
  BeatSlots,    \* TASK_SET_BEAT_SLOTS
  BeatTimeout,  \* TASK_SET_BEAT_TIMEOUT_MS
  BeatEvery,    \* the longest a thread that gets the processor takes for a round
  CheckEvery,   \* the longest main sleeps between two checks
  TickWord      \* 2^32

ASSUME TaskConstants ==
  /\ Periodic \subseteq Task /\ Stronger \subseteq Task
  /\ {BeatSlots, BeatTimeout, BeatEvery, CheckEvery, TickWord} \subseteq Nat \ {0}
  /\ BeatEvery <= BeatTimeout /\ BeatTimeout + CheckEvery < TickWord

VARIABLES
  tick,     \* rt_tick_get()
  beats,    \* s_beat and s_beat_num: the slots, each with task and last
  made,     \* the threads that exist
  starved,  \* those that get no processor
  main,     \* what main does: boot, sleep or check
  check,    \* the tick the check has read and the slot it is at
  slept,    \* ticks since main's last check
  named,    \* the threads the last check named
  age,      \* history: ticks since a thread was made or last beat, up to a bound
  crossed,  \* history: the threads that beat since the check read the tick
  atZero    \* history: the threads made, or last beating, at tick 0

taskVars == <<tick, beats, made, starved, main, check, slept, named, age, crossed, atZero>>

LongAgo == BeatTimeout + 1   \* ages stop here
NoCheck == [now |-> 0, at |-> 1]
HasSlot(t) == \E i \in DOMAIN beats : beats[i].task = t
-----------------------------------------------------------------------------
\* Mutant: a new slot has no stamp.
BirthStamp_None == 0

BirthStamp == tick

\* A thread is created and started, and gets a slot if there is one left.
\* What is refused or does not fit in the heap is not created.
Task_Set_Create(t) ==
  /\ main = "boot" /\ t \notin made
  /\ made' = made \cup {t}
  /\ beats' = IF Len(beats) < BeatSlots
              THEN Append(beats, [task |-> t, last |-> BirthStamp])
              ELSE beats
  /\ age' = [age EXCEPT ![t] = 0]
  /\ atZero' = IF tick = 0 THEN atZero \cup {t} ELSE atZero \ {t}
  /\ UNCHANGED <<tick, starved, main, check, slept, named, crossed>>

BootDone ==
  /\ main = "boot"
  /\ main' = "sleep"
  /\ UNCHANGED <<tick, beats, made, starved, check, slept, named, age, crossed, atZero>>

\* A round of a periodic thread.  Without a slot nothing is stamped.
Task_Set_Beat(t) ==
  /\ t \in Periodic \cap made /\ t \notin starved
  /\ main = "sleep" \/ t \in Stronger
  /\ beats' = [i \in DOMAIN beats |->
                 IF beats[i].task = t THEN [beats[i] EXCEPT !.last = tick] ELSE beats[i]]
  /\ age' = [age EXCEPT ![t] = 0]
  /\ atZero' = IF tick = 0 THEN atZero \cup {t} ELSE atZero \ {t}
  /\ crossed' = IF main = "check" THEN crossed \cup {t} ELSE crossed
  /\ UNCHANGED <<tick, made, starved, main, check, slept, named>>

\* Task_Set_StarvationCheck: the tick is read first.
StarvationCheck_Begin ==
  /\ main = "sleep" /\ slept > 0
  /\ main' = "check" /\ check' = [now |-> tick, at |-> 1]
  /\ named' = {} /\ slept' = 0
  /\ UNCHANGED <<tick, beats, made, starved, age, crossed, atZero>>

\* Mutant: the difference is taken without its width.
Stale_NoWrap(now, last) == IF now >= last THEN now - last ELSE last - now

\* now - last_beat, as uint32_t.
Stale(now, last) == (now - last) % TickWord

\* Then one slot after the other.
StarvationCheck_Slot ==
  /\ main = "check" /\ check.at \in DOMAIN beats
  /\ LET s == beats[check.at]
     IN named' = IF s.task \in Periodic /\ s.last # 0 /\ Stale(check.now, s.last) > BeatTimeout
                 THEN named \cup {s.task}
                 ELSE named
  /\ check' = [check EXCEPT !.at = @ + 1]
  /\ UNCHANGED <<tick, beats, made, starved, main, slept, age, crossed, atZero>>

StarvationCheck_End ==
  /\ main = "check" /\ check.at \notin DOMAIN beats
  /\ main' = "sleep" /\ check' = NoCheck /\ crossed' = {}
  /\ UNCHANGED <<tick, beats, made, starved, slept, named, age, atZero>>

\* The tick.  A thread that gets the processor makes its round in time, and
\* so does main; the tick comes at most once during a check.
SysTick ==
  /\ \A t \in (Periodic \cap made) \ starved : age[t] < BeatEvery
  /\ main = "sleep" => slept < CheckEvery
  /\ main = "check" => check.now = tick
  /\ tick' = (tick + 1) % TickWord
  /\ age' = [t \in Task |-> IF t \in Periodic \cap made /\ age[t] < LongAgo THEN age[t] + 1 ELSE age[t]]
  /\ slept' = IF main = "sleep" THEN slept + 1 ELSE slept
  /\ UNCHANGED <<beats, made, starved, main, check, named, crossed, atZero>>

\* The load keeps the processor from a weak thread, or no longer.
Load ==
  /\ \E t \in (Periodic \cap made) \ Stronger :
       starved' = IF t \in starved THEN starved \ {t} ELSE starved \cup {t}
  /\ main = "sleep"
  /\ UNCHANGED <<tick, beats, made, main, check, slept, named, age, crossed, atZero>>

TaskInit ==
  /\ tick = 1 /\ beats = <<>> /\ made = {} /\ starved = {}
  /\ main = "boot" /\ check = NoCheck /\ slept = 0
  /\ named = {} /\ age = [t \in Task |-> 0] /\ crossed = {} /\ atZero = {}

MainStep == BootDone \/ StarvationCheck_Begin \/ StarvationCheck_Slot \/ StarvationCheck_End

TaskNext ==
  \/ MainStep \/ SysTick \/ Load
  \/ \E t \in Task : Task_Set_Create(t) \/ Task_Set_Beat(t)

\* main is never held up for ever, a thread that gets the processor makes its
\* rounds, and the tick goes on.
TaskFairness ==
  /\ WF_taskVars(MainStep)
  /\ SF_taskVars(SysTick)
  /\ \A t \in Task : WF_taskVars(Task_Set_Beat(t))

TaskSpec == TaskInit /\ [][TaskNext]_taskVars /\ TaskFairness
-----------------------------------------------------------------------------
(* Properties *)

\* A thread is named only if it has not made a round for the whole timeout,
\* also when the tick wraps.  The exception: a thread stronger than main that
\* makes a round between main's reading of the tick and of its slot.
NamedIsStale ==
  [][\A t \in named' \ named : age[t] > BeatTimeout \/ t \in crossed \cap Stronger]_taskVars

\* A periodic thread that never runs again is named again and again, one that
\* never ran at all included, unless it was last seen just at tick 0.
StarvedIsNamed ==
  \A t \in Periodic :
    <>[](t \in starved /\ HasSlot(t) /\ t \notin atZero) => []<>(t \in named)
=============================================================================
