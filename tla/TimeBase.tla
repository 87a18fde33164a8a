------------------------------- MODULE TimeBase -------------------------------
(***************************************************************************)
(* The microsecond time base, Adp/hc32_drv_timer.c behind Utils/us_timer.c.*)
(*                                                                         *)
(* A free-running 16-bit counter gives two clocks: a time stamp that every *)
(* caller of UsTimer_UpdateTimestamp advances by what has passed since the *)
(* last call, and the interval between two edges of the motor's hall       *)
(* sensors.  Both turn a difference of counts into microseconds with a     *)
(* 32-bit product.                                                         *)
(*                                                                         *)
(* The time stamp has no lock.  Threads of several priorities advance it:  *)
(* a stronger one may come between the reading of the counter and the      *)
(* storing of what was read.                                               *)
(*                                                                         *)
(* A reading is kept as the counts since the timer was started; the code   *)
(* has it modulo Wrap.                                                     *)
(***************************************************************************)
EXTENDS Integers, FiniteSets

CONSTANTS
  Wrap,          \* 65536: the counter's period
  Scale, Freq,   \* 1000000 and m_u32TimerFreq: a count is Scale/Freq us
  Word,          \* 2^32: what a uint32_t holds
  Caller,        \* the threads that update the stamp: numbers, 1 the strongest
  MaxCounts,     \* bound on the counts that pass
  MaxUpdates     \* bound on the updates

\* A product overflows before the counter has gone round.
ASSUME TimeConstants ==
  /\ {Wrap, Scale, Freq, Word} \subseteq Nat \ {0} /\ Wrap * Scale >= Word
  /\ Caller \subseteq Nat /\ MaxCounts \in Nat /\ MaxUpdates \in Nat

VARIABLES
  counts,     \* the counts since the timer was started
  stamp,      \* s_total_elapsed_us
  stored,     \* s_last_timer6_counter, or Never before s_timestamp_initialized
  reading,    \* per caller: the current_counter it has read, or Never
  edge,       \* m_u32LastCounter
  interval,   \* the last interval an interrupt computed, in us
  gap,        \* history: the counts this interval really took
  begun,      \* history: counts at the first update
  updates,    \* history: the updates that added to the stamp
  overtaken,  \* history: the updates that stored an older reading than the last
  wide        \* history: some update found more than a product can hold

stampVars == <<stamp, stored, reading, begun, updates, overtaken, wide>>
edgeVars == <<edge, interval, gap>>
timeVars == <<counts, stamp, stored, reading, edge, interval, gap, begun, updates, overtaken, wide>>

Never == -1
-----------------------------------------------------------------------------
\* Mutant: the period is taken for one more.
Timer6_Delta_OffByOne(now, then) ==
  LET n == now % Wrap  t == then % Wrap
  IN IF n >= t THEN n - t ELSE (Wrap + 1 - t) + n

\* The counts between two readings, by way of one wrap if need be.
Timer6_Delta(now, then) ==
  LET n == now % Wrap  t == then % Wrap
  IN IF n >= t THEN n - t ELSE (Wrap - t) + n

\* u32DeltaCounter * 1000000ul keeps 32 bits.
Timer6_Timebase_DeltaToUs(d) == ((d * Scale) % Word) \div Freq

\* GetDelta and DeltaToUs, in the interrupt of a hall edge.
Timer6_Timebase_GetDelta ==
  /\ edge' = counts
  /\ interval' = Timer6_Timebase_DeltaToUs(Timer6_Delta(counts, edge))
  /\ gap' = counts - edge
  /\ UNCHANGED <<counts, stampVars>>

\* A thread runs only while no stronger one is half way.
Runs(c) == \A d \in Caller : d < c => reading[d] = Never

\* UpdateTimestamp, up to the reading of the counter.  The first call of all
\* only starts the clock.
UpdateTimestamp_Read(c) ==
  /\ Runs(c) /\ reading[c] = Never /\ updates < MaxUpdates
  /\ \/ /\ stored # Never
        /\ reading' = [reading EXCEPT ![c] = counts]
        /\ UNCHANGED <<stored, begun>>
     \/ /\ stored = Never
        /\ stored' = counts /\ begun' = counts
        /\ UNCHANGED reading
  /\ UNCHANGED <<counts, stamp, updates, overtaken, wide, edgeVars>>

\* The rest of it: compare with the stored reading, add, store.
UpdateTimestamp_Store(c) ==
  /\ Runs(c) /\ reading[c] # Never
  /\ stamp' = stamp + Timer6_Timebase_DeltaToUs(Timer6_Delta(reading[c], stored))
  /\ stored' = reading[c]
  /\ reading' = [reading EXCEPT ![c] = Never]
  /\ updates' = updates + 1
  /\ overtaken' = IF reading[c] < stored THEN overtaken + 1 ELSE overtaken
  /\ wide' = (wide \/ (reading[c] - stored) * Scale >= Word)
  /\ UNCHANGED <<counts, begun, edgeVars>>

\* The counter runs.  No update is held up for a whole period.
Count ==
  /\ counts < MaxCounts
  /\ \A c \in Caller : reading[c] # Never => counts - reading[c] < Wrap - 1
  /\ counts' = counts + 1
  /\ UNCHANGED <<stampVars, edgeVars>>

TimeInit ==
  /\ counts = 0 /\ stamp = 0 /\ stored = Never
  /\ reading = [c \in Caller |-> Never]
  /\ edge = 0 /\ interval = 0 /\ gap = 0
  /\ begun = 0 /\ updates = 0 /\ overtaken = 0 /\ wide = FALSE

\* The two clocks share the counter and nothing else.
StampNext ==
  \/ \E c \in Caller : UpdateTimestamp_Read(c) \/ UpdateTimestamp_Store(c)
  \/ Count

EdgeNext == Timer6_Timebase_GetDelta \/ Count

TimeNext == StampNext \/ EdgeNext

TimeSpec == TimeInit /\ [][TimeNext]_timeVars
-----------------------------------------------------------------------------
(* Properties *)

\* What really passed up to the stored reading, in counts.
Passed == IF stored = Never THEN 0 ELSE stored - begun

\* The time stamp never runs ahead, but for one period of the counter each
\* time a stronger thread came between the halves of an update.
StampNotAhead == stamp * Freq <= (Passed + overtaken * Wrap) * Scale

\* As long as updates are no further apart than a product can hold, the time
\* stamp is behind by the rounding of each update at most.
StampKeepsUp == ~ wide => (stamp + updates) * Freq >= Passed * Scale

\* The interval between two edges is never taken for longer than it was: a
\* motor is never thought slower.
IntervalNotLonger == interval * Freq <= gap * Scale

\* The two clocks of hc32_drv_timer.c, however updates interleave and the
\* counter wraps.
ClocksAreTrue == StampNotAhead /\ StampKeepsUp /\ IntervalNotLonger
=============================================================================
