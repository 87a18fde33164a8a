------------------------------- MODULE AdcMean -------------------------------
(***************************************************************************)
(* The sliding mean of an analogue input, Adp/hc32_drv_adc.c behind        *)
(* Dev/dev_adc/dev_adc.c.                                                  *)
(*                                                                         *)
(* Every 500 us the interrupt of the converter puts a sample into a window *)
(* of WinLen samples and keeps the window's sum.  The 1 ms interrupt of    *)
(* the detectors divides the sum by the count.  It is the stronger of the  *)
(* two (priority 3 against 6) and starts first: it may read between any    *)
(* two stores of the other, and before the first sample.                   *)
(*                                                                         *)
(* Abstractions.  Samples are small integers.  The conversion to volts is  *)
(* monotonic and left out, and so are the ring buffer and the latest       *)
(* value, which nothing in this build reads.                               *)
(***************************************************************************)
EXTENDS Integers, FiniteSetsExt, Functions

CONSTANTS
  WinLen,    \* ADC_MEAN_WINDOW_SAMPLES
  RawValue   \* what the converter may deliver: a set of numbers

ASSUME AdcConstants == WinLen \in Nat \ {0} /\ RawValue \subseteq Nat

VARIABLES
  mwin,   \* pu32MeanWin
  msum,   \* u32MeanSum
  midx,   \* u16MeanIdx
  mcnt,   \* u16MeanCnt
  raw,    \* the sample the converter's interrupt is putting away
  isr,    \* how far it is
  mean    \* what the detectors read last, or Unread

adcVars == <<mwin, msum, midx, mcnt, raw, isr, mean>>

Unread == -1
Slots == 0 .. WinLen - 1
Used == {mwin[i] : i \in {j \in Slots : j < mcnt}}
-----------------------------------------------------------------------------
(* AdcDrv_ADC1_IRQHandler, a store at a time *)

Filling == mcnt < WinLen

\* Mutant: the new sample first.
Changes_AddFirst(s) == <<s, - mwin[midx]>>

\* What a full window does to its sum, in this order: it gives up the oldest
\* sample, then takes the new one.
Changes(s) == <<- mwin[midx], s>>

\* A sample arrives.
Convert(s) ==
  /\ isr = "idle"
  /\ raw' = s
  /\ msum' = IF Filling THEN msum ELSE msum + Changes(s)[1]
  /\ isr' = "add" /\ mean' = Unread
  /\ UNCHANGED <<mwin, midx, mcnt>>

AddSample ==
  /\ isr = "add"
  /\ msum' = msum + (IF Filling THEN raw ELSE Changes(raw)[2])
  /\ isr' = "keep" /\ mean' = Unread
  /\ UNCHANGED <<mwin, midx, mcnt, raw>>

NextSlot(i) == (i + 1) % WinLen

KeepSample ==
  /\ isr = "keep"
  /\ mwin' = [mwin EXCEPT ![midx] = raw]
  /\ midx' = NextSlot(midx)
  /\ isr' = IF Filling THEN "count" ELSE "idle"
  /\ mean' = Unread
  /\ UNCHANGED <<msum, mcnt, raw>>

\* Only while the window fills.
CountSample ==
  /\ isr = "count"
  /\ mcnt' = mcnt + 1
  /\ isr' = "idle" /\ mean' = Unread
  /\ UNCHANGED <<mwin, msum, midx, raw>>
-----------------------------------------------------------------------------
MeanOf(sum, n) == IF n = 0 THEN 0 ELSE sum \div n

\* AdcDrv_GetMean in the 1 ms interrupt.
AdcDrv_GetMean ==
  /\ mean' = MeanOf(msum, mcnt)
  /\ UNCHANGED <<mwin, msum, midx, mcnt, raw, isr>>

AdcInit ==
  /\ mwin = [i \in Slots |-> 0]
  /\ msum = 0 /\ midx = 0 /\ mcnt = 0
  /\ raw = 0 /\ isr = "idle" /\ mean = Unread

AdcNext ==
  \/ \E s \in RawValue : Convert(s)
  \/ AddSample \/ KeepSample \/ CountSample \/ AdcDrv_GetMean

AdcSpec == AdcInit /\ [][AdcNext]_adcVars
-----------------------------------------------------------------------------
(* Properties *)

\* Between two samples the running sum is the sum of the window: nothing is
\* subtracted twice, kept twice or lost, however long the window has slid.
SumIsWindow == isr = "idle" => msum = FoldFunction(+, 0, mwin)

\* A full window never shows more than its highest sample, nor less than its
\* lowest but for the share of one sample, which is missing while the
\* interrupt is between its subtraction and its addition.
FullMeanInRange ==
  mean # Unread /\ mcnt = WinLen =>
    /\ mean <= Max(Used \cup {raw})
    /\ mean >= ((WinLen - 1) * Min(Used)) \div WinLen

\* While the window fills, the mean read is at most a sample's share too
\* high: the sum has the sample, the count has not.
FillingMeanBounded ==
  mean # Unread /\ mcnt \in 1 .. WinLen - 1 =>
    /\ mean >= Min(Used)
    /\ mean <= ((mcnt + 1) * Max(Used \cup {raw})) \div mcnt

\* What the detectors read of hc32_drv_adc.c is a mean of what was sampled,
\* wherever their interrupt cuts into the converter's.
MeanIsSound == SumIsWindow /\ FullMeanInRange /\ FillingMeanBounded
=============================================================================
