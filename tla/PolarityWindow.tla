---------------------------- MODULE PolarityWindow ----------------------------
(***************************************************************************)
(* The debounce window of the supply polarity, dev_polarity.c.             *)
(*                                                                         *)
(* Every 2 ms the thread di samples the polarity pin, low for forward,     *)
(* high for reverse, and shifts the sample into a word of WordBits bits.   *)
(* A verdict needs WinSize samples.  Without a bus the pin is meaningless: *)
(* the window is emptied and the state is unpowered.                       *)
(***************************************************************************)
EXTENDS Integers

CONSTANTS
  WinSize,   \* POLARITY_WIN_SIZE
  WordBits   \* the width of PolarityWin_t.win

ASSUME WindowConstants ==
  /\ WinSize \in Nat \ {0}
  /\ WordBits \in Nat /\ WinSize <= WordBits

\* Arithmetic the provers do not know: what a power of two is.
ASSUME PowersDouble == 2^0 = 1 /\ \A n \in 0 .. WordBits - 1 : 2^(n + 1) = 2 * 2^n

Verdict == {"fwd", "rev"}

VARIABLES
  state,   \* s_state
  win,     \* s_dirWin.win
  cnt,     \* s_dirWin.cnt
  under,   \* BusVoltage_IsUnderVoltage
  pin,     \* the level of POWER_DIR_PIN
  run      \* history: equal samples in a row since the window was emptied

polVars == <<state, win, cnt, under, pin, run>>

Level(v) == IF v = "fwd" THEN 0 ELSE 1
-----------------------------------------------------------------------------
\* Mutant: one sample more than the count ever reaches.
Polarity_WinFull_Late(n) == n > WinSize

Polarity_WinFull(n) == n >= WinSize

\* The word keeps WordBits samples; only the count stops at WinSize.
Polarity_WinPush(bit) ==
  /\ win' = (2 * win + bit) % 2^WordBits
  /\ cnt' = IF cnt < WinSize THEN cnt + 1 ELSE cnt

\* Mutant: ones are taken for forward.
Polarity_Eval_Swapped(w, n) ==
  IF Polarity_WinFull(n) /\ w = 0 THEN "rev"
  ELSE IF Polarity_WinFull(n) /\ w = 2^WinSize - 1 THEN "fwd"
  ELSE "unknown"

\* The whole word is compared with WinSize zeros or ones.
Polarity_Eval(w, n) ==
  IF Polarity_WinFull(n) /\ w = 0 THEN "fwd"
  ELSE IF Polarity_WinFull(n) /\ w = 2^WinSize - 1 THEN "rev"
  ELSE "unknown"

\* Mutant: the samples taken so far stay in the window.
Polarity_ResetWindow_Not == UNCHANGED <<win, cnt>> /\ run' = 0

Polarity_ResetWindow == win' = 0 /\ cnt' = 0 /\ run' = 0

\* Undecided windows leave the state as it is.
Polarity_Scan ==
  /\ \/ /\ under
        /\ Polarity_ResetWindow
        /\ state' = "unpowered"
     \/ /\ ~ under
        /\ Polarity_WinPush(pin)
        /\ state' = LET v == Polarity_Eval(win', cnt') IN IF v = "unknown" THEN state ELSE v
        /\ run' = IF run > 0 /\ win % 2 # pin THEN 1 ELSE IF run < WordBits THEN run + 1 ELSE run
  /\ UNCHANGED <<under, pin>>

Polarity_Init ==
  /\ state' = "unknown" /\ Polarity_ResetWindow
  /\ UNCHANGED <<under, pin>>

\* The supply: contacts bounce, the bus comes and goes.
Supply ==
  /\ \/ pin' = 1 - pin /\ UNCHANGED under
     \/ under' = ~ under /\ UNCHANGED pin
  /\ UNCHANGED <<state, win, cnt, run>>

PolInit ==
  /\ state = "unknown" /\ win = 0 /\ cnt = 0 /\ run = 0
  /\ under \in BOOLEAN /\ pin \in 0 .. 1

PolNext == Polarity_Scan \/ Polarity_Init \/ Supply

\* di wakes up every DI_SCAN_PERIOD_MS.
PolSpec == PolInit /\ [][PolNext]_polVars /\ WF_polVars(Polarity_Scan)
-----------------------------------------------------------------------------
(* Properties *)

\* Every variable has its type.
PolTypeOK ==
  /\ state \in Verdict \cup {"unknown", "unpowered"}
  /\ win \in 0 .. 2^WordBits - 1 /\ cnt \in 0 .. WinSize
  /\ under \in BOOLEAN /\ pin \in 0 .. 1 /\ run \in 0 .. WordBits

\* A new direction is announced only after WinSize equal samples, all taken
\* since the bus came back or the module was initialised.
VerdictNeedsWindow ==
  [][state' # state /\ state' \in Verdict =>
       run' >= WinSize /\ win' % 2 = Level(state')]_polVars

\* The window implements the polarity the rest of the program relies on: a
\* direction it announces is the one the pin shows in that very scan.
Source == INSTANCE PolaritySource
            WITH pol <- state, powered <- ~ under, shown <- IF pin = 0 THEN "fwd" ELSE "rev"

PolarityIsSource == Source!SourceSpec

\* A supply that settles on forward is recognised in the end.
LowBecomesForward ==
  <>[](pin = 0 /\ ~ under) /\ <>[][~ Polarity_Init]_polVars => <>[](state = "fwd")

\* dev_polarity.h: all ones is reverse; a supply that settles on reverse is
\* recognised in the end.
HighBecomesReverse ==
  <>[](pin = 1 /\ ~ under) /\ <>[][~ Polarity_Init]_polVars => <>[](state = "rev")
=============================================================================
