------------------------------ MODULE UnitProofs ------------------------------
(***************************************************************************)
(* The small units, for any window, duty, confirmation count, timeout,     *)
(* wrap and interleaving: the supply polarity of dev_polarity.c, the PWM   *)
(* ramp of dev_pwm.c, the motor's hall sensors of dev_hall_motor.c, the    *)
(* starvation guard of task_set.c, the time base of hc32_drv_timer.c and   *)
(* the sliding mean of hc32_drv_adc.c.                                     *)
(***************************************************************************)
EXTENDS PolarityWindow, PwmRamp, HallMotor, TaskSet, TimeBase, AdcMean, FiniteSetTheorems, TLAPS

-----------------------------------------------------------------------------
(* Induction, over naturals and over finite sets, in a form without a      *)
(* predicate to instantiate                                                *)

\* A set of naturals has a least element.
LEMMA LeastNat ==
  ASSUME NEW T \in SUBSET Nat, T # {}
  PROVE  \E x \in T : \A y \in T : x <= y
<1>1. PICK x \in T : \A y \in T : ~ (<<y, x>> \in OpToRel(<, Nat))
  BY WFMin, NatLessThanWellFounded
<1>2. ASSUME NEW y \in T, y < x PROVE FALSE
  <2>1. <<y, x>> \in Nat \X Nat /\ <<y, x>>[1] < <<y, x>>[2]
    BY <1>2
  <2>2. <<y, x>> \in {ss \in Nat \X Nat : ss[1] < ss[2]}
    BY <2>1
  <2> QED BY <1>1, <2>2 DEF OpToRel
<1>3. \A y \in T : x \in Nat /\ y \in Nat
  OBVIOUS
<1> QED BY <1>2, <1>3

\* A set with 0 and with every successor of its naturals has them all.
LEMMA Induct ==
  ASSUME NEW S, 0 \in S, \A n \in Nat : n \in S => n + 1 \in S
  PROVE  \A n \in Nat : n \in S
<1> DEFINE T == {n \in Nat : n \notin S}
<1> SUFFICES ASSUME T # {} PROVE FALSE
  OBVIOUS
<1>1. PICK x \in T : \A y \in T : x <= y
  BY LeastNat
<1>2. x # 0 /\ x \in Nat
  OBVIOUS
<1>3. x - 1 \in Nat /\ x - 1 \notin T
  BY <1>1, <1>2
<1>4. x - 1 + 1 \in S
  BY <1>3
<1> QED BY <1>2, <1>4

\* A set of sets that has the empty one, and every set without one of whose
\* elements it has, has all finite ones.
LEMMA SetInduct ==
  ASSUME NEW D, IsFiniteSet(D), NEW P, {} \in P,
         \A T \in SUBSET D : T # {} /\ (\A x \in T : T \ {x} \in P) => T \in P
  PROVE  \A T \in SUBSET D : T \in P
<1> DEFINE S == {n \in Nat : \A T \in SUBSET D : Cardinality(T) = n => T \in P}
<1>0. \A T \in SUBSET D : IsFiniteSet(T) /\ Cardinality(T) \in Nat
  BY FS_Subset, FS_CardinalityType
<1>1. 0 \in S
  BY <1>0, FS_EmptySet
<1>2. ASSUME NEW n \in Nat, n \in S PROVE n + 1 \in S
  <2> SUFFICES ASSUME NEW T \in SUBSET D, Cardinality(T) = n + 1 PROVE T \in P
    OBVIOUS
  <2>1. IsFiniteSet(T) /\ T # {}
    BY <1>0, FS_EmptySet
  <2>2. ASSUME NEW x \in T PROVE T \ {x} \in P
    <3>1. Cardinality(T \ {x}) = Cardinality(T) - 1
      BY <2>1, FS_RemoveElement
    <3>2. Cardinality(T \ {x}) = n /\ T \ {x} \in SUBSET D
      BY <3>1
    <3> QED BY <3>2, <1>2
  <2> QED BY <2>1, <2>2
<1>3. \A n \in Nat : n \in S
  <2> HIDE DEF S
  <2> QED BY <1>1, <1>2, Induct
<1> QED BY <1>0, <1>3

-----------------------------------------------------------------------------
(* The supply polarity: whatever its width and the width of its word, the  *)
(* debounce window implements the polarity that SysState and Rod contain   *)

\* Powers of two are positive, and even but for the first.
LEMMA Powers == \A n \in 0 .. WordBits : 2^n \in Nat \ {0}
<1> DEFINE S == {n \in Nat : n <= WordBits => 2^n \in Nat \ {0}}
<1>1. 0 \in S
  BY PowersDouble
<1>2. ASSUME NEW n \in Nat, n \in S PROVE n + 1 \in S
  <2>1. CASE n + 1 <= WordBits
    <3>1. n \in 0 .. WordBits - 1 /\ 2^n \in Nat \ {0}
      BY <1>2, <2>1, WindowConstants
    <3>2. 2^(n + 1) = 2 * 2^n
      BY <3>1, PowersDouble
    <3> QED BY <3>1, <3>2
  <2> QED BY <2>1
<1>3. \A n \in Nat : n \in S
  <2> HIDE DEF S
  <2> QED BY <1>1, <1>2, Induct
<1> QED BY <1>3, WindowConstants

\* Each divides the last.
LEMMA PowersDivide ==
  ASSUME NEW k \in 0 .. WordBits
  PROVE  \E q \in Nat \ {0} : 2^WordBits = 2^k * q
<1> DEFINE S == {n \in Nat : n <= WordBits => \E q \in Nat \ {0} : 2^WordBits = 2^(WordBits - n) * q}
<1>1. 0 \in S
  <2>1. WordBits - 0 = WordBits /\ 2^WordBits \in Nat
    BY WindowConstants, Powers
  <2>2. 2^WordBits = 2^WordBits * 1
    BY <2>1
  <2> QED BY <2>1, <2>2
<1>2. ASSUME NEW n \in Nat, n \in S PROVE n + 1 \in S
  <2>1. CASE n + 1 <= WordBits
    <3> DEFINE i == WordBits - (n + 1)
    <3>1. i \in 0 .. WordBits - 1 /\ i \in 0 .. WordBits /\ i + 1 = WordBits - n
      BY <2>1, WindowConstants
    <3>2. PICK q \in Nat \ {0} : 2^WordBits = 2^(WordBits - n) * q
      BY <1>2, <2>1, WindowConstants
    <3> HIDE DEF i
    <3>3. 2^(i + 1) = 2 * 2^i /\ 2^i \in Nat
      BY <3>1, PowersDouble, Powers
    <3>4. 2^WordBits = 2^i * (2 * q) /\ 2 * q \in Nat \ {0}
      BY <3>1, <3>2, <3>3
    <3>5. \E r \in Nat \ {0} : 2^WordBits = 2^i * r
      BY <3>4
    <3> QED BY <3>5 DEF i
  <2> QED BY <2>1
<1>3. \A n \in Nat : n \in S
  <2> HIDE DEF S
  <2> QED BY <1>1, <1>2, Induct
<1>4. WordBits - k \in Nat /\ WordBits - k <= WordBits /\ WordBits - (WordBits - k) = k
  BY WindowConstants
<1>5. WordBits - k \in S
  BY <1>3, <1>4
<1> QED BY <1>4, <1>5

\* A remainder is known by its size.
LEMMA ModUnique ==
  ASSUME NEW n \in Nat \ {0}, NEW x \in Int, NEW c \in Int, NEW s \in 0 .. n - 1, x = n * c + s
  PROVE  x % n = s
<1> DEFINE d == x \div n
           r == x % n
<1>1. d \in Int /\ r \in 0 .. n - 1 /\ x = n * d + r
  OBVIOUS
<1> HIDE DEF d, r
<1>2. n * (c - d) = r - s
  BY <1>1
<1>3. CASE c - d >= 1
  <2>1. n * (c - d) >= n
    BY <1>1, <1>3
  <2> QED BY <2>1, <1>1, <1>2
<1>4. CASE c - d <= -1
  <2>1. n * (c - d) <= -n
    BY <1>1, <1>4
  <2> QED BY <2>1, <1>1, <1>2
<1>5. CASE c = d
  BY <1>1, <1>5 DEF r
<1> QED BY <1>1, <1>3, <1>4, <1>5

\* A bit pushed into a word moves the lower ones up by one.
LEMMA PushLow ==
  ASSUME NEW w \in Nat, NEW b \in 0 .. 1, NEW k \in 0 .. WordBits - 1
  PROVE  ((2 * w + b) % 2^WordBits) % 2^(k + 1) = 2 * (w % 2^k) + b
<1> DEFINE m == 2^k
           M == 2^WordBits
           x == 2 * w + b
<1>1. m \in Nat \ {0} /\ 2^(k + 1) = 2 * m
  BY Powers, PowersDouble, WindowConstants
<1>2. PICK q \in Nat \ {0} : M = (2 * m) * q
  <2>1. k + 1 \in 0 .. WordBits
    BY WindowConstants
  <2> QED BY <1>1, <2>1, PowersDivide
<1> HIDE DEF m, M
<1>3. M \in Nat \ {0}
  BY <1>1, <1>2
<1> DEFINE a == w \div m
           r == w % m
           d == x \div M
<1>4. a \in Int /\ r \in 0 .. m - 1 /\ w = m * a + r
  BY <1>1
<1>5. d \in Int /\ x = M * d + (x % M) /\ x % M \in Int
  BY <1>3
<1> HIDE DEF a, r, d
<1>6. 2 * r + b \in 0 .. 2 * m - 1 /\ 2 * m \in Nat \ {0}
  BY <1>1, <1>4
<1>7. x % M = (2 * m) * (a - q * d) + (2 * r + b)
  <2>1. x = (2 * m) * a + (2 * r + b)
    BY <1>1, <1>4
  <2>2. M * d = (2 * m) * (q * d)
    BY <1>1, <1>2, <1>5
  <2>3. (2 * m) * (a - q * d) = (2 * m) * a - (2 * m) * (q * d)
    BY <1>1, <1>2, <1>4, <1>5
  <2> QED BY <1>1, <1>2, <1>4, <1>5, <2>1, <2>2, <2>3
<1>8. a - q * d \in Int
  BY <1>2, <1>4, <1>5
<1> HIDE DEF x
<1>9. (x % M) % (2 * m) = 2 * r + b
  BY <1>5, <1>6, <1>7, <1>8, ModUnique
<1> QED BY <1>1, <1>9 DEF m, M, r, x
\* The lowest bit is that of every longer part of the word.
LEMMA LowestBit ==
  ASSUME NEW w \in Nat, NEW k \in 1 .. WordBits
  PROVE  /\ w % 2^k = 0 => w % 2 = 0
         /\ w % 2^k = 2^k - 1 => w % 2 = 1
<1> DEFINE m == 2^k
<1>1. PICK h \in Nat \ {0} : m = 2 * h
  <2>1. k - 1 \in 0 .. WordBits - 1 /\ k - 1 \in 0 .. WordBits /\ (k - 1) + 1 = k
    BY WindowConstants
  <2>2. 2^((k - 1) + 1) = 2 * 2^(k - 1) /\ 2^(k - 1) \in Nat \ {0}
    BY <2>1, PowersDouble, Powers
  <2> QED BY <2>1, <2>2
<1> HIDE DEF m
<1> DEFINE d == w \div m
           r == w % m
<1>m. m \in Nat \ {0}
  BY <1>1
<1>2. d \in Int /\ w = m * d + r /\ r \in 0 .. m - 1
  BY <1>m
<1> HIDE DEF d, r
<1>3. h * d \in Int /\ w = 2 * (h * d) + r
  BY <1>1, <1>2
<1>4. r = 0 => w % 2 = 0
  <2> DEFINE e == h * d
  <2> HIDE DEF e
  <2>1. e \in Int /\ w = 2 * e + r
    BY <1>3 DEF e
  <2> QED BY <2>1
<1>5. r = m - 1 => w % 2 = 1
  <2> DEFINE e == h * d
  <2> HIDE DEF e
  <2>1. e \in Int /\ w = 2 * e + r
    BY <1>3 DEF e
  <2>2. ASSUME r = m - 1 PROVE w = 2 * (e + h - 1) + 1 /\ e + h - 1 \in Int
    BY <1>1, <2>1, <2>2
  <2> QED BY <2>2
<1> QED BY <1>4, <1>5 DEF m, r

\* The bit pushed last is the parity of the word.
LEMMA PushParity ==
  ASSUME NEW w \in Nat, NEW b \in 0 .. 1
  PROVE  /\ (2 * w + b) % 2^WordBits \in 0 .. 2^WordBits - 1
         /\ ((2 * w + b) % 2^WordBits) % 2 = b
<1>1. 2^WordBits \in Nat \ {0} /\ 0 \in 0 .. WordBits - 1
  BY Powers, WindowConstants
<1>2. 2^0 = 1 /\ 2^(0 + 1) = 2
  BY <1>1, PowersDouble
<1>3. ((2 * w + b) % 2^WordBits) % 2^(0 + 1) = 2 * (w % 2^0) + b
  BY <1>1, PushLow
<1> QED BY <1>1, <1>2, <1>3

\* The window's variables have their types, for every width.
THEOREM PolarityTypeCorrect == PolSpec => []PolTypeOK
<1>1. PolInit => PolTypeOK
  BY WindowConstants, Powers DEF PolInit, PolTypeOK, Verdict
<1>2. PolTypeOK /\ [PolNext]_polVars => PolTypeOK'
  <2> SUFFICES ASSUME PolTypeOK, [PolNext]_polVars
               PROVE  PolTypeOK'
    OBVIOUS
  <2> USE WindowConstants
  <2>1. CASE Polarity_Scan /\ under
    BY <2>1, Powers DEF Polarity_Scan, Polarity_ResetWindow, PolTypeOK
  <2>2. CASE Polarity_Scan /\ ~ under
    <3>1. win \in Nat /\ pin \in 0 .. 1 /\ win' = (2 * win + pin) % 2^WordBits
      BY <2>2, Powers DEF Polarity_Scan, Polarity_WinPush, PolTypeOK
    <3>2. win' \in 0 .. 2^WordBits - 1
      BY <3>1, PushParity
    <3>3. cnt' \in 0 .. WinSize /\ run' \in 0 .. WordBits
      BY <2>2 DEF Polarity_Scan, Polarity_WinPush, PolTypeOK
    <3>4. state' \in Verdict \cup {"unknown", "unpowered"}
      BY <2>2 DEF Polarity_Scan, PolTypeOK, Polarity_Eval, Verdict
    <3> QED BY <2>2, <3>2, <3>3, <3>4 DEF PolTypeOK, Polarity_Scan
  <2>3. CASE Polarity_Init
    BY <2>3, Powers DEF Polarity_Init, Polarity_ResetWindow, PolTypeOK
  <2>4. CASE Supply
    <3>1. under' \in BOOLEAN
      BY <2>4, Zenon DEF Supply, PolTypeOK
    <3>2. pin' \in 0 .. 1
      BY <2>4 DEF Supply, PolTypeOK
    <3> QED BY <2>4, <3>1, <3>2 DEF Supply, PolTypeOK
  <2>5. CASE UNCHANGED polVars
    BY <2>5 DEF polVars, PolTypeOK
  <2> QED BY <2>1, <2>2, <2>3, <2>4, <2>5 DEF PolNext
<1> QED BY <1>1, <1>2, PTL DEF PolSpec

\* A verdict of the window agrees with the sample just taken: full of zeros
\* or of ones, its last bit is that sample.
LEMMA VerdictIsSample ==
  ASSUME PolTypeOK, Polarity_Scan, ~ under, state' # state
  PROVE  state' = IF pin = 0 THEN "fwd" ELSE "rev"
<1>1. win \in Nat /\ pin \in 0 .. 1 /\ win' = (2 * win + pin) % 2^WordBits
  BY Powers DEF Polarity_Scan, Polarity_WinPush, PolTypeOK
<1>2. win' % 2 = pin
  BY <1>1, PushParity
<1> DEFINE v == Polarity_Eval(win', cnt')
<1>3. v # "unknown" /\ state' = v
  BY DEF Polarity_Scan
<1>4. CASE win' = 0 /\ v = "fwd"
  BY <1>1, <1>2, <1>3, <1>4
<1>5. CASE win' = 2^WinSize - 1 /\ v = "rev"
  <2>1. 2^WinSize \in Nat \ {0} /\ WinSize \in 1 .. WordBits
    BY Powers, WindowConstants
  <2>2. win' \in Nat /\ win' % 2^WinSize = 2^WinSize - 1
    BY <2>1, <1>5
  <2>3. win' % 2 = 1
    BY <2>1, <2>2, LowestBit
  <2> QED BY <2>3, <1>1, <1>2, <1>3, <1>5
<1>6. (win' = 0 /\ v = "fwd") \/ (win' = 2^WinSize - 1 /\ v = "rev")
  BY <1>3 DEF Polarity_Eval
<1> QED BY <1>4, <1>5, <1>6

\* The refinement: initial states map to initial states and every step of the
\* window to a step of the source, or to none while it is undecided.
THEOREM PolarityRefinement == PolSpec => PolarityIsSource
<1>1. PolInit => Source!SourceInit
  BY DEF PolInit, Source!SourceInit
<1>2. PolTypeOK /\ [PolNext]_polVars => [Source!SourceNext]_(Source!sourceVars)
  <2> SUFFICES ASSUME PolTypeOK, [PolNext]_polVars
               PROVE  Source!SourceNext \/ UNCHANGED Source!sourceVars
    OBVIOUS
  <2>1. CASE Polarity_Scan /\ under
    BY <2>1 DEF Polarity_Scan, Source!SourceNext, Source!Source_Scan
  <2>2. CASE Polarity_Scan /\ ~ under
    <3>1. CASE state' = state
      BY <2>2, <3>1 DEF Polarity_Scan, Source!sourceVars
    <3>2. CASE state' # state
      <4>1. state' = IF pin = 0 THEN "fwd" ELSE "rev"
        BY <2>2, <3>2, VerdictIsSample
      <4> QED BY <2>2, <4>1 DEF Polarity_Scan, Source!SourceNext, Source!Source_Scan
    <3> QED BY <3>1, <3>2
  <2>3. CASE Polarity_Init
    BY <2>3 DEF Polarity_Init, Source!SourceNext, Source!Source_Init
  <2>4. CASE Supply
    BY <2>4 DEF Supply, PolTypeOK, Source!SourceNext, Source!Source_Supply
  <2>5. CASE UNCHANGED polVars
    BY <2>5 DEF polVars, Source!sourceVars
  <2> QED BY <2>1, <2>2, <2>3, <2>4, <2>5 DEF PolNext
<1> QED BY <1>1, <1>2, PolarityTypeCorrect, PTL DEF PolSpec, PolarityIsSource, Source!SourceSpec

\* What the lowest bits of the word say of the samples since it was emptied:
\* zeros were sampled, or are left from emptying it; ones were sampled.
RunKnown ==
  \A k \in 0 .. WordBits :
    /\ win % 2^k = 0 => run >= k \/ run >= cnt
    /\ win % 2^k = 2^k - 1 => run >= k \/ k = 0

\* An empty word is zeros and nothing else.
LEMMA EmptyWord == \A k \in 0 .. WordBits : k = 0 \/ 0 % 2^k # 2^k - 1
<1> SUFFICES ASSUME NEW k \in 0 .. WordBits, k # 0 PROVE 0 % 2^k # 2^k - 1
  OBVIOUS
<1>1. k - 1 \in 0 .. WordBits - 1 /\ k - 1 \in 0 .. WordBits /\ (k - 1) + 1 = k
  BY WindowConstants
<1>2. 2^((k - 1) + 1) = 2 * 2^(k - 1) /\ 2^(k - 1) \in Nat \ {0}
  BY <1>1, PowersDouble, Powers
<1>3. 2^k \in Nat /\ 2^k >= 2
  BY <1>1, <1>2
<1> DEFINE m == 2^k
<1> HIDE DEF m
<1>4. 0 % m = 0
  BY <1>3 DEF m
<1> QED BY <1>3, <1>4 DEF m

\* One scan keeps it.
LEMMA ScanRun ==
  ASSUME PolTypeOK, PolTypeOK', RunKnown, Polarity_Scan, ~ under
  PROVE  RunKnown'
<1>1. /\ win \in Nat /\ pin \in 0 .. 1 /\ win' = (2 * win + pin) % 2^WordBits
      /\ run \in 0 .. WordBits /\ run' \in 0 .. WordBits /\ cnt \in Nat /\ cnt' \in Nat /\ cnt' <= cnt + 1
      /\ run' = IF run > 0 /\ win % 2 # pin THEN 1 ELSE IF run < WordBits THEN run + 1 ELSE run
      /\ win' \in Nat /\ WordBits \in Nat /\ WordBits >= 1
  BY WindowConstants, Powers DEF Polarity_Scan, Polarity_WinPush, PolTypeOK
<1> SUFFICES ASSUME NEW k \in 0 .. WordBits
             PROVE  /\ win' % 2^k = 0 => run' >= k \/ run' >= cnt'
                    /\ win' % 2^k = 2^k - 1 => run' >= k \/ k = 0
  BY DEF RunKnown
<1>2. CASE k = 0
  BY <1>1, <1>2
<1>3. CASE k # 0
  <2> DEFINE j == k - 1
  <2>1. j \in 0 .. WordBits - 1 /\ j \in 0 .. WordBits /\ j + 1 = k
    BY <1>1, <1>3
  <2> HIDE DEF j
  <2>2. 2^k = 2 * 2^j /\ 2^j \in Nat \ {0}
    BY <2>1, PowersDouble, Powers
  <2> DEFINE low == win % 2^j
  <2>3. low \in Nat /\ win' % 2^k = 2 * low + pin
    <3>1. low \in Nat
      BY <1>1, <2>2
    <3>2. ((2 * win + pin) % 2^WordBits) % 2^(j + 1) = 2 * low + pin
      BY <1>1, <2>1, PushLow
    <3> QED BY <1>1, <2>1, <3>1, <3>2
  <2>4. CASE win' % 2^k = 0
    <3>1. pin = 0 /\ low = 0
      BY <1>1, <2>3, <2>4
    <3>2. run >= j \/ run >= cnt
      BY <3>1, <2>1 DEF RunKnown
    <3>3. j \in 1 .. WordBits => win % 2 = 0
      BY <1>1, <3>1, LowestBit
    <3> QED BY <1>1, <2>1, <2>2, <2>4, <3>1, <3>2, <3>3
  <2>5. CASE win' % 2^k = 2^k - 1
    <3>1. pin = 1 /\ low = 2^j - 1
      <4> DEFINE p == 2^j
      <4>1. p \in Nat \ {0} /\ 2 * low + pin = 2 * p - 1
        BY <2>2, <2>3, <2>5
      <4> HIDE DEF low, p
      <4> QED BY <1>1, <2>3, <4>1 DEF p
    <3>2. run >= j \/ j = 0
      BY <3>1, <2>1 DEF RunKnown
    <3>3. j \in 1 .. WordBits => win % 2 = 1
      BY <1>1, <3>1, LowestBit
    <3> HIDE DEF low
    <3>4. run' >= k
      BY <1>1, <2>1, <3>1, <3>2, <3>3
    <3>5. win' % 2^k # 0
      BY <2>3, <3>1
    <3> QED BY <3>4, <3>5
  <2> QED BY <2>4, <2>5
<1> QED BY <1>2, <1>3

\* The invariant behind a verdict, for every size of window and word.
THEOREM PolarityRunKnown == PolSpec => []RunKnown
<1>0. ASSUME win = 0, cnt = 0, run = 0 PROVE RunKnown
  BY <1>0, EmptyWord DEF RunKnown
<1>1. PolInit => RunKnown
  BY <1>0 DEF PolInit
<1>2. PolTypeOK /\ PolTypeOK' /\ RunKnown /\ [PolNext]_polVars => RunKnown'
  <2> SUFFICES ASSUME PolTypeOK, PolTypeOK', RunKnown, [PolNext]_polVars
               PROVE  RunKnown'
    OBVIOUS
  <2>1. CASE Polarity_ResetWindow
    BY <2>1, EmptyWord DEF Polarity_ResetWindow, RunKnown
  <2>2. CASE Polarity_Scan /\ ~ under
    BY <2>2, ScanRun
  <2>3. CASE UNCHANGED <<win, cnt, run>>
    BY <2>3 DEF RunKnown
  <2> QED BY <2>1, <2>2, <2>3 DEF PolNext, Polarity_Scan, Polarity_Init, Supply, polVars
<1> QED BY <1>1, <1>2, PolarityTypeCorrect, PTL DEF PolSpec

\* A direction is announced only after WinSize equal samples since the window
\* was emptied, for every size of window and word.
THEOREM PolarityVerdictNeedsWindow == PolSpec => VerdictNeedsWindow
<1> DEFINE Announced == state' # state /\ state' \in Verdict =>
                          run' >= WinSize /\ win' % 2 = Level(state')
<1>1. PolTypeOK /\ PolTypeOK' /\ RunKnown' /\ [PolNext]_polVars => [Announced]_polVars
  <2> SUFFICES ASSUME PolTypeOK, PolTypeOK', RunKnown', PolNext, state' # state, state' \in Verdict
               PROVE  run' >= WinSize /\ win' % 2 = Level(state')
    BY DEF polVars
  <2>1. Polarity_Scan /\ ~ under
    BY DEF PolNext, Polarity_Scan, Polarity_Init, Supply, Verdict
  <2>2. state' = IF pin = 0 THEN "fwd" ELSE "rev"
    BY <2>1, VerdictIsSample
  <2>3. win \in Nat /\ pin \in 0 .. 1 /\ win' = (2 * win + pin) % 2^WordBits
    BY <2>1, Powers, WindowConstants DEF Polarity_Scan, Polarity_WinPush, PolTypeOK
  <2>4. win' % 2 = pin
    BY <2>3, PushParity
  <2> DEFINE v == Polarity_Eval(win', cnt')
  <2>5. v = state' /\ cnt' >= WinSize /\ run' \in Nat
    BY <2>1 DEF Polarity_Scan, Polarity_Eval, Polarity_WinFull, PolTypeOK
  <2>6. CASE win' = 0
    <3>1. WordBits \in 0 .. WordBits /\ win' % 2^WordBits = 0
      BY <2>6, Powers, WindowConstants
    <3>2. run' >= WordBits \/ run' >= cnt'
      BY <3>1 DEF RunKnown
    <3> QED BY <2>2, <2>3, <2>4, <2>5, <3>2, WindowConstants DEF Level, PolTypeOK
  <2>7. CASE win' = 2^WinSize - 1
    <3>1. WinSize \in 0 .. WordBits /\ WinSize # 0 /\ 2^WinSize \in Nat \ {0}
      BY Powers, WindowConstants
    <3>2. win' % 2^WinSize = 2^WinSize - 1
      BY <2>7, <3>1
    <3>3. run' >= WinSize
      BY <3>1, <3>2 DEF RunKnown
    <3> QED BY <2>2, <2>3, <2>4, <3>3 DEF Level
  <2>8. win' = 0 \/ win' = 2^WinSize - 1
    BY <2>2, <2>5 DEF Polarity_Eval
  <2> QED BY <2>6, <2>7, <2>8
<1> QED BY <1>1, PolarityTypeCorrect, PolarityRunKnown, PTL DEF PolSpec, VerdictNeedsWindow

-----------------------------------------------------------------------------
(* The PWM ramp: symmetric bridges, polarity changes at 50 % only, and an  *)
(* emergency stop that holds                                               *)

Duty == 1 .. 2 * Neutral - 1

PwmTypes ==
  /\ cmd \in [dir : CmdDir, duty : 0 .. 2 * Neutral]
  /\ pst \in {"stop", "ramp", "run"}
  /\ duty \in [Group -> Duty] /\ goals \in [Group -> Duty] /\ next \in [Group -> Duty]
  /\ wrote \in [Group -> Duty \cup {Unwritten}]
  /\ hw \in [Group -> [cmp : Duty, pol : {"run", "stop"}]]
  /\ tickPc \in {"idle", "test", "start", "step", "apply", "done"}
  /\ want \in CmdDir
  /\ estop \in BOOLEAN /\ cut \in BOOLEAN

\* The compare values are the duties the thread remembers; what it remembers
\* having written is one of them.
Remembered ==
  \A g \in Group : hw[g].cmp = duty[g] /\ wrote[g] \in {Unwritten, duty[g]}

\* A stop is aimed at 50 %, and every target is symmetric.
Aimed == (want = "stop" => goals = Even) /\ goals["U"] + goals["V"] = 2 * Neutral

\* The duties are symmetric, and so are the next ones once computed.
Symmetric ==
  /\ duty["U"] + duty["V"] = 2 * Neutral
  /\ tickPc = "apply" => next["U"] + next["V"] = 2 * Neutral

\* At rest both sides are at 50 %; a tick that starts a ramp found it at rest.
RestIsEven ==
  /\ tickPc = "start" => pst = "stop"
  /\ pst = "stop" /\ tickPc \in {"idle", "test", "start"} => duty = Even

\* A ramp no emergency stop cut into is under way with running polarity.
RampIsRun ==
  ~ cut =>
    /\ tickPc \in {"step", "apply", "done"} => pst # "stop"
    /\ pst # "stop" => \A g \in Group : hw[g].pol = "run"

\* Nothing starts after an emergency stop.
EStopRests ==
  estop =>
    /\ cmd.dir = "stop"
    /\ ~ cut => /\ tickPc \in {"idle", "test"} /\ (tickPc = "test" => want = "stop")
                /\ pst = "stop" /\ \A g \in Group : hw[g].pol = "stop"

PwmInv ==
  PwmTypes /\ Remembered /\ Aimed /\ Symmetric /\ RestIsEven /\ RampIsRun /\ EStopRests
\* What a command aims at is a duty, the two sides are symmetric, and a stop
\* aims at 50 %.
LEMMA TargetsAreSymmetric ==
  ASSUME NEW c \in [dir : CmdDir, duty : 0 .. 2 * Neutral]
  PROVE  /\ \A g \in Group : TargetOf(c, g) \in Duty
         /\ TargetOf(c, "U") + TargetOf(c, "V") = 2 * Neutral
         /\ c.dir = "stop" => \A g \in Group : TargetOf(c, g) = Neutral
<1> DEFINE eff == Clamp(IF c.duty = 0 THEN RunDuty ELSE c.duty)
<1>1. eff \in Duty
  BY PwmConstants DEF Clamp, Duty
<1>2. Neutral \in Duty /\ 2 * Neutral - eff \in Duty
  BY <1>1, PwmConstants DEF Duty
<1> HIDE DEF eff
<1>3. c.dir \in CmdDir
  OBVIOUS
<1>4. CASE c.dir = "stop"
  <2>1. \A g : TargetOf(c, g) = Neutral
    BY <1>4 DEF TargetOf
  <2> QED BY <2>1, <1>2, PwmConstants
<1>5. CASE c.dir = "fwd"
  <2>1. \A g : TargetOf(c, g) = IF g = "V" THEN eff ELSE 2 * Neutral - eff
    BY <1>5 DEF TargetOf, eff
  <2> QED BY <2>1, <1>1, <1>2, <1>5, PwmConstants DEF Duty
<1>6. CASE c.dir = "rev"
  <2>1. \A g : TargetOf(c, g) = IF g = "U" THEN eff ELSE 2 * Neutral - eff
    BY <1>6 DEF TargetOf, eff
  <2> QED BY <2>1, <1>1, <1>2, <1>6, PwmConstants DEF Duty
<1> QED BY <1>3, <1>4, <1>5, <1>6 DEF CmdDir

\* A step of the ramp stays between where it is and where it aims.
LEMMA StepIsDuty ==
  ASSUME NEW c \in Duty, NEW t \in Duty, NEW step \in Nat \ {0}
  PROVE  RampStep8(c, t, step) \in Duty
BY PwmConstants DEF Duty, RampStep8

\* Two sides that mirror each other make mirrored steps.
LEMMA StepIsSymmetric ==
  ASSUME NEW u \in Duty, NEW v \in Duty, NEW s \in Duty, NEW t \in Duty,
         NEW step \in Nat \ {0}, u + v = 2 * Neutral, s + t = 2 * Neutral
  PROVE  RampStep8(u, s, step) + RampStep8(v, t, step) = 2 * Neutral
BY PwmConstants DEF Duty, RampStep8

\* The invariant holds before the first tick.
LEMMA PwmInitInv == PwmInit => PwmInv
<1> SUFFICES ASSUME PwmInit PROVE PwmInv
  OBVIOUS
<1>0. Neutral \in Duty
  BY PwmConstants DEF Duty
<1>1. PwmTypes
  <2>1. cmd \in [dir : CmdDir, duty : 0 .. 2 * Neutral]
    BY PwmConstants DEF PwmInit, CmdDir
  <2>2. duty \in [Group -> Duty] /\ goals \in [Group -> Duty] /\ next \in [Group -> Duty]
    BY <1>0 DEF PwmInit, Even
  <2>3. hw \in [Group -> [cmp : Duty, pol : {"run", "stop"}]]
    BY <1>0 DEF PwmInit
  <2>4. wrote \in [Group -> Duty \cup {Unwritten}]
    BY DEF PwmInit
  <2>5. want \in CmdDir /\ estop \in BOOLEAN /\ cut \in BOOLEAN
    BY Zenon DEF PwmInit, CmdDir
  <2> QED BY <2>1, <2>2, <2>3, <2>4, <2>5 DEF PwmInit, PwmTypes
<1>2. Remembered /\ Aimed /\ Symmetric /\ RestIsEven /\ RampIsRun /\ EStopRests
  BY <1>0, PwmConstants DEF PwmInit, Group, Even, Unwritten, Duty,
     Remembered, Aimed, Symmetric, RestIsEven, RampIsRun, EStopRests
<1> QED BY <1>1, <1>2 DEF PwmInv

\* Every command and every point of a tick keeps it.
LEMMA PwmNextInv == PwmInv /\ [PwmNext]_pwmVars => PwmInv'
<1> SUFFICES ASSUME PwmInv, [PwmNext]_pwmVars PROVE PwmInv'
  OBVIOUS
<1> USE DEF PwmInv
<1>0. Neutral \in Duty /\ Even \in [Group -> Duty] /\ Even["U"] + Even["V"] = 2 * Neutral
  BY PwmConstants DEF Duty, Even, Group
<1>1. ASSUME NEW dir \in CmdDir, NEW pct \in 0 .. 2 * Neutral, Cmd_Post(dir, pct)
      PROVE  PwmInv'
  <2>1. PwmTypes'
    <3>1. cmd' \in [dir : CmdDir, duty : 0 .. 2 * Neutral]
      BY <1>1, PwmConstants DEF Cmd_Post
    <3> QED BY <1>1, <3>1 DEF Cmd_Post, PwmTypes
  <2> QED BY <1>1, <2>1 DEF Cmd_Post, Remembered, Aimed, Symmetric, RestIsEven, RampIsRun, EStopRests
<1>2. CASE Dev_PwmMotor_EStop
  <2>1. PwmTypes'
    <3>1. cmd' \in [dir : CmdDir, duty : 0 .. 2 * Neutral]
      BY <1>2, PwmConstants DEF Dev_PwmMotor_EStop, Withdrawn, CmdDir
    <3>2. hw' \in [Group -> [cmp : Duty, pol : {"run", "stop"}]]
      BY <1>0, <1>2 DEF Dev_PwmMotor_EStop
    <3>3. cut' \in BOOLEAN /\ estop' \in BOOLEAN
      BY <1>2, Zenon DEF Dev_PwmMotor_EStop, PwmTypes
    <3> QED BY <1>0, <1>2, <3>1, <3>2, <3>3 DEF Dev_PwmMotor_EStop, PwmTypes, AfterEStop
  <2>2. Remembered' /\ Aimed' /\ Symmetric'
    BY <1>0, <1>2 DEF Dev_PwmMotor_EStop, Remembered, Aimed, Symmetric, Even, Group
  <2>3. RestIsEven' /\ EStopRests'
    BY <1>2 DEF Dev_PwmMotor_EStop, RestIsEven, EStopRests, AfterEStop, Withdrawn
  <2>4. RampIsRun'
    BY <1>2 DEF Dev_PwmMotor_EStop, RampIsRun, AfterEStop
  <2> QED BY <2>1, <2>2, <2>3, <2>4
<1>3. CASE Tick_Fetch
  <2>1. cmd \in [dir : CmdDir, duty : 0 .. 2 * Neutral]
    BY DEF PwmTypes
  <2>2. /\ goals' \in [Group -> Duty] /\ goals'["U"] + goals'["V"] = 2 * Neutral
        /\ want' = "stop" => goals' = Even
    BY <1>3, <2>1, TargetsAreSymmetric DEF Tick_Fetch, Group, Even
  <2>3. PwmTypes'
    BY <1>3, <2>1, <2>2 DEF Tick_Fetch, PwmTypes
  <2>4. Remembered' /\ Aimed' /\ Symmetric'
    BY <1>3, <2>2 DEF Tick_Fetch, Remembered, Aimed, Symmetric
  <2>5. RestIsEven' /\ RampIsRun' /\ EStopRests'
    BY <1>3, <2>1 DEF Tick_Fetch, RestIsEven, RampIsRun, EStopRests
  <2> QED BY <2>3, <2>4, <2>5
<1>4. CASE Tick_Start
  <2>1. hw' = [g \in Group |-> [cmp |-> hw[g].cmp, pol |-> "run"]]
    BY <1>4 DEF Tick_Start, PwmTypes
  <2>2. duty = Even /\ duty' = Even
    BY <1>4 DEF Tick_Start, RestIsEven
  <2>3. PwmTypes'
    BY <1>0, <1>4, <2>1 DEF Tick_Start, PwmTypes
  <2>4. Remembered' /\ Aimed' /\ Symmetric'
    BY <1>0, <1>4, <2>1, <2>2 DEF Tick_Start, Remembered, Aimed, Symmetric
  <2>5. RestIsEven' /\ RampIsRun'
    BY <1>4, <2>1 DEF Tick_Start, RestIsEven, RampIsRun
  <2>6. EStopRests'
    BY <1>4 DEF Tick_Start, EStopRests
  <2> QED BY <2>3, <2>4, <2>5, <2>6
<1>5. CASE Tick_Step
  <2> DEFINE step == IF want = "stop" THEN RampFast ELSE RampSlow
  <2>1. step \in Nat \ {0}
    BY PwmConstants
  <2> HIDE DEF step
  <2>2. next' = [g \in Group |-> RampStep8(duty[g], goals[g], step)]
    BY <1>5 DEF Tick_Step, step
  <2>3. next' \in [Group -> Duty]
    BY <2>1, <2>2, StepIsDuty DEF PwmTypes
  <2>4. next'["U"] + next'["V"] = 2 * Neutral
    <3>1. "U" \in Group /\ "V" \in Group
      BY DEF Group
    <3> QED BY <2>1, <2>2, <3>1, StepIsSymmetric DEF PwmTypes, Symmetric, Aimed
  <2>5. PwmTypes'
    BY <1>5, <2>3 DEF Tick_Step, PwmTypes
  <2>6. Remembered' /\ Aimed' /\ Symmetric'
    BY <1>5, <2>4 DEF Tick_Step, Remembered, Aimed, Symmetric
  <2>7. RestIsEven' /\ RampIsRun' /\ EStopRests'
    BY <1>5 DEF Tick_Step, RestIsEven, RampIsRun, EStopRests
  <2> QED BY <2>5, <2>6, <2>7
<1>6. CASE Tick_Apply
  <2>1. \A g \in Group : hw'[g] = [cmp |-> next[g], pol |-> hw[g].pol]
    BY <1>6 DEF Tick_Apply, PwmTypes, Remembered, Duty, Unwritten
  <2>2. hw' = [g \in Group |-> hw'[g]]
    BY <1>6 DEF Tick_Apply
  <2>3. PwmTypes'
    BY <1>6, <2>1, <2>2 DEF Tick_Apply, PwmTypes
  <2>4. Remembered'
    <3>1. duty' = next /\ wrote' = next
      BY <1>6 DEF Tick_Apply
    <3>2. ASSUME NEW g \in Group PROVE hw'[g].cmp = next[g]
      <4>1. hw'[g] = [cmp |-> next[g], pol |-> hw[g].pol]
        BY <2>1
      <4> QED BY <4>1
    <3> QED BY <3>1, <3>2 DEF Remembered
  <2>5. Aimed' /\ Symmetric'
    BY <1>6 DEF Tick_Apply, Aimed, Symmetric
  <2>6. RestIsEven' /\ RampIsRun' /\ EStopRests'
    BY <1>6, <2>1 DEF Tick_Apply, RestIsEven, RampIsRun, EStopRests
  <2> QED BY <2>3, <2>4, <2>5, <2>6
<1>7. CASE Tick_Done
  <2>1. \A g \in Group : hw'[g].cmp = hw[g].cmp
    BY <1>7 DEF Tick_Done, PolAfter, PwmTypes
  <2>2. hw' \in [Group -> [cmp : Duty, pol : {"run", "stop"}]]
    BY <1>7 DEF Tick_Done, PolAfter, PwmTypes
  <2>3. PwmTypes'
    <3>1. cut' \in BOOLEAN
      BY <1>7, Zenon DEF Tick_Done, PolAfter, PwmTypes
    <3> QED BY <1>7, <2>2, <3>1 DEF Tick_Done, PolAfter, PwmTypes
  <2>4. Remembered' /\ Aimed' /\ Symmetric'
    BY <1>7, <2>1 DEF Tick_Done, PolAfter, Remembered, Aimed, Symmetric
  <2>5. pst' = "stop" => Arrived /\ want = "stop"
    BY <1>7 DEF Tick_Done
  <2>6. RestIsEven'
    BY <1>7, <2>5 DEF Tick_Done, PolAfter, RestIsEven, Aimed, Arrived
  <2>7. RampIsRun'
    BY <1>7, <2>5 DEF Tick_Done, PolAfter, RampIsRun, PwmTypes
  <2>8. EStopRests'
    <3>1. pst' = "stop" => \A g \in Group : hw'[g].pol = "stop"
      BY <1>7, <2>5 DEF Tick_Done, PolAfter, PwmTypes
    <3> QED BY <1>7, <3>1 DEF Tick_Done, PolAfter, EStopRests
  <2> QED BY <2>3, <2>4, <2>6, <2>7, <2>8
<1>8. CASE Tick_Test
  <2>1. PwmTypes'
    BY <1>8 DEF Tick_Test, Resting, PwmTypes
  <2>2. Remembered' /\ Aimed' /\ Symmetric'
    BY <1>8 DEF Tick_Test, Remembered, Aimed, Symmetric
  <2>3. RestIsEven' /\ RampIsRun' /\ EStopRests'
    BY <1>8 DEF Tick_Test, Resting, RestIsEven, RampIsRun, EStopRests
  <2> QED BY <2>1, <2>2, <2>3
<1>9. CASE UNCHANGED pwmVars
  BY <1>9 DEF pwmVars, PwmTypes, Remembered, Aimed, Symmetric, RestIsEven, RampIsRun, EStopRests
<1> QED BY <1>1, <1>2, <1>3, <1>4, <1>5, <1>6, <1>7, <1>8, <1>9 DEF PwmNext, PwmTick

\* The inductive invariant, for every choice of duties and steps.
THEOREM PwmInvariant == PwmSpec => []PwmInv
BY PwmInitInv, PwmNextInv, PTL DEF PwmSpec

\* Between ticks no emergency stop cut into, the two bridges are symmetric
\* around 50 %, a motor is driven with running polarity, and an emergency
\* stop keeps the output stopped until the next command.
THEOREM PwmBridgeIsSafe == PwmSpec => []BridgeIsSafe
<1>1. PwmInv => BridgeBalanced
  BY DEF PwmInv, Remembered, Symmetric, BridgeBalanced, Group
<1>2. PwmInv => DrivenWithRunPolarity
  BY DEF PwmInv, Remembered, RestIsEven, RampIsRun, DrivenWithRunPolarity, AtNeutral, Even
<1>3. PwmInv => EStopHolds
  BY DEF PwmInv, Remembered, RestIsEven, EStopRests, EStopHolds, Stopped, AtNeutral, Even
<1>4. PwmInv => BridgeIsSafe
  BY <1>1, <1>2, <1>3 DEF BridgeIsSafe
<1> QED BY <1>4, PwmInvariant, PTL

\* The polarity of a bridge changes at 50 % on both sides only.
THEOREM PwmPolarityAtNeutral == PwmSpec => PolarityAtNeutral
<1> DEFINE N == (\E g \in Group : hw'[g].pol # hw[g].pol) => \A g \in Group : hw'[g].cmp = Neutral
<1>1. PwmInv /\ [PwmNext]_pwmVars => [N]_hw
  <2> SUFFICES ASSUME PwmInv, [PwmNext]_pwmVars, hw' # hw PROVE N
    OBVIOUS
  <2>1. CASE Dev_PwmMotor_EStop
    BY <2>1 DEF Dev_PwmMotor_EStop
  <2>2. CASE Tick_Start
    BY <2>2 DEF Tick_Start, PwmInv, PwmTypes, Remembered, RestIsEven, Even
  <2>3. CASE Tick_Apply
    BY <2>3 DEF Tick_Apply, PwmInv, PwmTypes
  <2>4. CASE Tick_Done
    BY <2>4 DEF Tick_Done, PolAfter, PwmInv, PwmTypes, Remembered, Aimed, Arrived, Even
  <2>5. CASE UNCHANGED hw
    BY <2>5
  <2> QED BY <2>1, <2>2, <2>3, <2>4, <2>5
          DEF PwmNext, PwmTick, pwmVars, Cmd_Post, Tick_Fetch, Tick_Test, Tick_Step
<1> QED BY <1>1, PwmInvariant, PTL DEF PwmSpec, PolarityAtNeutral

-----------------------------------------------------------------------------
(* The motor's hall sensors *)

Way == {"FWD", "REV"}
Batch == [n : Nat, net : Int, sure : BOOLEAN]
Hall == [iv : BOOLEAN, age : Nat, ivc : 0 .. 2, rpm : BOOLEAN, cdir : Way \cup {"NONE", "STOP"},
         vdir : Way \cup {"NONE"}, conf : 0 .. ConfirmCnt - 1, unread : Nat, first : BOOLEAN,
         stale : BOOLEAN]

HallTypeOK ==
  /\ phase \in 0 .. 3 /\ b_last \in {B(phase), 2} /\ hall \in Hall
  /\ turn \in {"sleep", "sum", "sign"} /\ count \in Nat /\ init \in {"no", "dirs", "rest"}
  /\ way \in Way /\ judged \in 0 .. ConfirmCnt
  /\ batch \in Batch /\ given \in [by : Int, batch : Batch, stale : BOOLEAN]

\* A direction in force is the one to fall back on too; samples that agree
\* with the way of the rotor have been counted or have confirmed it.
JudgedRight ==
  /\ hall.cdir \in Way => hall.vdir = hall.cdir
  /\ judged > 0 => \/ hall.cdir = way /\ hall.conf = 0
                   \/ hall.cdir # way /\ hall.conf >= judged

\* The edges not handed over yet are those of the batches on their way.
CountedRight ==
  /\ turn # "sign" => hall.unread <= batch.n /\ (batch.sure => hall.unread = batch.n /\ ~ hall.stale)
  /\ turn = "sign" =>
       /\ count <= hall.unread /\ hall.unread - count <= batch.n
       /\ batch.sure => hall.unread - count = batch.n
       /\ count <= given.batch.n
       /\ given.batch.sure => count = given.batch.n /\ ~ hall.stale

\* All edges of a sure batch went the same way, and the direction that will
\* sign them is theirs; the one edge between sum and sign cannot change it.
SignsWith(d, b, most) ==
  /\ b.net = Signed(d, b.n)
  /\ b.n > 0 => hall.vdir = d /\ hall.cdir \in {d, "STOP"} /\ hall.conf <= most
SignedRight ==
  /\ batch.sure => SignsWith(way, batch, 0)
  /\ turn = "sign" /\ given.batch.sure => \E d \in Way : SignsWith(d, given.batch, batch.n)

HallInv == HallTypeOK /\ JudgedRight /\ CountedRight /\ SignedRight /\ PulsesAreTrue

\* The rotor's phase after a step, and the level of A when B falls: it shows
\* the way of the rotor.
LEMMA Steps ==
  ASSUME NEW p \in 0 .. 3, NEW s \in {1, -1}
  PROVE  /\ (p + s) % 4 \in 0 .. 3
         /\ B(p) = 1 /\ B((p + s) % 4) = 0 => (A((p + s) % 4) <=> s = 1)
         /\ B(p) # B((p + s) % 4) \/ B(p) = B((p + s) % 4)
<1>1. CASE s = 1
  <2>1. (p + s) % 4 = IF p = 3 THEN 0 ELSE p + 1
    BY <1>1
  <2> QED BY <1>1, <2>1 DEF A, B
<1>2. CASE s = -1
  <2>1. (p + s) % 4 = IF p = 0 THEN 3 ELSE p - 1
    BY <1>2
  <2> QED BY <1>2, <2>1 DEF A, B
<1> QED BY <1>1, <1>2

\* An edge is counted.
LEMMA CountEdgeOK ==
  ASSUME NEW h \in Hall, NEW ok \in BOOLEAN
  PROVE  LET g == Count_Edge(h, ok)
         IN /\ g \in Hall /\ g.unread = h.unread + 1 /\ g.rpm = h.rpm
            /\ g.cdir = h.cdir /\ g.vdir = h.vdir /\ g.conf = h.conf
            /\ g.first = h.first /\ g.stale = h.stale
<1>1. (h.iv \/ ok) \in BOOLEAN /\ h.unread + 1 \in Nat /\ (IF ok THEN 0 ELSE h.age) \in Nat
  BY DEF Hall
<1> DEFINE v == h.iv \/ ok
           u == h.unread + 1
           a == IF ok THEN 0 ELSE h.age
           g == Count_Edge(h, ok)
<1>2. g = [h EXCEPT !.unread = u, !.iv = v, !.age = a]
  BY DEF Count_Edge
<1> HIDE DEF v, a, g
<1>3. /\ g \in Hall /\ g.unread = u /\ g.rpm = h.rpm
      /\ g.cdir = h.cdir /\ g.vdir = h.vdir /\ g.conf = h.conf
      /\ g.first = h.first /\ g.stale = h.stale
  BY <1>1, <1>2 DEF Hall, v, a
<1> QED BY <1>3 DEF g

\* A falling edge of B is judged.
LEMMA JudgeOK ==
  ASSUME NEW h \in Hall, NEW a \in BOOLEAN
  PROVE  LET d == IF a # HallInvert THEN "FWD" ELSE "REV"
             g == Judge(h, a)
         IN /\ g \in Hall /\ g.unread = h.unread /\ g.first = h.first /\ g.stale = h.stale
            /\ ~ h.rpm => g = h
            /\ h.rpm /\ h.cdir = d => g.cdir = d /\ g.vdir = h.vdir /\ g.conf = 0
            /\ h.rpm /\ h.cdir # d =>
                 \/ h.conf + 1 >= ConfirmCnt /\ g.cdir = d /\ g.vdir = d /\ g.conf = 0
                 \/ /\ h.conf + 1 < ConfirmCnt /\ g.cdir = h.cdir /\ g.vdir = h.vdir
                    /\ g.conf = h.conf + 1
<1> DEFINE d == IF a # HallInvert THEN "FWD" ELSE "REV"
           g == Judge(h, a)
<1>1. d \in Way
  BY DEF Way
<1> HIDE DEF d
<1>2. CASE ~ h.rpm
  <2>1. g = h
    BY <1>2 DEF Judge
  <2> QED BY <1>2, <2>1 DEF d, Hall
<1>3. CASE h.rpm /\ h.cdir = d
  <2>1. g = [h EXCEPT !.conf = 0] /\ 0 \in 0 .. ConfirmCnt - 1
    BY <1>3, HallConstants DEF Judge, d
  <2> HIDE DEF g
  <2>2. /\ g \in Hall /\ g.unread = h.unread /\ g.first = h.first /\ g.stale = h.stale
        /\ g.cdir = d /\ g.vdir = h.vdir /\ g.conf = 0
    BY <1>3, <2>1 DEF Hall
  <2> QED BY <1>3, <2>2 DEF d, g
<1>4. CASE h.rpm /\ h.cdir # d /\ h.conf + 1 >= ConfirmCnt
  <2>1. g = [h EXCEPT !.cdir = d, !.vdir = d, !.conf = 0] /\ 0 \in 0 .. ConfirmCnt - 1
    BY <1>4, HallConstants DEF Judge, Confirmed, d
  <2> HIDE DEF g
  <2>2. /\ g \in Hall /\ g.unread = h.unread /\ g.first = h.first /\ g.stale = h.stale
        /\ g.cdir = d /\ g.vdir = d /\ g.conf = 0
    BY <1>1, <2>1 DEF Hall
  <2> QED BY <1>4, <2>2 DEF d, g
<1>5. CASE h.rpm /\ h.cdir # d /\ ~ (h.conf + 1 >= ConfirmCnt)
  <2>1. g = [h EXCEPT !.conf = @ + 1] /\ h.conf + 1 \in 0 .. ConfirmCnt - 1 /\ h.conf + 1 < ConfirmCnt
    BY <1>5, HallConstants DEF Judge, Confirmed, d, Hall
  <2> HIDE DEF g
  <2>2. /\ g \in Hall /\ g.unread = h.unread /\ g.first = h.first /\ g.stale = h.stale
        /\ g.cdir = h.cdir /\ g.vdir = h.vdir /\ g.conf = h.conf + 1
    BY <2>1 DEF Hall
  <2> QED BY <1>5, <2>1, <2>2 DEF d, g
<1> QED BY <1>2, <1>3, <1>4, <1>5 DEF d, g

\* The way of the rotor at a step.
Turns(s) == IF (s = 1) # HallInvert THEN "FWD" ELSE "REV"

\* What an interrupt does to the instance: either the edge is only counted, or
\* it is judged as well, and then for the way in which the rotor turns.
LEMMA EdgeHall ==
  ASSUME HallTypeOK, NEW s \in {1, -1}, NEW ok \in BOOLEAN, Edge(s, ok)
  PROVE  LET w == Turns(s)
             j == IF w = way THEN judged ELSE 0
         IN /\ w \in Way /\ way' = w
            /\ phase' \in 0 .. 3 /\ b_last' \in {B(phase'), 2}
            /\ hall' \in Hall /\ hall'.unread = hall.unread + 1
            /\ hall'.first = hall.first /\ hall'.stale = hall.stale
            /\ \/ /\ judged' = j
                  /\ hall'.cdir = hall.cdir /\ hall'.vdir = hall.vdir /\ hall'.conf = hall.conf
               \/ /\ judged' = IF j < ConfirmCnt THEN j + 1 ELSE j
                  /\ hall.cdir = w
                  /\ hall'.cdir = w /\ hall'.vdir = hall.vdir /\ hall'.conf = 0
               \/ /\ judged' = IF j < ConfirmCnt THEN j + 1 ELSE j
                  /\ hall.cdir # w /\ hall.conf + 1 >= ConfirmCnt
                  /\ hall'.cdir = w /\ hall'.vdir = w /\ hall'.conf = 0
               \/ /\ judged' = IF j < ConfirmCnt THEN j + 1 ELSE j
                  /\ hall.cdir # w /\ hall.conf + 1 < ConfirmCnt
                  /\ hall'.cdir = hall.cdir /\ hall'.vdir = hall.vdir /\ hall'.conf = hall.conf + 1
<1> DEFINE p == (phase + s) % 4
           isB == B(p) # B(phase)
           falls == isB /\ b_last = 1 /\ B(p) = 0
           w == Turns(s)
           d == IF A(p) # HallInvert THEN "FWD" ELSE "REV"
           h == Count_Edge(hall, ok)
           g == Judge(h, A(p))
           j == IF w = way THEN judged ELSE 0
<1>1. /\ phase' = p /\ way' = w
      /\ b_last' = IF isB THEN B(p) ELSE b_last
      /\ hall' = IF falls THEN g ELSE h
      /\ judged' = IF falls /\ hall.rpm /\ j < ConfirmCnt THEN j + 1 ELSE j
  BY DEF Edge, Turns
<1>2. phase \in 0 .. 3 /\ b_last \in {B(phase), 2} /\ hall \in Hall /\ judged \in 0 .. ConfirmCnt
  BY DEF HallTypeOK
<1>3. p \in 0 .. 3 /\ (B(phase) = 1 /\ B(p) = 0 => (A(p) <=> s = 1))
  BY <1>2, Steps
<1>4. A(p) \in BOOLEAN /\ B(phase) \in {0, 1} /\ B(p) \in {0, 1}
  BY DEF A, B
<1>5. falls => d = w
  BY <1>2, <1>3, <1>4 DEF Turns
<1>6. /\ h \in Hall /\ h.unread = hall.unread + 1 /\ h.rpm = hall.rpm
      /\ h.cdir = hall.cdir /\ h.vdir = hall.vdir /\ h.conf = hall.conf
      /\ h.first = hall.first /\ h.stale = hall.stale
  BY <1>2, CountEdgeOK
<1> HIDE DEF h
<1>7. /\ g \in Hall /\ g.unread = h.unread /\ g.first = h.first /\ g.stale = h.stale
      /\ ~ h.rpm => g = h
      /\ h.rpm /\ h.cdir = d => g.cdir = d /\ g.vdir = h.vdir /\ g.conf = 0
      /\ h.rpm /\ h.cdir # d =>
           \/ h.conf + 1 >= ConfirmCnt /\ g.cdir = d /\ g.vdir = d /\ g.conf = 0
           \/ /\ h.conf + 1 < ConfirmCnt /\ g.cdir = h.cdir /\ g.vdir = h.vdir
              /\ g.conf = h.conf + 1
  BY <1>4, <1>6, JudgeOK
<1>8. w \in Way
  BY DEF Turns, Way
<1>9. phase' \in 0 .. 3 /\ b_last' \in {B(phase'), 2}
  BY <1>1, <1>2, <1>3, <1>4
<1> HIDE DEF g, w, j, d, p
<1>10. CASE ~ (falls /\ hall.rpm)
  <2>1. hall' = h /\ judged' = j
    BY <1>1, <1>6, <1>7, <1>10
  <2> QED BY <1>1, <1>6, <1>8, <1>9, <2>1 DEF w, j
<1>11. CASE falls /\ hall.rpm
  <2>1. hall' = g /\ d = w /\ h.rpm /\ judged' = IF j < ConfirmCnt THEN j + 1 ELSE j
    BY <1>1, <1>5, <1>6, <1>11
  <2> HIDE DEF falls
  <2>2. CASE hall.cdir = w
    BY <1>1, <1>6, <1>7, <1>8, <1>9, <2>1, <2>2 DEF w, j
  <2>3. CASE hall.cdir # w
    <3>1. \/ h.conf + 1 >= ConfirmCnt /\ g.cdir = d /\ g.vdir = d /\ g.conf = 0
          \/ /\ h.conf + 1 < ConfirmCnt /\ g.cdir = h.cdir /\ g.vdir = h.vdir
             /\ g.conf = h.conf + 1
      BY <1>6, <1>7, <2>1, <2>3
    <3> QED BY <1>1, <1>6, <1>7, <1>8, <1>9, <2>1, <2>3, <3>1 DEF w, j
  <2> QED BY <2>2, <2>3
<1> QED BY <1>10, <1>11

\* A new batch and a new hand-over are well formed, and nothing is owed.
LEMMA NoGivenOK ==
  /\ NoBatch \in Batch /\ NoBatch.n = 0 /\ NoBatch.net = 0 /\ NoBatch.sure
  /\ NoGiven \in [by : Int, batch : Batch, stale : BOOLEAN]
  /\ NoGiven.by = 0 /\ NoGiven.batch = NoBatch /\ NoGiven.stale = FALSE
BY DEF NoBatch, NoGiven, Batch

\* However a number of edges is signed, it is no more than that many.
LEMMA SignedBound ==
  ASSUME NEW d, NEW n \in Nat
  PROVE  /\ Signed(d, n) \in -n .. n /\ Signed(d, n) \in Int
         /\ n = 0 => Signed(d, n) = 0
<1>1. Signed(d, n) \in {n, -n, 0} /\ -n \in Int /\ -n <= 0 /\ n \in Int /\ 0 <= n
  BY DEF Signed
<1> QED BY <1>1

\* An edge, whenever it comes, keeps the argument.
LEMMA EdgeStep ==
  ASSUME HallInv, NEW s \in {1, -1}, NEW ok \in BOOLEAN, Edge(s, ok)
  PROVE  HallInv'
<1> DEFINE w == Turns(s)
           j == IF w = way THEN judged ELSE 0
           grows == batch.sure /\ Settled /\ w = way
           upTo == IF j < ConfirmCnt THEN j + 1 ELSE j
<1>0. HallTypeOK /\ JudgedRight /\ CountedRight /\ SignedRight /\ PulsesAreTrue
  BY DEF HallInv
<1>t. /\ hall \in Hall /\ way \in Way /\ judged \in 0 .. ConfirmCnt /\ batch \in Batch
      /\ given \in [by : Int, batch : Batch, stale : BOOLEAN] /\ count \in Nat
      /\ turn \in {"sleep", "sum", "sign"}
  BY <1>0 DEF HallTypeOK
<1>1. /\ w \in Way /\ way' = w
      /\ phase' \in 0 .. 3 /\ b_last' \in {B(phase'), 2}
      /\ hall' \in Hall /\ hall'.unread = hall.unread + 1
      /\ hall'.first = hall.first /\ hall'.stale = hall.stale
  BY <1>0, EdgeHall
<1>2. \/ /\ judged' = j
         /\ hall'.cdir = hall.cdir /\ hall'.vdir = hall.vdir /\ hall'.conf = hall.conf
      \/ /\ judged' = upTo /\ hall.cdir = w
         /\ hall'.cdir = w /\ hall'.vdir = hall.vdir /\ hall'.conf = 0
      \/ /\ judged' = upTo /\ hall.cdir # w /\ hall.conf + 1 >= ConfirmCnt
         /\ hall'.cdir = w /\ hall'.vdir = w /\ hall'.conf = 0
      \/ /\ judged' = upTo /\ hall.cdir # w /\ hall.conf + 1 < ConfirmCnt
         /\ hall'.cdir = hall.cdir /\ hall'.vdir = hall.vdir /\ hall'.conf = hall.conf + 1
  BY <1>0, EdgeHall
<1>3. /\ turn = "sign" => batch.n = 0
      /\ batch' = IF grows THEN [batch EXCEPT !.n = @ + 1, !.net = @ + Signed(w, 1)]
                  ELSE [n |-> batch.n + 1, net |-> 0, sure |-> FALSE]
      /\ given' = IF turn = "sleep" THEN NoGiven ELSE given
      /\ turn' = turn /\ count' = count /\ init' = init
  BY DEF Edge, Turns
<1> HIDE DEF w
<1>4. ConfirmCnt \in Nat /\ ConfirmCnt > 1 /\ j \in 0 .. ConfirmCnt /\ judged' \in 0 .. ConfirmCnt
  BY <1>t, <1>2, HallConstants
<1>5. /\ batch' \in Batch /\ batch'.n = batch.n + 1
      /\ batch'.sure => grows /\ batch'.net = batch.net + Signed(w, 1)
  <2>1. Signed(w, 1) \in Int
    BY <1>1 DEF Signed, Way
  <2>2. CASE grows
    <3>1. batch' = [batch EXCEPT !.n = @ + 1, !.net = @ + Signed(w, 1)]
      BY <1>3, <2>2
    <3> DEFINE n == batch.n + 1
               net == batch.net + Signed(w, 1)
    <3>2. n \in Nat /\ net \in Int /\ batch' = [batch EXCEPT !.n = n, !.net = net]
      BY <1>t, <2>1, <3>1 DEF Batch
    <3> HIDE DEF grows, net, n
    <3>3. batch' \in Batch /\ batch'.n = n /\ batch'.net = net
      BY <1>t, <3>2 DEF Batch
    <3> QED BY <2>2, <3>3 DEF n, net
  <2>3. CASE ~ grows
    BY <1>t, <1>3, <2>3 DEF Batch
  <2> QED BY <2>2, <2>3
<1>6. given' \in [by : Int, batch : Batch, stale : BOOLEAN]
  BY <1>t, <1>3, NoGivenOK
<1>7. HallTypeOK'
  BY <1>0, <1>1, <1>3, <1>4, <1>5, <1>6 DEF HallTypeOK
<1>8. /\ hall.conf \in 0 .. ConfirmCnt - 1 /\ hall.unread \in Nat /\ batch.n \in Nat /\ batch.net \in Int
      /\ hall.cdir \in Way \cup {"NONE", "STOP"}
  BY <1>t DEF Hall, Batch
<1>9. JudgedRight'
  <2>1. /\ hall.cdir \in Way => hall.vdir = hall.cdir
        /\ judged > 0 => \/ hall.cdir = way /\ hall.conf = 0
                         \/ hall.cdir # way /\ hall.conf >= judged
    BY <1>0 DEF JudgedRight
  <2>2. hall'.cdir \in Way => hall'.vdir = hall'.cdir
    BY <1>1, <1>2, <2>1
  <2>3. j > 0 => \/ hall.cdir = w /\ hall.conf = 0
                 \/ hall.cdir # w /\ hall.conf >= j
    BY <2>1
  <2> HIDE DEF j
  <2>4. judged' > 0 => \/ hall'.cdir = w /\ hall'.conf = 0
                       \/ hall'.cdir # w /\ hall'.conf >= judged'
    BY <1>2, <1>4, <1>8, <2>3
  <2> QED BY <1>1, <2>2, <2>4 DEF JudgedRight
<1>10. CountedRight'
  <2> HIDE DEF grows
  <2>1. batch'.sure => batch.sure
    BY <1>5 DEF grows
  <2>2. CASE turn # "sign"
    BY <1>0, <1>1, <1>3, <1>5, <1>8, <2>1, <2>2 DEF CountedRight
  <2>3. CASE turn = "sign"
    <3>1. given' = given
      BY <1>3, <2>3
    <3> QED BY <1>0, <1>1, <1>3, <1>5, <1>8, <1>t, <2>1, <2>3, <3>1 DEF CountedRight
  <2> QED BY <2>2, <2>3
<1>11. batch'.sure => SignsWith(way, batch, 0)'
  <2> SUFFICES ASSUME batch'.sure PROVE SignsWith(way, batch, 0)'
    OBVIOUS
  <2>1. batch.sure /\ Settled /\ w = way /\ batch'.net = batch.net + Signed(w, 1)
    BY <1>5
  <2>2. hall.cdir = w /\ hall.conf = 0 /\ hall.vdir = w
    BY <1>0, <1>1, <1>4, <1>8, <1>t, <2>1 DEF JudgedRight, Settled
  <2>3. hall'.cdir = w /\ hall'.conf = 0 /\ hall'.vdir = w
    BY <1>2, <2>2
  <2>4. batch.net = Signed(w, batch.n)
    BY <1>0, <2>1 DEF SignedRight, SignsWith
  <2>5. batch'.net = Signed(w, batch'.n)
    BY <1>1, <1>5, <1>8, <2>1, <2>4 DEF Signed, Way
  <2> QED BY <1>1, <2>3, <2>5 DEF SignsWith
<1>12. turn = "sign" /\ given.batch.sure => \E d \in Way : SignsWith(d, given.batch, batch.n)'
  <2> SUFFICES ASSUME turn = "sign" /\ given.batch.sure
               PROVE  \E d \in Way : SignsWith(d, given.batch, batch.n)'
    OBVIOUS
  <2>1. PICK d \in Way : SignsWith(d, given.batch, batch.n)
    BY <1>0 DEF SignedRight
  <2>2. given' = given /\ batch.n = 0 /\ batch'.n = 1
    BY <1>3, <1>5
  <2>3. given.batch.n > 0 => hall'.vdir = d /\ hall'.cdir \in {d, "STOP"} /\ hall'.conf <= 1
    BY <1>1, <1>2, <1>4, <1>8, <2>1, <2>2 DEF SignsWith, Way
  <2> QED BY <2>1, <2>2, <2>3 DEF SignsWith
<1>13. SignedRight'
  BY <1>1, <1>3, <1>11, <1>12 DEF SignedRight
<1>14. PulsesAreTrue'
  <2>1. turn' = "sleep" => given' = NoGiven
    BY <1>3
  <2> QED BY <2>1, NoGivenOK DEF PulsesAreTrue, SettledIsExact, NoJump
<1> QED BY <1>7, <1>9, <1>10, <1>13, <1>14 DEF HallInv

\* The first part of the rod task's turn: nothing it does touches the edges, and
\* a direction it takes back becomes STOP.
LEMMA SpeedHall ==
  ASSUME hall \in Hall, Task_Speed
  PROVE  /\ hall' \in Hall /\ hall'.unread = hall.unread
         /\ hall'.first = hall.first /\ hall'.stale = hall.stale /\ hall'.vdir = hall.vdir
         /\ \/ hall'.cdir = hall.cdir /\ hall'.conf = hall.conf
            \/ hall'.cdir = "STOP" /\ hall'.conf \in {hall.conf, 0}
<1> DEFINE Kept(h, g) ==
             /\ g \in Hall /\ g.unread = h.unread
             /\ g.first = h.first /\ g.stale = h.stale /\ g.vdir = h.vdir
           Keeps(h, g) == Kept(h, g) /\ g.cdir = h.cdir /\ g.conf = h.conf
<1>1. ASSUME NEW h \in Hall PROVE Keeps(h, Older(h))
  <2> DEFINE a == IF h.age > StallTurns THEN h.age ELSE h.age + 1
  <2>1. a \in Nat /\ Older(h) = [h EXCEPT !.age = a]
    BY HallConstants DEF Older, Hall
  <2> HIDE DEF a
  <2> QED BY <2>1 DEF Hall
<1>2. ASSUME NEW h \in Hall PROVE Keeps(h, MotorHall_CalculateRpm(h))
  <2> DEFINE n == IF h.iv /\ h.ivc < 2 THEN h.ivc + 1 ELSE h.ivc
             r == (n = 2)
  <2>1. n \in 0 .. 2 /\ r \in BOOLEAN
    BY DEF Hall
  <2>2. MotorHall_CalculateRpm(h) = [h EXCEPT !.ivc = n, !.rpm = r]
    BY DEF MotorHall_CalculateRpm
  <2> HIDE DEF n, r
  <2> QED BY <2>1, <2>2 DEF Hall
<1>3. ASSUME NEW h \in Hall
      PROVE  Kept(h, Stop(h)) /\ Stop(h).cdir = "STOP" /\ Stop(h).conf \in {h.conf, 0}
  <2> DEFINE c == IF h.cdir = "STOP" THEN h.conf ELSE 0
  <2>1. c \in 0 .. ConfirmCnt - 1 /\ c \in {h.conf, 0} /\ Stop(h) = [h EXCEPT !.cdir = "STOP", !.conf = c]
    BY HallConstants DEF Stop, Hall
  <2> HIDE DEF c
  <2> QED BY <2>1 DEF Hall
<1>4. ASSUME NEW h \in Hall
      PROVE  LET g == MotorHall_PerformStallDetection(h)
             IN /\ Kept(h, g)
                /\ \/ g.cdir = h.cdir /\ g.conf = h.conf
                   \/ g.cdir = "STOP" /\ g.conf \in {h.conf, 0}
  <2> DEFINE f == IF h.rpm /\ h.age > StopTurns THEN Stop(h) ELSE h
             g == MotorHall_PerformStallDetection(h)
  <2>1. /\ Kept(h, f)
        /\ \/ f.cdir = h.cdir /\ f.conf = h.conf
           \/ f.cdir = "STOP" /\ f.conf \in {h.conf, 0}
    BY <1>3
  <2>2. g = f \/ g = [f EXCEPT !.rpm = FALSE]
    BY DEF MotorHall_PerformStallDetection
  <2> HIDE DEF f, g
  <2>3. g \in Hall /\ g.unread = f.unread /\ g.first = f.first /\ g.stale = f.stale
        /\ g.vdir = f.vdir /\ g.cdir = f.cdir /\ g.conf = f.conf
    BY <2>1, <2>2 DEF Hall
  <2> QED BY <2>1, <2>3 DEF g
<1> DEFINE h1 == Older(hall)
           h2 == MotorHall_CalculateRpm(h1)
           h3 == MotorHall_PerformStallDetection(h2)
<1>5. hall' = h3 \/ hall' = h1
  BY DEF Task_Speed
<1>6. Keeps(hall, h1)
  BY <1>1
<1>7. Keeps(h1, h2)
  BY <1>2, <1>6
<1>8. /\ Kept(h2, h3)
      /\ \/ h3.cdir = h2.cdir /\ h3.conf = h2.conf
         \/ h3.cdir = "STOP" /\ h3.conf \in {h2.conf, 0}
  BY <1>4, <1>7
<1> HIDE DEF h1, h2, h3
<1> QED BY <1>5, <1>6, <1>7, <1>8

\* The rod task takes the speed.
LEMMA SpeedStep ==
  ASSUME HallInv, Task_Speed
  PROVE  HallInv'
<1>0. HallTypeOK /\ JudgedRight /\ CountedRight /\ SignedRight
  BY DEF HallInv
<1>1. /\ hall' \in Hall /\ hall'.unread = hall.unread
      /\ hall'.first = hall.first /\ hall'.stale = hall.stale /\ hall'.vdir = hall.vdir
      /\ \/ hall'.cdir = hall.cdir /\ hall'.conf = hall.conf
         \/ hall'.cdir = "STOP" /\ hall'.conf \in {hall.conf, 0}
  BY <1>0, SpeedHall DEF HallTypeOK
<1>2. /\ turn = "sleep" /\ turn' = "sum" /\ given' = NoGiven
      /\ judged' = IF hall'.cdir = "STOP" THEN 0 ELSE judged
      /\ UNCHANGED <<phase, b_last, count, init, way, batch>>
  BY DEF Task_Speed
<1>3. HallTypeOK'
  BY <1>0, <1>1, <1>2, NoGivenOK, HallConstants DEF HallTypeOK
<1>4. JudgedRight'
  BY <1>0, <1>1, <1>2 DEF JudgedRight, Way
<1>5. CountedRight'
  BY <1>0, <1>1, <1>2 DEF CountedRight
<1>6. SignedRight'
  <2>1. hall.conf \in Nat
    BY <1>0, HallConstants DEF HallTypeOK, Hall
  <2>2. batch.sure => batch.net = Signed(way, batch.n)
                      /\ (batch.n > 0 => hall.vdir = way /\ hall.cdir \in {way, "STOP"} /\ hall.conf <= 0)
    BY <1>0 DEF SignedRight, SignsWith
  <2>3. batch.sure /\ batch.n > 0 => hall'.vdir = way /\ hall'.cdir \in {way, "STOP"} /\ hall'.conf <= 0
    BY <1>1, <2>1, <2>2
  <2> QED BY <1>2, <2>2, <2>3 DEF SignedRight, SignsWith
<1>7. PulsesAreTrue'
  BY <1>2 DEF PulsesAreTrue, SettledIsExact, NoJump
<1> QED BY <1>3, <1>4, <1>5, <1>6, <1>7 DEF HallInv

\* It takes the sum: what is to be signed becomes the batch on its way.
LEMMA SumStep ==
  ASSUME HallInv, Task_Sum
  PROVE  HallInv'
<1>0. HallTypeOK /\ JudgedRight /\ CountedRight /\ SignedRight
  BY DEF HallInv
<1>t. hall \in Hall /\ batch \in Batch /\ way \in Way /\ hall.unread \in Nat /\ batch.n \in Nat
  BY <1>0 DEF HallTypeOK, Hall, Batch
<1> DEFINE b == [batch EXCEPT !.sure = @ /\ ~ hall.first]
<1>1. /\ turn = "sum" /\ turn' = "sign" /\ batch' = NoBatch
      /\ given' = [by |-> 0, batch |-> b, stale |-> FALSE]
      /\ UNCHANGED <<phase, b_last, init, way, judged>>
  BY DEF Task_Sum
<1>2. b \in Batch /\ b.n = batch.n /\ b.net = batch.net /\ (b.sure => batch.sure /\ ~ hall.first)
  <2> DEFINE u == batch.sure /\ ~ hall.first
  <2>1. u \in BOOLEAN /\ b = [batch EXCEPT !.sure = u]
    OBVIOUS
  <2> HIDE DEF u, b
  <2>2. b \in Batch /\ b.n = batch.n /\ b.net = batch.net /\ b.sure = u
    BY <1>t, <2>1 DEF Batch
  <2> QED BY <2>2 DEF u
<1> HIDE DEF b
<1>3. given'.by = 0 /\ given'.batch = b /\ given' \in [by : Int, batch : Batch, stale : BOOLEAN]
  BY <1>1, <1>2
<1>4. /\ hall' \in Hall /\ hall'.cdir = hall.cdir /\ hall'.vdir = hall.vdir /\ hall'.conf = hall.conf
      /\ count' = hall'.unread /\ hall'.unread <= hall.unread /\ count' \in Nat
      /\ ~ hall.first => hall' = hall
  <2>1. CASE hall.first
    <3>1. hall' = [hall EXCEPT !.first = FALSE, !.stale = FALSE, !.unread = 0] /\ count' = 0
      BY <2>1 DEF Task_Sum
    <3>2. hall' \in Hall /\ hall'.cdir = hall.cdir /\ hall'.vdir = hall.vdir
          /\ hall'.conf = hall.conf /\ hall'.unread = 0
      BY <1>t, <3>1 DEF Hall
    <3> QED BY <1>t, <2>1, <3>1, <3>2
  <2>2. CASE ~ hall.first
    BY <1>t, <2>2 DEF Task_Sum
  <2> QED BY <2>1, <2>2
<1>5. HallTypeOK'
  BY <1>0, <1>1, <1>3, <1>4, NoGivenOK DEF HallTypeOK
<1>6. JudgedRight'
  BY <1>0, <1>1, <1>4 DEF JudgedRight
<1>7. CountedRight'
  <2>1. hall.unread <= batch.n /\ (batch.sure => hall.unread = batch.n /\ ~ hall.stale)
    BY <1>0, <1>1 DEF CountedRight
  <2>2. count' <= b.n /\ (b.sure => count' = b.n /\ ~ hall'.stale)
    BY <1>2, <1>4, <1>t, <2>1
  <2>3. hall'.unread - count' = 0 /\ count' <= hall'.unread
    BY <1>4
  <2> QED BY <1>1, <1>3, <2>2, <2>3, NoGivenOK DEF CountedRight
<1>8. SignedRight'
  <2>1. b.sure => \E d \in Way : SignsWith(d, given.batch, batch.n)'
    <3> SUFFICES ASSUME b.sure PROVE \E d \in Way : SignsWith(d, given.batch, batch.n)'
      OBVIOUS
    <3>1. PICK d \in Way : d = way
      BY <1>t
    <3>2. SignsWith(d, batch, 0)
      BY <1>0, <1>2, <3>1 DEF SignedRight
    <3>3. b.net = Signed(d, b.n) /\ (b.n > 0 => hall'.vdir = d /\ hall'.cdir \in {d, "STOP"} /\ hall'.conf <= 0)
      BY <1>2, <1>4, <3>2 DEF SignsWith
    <3> QED BY <1>1, <1>3, <3>3, NoGivenOK DEF SignsWith
  <2>2. SignsWith(way, batch, 0)'
    <3>2. ~ (batch'.n > 0) /\ batch'.n = 0 /\ batch'.net = 0 /\ way' = way
      BY <1>1, NoGivenOK
    <3> QED BY <3>2, SignedBound DEF SignsWith
  <2> QED BY <1>1, <1>3, <2>1, <2>2 DEF SignedRight
<1>9. PulsesAreTrue'
  BY <1>1 DEF PulsesAreTrue, SettledIsExact, NoJump
<1> QED BY <1>5, <1>6, <1>7, <1>8, <1>9 DEF HallInv

\* It signs the sum and hands it over: exactly what the rotor did, when all of
\* it came after the direction had been confirmed.
LEMMA SignStep ==
  ASSUME HallInv, Task_Sign
  PROVE  HallInv'
<1>0. HallTypeOK /\ JudgedRight /\ CountedRight /\ SignedRight
  BY DEF HallInv
<1>t. /\ hall \in Hall /\ batch \in Batch /\ given \in [by : Int, batch : Batch, stale : BOOLEAN]
      /\ count \in Nat /\ hall.unread \in Nat /\ given.batch.n \in Nat /\ hall.stale \in BOOLEAN
  BY <1>0 DEF HallTypeOK, Hall, Batch
<1>1. /\ turn = "sign" /\ turn' = "sleep" /\ count' = 0
      /\ UNCHANGED <<phase, b_last, init, way, judged, batch>>
  BY DEF Task_Sign
<1>2. PICK d \in IF hall.stale THEN 0 .. MaxJump ELSE {count} :
           given' = [given EXCEPT !.by = Signed(SignedWith(hall), d), !.stale = hall.stale]
  BY DEF Task_Sign
<1>3. /\ count <= hall.unread /\ hall.unread - count <= batch.n
      /\ batch.sure => hall.unread - count = batch.n
      /\ count <= given.batch.n
      /\ given.batch.sure => count = given.batch.n /\ ~ hall.stale
  BY <1>0, <1>1 DEF CountedRight
<1>4. /\ hall' \in Hall /\ hall'.unread = hall.unread - count /\ ~ hall'.stale
      /\ hall'.cdir = hall.cdir /\ hall'.vdir = hall.vdir /\ hall'.conf = hall.conf
  <2> DEFINE u == hall.unread - count
  <2>1. u \in Nat /\ hall' = [hall EXCEPT !.unread = u, !.stale = FALSE]
    BY <1>3, <1>t DEF Task_Sign, Handed
  <2> HIDE DEF u
  <2>2. hall' \in Hall /\ hall'.unread = u /\ hall'.stale = FALSE
        /\ hall'.cdir = hall.cdir /\ hall'.vdir = hall.vdir /\ hall'.conf = hall.conf
    BY <1>t, <2>1 DEF Hall
  <2> QED BY <2>2 DEF u
<1> DEFINE by == Signed(SignedWith(hall), d)
<1>5. d \in Nat /\ (~ hall.stale => d = count)
  BY <1>2, <1>t, HallConstants
<1>6. by \in Int /\ by \in -d .. d
  BY <1>5, SignedBound
<1> HIDE DEF by
<1>7. /\ given' \in [by : Int, batch : Batch, stale : BOOLEAN]
      /\ given'.by = by /\ given'.batch = given.batch /\ given'.stale = hall.stale
  BY <1>2, <1>6, <1>t DEF by
<1>8. HallTypeOK'
  BY <1>0, <1>1, <1>4, <1>7 DEF HallTypeOK
<1>9. JudgedRight'
  BY <1>0, <1>1, <1>4 DEF JudgedRight
<1>10. CountedRight'
  BY <1>1, <1>3, <1>4 DEF CountedRight
<1>11. SignedRight'
  BY <1>0, <1>1, <1>4 DEF SignedRight, SignsWith
<1>12. SettledIsExact'
  <2> SUFFICES ASSUME given.batch.sure PROVE by = given.batch.net
    BY <1>7 DEF SettledIsExact
  <2>1. PICK e \in Way : SignsWith(e, given.batch, batch.n)
    BY <1>0, <1>1 DEF SignedRight
  <2>2. d = given.batch.n /\ given.batch.net = Signed(e, d)
    BY <1>3, <1>5, <2>1 DEF SignsWith
  <2>3. CASE d = 0
    BY <1>5, <2>2, <2>3, SignedBound DEF by
  <2>4. CASE d # 0
    <3>1. hall.vdir = e /\ hall.cdir \in {e, "STOP"}
      BY <1>5, <2>1, <2>2, <2>4 DEF SignsWith
    <3>2. SignedWith(hall) = e
      BY <3>1 DEF SignedWith, Way
    <3> QED BY <2>2, <3>2 DEF by
  <2> QED BY <2>3, <2>4
<1>13. NoJump'
  <2> SUFFICES ASSUME ~ hall.stale PROVE by \in -given.batch.n .. given.batch.n
    BY <1>7 DEF NoJump
  <2>1. d <= given.batch.n
    BY <1>3, <1>5
  <2> QED BY <1>5, <1>6, <1>t, <2>1
<1> QED BY <1>8, <1>9, <1>10, <1>11, <1>12, <1>13 DEF HallInv, PulsesAreTrue

\* sys_sm initialises the module again while the rod task sleeps.
LEMMA InitStep ==
  ASSUME HallInv, MotorHall_Init_Counts \/ MotorHall_Init_Dirs \/ MotorHall_Init_Rest
  PROVE  HallInv'
<1>0. HallTypeOK /\ JudgedRight /\ CountedRight /\ SignedRight
  BY DEF HallInv
<1>t. /\ hall \in Hall /\ batch \in Batch /\ hall.unread \in Nat /\ batch.n \in Nat /\ hall.age \in Nat
      /\ StallTurns \in Nat /\ 0 \in 0 .. ConfirmCnt - 1 /\ 0 \in 0 .. ConfirmCnt
      /\ (~ hall.first) \in BOOLEAN
  BY <1>0, HallConstants DEF HallTypeOK, Hall, Batch
<1>1. /\ turn = "sleep" /\ turn' = turn /\ given' = NoGiven
      /\ batch' = [batch EXCEPT !.net = 0, !.sure = FALSE]
      /\ UNCHANGED <<phase, b_last, count, way>> /\ init' \in {"no", "dirs", "rest"}
  BY DEF MotorHall_Init_Counts, MotorHall_Init_Dirs, MotorHall_Init_Rest, Unsure
<1>2. batch' \in Batch /\ batch'.n = batch.n /\ ~ batch'.sure
  <2>1. batch' = [n |-> batch.n, net |-> 0, sure |-> FALSE]
    BY <1>1, <1>t DEF Batch
  <2> QED BY <1>t, <2>1 DEF Batch
<1>3. /\ hall' \in Hall /\ hall'.unread \in {0, hall.unread}
      /\ \/ /\ hall'.cdir = hall.cdir /\ hall'.vdir = hall.vdir /\ hall'.conf = hall.conf
            /\ judged' = judged
         \/ hall'.cdir = "NONE" /\ judged' = 0
  <2>1. CASE MotorHall_Init_Counts
    <3>1. PICK a \in hall.age .. StallTurns + 1 :
            hall' = [hall EXCEPT !.iv = FALSE, !.age = a, !.rpm = FALSE,
                                 !.unread = 0, !.stale = ~ hall.first]
      BY <2>1 DEF MotorHall_Init_Counts
    <3>a. a \in Nat
      BY <1>t
    <3>2. a \in Nat /\ judged' = judged
      BY <2>1, <3>a DEF MotorHall_Init_Counts
    <3> DEFINE notFirst == ~ hall.first
    <3> HIDE DEF notFirst
    <3>3. notFirst \in BOOLEAN /\ hall' = [hall EXCEPT !.iv = FALSE, !.age = a, !.rpm = FALSE,
                                                 !.unread = 0, !.stale = notFirst]
      BY <3>1 DEF notFirst
    <3>4. hall' \in Hall /\ hall'.unread = 0 /\ hall'.cdir = hall.cdir
          /\ hall'.vdir = hall.vdir /\ hall'.conf = hall.conf
      BY <1>t, <3>2, <3>3 DEF Hall
    <3> QED BY <3>2, <3>4
  <2>2. CASE MotorHall_Init_Dirs
    <3>1. judged' = 0 /\ hall' = [hall EXCEPT !.cdir = "NONE", !.vdir = "NONE", !.conf = 0]
      BY <2>2 DEF MotorHall_Init_Dirs
    <3>2. hall' \in Hall /\ hall'.unread = hall.unread /\ hall'.cdir = "NONE"
      BY <1>t, <3>1 DEF Hall
    <3> QED BY <3>1, <3>2
  <2>3. CASE MotorHall_Init_Rest
    <3>1. judged' = judged /\ hall' = [hall EXCEPT !.ivc = 0, !.first = TRUE, !.stale = FALSE]
      BY <2>3 DEF MotorHall_Init_Rest
    <3>2. 0 \in 0 .. 2
      OBVIOUS
    <3>3. hall' \in Hall /\ hall'.unread = hall.unread /\ hall'.cdir = hall.cdir
          /\ hall'.vdir = hall.vdir /\ hall'.conf = hall.conf
      BY <1>t, <3>1, <3>2 DEF Hall
    <3> QED BY <3>1, <3>3
  <2> QED BY <2>1, <2>2, <2>3
<1>4. judged' \in 0 .. ConfirmCnt
  BY <1>0, <1>3, <1>t DEF HallTypeOK
<1>5. HallTypeOK'
  BY <1>0, <1>1, <1>2, <1>3, <1>4, NoGivenOK DEF HallTypeOK
<1>6. JudgedRight'
  BY <1>0, <1>1, <1>3 DEF JudgedRight, Way
<1>7. CountedRight'
  BY <1>0, <1>1, <1>2, <1>3, <1>t DEF CountedRight
<1>8. SignedRight'
  BY <1>1, <1>2 DEF SignedRight
<1>9. PulsesAreTrue'
  BY <1>1, NoGivenOK DEF PulsesAreTrue, SettledIsExact, NoJump
<1> QED BY <1>5, <1>6, <1>7, <1>8, <1>9 DEF HallInv

\* The inductive invariant of the hall sensors: PulsesAreTrue by itself is not
\* inductive, for it says nothing of the edges that are counted and not signed.
THEOREM HallInvariant == HallSpec => []HallInv
<1>1. HallInit => HallInv
  <2> SUFFICES ASSUME HallInit PROVE HallInv
    OBVIOUS
  <2>1. /\ phase \in 0 .. 3 /\ b_last = 2 /\ turn = "sleep" /\ count = 0 /\ init = "no"
        /\ way = "FWD" /\ judged = 0 /\ batch = NoBatch /\ given = NoGiven
    BY DEF HallInit
  <2>2. 0 \in 0 .. ConfirmCnt - 1 /\ 0 \in 0 .. ConfirmCnt
    BY HallConstants
  <2>3. hall \in Hall /\ hall.unread = 0 /\ hall.stale = FALSE /\ hall.cdir = "NONE"
    BY <2>2 DEF HallInit, Hall
  <2>4. HallTypeOK
    BY <2>1, <2>2, <2>3, NoGivenOK DEF HallTypeOK, Way
  <2>5. JudgedRight
    BY <2>1, <2>3 DEF JudgedRight, Way
  <2>6. CountedRight
    BY <2>1, <2>3, NoGivenOK DEF CountedRight
  <2>7. SignedRight
    BY <2>1, NoGivenOK, SignedBound DEF SignedRight, SignsWith
  <2>8. PulsesAreTrue
    BY <2>1, NoGivenOK DEF PulsesAreTrue, SettledIsExact, NoJump
  <2> QED BY <2>4, <2>5, <2>6, <2>7, <2>8 DEF HallInv
<1>2. HallInv /\ [HallNext]_hallVars => HallInv'
  <2>1. HallInv /\ HallNext => HallInv'
    BY EdgeStep, SpeedStep, SumStep, SignStep, InitStep DEF HallNext
  <2>2. HallInv /\ UNCHANGED hallVars => HallInv'
    BY DEF HallInv, hallVars, HallTypeOK, JudgedRight, CountedRight, SignedRight, SignsWith,
           PulsesAreTrue, SettledIsExact, NoJump
  <2> QED BY <2>1, <2>2
<1> QED BY <1>1, <1>2, PTL DEF HallSpec

\* What MotorHall_Task hands to the position is what the rotor did, for every
\* confirmation count above one, any number of edges in a turn, and however
\* edges, turns and Init interleave.
THEOREM HallPulsesAreTrue == HallSpec => []PulsesAreTrue
<1>1. HallInv => PulsesAreTrue
  BY DEF HallInv
<1> QED BY <1>1, HallInvariant, PTL

-----------------------------------------------------------------------------
(* The starvation guard *)

Slot == [task : Task, last : 0 .. TickWord - 1]
TaskTypeOK ==
  /\ tick \in 0 .. TickWord - 1
  /\ beats \in Seq(Slot) /\ (\A i \in DOMAIN beats : beats[i].task \in made)
  /\ made \subseteq Task /\ main \in {"boot", "sleep", "check"}
  /\ check \in [now : 0 .. TickWord - 1, at : Nat]
  /\ age \in [Task -> 0 .. LongAgo] /\ crossed \subseteq Stronger

\* A stamp younger than the timeout is as old as its thread's last round, by
\* way of one wrap of the tick at most.
BeatsKnown ==
  \A i \in DOMAIN beats :
    beats[i].task \in Periodic /\ age[beats[i].task] <= BeatTimeout =>
      beats[i].last \in {tick - age[beats[i].task], tick - age[beats[i].task] + TickWord}

\* A tick that came during a check has made every thread older that has not
\* made a round since.
CheckKnown ==
  main = "check" /\ check.now # tick =>
    /\ tick = (check.now + 1) % TickWord
    /\ \A t \in (Periodic \cap made) \ crossed : age[t] > 0

TaskInv == TaskTypeOK /\ BeatsKnown /\ CheckKnown

\* What a 32-bit counter of the tick does at its ends.
LEMMA TickMod ==
  ASSUME NEW w \in Nat \ {0}
  PROVE  /\ \A x \in 0 .. w - 1 : x % w = x /\ (x + 1) % w = IF x + 1 = w THEN 0 ELSE x + 1
         /\ \A x \in -w .. -1 : x % w = x + w
<1>1. ASSUME NEW x \in 0 .. w - 1 PROVE x % w = x
  OBVIOUS
<1>2. ASSUME NEW x \in 0 .. w - 1 PROVE (x + 1) % w = IF x + 1 = w THEN 0 ELSE x + 1
  OBVIOUS
<1>3. ASSUME NEW x \in -w .. -1 PROVE x % w = x + w
  OBVIOUS
<1> QED BY <1>1, <1>2, <1>3

\* The difference main computes for a thread that has not made a round behind
\* its back is no more than the thread's age.
LEMMA StaleIsAge ==
  ASSUME NEW w \in Nat \ {0}, NEW a \in Nat, a < w, NEW t \in 0 .. w - 1, NEW now \in 0 .. w - 1,
         NEW last \in 0 .. w - 1, last \in {t - a, t - a + w},
         now = t \/ (t = (now + 1) % w /\ a > 0)
  PROVE  (now - last) % w <= a
<1>1. (now + 1) % w = IF now + 1 = w THEN 0 ELSE now + 1
  BY TickMod
<1>2. now - last \in {a, a - w, a - 1, a - 1 - w}
  BY <1>1
<1>3. now - last \in 0 .. w - 1 => (now - last) % w = now - last
  BY TickMod
<1>4. now - last \in -w .. -1 => (now - last) % w = now - last + w
  BY TickMod
<1>5. now - last \in -w .. -1 \/ now - last \in 0 .. w - 1
  OBVIOUS
<1>6. CASE now - last \in 0 .. w - 1
  BY <1>2, <1>3, <1>6
<1>7. CASE now - last \in -w .. -1
  BY <1>2, <1>4, <1>7
<1> QED BY <1>5, <1>6, <1>7

\* The facts about the constants that the steps use.
LEMMA TaskFacts ==
  /\ BeatSlots \in Nat /\ TickWord \in Nat \ {0} /\ BeatTimeout \in Nat /\ BeatTimeout < TickWord
  /\ LongAgo \in Nat /\ LongAgo = BeatTimeout + 1 /\ 0 \in 0 .. LongAgo
BY TaskConstants DEF LongAgo

\* main makes a thread.
LEMMA CreateStep ==
  ASSUME TaskInv, NEW t \in Task, Task_Set_Create(t)
  PROVE  TaskInv'
<1>0. TaskTypeOK /\ BeatsKnown
  BY DEF TaskInv
<1>1. /\ main = "boot" /\ t \notin made /\ made' = made \cup {t}
      /\ beats' = IF Len(beats) < BeatSlots THEN Append(beats, [task |-> t, last |-> tick]) ELSE beats
      /\ age' = [age EXCEPT ![t] = 0]
      /\ UNCHANGED <<tick, main, check, crossed>>
  BY DEF Task_Set_Create, BirthStamp
<1>2. /\ beats \in Seq(Slot) /\ tick \in 0 .. TickWord - 1 /\ age \in [Task -> 0 .. LongAgo]
      /\ \A i \in DOMAIN beats : beats[i].task \in made
  BY <1>0 DEF TaskTypeOK
<1> DEFINE new == [task |-> t, last |-> tick]
<1>n. new \in Slot /\ new.task = t /\ new.last = tick
  BY <1>2 DEF Slot
<1> HIDE DEF new
<1>3. /\ beats' \in Seq(Slot)
      /\ \A i \in DOMAIN beats' : \/ i \in DOMAIN beats /\ beats'[i] = beats[i]
                                  \/ i \notin DOMAIN beats /\ beats'[i] = new
  <2>1. beats' = beats \/ beats' = Append(beats, new)
    BY <1>1 DEF new
  <2>2. CASE beats' = beats
    BY <1>2, <2>2
  <2>3. CASE beats' = Append(beats, new)
    <3> DEFINE n == Len(beats)
    <3>1. /\ n \in Nat /\ DOMAIN beats = 1 .. n /\ beats' \in Seq(Slot)
          /\ DOMAIN beats' = 1 .. n + 1
          /\ \A i \in 1 .. n + 1 : beats'[i] = IF i = n + 1 THEN new ELSE beats[i]
      BY <1>2, <1>n, <2>3
    <3> HIDE DEF n
    <3> QED BY <3>1
  <2> QED BY <2>1, <2>2, <2>3
<1>s. \A i \in DOMAIN beats' : beats'[i].task \in made'
  BY <1>1, <1>2, <1>3, <1>n
<1>4. age' \in [Task -> 0 .. LongAgo] /\ age'[t] = 0 /\ \A u \in Task \ {t} : age'[u] = age[u]
  BY <1>1, <1>2, TaskFacts
<1>5. TaskTypeOK'
  BY <1>0, <1>1, <1>3, <1>4, <1>s DEF TaskTypeOK
<1>6. BeatsKnown'
  <2> SUFFICES ASSUME NEW i \in DOMAIN beats', beats'[i].task \in Periodic,
                      age'[beats'[i].task] <= BeatTimeout
               PROVE  beats'[i].last \in {tick - age'[beats'[i].task], tick - age'[beats'[i].task] + TickWord}
    BY <1>1 DEF BeatsKnown
  <2>1. CASE i \in DOMAIN beats
    <3>1. beats'[i] = beats[i] /\ beats[i].task \in made
      BY <1>2, <1>3, <2>1
    <3>2. beats[i].task # t /\ beats[i].task \in Task
      BY <1>0, <1>1, <3>1 DEF TaskTypeOK
    <3>3. age'[beats'[i].task] = age[beats[i].task]
      BY <1>4, <3>1, <3>2
    <3> QED BY <1>0, <2>1, <3>1, <3>3 DEF BeatsKnown
  <2>2. CASE i \notin DOMAIN beats
    <3>3. age'[beats'[i].task] = 0 /\ beats'[i].last = tick
      BY <1>3, <1>4, <1>n, <2>2
    <3> QED BY <1>2, <3>3
  <2> QED BY <2>1, <2>2
<1>7. CheckKnown'
  BY <1>1 DEF CheckKnown
<1> QED BY <1>5, <1>6, <1>7 DEF TaskInv

\* A thread makes a round.
LEMMA BeatStep ==
  ASSUME TaskInv, NEW t \in Task, Task_Set_Beat(t)
  PROVE  TaskInv'
<1>0. TaskTypeOK /\ BeatsKnown /\ CheckKnown
  BY DEF TaskInv
<1>1. /\ main = "sleep" \/ t \in Stronger
      /\ beats' = [i \in DOMAIN beats |->
                     IF beats[i].task = t THEN [beats[i] EXCEPT !.last = tick] ELSE beats[i]]
      /\ age' = [age EXCEPT ![t] = 0]
      /\ crossed' = IF main = "check" THEN crossed \cup {t} ELSE crossed
      /\ UNCHANGED <<tick, made, main, check>>
  BY DEF Task_Set_Beat
<1>2. /\ beats \in Seq(Slot) /\ tick \in 0 .. TickWord - 1
      /\ \A i \in DOMAIN beats : beats[i] \in Slot /\ beats[i].task \in made
      /\ age \in [Task -> 0 .. LongAgo] /\ made \subseteq Task
  BY <1>0 DEF TaskTypeOK
<1>3. /\ DOMAIN beats' = DOMAIN beats
      /\ \A i \in DOMAIN beats :
           /\ beats'[i] \in Slot /\ beats'[i].task = beats[i].task
           /\ beats'[i].last = IF beats[i].task = t THEN tick ELSE beats[i].last
  <2>1. DOMAIN beats' = DOMAIN beats
    BY <1>1
  <2>2. ASSUME NEW i \in DOMAIN beats, beats[i].task = t
        PROVE  beats'[i] \in Slot /\ beats'[i].task = beats[i].task /\ beats'[i].last = tick
    <3>1. beats'[i] = [beats[i] EXCEPT !.last = tick] /\ beats[i] \in Slot
      BY <1>1, <1>2, <2>2
    <3> QED BY <1>2, <3>1 DEF Slot
  <2>3. ASSUME NEW i \in DOMAIN beats, beats[i].task # t
        PROVE  beats'[i] \in Slot /\ beats'[i] = beats[i]
    BY <1>1, <1>2, <2>3
  <2> QED BY <2>1, <2>2, <2>3
<1>4. beats' \in Seq(Slot)
  <2>1. Len(beats) \in Nat /\ DOMAIN beats = 1 .. Len(beats)
    BY <1>2
  <2>2. beats' \in [1 .. Len(beats) -> Slot]
    BY <1>1, <1>3, <2>1
  <2> QED BY <2>1, <2>2
<1>5. age' \in [Task -> 0 .. LongAgo] /\ age'[t] = 0 /\ \A u \in Task \ {t} : age'[u] = age[u]
  BY <1>1, <1>2, TaskFacts
<1>6. crossed' \subseteq Stronger
  BY <1>0, <1>1 DEF TaskTypeOK
<1>7. TaskTypeOK'
  BY <1>0, <1>1, <1>2, <1>3, <1>4, <1>5, <1>6 DEF TaskTypeOK
<1>8. BeatsKnown'
  <2> SUFFICES ASSUME NEW i \in DOMAIN beats, beats[i].task \in Periodic,
                      age'[beats[i].task] <= BeatTimeout
               PROVE  beats'[i].last \in {tick - age'[beats[i].task], tick - age'[beats[i].task] + TickWord}
    BY <1>1, <1>3 DEF BeatsKnown
  <2>1. CASE beats[i].task = t
    BY <1>2, <1>3, <1>5, <2>1
  <2>2. CASE beats[i].task # t
    <3>1. age'[beats[i].task] = age[beats[i].task]
      BY <1>2, <1>5, <2>2
    <3> QED BY <1>0, <1>3, <2>2, <3>1 DEF BeatsKnown
  <2> QED BY <2>1, <2>2
<1>9. CheckKnown'
  <2> SUFFICES ASSUME main = "check", check.now # tick
               PROVE  /\ tick = (check.now + 1) % TickWord
                      /\ \A u \in (Periodic \cap made) \ crossed' : age'[u] > 0
    BY <1>1 DEF CheckKnown
  <2>1. crossed' = crossed \cup {t}
    BY <1>1
  <2> QED BY <1>0, <1>2, <1>5, <2>1 DEF CheckKnown
<1> QED BY <1>7, <1>8, <1>9 DEF TaskInv

\* The tick makes every thread that exists older.
LEMMA TickStep ==
  ASSUME TaskInv, SysTick
  PROVE  TaskInv'
<1>0. TaskTypeOK /\ BeatsKnown /\ CheckKnown
  BY DEF TaskInv
<1>1. /\ main = "check" => check.now = tick
      /\ tick' = (tick + 1) % TickWord
      /\ age' = [t \in Task |-> IF t \in Periodic \cap made /\ age[t] < LongAgo THEN age[t] + 1 ELSE age[t]]
      /\ UNCHANGED <<beats, made, main, check, crossed>>
  BY DEF SysTick
<1>2. /\ beats \in Seq(Slot) /\ tick \in 0 .. TickWord - 1
      /\ \A i \in DOMAIN beats : beats[i] \in Slot /\ beats[i].task \in made
      /\ age \in [Task -> 0 .. LongAgo] /\ made \subseteq Task
  BY <1>0 DEF TaskTypeOK
<1>3. tick' = (IF tick + 1 = TickWord THEN 0 ELSE tick + 1) /\ tick' \in 0 .. TickWord - 1
  <2>1. (tick + 1) % TickWord = IF tick + 1 = TickWord THEN 0 ELSE tick + 1
    BY <1>2, TaskFacts, TickMod
  <2> QED BY <1>1, <1>2, <2>1, TaskFacts
<1>4. /\ age' \in [Task -> 0 .. LongAgo]
      /\ \A t \in Periodic \cap made :
           age'[t] > 0 /\ (age'[t] <= BeatTimeout => age'[t] = age[t] + 1 /\ age[t] <= BeatTimeout)
  <2>1. \A t \in Task : age[t] \in 0 .. LongAgo
    BY <1>2
  <2>2. \A t \in Task : age'[t] \in 0 .. LongAgo
    BY <1>1, <2>1, TaskFacts
  <2>3. age' \in [Task -> 0 .. LongAgo]
    BY <1>1, <2>2
  <2> QED BY <1>1, <1>2, <2>1, <2>3, TaskFacts
<1>5. TaskTypeOK'
  BY <1>0, <1>1, <1>3, <1>4 DEF TaskTypeOK
<1>6. BeatsKnown'
  <2> SUFFICES ASSUME NEW i \in DOMAIN beats, beats[i].task \in Periodic,
                      age'[beats[i].task] <= BeatTimeout
               PROVE  beats[i].last \in {tick' - age'[beats[i].task], tick' - age'[beats[i].task] + TickWord}
    BY <1>1 DEF BeatsKnown
  <2>1. PICK t \in Periodic \cap made : t = beats[i].task
    BY <1>2
  <2>2. age'[t] = age[t] + 1 /\ age[t] <= BeatTimeout /\ age[t] \in Nat
    BY <1>2, <1>4, <2>1, TaskFacts
  <2>3. beats[i].last \in {tick - age[t], tick - age[t] + TickWord} /\ beats[i].last \in 0 .. TickWord - 1
    BY <1>0, <1>2, <2>1, <2>2 DEF BeatsKnown, Slot
  <2>4. beats[i].last \in {tick' - age'[t], tick' - age'[t] + TickWord}
    <3> DEFINE a == age[t]
               x == beats[i].last
               y == tick
               z == tick'
    <3>1. /\ a \in Nat /\ x \in 0 .. TickWord - 1 /\ y \in 0 .. TickWord - 1 /\ a < TickWord
          /\ x \in {y - a, y - a + TickWord} /\ z = IF y + 1 = TickWord THEN 0 ELSE y + 1
      BY <1>2, <1>3, <2>2, <2>3, TaskFacts
    <3> HIDE DEF a, x, y, z
    <3>2. x \in {z - (a + 1), z - (a + 1) + TickWord}
      BY <3>1, TaskFacts
    <3> QED BY <2>2, <3>2 DEF a, x, z
  <2> QED BY <2>1, <2>4
<1>7. CheckKnown'
  BY <1>1, <1>4 DEF CheckKnown
<1> QED BY <1>5, <1>6, <1>7 DEF TaskInv

\* main's own steps and the load.
LEMMA MainStepKeeps ==
  ASSUME TaskInv, MainStep \/ Load
  PROVE  TaskInv'
<1>0. TaskTypeOK /\ BeatsKnown /\ CheckKnown
  BY DEF TaskInv
<1>1. UNCHANGED <<tick, beats, made, age>>
  BY DEF MainStep, Load, BootDone, StarvationCheck_Begin, StarvationCheck_Slot, StarvationCheck_End
<1>2. BeatsKnown'
  BY <1>0, <1>1 DEF BeatsKnown
<1>3. CASE BootDone \/ Load
  BY <1>0, <1>1, <1>2, <1>3 DEF BootDone, Load, TaskInv, TaskTypeOK, CheckKnown
<1>4. CASE StarvationCheck_Begin
  <2>1. main' = "check" /\ check' = [now |-> tick, at |-> 1] /\ crossed' = crossed
    BY <1>4 DEF StarvationCheck_Begin
  <2> QED BY <1>0, <1>1, <1>2, <2>1 DEF TaskInv, TaskTypeOK, CheckKnown
<1>5. CASE StarvationCheck_Slot
  <2>1. main' = main /\ crossed' = crossed /\ check' = [check EXCEPT !.at = @ + 1]
    BY <1>5 DEF StarvationCheck_Slot
  <2>2. check' \in [now : 0 .. TickWord - 1, at : Nat] /\ check'.now = check.now
    BY <1>0, <2>1 DEF TaskTypeOK
  <2> QED BY <1>0, <1>1, <1>2, <2>1, <2>2 DEF TaskInv, TaskTypeOK, CheckKnown
<1>6. CASE StarvationCheck_End
  <2>1. main' = "sleep" /\ crossed' = {} /\ check' = NoCheck
    BY <1>6 DEF StarvationCheck_End
  <2> QED BY <1>0, <1>1, <1>2, <2>1, TaskFacts DEF TaskInv, TaskTypeOK, CheckKnown, NoCheck
<1> QED BY <1>3, <1>4, <1>5, <1>6 DEF MainStep

\* The invariant behind the guard: what the slots say about the threads'
\* ages, also while a check is under way.
THEOREM TaskInvariant == TaskSpec => []TaskInv
<1>1. TaskInit => TaskInv
  <2> SUFFICES ASSUME TaskInit PROVE TaskInv
    OBVIOUS
  <2>1. TickWord > 1
    BY TaskConstants
  <2>2. beats = <<>> /\ beats \in Seq(Slot) /\ DOMAIN beats = {}
    BY DEF TaskInit
  <2>3. age \in [Task -> 0 .. LongAgo]
    BY TaskFacts DEF TaskInit
  <2>4. TaskTypeOK
    BY <2>1, <2>2, <2>3, TaskFacts DEF TaskInit, TaskTypeOK, NoCheck
  <2> QED BY <2>2, <2>4 DEF TaskInit, TaskInv, BeatsKnown, CheckKnown
<1>2. TaskInv /\ [TaskNext]_taskVars => TaskInv'
  <2>1. TaskInv /\ TaskNext => TaskInv'
    BY CreateStep, BeatStep, TickStep, MainStepKeeps DEF TaskNext
  <2>2. TaskInv /\ UNCHANGED taskVars => TaskInv'
    BY DEF TaskInv, TaskTypeOK, BeatsKnown, CheckKnown, taskVars
  <2> QED BY <2>1, <2>2
<1> QED BY <1>1, <1>2, PTL DEF TaskSpec

\* A thread is named by Task_Set_StarvationCheck only if it has not made a
\* round for the whole timeout, or is stronger than main and made one between
\* main's reading of the tick and of its slot: for any number of threads and
\* any width of the tick above the timeout.
THEOREM TaskNamedIsStale == TaskSpec => NamedIsStale
<1>1. ASSUME TaskInv, [TaskNext]_taskVars, NEW t \in named' \ named
      PROVE  age[t] > BeatTimeout \/ t \in crossed \cap Stronger
  <2>0. TaskTypeOK /\ BeatsKnown /\ CheckKnown
    BY <1>1 DEF TaskInv
  <2>1. StarvationCheck_Slot
    BY <1>1 DEF TaskNext, MainStep, taskVars, BootDone, StarvationCheck_Begin, StarvationCheck_End,
               SysTick, Load, Task_Set_Create, Task_Set_Beat
  <2> DEFINE i == check.at
  <2>2. /\ main = "check" /\ i \in DOMAIN beats /\ t = beats[i].task /\ t \in Periodic
        /\ Stale(check.now, beats[i].last) > BeatTimeout
    BY <1>1, <2>1 DEF StarvationCheck_Slot
  <2>3. /\ tick \in 0 .. TickWord - 1 /\ check.now \in 0 .. TickWord - 1
        /\ t \in made /\ t \in Task /\ beats[i].last \in 0 .. TickWord - 1 /\ age[t] \in Nat
    <3>1. beats \in Seq(Slot) /\ beats[i] \in Slot /\ beats[i].task \in made
      BY <2>0, <2>2 DEF TaskTypeOK
    <3>2. tick \in 0 .. TickWord - 1 /\ check.now \in 0 .. TickWord - 1 /\ made \subseteq Task
      BY <2>0 DEF TaskTypeOK
    <3>3. t \in made /\ t \in Task /\ beats[i].last \in 0 .. TickWord - 1
      BY <2>2, <3>1, <3>2 DEF Slot
    <3>4. age[t] \in Nat
      BY <2>0, <3>3, TaskFacts DEF TaskTypeOK
    <3> QED BY <3>2, <3>3, <3>4
  <2> SUFFICES ASSUME age[t] <= BeatTimeout, t \notin crossed PROVE FALSE
    BY <2>0, <2>3, TaskFacts DEF TaskTypeOK
  <2>4. beats[i].last \in {tick - age[t], tick - age[t] + TickWord}
    BY <2>0, <2>2 DEF BeatsKnown
  <2>5. check.now = tick \/ (tick = (check.now + 1) % TickWord /\ age[t] > 0)
    BY <2>0, <2>2, <2>3 DEF CheckKnown
  <2>6. (check.now - beats[i].last) % TickWord <= age[t]
    <3> DEFINE last == beats[i].last
               a == age[t]
               now == check.now
               y == tick
    <3>1. /\ a \in Nat /\ a < TickWord /\ y \in 0 .. TickWord - 1 /\ now \in 0 .. TickWord - 1
          /\ last \in 0 .. TickWord - 1 /\ last \in {y - a, y - a + TickWord}
          /\ now = y \/ (y = (now + 1) % TickWord /\ a > 0)
      BY <2>3, <2>4, <2>5, TaskFacts
    <3> HIDE DEF last, a, now, y
    <3>2. (now - last) % TickWord <= a
      BY <3>1, TaskFacts, StaleIsAge
    <3> QED BY <3>2 DEF last, a, now
  <2>7. (check.now - beats[i].last) % TickWord \in Int
    BY <2>3, TaskFacts
  <2> QED BY <2>2, <2>3, <2>6, <2>7, TaskFacts DEF Stale
<1>2. TaskInv /\ [TaskNext]_taskVars =>
        [\A t \in named' \ named : age[t] > BeatTimeout \/ t \in crossed \cap Stronger]_taskVars
  BY <1>1
<1> QED BY <1>2, TaskInvariant, PTL DEF TaskSpec, NamedIsStale

-----------------------------------------------------------------------------
(* The time base *)

\* Products of counts and scales.
LEMMA Products ==
  ASSUME NEW w \in Nat, NEW a \in Int, NEW b \in Int
  PROVE  /\ (a + b) * w = a * w + b * w /\ (a - b) * w = a * w - b * w
         /\ a >= b => a * w >= b * w
<1>1. (a + b) * w = a * w + b * w /\ (a - b) * w = a * w - b * w
  OBVIOUS
<1>2. ASSUME a >= b PROVE a * w >= b * w
  BY <1>2
<1> QED BY <1>1, <1>2

\* What the division by the frequency loses is less than one.
LEMMA Quotient ==
  ASSUME NEW f \in Nat \ {0}, NEW x \in Nat
  PROVE  x \div f \in Nat /\ (x \div f) * f <= x /\ x < (x \div f + 1) * f
<1>1. x \div f \in Nat /\ (x \div f) * f <= x
  OBVIOUS
<1>2. x < (x \div f + 1) * f
  OBVIOUS
<1> QED BY <1>1, <1>2

\* Cutting a product to its width never makes it larger.
LEMMA Cut ==
  ASSUME NEW w \in Nat \ {0}, NEW x \in Nat
  PROVE  x % w \in Nat /\ x % w <= x /\ (x < w => x % w = x)
OBVIOUS

\* Two readings less than a period apart, one of which may have wrapped.
LEMMA Apart ==
  ASSUME NEW w \in Nat \ {0}, NEW x \in Nat, NEW y \in Nat, x - y > -w, x - y < w
  PROVE  LET n == x % w
             t == y % w
         IN (IF n >= t THEN n - t ELSE (w - t) + n) = IF x >= y THEN x - y ELSE x - y + w
OBVIOUS

\* The difference of two readings is never more than the counts between them,
\* exact when they are less than a period apart, and one period more when the
\* earlier one is the larger.
LEMMA DeltaBound ==
  ASSUME NEW now \in Nat, NEW then \in Nat
  PROVE  /\ Timer6_Delta(now, then) \in Nat
         /\ now >= then => Timer6_Delta(now, then) <= now - then
         /\ now >= then /\ now - then < Wrap => Timer6_Delta(now, then) = now - then
         /\ now < then /\ then - now < Wrap => Timer6_Delta(now, then) = now - then + Wrap
<1> DEFINE n == now % Wrap
           t == then % Wrap
           d == IF n >= t THEN n - t ELSE (Wrap - t) + n
<1>0. Wrap \in Nat \ {0}
  BY TimeConstants
<1>1. d \in Nat
  <2>1. n \in 0 .. Wrap - 1 /\ t \in 0 .. Wrap - 1
    BY <1>0
  <2> QED BY <1>0, <2>1
<1>2. ASSUME now >= then PROVE d <= now - then
  BY <1>0, <1>2
<1>3. ASSUME now - then < Wrap, then - now < Wrap
      PROVE  d = IF now >= then THEN now - then ELSE now - then + Wrap
  <2>1. now - then > -Wrap
    BY <1>0, <1>3
  <2> QED BY <1>0, <1>3, <2>1, Apart
<1>4. d = Timer6_Delta(now, then)
  BY DEF Timer6_Delta
<1> HIDE DEF d
<1> QED BY <1>0, <1>1, <1>2, <1>3, <1>4

\* The microseconds made of a difference: never more than there were, and as
\* long as the product fits, less by under one.
LEMMA UsBound ==
  ASSUME NEW d \in Nat
  PROVE  LET u == Timer6_Timebase_DeltaToUs(d)
         IN /\ u \in Nat /\ u * Freq <= d * Scale
            /\ d * Scale < Word => d * Scale < (u + 1) * Freq
<1> DEFINE p == d * Scale
           m == p % Word
           u == Timer6_Timebase_DeltaToUs(d)
<1>0. Scale \in Nat \ {0} /\ Freq \in Nat \ {0} /\ Word \in Nat \ {0}
  BY TimeConstants
<1>1. p \in Nat
  BY <1>0
<1> HIDE DEF p
<1>2. m \in Nat /\ m <= p /\ (p < Word => m = p)
  BY <1>0, <1>1, Cut
<1> HIDE DEF m
<1>3. m \div Freq \in Nat /\ (m \div Freq) * Freq <= m /\ m < (m \div Freq + 1) * Freq
  BY <1>0, <1>2, Quotient
<1>4. u = m \div Freq
  BY DEF Timer6_Timebase_DeltaToUs, m, p
<1> HIDE DEF u
<1>5. u * Freq \in Nat /\ (u + 1) * Freq \in Nat
  BY <1>0, <1>3, <1>4
<1>6. u \in Nat /\ u * Freq <= p /\ (p < Word => p < (u + 1) * Freq)
  BY <1>1, <1>2, <1>3, <1>4, <1>5
<1> QED BY <1>6 DEF u, p

TimeTypeOK ==
  /\ counts \in Nat /\ stamp \in Nat /\ stored \in Nat \cup {Never}
  /\ reading \in [Caller -> Nat \cup {Never}]
  /\ edge \in Nat /\ interval \in Nat /\ gap \in Nat
  /\ begun \in Nat /\ updates \in Nat /\ overtaken \in Nat /\ wide \in BOOLEAN

\* Every reading kept is one of the past, and an update half way holds one that
\* is less than a period old.
ReadingsKnown ==
  /\ edge <= counts /\ stored <= counts
  /\ \A c \in Caller : reading[c] # Never =>
       stored # Never /\ reading[c] <= counts /\ counts - reading[c] < Wrap

TimeInv == TimeTypeOK /\ ReadingsKnown /\ ClocksAreTrue

\* What the constants are.
LEMMA TimeFacts ==
  /\ Wrap \in Nat \ {0} /\ Scale \in Nat \ {0} /\ Freq \in Nat \ {0} /\ Word \in Nat \ {0}
  /\ Wrap * Scale >= Word /\ Never = -1 /\ Never \notin Nat
BY TimeConstants DEF Never

\* An update adds what it found to the time stamp.
LEMMA StoreStep ==
  ASSUME TimeInv, NEW c \in Caller, UpdateTimestamp_Store(c)
  PROVE  TimeInv'
<1> DEFINE r == reading[c]
           d == Timer6_Delta(r, stored)
           u == Timer6_Timebase_DeltaToUs(d)
           over == IF r < stored THEN 1 ELSE 0
           p == stored - begun
<1>0. TimeTypeOK /\ ReadingsKnown /\ StampNotAhead /\ StampKeepsUp /\ IntervalNotLonger
  BY DEF TimeInv, ClocksAreTrue
<1>1. /\ r # Never /\ stamp' = stamp + u /\ stored' = r /\ reading' = [reading EXCEPT ![c] = Never]
      /\ updates' = updates + 1 /\ overtaken' = IF r < stored THEN overtaken + 1 ELSE overtaken
      /\ wide' = (wide \/ (r - stored) * Scale >= Word)
      /\ counts' = counts /\ begun' = begun /\ edge' = edge /\ interval' = interval /\ gap' = gap
  BY DEF UpdateTimestamp_Store, edgeVars
<1>2. /\ r \in Nat /\ stored \in Nat /\ stored # Never /\ begun \in Nat /\ stamp \in Nat
      /\ updates \in Nat /\ overtaken \in Nat /\ counts \in Nat
      /\ stored <= counts /\ r <= counts /\ counts - r < Wrap
  BY <1>0, <1>1 DEF TimeTypeOK, ReadingsKnown
<1>3. stored - r < Wrap
  BY <1>2, TimeFacts
<1> HIDE DEF r
<1>4. /\ d \in Nat
      /\ r >= stored => d <= r - stored
      /\ r >= stored /\ r - stored < Wrap => d = r - stored
      /\ r < stored => d = r - stored + Wrap
  BY <1>2, <1>3, DeltaBound
<1> HIDE DEF d
<1>5. u \in Nat /\ u * Freq <= d * Scale /\ (d * Scale < Word => d * Scale < (u + 1) * Freq)
  BY <1>4, UsBound
<1> HIDE DEF u
<1>6. overtaken' = overtaken + over /\ over \in {0, 1}
  BY <1>1, <1>2
<1>7. d <= r - stored + over * Wrap
  BY <1>2, <1>4, TimeFacts
<1>8. TimeTypeOK'
  <2>1. reading' \in [Caller -> Nat \cup {Never}]
    BY <1>0, <1>1 DEF TimeTypeOK
  <2>2. wide' \in BOOLEAN
    BY <1>1
  <2>3. overtaken' \in Nat /\ updates' \in Nat /\ stamp' \in Nat
    BY <1>1, <1>2, <1>5, <1>6
  <2> QED BY <1>0, <1>1, <1>2, <2>1, <2>2, <2>3 DEF TimeTypeOK
<1>9. ReadingsKnown'
  BY <1>0, <1>1, <1>2, TimeFacts DEF ReadingsKnown, TimeTypeOK
<1>10. Passed = p /\ Passed' = p + (r - stored) /\ p \in Int
  BY <1>1, <1>2 DEF Passed
<1> HIDE DEF over, p
<1>11. StampNotAhead'
  <2> DEFINE ahead == p + overtaken * Wrap
  <2>1. stamp * Freq <= ahead * Scale
    BY <1>0, <1>10 DEF StampNotAhead
  <2>2. over * Wrap \in Int /\ overtaken * Wrap \in Int
    BY <1>2, <1>6, TimeFacts
  <2>3. (overtaken + over) * Wrap = overtaken * Wrap + over * Wrap
    BY <1>2, <1>6, TimeFacts, Products
  <2>4. Passed' + overtaken' * Wrap = ahead + (r - stored + over * Wrap)
    BY <1>2, <1>6, <1>10, <2>2, <2>3
  <2> DEFINE more == r - stored + over * Wrap
  <2>5. ahead \in Int /\ more \in Int /\ d <= more
    BY <1>2, <1>7, <1>10, <2>2
  <2> HIDE DEF ahead, more
  <2>6. (ahead + more) * Scale = ahead * Scale + more * Scale /\ more * Scale >= d * Scale
    BY <1>4, <2>5, TimeFacts, Products
  <2>7. (stamp + u) * Freq = stamp * Freq + u * Freq
    BY <1>2, <1>5, TimeFacts, Products
  <2>8. /\ stamp * Freq \in Int /\ u * Freq \in Int /\ ahead * Scale \in Int
        /\ more * Scale \in Int /\ d * Scale \in Int
    BY <1>2, <1>4, <1>5, <2>5, TimeFacts
  <2>9. (stamp + u) * Freq <= (ahead + more) * Scale
    BY <1>5, <2>1, <2>6, <2>7, <2>8
  <2> QED BY <1>1, <2>4, <2>9 DEF StampNotAhead, ahead, more
<1>12. StampKeepsUp'
  <2> SUFFICES ASSUME ~ wide' PROVE (stamp' + updates') * Freq >= Passed' * Scale
    BY DEF StampKeepsUp
  <2> DEFINE x == r - stored
             k == stamp + updates
  <2>1. ~ wide /\ ~ (x * Scale >= Word)
    BY <1>1
  <2>2. x \in Int /\ k \in Nat
    BY <1>2
  <2>3. k * Freq >= p * Scale
    BY <1>0, <1>10, <2>1 DEF StampKeepsUp
  <2>4. (u + 1) * Freq >= x * Scale
    <3>1. CASE x >= Wrap
      <4>1. x * Scale >= Wrap * Scale
        BY <2>2, <3>1, TimeFacts, Products
      <4>2. x * Scale \in Int /\ Wrap * Scale \in Int
        BY <2>2, TimeFacts
      <4> QED BY <2>1, <4>1, <4>2, TimeFacts
    <3>2. CASE x >= 0 /\ x < Wrap
      <4>1. d = x
        BY <1>2, <1>4, <3>2
      <4> HIDE DEF x
      <4>2. x * Scale \in Int /\ (u + 1) * Freq \in Int
        BY <1>5, <2>2, TimeFacts
      <4>3. x * Scale < Word
        BY <2>1, <4>2, TimeFacts
      <4> QED BY <1>5, <4>1, <4>2, <4>3
    <3>3. CASE x < 0
      <4> HIDE DEF x
      <4>1. x * Scale \in Int /\ x * Scale <= 0 * Scale /\ 0 * Scale = 0
        BY <2>2, <3>3, TimeFacts, Products
      <4>2. (u + 1) * Freq \in Nat
        BY <1>5, TimeFacts
      <4> QED BY <4>1, <4>2
    <3> QED BY <2>2, <3>1, <3>2, <3>3, TimeFacts
  <2>5. stamp' + updates' = k + (u + 1) /\ Passed' = p + x
    BY <1>1, <1>2, <1>5, <1>10
  <2> HIDE DEF x, k
  <2>6. (k + (u + 1)) * Freq = k * Freq + (u + 1) * Freq /\ (p + x) * Scale = p * Scale + x * Scale
    BY <1>5, <1>10, <2>2, TimeFacts, Products
  <2>7. k * Freq \in Int /\ (u + 1) * Freq \in Int /\ p * Scale \in Int /\ x * Scale \in Int
    BY <1>5, <1>10, <2>2, TimeFacts
  <2> QED BY <2>3, <2>4, <2>5, <2>6, <2>7
<1>13. IntervalNotLonger'
  BY <1>0, <1>1 DEF IntervalNotLonger
<1> QED BY <1>8, <1>9, <1>11, <1>12, <1>13 DEF TimeInv, ClocksAreTrue

\* An edge takes the interval since the last one.
LEMMA GetDeltaStep ==
  ASSUME TimeInv, Timer6_Timebase_GetDelta
  PROVE  TimeInv'
<1> DEFINE d == Timer6_Delta(counts, edge)
           u == Timer6_Timebase_DeltaToUs(d)
           g == counts - edge
<1>0. TimeTypeOK /\ ReadingsKnown /\ StampNotAhead /\ StampKeepsUp
  BY DEF TimeInv, ClocksAreTrue
<1>1. /\ edge' = counts /\ interval' = u /\ gap' = g /\ counts' = counts
      /\ UNCHANGED <<stamp, stored, reading, begun, updates, overtaken, wide>>
  BY DEF Timer6_Timebase_GetDelta, stampVars
<1>2. counts \in Nat /\ edge \in Nat /\ g \in Nat
  BY <1>0 DEF TimeTypeOK, ReadingsKnown
<1>3. d \in Nat /\ d <= g
  BY <1>2, DeltaBound
<1> HIDE DEF d
<1>4. u \in Nat /\ u * Freq <= d * Scale
  BY <1>3, UsBound
<1> HIDE DEF u, g
<1>5. g * Scale >= d * Scale /\ g * Scale \in Int /\ d * Scale \in Int /\ u * Freq \in Int
  BY <1>2, <1>3, <1>4, TimeFacts, Products
<1>6. IntervalNotLonger'
  BY <1>1, <1>4, <1>5 DEF IntervalNotLonger
<1>7. TimeTypeOK'
  BY <1>0, <1>1, <1>2, <1>4 DEF TimeTypeOK
<1>8. ReadingsKnown'
  BY <1>0, <1>1, <1>2 DEF ReadingsKnown
<1>9. StampNotAhead' /\ StampKeepsUp'
  BY <1>0, <1>1 DEF StampNotAhead, StampKeepsUp, Passed
<1> QED BY <1>6, <1>7, <1>8, <1>9 DEF TimeInv, ClocksAreTrue

\* An update reads the counter, and the counter runs.
LEMMA ReadStep ==
  ASSUME TimeInv, Count \/ \E c \in Caller : UpdateTimestamp_Read(c)
  PROVE  TimeInv'
<1>0. TimeTypeOK /\ ReadingsKnown /\ StampNotAhead /\ StampKeepsUp /\ IntervalNotLonger
  BY DEF TimeInv, ClocksAreTrue
<1>1. UNCHANGED <<stamp, updates, overtaken, wide, edge, interval, gap>>
  BY DEF Count, UpdateTimestamp_Read, stampVars, edgeVars
<1>2. Passed' = Passed /\ begun' \in Nat
  <2>1. CASE Count
    BY <1>0, <2>1 DEF Count, Passed, stampVars, TimeTypeOK
  <2>2. CASE \E c \in Caller : UpdateTimestamp_Read(c)
    BY <1>0, <2>2, TimeFacts DEF UpdateTimestamp_Read, Passed, TimeTypeOK
  <2> QED BY <2>1, <2>2
<1>3. StampNotAhead' /\ StampKeepsUp' /\ IntervalNotLonger'
  BY <1>0, <1>1, <1>2 DEF StampNotAhead, StampKeepsUp, IntervalNotLonger
<1>4. CASE Count
  <2>1. /\ counts' = counts + 1 /\ UNCHANGED <<stored, reading>>
        /\ \A c \in Caller : reading[c] # Never => counts - reading[c] < Wrap - 1
    BY <1>4 DEF Count, stampVars
  <2>2. TimeTypeOK'
    BY <1>0, <1>1, <1>2, <2>1 DEF TimeTypeOK
  <2>3. ReadingsKnown'
    <3>1. edge' <= counts' /\ stored' <= counts'
      BY <1>0, <1>1, <2>1, TimeFacts DEF TimeTypeOK, ReadingsKnown
    <3>2. ASSUME NEW c \in Caller, reading'[c] # Never
          PROVE  stored' # Never /\ reading'[c] <= counts' /\ counts' - reading'[c] < Wrap
      <4>1. reading[c] \in Nat /\ counts \in Nat /\ reading[c] <= counts /\ stored # Never
            /\ counts - reading[c] < Wrap - 1
        BY <1>0, <2>1, <3>2 DEF TimeTypeOK, ReadingsKnown
      <4> QED BY <2>1, <4>1, TimeFacts
    <3> QED BY <3>1, <3>2 DEF ReadingsKnown
  <2> QED BY <1>3, <2>2, <2>3 DEF TimeInv, ClocksAreTrue
<1>5. CASE \E c \in Caller : UpdateTimestamp_Read(c)
  <2>1. PICK c \in Caller : UpdateTimestamp_Read(c)
    BY <1>5
  <2>2. counts' = counts /\ counts \in Nat
    BY <1>0, <2>1 DEF UpdateTimestamp_Read, TimeTypeOK
  <2>3. CASE stored # Never
    <3>1. reading' = [reading EXCEPT ![c] = counts] /\ stored' = stored
      BY <2>1, <2>3 DEF UpdateTimestamp_Read
    <3>2. TimeTypeOK'
      BY <1>0, <1>1, <1>2, <2>2, <3>1 DEF TimeTypeOK
    <3>3. \A b \in Caller : reading'[b] # Never =>
            stored' # Never /\ reading'[b] <= counts' /\ counts' - reading'[b] < Wrap
      BY <1>0, <2>2, <2>3, <3>1, TimeFacts DEF TimeTypeOK, ReadingsKnown
    <3> QED BY <1>0, <1>1, <1>3, <2>2, <3>1, <3>2, <3>3 DEF ReadingsKnown, TimeInv, ClocksAreTrue
  <2>4. CASE stored = Never
    <3>1. reading' = reading /\ stored' = counts /\ \A b \in Caller : reading[b] = Never
      BY <1>0, <2>1, <2>4 DEF UpdateTimestamp_Read, ReadingsKnown
    <3>2. TimeTypeOK'
      BY <1>0, <1>1, <1>2, <2>2, <3>1 DEF TimeTypeOK
    <3> QED BY <1>0, <1>1, <1>3, <2>2, <3>1, <3>2 DEF ReadingsKnown, TimeInv, ClocksAreTrue
  <2> QED BY <2>3, <2>4
<1> QED BY <1>4, <1>5

\* The invariant of the time base: the readings under way bound what the next
\* update can add.
THEOREM TimeInvariant == TimeSpec => []TimeInv
<1>1. TimeInit => TimeInv
  <2> SUFFICES ASSUME TimeInit PROVE TimeInv
    OBVIOUS
  <2>r. reading \in [Caller -> Nat \cup {Never}] /\ \A c \in Caller : reading[c] = Never
    BY DEF TimeInit
  <2>t. TimeTypeOK
    BY <2>r DEF TimeInit, TimeTypeOK
  <2>1. TimeTypeOK /\ ReadingsKnown
    BY <2>r, <2>t, TimeFacts DEF TimeInit, ReadingsKnown
  <2>2. /\ stamp = 0 /\ updates = 0 /\ overtaken = 0 /\ interval = 0 /\ gap = 0 /\ Passed = 0
    BY DEF TimeInit, Passed
  <2>3. 0 * Freq = 0 /\ 0 * Scale = 0 /\ 0 * Wrap = 0
    BY TimeFacts
  <2>4. ClocksAreTrue
    BY <2>2, <2>3 DEF ClocksAreTrue, StampNotAhead, StampKeepsUp, IntervalNotLonger
  <2> QED BY <2>1, <2>4 DEF TimeInv
<1>2. TimeInv /\ [TimeNext]_timeVars => TimeInv'
  <2>1. TimeInv /\ TimeNext => TimeInv'
    BY StoreStep, GetDeltaStep, ReadStep DEF TimeNext, StampNext, EdgeNext
  <2>2. TimeInv /\ UNCHANGED timeVars => TimeInv'
    BY DEF TimeInv, TimeTypeOK, ReadingsKnown, ClocksAreTrue, StampNotAhead, StampKeepsUp,
           IntervalNotLonger, Passed, timeVars
  <2> QED BY <2>1, <2>2
<1> QED BY <1>1, <1>2, PTL DEF TimeSpec

\* Both clocks of hc32_drv_timer.c, for every counter period, word and
\* frequency, any number of threads that update the stamp and any time they
\* run: never ahead but for one period per overtaken update, behind only by the
\* rounding of each update, and no interval between two edges taken for longer.
THEOREM TimeClocksAreTrue == TimeSpec => []ClocksAreTrue
<1>1. TimeInv => ClocksAreTrue
  BY DEF TimeInv
<1> QED BY <1>1, TimeInvariant, PTL

-----------------------------------------------------------------------------
(* The sliding mean of the converter: the sum over a window, element by    *)
(* element *)

Pick(s) == CHOOSE x \in s : TRUE
SumFrom(f, h, s) == IF s = {} THEN 0 ELSE f[Pick(s)] + h[s \ {Pick(s)}]
SumOf(f) == CHOOSE h : h = [s \in SUBSET DOMAIN f |-> SumFrom(f, h, s)]
WinSum(f) == SumOf(f)[DOMAIN f]

\* The fold is the sum over all of the domain.
LEMMA FoldIsSum ==
  ASSUME NEW f
  PROVE  FoldFunction(+, 0, f) = WinSum(f)
BY DEF FoldFunction, FoldFunctionOnSet, MapThenFoldSet, WinSum, SumOf, SumFrom, Pick

\* The sum's recursion has a solution: for sets of every size, by induction.
LEMMA SumExists ==
  ASSUME NEW f, IsFiniteSet(DOMAIN f)
  PROVE  \E h : h = [s \in SUBSET DOMAIN f |-> SumFrom(f, h, s)]
<1> DEFINE D == DOMAIN f
           Good(h, n) == /\ h = [s \in SUBSET D |-> h[s]]
                         /\ \A s \in SUBSET D : Cardinality(s) <= n => h[s] = SumFrom(f, h, s)
           S == {n \in Nat : \E h : Good(h, n)}
<1>0. \A s \in SUBSET D : IsFiniteSet(s) /\ Cardinality(s) \in Nat /\ Cardinality(s) <= Cardinality(D)
  BY FS_Subset, FS_CardinalityType
<1>p. \A s \in SUBSET D : s # {} => Pick(s) \in s
  BY DEF Pick
<1>r. ASSUME NEW s \in SUBSET D, s # {}
      PROVE  s \ {Pick(s)} \in SUBSET D /\ Cardinality(s \ {Pick(s)}) = Cardinality(s) - 1
  BY <1>r, <1>0, <1>p, FS_RemoveElement
<1>1. 0 \in S
  <2> DEFINE h == [s \in SUBSET D |-> 0]
  <2>1. \A s \in SUBSET D : Cardinality(s) <= 0 => h[s] = SumFrom(f, h, s)
    <3> SUFFICES ASSUME NEW s \in SUBSET D, Cardinality(s) <= 0 PROVE h[s] = SumFrom(f, h, s)
      OBVIOUS
    <3>1. s = {}
      BY <1>0, FS_EmptySet
    <3> QED BY <3>1 DEF SumFrom
  <2>2. Good(h, 0)
    BY <2>1
  <2> QED BY <2>2
<1>2. ASSUME NEW n \in Nat, n \in S PROVE n + 1 \in S
  <2>1. PICK g : Good(g, n)
    BY <1>2
  <2> DEFINE h == [s \in SUBSET D |-> SumFrom(f, g, s)]
  <2>2. ASSUME NEW s \in SUBSET D, Cardinality(s) <= n + 1
        PROVE  h[s] = SumFrom(f, h, s)
    <3>1. CASE s = {}
      BY <3>1 DEF SumFrom
    <3>2. CASE s # {}
      <4> DEFINE t == s \ {Pick(s)}
      <4>1. t \in SUBSET D /\ Cardinality(t) <= n
        BY <1>0, <1>r, <2>2, <3>2
      <4>2. h[t] = g[t]
        BY <4>1, <2>1
      <4> HIDE DEF t
      <4>3. h[s] = f[Pick(s)] + g[t]
        BY <3>2 DEF SumFrom, t
      <4> QED BY <3>2, <4>2, <4>3 DEF SumFrom, t
    <3> HIDE DEF h
    <3> QED BY <3>1, <3>2
  <2>3. h = [s \in SUBSET D |-> h[s]]
    OBVIOUS
  <2> HIDE DEF h
  <2>4. Good(h, n + 1)
    BY <2>2, <2>3
  <2> HIDE DEF Good
  <2>5. \E d : Good(d, n + 1)
    BY <2>4
  <2> QED BY <2>5
<1>3. \A n \in Nat : n \in S
  <2> HIDE DEF S
  <2> QED BY <1>1, <1>2, Induct
<1>4. Cardinality(D) \in Nat
  BY <1>0
<1>5. PICK h : Good(h, Cardinality(D))
  BY <1>3, <1>4
<1>6. h = [s \in SUBSET D |-> SumFrom(f, h, s)]
  BY <1>0, <1>5
<1> QED BY <1>6

\* The sum satisfies its equation.
LEMMA SumEquation ==
  ASSUME NEW f, IsFiniteSet(DOMAIN f)
  PROVE  \A s \in SUBSET DOMAIN f : SumOf(f)[s] = SumFrom(f, SumOf(f), s)
<1>1. SumOf(f) = [s \in SUBSET DOMAIN f |-> SumFrom(f, SumOf(f), s)]
  BY SumExists DEF SumOf
<1> QED BY <1>1

\* One summand after the other: every sum is an integer.
LEMMA SumPicks ==
  ASSUME NEW D, IsFiniteSet(D), NEW f \in [D -> Int]
  PROVE  /\ \A s \in SUBSET D : SumOf(f)[s] \in Int
         /\ SumOf(f)[{}] = 0
         /\ \A s \in SUBSET D : s # {} =>
              /\ Pick(s) \in s /\ s \ {Pick(s)} \in SUBSET D
              /\ SumOf(f)[s] = f[Pick(s)] + SumOf(f)[s \ {Pick(s)}]
<1> DEFINE h == SumOf(f)
           P == {s \in SUBSET D : h[s] \in Int}
<1>0. DOMAIN f = D
  OBVIOUS
<1>1. \A s \in SUBSET D : h[s] = SumFrom(f, h, s)
  BY <1>0, SumEquation
<1> HIDE DEF h
<1>2. h[{}] = 0
  BY <1>1 DEF SumFrom
<1>3. ASSUME NEW s \in SUBSET D, s # {}
      PROVE  Pick(s) \in s /\ s \ {Pick(s)} \in SUBSET D /\ h[s] = f[Pick(s)] + h[s \ {Pick(s)}]
  BY <1>1, <1>3 DEF SumFrom, Pick
<1>4. ASSUME NEW s \in SUBSET D, s # {}, \A x \in s : s \ {x} \in P
      PROVE  s \in P
  <2>1. Pick(s) \in s /\ h[s] = f[Pick(s)] + h[s \ {Pick(s)}]
    BY <1>3, <1>4
  <2>2. h[s \ {Pick(s)}] \in Int /\ f[Pick(s)] \in Int
    BY <1>4, <2>1
  <2> QED BY <2>1, <2>2
<1>5. {} \in P
  BY <1>2
<1>6. \A s \in SUBSET D : s \in P
  <2> HIDE DEF P
  <2> QED BY <1>4, <1>5, SetInduct
<1> QED BY <1>2, <1>3, <1>6 DEF h

\* The sum after one value was replaced.
LEMMA SumUpdate ==
  ASSUME NEW D, IsFiniteSet(D), NEW f \in [D -> Int], NEW x \in D, NEW g \in [D -> Int],
         \A i \in D : i # x => g[i] = f[i]
  PROVE  \A s \in SUBSET D : SumOf(g)[s] = SumOf(f)[s] + (IF x \in s THEN g[x] - f[x] ELSE 0)
<1> DEFINE v == g[x]
           More(s) == IF x \in s THEN v - f[x] ELSE 0
           P == {s \in SUBSET D : SumOf(g)[s] = SumOf(f)[s] + More(s)}
<1>0. v \in Int /\ g[x] = v
  OBVIOUS
<1> HIDE DEF v
<1>p. ASSUME NEW h \in [D -> Int], NEW s \in SUBSET D, s # {}
      PROVE  /\ Pick(s) \in s /\ s \ {Pick(s)} \in SUBSET D
             /\ SumOf(h)[s] = h[Pick(s)] + SumOf(h)[s \ {Pick(s)}]
  BY <1>p, SumPicks
<1>1. {} \in P
  BY <1>0, SumPicks
<1>2. ASSUME NEW s \in SUBSET D, s # {}, \A y \in s : s \ {y} \in P
      PROVE  s \in P
  <2> DEFINE c == Pick(s)
             t == s \ {c}
  <2>1. c \in s /\ SumOf(f)[s] = f[c] + SumOf(f)[t] /\ SumOf(f)[t] \in Int
    BY <1>2, SumPicks
  <2>2. SumOf(g)[s] = g[c] + SumOf(g)[t]
    BY <1>p, <1>2
  <2>3. SumOf(g)[t] = SumOf(f)[t] + More(t)
    BY <1>2, <2>1
  <2>4. f[c] \in Int /\ f[x] \in Int
    BY <2>1
  <2> HIDE DEF c
  <2>5. CASE c = x
    <3>1. More(t) = 0 /\ More(s) = v - f[x] /\ g[c] = v
      BY <1>0, <2>1, <2>5
    <3> HIDE DEF More, t
    <3> QED BY <2>1, <2>2, <2>3, <2>4, <2>5, <3>1
  <2>6. CASE c # x
    <3>1. More(t) = More(s) /\ g[c] = f[c] /\ More(s) \in Int
      BY <1>0, <2>1, <2>4, <2>6
    <3> HIDE DEF More, t
    <3> QED BY <2>1, <2>2, <2>3, <2>4, <3>1
  <2> QED BY <2>5, <2>6
<1>3. \A s \in SUBSET D : s \in P
  <2> HIDE DEF P
  <2> QED BY <1>1, <1>2, SetInduct
<1> QED BY <1>3 DEF v

\* Larger values have a larger sum.
LEMMA SumMonotone ==
  ASSUME NEW D, IsFiniteSet(D), NEW f \in [D -> Int], NEW g \in [D -> Int], \A i \in D : f[i] <= g[i]
  PROVE  \A s \in SUBSET D : SumOf(f)[s] <= SumOf(g)[s]
<1> DEFINE P == {s \in SUBSET D : SumOf(f)[s] <= SumOf(g)[s]}
<1>0. ASSUME NEW h \in [D -> Int], NEW s \in SUBSET D, s # {}
      PROVE  /\ Pick(s) \in s /\ s \ {Pick(s)} \in SUBSET D
             /\ SumOf(h)[s] = h[Pick(s)] + SumOf(h)[s \ {Pick(s)}]
  BY <1>0, SumPicks
<1>1. {} \in P
  BY SumPicks
<1>2. ASSUME NEW s \in SUBSET D, s # {}, \A y \in s : s \ {y} \in P
      PROVE  s \in P
  <2> DEFINE c == Pick(s)
             t == s \ {c}
  <2>0. c \in s /\ t \in SUBSET D
    BY <1>2, SumPicks
  <2>i. \A u \in SUBSET D : SumOf(f)[u] \in Int
    BY SumPicks
  <2>f. SumOf(f)[s] = f[c] + SumOf(f)[t]
    BY <1>0, <1>2
  <2>1. c \in s /\ SumOf(f)[s] = f[c] + SumOf(f)[t] /\ SumOf(f)[t] \in Int
    BY <2>0, <2>f, <2>i
  <2>2. SumOf(g)[s] = g[c] + SumOf(g)[t] /\ SumOf(g)[t] \in Int
    BY <1>2, <2>0, SumPicks
  <2>3. SumOf(f)[t] <= SumOf(g)[t]
    BY <1>2, <2>1
  <2>4. f[c] \in Int /\ g[c] \in Int /\ f[c] <= g[c]
    BY <2>1
  <2> HIDE DEF c, t
  <2> QED BY <2>1, <2>2, <2>3, <2>4
<1>3. \A s \in SUBSET D : s \in P
  <2> HIDE DEF P
  <2> QED BY <1>1, <1>2, SetInduct
<1> QED BY <1>3

-----------------------------------------------------------------------------
(* The sum over the slots of the window *)

\* Replacing a sample changes the sum by the difference.
LEMMA WinUpdate ==
  ASSUME NEW f \in [Slots -> Int], NEW x \in Slots, NEW v \in Int
  PROVE  /\ WinSum(f) \in Int
         /\ WinSum([f EXCEPT ![x] = v]) = WinSum(f) + (v - f[x])
<1>1. IsFiniteSet(Slots) /\ Slots \in SUBSET Slots
  BY FS_Interval, AdcConstants DEF Slots
<1> DEFINE g == [f EXCEPT ![x] = v]
<1>2. /\ DOMAIN f = Slots /\ DOMAIN g = Slots
      /\ g \in [Slots -> Int] /\ g[x] = v /\ \A i \in Slots : i # x => g[i] = f[i]
  OBVIOUS
<1> HIDE DEF g
<1>3. SumOf(f)[Slots] \in Int
  BY <1>1, SumPicks
<1>4. SumOf(g)[Slots] = SumOf(f)[Slots] + (v - f[x])
  <2>1. \A s \in SUBSET Slots : SumOf(g)[s] = SumOf(f)[s] + (IF x \in s THEN g[x] - f[x] ELSE 0)
    BY <1>1, <1>2, SumUpdate
  <2> QED BY <1>1, <1>2, <2>1
<1> QED BY <1>2, <1>3, <1>4 DEF WinSum, g

\* The sum of a window that has the same value up to a place, and 0 behind it.
LEMMA WinFlat ==
  ASSUME NEW n \in 0 .. WinLen, NEW c \in Int
  PROVE  WinSum([i \in Slots |-> IF i < n THEN c ELSE 0]) = n * c
<1> DEFINE Flat(k) == [i \in Slots |-> IF i < k THEN c ELSE 0]
           S == {k \in Nat : k <= WinLen => WinSum(Flat(k)) = k * c}
<1>0. /\ IsFiniteSet(Slots) /\ Slots \in SUBSET Slots /\ WinLen \in Nat \ {0}
      /\ \A k \in Nat : Flat(k) \in [Slots -> Int] /\ DOMAIN Flat(k) = Slots
  BY FS_Interval, AdcConstants DEF Slots
<1>1. 0 \in S
  <2> DEFINE z == Flat(0)
             P == {s \in SUBSET Slots : SumOf(z)[s] = 0}
  <2>1. z \in [Slots -> Int] /\ DOMAIN z = Slots /\ \A i \in Slots : z[i] = 0
    BY <1>0 DEF Slots
  <2> HIDE DEF z
  <2>2. {} \in P
    BY <1>0, <2>1, SumPicks
  <2>3. ASSUME NEW s \in SUBSET Slots, s # {}, \A y \in s : s \ {y} \in P
        PROVE  s \in P
    <3>0. z \in [Slots -> Int] /\ IsFiniteSet(Slots)
      BY <1>0, <2>1
    <3>1. Pick(s) \in s /\ SumOf(z)[s] = z[Pick(s)] + SumOf(z)[s \ {Pick(s)}]
      BY <3>0, <2>3, SumPicks
    <3>2. SumOf(z)[s \ {Pick(s)}] = 0 /\ z[Pick(s)] = 0
      BY <2>1, <2>3, <3>1
    <3> QED BY <3>1, <3>2
  <2>4. \A s \in SUBSET Slots : s \in P
    <3> HIDE DEF P
    <3> QED BY <1>0, <2>2, <2>3, SetInduct
  <2>5. WinSum(z) = 0
    BY <1>0, <2>1, <2>4 DEF WinSum
  <2> QED BY <2>5 DEF z
<1>2. ASSUME NEW k \in Nat, k \in S PROVE k + 1 \in S
  <2> SUFFICES ASSUME k + 1 <= WinLen PROVE WinSum(Flat(k + 1)) = (k + 1) * c
    OBVIOUS
  <2>1. k \in Slots /\ WinSum(Flat(k)) = k * c
    BY <1>0, <1>2 DEF Slots
  <2>2. Flat(k + 1) = [Flat(k) EXCEPT ![k] = c] /\ Flat(k)[k] = 0
    BY <2>1, <1>0 DEF Slots
  <2> HIDE DEF Flat
  <2>3. WinSum(Flat(k + 1)) = WinSum(Flat(k)) + (c - 0)
    <3>1. PICK f \in [Slots -> Int] : f = Flat(k)
      BY <1>0
    <3>2. WinSum([f EXCEPT ![k] = c]) = WinSum(f) + (c - f[k])
      BY <2>1, WinUpdate
    <3> QED BY <2>2, <3>1, <3>2
  <2> QED BY <2>1, <2>3
<1>3. \A k \in Nat : k \in S
  <2> HIDE DEF S
  <2> QED BY <1>1, <1>2, Induct
<1> QED BY <1>0, <1>3

\* A window with samples up to a place: their number times the least, and
\* times the largest, bound the sum.
LEMMA WinBounds ==
  ASSUME NEW f \in [Slots -> Int], NEW n \in 0 .. WinLen, NEW lo \in Int, NEW hi \in Int,
         \A i \in Slots : IF i < n THEN lo <= f[i] /\ f[i] <= hi ELSE f[i] = 0
  PROVE  n * lo <= WinSum(f) /\ WinSum(f) <= n * hi
<1> DEFINE L == [i \in Slots |-> IF i < n THEN lo ELSE 0]
           H == [i \in Slots |-> IF i < n THEN hi ELSE 0]
<1>1. IsFiniteSet(Slots) /\ Slots \in SUBSET Slots
  BY FS_Interval, AdcConstants DEF Slots
<1>2. /\ L \in [Slots -> Int] /\ H \in [Slots -> Int] /\ DOMAIN L = Slots /\ DOMAIN H = Slots
      /\ \A i \in Slots : L[i] <= f[i] /\ f[i] <= H[i]
      /\ DOMAIN f = Slots
  OBVIOUS
<1>3. WinSum(L) = n * lo /\ WinSum(H) = n * hi
  BY WinFlat
<1> HIDE DEF L, H
<1>4. SumOf(L)[Slots] <= SumOf(f)[Slots] /\ SumOf(f)[Slots] <= SumOf(H)[Slots]
  BY <1>1, <1>2, SumMonotone
<1> QED BY <1>2, <1>3, <1>4 DEF WinSum

-----------------------------------------------------------------------------
(* Sum, count and window in the middle of an interrupt *)

AdcTypeOK ==
  /\ mwin \in [Slots -> Nat] /\ msum \in Int /\ midx \in Slots /\ mcnt \in 0 .. WinLen
  /\ raw \in Nat /\ isr \in {"idle", "add", "keep", "count"}
  /\ mean \in Int

\* While the window fills, the place of the next sample is behind those
\* counted, and empty until the sample is kept.
FillKnown ==
  mcnt < WinLen =>
    IF isr = "count"
    THEN mwin[mcnt] = raw /\ midx = NextSlot(mcnt) /\ \A i \in Slots : i > mcnt => mwin[i] = 0
    ELSE midx = mcnt /\ \A i \in Slots : i >= mcnt => mwin[i] = 0

\* What the sum lacks or has too much in the middle of an interrupt.
SumKnown ==
  /\ isr \in {"idle", "count"} => msum = WinSum(mwin)
  /\ isr = "add" => msum = WinSum(mwin) - mwin[midx]
  /\ isr = "keep" => msum = WinSum(mwin) - mwin[midx] + raw
  /\ isr = "count" => mcnt < WinLen

MeanKnown == mean # Unread => mean = MeanOf(msum, mcnt)

AdcInv == AdcTypeOK /\ FillKnown /\ SumKnown /\ MeanKnown

\* One step of either interrupt keeps it.
LEMMA AdcNextInv == AdcInv /\ [AdcNext]_adcVars => AdcInv'
<1> SUFFICES ASSUME AdcInv, [AdcNext]_adcVars PROVE AdcInv'
  OBVIOUS
<1> USE DEF AdcInv, AdcTypeOK
<1>c. WinLen \in Nat /\ WinLen >= 1 /\ Slots = 0 .. WinLen - 1 /\ Unread = -1 /\ RawValue \subseteq Nat
  BY AdcConstants DEF Slots, Unread
<1>w. mwin \in [Slots -> Int] /\ mwin[midx] \in Nat /\ WinSum(mwin) \in Int
  BY WinUpdate
<1>1. ASSUME NEW s \in RawValue, Convert(s) PROVE AdcInv'
  <2>1. AdcTypeOK'
    BY <1>1, <1>c, <1>w DEF Convert, Changes
  <2>2. FillKnown'
    BY <1>1, <1>c DEF Convert, FillKnown
  <2>3. mcnt < WinLen => mwin[midx] = 0
    BY <1>1, <1>c DEF Convert, FillKnown
  <2>4. SumKnown'
    BY <1>1, <1>c, <1>w, <2>3 DEF Convert, SumKnown, Changes, Filling
  <2>5. MeanKnown'
    BY <1>1 DEF Convert, MeanKnown
  <2> QED BY <2>1, <2>2, <2>4, <2>5
<1>2. ASSUME AddSample PROVE AdcInv'
  <2>1. AdcTypeOK'
    BY <1>2, <1>c, <1>w DEF AddSample, Changes
  <2>2. FillKnown'
    BY <1>2, <1>c DEF AddSample, FillKnown
  <2>4. SumKnown'
    BY <1>2, <1>c, <1>w DEF AddSample, SumKnown, Changes, Filling
  <2>5. MeanKnown'
    BY <1>2 DEF AddSample, MeanKnown
  <2> QED BY <2>1, <2>2, <2>4, <2>5
<1>3. ASSUME KeepSample PROVE AdcInv'
  <2>1. AdcTypeOK'
    BY <1>3, <1>c DEF KeepSample, NextSlot
  <2>2. FillKnown'
    BY <1>3, <1>c DEF KeepSample, FillKnown, Filling
  <2>3. WinSum(mwin') = WinSum(mwin) + (raw - mwin[midx])
    <3>1. midx \in Slots /\ raw \in Int
      OBVIOUS
    <3>2. WinSum([mwin EXCEPT ![midx] = raw]) = WinSum(mwin) + (raw - mwin[midx])
      BY <1>w, <3>1, WinUpdate, Zenon
    <3> QED BY <1>3, <3>2 DEF KeepSample
  <2>4. SumKnown'
    BY <1>3, <1>c, <1>w, <2>3 DEF KeepSample, SumKnown, Filling
  <2>5. MeanKnown'
    BY <1>3 DEF KeepSample, MeanKnown
  <2> QED BY <2>1, <2>2, <2>4, <2>5
<1>4. ASSUME CountSample PROVE AdcInv'
  <2>1. AdcTypeOK'
    BY <1>4, <1>c DEF CountSample, SumKnown
  <2>2. FillKnown'
    <3>1. mcnt < WinLen /\ mcnt' = mcnt + 1 /\ midx = NextSlot(mcnt)
      BY <1>4, <1>c DEF CountSample, SumKnown, FillKnown
    <3>2. mcnt + 1 < WinLen => NextSlot(mcnt) = mcnt + 1
      <4>1. ASSUME NEW x \in Nat, x < WinLen PROVE x % WinLen = x
        BY <1>c, <4>1
      <4> QED BY <1>c, <4>1 DEF NextSlot
    <3> QED BY <1>4, <1>c, <3>1, <3>2 DEF CountSample, FillKnown
  <2>4. SumKnown'
    BY <1>4, <1>c DEF CountSample, SumKnown
  <2>5. MeanKnown'
    BY <1>4 DEF CountSample, MeanKnown
  <2> QED BY <2>1, <2>2, <2>4, <2>5
<1>5. ASSUME AdcDrv_GetMean PROVE AdcInv'
  <2>1. MeanOf(msum, mcnt) \in Int
    BY <1>c DEF MeanOf
  <2>2. FillKnown' /\ SumKnown' /\ MeanKnown'
    BY <1>5 DEF AdcDrv_GetMean, FillKnown, SumKnown, MeanKnown
  <2> QED BY <1>5, <2>1, <2>2 DEF AdcDrv_GetMean
<1>6. ASSUME UNCHANGED adcVars PROVE AdcInv'
  BY <1>6 DEF adcVars, FillKnown, SumKnown, MeanKnown
<1> QED BY <1>1, <1>2, <1>3, <1>4, <1>5, <1>6 DEF AdcNext

\* The inductive invariant of the mean.
THEOREM AdcInvariant == AdcSpec => []AdcInv
<1>1. AdcInit => AdcInv
  <2> SUFFICES ASSUME AdcInit PROVE AdcInv
    OBVIOUS
  <2>1. WinLen \in Nat /\ WinLen >= 1 /\ Slots = 0 .. WinLen - 1
    BY AdcConstants DEF Slots
  <2>2. AdcTypeOK /\ FillKnown /\ MeanKnown
    BY <2>1 DEF AdcInit, AdcTypeOK, FillKnown, MeanKnown, Unread
  <2>3. WinSum(mwin) = 0
    <3>1. mwin \in [Slots -> Int] /\ \A i \in Slots : IF i < 0 THEN 0 <= mwin[i] /\ mwin[i] <= 0 ELSE mwin[i] = 0
      BY <2>1 DEF AdcInit
    <3>2. 0 * 0 <= WinSum(mwin) /\ WinSum(mwin) <= 0 * 0
      BY <2>1, <3>1, WinBounds
    <3>3. WinSum(mwin) \in Int
      BY <2>2, <3>1, WinUpdate DEF AdcTypeOK
    <3> QED BY <3>2, <3>3
  <2>4. SumKnown
    BY <2>3 DEF AdcInit, SumKnown
  <2> QED BY <2>2, <2>4 DEF AdcInv
<1>2. AdcInv /\ [AdcNext]_adcVars => AdcInv'
  BY AdcNextInv
<1> QED BY <1>1, <1>2, PTL DEF AdcSpec

\* The greatest of a set of naturals that has one.
LEMMA MaxOf ==
  ASSUME NEW S \in SUBSET Nat, NEW b \in Nat, S # {}, \A x \in S : x <= b
  PROVE  Max(S) \in S /\ \A x \in S : x <= Max(S)
<1> DEFINE U == {b - x : x \in S}
<1>1. U \in SUBSET Nat /\ U # {}
  <2>1. \A x \in S : b - x \in Nat
    OBVIOUS
  <2> QED BY <2>1
<1>2. PICK u \in U : \A v \in U : u <= v
  BY <1>1, LeastNat
<1>3. PICK x \in S : u = b - x
  BY <1>2
<1>4. ASSUME NEW y \in S PROVE x >= y
  <2>1. b - y \in U
    OBVIOUS
  <2>2. u <= b - y
    BY <1>2, <2>1
  <2> QED BY <1>3, <2>2
<1>5. \E z \in S : \A y \in S : z >= y
  BY <1>4
<1>6. Max(S) \in S /\ \A y \in S : Max(S) >= y
  BY <1>5 DEF Max
<1> QED BY <1>6

\* The least of a set of naturals.
LEMMA MinOf ==
  ASSUME NEW S \in SUBSET Nat, S # {}
  PROVE  Min(S) \in S /\ \A x \in S : Min(S) <= x
BY LeastNat DEF Min

\* No sample exceeds the sum.
LEMMA SampleBelowSum ==
  ASSUME NEW f \in [Slots -> Nat], NEW i \in Slots
  PROVE  WinSum(f) \in Nat /\ f[i] <= WinSum(f)
<1> DEFINE g == [f EXCEPT ![i] = 0]
<1>1. f \in [Slots -> Int] /\ g \in [Slots -> Nat] /\ g \in [Slots -> Int] /\ 0 \in Int
  OBVIOUS
<1>2. WinSum(g) = WinSum(f) + (0 - f[i]) /\ WinSum(f) \in Int
  BY <1>1, WinUpdate, Zenon
<1>3. WinSum(g) >= 0
  <2> DEFINE z == [j \in Slots |-> IF j < 0 THEN 0 ELSE 0]
  <2>1. IsFiniteSet(Slots) /\ Slots \in SUBSET Slots /\ 0 \in 0 .. WinLen /\ 0 \in Int
    BY FS_Interval, AdcConstants DEF Slots
  <2>2. WinSum(z) = 0 * 0
    BY <2>1, WinFlat, Zenon
  <2>3. z \in [Slots -> Int] /\ \A j \in Slots : z[j] <= g[j]
    BY <1>1
  <2>4. DOMAIN z = Slots /\ DOMAIN g = Slots
    OBVIOUS
  <2> HIDE DEF z, g
  <2>5. SumOf(z)[Slots] <= SumOf(g)[Slots]
    BY <1>1, <2>1, <2>3, SumMonotone
  <2> QED BY <2>2, <2>4, <2>5 DEF WinSum
<1> HIDE DEF g
<1> QED BY <1>1, <1>2, <1>3

\* Division keeps order, and undoes a product.
LEMMA DivOrder ==
  ASSUME NEW n \in Nat \ {0}, NEW a \in Int, NEW b \in Int, a <= b
  PROVE  a \div n <= b \div n
<1> DEFINE p == a \div n
           q == b \div n
<1>1. p \in Int /\ q \in Int /\ n * p <= a /\ b < n * q + n
  OBVIOUS
<1> HIDE DEF p, q
<1>2. CASE p >= q + 1
  <2>1. n * p >= n * (q + 1)
    BY <1>1, <1>2
  <2>2. n * (q + 1) = n * q + n
    BY <1>1
  <2> QED BY <1>1, <2>1, <2>2
<1>3. p <= q
  BY <1>1, <1>2
<1> QED BY <1>3 DEF p, q

\* Dividing a multiple gives the multiplier.
LEMMA DivExact ==
  ASSUME NEW n \in Nat \ {0}, NEW x \in Int
  PROVE  (n * x) \div n = x
<1> DEFINE p == (n * x) \div n
<1>1. p \in Int /\ n * p <= n * x /\ n * x < n * p + n
  <2> DEFINE y == n * x
  <2>1. y \in Int
    OBVIOUS
  <2> HIDE DEF y
  <2>2. y \div n \in Int /\ n * (y \div n) <= y /\ y < n * (y \div n) + n
    BY <2>1
  <2> QED BY <2>2 DEF y
<1> HIDE DEF p
<1>2. CASE p >= x + 1
  <2>1. n * p >= n * (x + 1) /\ n * (x + 1) = n * x + n
    BY <1>1, <1>2
  <2> QED BY <1>1, <2>1
<1>3. CASE x >= p + 1
  <2>1. n * x >= n * (p + 1) /\ n * (p + 1) = n * p + n
    BY <1>1, <1>3
  <2> QED BY <1>1, <2>1
<1>4. p = x
  BY <1>1, <1>2, <1>3
<1> QED BY <1>4 DEF p

\* Least and greatest of the samples.
LEMMA UsedRange ==
  ASSUME AdcInv, mcnt >= 1
  PROVE  /\ Min(Used) \in Nat /\ Max(Used \cup {raw}) \in Nat /\ raw <= Max(Used \cup {raw})
         /\ \A i \in Slots : i < mcnt => Min(Used) <= mwin[i] /\ mwin[i] <= Max(Used \cup {raw})
<1>0. /\ WinLen \in Nat /\ WinLen >= 1 /\ Slots = 0 .. WinLen - 1 /\ 0 \in Slots
      /\ mwin \in [Slots -> Nat] /\ mcnt \in 0 .. WinLen /\ raw \in Nat
  BY AdcConstants DEF Slots, AdcInv, AdcTypeOK
<1>1. Used \in SUBSET Nat /\ Used # {} /\ \A i \in Slots : i < mcnt => mwin[i] \in Used
  BY <1>0 DEF Used
<1>2. \A i \in Slots : WinSum(mwin) \in Nat /\ mwin[i] <= WinSum(mwin)
  BY <1>0, SampleBelowSum
<1>3. \A x \in Used : x <= WinSum(mwin)
  BY <1>2 DEF Used
<1> DEFINE Seen == Used \cup {raw}
           b == WinSum(mwin) + raw
<1>4. Seen \in SUBSET Nat /\ Seen # {} /\ b \in Nat /\ \A x \in Seen : x <= b
  BY <1>0, <1>1, <1>2, <1>3
<1>5. Max(Seen) \in Seen /\ \A x \in Seen : x <= Max(Seen)
  <2> HIDE DEF Seen, b
  <2> QED BY <1>4, MaxOf
<1>6. Min(Used) \in Used /\ \A x \in Used : Min(Used) <= x
  BY <1>1, MinOf
<1> QED BY <1>0, <1>1, <1>4, <1>5, <1>6

\* A full window's sum lacks one sample at most.
LEMMA FullSum ==
  ASSUME AdcInv, mcnt = WinLen
  PROVE  (WinLen - 1) * Min(Used) <= msum /\ msum <= WinLen * Max(Used \cup {raw})
<1> DEFINE lo == Min(Used)
           hi == Max(Used \cup {raw})
<1>0. /\ WinLen \in Nat /\ WinLen >= 1 /\ Slots = 0 .. WinLen - 1 /\ WinLen \in 0 .. WinLen
      /\ mwin \in [Slots -> Nat] /\ mwin \in [Slots -> Int] /\ midx \in Slots
      /\ msum \in Int /\ raw \in Nat /\ isr # "count"
  BY AdcConstants DEF Slots, AdcInv, AdcTypeOK, SumKnown
<1>1. lo \in Nat /\ hi \in Nat /\ raw <= hi /\ \A i \in Slots : lo <= mwin[i] /\ mwin[i] <= hi
  <2>1. mcnt >= 1 /\ \A i \in Slots : i < mcnt
    BY <1>0
  <2>2. lo \in Nat /\ hi \in Nat /\ raw <= hi /\ \A i \in Slots : i < mcnt => lo <= mwin[i] /\ mwin[i] <= hi
    BY <2>1, UsedRange, Zenon
  <2> QED BY <2>1, <2>2
<1> HIDE DEF lo, hi
<1> DEFINE x == mwin[midx]
           W == WinSum(mwin)
<1>2. x \in Nat /\ lo <= x /\ x <= hi /\ W \in Int
  BY <1>0, <1>1, WinUpdate
<1>3. WinLen * lo <= W /\ W <= WinLen * hi
  <2>1. \A i \in Slots : IF i < WinLen THEN lo <= mwin[i] /\ mwin[i] <= hi ELSE mwin[i] = 0
    BY <1>0, <1>1
  <2>2. lo \in Int /\ hi \in Int
    BY <1>1
  <2> QED BY <1>0, <2>1, <2>2, WinBounds, Zenon
<1>4. ASSUME NEW v \in Nat, lo <= v, v <= hi
      PROVE  WinLen * lo <= W + (v - x) /\ W + (v - x) <= WinLen * hi
  <2> DEFINE g == [mwin EXCEPT ![midx] = v]
  <2>1. g \in [Slots -> Int] /\ \A i \in Slots : IF i < WinLen THEN lo <= g[i] /\ g[i] <= hi ELSE g[i] = 0
    BY <1>0, <1>1, <1>4
  <2>2. WinSum(g) = W + (v - x)
    <3>1. v \in Int
      OBVIOUS
    <3> QED BY <1>0, <3>1, WinUpdate, Zenon
  <2> HIDE DEF g, W, x
  <2>3. WinLen * lo <= WinSum(g) /\ WinSum(g) <= WinLen * hi
    <3>1. lo \in Int /\ hi \in Int
      BY <1>1
    <3> QED BY <1>0, <3>1, <2>1, WinBounds, Zenon
  <2> QED BY <2>2, <2>3
<1>5. /\ isr = "idle" => msum = W
      /\ isr = "add" => msum = W - x
      /\ isr = "keep" => msum = W - x + raw
      /\ isr \in {"idle", "add", "keep"}
  BY <1>0 DEF AdcInv, SumKnown, AdcTypeOK
<1>6. (WinLen - 1) * lo = WinLen * lo - lo /\ WinLen * lo \in Int /\ WinLen * hi \in Int
  BY <1>0, <1>1
<1>7. WinLen * lo <= W + (lo - x) /\ W + (hi - x) <= WinLen * hi
  BY <1>1, <1>2, <1>4
<1> HIDE DEF W, x
<1>8. WinLen * lo - lo <= msum /\ msum <= WinLen * hi
  <2> DEFINE L == WinLen * lo
             H == WinLen * hi
  <2>1. L \in Int /\ H \in Int /\ L <= W + (lo - x) /\ W + (hi - x) <= H /\ W <= H /\ L <= W
    BY <1>3, <1>6, <1>7
  <2> HIDE DEF L, H
  <2>2. L - lo <= msum /\ msum <= H
    BY <1>0, <1>1, <1>2, <1>5, <2>1
  <2> QED BY <2>2 DEF L, H
<1> QED BY <1>6, <1>8 DEF lo, hi

\* The sum of a window that fills is at most one sample ahead of its count.
LEMMA FillingSum ==
  ASSUME AdcInv, mcnt \in 1 .. WinLen - 1
  PROVE  mcnt * Min(Used) <= msum /\ msum <= (mcnt + 1) * Max(Used \cup {raw})
<1> DEFINE lo == Min(Used)
           hi == Max(Used \cup {raw})
           n == mcnt
<1>0. /\ WinLen \in Nat /\ WinLen >= 1 /\ Slots = 0 .. WinLen - 1 /\ n \in 1 .. WinLen /\ n \in 0 .. WinLen
      /\ n \in Slots /\ n < WinLen /\ 0 \in Int
      /\ mwin \in [Slots -> Nat] /\ mwin \in [Slots -> Int] /\ midx \in Slots
      /\ msum \in Int /\ raw \in Nat
  BY AdcConstants DEF Slots, AdcInv, AdcTypeOK
<1>1. lo \in Nat /\ hi \in Nat /\ raw <= hi /\ \A i \in Slots : i < n => lo <= mwin[i] /\ mwin[i] <= hi
  <2>1. mcnt >= 1
    BY <1>0
  <2> QED BY <2>1, UsedRange, Zenon
<1> HIDE DEF lo, hi
<1> DEFINE g == [mwin EXCEPT ![n] = 0]
<1>2. WinSum(g) = WinSum(mwin) + (0 - mwin[n]) /\ WinSum(mwin) \in Int
  BY <1>0, WinUpdate, Zenon
<1>3. g \in [Slots -> Int] /\ \A i \in Slots : IF i < n THEN lo <= g[i] /\ g[i] <= hi ELSE g[i] = 0
  BY <1>0, <1>1 DEF AdcInv, FillKnown
<1> HIDE DEF g
<1>4. n * lo <= WinSum(g) /\ WinSum(g) <= n * hi
  <2>1. lo \in Int /\ hi \in Int
    BY <1>1
  <2> QED BY <1>0, <1>3, <2>1, WinBounds, Zenon
<1>5. WinSum(g) \in Int /\ msum \in {WinSum(g), WinSum(g) + raw}
  <2>1. mwin[n] \in Nat
    BY <1>0
  <2>2. CASE isr = "count"
    BY <1>0, <1>2, <2>1, <2>2 DEF AdcInv, FillKnown, SumKnown
  <2>3. CASE isr # "count"
    <3>1. midx = n /\ mwin[n] = 0
      BY <1>0, <2>3 DEF AdcInv, FillKnown
    <3>2. /\ isr = "idle" => msum = WinSum(mwin)
          /\ isr = "add" => msum = WinSum(mwin) - mwin[midx]
          /\ isr = "keep" => msum = WinSum(mwin) - mwin[midx] + raw
          /\ isr \in {"idle", "add", "keep"}
      BY <2>3 DEF AdcInv, SumKnown, AdcTypeOK
    <3> QED BY <1>0, <1>2, <3>1, <3>2
  <2> QED BY <2>2, <2>3
<1>6. (n + 1) * hi = n * hi + hi /\ n * hi \in Int /\ n * lo \in Int
  BY <1>0, <1>1
<1>7. n * lo <= msum /\ msum <= n * hi + hi
  <2> DEFINE L == n * lo
             H == n * hi
  <2>1. L \in Int /\ H \in Int /\ L <= WinSum(g) /\ WinSum(g) <= H
    BY <1>4, <1>6
  <2> HIDE DEF L, H
  <2>2. L <= msum /\ msum <= H + hi
    BY <1>0, <1>1, <1>5, <2>1
  <2> QED BY <2>2 DEF L, H
<1> QED BY <1>6, <1>7 DEF lo, hi

\* What the detectors read is a mean of what was sampled, for every window,
\* every range of samples and wherever their interrupt cuts in.
THEOREM AdcMeanIsSound == AdcSpec => []MeanIsSound
<1>1. AdcInv => MeanIsSound
  <2> SUFFICES ASSUME AdcInv PROVE MeanIsSound
    OBVIOUS
  <2>0. /\ WinLen \in Nat /\ WinLen >= 1 /\ mcnt \in 0 .. WinLen /\ msum \in Int
        /\ mean # Unread /\ mcnt >= 1 => mean = msum \div mcnt
    BY AdcConstants DEF AdcInv, AdcTypeOK, MeanKnown, MeanOf
  <2>1. SumIsWindow
    BY FoldIsSum DEF SumIsWindow, AdcInv, SumKnown
  <2>2. FullMeanInRange
    <3> SUFFICES ASSUME mean # Unread, mcnt = WinLen
                 PROVE  /\ mean <= Max(Used \cup {raw})
                        /\ mean >= ((WinLen - 1) * Min(Used)) \div WinLen
      BY DEF FullMeanInRange
    <3> DEFINE lo == Min(Used)
               hi == Max(Used \cup {raw})
    <3>1. lo \in Nat /\ hi \in Nat /\ WinLen \in Nat \ {0} /\ mean = msum \div WinLen
      BY <2>0, UsedRange
    <3>2. (WinLen - 1) * lo <= msum /\ msum <= WinLen * hi
      BY FullSum
    <3> HIDE DEF lo, hi
    <3>3. (WinLen - 1) * lo \in Int /\ WinLen * hi \in Int
      BY <3>1
    <3>4. ((WinLen - 1) * lo) \div WinLen <= msum \div WinLen
      BY <2>0, <3>1, <3>2, <3>3, DivOrder
    <3>5. msum \div WinLen <= (WinLen * hi) \div WinLen
      BY <2>0, <3>1, <3>2, <3>3, DivOrder
    <3>6. (WinLen * hi) \div WinLen = hi
      BY <3>1, DivExact
    <3>7. mean <= hi
      BY <3>1, <3>5, <3>6
    <3>8. ((WinLen - 1) * lo) \div WinLen \in Int /\ mean \in Int
      BY <2>0, <3>1, <3>3
    <3> DEFINE d == ((WinLen - 1) * lo) \div WinLen
    <3> HIDE DEF d
    <3>9. d <= mean /\ d \in Int
      BY <3>1, <3>4, <3>8 DEF d
    <3>10. mean >= d
      BY <3>8, <3>9
    <3> QED BY <3>7, <3>10 DEF lo, hi, d
  <2>3. FillingMeanBounded
    <3> SUFFICES ASSUME mean # Unread, mcnt \in 1 .. WinLen - 1
                 PROVE  /\ mean >= Min(Used)
                        /\ mean <= ((mcnt + 1) * Max(Used \cup {raw})) \div mcnt
      BY DEF FillingMeanBounded
    <3> DEFINE lo == Min(Used)
               hi == Max(Used \cup {raw})
    <3>1. lo \in Nat /\ hi \in Nat /\ mcnt \in Nat \ {0} /\ mean = msum \div mcnt
      BY <2>0, UsedRange
    <3>2. mcnt * lo <= msum /\ msum <= (mcnt + 1) * hi
      BY FillingSum
    <3> HIDE DEF lo, hi
    <3>3. mcnt * lo \in Int /\ (mcnt + 1) * hi \in Int
      BY <3>1
    <3>4. (mcnt * lo) \div mcnt <= msum \div mcnt
      BY <2>0, <3>1, <3>2, <3>3, DivOrder
    <3>5. msum \div mcnt <= ((mcnt + 1) * hi) \div mcnt
      BY <2>0, <3>1, <3>2, <3>3, DivOrder
    <3>6. (mcnt * lo) \div mcnt = lo
      BY <3>1, DivExact
    <3>7. mean \in Int
      BY <2>0, <3>1
    <3>8. mean >= lo
      BY <3>1, <3>4, <3>6, <3>7
    <3> QED BY <3>1, <3>5, <3>8 DEF lo, hi
  <2> QED BY <2>1, <2>2, <2>3 DEF MeanIsSound
<1> QED BY <1>1, AdcInvariant, PTL
=============================================================================
