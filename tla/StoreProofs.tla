----------------------------- MODULE StoreProofs -----------------------------
(***************************************************************************)
(* The flash parameter store, for any number of sectors, slots, erasures   *)
(* and retries, with power failing between any two words.                  *)
(***************************************************************************)
EXTENDS ParamStore, WellFoundedInduction, TLAPS

Cell == 0 .. Words - 1
At == 0 .. Words - RecWords
SeqMax == MaxSeq + MaxRetry
Value == Data \cup {Default}
RamType == [seq : 0 .. SeqMax, erase : 0 .. MaxLife, data : Value]

\* A CRC is always the CRC of a record, whatever else a word has become.
CrcOK(c) == c[1] = "crc" => c[2] \in 0 .. SeqMax /\ c[3] \in 0 .. MaxLife /\ c[4] \in Value

FlashOK ==
  /\ DOMAIN flash = Sector
  /\ \A s \in Sector : DOMAIN flash[s] = Cell /\ \A a \in Cell : CrcOK(flash[s][a])

\* Every attempt may count once more.
JobOK ==
  \/ job \in {Idle, Off}
  \/ \E r \in 0 .. MaxRetry - 1 : job = Attempt(r) /\ ram.seq <= MaxSeq + r
  \/ \E r \in 0 .. MaxRetry - 1, at \in At, k \in 0 .. RecWords - 1 :
       job = Write(r, at, k) /\ ram.seq <= MaxSeq + r + 1
  \/ \E at \in At : job = Done(at)

StoreTypes ==
  /\ FlashOK /\ JobOK
  /\ ram \in RamType
  /\ rt \in [sec : Sector, addr : 0 .. Words]
  /\ saved \in Value /\ faults \in Nat

\* The words written so far, or all of them.
Written ==
  /\ job.do = "write" => \A i \in 0 .. job.k - 1 : flash[rt.sec][job.at + i] = WordsOf(ram)[i + 1]
  /\ job.do = "done" => \A i \in 0 .. RecWords - 1 : flash[rt.sec][job.at + i] = WordsOf(ram)[i + 1]

\* No record of the defaults has a sequence number above 1.
Low(c) == c[1] = "crc" /\ c[4] = Default => c[2] <= 1
DefaultIsLow == \A s \in Sector, a \in Cell : Low(flash[s][a])

\* The defaults are written once, to a fresh sector.
DefaultIsFresh ==
  ram.data = Default =>
    /\ ram.seq <= 1
    /\ job.do = "attempt" =>
         ram.seq = 0 /\ rt = [sec |-> SecStart, addr |-> 0] /\ \A i \in Cell : flash[SecStart][i] = Blank
    /\ job.do = "write" =>
         rt.sec = SecStart /\ job.at = 0 /\ \A i \in job.k .. RecWords - 1 : flash[SecStart][i] = Blank

-----------------------------------------------------------------------------
(* Flash that does not fail *)

Base == {RecWords * i : i \in 0 .. Slots - 1}

\* A sector an erasure was torn in.
Junked(w) == \A a \in Cell : w[a] = Junk

\* The words of a slot: what a torn record or an overwritten one leaves.  A
\* sequence number only loses bits after its CRC was written.
SlotOK(w, b) ==
  /\ w[b] \in {Blank, Head0} /\ w[b + 5] \in {Blank, Tail0}
  /\ w[b + 1] = Blank \/ \E n \in 0 .. SeqMax : w[b + 1] = <<"seq", n>>
  /\ w[b + 3][1] \in {"blank", "junk", "data"} /\ w[b + 4][1] \in {"blank", "junk", "crc"}
  /\ w[b + 4][1] = "crc" =>
       /\ w[b + 1] # Blank /\ w[b + 1][2] <= w[b + 4][2]
       /\ w[b + 2] = <<"erase", w[b + 4][3]>>

\* A sector is used slot after slot.
UsedInOrder(w) == \A b \in Base : w[b] = Blank => \A a \in Cell : a >= b => w[a] = Blank

OneLife(w, e) == \A b \in Base : w[b + 2] \in {Blank, <<"erase", e>>}

Tidy(w) ==
  /\ \A b \in Base : SlotOK(w, b)
  /\ UsedInOrder(w) /\ \E e \in 0 .. MaxLife : OneLife(w, e)

Sound == \A s \in Sector : Junked(flash[s]) \/ Tidy(flash[s])

\* The records a scan could find.
Records ==
  {p \in [sec : Sector, addr : Base] :
     flash[p.sec][p.addr] = Head0 /\ ValidAt(flash[p.sec], p.addr)}

Here == [sec |-> rt.sec, addr |-> job.at]

\* The sector in use.
InUse ==
  /\ Tidy(flash[rt.sec]) /\ OneLife(flash[rt.sec], ram.erase)
  /\ rt.addr \in Base \cup {Words}
  /\ job.do \in {"idle", "attempt"} => \A b \in Base : b < rt.addr => flash[rt.sec][b] = Head0
  /\ job.do \in {"write", "done"} => job.at \in Base
  /\ job.do = "write" => \A b \in Base : b < job.at => flash[rt.sec][b] = Head0

\* The record being written has the largest number.
SeqKnown ==
  /\ \A p \in Records : RecAt(p).seq <= ram.seq
  /\ job.do = "write" =>
       \A p \in Records : RecAt(p).seq = ram.seq => p = Here /\ job.k >= 4
  /\ job.do = "done" => \A p \in Records : RecAt(p).seq = ram.seq => p = Here

\* The record saved last is behind the place of the next one, and ahead of
\* all others but the one being written.
Kept(p) ==
  /\ p.sec = rt.sec /\ RecAt(p).data = saved
  /\ p.addr < rt.addr /\ (job.do = "write" => p.addr < job.at)
  /\ \A q \in Records :
       q = p \/ RecAt(q).seq < RecAt(p).seq \/ (job.do = "write" /\ q = Here /\ RecAt(q).seq = ram.seq)

SavedKnown ==
  ~ fresh =>
    \/ job.do = "done"
    \/ /\ job.do = "write" /\ wiped /\ job.at = 0
       /\ \A a \in Cell : a >= job.k => flash[rt.sec][a] = Blank
    \/ \E p \in Records : Kept(p)

SoundFlash ==
  /\ Sound
  /\ job # Off => InUse /\ SeqKnown /\ SavedKnown

StoreInv == StoreTypes /\ Written /\ (faults = 0 => DefaultIsLow /\ DefaultIsFresh)
SoundInv == StoreInv /\ (faults = 0 => SoundFlash)
-----------------------------------------------------------------------------
(* Arithmetic and induction *)

\* What the constants are.
LEMMA StoreFacts ==
  /\ RecWords = 6 /\ Words = 6 * Slots /\ Slots \in Nat /\ Slots >= 1 /\ Words \in Nat /\ Words >= 6
  /\ SeqMax \in Nat /\ MaxSeq \in Nat /\ MaxRetry \in Nat /\ MaxRetry >= 1 /\ SeqMax = MaxSeq + MaxRetry
  /\ MaxLife \in Nat /\ MaxLife >= 1
  /\ SecStart \in Sector /\ Sector \subseteq Nat
BY StoreConstants DEF RecWords, Words, SeqMax, Sector

\* A set of naturals has a least element.
LEMMA LeastNat ==
  ASSUME NEW T \in SUBSET Nat, T # {}
  PROVE  \E x \in T : \A y \in T : x <= y
<1>1. PICK x \in T : \A y \in T : ~ (<<y, x>> \in OpToRel(<, Nat))
  BY WFMin, NatLessThanWellFounded
<1>2. ASSUME NEW y \in T, y < x PROVE FALSE
  <2>1. <<y, x>> \in Nat \X Nat /\ <<y, x>>[1] < <<y, x>>[2]
    BY <1>2
  <2>2. <<y, x>> \in {ss \in Nat \X Nat : ss[1] < ss[2]}
    BY <2>1
  <2> QED BY <1>1, <2>2 DEF OpToRel
<1>3. \A y \in T : x \in Nat /\ y \in Nat
  OBVIOUS
<1> QED BY <1>2, <1>3

\* A set with 0 and with every successor of its naturals has them all.
LEMMA Induct ==
  ASSUME NEW S, 0 \in S, \A n \in Nat : n \in S => n + 1 \in S
  PROVE  \A n \in Nat : n \in S
<1> DEFINE T == {n \in Nat : n \notin S}
<1> SUFFICES ASSUME T # {} PROVE FALSE
  OBVIOUS
<1>1. PICK x \in T : \A y \in T : x <= y
  BY LeastNat
<1>2. x # 0 /\ x \in Nat
  OBVIOUS
<1>3. x - 1 \in Nat /\ x - 1 \notin T
  BY <1>1, <1>2
<1>4. x - 1 + 1 \in S
  BY <1>3
<1> QED BY <1>2, <1>4

\* A bounded set of naturals has a largest element.
LEMMA LargestNat ==
  ASSUME NEW m \in Nat, NEW T \in SUBSET (0 .. m), T # {}
  PROVE  \E x \in T : \A y \in T : y <= x
<1> DEFINE U == {m - y : y \in T}
<1>1. U \in SUBSET Nat /\ U # {}
  <2>1. PICK y \in T : TRUE
    OBVIOUS
  <2>2. m - y \in U
    OBVIOUS
  <2> QED BY <2>2
<1>2. PICK u \in U : \A z \in U : u <= z
  BY <1>1, LeastNat
<1>3. PICK x \in T : u = m - x
  OBVIOUS
<1>4. ASSUME NEW y \in T PROVE y <= x
  <2>1. m - x <= m - y
    BY <1>2, <1>3
  <2> QED BY <2>1
<1> QED BY <1>4

\* Programming a sequence number over another only clears bits.
LEMMA AndClears ==
  ASSUME NEW a \in Nat, NEW b \in Nat
  PROVE  BitAnd(a, b) \in 0 .. a
<1> DEFINE Within(c, n) == c <= n /\ \A i \in 0 .. n : (c \div 2^i) % 2 <= (n \div 2^i) % 2
           both == {0} \cup {c \in 1 .. a : Within(c, a) /\ Within(c, b)}
<1>1. BitAnd(a, b) = CHOOSE c \in both : \A d \in both : d <= c
  BY DEF BitAnd
<1>2. 0 \in both
  OBVIOUS
<1> HIDE DEF both
<1>3. both \in SUBSET (0 .. a)
  BY DEF both
<1>4. \E c \in both : \A d \in both : d <= c
  BY <1>2, <1>3, LargestNat
<1> QED BY <1>1, <1>3, <1>4

-----------------------------------------------------------------------------
(* The scan *)

ScanOf(w) == CHOOSE f : f = [a \in 0 .. Words |-> ScanFrom(w, f, a)]

\* FoundIn is the scan from address 0.
LEMMA FoundInScan ==
  ASSUME NEW w
  PROVE  FoundIn(w) = ScanOf(w)[0]
BY DEF FoundIn, ScanOf

\* What the scan finds from an address on depends on what it finds behind it.
LEMMA ScanLooksAhead ==
  ASSUME NEW w, NEW f, NEW g, NEW a \in 0 .. Words, \A b \in 0 .. Words : b > a => f[b] = g[b]
  PROVE  ScanFrom(w, f, a) = ScanFrom(w, g, a)
<1>1. CASE a + RecWords > Words
  BY <1>1 DEF ScanFrom
<1>2. CASE ~ (a + RecWords > Words)
  <2>1. a + RecWords \in 0 .. Words /\ a + 1 \in 0 .. Words /\ a + RecWords > a /\ a + 1 > a
    BY <1>2, StoreFacts
  <2>2. f[a + RecWords] = g[a + RecWords] /\ f[a + 1] = g[a + 1]
    BY <2>1
  <2> QED BY <2>2 DEF ScanFrom
<1> QED BY <1>1, <1>2

\* The scan's recursion has a solution: from any address on, by induction.
LEMMA ScanExists ==
  ASSUME NEW w
  PROVE  \E f : f = [a \in 0 .. Words |-> ScanFrom(w, f, a)]
<1> DEFINE Good(f, n) == /\ f = [a \in 0 .. Words |-> f[a]]
                         /\ \A a \in 0 .. Words : a >= Words - n => f[a] = ScanFrom(w, f, a)
           S == {n \in Nat : \E f : Good(f, n)}
<1>0. Words \in Nat
  BY StoreFacts
<1>1. 0 \in S
  <2> DEFINE f == [a \in 0 .. Words |-> {}]
  <2>1. \A a \in 0 .. Words : a >= Words - 0 => f[a] = ScanFrom(w, f, a)
    BY <1>0, StoreFacts DEF ScanFrom
  <2>2. Good(f, 0)
    BY <2>1
  <2> QED BY <2>2
<1>2. ASSUME NEW n \in Nat, n \in S PROVE n + 1 \in S
  <2>1. PICK f : Good(f, n)
    BY <1>2
  <2> DEFINE x == Words - (n + 1)
             g == [a \in 0 .. Words |-> IF a = x THEN ScanFrom(w, f, x) ELSE f[a]]
  <2>2. \A b \in 0 .. Words : b # x => f[b] = g[b]
    OBVIOUS
  <2>3. ASSUME NEW a \in 0 .. Words, a >= x PROVE g[a] = ScanFrom(w, g, a)
    <3>1. \A b \in 0 .. Words : b > a => f[b] = g[b]
      BY <1>0, <2>2, <2>3
    <3>2. ScanFrom(w, f, a) = ScanFrom(w, g, a)
      BY <3>1, ScanLooksAhead
    <3>3. CASE a = x
      BY <3>2, <3>3
    <3>4. CASE a # x
      <4>1. a >= Words - n
        BY <1>0, <2>3, <3>4
      <4> QED BY <2>1, <2>2, <3>2, <3>4, <4>1
    <3> QED BY <3>3, <3>4
  <2>4. Good(g, n + 1)
    BY <2>3
  <2>5. \E h : Good(h, n + 1)
    BY <2>4
  <2> HIDE DEF Good
  <2> QED BY <2>5
<1>3. Words \in S
  BY <1>0, <1>1, <1>2, Induct
<1>4. PICK f : Good(f, Words)
  BY <1>3
<1>5. \A a \in 0 .. Words : f[a] = ScanFrom(w, f, a)
  BY <1>0, <1>4
<1>6. f = [a \in 0 .. Words |-> ScanFrom(w, f, a)]
  BY <1>4, <1>5
<1> QED BY <1>6

\* The scan satisfies its equation at every address.
LEMMA ScanEquation ==
  ASSUME NEW w
  PROVE  \A a \in 0 .. Words : ScanOf(w)[a] = ScanFrom(w, ScanOf(w), a)
<1>1. ScanOf(w) = [a \in 0 .. Words |-> ScanFrom(w, ScanOf(w), a)]
  BY ScanExists DEF ScanOf
<1> QED BY <1>1

\* The scan finds only valid records that lie within the sector.
LEMMA ScanSound ==
  ASSUME NEW w, NEW b \in FoundIn(w)
  PROVE  b \in At /\ w[b] = Head0 /\ ValidAt(w, b)
<1> DEFINE f == ScanOf(w)
           Ok(c) == c \in At /\ w[c] = Head0 /\ ValidAt(w, c)
           S == {n \in Nat : \A a \in 0 .. Words : a >= Words - n => \A c \in f[a] : Ok(c)}
<1>0. Words \in Nat /\ RecWords = 6
  BY StoreFacts
<1>e. \A a \in 0 .. Words : f[a] = ScanFrom(w, f, a)
  BY ScanEquation
<1> HIDE DEF f
<1>1. 0 \in S
  <2>0. Words \in 0 .. Words /\ Words + RecWords > Words
    BY <1>0
  <2>1. f[Words] = {}
    BY <1>e, <2>0 DEF ScanFrom
  <2>2. \A a \in 0 .. Words : a >= Words - 0 => a = Words
    BY <1>0
  <2> QED BY <2>1, <2>2
<1>2. ASSUME NEW n \in Nat, n \in S PROVE n + 1 \in S
  <2> DEFINE x == Words - (n + 1)
  <2>1. \A a \in 0 .. Words : a > x => \A c \in f[a] : Ok(c)
    BY <1>0, <1>2
  <2>2. ASSUME x \in 0 .. Words, NEW c \in f[x] PROVE Ok(c)
    <3>1. f[x] = ScanFrom(w, f, x)
      BY <1>e, <2>2
    <3>2. x + RecWords <= Words
      BY <1>0, <2>2, <3>1 DEF ScanFrom
    <3>3. x \in At /\ x + RecWords \in 0 .. Words /\ x + 1 \in 0 .. Words /\ x + RecWords > x /\ x + 1 > x
      BY <1>0, <2>2, <3>2 DEF At
    <3>4. (c = x /\ w[x] = Head0 /\ ValidAt(w, x)) \/ c \in f[x + RecWords] \/ c \in f[x + 1]
      BY <2>2, <3>1 DEF ScanFrom
    <3> QED BY <2>1, <3>3, <3>4
  <2>3. ASSUME NEW a \in 0 .. Words, a >= x, NEW c \in f[a] PROVE Ok(c)
    <3>1. CASE a = x
      BY <2>2, <2>3, <3>1
    <3>2. CASE a # x
      BY <1>0, <2>1, <2>3, <3>2
    <3> QED BY <3>1, <3>2
  <2> QED BY <2>3
<1>3. Words \in S
  BY <1>0, <1>1, <1>2, Induct
<1>4. b \in f[0]
  BY FoundInScan DEF f
<1> QED BY <1>0, <1>3, <1>4

\* The slots of a sector.
LEMMA BaseFacts ==
  /\ 0 \in Base /\ Words \notin Base
  /\ \A b \in Base : b \in At /\ b \in Nat /\ b + RecWords \in Base \cup {Words} /\ b < Words
  /\ \A b \in Base, i \in 0 .. 5 : b + i \in Cell
  /\ \A b, c \in Base : b < c => b + RecWords <= c
<1>0. RecWords = 6 /\ Words = 6 * Slots /\ Slots \in Nat /\ Slots >= 1
  BY StoreFacts
<1>1. \A i \in 0 .. Slots - 1 : 6 * i \in Base
  BY <1>0 DEF Base
<1>2. \A b \in Base : \E i \in 0 .. Slots - 1 : b = 6 * i
  BY <1>0 DEF Base
<1>3. 0 \in Base
  <2>1. 0 \in 0 .. Slots - 1 /\ 6 * 0 = 0
    BY <1>0
  <2> QED BY <1>1, <2>1
<1>4. Words \notin Base
  <2> SUFFICES ASSUME Words \in Base PROVE FALSE
    OBVIOUS
  <2>1. PICK i \in 0 .. Slots - 1 : Words = 6 * i
    BY <1>2
  <2> QED BY <1>0, <2>1
<1>5. ASSUME NEW b \in Base PROVE b \in At /\ b \in Nat /\ b + RecWords \in Base \cup {Words} /\ b < Words
  <2>1. PICK i \in 0 .. Slots - 1 : b = 6 * i
    BY <1>2
  <2>2. b \in At /\ b \in Nat /\ b < Words
    BY <1>0, <2>1 DEF At
  <2>3. i + 1 \in 0 .. Slots - 1 \/ i + 1 = Slots
    BY <1>0
  <2>4. b + RecWords = 6 * (i + 1)
    BY <1>0, <2>1
  <2> QED BY <1>0, <1>1, <2>2, <2>3, <2>4
<1>6. ASSUME NEW b \in Base, NEW i \in 0 .. 5 PROVE b + i \in Cell
  BY <1>0, <1>5 DEF At, Cell
<1>7. ASSUME NEW b \in Base, NEW c \in Base, b < c PROVE b + RecWords <= c
  <2>1. PICK i \in 0 .. Slots - 1 : b = 6 * i
    BY <1>2
  <2>2. PICK j \in 0 .. Slots - 1 : c = 6 * j
    BY <1>2
  <2> QED BY <1>0, <1>7, <2>1, <2>2
<1> QED BY <1>3, <1>4, <1>5, <1>6, <1>7

\* Two words of different slots are different.
LEMMA SlotsApart ==
  ASSUME NEW b \in Base, NEW c \in Base, b # c, NEW i \in 0 .. 5, NEW j \in 0 .. 5
  PROVE  b + i # c + j
<1>1. b \in Nat /\ c \in Nat /\ (b < c => b + 6 <= c) /\ (c < b => c + 6 <= b)
  BY BaseFacts, StoreFacts
<1> QED BY <1>1

\* In a sector used slot after slot the scan finds all the valid records.
LEMMA ScanComplete ==
  ASSUME NEW w, UsedInOrder(w), \A b \in Base : w[b] \in {Blank, Head0}
  PROVE  FoundIn(w) = {b \in Base : w[b] = Head0 /\ ValidAt(w, b)}
<1> DEFINE f == ScanOf(w)
           R(x) == {b \in Base : b >= x /\ w[b] = Head0 /\ ValidAt(w, b)}
           X(n) == 6 * (Slots - n)
           S == {n \in Nat : n <= Slots => f[X(n)] = R(X(n))}
<1>0. RecWords = 6 /\ Words = 6 * Slots /\ Slots \in Nat /\ Slots >= 1 /\ Words \in Nat
  BY StoreFacts
<1>e. \A a \in 0 .. Words : f[a] = ScanFrom(w, f, a)
  BY ScanEquation
<1> HIDE DEF f
<1>1. 0 \in S
  <2>1. X(0) = Words /\ Words \in 0 .. Words /\ Words + RecWords > Words
    BY <1>0
  <2>2. f[X(0)] = {}
    BY <1>e, <2>1 DEF ScanFrom
  <2>3. \A b \in Base : ~ (b >= X(0))
    BY <1>0, <2>1, BaseFacts
  <2> QED BY <2>2, <2>3
<1>2. ASSUME NEW n \in Nat, n \in S PROVE n + 1 \in S
  <2> SUFFICES ASSUME n + 1 <= Slots PROVE f[X(n + 1)] = R(X(n + 1))
    OBVIOUS
  <2> DEFINE x == X(n + 1)
  <2>1. X(n) = x + 6 /\ n <= Slots /\ x \in 0 .. Words /\ x + RecWords <= Words
    BY <1>0
  <2>2. x \in Base
    <3>1. Slots - (n + 1) \in 0 .. Slots - 1
      BY <1>0
    <3> QED BY <1>0, <3>1 DEF Base
  <2>3. f[x + RecWords] = R(x + RecWords)
    <3>1. f[X(n)] = R(X(n))
      BY <1>2, <2>1
    <3>2. X(n) = x + RecWords
      BY <1>0, <2>1
    <3> HIDE DEF X, x, R
    <3> QED BY <3>1, <3>2
  <2>4. ASSUME NEW b \in Base PROVE b >= x <=> b = x \/ b >= x + RecWords
    <3> HIDE DEF x, X
    <3>1. b \in Nat /\ x \in Nat /\ (x < b => x + RecWords <= b)
      BY <2>2, BaseFacts
    <3> QED BY <1>0, <3>1
  <2>5. f[x] = ScanFrom(w, f, x) /\ ~ (x + RecWords > Words)
    BY <1>0, <1>e, <2>1
  <2>6. CASE w[x] = Head0
    <3> HIDE DEF x, X
    <3>1. f[x] = (IF ValidAt(w, x) THEN {x} ELSE {}) \cup R(x + RecWords)
      BY <2>3, <2>5, <2>6 DEF ScanFrom
    <3>2. ASSUME NEW b PROVE b \in f[x] <=> b \in R(x)
      BY <2>2, <2>4, <2>6, <3>1
    <3>3. f[x] = R(x)
      BY <3>2
    <3> QED BY <3>3 DEF x
  <2>7. CASE w[x] = Blank
    <3> HIDE DEF x, X
    <3>1. Blank # Head0
      BY DEF Blank, Head0
    <3>2. f[x] = {}
      BY <2>5, <2>7, <3>1 DEF ScanFrom
    <3>3. ASSUME NEW b \in Base, b >= x PROVE w[b] = Blank
      <4>1. b \in Cell
        BY BaseFacts, <1>0 DEF Cell
      <4> QED BY <2>2, <2>7, <3>3, <4>1 DEF UsedInOrder
    <3>4. R(x) = {}
      BY <3>1, <3>3
    <3> QED BY <3>2, <3>4 DEF x
  <2> QED BY <2>2, <2>6, <2>7
<1>3. f[0] = R(0)
  <2>1. Slots \in S
    BY <1>0, <1>1, <1>2, Induct
  <2>2. X(Slots) = 0
    BY <1>0
  <2> QED BY <1>0, <2>1, <2>2
<1>4. R(0) = {b \in Base : w[b] = Head0 /\ ValidAt(w, b)}
  BY BaseFacts
<1> QED BY <1>3, <1>4, FoundInScan DEF f

\* A valid record is one that was meant: its CRC is that of a record.
LEMMA ValidIsTyped ==
  ASSUME FlashOK, NEW s \in Sector, NEW a \in At, ValidAt(flash[s], a)
  PROVE  ReadRec(flash[s], a) \in RamType
<1> DEFINE w == flash[s]
           r == ReadRec(w, a)
           c == w[a + CrcAt]
<1>1. a + CrcAt \in Cell
  BY StoreFacts DEF At, Cell, CrcAt
<1>2. c = <<"crc", r.seq, r.erase, r.data>>
  BY DEF ValidAt, Crc
<1>3. CrcOK(c)
  BY <1>1 DEF FlashOK
<1>4. r = [seq |-> w[a + SeqAt][2], erase |-> w[a + 2][2], data |-> w[a + 3][2]]
  BY DEF ReadRec
<1> HIDE DEF c, r, w
<1>5. c[1] = "crc" /\ c[2] = r.seq /\ c[3] = r.erase /\ c[4] = r.data
  BY <1>2
<1>6. r.seq \in 0 .. SeqMax /\ r.erase \in 0 .. MaxLife /\ r.data \in Value
  BY <1>3, <1>5 DEF CrcOK
<1>7. r \in RamType
  BY <1>4, <1>6 DEF RamType
<1> QED BY <1>7 DEF r, w

\* What the scan finds in the sectors.
LEMMA FoundIsValid ==
  ASSUME FlashOK, NEW p \in Found
  PROVE  /\ p \in [sec : Sector, addr : At]
         /\ flash[p.sec][p.addr] = Head0 /\ ValidAt(flash[p.sec], p.addr)
         /\ RecAt(p) \in RamType
<1>1. PICK s \in Sector : p \in {[sec |-> s, addr |-> a] : a \in FoundIn(flash[s])}
  BY DEF Found
<1>2. PICK a \in FoundIn(flash[s]) : p = [sec |-> s, addr |-> a]
  BY <1>1
<1>3. a \in At /\ flash[s][a] = Head0 /\ ValidAt(flash[s], a)
  BY ScanSound
<1>4. p.sec = s /\ p.addr = a /\ p \in [sec : Sector, addr : At]
  BY <1>2, <1>3
<1>5. ReadRec(flash[s], a) \in RamType
  BY <1>3, ValidIsTyped
<1> QED BY <1>3, <1>4, <1>5 DEF RecAt

\* The largest sequence number wins, and there is one.
LEMMA BestIsBest ==
  ASSUME FlashOK, Found # {}
  PROVE  /\ Best \in Found
         /\ \A q \in Found : RecAt(q).seq <= RecAt(Best).seq
         /\ \A p \in Found : (\A q \in Found : q = p \/ RecAt(q).seq < RecAt(p).seq) => Best = p
<1> DEFINE Wins(p, q) ==
             RecAt(p).seq > RecAt(q).seq \/ (RecAt(p).seq = RecAt(q).seq /\ (p = q \/ Before(p, q)))
<1>0. /\ \A p \in Found : RecAt(p).seq \in 0 .. SeqMax /\ p.sec \in Sector /\ p.addr \in At
      /\ \A p \in Found : p \in [sec : Sector, addr : At]
  BY FoundIsValid DEF RamType
<1>b. /\ SeqMax \in Nat /\ SecStart \in Nat /\ Sector \subseteq 0 .. SecStart /\ At \subseteq Nat
      /\ \A s \in Sector : s \in Nat
  BY StoreConstants, StoreFacts DEF Sector, At
<1>1. PICK p1 \in Found : \A q \in Found : RecAt(q).seq <= RecAt(p1).seq
  <2> DEFINE T == {RecAt(p).seq : p \in Found}
  <2>1. T \in SUBSET (0 .. SeqMax) /\ T # {}
    BY <1>0
  <2>2. PICK m \in T : \A y \in T : y <= m
    BY <1>b, <2>1, LargestNat
  <2> QED BY <2>2
<1> DEFINE F1 == {p \in Found : RecAt(p).seq = RecAt(p1).seq}
<1>2. PICK p2 \in F1 : \A q \in F1 : q.sec <= p2.sec
  <2> DEFINE T == {p.sec : p \in F1}
  <2>1. T \in SUBSET (0 .. SecStart) /\ T # {}
    BY <1>0, <1>b
  <2>2. PICK m \in T : \A y \in T : y <= m
    BY <1>b, <2>1, LargestNat
  <2> QED BY <2>2
<1> DEFINE F2 == {p \in F1 : p.sec = p2.sec}
<1>3. PICK p3 \in F2 : \A q \in F2 : p3.addr <= q.addr
  <2> DEFINE T == {p.addr : p \in F2}
  <2>1. T \in SUBSET Nat /\ T # {}
    BY <1>0, <1>b
  <2>2. PICK m \in T : \A y \in T : m <= y
    BY <2>1, LeastNat
  <2> QED BY <2>2
<1>4. ASSUME NEW q \in Found PROVE Wins(p3, q)
  <2>0. /\ p3 \in Found /\ RecAt(p3).seq = RecAt(p1).seq /\ p3.sec = p2.sec
        /\ RecAt(p3).seq \in Nat /\ RecAt(q).seq \in Nat /\ RecAt(q).seq <= RecAt(p3).seq
        /\ p3.sec \in Nat /\ q.sec \in Nat /\ p3.addr \in Nat /\ q.addr \in Nat
    <3>1. p3 \in Found /\ RecAt(p3).seq = RecAt(p1).seq /\ p3.sec = p2.sec
      OBVIOUS
    <3>2. RecAt(q).seq <= RecAt(p3).seq
      BY <1>1, <3>1
    <3>3. ASSUME NEW p \in Found PROVE RecAt(p).seq \in Nat /\ p.sec \in Nat /\ p.addr \in Nat
      <4>1. RecAt(p).seq \in 0 .. SeqMax /\ p.sec \in Sector /\ p.addr \in At
        BY <1>0
      <4>2. RecAt(p).seq \in Nat
        BY <4>1, StoreFacts
      <4> QED BY <1>b, <4>1, <4>2
    <3> QED BY <3>1, <3>2, <3>3
  <2>1. CASE RecAt(q).seq # RecAt(p3).seq
    BY <2>0, <2>1
  <2>2. CASE RecAt(q).seq = RecAt(p3).seq /\ q.sec # p3.sec
    <3>1. q \in F1
      BY <2>0, <2>2
    <3>2. q.sec < p3.sec
      BY <1>2, <2>0, <2>2, <3>1
    <3> QED BY <2>0, <2>2, <3>2 DEF Before
  <2>3. CASE RecAt(q).seq = RecAt(p3).seq /\ q.sec = p3.sec
    <3>1. q \in F2
      BY <2>0, <2>3
    <3>2. p3.addr <= q.addr
      BY <1>3, <3>1
    <3>3. p3.addr = q.addr => p3 = q
      <4>1. p3 \in [sec : Sector, addr : At] /\ q \in [sec : Sector, addr : At]
        BY <1>0, <2>0
      <4> QED BY <2>3, <4>1
    <3> QED BY <2>0, <2>3, <3>2, <3>3 DEF Before
  <2> QED BY <2>1, <2>2, <2>3
<1>5. p3 \in Found
  OBVIOUS
<1>6. Best = CHOOSE p \in Found : \A q \in Found : Wins(p, q)
  BY DEF Best
<1> HIDE DEF Wins
<1>7. Best \in Found /\ \A q \in Found : Wins(Best, q)
  BY <1>4, <1>5, <1>6
<1>8. \A q \in Found : RecAt(q).seq <= RecAt(Best).seq
  BY <1>0, <1>b, <1>7 DEF Wins
<1>9. ASSUME NEW p \in Found, \A q \in Found : q = p \/ RecAt(q).seq < RecAt(p).seq PROVE Best = p
  <2>1. RecAt(p).seq <= RecAt(Best).seq /\ RecAt(p).seq \in Nat /\ RecAt(Best).seq \in Nat
    BY <1>0, <1>7, <1>8
  <2> QED BY <1>7, <1>9, <2>1
<1> QED BY <1>7, <1>8, <1>9

-----------------------------------------------------------------------------
(* Words, jobs and the flash *)

\* The words of a record, one by one.
LEMMA WordFacts ==
  ASSUME NEW r
  PROVE  /\ WordsOf(r)[1] = Head0 /\ WordsOf(r)[2] = <<"seq", r.seq>> /\ WordsOf(r)[3] = <<"erase", r.erase>>
         /\ WordsOf(r)[4] = <<"data", r.data>> /\ WordsOf(r)[5] = Crc(r) /\ WordsOf(r)[6] = Tail0
BY DEF WordsOf

\* Every word of a record is a proper one.
LEMMA WordIsOK ==
  ASSUME NEW r \in RamType, NEW k \in 0 .. RecWords - 1
  PROVE  CrcOK(WordsOf(r)[k + 1])
<1>0. k \in 0 .. 5
  BY StoreFacts
<1>1. r.seq \in 0 .. SeqMax /\ r.erase \in 0 .. MaxLife /\ r.data \in Value
  BY DEF RamType
<1>2. CrcOK(Head0) /\ CrcOK(Tail0) /\ CrcOK(<<"seq", r.seq>>) /\ CrcOK(<<"erase", r.erase>>)
      /\ CrcOK(<<"data", r.data>>)
  BY DEF CrcOK, Head0, Tail0
<1>3. CrcOK(Crc(r))
  BY <1>1 DEF CrcOK, Crc
<1>4. k + 1 = 1 \/ k + 1 = 2 \/ k + 1 = 3 \/ k + 1 = 4 \/ k + 1 = 5 \/ k + 1 = 6
  BY <1>0
<1>5. WordsOf(r)[k + 1] \in {Head0, Tail0, <<"seq", r.seq>>, <<"erase", r.erase>>, <<"data", r.data>>, Crc(r)}
  BY <1>4, WordFacts
<1> QED BY <1>2, <1>3, <1>5

\* What a cell may hold is a proper word.
LEMMA CellIsOK ==
  ASSUME NEW old, NEW new, CrcOK(old), CrcOK(new), NEW now \in Programmed(old, new) \cup {old, Junk}
  PROVE  CrcOK(now)
<1>1. CrcOK(Junk)
  BY DEF CrcOK, Junk
<1>2. CrcOK(<<"seq", BitAnd(old[2], new[2])>>)
  BY DEF CrcOK
<1>3. now \in {old, new, Junk, <<"seq", BitAnd(old[2], new[2])>>}
  BY DEF Programmed
<1> QED BY <1>1, <1>2, <1>3

\* One word of the flash changes.
LEMMA PutWord ==
  ASSUME NEW f, DOMAIN f = Sector, \A s \in Sector : DOMAIN f[s] = Cell,
         NEW t \in Sector, NEW a \in Cell, NEW v, NEW g, g = [f EXCEPT ![t][a] = v]
  PROVE  /\ DOMAIN g = Sector /\ \A s \in Sector : DOMAIN g[s] = Cell
         /\ g[t][a] = v
         /\ \A s \in Sector, c \in Cell : s # t \/ c # a => g[s][c] = f[s][c]
         /\ \A s \in Sector : s # t => g[s] = f[s]
OBVIOUS

\* A sector of the flash changes.
LEMMA PutSector ==
  ASSUME NEW f, DOMAIN f = Sector, \A s \in Sector : DOMAIN f[s] = Cell,
         NEW t \in Sector, NEW e, DOMAIN e = Cell, NEW g, g = [f EXCEPT ![t] = e]
  PROVE  /\ DOMAIN g = Sector /\ \A s \in Sector : DOMAIN g[s] = Cell
         /\ g[t] = e /\ \A s \in Sector : s # t => g[s] = f[s]
OBVIOUS

\* An erased sector is blank.
LEMMA ErasedFacts ==
  /\ DOMAIN Erased = Cell /\ \A a \in Cell : Erased[a] = Blank /\ CrcOK(Erased[a])
  /\ CrcOK(Blank) /\ CrcOK(Junk)
<1>1. DOMAIN Erased = Cell /\ \A a \in Cell : Erased[a] = Blank
  BY DEF Erased, Cell
<1>2. CrcOK(Blank) /\ CrcOK(Junk)
  BY DEF CrcOK, Blank, Junk
<1> QED BY <1>1, <1>2

\* A sector replaced as a whole leaves the flash proper.
LEMMA EraseKeepsFlash ==
  ASSUME FlashOK, NEW t \in Sector, NEW e, DOMAIN e = Cell, \A a \in Cell : CrcOK(e[a]),
         flash' = [flash EXCEPT ![t] = e]
  PROVE  FlashOK' /\ flash'[t] = e /\ \A s \in Sector : s # t => flash'[s] = flash[s]
<1>1. DOMAIN flash = Sector /\ \A s \in Sector : DOMAIN flash[s] = Cell /\ \A a \in Cell : CrcOK(flash[s][a])
  BY DEF FlashOK
<1>2. /\ DOMAIN flash' = Sector /\ \A s \in Sector : DOMAIN flash'[s] = Cell
      /\ flash'[t] = e /\ \A s \in Sector : s # t => flash'[s] = flash[s]
  BY <1>1, PutSector
<1>3. \A s \in Sector, a \in Cell : CrcOK(flash'[s][a])
  BY <1>1, <1>2
<1> QED BY <1>2, <1>3 DEF FlashOK

\* What a job is.
LEMMA JobFacts ==
  ASSUME JobOK
  PROVE  /\ job.do \in {"off", "idle", "attempt", "write", "done"}
         /\ job = Off <=> job.do = "off"
         /\ job.do = "idle" => job = Idle
         /\ job.do = "attempt" =>
              job = Attempt(job.retry) /\ job.retry \in 0 .. MaxRetry - 1 /\ ram.seq <= MaxSeq + job.retry
         /\ job.do = "write" =>
              /\ job = Write(job.retry, job.at, job.k) /\ job.retry \in 0 .. MaxRetry - 1
              /\ job.at \in At /\ job.k \in 0 .. RecWords - 1 /\ ram.seq <= MaxSeq + job.retry + 1
         /\ job.do = "done" => job = Done(job.at) /\ job.at \in At
<1>1. CASE job = Idle
  BY <1>1 DEF Idle, Off
<1>2. CASE job = Off
  BY <1>2 DEF Off
<1>3. ASSUME NEW r \in 0 .. MaxRetry - 1, job = Attempt(r), ram.seq <= MaxSeq + r
      PROVE  /\ job.do = "attempt" /\ job # Off
             /\ job = Attempt(job.retry) /\ job.retry \in 0 .. MaxRetry - 1 /\ ram.seq <= MaxSeq + job.retry
  BY <1>3 DEF Attempt, Off
<1>4. ASSUME NEW r \in 0 .. MaxRetry - 1, NEW at \in At, NEW k \in 0 .. RecWords - 1,
             job = Write(r, at, k), ram.seq <= MaxSeq + r + 1
      PROVE  /\ job.do = "write" /\ job # Off
             /\ job = Write(job.retry, job.at, job.k) /\ job.retry \in 0 .. MaxRetry - 1
             /\ job.at \in At /\ job.k \in 0 .. RecWords - 1 /\ ram.seq <= MaxSeq + job.retry + 1
  BY <1>4 DEF Write, Off
<1>5. ASSUME NEW at \in At, job = Done(at)
      PROVE  job.do = "done" /\ job # Off /\ job = Done(job.at) /\ job.at \in At
  BY <1>5 DEF Done, Off
<1> QED BY <1>1, <1>2, <1>3, <1>4, <1>5 DEF JobOK

\* A failed attempt is followed by another, or by none.
LEMMA FailKeepsJob ==
  ASSUME NEW r \in 0 .. MaxRetry - 1, Fail(r), ram'.seq \in Nat, ram'.seq <= MaxSeq + r + 1
  PROVE  JobOK' /\ job'.do \in {"idle", "attempt"}
<1>1. CASE r + 1 < MaxRetry
  <2>1. r + 1 \in 0 .. MaxRetry - 1 /\ job' = Attempt(r + 1) /\ ram'.seq <= MaxSeq + (r + 1)
    BY <1>1, StoreFacts DEF Fail
  <2>2. job'.do = "attempt"
    BY <2>1 DEF Attempt
  <2>3. JobOK'
    BY <2>1 DEF JobOK
  <2> QED BY <2>2, <2>3
<1>2. CASE ~ (r + 1 < MaxRetry)
  <2>1. job' = Idle
    BY <1>2 DEF Fail
  <2> QED BY <2>1 DEF JobOK, Idle
<1> QED BY <1>1, <1>2

-----------------------------------------------------------------------------
(* Types, and what has been written *)

\* Param_Init loads a record that was meant, or the defaults.
LEMMA BasicLoad ==
  ASSUME StoreTypes, Param_Init
  PROVE  (StoreTypes /\ Written)'
<1>0. FlashOK /\ ram \in RamType /\ rt \in [sec : Sector, addr : 0 .. Words] /\ saved \in Value /\ faults \in Nat
  BY DEF StoreTypes
<1>1. saved' = saved
  BY DEF Param_Init
<1>2. CASE Found # {} /\ rt' = Best /\ ram' = RecAt(Best) /\ job' = Idle /\ UNCHANGED <<flash, faults>>
  <2>1. Best \in Found
    BY <1>0, <1>2, BestIsBest
  <2>2. Best \in [sec : Sector, addr : At] /\ RecAt(Best) \in RamType
    BY <1>0, <2>1, FoundIsValid
  <2>3. rt' \in [sec : Sector, addr : 0 .. Words]
    <3>1. At \subseteq 0 .. Words
      BY StoreFacts DEF At
    <3> QED BY <1>2, <2>2, <3>1
  <2>4. JobOK' /\ Written'
    BY <1>2 DEF JobOK, Written, Idle
  <2>5. FlashOK'
    BY <1>0, <1>2 DEF FlashOK
  <2> QED BY <1>0, <1>1, <1>2, <2>2, <2>3, <2>4, <2>5 DEF StoreTypes
<1>3. CASE /\ Found = {} /\ ram' = [seq |-> DefaultSeq, erase |-> 1, data |-> Default]
           /\ rt' = [sec |-> SecStart, addr |-> 0] /\ Internal_Erase(SecStart) /\ job' = Attempt(0)
  <2>1. ram' \in RamType /\ ram'.seq = 0
    BY <1>3, StoreFacts DEF RamType, Value, DefaultSeq
  <2>2. rt' \in [sec : Sector, addr : 0 .. Words]
    BY <1>3, StoreFacts
  <2>3. JobOK' /\ Written'
    <3>1. 0 \in 0 .. MaxRetry - 1 /\ ram'.seq <= MaxSeq + 0
      BY <2>1, StoreFacts
    <3>2. JobOK'
      BY <1>3, <3>1 DEF JobOK
    <3> QED BY <1>3, <3>2 DEF Written, Attempt
  <2>4. FlashOK' /\ faults' \in Nat
    <3>1. CASE flash' = [flash EXCEPT ![SecStart] = Erased] /\ UNCHANGED faults
      BY <1>0, <3>1, EraseKeepsFlash, ErasedFacts, StoreFacts
    <3>2. CASE UNCHANGED flash /\ Failure
      BY <1>0, <3>2 DEF FlashOK, Failure
    <3> QED BY <1>3, <3>1, <3>2 DEF Internal_Erase
  <2> QED BY <1>0, <1>1, <2>1, <2>2, <2>3, <2>4 DEF StoreTypes
<1> QED BY <1>2, <1>3 DEF Param_Init

\* Dev_Param_RodSave takes a position that may be saved.
LEMMA BasicSave ==
  ASSUME StoreTypes, NEW d \in Data, Dev_Param_RodSave(d)
  PROVE  (StoreTypes /\ Written)'
<1>0. FlashOK /\ ram \in RamType /\ rt \in [sec : Sector, addr : 0 .. Words] /\ saved \in Value /\ faults \in Nat
  BY DEF StoreTypes
<1>1. /\ ram.seq < MaxSeq /\ ram' = [ram EXCEPT !.data = d] /\ job' = Attempt(0)
      /\ UNCHANGED <<flash, rt, saved, faults>>
  BY DEF Dev_Param_RodSave
<1>2. ram' \in RamType /\ ram'.seq = ram.seq
  BY <1>0, <1>1 DEF RamType, Value
<1>3. JobOK' /\ Written'
  <2>1. 0 \in 0 .. MaxRetry - 1 /\ ram'.seq <= MaxSeq + 0
    BY <1>0, <1>1, <1>2, StoreFacts DEF RamType
  <2>2. JobOK'
    BY <1>1, <2>1 DEF JobOK
  <2> QED BY <1>1, <2>2 DEF Written, Attempt
<1>4. FlashOK'
  BY <1>0, <1>1 DEF FlashOK
<1> QED BY <1>0, <1>1, <1>2, <1>3, <1>4 DEF StoreTypes

\* What an attempt counts.
LEMMA BumpFacts ==
  ASSUME NEW r \in RamType, NEW e \in 0 .. MaxLife, r.seq < SeqMax
  PROVE  /\ Bump(r, e) \in RamType /\ Bump(r, e).seq = r.seq + 1
         /\ Bump(r, e).erase = e /\ Bump(r, e).data = r.data
<1> DEFINE n == r.seq + 1
<1>1. n \in 0 .. SeqMax
  BY StoreFacts DEF RamType
<1>2. Bump(r, e) = [r EXCEPT !.seq = n, !.erase = e]
  BY DEF Bump
<1> HIDE DEF n
<1>3. Bump(r, e) \in RamType /\ Bump(r, e).seq = n /\ Bump(r, e).erase = e /\ Bump(r, e).data = r.data
  BY <1>1, <1>2 DEF RamType
<1> QED BY <1>3 DEF n

\* The sector after the last one is the first.
LEMMA NextIsSector ==
  ASSUME rt.sec \in Sector
  PROVE  NextSector \in Sector
BY StoreConstants DEF NextSector, Sector

\* An attempt starts inside a sector, with a number and a life within bounds.
LEMMA BasicPrepare ==
  ASSUME StoreTypes, Param_Save_Prepare
  PROVE  (StoreTypes /\ Written)'
<1>0. /\ FlashOK /\ ram \in RamType /\ rt \in [sec : Sector, addr : 0 .. Words] /\ saved \in Value
      /\ faults \in Nat /\ JobOK /\ rt.sec \in Sector /\ rt.addr \in 0 .. Words
  BY DEF StoreTypes
<1>1. job.do = "attempt" /\ saved' = saved
  BY DEF Param_Save_Prepare
<1>2. job.retry \in 0 .. MaxRetry - 1 /\ ram.seq <= MaxSeq + job.retry /\ job = Attempt(job.retry)
  BY <1>0, <1>1, JobFacts
<1>3. ram.seq < SeqMax /\ ram.seq \in Nat /\ ram.erase \in 0 .. MaxLife
  BY <1>0, <1>2, StoreFacts DEF RamType
<1>j. ASSUME NEW e \in 0 .. MaxLife, NEW at \in At, ram' = Bump(ram, e), job' = Write(job.retry, at, 0)
      PROVE  ram' \in RamType /\ JobOK' /\ Written'
  <2>1. ram' \in RamType /\ ram'.seq = ram.seq + 1
    BY <1>0, <1>3, <1>j, BumpFacts
  <2>2. ram'.seq <= MaxSeq + job.retry + 1
    BY <1>2, <1>3, <2>1, StoreFacts
  <2>3. 0 \in 0 .. RecWords - 1
    BY StoreFacts
  <2>4. JobOK'
    BY <1>2, <1>j, <2>2, <2>3 DEF JobOK
  <2>5. job'.do = "write" /\ job'.k = 0
    BY <1>j DEF Write
  <2>6. Written'
    BY <2>5 DEF Written
  <2> QED BY <2>1, <2>4, <2>6
<1>z. 0 \in At
  BY StoreFacts DEF At
<1>4. CASE /\ ~ Full /\ ram' = Bump(ram, ram.erase) /\ job' = Write(job.retry, rt.addr, 0)
           /\ UNCHANGED <<flash, rt, wiped, faults>>
  <2>1. rt.addr \in At
    BY <1>0, <1>4, StoreFacts DEF Full, At
  <2>2. ram' \in RamType /\ JobOK' /\ Written'
    BY <1>3, <1>4, <1>j, <2>1
  <2>3. FlashOK'
    BY <1>0, <1>4 DEF FlashOK
  <2> QED BY <1>0, <1>1, <1>4, <2>2, <2>3 DEF StoreTypes
<1>5. CASE /\ Full /\ ~ Worn /\ flash' = [flash EXCEPT ![rt.sec] = Erased] /\ ram' = Bump(ram, ram.erase + 1)
           /\ job' = Write(job.retry, 0, 0) /\ UNCHANGED <<rt, faults>>
  <2>1. ram.erase + 1 \in 0 .. MaxLife
    BY <1>3, <1>5, StoreFacts DEF Worn
  <2>2. ram' \in RamType /\ JobOK' /\ Written'
    BY <1>5, <1>j, <1>z, <2>1
  <2>3. FlashOK'
    BY <1>0, <1>5, EraseKeepsFlash, ErasedFacts
  <2> QED BY <1>0, <1>1, <1>5, <2>2, <2>3 DEF StoreTypes
<1>6. CASE Full /\ ~ Worn /\ Failure /\ Fail(job.retry) /\ UNCHANGED <<flash, ram, rt, wiped>>
  <2>1. ram'.seq <= MaxSeq + job.retry + 1 /\ ram'.seq \in Nat
    BY <1>2, <1>3, <1>6, StoreFacts
  <2>2. JobOK' /\ job'.do \in {"idle", "attempt"}
    BY <1>2, <1>6, <2>1, FailKeepsJob
  <2>3. Written'
    BY <2>2 DEF Written
  <2>4. FlashOK' /\ faults' \in Nat
    BY <1>0, <1>6 DEF FlashOK, Failure
  <2> QED BY <1>0, <1>1, <1>6, <2>2, <2>3, <2>4 DEF StoreTypes
<1>7. CASE /\ Full /\ Worn /\ Internal_Erase(NextSector) /\ rt' = [rt EXCEPT !.sec = NextSector]
           /\ ram' = Bump(ram, 1) /\ job' = Write(job.retry, 0, 0)
  <2>1. 1 \in 0 .. MaxLife /\ NextSector \in Sector
    BY <1>0, NextIsSector, StoreFacts
  <2>2. ram' \in RamType /\ JobOK' /\ Written'
    BY <1>7, <1>j, <1>z, <2>1
  <2>3. rt' \in [sec : Sector, addr : 0 .. Words]
    BY <1>0, <1>7, <2>1
  <2>4. FlashOK' /\ faults' \in Nat
    <3>1. CASE flash' = [flash EXCEPT ![NextSector] = Erased] /\ UNCHANGED faults
      BY <1>0, <2>1, <3>1, EraseKeepsFlash, ErasedFacts
    <3>2. CASE UNCHANGED flash /\ Failure
      BY <1>0, <3>2 DEF FlashOK, Failure
    <3> QED BY <1>7, <3>1, <3>2 DEF Internal_Erase
  <2> QED BY <1>0, <1>1, <2>2, <2>3, <2>4 DEF StoreTypes
<1> QED BY <1>4, <1>5, <1>6, <1>7 DEF Param_Save_Prepare

\* One word of a save: which cell changes, and how it goes on.
LEMMA WordCases ==
  ASSUME StoreTypes, Param_Save_Word
  PROVE  LET t == rt.sec
             a == job.at + job.k
             w == WordsOf(ram)[job.k + 1]
         IN /\ job.do = "write" /\ job = Write(job.retry, job.at, job.k)
            /\ job.retry \in 0 .. MaxRetry - 1 /\ job.at \in At /\ job.k \in 0 .. 5
            /\ t \in Sector /\ a \in Cell /\ ram' = ram /\ UNCHANGED <<saved, fresh, wiped>>
            /\ faults' \in {faults, faults + 1}
            /\ faults' = faults => flash'[t][a] \in Programmed(flash[t][a], w)
            /\ FlashOK' /\ \A s \in Sector, c \in Cell : s # t \/ c # a => flash'[s][c] = flash[s][c]
            /\ \A s \in Sector : s # t => flash'[s] = flash[s]
            /\ \/ /\ flash'[t][a] = w /\ rt' = rt
                  /\ job' = IF job.k < 5 THEN Write(job.retry, job.at, job.k + 1) ELSE Done(job.at)
               \/ flash'[t][a] # w /\ rt' = [rt EXCEPT !.addr = job.at + RecWords] /\ Fail(job.retry)
<1> DEFINE t == rt.sec
           a == job.at + job.k
           w == WordsOf(ram)[job.k + 1]
           old == flash[t][a]
<1>0. FlashOK /\ ram \in RamType /\ rt.sec \in Sector /\ faults \in Nat /\ JobOK
  BY DEF StoreTypes
<1>1. job.do = "write" /\ ram' = ram /\ UNCHANGED <<saved, fresh, wiped>>
  BY DEF Param_Save_Word, history
<1>2. /\ job = Write(job.retry, job.at, job.k) /\ job.retry \in 0 .. MaxRetry - 1 /\ job.at \in At
      /\ job.k \in 0 .. 5 /\ job.k \in 0 .. RecWords - 1
  BY <1>0, <1>1, JobFacts, StoreFacts
<1>3. t \in Sector /\ a \in Cell
  BY <1>0, <1>2, StoreFacts DEF At, Cell
<1>4. PICK now \in Programmed(old, w) \cup {old, Junk} :
        /\ IF now \in Programmed(old, w) THEN UNCHANGED faults ELSE Failure
        /\ flash' = [flash EXCEPT ![t][a] = now]
        /\ \/ /\ ReadsBack(now, w)
              /\ job' = IF job.k + 1 < RecWords THEN [job EXCEPT !.k = @ + 1] ELSE Done(job.at)
              /\ UNCHANGED rt
           \/ /\ ~ ReadsBack(now, w)
              /\ rt' = [rt EXCEPT !.addr = job.at + RecWords]
              /\ Fail(job.retry)
  BY DEF Param_Save_Word
<1>5. /\ DOMAIN flash = Sector /\ \A s \in Sector : DOMAIN flash[s] = Cell
      /\ \A s \in Sector, c \in Cell : CrcOK(flash[s][c])
  BY <1>0 DEF FlashOK
<1>6. /\ DOMAIN flash' = Sector /\ \A s \in Sector : DOMAIN flash'[s] = Cell
      /\ flash'[t][a] = now
      /\ \A s \in Sector, c \in Cell : s # t \/ c # a => flash'[s][c] = flash[s][c]
      /\ \A s \in Sector : s # t => flash'[s] = flash[s]
  <2> HIDE DEF t, a
  <2> QED BY <1>3, <1>4, <1>5, PutWord
<1>7. CrcOK(now)
  <2>1. CrcOK(w)
    BY <1>0, <1>2, WordIsOK
  <2>2. CrcOK(old)
    BY <1>3, <1>5
  <2> HIDE DEF w, old
  <2> QED BY <2>1, <2>2, CellIsOK
<1>8. FlashOK'
  <2>1. \A s \in Sector, c \in Cell : CrcOK(flash'[s][c])
    <3> HIDE DEF t, a
    <3> QED BY <1>5, <1>6, <1>7
  <2> QED BY <1>6, <2>1 DEF FlashOK
<1>9. faults' \in {faults, faults + 1} /\ (faults' = faults => now \in Programmed(old, w))
  BY <1>0, <1>4 DEF Failure
<1>10. \/ /\ now = w /\ rt' = rt
          /\ job' = IF job.k < 5 THEN Write(job.retry, job.at, job.k + 1) ELSE Done(job.at)
       \/ now # w /\ rt' = [rt EXCEPT !.addr = job.at + RecWords] /\ Fail(job.retry)
  <2>1. ReadsBack(now, w) <=> now = w
    BY DEF ReadsBack
  <2>2. job.k + 1 < RecWords <=> job.k < 5
    BY <1>2, StoreFacts
  <2>3. [job EXCEPT !.k = job.k + 1] = Write(job.retry, job.at, job.k + 1)
    BY <1>2 DEF Write
  <2> HIDE DEF w
  <2> QED BY <1>4, <2>1, <2>2, <2>3
<1> HIDE DEF t, a, w
<1>11. flash'[t][a] = now
  BY <1>6
<1> QED BY <1>1, <1>2, <1>3, <1>6, <1>8, <1>9, <1>10 DEF t, a, w

\* A word that reads back extends what stands; one that does not ends the attempt.
LEMMA BasicWord ==
  ASSUME StoreTypes, Written, Param_Save_Word
  PROVE  (StoreTypes /\ Written)'
<1> DEFINE t == rt.sec
           a == job.at + job.k
           w == WordsOf(ram)[job.k + 1]
<1>0. /\ ram \in RamType /\ rt \in [sec : Sector, addr : 0 .. Words] /\ saved \in Value /\ faults \in Nat
      /\ JobOK
  BY DEF StoreTypes
<1>1. /\ job.do = "write" /\ job.retry \in 0 .. MaxRetry - 1 /\ job.at \in At /\ job.k \in 0 .. 5
      /\ t \in Sector /\ a \in Cell /\ ram' = ram /\ saved' = saved /\ faults' \in {faults, faults + 1}
      /\ FlashOK' /\ \A s \in Sector, c \in Cell : s # t \/ c # a => flash'[s][c] = flash[s][c]
  BY WordCases
<1>2. \/ /\ flash'[t][a] = w /\ rt' = rt
         /\ job' = IF job.k < 5 THEN Write(job.retry, job.at, job.k + 1) ELSE Done(job.at)
      \/ flash'[t][a] # w /\ rt' = [rt EXCEPT !.addr = job.at + RecWords] /\ Fail(job.retry)
  BY WordCases
<1>3. ram.seq <= MaxSeq + job.retry + 1 /\ ram.seq \in Nat
  BY <1>0, <1>1, JobFacts, StoreFacts DEF RamType
<1>4. CASE flash'[t][a] # w /\ rt' = [rt EXCEPT !.addr = job.at + RecWords] /\ Fail(job.retry)
  <2>1. JobOK' /\ job'.do \in {"idle", "attempt"}
    BY <1>1, <1>3, <1>4, FailKeepsJob
  <2>2. Written'
    BY <2>1 DEF Written
  <2>3. job.at + RecWords \in 0 .. Words
    BY <1>1, StoreFacts DEF At
  <2>4. rt' \in [sec : Sector, addr : 0 .. Words]
    BY <1>0, <1>4, <2>3
  <2> QED BY <1>0, <1>1, <2>1, <2>2, <2>4 DEF StoreTypes
<1>5. CASE /\ flash'[t][a] = w /\ rt' = rt
           /\ job' = IF job.k < 5 THEN Write(job.retry, job.at, job.k + 1) ELSE Done(job.at)
  <2>1. \A i \in 0 .. job.k : flash'[t][job.at + i] = WordsOf(ram)[i + 1]
    <3> SUFFICES ASSUME NEW i \in 0 .. job.k PROVE flash'[t][job.at + i] = WordsOf(ram)[i + 1]
      OBVIOUS
    <3>1. CASE i = job.k
      BY <1>5, <3>1
    <3>2. CASE i # job.k
      <4>1. i \in 0 .. job.k - 1 /\ job.at + i \in Cell /\ job.at + i # a
        BY <1>1, <3>2, StoreFacts DEF At, Cell
      <4>2. flash[t][job.at + i] = WordsOf(ram)[i + 1]
        BY <1>1, <4>1 DEF Written
      <4> HIDE DEF t, a
      <4> QED BY <1>1, <4>1, <4>2
    <3> QED BY <3>1, <3>2
  <2>2. CASE job.k < 5
    <3>1. job' = Write(job.retry, job.at, job.k + 1) /\ job.k + 1 \in 0 .. RecWords - 1
      BY <1>1, <1>5, <2>2, StoreFacts
    <3>2. JobOK'
      <4>1. ram'.seq <= MaxSeq + job.retry + 1
        BY <1>1, <1>3
      <4> QED BY <1>1, <3>1, <4>1 DEF JobOK
    <3>3. job'.do = "write" /\ job'.at = job.at /\ job'.k = job.k + 1
      BY <3>1 DEF Write
    <3>4. Written'
      <4>1. job'.k - 1 = job.k
        BY <1>1, <3>3
      <4> QED BY <1>1, <1>5, <2>1, <3>3, <4>1 DEF Written
    <3> QED BY <1>0, <1>1, <1>5, <3>2, <3>4 DEF StoreTypes
  <2>3. CASE ~ (job.k < 5)
    <3>1. job' = Done(job.at) /\ job.k = 5
      BY <1>1, <1>5, <2>3
    <3>2. JobOK'
      BY <1>1, <3>1 DEF JobOK
    <3>3. job'.do = "done" /\ job'.at = job.at
      BY <3>1 DEF Done
    <3>4. Written'
      <4>1. RecWords - 1 = job.k
        BY <3>1, StoreFacts
      <4> QED BY <1>1, <1>5, <2>1, <3>3, <4>1 DEF Written
    <3> QED BY <1>0, <1>1, <1>5, <3>2, <3>4 DEF StoreTypes
  <2> QED BY <2>2, <2>3
<1> QED BY <1>2, <1>4, <1>5

\* The next record starts at the end of this one.
LEMMA BasicDone ==
  ASSUME StoreTypes, Param_Save_Done
  PROVE  (StoreTypes /\ Written)'
<1>0. FlashOK /\ ram \in RamType /\ rt \in [sec : Sector, addr : 0 .. Words] /\ faults \in Nat /\ JobOK
  BY DEF StoreTypes
<1>1. /\ job.do = "done" /\ rt' = [rt EXCEPT !.addr = job.at + RecWords] /\ job' = Idle /\ saved' = ram.data
      /\ UNCHANGED <<flash, ram, faults>>
  BY DEF Param_Save_Done, AfterSave
<1>2. job.at + RecWords \in 0 .. Words
  BY <1>0, <1>1, JobFacts, StoreFacts DEF At
<1>3. rt' \in [sec : Sector, addr : 0 .. Words]
  BY <1>0, <1>1, <1>2
<1>4. JobOK' /\ Written'
  BY <1>1 DEF JobOK, Written, Idle
<1>5. FlashOK' /\ saved' \in Value
  BY <1>0, <1>1 DEF FlashOK, RamType
<1> QED BY <1>0, <1>1, <1>3, <1>4, <1>5 DEF StoreTypes

\* A torn erasure leaves junk and nothing else.
LEMMA BasicLoss ==
  ASSUME StoreTypes, PowerLoss
  PROVE  (StoreTypes /\ Written)'
<1>0. /\ FlashOK /\ ram \in RamType /\ rt \in [sec : Sector, addr : 0 .. Words] /\ saved \in Value
      /\ faults \in Nat /\ rt.sec \in Sector
  BY DEF StoreTypes
<1>1. job' = Off /\ UNCHANGED <<ram, rt, saved, faults>>
  BY DEF PowerLoss, history
<1>2. JobOK' /\ Written'
  BY <1>1 DEF JobOK, Written, Off
<1>3. FlashOK'
  <2>1. CASE UNCHANGED flash
    BY <1>0, <2>1 DEF FlashOK
  <2> DEFINE s == IF Worn THEN NextSector ELSE rt.sec
             e == [a \in 0 .. Words - 1 |-> Junk]
  <2>2. CASE flash' = [flash EXCEPT ![s] = e]
    <3>1. s \in Sector
      BY <1>0, NextIsSector
    <3>2. DOMAIN e = Cell /\ \A a \in Cell : CrcOK(e[a])
      BY ErasedFacts DEF Cell
    <3> HIDE DEF s, e
    <3> QED BY <1>0, <2>2, <3>1, <3>2, EraseKeepsFlash
  <2> QED BY <2>1, <2>2 DEF PowerLoss
<1> QED BY <1>0, <1>1, <1>2, <1>3 DEF StoreTypes

-----------------------------------------------------------------------------
(* The default record, on flash that does not fail *)

\* Only a CRC can be that of a default record.
LEMMA PlainIsLow == Low(Blank) /\ Low(Junk) /\ Low(Head0) /\ Low(Tail0)
BY DEF Low, Blank, Junk, Head0, Tail0

\* A default record that is loaded has a low number; a new one starts on a blank sector.
LEMMA LowLoad ==
  ASSUME StoreTypes, faults' = 0, DefaultIsLow, Param_Init
  PROVE  (DefaultIsLow /\ DefaultIsFresh)'
<1>0. FlashOK /\ faults \in Nat
  BY DEF StoreTypes
<1>1. CASE Found # {} /\ rt' = Best /\ ram' = RecAt(Best) /\ job' = Idle /\ UNCHANGED <<flash, faults>>
  <2>1. DefaultIsLow'
    BY <1>1 DEF DefaultIsLow
  <2>2. Best \in [sec : Sector, addr : At] /\ ValidAt(flash[Best.sec], Best.addr)
    BY <1>0, <1>1, BestIsBest, FoundIsValid
  <2> DEFINE r == RecAt(Best)
             c == flash[Best.sec][Best.addr + CrcAt]
  <2>3. c = <<"crc", r.seq, r.erase, r.data>>
    BY <2>2 DEF ValidAt, Crc, RecAt
  <2>4. Best.addr + CrcAt \in Cell /\ Best.sec \in Sector
    BY <2>2, StoreFacts DEF At, Cell, CrcAt
  <2>5. Low(c)
    BY <2>4 DEF DefaultIsLow
  <2> HIDE DEF r, c
  <2>6. r.data = Default => r.seq <= 1
    BY <2>3, <2>5 DEF Low
  <2>7. job'.do = "idle"
    BY <1>1 DEF Idle
  <2>8. DefaultIsFresh'
    BY <1>1, <2>6, <2>7 DEF DefaultIsFresh, r
  <2> QED BY <2>1, <2>8
<1>2. CASE /\ ram' = [seq |-> DefaultSeq, erase |-> 1, data |-> Default]
           /\ rt' = [sec |-> SecStart, addr |-> 0] /\ Internal_Erase(SecStart) /\ job' = Attempt(0)
  <2>1. flash' = [flash EXCEPT ![SecStart] = Erased]
    BY <1>0, <1>2 DEF Internal_Erase, Failure
  <2>2. flash'[SecStart] = Erased /\ \A s \in Sector : s # SecStart => flash'[s] = flash[s]
    BY <1>0, <2>1, EraseKeepsFlash, ErasedFacts, StoreFacts
  <2>3. \A a \in Cell : flash'[SecStart][a] = Blank
    BY <2>2, ErasedFacts
  <2>4. DefaultIsLow'
    <3> SUFFICES ASSUME NEW s \in Sector, NEW a \in Cell PROVE Low(flash'[s][a])
      BY DEF DefaultIsLow
    <3> QED BY <2>2, <2>3, PlainIsLow DEF DefaultIsLow
  <2>5. ram'.seq = 0 /\ job'.do = "attempt"
    BY <1>2 DEF DefaultSeq, Attempt
  <2>6. DefaultIsFresh'
    BY <1>2, <2>3, <2>5 DEF DefaultIsFresh
  <2> QED BY <2>4, <2>6
<1> QED BY <1>1, <1>2 DEF Param_Init

\* A save replaces the default position.
LEMMA LowSave ==
  ASSUME StoreTypes, DefaultIsLow, NEW d \in Data, Dev_Param_RodSave(d)
  PROVE  (DefaultIsLow /\ DefaultIsFresh)'
<1>1. ram' = [ram EXCEPT !.data = d] /\ flash' = flash /\ ram \in RamType
  BY DEF Dev_Param_RodSave, StoreTypes
<1>2. ram'.data = d /\ d # Default
  BY <1>1, StoreConstants DEF RamType
<1> QED BY <1>1, <1>2 DEF DefaultIsLow, DefaultIsFresh

\* The default record is written with number 1, at address 0.
LEMMA LowPrepare ==
  ASSUME StoreTypes, faults' = 0, DefaultIsLow, DefaultIsFresh, Param_Save_Prepare
  PROVE  (DefaultIsLow /\ DefaultIsFresh)'
<1>0. FlashOK /\ faults \in Nat /\ rt.sec \in Sector /\ ram \in RamType /\ JobOK
  BY DEF StoreTypes
<1>1. job.do = "attempt"
  BY DEF Param_Save_Prepare
<1>2. ram.seq < SeqMax /\ ram.seq \in Nat /\ ram.erase \in 0 .. MaxLife
  BY <1>0, <1>1, JobFacts, StoreFacts DEF RamType
<1>e. ASSUME NEW t \in Sector, flash' = [flash EXCEPT ![t] = Erased] PROVE DefaultIsLow'
  <2>1. flash'[t] = Erased /\ \A s \in Sector : s # t => flash'[s] = flash[s]
    BY <1>0, <1>e, EraseKeepsFlash, ErasedFacts
  <2> SUFFICES ASSUME NEW s \in Sector, NEW a \in Cell PROVE Low(flash'[s][a])
    BY DEF DefaultIsLow
  <2> QED BY <2>1, ErasedFacts, PlainIsLow DEF DefaultIsLow
<1>f. ram.data = Default => ~ Full
  <2>1. ram.data = Default => rt.addr = 0
    BY <1>1 DEF DefaultIsFresh
  <2> QED BY <2>1, StoreFacts DEF Full
<1>3. CASE /\ ~ Full /\ ram' = Bump(ram, ram.erase) /\ job' = Write(job.retry, rt.addr, 0)
           /\ UNCHANGED <<flash, rt, wiped, faults>>
  <2>1. ram'.seq = ram.seq + 1 /\ ram'.data = ram.data
    BY <1>0, <1>2, <1>3, BumpFacts
  <2>2. job'.do = "write" /\ job'.at = rt.addr /\ job'.k = 0
    BY <1>3 DEF Write
  <2>3. DefaultIsFresh'
    <3> SUFFICES ASSUME ram.data = Default PROVE DefaultIsFresh'
      BY <2>1 DEF DefaultIsFresh
    <3>1. ram.seq = 0 /\ rt.sec = SecStart /\ rt.addr = 0 /\ \A i \in Cell : flash[SecStart][i] = Blank
      BY <1>1 DEF DefaultIsFresh
    <3>2. \A i \in 0 .. RecWords - 1 : i \in Cell
      BY StoreFacts DEF Cell
    <3> QED BY <1>3, <2>1, <2>2, <3>1, <3>2 DEF DefaultIsFresh
  <2> QED BY <1>3, <2>3 DEF DefaultIsLow
<1>4. CASE /\ Full /\ ~ Worn /\ flash' = [flash EXCEPT ![rt.sec] = Erased] /\ ram' = Bump(ram, ram.erase + 1)
  <2>1. ram.erase + 1 \in 0 .. MaxLife
    BY <1>2, <1>4, StoreFacts DEF Worn
  <2>2. ram'.data = ram.data
    BY <1>0, <1>2, <1>4, <2>1, BumpFacts
  <2> QED BY <1>0, <1>4, <1>e, <1>f, <2>2 DEF DefaultIsFresh
<1>5. CASE Full /\ Failure
  BY <1>0, <1>5 DEF Failure
<1>6. CASE Full /\ Worn /\ Internal_Erase(NextSector) /\ ram' = Bump(ram, 1)
  <2>1. 1 \in 0 .. MaxLife /\ NextSector \in Sector
    BY <1>0, NextIsSector, StoreFacts
  <2>2. ram'.data = ram.data
    BY <1>0, <1>2, <1>6, <2>1, BumpFacts
  <2>3. flash' = [flash EXCEPT ![NextSector] = Erased]
    BY <1>0, <1>6 DEF Internal_Erase, Failure
  <2> QED BY <1>6, <1>e, <1>f, <2>1, <2>2, <2>3 DEF DefaultIsFresh
<1> QED BY <1>3, <1>4, <1>5, <1>6 DEF Param_Save_Prepare

\* What is programmed over a blank cell or over itself is there.
LEMMA ProgramsPlain ==
  ASSUME NEW old, NEW new, old \in {Blank, new}
  PROVE  Programmed(old, new) = {new}
BY DEF Programmed

\* The default record meets only blank words, so no second attempt raises its number.
LEMMA LowWord ==
  ASSUME StoreTypes, faults' = 0, DefaultIsLow, DefaultIsFresh, Param_Save_Word
  PROVE  (DefaultIsLow /\ DefaultIsFresh)'
<1> DEFINE t == rt.sec
           a == job.at + job.k
           w == WordsOf(ram)[job.k + 1]
           now == flash'[t][a]
<1>0. faults \in Nat /\ ram \in RamType /\ JobOK
  BY DEF StoreTypes
<1>1. /\ job.do = "write" /\ job.retry \in 0 .. MaxRetry - 1 /\ job.at \in At /\ job.k \in 0 .. 5
      /\ t \in Sector /\ a \in Cell /\ ram' = ram /\ faults' \in {faults, faults + 1}
      /\ faults' = faults => now \in Programmed(flash[t][a], w)
      /\ \A s \in Sector, c \in Cell : s # t \/ c # a => flash'[s][c] = flash[s][c]
  BY WordCases
<1>2. \/ /\ now = w /\ rt' = rt
         /\ job' = IF job.k < 5 THEN Write(job.retry, job.at, job.k + 1) ELSE Done(job.at)
      \/ now # w /\ Fail(job.retry)
  BY WordCases
<1>3. now \in Programmed(flash[t][a], w)
  BY <1>0, <1>1
<1>4. Low(w)
  <2>1. ram.data = Default => ram.seq <= 1
    BY DEF DefaultIsFresh
  <2>2. Low(Crc(ram)) /\ Low(<<"seq", ram.seq>>) /\ Low(<<"erase", ram.erase>>) /\ Low(<<"data", ram.data>>)
    BY <2>1 DEF Low, Crc
  <2>3. job.k + 1 = 1 \/ job.k + 1 = 2 \/ job.k + 1 = 3 \/ job.k + 1 = 4 \/ job.k + 1 = 5 \/ job.k + 1 = 6
    BY <1>1
  <2>4. w \in {Head0, Tail0, <<"seq", ram.seq>>, <<"erase", ram.erase>>, <<"data", ram.data>>, Crc(ram)}
    BY <2>3, WordFacts
  <2> QED BY <2>2, <2>4, PlainIsLow
<1>5. Low(now)
  <2> DEFINE old == flash[t][a]
  <2>1. Low(old)
    BY <1>1 DEF DefaultIsLow
  <2>2. Low(<<"seq", BitAnd(old[2], w[2])>>)
    BY DEF Low
  <2> HIDE DEF old, w, now
  <2>3. now \in {old, w, Junk, <<"seq", BitAnd(old[2], w[2])>>}
    BY <1>3 DEF Programmed, old
  <2> QED BY <1>4, <2>1, <2>2, <2>3, PlainIsLow
<1>6. DefaultIsLow'
  <2> SUFFICES ASSUME NEW s \in Sector, NEW c \in Cell PROVE Low(flash'[s][c])
    BY DEF DefaultIsLow
  <2> HIDE DEF a, t
  <2> QED BY <1>1, <1>5 DEF DefaultIsLow
<1>7. DefaultIsFresh'
  <2> SUFFICES ASSUME ram.data = Default PROVE DefaultIsFresh'
    BY <1>1 DEF DefaultIsFresh
  <2>1. /\ ram.seq <= 1 /\ rt.sec = SecStart /\ job.at = 0
        /\ \A i \in job.k .. RecWords - 1 : flash[SecStart][i] = Blank
    BY <1>1 DEF DefaultIsFresh
  <2>2. flash[t][a] = Blank
    <3>1. job.k \in job.k .. RecWords - 1 /\ a = job.k
      BY <1>1, <2>1, StoreFacts
    <3> QED BY <2>1, <3>1
  <2>3. now = w
    <3> HIDE DEF now, w
    <3> QED BY <1>3, <2>2, ProgramsPlain
  <2>4. rt' = rt /\ job' = IF job.k < 5 THEN Write(job.retry, job.at, job.k + 1) ELSE Done(job.at)
    BY <1>2, <2>3
  <2>5. CASE job.k < 5
    <3>1. job'.do = "write" /\ job'.at = job.at /\ job'.k = job.k + 1
      BY <2>4, <2>5 DEF Write
    <3>2. ASSUME NEW i \in job.k + 1 .. RecWords - 1 PROVE flash'[SecStart][i] = Blank
      <4>1. i \in Cell /\ i # a /\ i \in job.k .. RecWords - 1
        BY <1>1, <2>1, StoreFacts DEF Cell
      <4>2. flash'[SecStart][i] = flash[SecStart][i]
        BY <1>1, <2>1, <4>1
      <4> QED BY <2>1, <4>1, <4>2
    <3> QED BY <1>1, <2>1, <2>4, <3>1, <3>2 DEF DefaultIsFresh
  <2>6. CASE ~ (job.k < 5)
    <3>1. job'.do = "done"
      BY <2>4, <2>6 DEF Done
    <3> QED BY <1>1, <2>1, <3>1 DEF DefaultIsFresh
  <2> QED BY <2>5, <2>6
<1> QED BY <1>6, <1>7

\* Success leaves the number as it is.
LEMMA LowDone ==
  ASSUME DefaultIsLow, DefaultIsFresh, Param_Save_Done
  PROVE  (DefaultIsLow /\ DefaultIsFresh)'
<1>1. job' = Idle /\ UNCHANGED <<flash, ram>>
  BY DEF Param_Save_Done
<1>2. job'.do = "idle"
  BY <1>1 DEF Idle
<1> QED BY <1>1, <1>2 DEF DefaultIsLow, DefaultIsFresh

\* A torn erasure leaves no CRC.
LEMMA LowLoss ==
  ASSUME StoreTypes, DefaultIsLow, DefaultIsFresh, PowerLoss
  PROVE  (DefaultIsLow /\ DefaultIsFresh)'
<1>0. FlashOK /\ rt.sec \in Sector
  BY DEF StoreTypes
<1>1. job' = Off /\ ram' = ram
  BY DEF PowerLoss
<1>2. job'.do = "off"
  BY <1>1 DEF Off
<1>3. DefaultIsLow'
  <2>1. CASE UNCHANGED flash
    BY <2>1 DEF DefaultIsLow
  <2> DEFINE t == IF Worn THEN NextSector ELSE rt.sec
             e == [a \in 0 .. Words - 1 |-> Junk]
  <2>2. CASE flash' = [flash EXCEPT ![t] = e]
    <3>1. t \in Sector
      BY <1>0, NextIsSector
    <3>2. DOMAIN e = Cell /\ \A a \in Cell : e[a] = Junk /\ CrcOK(e[a])
      BY ErasedFacts DEF Cell
    <3> HIDE DEF t, e
    <3>3. flash'[t] = e /\ \A s \in Sector : s # t => flash'[s] = flash[s]
      BY <1>0, <2>2, <3>1, <3>2, EraseKeepsFlash
    <3>4. ASSUME NEW s \in Sector, NEW a \in Cell PROVE Low(flash'[s][a])
      BY <3>2, <3>3, PlainIsLow DEF DefaultIsLow
    <3> QED BY <3>4 DEF DefaultIsLow
  <2> QED BY <2>1, <2>2 DEF PowerLoss
<1> QED BY <1>1, <1>2, <1>3 DEF DefaultIsFresh

-----------------------------------------------------------------------------
(* The first theorems *)

\* The invariant holds before the first power-up.
LEMMA BasicInit ==
  ASSUME StoreInit
  PROVE  StoreInv
<1>1. /\ flash = [s \in Sector |-> Erased] /\ ram = [seq |-> 0, erase |-> 0, data |-> Default]
      /\ rt = [sec |-> SecStart, addr |-> 0] /\ job = Off /\ saved = Default /\ faults = 0
  BY DEF StoreInit
<1>2. FlashOK
  BY <1>1, ErasedFacts DEF FlashOK
<1>3. ram \in RamType /\ rt \in [sec : Sector, addr : 0 .. Words] /\ saved \in Value /\ faults \in Nat
  BY <1>1, StoreFacts DEF RamType, Value
<1>4. JobOK /\ Written /\ job.do = "off"
  BY <1>1 DEF JobOK, Written, Off
<1>5. DefaultIsLow
  <2>1. ASSUME NEW s \in Sector, NEW a \in Cell PROVE Low(flash[s][a])
    BY <1>1, ErasedFacts, PlainIsLow
  <2> QED BY <2>1 DEF DefaultIsLow
<1>6. DefaultIsFresh
  BY <1>1, <1>4 DEF DefaultIsFresh
<1> QED BY <1>2, <1>3, <1>4, <1>5, <1>6 DEF StoreInv, StoreTypes

\* Every step of the store keeps it.
LEMMA BasicStep ==
  ASSUME StoreInv, [StoreNext]_storeVars
  PROVE  StoreInv'
<1>0. StoreTypes /\ Written /\ (faults = 0 => DefaultIsLow /\ DefaultIsFresh) /\ faults \in Nat
  BY DEF StoreInv, StoreTypes
<1>1. CASE Param_Init
  <2>1. faults' = 0 => faults = 0
    BY <1>0, <1>1 DEF Param_Init, Internal_Erase, Failure
  <2> QED BY <1>0, <1>1, <2>1, BasicLoad, LowLoad DEF StoreInv
<1>2. ASSUME NEW d \in Data, Dev_Param_RodSave(d) PROVE StoreInv'
  <2>1. faults' = faults
    BY <1>2 DEF Dev_Param_RodSave
  <2> QED BY <1>0, <1>2, <2>1, BasicSave, LowSave DEF StoreInv
<1>3. CASE Param_Save_Prepare
  <2>1. faults' = 0 => faults = 0
    BY <1>0, <1>3 DEF Param_Save_Prepare, Internal_Erase, Failure
  <2> QED BY <1>0, <1>3, <2>1, BasicPrepare, LowPrepare DEF StoreInv
<1>4. CASE Param_Save_Word
  <2>1. faults' \in {faults, faults + 1}
    BY <1>0, <1>4, WordCases
  <2>2. faults' = 0 => faults = 0
    BY <1>0, <2>1
  <2> QED BY <1>0, <1>4, <2>2, BasicWord, LowWord DEF StoreInv
<1>5. CASE Param_Save_Done
  <2>1. faults' = faults
    BY <1>5 DEF Param_Save_Done
  <2> QED BY <1>0, <1>5, <2>1, BasicDone, LowDone DEF StoreInv
<1>6. CASE PowerLoss
  <2>1. faults' = faults
    BY <1>6 DEF PowerLoss
  <2> QED BY <1>0, <1>6, <2>1, BasicLoss, LowLoss DEF StoreInv
<1>7. CASE UNCHANGED storeVars
  <2>1. UNCHANGED <<flash, ram, rt, job, saved, faults>>
    BY <1>7 DEF storeVars
  <2>2. StoreTypes'
    BY <1>0, <2>1 DEF StoreTypes, FlashOK, JobOK
  <2>3. Written'
    BY <1>0, <2>1 DEF Written
  <2>4. DefaultIsLow /\ DefaultIsFresh => (DefaultIsLow /\ DefaultIsFresh)'
    BY <2>1 DEF DefaultIsLow, DefaultIsFresh
  <2> QED BY <1>0, <2>1, <2>2, <2>3, <2>4 DEF StoreInv
<1> QED BY <1>1, <1>2, <1>3, <1>4, <1>5, <1>6, <1>7 DEF StoreNext

\* The invariant for any number of failing words and erasures: what a word
\* may have become, and which words of the record under way stand.
THEOREM StoreInvariant == StoreSpec => []StoreInv
<1>1. StoreInit => StoreInv
  BY BasicInit
<1>2. StoreInv /\ [StoreNext]_storeVars => StoreInv'
  BY BasicStep
<1> QED BY <1>1, <1>2, PTL DEF StoreSpec

\* Param_Save never writes outside the sector, never erases a sector beyond
\* its life, and what the scan of Param_Init loads is always a record that was
\* meant, whatever torn and overwritten words the flash holds.
THEOREM StoreTypeCorrect == StoreSpec => []StoreTypeOK
<1>1. StoreInv => StoreTypeOK
  <2> SUFFICES ASSUME StoreInv PROVE StoreTypeOK
    OBVIOUS
  <2>1. FlashOK /\ JobOK /\ ram \in RamType /\ rt \in [sec : Sector, addr : 0 .. Words] /\ saved \in Value
    BY DEF StoreInv, StoreTypes
  <2>2. ram.seq \in Nat /\ ram.erase \in 0 .. MaxLife /\ ram.data \in Value
    BY <2>1, StoreFacts DEF RamType
  <2> QED BY <2>1, <2>2, JobFacts DEF StoreTypeOK, FlashOK, Value
<1> QED BY <1>1, StoreInvariant, PTL

\* What has been written completely can be read again.
LEMMA WrittenSucceeds ==
  ASSUME StoreTypes, Written
  PROVE  SuccessIsOnFlash
<1> SUFFICES ASSUME job.do = "done"
             PROVE  ValidAt(flash[rt.sec], job.at) /\ ReadRec(flash[rt.sec], job.at) = ram
  BY DEF SuccessIsOnFlash
<1> DEFINE w == flash[rt.sec]
           a == job.at
<1>1. ram \in RamType /\ \A i \in 0 .. 5 : w[a + i] = WordsOf(ram)[i + 1]
  BY StoreFacts DEF StoreTypes, Written
<1>2. /\ w[a + 1] = WordsOf(ram)[2] /\ w[a + 2] = WordsOf(ram)[3] /\ w[a + 3] = WordsOf(ram)[4]
      /\ w[a + 4] = WordsOf(ram)[5] /\ w[a + 5] = WordsOf(ram)[6]
  BY <1>1
<1>3. /\ w[a + 1] = <<"seq", ram.seq>> /\ w[a + 2] = <<"erase", ram.erase>> /\ w[a + 3] = <<"data", ram.data>>
      /\ w[a + 4] = Crc(ram) /\ w[a + 5] = Tail0
  BY <1>2, WordFacts
<1> HIDE DEF w, a
<1>4. ReadRec(w, a) = [seq |-> ram.seq, erase |-> ram.erase, data |-> ram.data]
  BY <1>3 DEF ReadRec, SeqAt
<1>5. ReadRec(w, a) = ram
  BY <1>1, <1>4 DEF RamType
<1>6. \A i \in {1, 2, 3} : Len(w[a + i]) = 2
  BY <1>3
<1>7. ValidAt(w, a)
  <2>1. a + RecWords - 1 = a + 5 /\ a + CrcAt = a + 4
    <3>1. a \in Nat
      BY JobFacts, StoreFacts DEF StoreTypes, At, a
    <3> QED BY <3>1, StoreFacts DEF CrcAt
  <2> QED BY <1>3, <1>5, <1>6, <2>1 DEF ValidAt
<1> QED BY <1>5, <1>7 DEF w, a

\* Param_Save reports success only for a record that stands complete on the
\* flash, however many words and erasures fail.
THEOREM StoreSuccessIsOnFlash == StoreSpec => []SuccessIsOnFlash
<1>1. StoreInv => SuccessIsOnFlash
  BY WrittenSucceeds DEF StoreInv
<1> QED BY <1>1, StoreInvariant, PTL

\* On flash that does not fail Dev_Param_RodApply never takes the default
\* record, which has a sequence number of at most 1, for a calibrated position.
THEOREM StoreRestoredIsReal == StoreSpec => []RestoredIsReal
<1>1. StoreInv => RestoredIsReal
  <2> SUFFICES ASSUME StoreInv, faults = 0, Found # {}, RecAt(Best).seq >= 2
               PROVE  RecAt(Best).data \in Data
    BY DEF RestoredIsReal
  <2>1. FlashOK /\ DefaultIsLow
    BY DEF StoreInv, StoreTypes
  <2>2. /\ Best \in [sec : Sector, addr : At] /\ ValidAt(flash[Best.sec], Best.addr)
        /\ RecAt(Best) \in RamType
    BY <2>1, BestIsBest, FoundIsValid
  <2> DEFINE r == RecAt(Best)
             c == flash[Best.sec][Best.addr + CrcAt]
  <2>3. c = <<"crc", r.seq, r.erase, r.data>>
    BY <2>2 DEF ValidAt, Crc, RecAt
  <2>4. Best.addr + CrcAt \in Cell /\ Best.sec \in Sector
    BY <2>2, StoreFacts DEF At, Cell, CrcAt
  <2>5. Low(c)
    BY <2>1, <2>4 DEF DefaultIsLow
  <2> HIDE DEF c, r
  <2>6. r.data \in Value /\ r.seq \in Nat /\ r.seq >= 2
    BY <2>2, StoreFacts DEF RamType, r
  <2>7. r.data # Default
    BY <2>3, <2>5, <2>6 DEF Low
  <2> QED BY <2>6, <2>7 DEF Value, r
<1> QED BY <1>1, StoreInvariant, PTL

-----------------------------------------------------------------------------
(* Flash that does not fail: slots and sectors *)

\* A record depends on the words of its slot only.
LEMMA SlotLocal ==
  ASSUME NEW w, NEW v, NEW b \in Base, \A i \in 0 .. 5 : v[b + i] = w[b + i]
  PROVE  /\ v[b] = w[b] /\ v[b + 2] = w[b + 2]
         /\ ValidAt(v, b) <=> ValidAt(w, b)
         /\ ReadRec(v, b) = ReadRec(w, b)
         /\ SlotOK(v, b) <=> SlotOK(w, b)
<1>1. b \in Nat /\ b + 0 = b /\ b + RecWords - 1 = b + 5 /\ b + CrcAt = b + 4 /\ b + SeqAt = b + 1
  BY BaseFacts, StoreFacts DEF CrcAt, SeqAt
<1>2. /\ v[b] = w[b] /\ v[b + 1] = w[b + 1] /\ v[b + 2] = w[b + 2] /\ v[b + 3] = w[b + 3]
      /\ v[b + 4] = w[b + 4] /\ v[b + 5] = w[b + 5]
  <2>1. v[b + 0] = w[b + 0]
    OBVIOUS
  <2> QED BY <1>1, <2>1
<1>3. ReadRec(v, b) = ReadRec(w, b)
  BY <1>1, <1>2 DEF ReadRec
<1>4. ValidAt(v, b) <=> ValidAt(w, b)
  <2>1. \A i \in {1, 2, 3} : Len(v[b + i]) = Len(w[b + i])
    BY <1>2
  <2> QED BY <1>1, <1>2, <1>3, <2>1 DEF ValidAt
<1>5. SlotOK(v, b) <=> SlotOK(w, b)
  BY <1>2 DEF SlotOK
<1> QED BY <1>2, <1>3, <1>4, <1>5

\* The words of a valid record in a slot.
LEMMA ValidFacts ==
  ASSUME NEW w, NEW b \in Base, ValidAt(w, b)
  PROVE  LET r == ReadRec(w, b)
         IN /\ w[b + 5] = Tail0 /\ w[b + 4] = <<"crc", r.seq, r.erase, r.data>>
            /\ w[b + 4][1] = "crc" /\ w[b + 4][2] = r.seq /\ w[b + 4][3] = r.erase /\ w[b + 4][4] = r.data
            /\ r.seq = w[b + 1][2] /\ r.erase = w[b + 2][2] /\ r.data = w[b + 3][2]
            /\ Len(w[b + 1]) = 2 /\ Len(w[b + 2]) = 2 /\ Len(w[b + 3]) = 2
<1> DEFINE r == ReadRec(w, b)
<1>1. b \in Nat /\ b + RecWords - 1 = b + 5 /\ b + CrcAt = b + 4 /\ b + SeqAt = b + 1
  BY BaseFacts, StoreFacts DEF CrcAt, SeqAt
<1>2. r.seq = w[b + 1][2] /\ r.erase = w[b + 2][2] /\ r.data = w[b + 3][2]
  BY <1>1 DEF ReadRec
<1>3. w[b + 5] = Tail0 /\ w[b + 4] = <<"crc", r.seq, r.erase, r.data>>
  BY <1>1 DEF ValidAt, Crc
<1>4. Len(w[b + 1]) = 2 /\ Len(w[b + 2]) = 2 /\ Len(w[b + 3]) = 2
  BY DEF ValidAt
<1> HIDE DEF r
<1>5. w[b + 4][1] = "crc" /\ w[b + 4][2] = r.seq /\ w[b + 4][3] = r.erase /\ w[b + 4][4] = r.data
  BY <1>3
<1> QED BY <1>2, <1>3, <1>4, <1>5 DEF r

\* The plain words differ.
LEMMA WordsDiffer ==
  /\ Blank # Head0 /\ Blank # Tail0 /\ Blank # Junk /\ Head0 # Junk /\ Tail0 # Junk
  /\ Blank[1] = "blank" /\ Junk[1] = "junk" /\ Len(Junk) = 1 /\ Len(Blank) = 1
BY DEF Blank, Head0, Tail0, Junk

\* An erased sector is tidy, of any life, and holds no record.
LEMMA ErasedIsTidy ==
  ASSUME NEW w, \A a \in Cell : w[a] = Blank
  PROVE  Tidy(w) /\ (\A e : OneLife(w, e)) /\ \A b \in Base : w[b] # Head0
<1>1. \A b \in Base, i \in 0 .. 5 : w[b + i] = Blank
  BY BaseFacts
<1>2. \A b \in Base : w[b] = Blank
  BY BaseFacts, StoreFacts DEF Cell
<1>3. ASSUME NEW b \in Base PROVE SlotOK(w, b)
  <2>1. w[b] = Blank /\ w[b + 1] = Blank /\ w[b + 3] = Blank /\ w[b + 4] = Blank /\ w[b + 5] = Blank
    BY <1>1, <1>2
  <2> QED BY <2>1, WordsDiffer DEF SlotOK
<1>4. \A e : OneLife(w, e)
  BY <1>1 DEF OneLife
<1>5. 0 \in 0 .. MaxLife
  BY StoreFacts
<1>6. UsedInOrder(w)
  BY DEF UsedInOrder
<1> QED BY <1>2, <1>3, <1>4, <1>5, <1>6, WordsDiffer DEF Tidy

\* A word of record r is programmed into a slot, and what it leaves there.
WordMeets(w, v, b, k, r) ==
  /\ SlotOK(w, b) /\ CrcOK(w[b + 4]) /\ w[b + 2] \in {Blank, <<"erase", r.erase>>}
  /\ w[b] = Blank => \A i \in 0 .. 5 : w[b + i] = Blank
  /\ \A i \in 0 .. k - 1 : w[b + i] = WordsOf(r)[i + 1]
  /\ \A i \in 0 .. 5 : i # k => v[b + i] = w[b + i]
  /\ v[b + k] \in Programmed(w[b + k], WordsOf(r)[k + 1])
WordLeaves(w, v, b, k, r) ==
  /\ SlotOK(v, b) /\ v[b] = Head0 /\ v[b + 2] \in {Blank, <<"erase", r.erase>>}
  /\ w[b + k] = Blank => v[b + k] = WordsOf(r)[k + 1]
  /\ v[b + k] # WordsOf(r)[k + 1] => k \in {1, 3, 4}
  /\ ValidAt(v, b) =>
       \/ k <= 2 /\ w[b] = Head0 /\ ValidAt(w, b) /\ ReadRec(v, b) = ReadRec(w, b)
       \/ /\ k >= 3 /\ ReadRec(v, b).seq = r.seq
          /\ v[b + k] = WordsOf(r)[k + 1] \/ (k = 3 /\ w[b] = Head0 /\ ValidAt(w, b) /\ ReadRec(w, b).seq = r.seq)

\* Writing one word of record r into a slot, on flash that does not fail.
\* Head, erase count and tail never fail.  A slot whose CRC is older than its
\* sequence number stays invalid; a record that becomes valid is r.
LEMMA SlotWord ==
  ASSUME NEW w, NEW v, NEW b \in Base, NEW k \in 0 .. 5, NEW r \in RamType, WordMeets(w, v, b, k, r)
  PROVE  WordLeaves(w, v, b, k, r)
<1> SUFFICES ASSUME SlotOK(w, b), CrcOK(w[b + 4]), w[b + 2] \in {Blank, <<"erase", r.erase>>},
                    w[b] = Blank => \A i \in 0 .. 5 : w[b + i] = Blank,
                    \A i \in 0 .. k - 1 : w[b + i] = WordsOf(r)[i + 1],
                    \A i \in 0 .. 5 : i # k => v[b + i] = w[b + i],
                    v[b + k] \in Programmed(w[b + k], WordsOf(r)[k + 1])
             PROVE  WordLeaves(w, v, b, k, r)
  BY DEF WordMeets
<1> DEFINE u == WordsOf(r)
           w0 == w[b]
           w1 == w[b + 1]
           w2 == w[b + 2]
           w3 == w[b + 3]
           w4 == w[b + 4]
           w5 == w[b + 5]
           v0 == v[b]
           v1 == v[b + 1]
           v2 == v[b + 2]
           v3 == v[b + 3]
           v4 == v[b + 4]
           v5 == v[b + 5]
<1>0. b \in Nat /\ b + 0 = b /\ r.seq \in 0 .. SeqMax /\ SeqMax \in Nat
  <2>1. b \in Nat
    BY BaseFacts
  <2>2. r.seq \in 0 .. SeqMax
    BY DEF RamType
  <2> QED BY <2>1, <2>2, StoreFacts
<1>u. /\ u[1] = Head0 /\ u[2] = <<"seq", r.seq>> /\ u[3] = <<"erase", r.erase>> /\ u[4] = <<"data", r.data>>
      /\ u[5] = Crc(r) /\ u[6] = Tail0
  BY WordFacts
<1>c. Crc(r) = <<"crc", r.seq, r.erase, r.data>> /\ Crc(r)[1] = "crc" /\ Crc(r)[2] = r.seq /\ Crc(r)[3] = r.erase
  BY DEF Crc
<1>i. 0 \in 0 .. 5 /\ 1 \in 0 .. 5 /\ 2 \in 0 .. 5 /\ 3 \in 0 .. 5 /\ 4 \in 0 .. 5 /\ 5 \in 0 .. 5
  OBVIOUS
<1>s. /\ w0 \in {Blank, Head0} /\ w5 \in {Blank, Tail0}
      /\ w1 = Blank \/ \E n \in 0 .. SeqMax : w1 = <<"seq", n>>
      /\ w3[1] \in {"blank", "junk", "data"} /\ w4[1] \in {"blank", "junk", "crc"}
      /\ w4[1] = "crc" => w1 # Blank /\ w1[2] <= w4[2] /\ w2 = <<"erase", w4[3]>>
  BY DEF SlotOK
<1>b. w0 = Blank => w1 = Blank /\ w2 = Blank /\ w3 = Blank /\ w4 = Blank /\ w5 = Blank
  BY <1>i
<1>w. /\ k >= 1 => w0 = Head0
      /\ k >= 2 => w1 = <<"seq", r.seq>>
      /\ k >= 3 => w2 = <<"erase", r.erase>>
      /\ k >= 4 => w3 = <<"data", r.data>>
      /\ k >= 5 => w4 = Crc(r)
  <2>1. \A i \in 0 .. 5 : i < k => w[b + i] = u[i + 1]
    OBVIOUS
  <2>2. /\ k >= 1 => w[b + 0] = u[0 + 1]
        /\ k >= 2 => w[b + 1] = u[1 + 1]
        /\ k >= 3 => w[b + 2] = u[2 + 1]
        /\ k >= 4 => w[b + 3] = u[3 + 1]
        /\ k >= 5 => w[b + 4] = u[4 + 1]
    BY <1>i, <2>1
  <2> QED BY <1>0, <1>u, <2>2
<1>v. /\ k # 0 => v0 = w0
      /\ k # 1 => v1 = w1
      /\ k # 2 => v2 = w2
      /\ k # 3 => v3 = w3
      /\ k # 4 => v4 = w4
      /\ k # 5 => v5 = w5
  <2>1. k # 0 => v[b + 0] = w[b + 0]
    BY <1>i
  <2> QED BY <1>0, <1>i, <2>1
<1>p. ASSUME NEW old, NEW new, NEW now \in Programmed(old, new)
      PROVE  /\ old = Blank => now = new
             /\ old = new => now = new
             /\ old[1] # "seq" => now \in {old, new, Junk}
  BY <1>p DEF Programmed
<1>1. CASE k = 0
  <2>1. v0 \in Programmed(w0, Head0) /\ v[b + k] = v0 /\ w[b + k] = w0 /\ u[k + 1] = Head0
    BY <1>0, <1>1, <1>u
  <2>2. v0 = Head0
    BY <1>p, <1>s, <2>1
  <2>3. v1 = w1 /\ v2 = w2 /\ v3 = w3 /\ v4 = w4 /\ v5 = w5
    BY <1>1, <1>v
  <2>4. SlotOK(v, b)
    BY <1>s, <2>2, <2>3 DEF SlotOK
  <2>5. ASSUME ValidAt(v, b) PROVE w0 = Head0 /\ ValidAt(w, b) /\ ReadRec(v, b) = ReadRec(w, b)
    <3>1. w5 = Tail0
      BY <2>3, <2>5, ValidFacts
    <3>2. w0 = Head0
      BY <1>b, <1>s, <3>1, WordsDiffer
    <3>3. \A i \in 0 .. 5 : v[b + i] = w[b + i]
      BY <1>0, <1>1, <2>1, <2>2, <3>2
    <3> QED BY <2>5, <3>2, <3>3, SlotLocal
  <2> QED BY <1>1, <2>1, <2>2, <2>3, <2>4, <2>5 DEF WordLeaves
<1>2. CASE k = 1
  <2>1. v1 \in Programmed(w1, <<"seq", r.seq>>) /\ v[b + k] = v1 /\ w[b + k] = w1 /\ u[k + 1] = <<"seq", r.seq>>
    BY <1>0, <1>2, <1>u
  <2>2. w0 = Head0 /\ v0 = w0 /\ v2 = w2 /\ v3 = w3 /\ v4 = w4 /\ v5 = w5
    BY <1>2, <1>v, <1>w
  <2>3. \/ w1 = Blank /\ v1 = <<"seq", r.seq>>
        \/ w1 # Blank /\ \E n \in 0 .. SeqMax, m \in 0 .. SeqMax :
             w1 = <<"seq", n>> /\ v1 = <<"seq", m>> /\ m <= n
    <3>1. CASE w1 = Blank
      BY <1>p, <2>1, <3>1
    <3>2. ASSUME NEW n \in 0 .. SeqMax, w1 = <<"seq", n>>
          PROVE  \E m \in 0 .. SeqMax : v1 = <<"seq", m>> /\ m <= n
      <4>1. CASE w1 = <<"seq", r.seq>>
        <5>1. v1 = <<"seq", n>>
          BY <1>p, <2>1, <3>2, <4>1
        <5> QED BY <1>0, <5>1
      <4>2. CASE w1 # <<"seq", r.seq>>
        <5>1. w1 \notin {Blank, <<"seq", r.seq>>} /\ w1[1] = "seq" /\ w1[2] = n
          BY <3>2, <4>2 DEF Blank
        <5>2. v1 = <<"seq", BitAnd(n, r.seq)>>
          BY <2>1, <5>1 DEF Programmed
        <5>n. n \in Nat /\ r.seq \in Nat
          BY <1>0
        <5>3. BitAnd(n, r.seq) \in 0 .. n
          BY <5>n, AndClears
        <5>4. BitAnd(n, r.seq) \in 0 .. SeqMax /\ BitAnd(n, r.seq) <= n
          BY <1>0, <5>3
        <5> QED BY <5>2, <5>4
      <4> QED BY <4>1, <4>2
    <3>3. \A n \in 0 .. SeqMax : <<"seq", n>> # Blank
      BY DEF Blank
    <3> QED BY <1>s, <3>1, <3>2, <3>3
  <2>4. v1 # Blank /\ \E n \in 0 .. SeqMax : v1 = <<"seq", n>>
    BY <1>0, <2>3 DEF Blank
  <2>5. w4[1] = "crc" => v1[2] <= w4[2]
    <3> SUFFICES ASSUME w4[1] = "crc" PROVE v1[2] <= w4[2]
      OBVIOUS
    <3>1. PICK n \in 0 .. SeqMax, m \in 0 .. SeqMax : w1 = <<"seq", n>> /\ v1 = <<"seq", m>> /\ m <= n
      BY <1>s, <2>3
    <3>2. n <= w4[2] /\ w4[2] \in 0 .. SeqMax
      BY <1>s, <3>1 DEF CrcOK
    <3> QED BY <1>0, <3>1, <3>2
  <2>6. SlotOK(v, b)
    BY <1>s, <2>2, <2>4, <2>5 DEF SlotOK
  <2>7. ASSUME ValidAt(v, b) PROVE ValidAt(w, b) /\ ReadRec(v, b) = ReadRec(w, b)
    <3>1. v4[1] = "crc" /\ v4[2] = v1[2]
      BY <2>7, ValidFacts
    <3>2. PICK n \in 0 .. SeqMax, m \in 0 .. SeqMax : w1 = <<"seq", n>> /\ v1 = <<"seq", m>> /\ m <= n
      BY <1>s, <2>2, <2>3, <3>1
    <3>3. n <= m
      BY <1>s, <2>2, <3>1, <3>2
    <3>4. v1 = w1
      BY <1>0, <3>2, <3>3
    <3>5. \A i \in 0 .. 5 : v[b + i] = w[b + i]
      BY <1>0, <1>2, <3>4
    <3> QED BY <2>7, <3>5, SlotLocal
  <2>8. w1 = Blank => v1 = <<"seq", r.seq>>
    BY <1>p, <2>1
  <2> QED BY <1>2, <2>1, <2>2, <2>6, <2>7, <2>8 DEF WordLeaves
<1>3. CASE k = 2
  <2>1. v2 \in Programmed(w2, <<"erase", r.erase>>) /\ v[b + k] = v2 /\ w[b + k] = w2 /\ u[k + 1] = <<"erase", r.erase>>
    BY <1>0, <1>3, <1>u
  <2>2. v2 = <<"erase", r.erase>>
    BY <1>p, <2>1
  <2>3. w0 = Head0 /\ v0 = w0 /\ v1 = w1 /\ v3 = w3 /\ v4 = w4 /\ v5 = w5
    BY <1>3, <1>v, <1>w
  <2>4. w4[1] = "crc" => v2 = w2
    <3>1. w4[1] = "crc" => w2 # Blank
      BY <1>s DEF Blank
    <3> QED BY <2>2, <3>1
  <2>5. SlotOK(v, b)
    BY <1>s, <2>3, <2>4 DEF SlotOK
  <2>6. ASSUME ValidAt(v, b) PROVE ValidAt(w, b) /\ ReadRec(v, b) = ReadRec(w, b)
    <3>1. v2 = w2
      BY <2>3, <2>4, <2>6, ValidFacts
    <3>2. \A i \in 0 .. 5 : v[b + i] = w[b + i]
      BY <1>0, <1>3, <3>1
    <3> QED BY <2>6, <3>2, SlotLocal
  <2> QED BY <1>3, <2>1, <2>2, <2>3, <2>5, <2>6 DEF WordLeaves
<1>4. CASE k = 3
  <2>1. v3 \in Programmed(w3, <<"data", r.data>>) /\ v[b + k] = v3 /\ w[b + k] = w3 /\ u[k + 1] = <<"data", r.data>>
    BY <1>0, <1>4, <1>u
  <2>2. w0 = Head0 /\ v0 = w0 /\ v1 = w1 /\ v2 = w2 /\ v4 = w4 /\ v5 = w5 /\ w1 = <<"seq", r.seq>>
    BY <1>4, <1>v, <1>w
  <2>3. w3[1] # "seq"
    BY <1>s
  <2>4. v3 \in {w3, <<"data", r.data>>, Junk} /\ (w3 = Blank => v3 = <<"data", r.data>>)
    BY <1>p, <2>1, <2>3
  <2>5. v3[1] \in {"blank", "junk", "data"}
    BY <1>s, <2>4, WordsDiffer
  <2>6. SlotOK(v, b)
    BY <1>s, <2>2, <2>5 DEF SlotOK
  <2>7. ASSUME ValidAt(v, b)
        PROVE  /\ ReadRec(v, b).seq = r.seq
               /\ v3 = <<"data", r.data>> \/ (ValidAt(w, b) /\ ReadRec(w, b).seq = r.seq)
    <3>1. ReadRec(v, b).seq = v1[2] /\ Len(v3) = 2
      BY <2>7, ValidFacts
    <3>2. ReadRec(v, b).seq = r.seq
      BY <2>2, <3>1
    <3>3. CASE v3 = w3
      <4>1. \A i \in 0 .. 5 : v[b + i] = w[b + i]
        BY <1>0, <1>4, <3>3
      <4> QED BY <2>7, <3>2, <4>1, SlotLocal
    <3>4. v3 # Junk
      BY <3>1, WordsDiffer
    <3> QED BY <2>4, <3>2, <3>3, <3>4
  <2> QED BY <1>4, <2>1, <2>2, <2>4, <2>6, <2>7 DEF WordLeaves
<1>5. CASE k = 4
  <2>1. v4 \in Programmed(w4, Crc(r)) /\ v[b + k] = v4 /\ w[b + k] = w4 /\ u[k + 1] = Crc(r)
    BY <1>0, <1>5, <1>u
  <2>2. /\ w0 = Head0 /\ v0 = w0 /\ v1 = w1 /\ v2 = w2 /\ v3 = w3 /\ v5 = w5
        /\ w1 = <<"seq", r.seq>> /\ w2 = <<"erase", r.erase>> /\ w3 = <<"data", r.data>>
    BY <1>5, <1>v, <1>w
  <2>3. w4[1] # "seq"
    BY <1>s
  <2>4. v4 \in {w4, Crc(r), Junk} /\ (w4 = Blank => v4 = Crc(r))
    BY <1>p, <2>1, <2>3
  <2>5. v4[1] \in {"blank", "junk", "crc"}
    BY <1>c, <1>s, <2>4, WordsDiffer
  <2>6. v4[1] = "crc" => v1 # Blank /\ v1[2] <= v4[2] /\ v2 = <<"erase", v4[3]>>
    <3>1. v4 = Crc(r) => v1 # Blank /\ v1[2] <= v4[2] /\ v2 = <<"erase", v4[3]>>
      BY <1>0, <1>c, <2>2 DEF Blank
    <3>2. v4 = w4 /\ v4[1] = "crc" => v1 # Blank /\ v1[2] <= v4[2] /\ v2 = <<"erase", v4[3]>>
      BY <1>s, <2>2
    <3> QED BY <2>4, <3>1, <3>2, WordsDiffer
  <2>7. SlotOK(v, b)
    BY <1>s, <2>2, <2>5, <2>6 DEF SlotOK
  <2>8. ASSUME ValidAt(v, b) PROVE ReadRec(v, b).seq = r.seq /\ v4 = Crc(r)
    <3>1. v4 = <<"crc", v1[2], v2[2], v3[2]>> /\ ReadRec(v, b).seq = v1[2]
      <4>1. /\ v4 = <<"crc", ReadRec(v, b).seq, ReadRec(v, b).erase, ReadRec(v, b).data>>
            /\ ReadRec(v, b).seq = v1[2] /\ ReadRec(v, b).erase = v2[2] /\ ReadRec(v, b).data = v3[2]
        BY <2>8, ValidFacts
      <4> HIDE DEF v1, v2, v3, v4
      <4> QED BY <4>1
    <3>2. v1[2] = r.seq /\ v2[2] = r.erase /\ v3[2] = r.data
      BY <2>2
    <3> HIDE DEF v1, v2, v3, v4
    <3> QED BY <1>c, <3>1, <3>2
  <2> QED BY <1>5, <2>1, <2>2, <2>4, <2>7, <2>8 DEF WordLeaves
<1>6. CASE k = 5
  <2>1. v5 \in Programmed(w5, Tail0) /\ v[b + k] = v5 /\ w[b + k] = w5 /\ u[k + 1] = Tail0
    BY <1>0, <1>6, <1>u
  <2>2. v5 = Tail0
    BY <1>p, <1>s, <2>1
  <2>3. w0 = Head0 /\ v0 = w0 /\ v1 = w1 /\ v2 = w2 /\ v3 = w3 /\ v4 = w4 /\ w1 = <<"seq", r.seq>>
    BY <1>6, <1>v, <1>w
  <2>4. SlotOK(v, b)
    BY <1>s, <2>2, <2>3 DEF SlotOK
  <2>5. ASSUME ValidAt(v, b) PROVE ReadRec(v, b).seq = r.seq
    <3>1. ReadRec(v, b).seq = v1[2]
      BY <2>5, ValidFacts
    <3> QED BY <2>3, <3>1
  <2> QED BY <1>6, <2>1, <2>2, <2>3, <2>4, <2>5 DEF WordLeaves
<1> QED BY <1>1, <1>2, <1>3, <1>4, <1>5, <1>6

-----------------------------------------------------------------------------
(* Records *)

\* What the scan finds on flash that does not fail.
LEMMA FoundIsRecords ==
  ASSUME FlashOK, Sound
  PROVE  Found = Records
<1> DEFINE In(s) == {b \in Base : flash[s][b] = Head0 /\ ValidAt(flash[s], b)}
<1>1. ASSUME NEW s \in Sector PROVE FoundIn(flash[s]) = In(s)
  <2>1. CASE Tidy(flash[s])
    <3>1. UsedInOrder(flash[s]) /\ \A b \in Base : flash[s][b] \in {Blank, Head0}
      BY <2>1 DEF Tidy, SlotOK
    <3> QED BY <3>1, ScanComplete
  <2>2. CASE Junked(flash[s])
    <3>1. \A a \in At : a \in Cell
      BY StoreFacts DEF At, Cell
    <3>2. \A a \in At : flash[s][a] # Head0
      BY <2>2, <3>1, WordsDiffer DEF Junked
    <3>3. FoundIn(flash[s]) = {}
      <4>1. \A a \in FoundIn(flash[s]) : a \in At /\ flash[s][a] = Head0
        BY ScanSound
      <4> QED BY <3>2, <4>1
    <3>4. In(s) = {}
      BY <3>2, BaseFacts
    <3> QED BY <3>3, <3>4
  <2> QED BY <2>1, <2>2 DEF Sound
<1> HIDE DEF In
<1>2. ASSUME NEW p PROVE p \in Found <=> \E s \in Sector : \E b \in In(s) : p = [sec |-> s, addr |-> b]
  BY <1>1 DEF Found
<1>3. ASSUME NEW p PROVE p \in Records <=> \E s \in Sector : \E b \in In(s) : p = [sec |-> s, addr |-> b]
  <2>1. ASSUME p \in Records PROVE \E s \in Sector : \E b \in In(s) : p = [sec |-> s, addr |-> b]
    <3>1. p.sec \in Sector /\ p.addr \in In(p.sec) /\ p = [sec |-> p.sec, addr |-> p.addr]
      BY <2>1 DEF Records, In
    <3> QED BY <3>1
  <2>2. ASSUME NEW s \in Sector, NEW b \in In(s), p = [sec |-> s, addr |-> b] PROVE p \in Records
    BY <2>2 DEF Records, In
  <2> QED BY <2>1, <2>2
<1> QED BY <1>2, <1>3

\* A record stands in a slot and is one that was meant.
LEMMA RecordFacts ==
  ASSUME FlashOK, NEW p \in Records
  PROVE  /\ p \in [sec : Sector, addr : Base] /\ p.sec \in Sector /\ p.addr \in Base /\ p.addr \in Nat
         /\ flash[p.sec][p.addr] = Head0 /\ ValidAt(flash[p.sec], p.addr)
         /\ RecAt(p) \in RamType /\ RecAt(p).seq \in Nat
<1>1. /\ p \in [sec : Sector, addr : Base] /\ p.sec \in Sector /\ p.addr \in Base
      /\ flash[p.sec][p.addr] = Head0 /\ ValidAt(flash[p.sec], p.addr)
  BY DEF Records
<1>2. p.addr \in At /\ p.addr \in Nat
  BY <1>1, BaseFacts
<1>3. RecAt(p) \in RamType
  BY <1>1, <1>2, ValidIsTyped DEF RecAt
<1>4. RecAt(p).seq \in Nat
  BY <1>3, StoreFacts DEF RamType
<1> QED BY <1>1, <1>2, <1>3, <1>4

\* A record stands as long as the words of its slot do.
LEMMA RecordStands ==
  ASSUME NEW p \in [sec : Sector, addr : Base],
         \A i \in 0 .. 5 : flash'[p.sec][p.addr + i] = flash[p.sec][p.addr + i]
  PROVE  (p \in Records' <=> p \in Records) /\ RecAt(p)' = RecAt(p)
<1>1. p.sec \in Sector /\ p.addr \in Base
  OBVIOUS
<1> DEFINE w == flash[p.sec]
           v == flash'[p.sec]
           b == p.addr
<1>2. v[b] = w[b] /\ (ValidAt(v, b) <=> ValidAt(w, b)) /\ ReadRec(v, b) = ReadRec(w, b)
  <2> HIDE DEF w, v, b
  <2>1. b \in Base /\ \A i \in 0 .. 5 : v[b + i] = w[b + i]
    BY <1>1 DEF w, v, b
  <2> QED BY <2>1, SlotLocal, ZenonT(60)
<1>3. p \in Records <=> w[b] = Head0 /\ ValidAt(w, b)
  BY DEF Records
<1>4. p \in Records' <=> v[b] = Head0 /\ ValidAt(v, b)
  BY DEF Records
<1>5. RecAt(p) = ReadRec(w, b) /\ RecAt(p)' = ReadRec(v, b)
  BY DEF RecAt
<1> QED BY <1>2, <1>3, <1>4, <1>5

\* Erasing a sector, or tearing the erasure, takes its records and adds none.
LEMMA WipeRecords ==
  ASSUME FlashOK, Sound, NEW t \in Sector, NEW e, DOMAIN e = Cell,
         Tidy(e) \/ Junked(e), \A b \in Base : e[b] # Head0,
         flash' = [flash EXCEPT ![t] = e]
  PROVE  /\ Sound' /\ flash'[t] = e
         /\ \A p \in Records' : p \in Records /\ RecAt(p)' = RecAt(p)
<1>1. DOMAIN flash = Sector /\ \A s \in Sector : DOMAIN flash[s] = Cell
  BY DEF FlashOK
<1>2. flash'[t] = e /\ \A s \in Sector : s # t => flash'[s] = flash[s]
  BY <1>1, PutSector
<1>3. Sound'
  <2>1. ASSUME NEW s \in Sector PROVE Junked(flash'[s]) \/ Tidy(flash'[s])
    BY <1>2 DEF Sound
  <2> QED BY <2>1 DEF Sound
<1>4. ASSUME NEW p \in Records' PROVE p \in Records /\ RecAt(p)' = RecAt(p)
  <2>1. p \in [sec : Sector, addr : Base] /\ flash'[p.sec][p.addr] = Head0
    BY DEF Records
  <2>2. p.sec \in Sector /\ p.addr \in Base /\ p.sec # t
    BY <1>2, <2>1
  <2>3. \A i \in 0 .. 5 : flash'[p.sec][p.addr + i] = flash[p.sec][p.addr + i]
    BY <1>2, <2>2
  <2> QED BY <2>1, <2>3, RecordStands
<1> QED BY <1>2, <1>3, <1>4

-----------------------------------------------------------------------------
(* Flash that does not fail: the actions *)

\* Param_Init: the sector of the best record is in use, or the first one.
LEMMA SoundLoad ==
  ASSUME StoreTypes, SoundFlash, Param_Init, faults' = faults
  PROVE  SoundFlash'
<1>0. FlashOK /\ Sound /\ faults \in Nat /\ fresh'
  BY DEF StoreTypes, SoundFlash, Param_Init
<1>f. Found = Records
  BY <1>0, FoundIsRecords
<1>s. SavedKnown'
  BY <1>0 DEF SavedKnown
<1>1. CASE Found # {} /\ rt' = Best /\ ram' = RecAt(Best) /\ job' = Idle /\ UNCHANGED <<flash, faults>>
  <2>1. Best \in Records /\ \A q \in Records : RecAt(q).seq <= RecAt(Best).seq
    BY <1>0, <1>1, <1>f, BestIsBest
  <2> DEFINE t == Best.sec
             b == Best.addr
             w == flash[t]
             r == RecAt(Best)
  <2>2. t \in Sector /\ b \in Base /\ b \in Nat /\ w[b] = Head0 /\ ValidAt(w, b) /\ r = ReadRec(w, b)
    BY <1>0, <2>1, RecordFacts DEF RecAt
  <2>3. Tidy(w)
    <3>1. b \in Cell
      BY <2>2, BaseFacts, StoreFacts DEF Cell
    <3>2. ~ Junked(w)
      BY <2>2, <3>1, WordsDiffer DEF Junked
    <3> QED BY <1>0, <2>2, <3>2 DEF Sound
  <2>4. OneLife(w, r.erase)
    <3> HIDE DEF w, b, r
    <3>1. PICK e \in 0 .. MaxLife : OneLife(w, e)
      BY <2>3 DEF Tidy
    <3>2. w[b + 4][1] = "crc" /\ w[b + 4][3] = r.erase
      BY <2>2, ValidFacts
    <3>3. w[b + 2] = <<"erase", r.erase>>
      BY <2>2, <2>3, <3>2 DEF Tidy, SlotOK
    <3>4. w[b + 2] \in {Blank, <<"erase", e>>}
      BY <2>2, <3>1 DEF OneLife
    <3>5. e = r.erase
      BY <3>3, <3>4 DEF Blank
    <3> QED BY <3>1, <3>5
  <2>5. ASSUME NEW c \in Base, c < b PROVE w[c] = Head0
    <3> HIDE DEF w, b
    <3>1. w[c] \in {Blank, Head0}
      BY <2>3 DEF Tidy, SlotOK
    <3>2. b \in Cell /\ b >= c
      BY <2>2, <2>5, BaseFacts, StoreFacts DEF Cell
    <3>3. w[c] # Blank
      BY <2>2, <2>3, <2>5, <3>2, WordsDiffer DEF Tidy, UsedInOrder
    <3> QED BY <3>1, <3>3
  <2>6. rt'.sec = t /\ rt'.addr = b /\ ram' = r /\ flash' = flash /\ job'.do = "idle" /\ job' # Off
    BY <1>1 DEF Idle, Off
  <2>7. InUse'
    BY <2>2, <2>3, <2>4, <2>5, <2>6 DEF InUse
  <2>8. \A p \in [sec : Sector, addr : Base] : (p \in Records' <=> p \in Records) /\ RecAt(p)' = RecAt(p)
    BY <2>6 DEF Records, RecAt
  <2>9. SeqKnown'
    <3>1. \A p \in Records' : p \in [sec : Sector, addr : Base]
      BY DEF Records
    <3>2. \A p \in Records' : RecAt(p)'.seq <= ram'.seq
      BY <2>1, <2>6, <2>8, <3>1
    <3> QED BY <2>6, <3>2 DEF SeqKnown
  <2>10. Sound'
    BY <1>0, <2>6 DEF Sound
  <2> QED BY <1>s, <2>7, <2>9, <2>10 DEF SoundFlash
<1>2. CASE /\ Found = {} /\ ram' = [seq |-> DefaultSeq, erase |-> 1, data |-> Default]
           /\ rt' = [sec |-> SecStart, addr |-> 0] /\ Internal_Erase(SecStart) /\ job' = Attempt(0)
  <2>1. flash' = [flash EXCEPT ![SecStart] = Erased]
    BY <1>0, <1>2 DEF Internal_Erase, Failure
  <2>2. Tidy(Erased) /\ (\A e : OneLife(Erased, e)) /\ \A b \in Base : Erased[b] # Head0
    BY ErasedFacts, ErasedIsTidy
  <2>3. Sound' /\ flash'[SecStart] = Erased /\ \A p \in Records' : p \in Records
    BY <1>0, <2>1, <2>2, ErasedFacts, StoreFacts, WipeRecords
  <2>4. Records' = {}
    BY <1>2, <1>f, <2>3
  <2>5. rt'.sec = SecStart /\ rt'.addr = 0 /\ job'.do = "attempt"
    BY <1>2 DEF Attempt
  <2>6. InUse'
    <3>1. \A b \in Base : ~ (b < 0)
      BY BaseFacts
    <3> QED BY <2>2, <2>3, <2>5, <3>1, BaseFacts DEF InUse
  <2>7. SeqKnown'
    BY <2>4, <2>5 DEF SeqKnown
  <2> QED BY <1>s, <2>3, <2>6, <2>7 DEF SoundFlash
<1> QED BY <1>1, <1>2 DEF Param_Init

\* Dev_Param_RodSave: a new position in RAM, nothing on the flash.
LEMMA SoundSave ==
  ASSUME StoreTypes, SoundFlash, NEW d \in Data, Dev_Param_RodSave(d)
  PROVE  SoundFlash'
<1>1. /\ job = Idle /\ ram' = [ram EXCEPT !.data = d] /\ job' = Attempt(0)
      /\ UNCHANGED <<flash, rt, saved, fresh>>
  BY DEF Dev_Param_RodSave
<1>2. job.do = "idle" /\ job # Off /\ job'.do = "attempt" /\ ram \in RamType
  BY <1>1 DEF Idle, Off, Attempt, StoreTypes
<1>3. ram'.seq = ram.seq /\ ram'.erase = ram.erase
  BY <1>1, <1>2 DEF RamType
<1>4. Sound /\ InUse /\ SeqKnown /\ SavedKnown
  BY <1>2 DEF SoundFlash
<1>5. Sound' /\ Records' = Records /\ \A p : RecAt(p)' = RecAt(p)
  BY <1>1, <1>4 DEF Sound, Records, RecAt
<1>6. InUse'
  BY <1>1, <1>2, <1>3, <1>4 DEF InUse
<1>7. SeqKnown'
  BY <1>2, <1>3, <1>4, <1>5 DEF SeqKnown
<1>8. SavedKnown'
  <2>1. ASSUME NEW p \in Records, Kept(p) PROVE Kept(p)'
    <3>1. p.sec = rt'.sec /\ RecAt(p)'.data = saved' /\ p.addr < rt'.addr
      BY <1>1, <1>5, <2>1 DEF Kept
    <3>2. \A q \in Records' : q = p \/ RecAt(q)'.seq < RecAt(p)'.seq
      BY <1>2, <1>5, <2>1 DEF Kept
    <3> QED BY <1>2, <3>1, <3>2 DEF Kept
  <2> QED BY <1>1, <1>2, <1>4, <1>5, <2>1 DEF SavedKnown
<1> QED BY <1>5, <1>6, <1>7, <1>8 DEF SoundFlash

\* Param_Save, up to the first word: the next number is above all others, and
\* an erasure that takes the last record leaves a sector no word can fail in.
LEMMA SoundPrepare ==
  ASSUME StoreTypes, SoundFlash, Param_Save_Prepare, faults' = faults
  PROVE  SoundFlash'
<1>0. /\ FlashOK /\ JobOK /\ ram \in RamType /\ rt \in [sec : Sector, addr : 0 .. Words] /\ faults \in Nat
      /\ rt.sec \in Sector /\ rt.addr \in 0 .. Words
  BY DEF StoreTypes
<1>1. job.do = "attempt" /\ saved' = saved /\ fresh' = fresh
  BY DEF Param_Save_Prepare
<1>2. job # Off /\ ram.seq <= MaxSeq + job.retry /\ job.retry \in 0 .. MaxRetry - 1
  BY <1>0, <1>1, JobFacts
<1>3. ram.seq < SeqMax /\ ram.seq \in Nat /\ ram.erase \in 0 .. MaxLife
  BY <1>0, <1>2, StoreFacts DEF RamType
<1>4. Sound /\ InUse /\ SeqKnown /\ SavedKnown
  BY <1>2 DEF SoundFlash
<1>r. \A p \in Records : RecAt(p).seq \in Nat /\ p.addr \in Nat
  BY <1>0, RecordFacts
<1>w. ASSUME NEW at, job' = Write(job.retry, at, 0) PROVE job'.do = "write" /\ job'.at = at /\ job'.k = 0 /\ job' # Off
  BY <1>w DEF Write, Off
<1>q. ASSUME NEW e \in 0 .. MaxLife, ram' = Bump(ram, e), job'.do = "write",
             \A p \in Records' : p \in Records /\ RecAt(p)' = RecAt(p)
      PROVE  SeqKnown' /\ ram'.erase = e
  <2>1. ram'.seq = ram.seq + 1 /\ ram'.erase = e
    BY <1>0, <1>3, <1>q, BumpFacts
  <2>2. ASSUME NEW p \in Records' PROVE RecAt(p)'.seq < ram'.seq /\ RecAt(p)'.seq \in Nat
    <3>1. RecAt(p).seq <= ram.seq /\ RecAt(p)' = RecAt(p) /\ RecAt(p).seq \in Nat
      BY <1>4, <1>q, <1>r DEF SeqKnown
    <3> QED BY <1>3, <2>1, <3>1
  <2>3. \A p \in Records' : RecAt(p)'.seq <= ram'.seq /\ RecAt(p)'.seq # ram'.seq
    BY <1>3, <2>1, <2>2
  <2> QED BY <1>q, <2>1, <2>3 DEF SeqKnown
<1>e. ASSUME NEW t \in Sector, flash' = [flash EXCEPT ![t] = Erased], NEW e \in 0 .. MaxLife, ram' = Bump(ram, e),
             job' = Write(job.retry, 0, 0), rt'.sec = t, rt'.addr = rt.addr, wiped'
      PROVE  SoundFlash'
  <2>1. Tidy(Erased) /\ (\A x : OneLife(Erased, x)) /\ \A b \in Base : Erased[b] # Head0
    BY ErasedFacts, ErasedIsTidy
  <2>2. Sound' /\ flash'[t] = Erased /\ \A p \in Records' : p \in Records /\ RecAt(p)' = RecAt(p)
    BY <1>0, <1>4, <1>e, <2>1, ErasedFacts, WipeRecords, ZenonT(60)
  <2>3. job'.do = "write" /\ job'.at = 0 /\ job'.k = 0
    BY <1>e, <1>w
  <2>4. SeqKnown'
    BY <1>e, <1>q, <2>2, <2>3
  <2>5. InUse'
    <3>1. \A b \in Base : ~ (b < 0)
      BY BaseFacts
    <3>2. rt'.addr \in Base \cup {Words}
      BY <1>4, <1>e DEF InUse
    <3> QED BY <1>e, <2>1, <2>2, <2>3, <3>1, <3>2, BaseFacts DEF InUse
  <2>6. SavedKnown'
    BY <1>e, <2>2, <2>3, ErasedFacts DEF SavedKnown
  <2> QED BY <2>2, <2>4, <2>5, <2>6 DEF SoundFlash
<1>5. CASE /\ ~ Full /\ ram' = Bump(ram, ram.erase) /\ job' = Write(job.retry, rt.addr, 0)
           /\ UNCHANGED <<flash, rt, wiped, faults>>
  <2>1. rt.addr \in Base
    <3>1. rt.addr # Words
      BY <1>5, StoreFacts DEF Full
    <3> QED BY <1>4, <3>1 DEF InUse
  <2>2. job'.do = "write" /\ job'.at = rt.addr /\ job'.k = 0
    BY <1>5, <1>w
  <2>3. Sound' /\ Records' = Records /\ \A p : RecAt(p)' = RecAt(p)
    BY <1>4, <1>5 DEF Sound, Records, RecAt
  <2>4. SeqKnown' /\ ram'.erase = ram.erase
    BY <1>3, <1>5, <1>q, <2>2, <2>3
  <2>5. InUse'
    BY <1>1, <1>4, <1>5, <2>1, <2>2, <2>4 DEF InUse
  <2>6. SavedKnown'
    <3>1. ASSUME NEW p \in Records, Kept(p) PROVE Kept(p)'
      <4>1. p.sec = rt'.sec /\ RecAt(p)'.data = saved' /\ p.addr < rt'.addr /\ p.addr < job'.at
        BY <1>1, <1>5, <2>2, <2>3, <3>1 DEF Kept
      <4>2. \A q \in Records' : q = p \/ RecAt(q)'.seq < RecAt(p)'.seq
        BY <1>1, <2>3, <3>1 DEF Kept
      <4> QED BY <4>1, <4>2 DEF Kept
    <3> QED BY <1>1, <1>4, <2>3, <3>1 DEF SavedKnown
  <2> QED BY <2>3, <2>4, <2>5, <2>6 DEF SoundFlash
<1>6. CASE /\ Full /\ ~ Worn /\ flash' = [flash EXCEPT ![rt.sec] = Erased] /\ ram' = Bump(ram, ram.erase + 1)
           /\ job' = Write(job.retry, 0, 0) /\ wiped' = TRUE /\ UNCHANGED <<rt, faults>>
  <2>1. ram.erase + 1 \in 0 .. MaxLife
    BY <1>3, <1>6, StoreFacts DEF Worn
  <2> QED BY <1>0, <1>6, <1>e, <2>1
<1>7. CASE Failure
  BY <1>0, <1>7 DEF Failure
<1>8. CASE /\ Full /\ Worn /\ Internal_Erase(NextSector) /\ rt' = [rt EXCEPT !.sec = NextSector]
           /\ ram' = Bump(ram, 1) /\ job' = Write(job.retry, 0, 0) /\ wiped' = TRUE
  <2>1. 1 \in 0 .. MaxLife /\ NextSector \in Sector
    BY <1>0, NextIsSector, StoreFacts
  <2>2. flash' = [flash EXCEPT ![NextSector] = Erased]
    BY <1>0, <1>8 DEF Internal_Erase, Failure
  <2>3. rt'.sec = NextSector /\ rt'.addr = rt.addr
    BY <1>0, <1>8
  <2> QED BY <1>8, <1>e, <2>1, <2>2, <2>3
<1> QED BY <1>5, <1>6, <1>7, <1>8 DEF Param_Save_Prepare

\* The record that was written last stands complete.
LEMMA DoneIsRecord ==
  ASSUME StoreTypes, Written, job.do = "done", job.at \in Base
  PROVE  Here \in Records /\ RecAt(Here) = ram
<1>0. rt.sec \in Sector /\ ram \in RamType
  BY DEF StoreTypes
<1>1. SuccessIsOnFlash
  BY WrittenSucceeds
<1>2. Here \in [sec : Sector, addr : Base] /\ Here.sec = rt.sec /\ Here.addr = job.at
  BY <1>0 DEF Here
<1>3. flash[rt.sec][job.at] = Head0
  <2>0. job.at \in Nat
    BY BaseFacts
  <2>1. 0 \in 0 .. RecWords - 1 /\ job.at + 0 = job.at
    BY <2>0, StoreFacts
  <2>2. flash[rt.sec][job.at + 0] = WordsOf(ram)[0 + 1]
    BY <2>1 DEF Written
  <2> QED BY <2>1, <2>2, WordFacts
<1>4. ValidAt(flash[rt.sec], job.at) /\ ReadRec(flash[rt.sec], job.at) = ram
  BY <1>1 DEF SuccessIsOnFlash
<1> QED BY <1>2, <1>3, <1>4 DEF Records, RecAt

\* Param_Save, the end: the record just written is the one to keep.
LEMMA SoundDone ==
  ASSUME StoreTypes, Written, SoundFlash, Param_Save_Done
  PROVE  SoundFlash'
<1>0. FlashOK /\ JobOK /\ ram \in RamType /\ rt \in [sec : Sector, addr : 0 .. Words] /\ rt.sec \in Sector
  BY DEF StoreTypes
<1>1. /\ job.do = "done" /\ rt' = [rt EXCEPT !.addr = job.at + RecWords] /\ job' = Idle /\ saved' = ram.data
      /\ UNCHANGED <<flash, ram>>
  BY DEF Param_Save_Done, AfterSave
<1>2. job # Off /\ job'.do = "idle"
  BY <1>0, <1>1, JobFacts DEF Idle
<1>3. Sound /\ InUse /\ SeqKnown
  BY <1>2 DEF SoundFlash
<1> DEFINE b == job.at
           w == flash[rt.sec]
<1>4. b \in Base /\ b \in Nat /\ b + RecWords \in Base \cup {Words} /\ b < b + RecWords
  BY <1>1, <1>3, BaseFacts, StoreFacts DEF InUse
<1>5. Here \in Records /\ RecAt(Here) = ram
  BY <1>1, <1>4, DoneIsRecord
<1>6. Here.sec = rt.sec /\ Here.addr = b /\ w[b] = Head0
  BY <1>5 DEF Here, Records
<1>7. rt'.sec = rt.sec /\ rt'.addr = b + RecWords
  BY <1>0, <1>1
<1>8. Sound' /\ Records' = Records /\ \A p : RecAt(p)' = RecAt(p)
  BY <1>1, <1>3 DEF Sound, Records, RecAt
<1>9. InUse'
  <2>1. ASSUME NEW c \in Base, c < b + RecWords PROVE w[c] = Head0
    <3>1. c \in Nat /\ c <= b /\ b \in Cell
      <4>1. c \in Nat /\ (b < c => b + RecWords <= c) /\ RecWords \in Nat
        BY <1>4, BaseFacts, StoreFacts
      <4>2. c <= b
        BY <1>4, <2>1, <4>1
      <4> QED BY <1>4, <4>1, <4>2, BaseFacts, StoreFacts DEF Cell
    <3>2. Tidy(w)
      BY <1>3 DEF InUse
    <3>3. w[c] \in {Blank, Head0} /\ (w[c] = Blank => w[b] = Blank)
      <4> HIDE DEF w, b
      <4> QED BY <1>4, <3>1, <3>2 DEF Tidy, SlotOK, UsedInOrder
    <3> QED BY <1>6, <3>3, WordsDiffer
  <2>2. Tidy(w) /\ OneLife(w, ram.erase)
    BY <1>3 DEF InUse
  <2> QED BY <1>1, <1>2, <1>4, <1>7, <2>1, <2>2 DEF InUse
<1>10. SeqKnown'
  BY <1>1, <1>2, <1>3, <1>8 DEF SeqKnown
<1>11. SavedKnown'
  <2> DEFINE h == Here
  <2>1. \A q \in Records : q = h \/ RecAt(q).seq < ram.seq
    <3>1. ASSUME NEW q \in Records, q # h PROVE RecAt(q).seq < ram.seq
      <4>1. RecAt(q).seq <= ram.seq /\ RecAt(q).seq # ram.seq /\ RecAt(q).seq \in Nat /\ ram.seq \in Nat
        BY <1>0, <1>1, <1>3, <3>1, RecordFacts, StoreFacts DEF SeqKnown, RamType
      <4> QED BY <4>1
    <3> QED BY <3>1
  <2>2. h \in Records /\ RecAt(h) = ram /\ h.sec = rt.sec /\ h.addr = b
    BY <1>5, <1>6
  <2> HIDE DEF h
  <2>3. PICK p \in Records : p = h
    BY <2>2
  <2>4. p.sec = rt'.sec /\ RecAt(p)'.data = saved' /\ p.addr < rt'.addr
    BY <1>1, <1>4, <1>7, <1>8, <2>2, <2>3
  <2>5. \A q \in Records' : q = p \/ RecAt(q)'.seq < RecAt(p)'.seq
    BY <1>8, <2>1, <2>2, <2>3
  <2>6. Kept(p)'
    BY <1>2, <2>4, <2>5 DEF Kept
  <2> QED BY <1>8, <2>6 DEF SavedKnown
<1> QED BY <1>8, <1>9, <1>10, <1>11 DEF SoundFlash

\* Power lost: a sector is torn, or nothing happens to the flash.
LEMMA SoundLoss ==
  ASSUME StoreTypes, SoundFlash, PowerLoss
  PROVE  SoundFlash'
<1>0. FlashOK /\ rt.sec \in Sector /\ Sound /\ job' = Off
  BY DEF StoreTypes, SoundFlash, PowerLoss
<1>1. CASE UNCHANGED flash
  BY <1>0, <1>1 DEF SoundFlash, Sound
<1> DEFINE s == IF Worn THEN NextSector ELSE rt.sec
           e == [a \in 0 .. Words - 1 |-> Junk]
<1>2. CASE flash' = [flash EXCEPT ![s] = e]
  <2>1. s \in Sector
    BY <1>0, NextIsSector
  <2>2. DOMAIN e = Cell /\ Junked(e)
    BY DEF Cell, Junked
  <2>3. \A b \in Base : e[b] # Head0
    <3>1. \A b \in Base : b \in Cell
      BY BaseFacts, StoreFacts DEF Cell
    <3> HIDE DEF e
    <3> QED BY <2>2, <3>1, WordsDiffer DEF Junked
  <2> HIDE DEF s, e
  <2>4. Sound'
    BY <1>0, <1>2, <2>1, <2>2, <2>3, WipeRecords
  <2> QED BY <1>0, <2>4 DEF SoundFlash
<1> QED BY <1>1, <1>2 DEF PowerLoss

\* Param_Save, one word: the sector stays tidy.
LEMMA SoundWord ==
  ASSUME StoreTypes, Written, SoundFlash, Param_Save_Word, faults' = faults
  PROVE  SoundFlash'
<1> DEFINE t == rt.sec
           b == job.at
           k == job.k
           a == b + k
           w == flash[t]
           v == flash'[t]
           u == WordsOf(ram)[k + 1]
<1>0. /\ FlashOK /\ JobOK /\ ram \in RamType /\ rt \in [sec : Sector, addr : 0 .. Words] /\ faults \in Nat
  BY DEF StoreTypes
<1>1. /\ job.do = "write" /\ job.retry \in 0 .. MaxRetry - 1 /\ k \in 0 .. 5
      /\ t \in Sector /\ a \in Cell /\ ram' = ram /\ saved' = saved /\ fresh' = fresh /\ wiped' = wiped
      /\ v[a] \in Programmed(w[a], u)
      /\ FlashOK' /\ \A s \in Sector, c \in Cell : s # t \/ c # a => flash'[s][c] = flash[s][c]
      /\ \A s \in Sector : s # t => flash'[s] = flash[s]
  BY WordCases
<1>2. \/ /\ v[a] = u /\ rt' = rt
         /\ job' = IF k < 5 THEN Write(job.retry, b, k + 1) ELSE Done(b)
      \/ v[a] # u /\ rt' = [rt EXCEPT !.addr = b + RecWords] /\ Fail(job.retry)
  BY WordCases
<1>3. job # Off /\ Sound /\ InUse /\ SeqKnown /\ SavedKnown
  <2>1. job # Off
    BY <1>0, <1>1, JobFacts
  <2> QED BY <2>1 DEF SoundFlash
<1>4. /\ b \in Base /\ b \in Nat /\ b + RecWords \in Base \cup {Words} /\ Tidy(w) /\ OneLife(w, ram.erase)
      /\ \A c \in Base : c < b => w[c] = Head0
  BY <1>1, <1>3, BaseFacts DEF InUse
<1>5. /\ SlotOK(v, b) /\ v[b] = Head0 /\ v[b + 2] \in {Blank, <<"erase", ram.erase>>}
      /\ w[b + k] = Blank => v[b + k] = WordsOf(ram)[k + 1]
      /\ ValidAt(v, b) =>
           \/ k <= 2 /\ w[b] = Head0 /\ ValidAt(w, b) /\ ReadRec(v, b) = ReadRec(w, b)
           \/ /\ k >= 3 /\ ReadRec(v, b).seq = ram.seq
              /\ v[b + k] = u \/ (k = 3 /\ w[b] = Head0 /\ ValidAt(w, b) /\ ReadRec(w, b).seq = ram.seq)
  <2>1. SlotOK(w, b) /\ w[b + 2] \in {Blank, <<"erase", ram.erase>>}
    BY <1>4 DEF Tidy, OneLife
  <2>2. CrcOK(w[b + 4])
    <3>1. b + 4 \in Cell
      BY <1>4, BaseFacts
    <3> QED BY <1>0, <1>1, <3>1 DEF FlashOK
  <2>3. w[b] = Blank => \A i \in 0 .. 5 : w[b + i] = Blank
    <3>1. \A i \in 0 .. 5 : b + i \in Cell /\ b + i >= b
      BY <1>4, BaseFacts
    <3>2. UsedInOrder(w)
      BY <1>4 DEF Tidy
    <3> QED BY <1>4, <3>1, <3>2 DEF UsedInOrder
  <2>4. \A i \in 0 .. k - 1 : w[b + i] = WordsOf(ram)[i + 1]
    BY <1>1 DEF Written
  <2>5. \A i \in 0 .. 5 : i # k => v[b + i] = w[b + i]
    <3>1. \A i \in 0 .. 5 : b + i \in Cell /\ (i # k => b + i # a)
      BY <1>1, <1>4, BaseFacts
    <3> HIDE DEF a
    <3> QED BY <1>1, <3>1
  <2>6. v[b + k] \in Programmed(w[b + k], WordsOf(ram)[k + 1])
    BY <1>1
  <2> HIDE DEF w, v, b, k, a
  <2>7. k \in 0 .. 5
    BY <1>1
  <2>8. b \in Base /\ ram \in RamType
    BY <1>0, <1>4
  <2>9. WordMeets(w, v, b, k, ram)
    BY <2>1, <2>2, <2>3, <2>4, <2>5, <2>6 DEF WordMeets
  <2>10. WordLeaves(w, v, b, k, ram)
    BY <2>7, <2>8, <2>9, SlotWord
  <2> QED BY <2>10 DEF WordLeaves, u
<1>6. ASSUME NEW c \in Base, c # b PROVE \A i \in 0 .. 5 : v[c + i] = w[c + i]
  <2>1. ASSUME NEW i \in 0 .. 5 PROVE v[c + i] = w[c + i]
    <3>1. c + i \in Cell /\ c + i # b + k
      BY <1>1, <1>4, <1>6, BaseFacts, SlotsApart, ZenonT(60)
    <3> HIDE DEF b, k
    <3> QED BY <1>1, <3>1
  <2> QED BY <2>1
<1>7. OneLife(v, ram.erase)
  <2>1. ASSUME NEW c \in Base PROVE v[c + 2] \in {Blank, <<"erase", ram.erase>>}
    <3>1. CASE c = b
      BY <1>5, <3>1
    <3>2. CASE c # b
      <4>1. v[c + 2] = w[c + 2]
        BY <1>6, <3>2
      <4> QED BY <1>4, <4>1 DEF OneLife
    <3> QED BY <3>1, <3>2
  <2> QED BY <2>1 DEF OneLife
<1>8. \A c \in Base : SlotOK(v, c) /\ (c # b => v[c] = w[c])
  <2>1. ASSUME NEW c \in Base, c # b PROVE SlotOK(v, c) /\ v[c] = w[c]
    <3>1. SlotOK(w, c)
      BY <1>4 DEF Tidy
    <3>2. \A i \in 0 .. 5 : v[c + i] = w[c + i]
      BY <1>6, <2>1
    <3> HIDE DEF v, w
    <3> QED BY <3>1, <3>2, SlotLocal
  <2> QED BY <1>5, <2>1
<1>9. UsedInOrder(v)
  <2> SUFFICES ASSUME NEW c \in Base, v[c] = Blank, NEW x \in Cell, x >= c PROVE v[x] = Blank
    BY DEF UsedInOrder
  <2>1. c # b /\ w[c] = Blank
    BY <1>5, <1>8, WordsDiffer
  <2>2. ~ (c < b)
    BY <1>4, <2>1, WordsDiffer
  <2>3. b + RecWords <= c /\ c \in Nat
    BY <1>4, <2>1, <2>2, BaseFacts
  <2>4. x # a
    BY <1>1, <1>4, <2>3, StoreFacts DEF Cell
  <2>5. w[x] = Blank
    BY <1>4, <2>1 DEF Tidy, UsedInOrder
  <2> HIDE DEF a
  <2> QED BY <1>1, <2>4, <2>5
<1>10. Tidy(v)
  <2>1. ram.erase \in 0 .. MaxLife
    BY <1>0 DEF RamType
  <2> QED BY <1>7, <1>8, <1>9, <2>1 DEF Tidy
<1>11. Sound'
  <2>1. ASSUME NEW s \in Sector PROVE Junked(flash'[s]) \/ Tidy(flash'[s])
    BY <1>1, <1>3, <1>10 DEF Sound
  <2> QED BY <2>1 DEF Sound
<1>12. \A c \in Base : c <= b => v[c] = Head0
  <2>1. ASSUME NEW c \in Base, c <= b PROVE v[c] = Head0
    <3>1. CASE c = b
      BY <1>5, <3>1
    <3>2. CASE c # b
      <4>0. c \in Nat
        BY BaseFacts
      <4>1. c < b
        BY <1>4, <2>1, <3>2, <4>0
      <4> QED BY <1>4, <1>8, <3>2, <4>1
    <3> QED BY <3>1, <3>2
  <2> QED BY <2>1
<1>h. PICK h \in [sec : Sector, addr : Base] : h = [sec |-> t, addr |-> b] /\ Here = h /\ h.sec = t /\ h.addr = b
  <2> DEFINE x == [sec |-> t, addr |-> b]
  <2>1. x \in [sec : Sector, addr : Base] /\ Here = x /\ x.sec = t /\ x.addr = b
    BY <1>1, <1>4 DEF Here
  <2> HIDE DEF x
  <2>2. \E h \in [sec : Sector, addr : Base] : h = x /\ Here = h /\ h.sec = t /\ h.addr = b
    BY <2>1
  <2> QED BY <2>2 DEF x
<1>r. ram.seq \in Nat /\ \A p \in Records : RecAt(p).seq \in Nat /\ p \in [sec : Sector, addr : Base]
  BY <1>0, RecordFacts, StoreFacts DEF RamType
<1>13. ASSUME NEW p \in [sec : Sector, addr : Base], p # h
       PROVE  (p \in Records' <=> p \in Records) /\ RecAt(p)' = RecAt(p)
  <2>1. p.sec \in Sector /\ p.addr \in Base /\ (p.sec = t => p.addr # b)
    BY <1>13, <1>h
  <2>2. \A i \in 0 .. 5 : flash'[p.sec][p.addr + i] = flash[p.sec][p.addr + i]
    <3>1. CASE p.sec = t
      BY <1>6, <2>1, <3>1
    <3>2. CASE p.sec # t
      BY <1>1, <2>1, <3>2
    <3> QED BY <3>1, <3>2
  <2> QED BY <2>2, RecordStands
<1>14. ASSUME h \in Records'
       PROVE  \/ k <= 2 /\ h \in Records /\ RecAt(h)' = RecAt(h)
              \/ k >= 3 /\ v[a] = u /\ RecAt(h)'.seq = ram.seq
  <2>1. ValidAt(v, b)
    BY <1>14, <1>h DEF Records
  <2>2. RecAt(h)' = ReadRec(v, b) /\ RecAt(h) = ReadRec(w, b)
    BY <1>h DEF RecAt
  <2>3. w[b] = Head0 /\ ValidAt(w, b) => h \in Records
    BY <1>h DEF Records
  <2>4. k = 3 => ~ (h \in Records /\ RecAt(h).seq = ram.seq)
    BY <1>1, <1>3, <1>h DEF SeqKnown
  <2> HIDE DEF w, v, b, u
  <2> QED BY <1>5, <2>1, <2>2, <2>3, <2>4
<1>15. ASSUME NEW p \in Records'
       PROVE  /\ RecAt(p)'.seq \in Nat /\ RecAt(p)'.seq <= ram.seq
              /\ RecAt(p)'.seq = ram.seq => p = h /\ k >= 3 /\ v[a] = u
  <2>1. p \in [sec : Sector, addr : Base]
    BY DEF Records
  <2>2. CASE p # h
    <3>1. p \in Records /\ RecAt(p)' = RecAt(p)
      BY <1>13, <2>1, <2>2
    <3> QED BY <1>1, <1>3, <1>h, <1>r, <2>2, <3>1 DEF SeqKnown
  <2>3. CASE p = h
    <3>1. CASE k <= 2 /\ h \in Records /\ RecAt(h)' = RecAt(h)
      BY <1>1, <1>3, <1>h, <1>r, <2>3, <3>1 DEF SeqKnown
    <3>2. CASE k >= 3 /\ v[a] = u /\ RecAt(h)'.seq = ram.seq
      BY <1>r, <2>3, <3>2
    <3> QED BY <1>14, <2>3, <3>1, <3>2
  <2> QED BY <2>2, <2>3
<1>16. ASSUME NEW p \in Records, Kept(p)
       PROVE  /\ p \in Records' /\ p.sec = t /\ RecAt(p)' = RecAt(p) /\ RecAt(p).data = saved
              /\ p.addr < rt.addr /\ p.addr < b
              /\ \A q \in Records' :
                   q = p \/ RecAt(q)'.seq < RecAt(p)'.seq \/ (q = h /\ RecAt(q)'.seq = ram.seq /\ v[a] = u)
  <2>1. p.sec = t /\ RecAt(p).data = saved /\ p.addr < rt.addr /\ p.addr < b
    BY <1>1, <1>16 DEF Kept
  <2>2. p # h /\ p \in [sec : Sector, addr : Base]
    BY <1>4, <1>h, <1>r, <2>1
  <2>3. p \in Records' /\ RecAt(p)' = RecAt(p)
    BY <1>13, <2>2
  <2>4. ASSUME NEW q \in Records'
        PROVE  q = p \/ RecAt(q)'.seq < RecAt(p)'.seq \/ (q = h /\ RecAt(q)'.seq = ram.seq /\ v[a] = u)
    <3>1. q \in [sec : Sector, addr : Base]
      BY DEF Records
    <3>2. CASE q # h
      <4>1. q \in Records /\ RecAt(q)' = RecAt(q)
        BY <1>13, <3>1, <3>2
      <4> QED BY <1>16, <1>h, <2>3, <3>2, <4>1 DEF Kept
    <3>3. CASE q = h
      <4>1. CASE k <= 2 /\ h \in Records /\ RecAt(h)' = RecAt(h)
        <5>1. RecAt(h).seq # ram.seq
          BY <1>1, <1>3, <4>1 DEF SeqKnown
        <5> QED BY <1>16, <2>2, <2>3, <3>3, <4>1, <5>1 DEF Kept
      <4>2. CASE k >= 3 /\ v[a] = u /\ RecAt(h)'.seq = ram.seq
        BY <3>3, <4>2
      <4> QED BY <1>14, <3>3, <4>1, <4>2
    <3> QED BY <3>2, <3>3
  <2> QED BY <2>1, <2>3, <2>4
<1>17. \A p \in Records' : RecAt(p)'.seq <= ram'.seq
  BY <1>1, <1>15
<1>18. rt.addr \in Base \cup {Words}
  BY <1>3 DEF InUse
<1>19. CASE v[a] = u /\ rt' = rt /\ k < 5 /\ job' = Write(job.retry, b, k + 1)
  <2>1. job'.do = "write" /\ job'.at = b /\ job'.k = k + 1
    BY <1>19 DEF Write
  <2>2. Here' = h
    BY <1>19, <1>h, <2>1 DEF Here
  <2>3. InUse'
    <3>1. \A c \in Base : c < b => v[c] = Head0
      BY <1>4, <1>12, BaseFacts
    <3> HIDE DEF b, k
    <3> QED BY <1>1, <1>4, <1>7, <1>10, <1>18, <1>19, <2>1, <3>1 DEF InUse
  <2>4. SeqKnown'
    <3>1. k >= 3 => job'.k >= 4
      BY <1>1, <2>1
    <3>2. ASSUME NEW p \in Records', RecAt(p)'.seq = ram'.seq PROVE p = Here' /\ job'.k >= 4
      BY <1>1, <1>15, <2>2, <3>1, <3>2
    <3> QED BY <1>17, <2>1, <3>2 DEF SeqKnown
  <2>5. SavedKnown'
    <3>1. ASSUME NEW p \in Records, Kept(p) PROVE p \in Records' /\ Kept(p)'
      <4>1. \A q \in Records' :
              q = p \/ RecAt(q)'.seq < RecAt(p)'.seq \/ (job'.do = "write" /\ q = Here' /\ RecAt(q)'.seq = ram'.seq)
        BY <1>1, <1>16, <2>1, <2>2, <3>1
      <4>2. p \in Records' /\ p.sec = rt'.sec /\ RecAt(p)'.data = saved' /\ p.addr < rt'.addr /\ p.addr < job'.at
        BY <1>1, <1>16, <1>19, <2>1, <3>1
      <4> QED BY <4>1, <4>2 DEF Kept
    <3>2. ASSUME wiped, b = 0, \A c \in Cell : c >= k => w[c] = Blank
          PROVE  \A c \in Cell : c >= job'.k => v[c] = Blank
      <4>1. ASSUME NEW c \in Cell, c >= job'.k PROVE v[c] = Blank
        <5>1. c # a /\ c >= k
          BY <1>1, <2>1, <3>2, <4>1 DEF Cell
        <5> HIDE DEF a
        <5> QED BY <1>1, <3>2, <5>1
      <4> QED BY <4>1
    <3> HIDE DEF b, k
    <3>3. ~ fresh => \/ wiped /\ b = 0 /\ \A c \in Cell : c >= k => w[c] = Blank
                     \/ \E p \in Records : Kept(p)
      BY <1>1, <1>3 DEF SavedKnown, b, k
    <3> QED BY <1>1, <1>19, <2>1, <3>1, <3>2, <3>3 DEF SavedKnown
  <2> QED BY <1>11, <2>3, <2>4, <2>5 DEF SoundFlash
<1>20. CASE v[a] = u /\ rt' = rt /\ job' = Done(b)
  <2>1. job'.do = "done" /\ job'.at = b
    BY <1>20 DEF Done
  <2>2. Here' = h
    BY <1>20, <1>h, <2>1 DEF Here
  <2>3. InUse'
    <3> HIDE DEF b, k
    <3> QED BY <1>1, <1>4, <1>7, <1>10, <1>18, <1>20, <2>1 DEF InUse
  <2>4. SeqKnown'
    <3>1. ASSUME NEW p \in Records', RecAt(p)'.seq = ram'.seq PROVE p = Here'
      BY <1>1, <1>15, <2>2, <3>1
    <3> QED BY <1>17, <2>1, <3>1 DEF SeqKnown
  <2>5. SavedKnown'
    BY <2>1 DEF SavedKnown
  <2> QED BY <1>11, <2>3, <2>4, <2>5 DEF SoundFlash
<1>21. CASE v[a] # u /\ rt' = [rt EXCEPT !.addr = b + RecWords] /\ Fail(job.retry)
  <2>1. job'.do \in {"idle", "attempt"}
    BY <1>21 DEF Fail, Attempt, Idle
  <2>2. rt'.sec = t /\ rt'.addr = b + RecWords /\ b < b + RecWords
    BY <1>0, <1>4, <1>21, StoreFacts
  <2>3. InUse'
    <3>1. ASSUME NEW c \in Base, c < b + RecWords PROVE v[c] = Head0
      <4>1. c \in Nat /\ (b < c => b + RecWords <= c) /\ RecWords \in Nat
        BY <1>4, BaseFacts, StoreFacts
      <4>2. c <= b
        BY <1>4, <3>1, <4>1
      <4> QED BY <1>12, <4>2
    <3> HIDE DEF b, k
    <3> QED BY <1>1, <1>4, <1>7, <1>10, <2>1, <2>2, <3>1 DEF InUse
  <2>4. SeqKnown'
    BY <1>17, <2>1 DEF SeqKnown
  <2>5. SavedKnown'
    <3>1. ASSUME NEW p \in Records, Kept(p) PROVE p \in Records' /\ Kept(p)'
      <4>1. \A q \in Records' : q = p \/ RecAt(q)'.seq < RecAt(p)'.seq
        BY <1>16, <1>21, <3>1
      <4>2. p.addr < b + RecWords
        <5>1. p.addr \in Nat /\ p.addr < b
          BY <1>0, <1>16, <3>1, RecordFacts
        <5> HIDE DEF b
        <5> QED BY <1>4, <5>1, StoreFacts
      <4>3. p \in Records' /\ p.sec = rt'.sec /\ RecAt(p)'.data = saved' /\ p.addr < rt'.addr
        BY <1>1, <1>16, <2>2, <3>1, <4>2
      <4> QED BY <2>1, <4>1, <4>3 DEF Kept
    <3>2. ~ (wiped /\ b = 0 /\ \A c \in Cell : c >= k => w[c] = Blank)
      <4>1. b = 0 => a >= k /\ a \in Cell
        BY <1>1
      <4> QED BY <1>5, <1>21, <4>1
    <3> HIDE DEF b, k
    <3>3. ~ fresh => \/ wiped /\ b = 0 /\ \A c \in Cell : c >= k => w[c] = Blank
                     \/ \E p \in Records : Kept(p)
      BY <1>1, <1>3 DEF SavedKnown, b, k
    <3> QED BY <1>1, <3>1, <3>2, <3>3 DEF SavedKnown
  <2> QED BY <1>11, <2>3, <2>4, <2>5 DEF SoundFlash
<1> QED BY <1>2, <1>19, <1>20, <1>21

-----------------------------------------------------------------------------
(* What the next power-up loads *)

\* Blank sectors are tidy.
LEMMA SoundInit ==
  ASSUME StoreInit
  PROVE  SoundFlash
<1>1. flash = [s \in Sector |-> Erased] /\ job = Off
  BY DEF StoreInit
<1>2. \A s \in Sector : Tidy(flash[s])
  BY <1>1, ErasedFacts, ErasedIsTidy
<1> QED BY <1>1, <1>2 DEF SoundFlash, Sound

\* Every step on flash that has not failed keeps it.
LEMMA SoundStep ==
  ASSUME SoundInv, [StoreNext]_storeVars
  PROVE  SoundInv'
<1>0. StoreInv /\ StoreTypes /\ Written /\ faults \in Nat /\ StoreInv'
  BY BasicStep DEF SoundInv, StoreInv, StoreTypes
<1>s. SUFFICES ASSUME faults' = 0 PROVE SoundFlash'
  BY <1>0 DEF SoundInv
<1>1. CASE Param_Init
  <2>1. faults' = faults
    BY <1>0, <1>1, <1>s DEF Param_Init, Internal_Erase, Failure
  <2> QED BY <1>0, <1>1, <1>s, <2>1, SoundLoad DEF SoundInv
<1>2. ASSUME NEW d \in Data, Dev_Param_RodSave(d) PROVE SoundFlash'
  <2>1. faults' = faults
    BY <1>2 DEF Dev_Param_RodSave
  <2> QED BY <1>0, <1>2, <1>s, <2>1, SoundSave DEF SoundInv
<1>3. CASE Param_Save_Prepare
  <2>1. faults' = faults
    BY <1>0, <1>3, <1>s DEF Param_Save_Prepare, Internal_Erase, Failure
  <2> QED BY <1>0, <1>3, <1>s, <2>1, SoundPrepare DEF SoundInv
<1>4. CASE Param_Save_Word
  <2>1. faults' \in {faults, faults + 1}
    BY <1>0, <1>4, WordCases
  <2>2. faults' = faults
    BY <1>0, <1>s, <2>1
  <2> QED BY <1>0, <1>4, <1>s, <2>2, SoundWord DEF SoundInv
<1>5. CASE Param_Save_Done
  <2>1. faults' = faults
    BY <1>5 DEF Param_Save_Done
  <2> QED BY <1>0, <1>5, <1>s, <2>1, SoundDone DEF SoundInv
<1>6. CASE PowerLoss
  <2>1. faults' = faults
    BY <1>6 DEF PowerLoss
  <2> QED BY <1>0, <1>6, <1>s, <2>1, SoundLoss DEF SoundInv
<1>7. CASE UNCHANGED storeVars
  <2>1. UNCHANGED <<flash, ram, rt, job, saved, fresh, wiped, faults>>
    BY <1>7 DEF storeVars
  <2>2. SoundFlash
    BY <1>s, <2>1 DEF SoundInv
  <2>3. Sound' /\ Records' = Records /\ (\A p : RecAt(p)' = RecAt(p)) /\ Here' = Here
    BY <2>1, <2>2 DEF SoundFlash, Sound, Records, RecAt, Here
  <2>4. InUse => InUse'
    BY <2>1 DEF InUse
  <2>5. SeqKnown => SeqKnown'
    BY <2>1, <2>3 DEF SeqKnown
  <2>6. SavedKnown => SavedKnown'
    <3>1. ASSUME NEW p \in Records, Kept(p) PROVE Kept(p)'
      BY <2>1, <2>3, <3>1 DEF Kept
    <3> QED BY <2>1, <2>3, <3>1 DEF SavedKnown
  <2> QED BY <2>1, <2>2, <2>3, <2>4, <2>5, <2>6 DEF SoundFlash
<1> QED BY <1>1, <1>2, <1>3, <1>4, <1>5, <1>6, <1>7 DEF StoreNext

\* The invariant of flash that does not fail: every sector is torn or used slot
\* after slot, and the record saved last is known by its place and number.
THEOREM StoreSoundInvariant == StoreSpec => []SoundInv
<1>1. StoreInit => SoundInv
  BY BasicInit, SoundInit DEF SoundInv
<1>2. SoundInv /\ [StoreNext]_storeVars => SoundInv'
  BY SoundStep
<1> QED BY <1>1, <1>2, PTL DEF StoreSpec

\* The record that is kept is loaded, or the one being written is.
LEMMA KeptIsLoaded ==
  ASSUME StoreTypes, Sound, Written, SeqKnown, NEW p \in Records, Kept(p)
  PROVE  \/ Loads(saved)
         \/ job.do = "write" /\ Loads(ram.data)
<1>0. FlashOK /\ JobOK /\ ram \in RamType
  BY DEF StoreTypes
<1>1. Found = Records
  BY <1>0, FoundIsRecords
<1>2. RecAt(p).data = saved /\ \A q \in Records : RecAt(q).seq \in Nat
  BY <1>0, RecordFacts DEF Kept
<1>3. CASE \A q \in Records : q = p \/ RecAt(q).seq < RecAt(p).seq
  <2>1. Best = p
    BY <1>0, <1>1, <1>3, BestIsBest
  <2> QED BY <1>1, <1>2, <2>1 DEF Loads
<1>4. ASSUME NEW h \in Records, h # p, ~ (RecAt(h).seq < RecAt(p).seq)
      PROVE  job.do = "write" /\ Loads(ram.data)
  <2>1. job.do = "write" /\ h = Here /\ RecAt(h).seq = ram.seq
    BY <1>4 DEF Kept
  <2>2. \A q \in Records : q = h \/ RecAt(q).seq < RecAt(h).seq
    <3>1. ASSUME NEW q \in Records, q # h PROVE RecAt(q).seq < RecAt(h).seq
      <4>1. RecAt(q).seq <= ram.seq /\ RecAt(q).seq # ram.seq
        BY <2>1, <3>1 DEF SeqKnown
      <4> QED BY <1>2, <2>1, <4>1
    <3> QED BY <3>1
  <2>3. Best = h
    BY <1>0, <1>1, <2>2, BestIsBest
  <2>4. RecAt(h).data = ram.data
    <3>1. job.k \in 0 .. 5 /\ job.k >= 4
      <4>1. job.k \in 0 .. 5
        BY <1>0, <2>1, JobFacts, StoreFacts
      <4> QED BY <2>1, <4>1 DEF SeqKnown
    <3>2. 3 \in 0 .. job.k - 1
      BY <3>1
    <3>3. flash[rt.sec][job.at + 3] = WordsOf(ram)[3 + 1]
      BY <2>1, <3>2 DEF Written
    <3>4. flash[rt.sec][job.at + 3] = <<"data", ram.data>>
      BY <3>3, WordFacts
    <3>5. RecAt(h).data = flash[rt.sec][job.at + 3][2]
      BY <2>1 DEF RecAt, ReadRec, Here
    <3> QED BY <3>4, <3>5
  <2> QED BY <1>1, <2>1, <2>3, <2>4 DEF Loads
<1> QED BY <1>3, <1>4

\* A save that Param_Save reported as a success is what the next power-up
\* loads, for any number of sectors, slots and torn records, on flash that
\* does not fail.
THEOREM StoreSavedSurvives == StoreSpec => []SavedSurvives
<1>1. SoundInv => SavedSurvives
  <2> SUFFICES ASSUME SoundInv, job = Idle, ~ fresh, faults = 0 PROVE Loads(saved)
    BY DEF SavedSurvives
  <2>1. StoreTypes /\ Written /\ job.do = "idle" /\ job # Off
    BY DEF SoundInv, StoreInv, Idle, Off
  <2>2. Sound /\ SeqKnown /\ SavedKnown
    BY <2>1 DEF SoundInv, SoundFlash
  <2>3. PICK p \in Records : Kept(p)
    BY <2>1, <2>2 DEF SavedKnown
  <2> QED BY <2>1, <2>2, <2>3, KeptIsLoaded
<1> QED BY <1>1, StoreSoundInvariant, PTL

\* Once a save has succeeded since power-up, and as long as none erases, power
\* lost at any word of Param_Save leaves the old position or the new one.
THEOREM StoreAppendIsSafe == StoreSpec => []AppendIsSafe
<1>1. SoundInv => AppendIsSafe
  <2> SUFFICES ASSUME SoundInv, Saving, ~ fresh, ~ wiped, faults = 0 PROVE Loads(saved) \/ Loads(ram.data)
    BY DEF AppendIsSafe
  <2>1. StoreTypes /\ Written /\ FlashOK /\ JobOK /\ ram \in RamType
    BY DEF SoundInv, StoreInv, StoreTypes
  <2>2. job # Off
    BY <2>1, JobFacts DEF Saving
  <2>3. Sound /\ InUse /\ SeqKnown /\ SavedKnown
    BY <2>2 DEF SoundInv, SoundFlash
  <2>4. CASE job.do = "done"
    <3>1. Found = Records
      BY <2>1, <2>3, FoundIsRecords
    <3>2. job.at \in Base
      BY <2>3, <2>4 DEF InUse
    <3> DEFINE h == Here
    <3>3. h \in Records /\ RecAt(h) = ram
      BY <2>1, <2>4, <3>2, DoneIsRecord
    <3>4. ASSUME NEW q \in Records, q # h PROVE RecAt(q).seq < RecAt(h).seq
      <4>1. RecAt(q).seq <= ram.seq /\ RecAt(q).seq # ram.seq /\ RecAt(q).seq \in Nat /\ ram.seq \in Nat
        BY <2>1, <2>3, <2>4, <3>4, RecordFacts, StoreFacts DEF SeqKnown, RamType
      <4> QED BY <3>3, <4>1
    <3> HIDE DEF h
    <3>5. Best = h
      BY <2>1, <3>1, <3>3, <3>4, BestIsBest
    <3> QED BY <3>1, <3>3, <3>5 DEF Loads
  <2>5. CASE job.do # "done"
    <3>1. PICK p \in Records : Kept(p)
      BY <2>3, <2>5 DEF SavedKnown
    <3> QED BY <2>1, <2>3, <3>1, KeptIsLoaded
  <2> QED BY <2>4, <2>5
<1> QED BY <1>1, StoreSoundInvariant, PTL
=============================================================================
