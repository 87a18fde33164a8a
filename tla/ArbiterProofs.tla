---------------------------- MODULE ArbiterProofs ----------------------------
(* Proofs about the arbitration kernel (module Arbiter).                     *)
EXTENDS Arbiter, SequenceTheorems, NaturalsInduction, WellFoundedInduction, TLAPS

\* A nonempty set of naturals has a least element, and Min picks it.
LEMMA MinOfNaturals ==
  ASSUME NEW T \in SUBSET Nat, T # {}
  PROVE  Min(T) \in T /\ \A y \in T : Min(T) <= y
<1>1. PICK x \in T : \A y \in T : ~ (<<y, x>> \in OpToRel(<, Nat))
  BY WFMin, NatLessThanWellFounded
<1>2. ASSUME NEW y \in T, y < x PROVE FALSE
  <2>1. <<y, x>> \in Nat \X Nat /\ <<y, x>>[1] < <<y, x>>[2]
    BY <1>2
  <2>2. <<y, x>> \in {ss \in Nat \X Nat : ss[1] < ss[2]}
    BY <2>1
  <2> QED BY <1>1, <2>2 DEF OpToRel
<1>3. \A y \in T : x <= y
  BY <1>2
<1> QED BY <1>3 DEF Min

\* What removing one position of a sequence leaves.
LEMMA RemoveAtElements ==
  ASSUME NEW S, NEW q \in Seq(S), NEW i \in 1 .. Len(q)
  PROVE  /\ RemoveAt(q, i) \in Seq(S)
         /\ Len(RemoveAt(q, i)) = Len(q) - 1
         /\ \A j \in 1 .. Len(q) - 1 :
              RemoveAt(q, i)[j] = IF j < i THEN q[j] ELSE q[j + 1]
<1> DEFINE u == SubSeq(q, 1, i - 1)
           v == SubSeq(q, i + 1, Len(q))
<1>1. u \in Seq(S) /\ Len(u) = i - 1 /\ \A j \in 1 .. i - 1 : u[j] = q[j]
  BY SubSeqProperties, LenProperties
<1>2. v \in Seq(S) /\ Len(v) = Len(q) - i /\ \A j \in 1 .. Len(q) - i : v[j] = q[i + j]
  BY SubSeqProperties, LenProperties
<1> HIDE DEF u, v
<1>3. RemoveAt(q, i) = u \o v
  BY DEF RemoveAt, u, v
<1>4. /\ u \o v \in Seq(S)
      /\ Len(u \o v) = Len(u) + Len(v)
      /\ \A j \in 1 .. Len(u) + Len(v) :
           (u \o v)[j] = IF j <= Len(u) THEN u[j] ELSE v[j - Len(u)]
  BY <1>1, <1>2, ConcatProperties
<1>5. Len(q) \in Nat
  BY LenProperties
<1> QED BY <1>1, <1>2, <1>3, <1>4, <1>5

\* What inserting an element into a sequence gives.
LEMMA InsertAtElements ==
  ASSUME NEW S, NEW q \in Seq(S), NEW i \in 1 .. Len(q) + 1, NEW e \in S
  PROVE  /\ InsertAt(q, i, e) \in Seq(S)
         /\ Len(InsertAt(q, i, e)) = Len(q) + 1
         /\ \A j \in 1 .. Len(q) + 1 : InsertAt(q, i, e)[j] =
              IF j < i THEN q[j] ELSE IF j = i THEN e ELSE q[j - 1]
<1> DEFINE u == SubSeq(q, 1, i - 1)
           v == SubSeq(q, i, Len(q))
           w == u \o <<e>>
<1>1. u \in Seq(S) /\ Len(u) = i - 1 /\ \A j \in 1 .. i - 1 : u[j] = q[j]
  BY SubSeqProperties, LenProperties
<1>2. v \in Seq(S) /\ Len(v) = Len(q) - i + 1
      /\ \A j \in 1 .. Len(q) - i + 1 : v[j] = q[i + j - 1]
  BY SubSeqProperties, LenProperties
<1>3. w \in Seq(S) /\ Len(w) = i /\ \A j \in 1 .. i : w[j] = IF j < i THEN q[j] ELSE e
  BY <1>1, ConcatProperties
<1> HIDE DEF u, v, w
<1>4. InsertAt(q, i, e) = w \o v
  BY DEF InsertAt, u, v, w
<1>5. /\ w \o v \in Seq(S)
      /\ Len(w \o v) = Len(w) + Len(v)
      /\ \A j \in 1 .. Len(w) + Len(v) :
           (w \o v)[j] = IF j <= Len(w) THEN w[j] ELSE v[j - Len(w)]
  BY <1>2, <1>3, ConcatProperties
<1>6. Len(q) \in Nat
  BY LenProperties
<1> QED BY <1>2, <1>3, <1>4, <1>5, <1>6
-----------------------------------------------------------------------------
(* The queue operations *)

\* Priorities of queued records are integers, so they can be compared.
LEMMA QueuedRecord ==
  ASSUME NEW q \in Seq(Record), NEW j \in 1 .. Len(q)
  PROVE  q[j] \in Record /\ q[j].priority \in Int
<1>1. q[j] \in Record
  BY ElementOfSeq
<1> QED BY <1>1, ArbConstants DEF Record

\* SelectInSeq returns the first index that passes the test, or 0.
LEMMA FirstOfDevice ==
  ASSUME NEW q \in Seq(Record), NEW device, Holds(q, device)
  PROVE  LET i == SelectInSeq(q, LAMBDA r : r.device = device)
         IN i \in 1 .. Len(q) /\ q[i].device = device
<1> DEFINE I == {k \in 1 .. Len(q) : q[k].device = device}
<1>1. DOMAIN q = 1 .. Len(q) /\ Len(q) \in Nat
  BY LenProperties
<1>2. I \in SUBSET Nat /\ I # {}
  BY <1>1 DEF Holds
<1>3. Min(I) \in I
  BY <1>2, MinOfNaturals
<1>4. SelectInSeq(q, LAMBDA r : r.device = device) = Min(I)
  BY <1>2 DEF SelectInSeq
<1> QED BY <1>3, <1>4

\* Removing a device keeps the other records and their order, and where a
\* device has at most one record nothing of it is left.
LEMMA RemoveKeeps ==
  ASSUME NEW q \in Seq(Record), NEW device
  PROVE  LET t == Arb_CmdListRemove(q, device) IN
         /\ t \in Seq(Record)
         /\ Len(t) <= Len(q)
         /\ Holds(q, device) => Len(t) = Len(q) - 1
         /\ ~ Holds(q, device) => t = q
         /\ Sorted(q) => Sorted(t)
         /\ DistinctDevices(q) => DistinctDevices(t) /\ ~ Holds(t, device)
         /\ \A e : Holds(t, e) => Holds(q, e)
         /\ \A e : Holds(q, e) /\ e # device => Holds(t, e)
         /\ \A dir : (\A k \in DOMAIN q : q[k].dir = dir) => (\A k \in DOMAIN t : t[k].dir = dir)
<1> DEFINE t == Arb_CmdListRemove(q, device)
           i == SelectInSeq(q, LAMBDA r : r.device = device)
<1>1. DOMAIN q = 1 .. Len(q) /\ Len(q) \in Nat
  BY LenProperties
<1>2. CASE ~ Holds(q, device)
  <2>1. Arb_CmdListRemove(q, device) = q
    BY <1>1, <1>2 DEF Arb_CmdListRemove, RemoveFirstMatch, Holds
  <2>2. Len(q) <= Len(q)
    BY <1>1
  <2> HIDE DEF t, i
  <2> QED BY <2>1, <2>2, <1>2, Zenon
<1>3. CASE Holds(q, device)
  <2>1. i \in 1 .. Len(q) /\ q[i].device = device
    BY <1>3, FirstOfDevice
  <2>2. t = RemoveAt(q, i)
    BY <1>1, <1>3 DEF Arb_CmdListRemove, RemoveFirstMatch, Holds
  <2> HIDE DEF t, i
  <2>3. /\ t \in Seq(Record) /\ Len(t) = Len(q) - 1
        /\ \A j \in 1 .. Len(q) - 1 : t[j] = IF j < i THEN q[j] ELSE q[j + 1]
    BY <2>1, <2>2, RemoveAtElements
  <2>4. DOMAIN t = 1 .. Len(q) - 1
    BY <2>3, LenProperties
  <2> DEFINE Old(j) == IF j < i THEN j ELSE j + 1
  <2>a. \A j \in DOMAIN t : Old(j) \in DOMAIN q /\ t[j] = q[Old(j)] /\ Old(j) # i
    BY <1>1, <2>1, <2>3, <2>4
  <2>b. \A j, k \in DOMAIN t : /\ j < k => Old(j) < Old(k)
                               /\ Old(j) = Old(k) => j = k
    BY <1>1, <2>1, <2>4
  <2> HIDE DEF Old
  <2>5. Sorted(q) => Sorted(t)
    BY <2>a, <2>b DEF Sorted
  <2>6. DistinctDevices(q) => DistinctDevices(t) /\ ~ Holds(t, device)
    BY <1>1, <2>1, <2>a, <2>b DEF DistinctDevices, Holds
  <2>7. \A e : Holds(t, e) => Holds(q, e)
    BY <1>1, <2>1, <2>3, <2>4 DEF Holds
  <2>8. ASSUME NEW e, Holds(q, e), e # device PROVE Holds(t, e)
    <3>1. PICK k \in DOMAIN q : q[k].device = e
      BY <2>8 DEF Holds
    <3>2. k # i
      BY <2>1, <2>8, <3>1
    <3>3. CASE k < i
      BY <1>1, <2>1, <2>3, <2>4, <3>1, <3>3 DEF Holds
    <3>4. CASE k > i
      <4>1. k - 1 \in DOMAIN t /\ t[k - 1] = q[k]
        BY <1>1, <2>1, <2>3, <2>4, <3>1, <3>4
      <4> QED BY <3>1, <4>1 DEF Holds
    <3> QED BY <1>1, <2>1, <3>2, <3>3, <3>4
  <2>9. \A dir : (\A k \in DOMAIN q : q[k].dir = dir) => (\A k \in DOMAIN t : t[k].dir = dir)
    BY <1>1, <2>1, <2>3, <2>4
  <2> QED BY <1>1, <1>3, <2>3, <2>5, <2>6, <2>7, <2>8, <2>9 DEF t
<1> QED BY <1>2, <1>3

\* The insertion slot lies behind every record at least as strong and before
\* every weaker one of a sorted queue.
LEMMA SlotSplits ==
  ASSUME NEW q \in Seq(Record), NEW p \in 0 .. PrioPower
  PROVE  LET i == InsertSlot(q, p) IN
         /\ i \in 1 .. Len(q) + 1
         /\ \A j \in 1 .. Len(q) : j < i => q[j].priority <= p
         /\ Sorted(q) => \A j \in 1 .. Len(q) : i <= j => p < q[j].priority
<1> DEFINE I == {k \in 1 .. Len(q) : p < q[k].priority}
           i == InsertSlot(q, p)
<1>1. DOMAIN q = 1 .. Len(q) /\ Len(q) \in Nat
  BY LenProperties
<1>2. p \in Int /\ \A j \in 1 .. Len(q) : q[j].priority \in Int
  BY QueuedRecord, ArbConstants
<1>3. CASE I = {}
  <2>1. i = Len(q) + 1
    BY <1>3 DEF InsertSlot, SelectInSeq
  <2> QED BY <1>1, <1>2, <1>3, <2>1
<1>4. CASE I # {}
  <2>0. I \in SUBSET Nat
    BY <1>1
  <2>1. Min(I) \in I /\ \A y \in I : Min(I) <= y
    BY <2>0, <1>4, MinOfNaturals
  <2>2. i = Min(I)
    BY <1>1, <1>4, <2>1 DEF InsertSlot, SelectInSeq
  <2> HIDE DEF i
  <2>3. i \in 1 .. Len(q) /\ p < q[i].priority /\ \A y \in I : i <= y
    BY <2>1, <2>2
  <2>4. \A j \in 1 .. Len(q) : j < i => q[j].priority <= p
    BY <1>1, <1>2, <2>3
  <2>5. ASSUME Sorted(q), NEW j \in 1 .. Len(q), i <= j PROVE p < q[j].priority
    <3>1. q[i].priority <= q[j].priority
      BY <1>1, <1>2, <2>3, <2>5 DEF Sorted
    <3> QED BY <1>2, <2>3, <3>1
  <2> QED BY <1>1, <2>3, <2>4, <2>5 DEF i
<1> QED BY <1>3, <1>4

\* Inserting the record of a device not yet present keeps the queue sorted
\* and its devices distinct.
LEMMA InsertKeeps ==
  ASSUME NEW q \in Seq(Record), NEW r \in Record
  PROVE  LET t == InsertAt(q, InsertSlot(q, r.priority), r) IN
         /\ t \in Seq(Record)
         /\ Len(t) = Len(q) + 1
         /\ Sorted(q) => Sorted(t)
         /\ DistinctDevices(q) /\ ~ Holds(q, r.device) => DistinctDevices(t)
         /\ \A e : Holds(t, e) => Holds(q, e) \/ e = r.device
         /\ \A dir : (\A k \in DOMAIN q : q[k].dir = dir) /\ r.dir = dir
                     => (\A k \in DOMAIN t : t[k].dir = dir)
<1> DEFINE i == InsertSlot(q, r.priority)
           t == InsertAt(q, i, r)
<1>1. DOMAIN q = 1 .. Len(q) /\ Len(q) \in Nat
  BY LenProperties
<1>2. r.priority \in 0 .. PrioPower /\ r.priority \in Int
  BY ArbConstants DEF Record
<1>3. /\ i \in 1 .. Len(q) + 1
      /\ \A j \in 1 .. Len(q) : j < i => q[j].priority <= r.priority
      /\ Sorted(q) => \A j \in 1 .. Len(q) : i <= j => r.priority < q[j].priority
  BY <1>2, SlotSplits
<1> HIDE DEF i
<1>4. /\ t \in Seq(Record) /\ Len(t) = Len(q) + 1
      /\ \A j \in 1 .. Len(q) + 1 : t[j] =
           IF j < i THEN q[j] ELSE IF j = i THEN r ELSE q[j - 1]
  BY <1>3, InsertAtElements
<1> HIDE DEF t
<1>5. DOMAIN t = 1 .. Len(q) + 1
  BY <1>1, <1>4, LenProperties
<1>6. \A j \in 1 .. Len(q) : q[j].priority \in Int
  BY QueuedRecord
<1> DEFINE Old(j) == IF j < i THEN j ELSE j - 1
<1>a. \A j \in DOMAIN t : IF j = i THEN t[j] = r
                          ELSE Old(j) \in 1 .. Len(q) /\ t[j] = q[Old(j)]
  BY <1>1, <1>3, <1>4, <1>5
<1>b. \A j, k \in DOMAIN t : j # i /\ k # i =>
        (j < k => Old(j) < Old(k)) /\ (Old(j) = Old(k) => j = k)
  BY <1>1, <1>3, <1>5
<1>c. \A j \in DOMAIN t : j # i => (j < i <=> Old(j) < i) /\ Old(j) \in Int
  BY <1>1, <1>3, <1>5
<1>7. ASSUME Sorted(q), NEW j \in DOMAIN t, NEW k \in DOMAIN t, j < k
      PROVE  t[j].priority <= t[k].priority
  <2>1. CASE j = i
    <3>1. k # i /\ ~ k < i
      BY <1>1, <1>3, <1>5, <1>7, <2>1
    <3> QED BY <1>1, <1>2, <1>3, <1>6, <1>7, <2>1, <3>1, <1>a, <1>c
  <2>2. CASE k = i
    <3>1. j # i /\ j < i
      BY <1>1, <1>3, <1>5, <1>7, <2>2
    <3> QED BY <1>1, <1>2, <1>3, <1>6, <1>7, <2>2, <3>1, <1>a, <1>c
  <2>3. CASE j # i /\ k # i
    BY <1>1, <1>7, <2>3, <1>a, <1>b DEF Sorted
  <2> QED BY <2>1, <2>2, <2>3
<1>8. ASSUME DistinctDevices(q), ~ Holds(q, r.device)
      PROVE  DistinctDevices(t)
  <2> HIDE DEF Old
  <2> QED BY <1>1, <1>8, <1>a, <1>b DEF DistinctDevices, Holds
<1>9. \A e : Holds(t, e) => Holds(q, e) \/ e = r.device
  BY <1>1, <1>a DEF Holds
<1>10. \A dir : (\A k \in DOMAIN q : q[k].dir = dir) /\ r.dir = dir
                => (\A k \in DOMAIN t : t[k].dir = dir)
  BY <1>1, <1>a
<1>11. Sorted(q) => Sorted(t)
  BY <1>7 DEF Sorted
<1> QED BY <1>4, <1>8, <1>9, <1>10, <1>11 DEF t, i
-----------------------------------------------------------------------------
(* The data of one axis *)

QueueOK(q) == q \in Seq(Record) /\ Len(q) <= MaxQueue /\ DistinctDevices(q)

AllowOK(q, dir) == QueueOK(q) /\ Sorted(q) /\ \A k \in DOMAIN q : q[k].dir = dir

NoPowerConflict(allow) == ~ (Holds(allow["fwd"], PowerPos) /\ Holds(allow["rev"], PowerNeg))

\* What every command and every decision preserves.
DataInv(d) ==
  /\ d \in ArbData
  /\ \A dir \in Dir : QueueOK(d.block[dir]) /\ AllowOK(d.allow[dir], dir)
  /\ NoPowerConflict(d.allow)

\* The empty queue is a good queue.
LEMMA EmptyQueueOK ==
  ASSUME NEW dir
  PROVE  QueueOK(<<>>) /\ AllowOK(<<>>, dir) /\ \A e : ~ Holds(<<>>, e)
<1>1. <<>> \in Seq(Record) /\ Len(<<>>) = 0 /\ DOMAIN <<>> = {}
  OBVIOUS
<1> QED BY <1>1, ArbConstants DEF QueueOK, AllowOK, DistinctDevices, Sorted, Holds

\* Removing a device leaves a good queue good.
LEMMA RemoveOK ==
  ASSUME NEW q, NEW device
  PROVE  /\ QueueOK(q) => QueueOK(Arb_CmdListRemove(q, device))
         /\ \A dir : AllowOK(q, dir) => AllowOK(Arb_CmdListRemove(q, device), dir)
         /\ QueueOK(q) => ~ Holds(Arb_CmdListRemove(q, device), device)
         /\ QueueOK(q) => \A e : Holds(Arb_CmdListRemove(q, device), e) => Holds(q, e)
<1> SUFFICES ASSUME QueueOK(q)
             PROVE  /\ QueueOK(Arb_CmdListRemove(q, device))
                    /\ \A dir : AllowOK(q, dir) => AllowOK(Arb_CmdListRemove(q, device), dir)
                    /\ ~ Holds(Arb_CmdListRemove(q, device), device)
                    /\ \A e : Holds(Arb_CmdListRemove(q, device), e) => Holds(q, e)
  BY DEF AllowOK
<1> DEFINE t == Arb_CmdListRemove(q, device)
<1>1. q \in Seq(Record) /\ Len(q) <= MaxQueue /\ DistinctDevices(q)
  BY DEF QueueOK
<1>2. /\ t \in Seq(Record)
      /\ Len(t) <= Len(q)
      /\ Sorted(q) => Sorted(t)
      /\ DistinctDevices(q) => DistinctDevices(t) /\ ~ Holds(t, device)
      /\ \A e : Holds(t, e) => Holds(q, e)
      /\ \A dir : (\A k \in DOMAIN q : q[k].dir = dir) => (\A k \in DOMAIN t : t[k].dir = dir)
  BY <1>1, RemoveKeeps
<1>3. Len(t) <= MaxQueue
  <2>1. Len(t) \in Nat /\ Len(q) \in Nat
    BY <1>1, <1>2, LenProperties
  <2> HIDE DEF t
  <2> QED BY <1>1, <1>2, <2>1, ArbConstants
<1> HIDE DEF t
<1> QED BY <1>1, <1>2, <1>3 DEF QueueOK, AllowOK, t

\* A run command leaves a good queue good and adds at most its own device.
LEMMA SetAllowOK ==
  ASSUME NEW q, NEW blockq, NEW r \in Record, AllowOK(q, r.dir)
  PROVE  /\ AllowOK(Arb_CmdListSetAllow(q, blockq, r), r.dir)
         /\ \A e : Holds(Arb_CmdListSetAllow(q, blockq, r), e) => Holds(q, e) \/ e = r.device
<1> DEFINE rest == Arb_CmdListRemove(q, r.device)
           t == InsertAt(rest, InsertSlot(rest, r.priority), r)
<1>1. AllowOK(rest, r.dir) /\ ~ Holds(rest, r.device) /\ \A e : Holds(rest, e) => Holds(q, e)
  BY RemoveOK DEF AllowOK
<1>2. rest \in Seq(Record) /\ Len(rest) \in Nat
  BY <1>1, LenProperties DEF AllowOK, QueueOK
<1> HIDE DEF rest
<1>3. ASSUME ~ Len(rest) >= MaxQueue
      PROVE  AllowOK(t, r.dir) /\ \A e : Holds(t, e) => Holds(rest, e) \/ e = r.device
  <2>1. /\ t \in Seq(Record)
        /\ Len(t) = Len(rest) + 1
        /\ Sorted(rest) => Sorted(t)
        /\ DistinctDevices(rest) /\ ~ Holds(rest, r.device) => DistinctDevices(t)
        /\ \A e : Holds(t, e) => Holds(rest, e) \/ e = r.device
        /\ \A dir : (\A k \in DOMAIN rest : rest[k].dir = dir) /\ r.dir = dir
                    => (\A k \in DOMAIN t : t[k].dir = dir)
    BY <1>2, InsertKeeps
  <2> HIDE DEF t
  <2>2. Len(t) <= MaxQueue
    BY <1>2, <1>3, <2>1, ArbConstants
  <2> QED BY <1>1, <2>1, <2>2 DEF AllowOK, QueueOK
<1> QED BY <1>1, <1>3 DEF Arb_CmdListSetAllow, rest

\* Blocking a direction leaves a good block queue good.
LEMMA SetBlockOK ==
  ASSUME NEW q, NEW r \in Record, QueueOK(q)
  PROVE  QueueOK(Arb_CmdListSetBlock(q, r))
<1> DEFINE e == [r EXCEPT !.duty = 0]
           t == Append(q, e)
<1>1. q \in Seq(Record) /\ DOMAIN q = 1 .. Len(q) /\ Len(q) \in Nat
  BY LenProperties DEF QueueOK
<1>2. e \in Record /\ e.device = r.device
  BY DEF Record
<1> HIDE DEF e
<1>3. ASSUME ~ Holds(q, r.device), ~ Len(q) >= MaxQueue
      PROVE  QueueOK(t)
  <2>1. /\ t \in Seq(Record) /\ Len(t) = Len(q) + 1
        /\ \A k \in 1 .. Len(q) : t[k] = q[k]
        /\ t[Len(q) + 1] = e
    BY <1>1, <1>2, AppendProperties
  <2> HIDE DEF t
  <2>2. DOMAIN t = 1 .. Len(q) + 1
    BY <2>1, LenProperties
  <2>3. Len(t) <= MaxQueue
    BY <1>1, <1>3, <2>1, ArbConstants
  <2>4. ASSUME NEW i \in DOMAIN t, NEW j \in DOMAIN t, t[i].device = t[j].device
        PROVE  i = j
    <3>1. CASE i \in 1 .. Len(q) /\ j \in 1 .. Len(q)
      BY <1>1, <2>1, <2>4, <3>1 DEF QueueOK, DistinctDevices
    <3>2. CASE i = Len(q) + 1 /\ j \in 1 .. Len(q)
      BY <1>1, <1>2, <1>3, <2>1, <2>4, <3>2 DEF Holds
    <3>3. CASE i \in 1 .. Len(q) /\ j = Len(q) + 1
      BY <1>1, <1>2, <1>3, <2>1, <2>4, <3>3 DEF Holds
    <3>4. CASE i = Len(q) + 1 /\ j = Len(q) + 1
      BY <3>4
    <3> QED BY <1>1, <2>2, <3>1, <3>2, <3>3, <3>4
  <2> QED BY <2>1, <2>3, <2>4 DEF QueueOK, DistinctDevices
<1> QED BY <1>3 DEF Arb_CmdListSetBlock, e

\* Good queues in place of the old ones keep the data of an axis good.
LEMMA ReplaceQueues ==
  ASSUME NEW d, DataInv(d), NEW block, NEW allow,
         DOMAIN block = Dir, DOMAIN allow = Dir,
         block = [x \in Dir |-> block[x]], allow = [x \in Dir |-> allow[x]],
         \A x \in Dir : QueueOK(block[x]) /\ AllowOK(allow[x], x),
         NoPowerConflict(allow)
  PROVE  DataInv([d EXCEPT !.block = block, !.allow = allow])
<1> DEFINE e == [d EXCEPT !.block = block, !.allow = allow]
<1>1. d \in ArbData
  BY DEF DataInv
<1>2. block \in [Dir -> Seq(Record)] /\ allow \in [Dir -> Seq(Record)]
  BY DEF AllowOK, QueueOK
<1>3. e \in ArbData /\ e.block = block /\ e.allow = allow
  BY <1>1, <1>2 DEF ArbData
<1> HIDE DEF e
<1> QED BY <1>3 DEF DataInv, e

\* Removing the opposite power command keeps the data good, and leaves no
\* run command of the other power device behind.
LEMMA RemoveOppositeOK ==
  ASSUME NEW d, DataInv(d), NEW m \in Msg
  PROVE  LET e == Arb_RemoveOppositePowerAllow(d, m) IN
         /\ DataInv(e)
         /\ m.verb = "RUN" /\ m.device = PowerPos => ~ Holds(e.allow["rev"], PowerNeg)
         /\ m.verb = "RUN" /\ m.device = PowerNeg => ~ Holds(e.allow["fwd"], PowerPos)
<1> DEFINE Out(x, p) == [d.allow EXCEPT ![x] = Arb_CmdListRemove(@, p)]
<1>1. /\ d \in ArbData
      /\ d.allow \in [Dir -> Seq(Record)] /\ d.block \in [Dir -> Seq(Record)]
      /\ \A x \in Dir : QueueOK(d.block[x]) /\ AllowOK(d.allow[x], x) /\ QueueOK(d.allow[x])
      /\ NoPowerConflict(d.allow)
  BY DEF DataInv, ArbData, AllowOK
<1>2. ASSUME NEW x \in Dir, NEW p
      PROVE  LET e == [d EXCEPT !.allow[x] = Arb_CmdListRemove(@, p)]
             IN DataInv(e) /\ ~ Holds(e.allow[x], p)
  <2>1. /\ AllowOK(Out(x, p)[x], x)
        /\ ~ Holds(Out(x, p)[x], p)
        /\ \A y \in Dir : \A e : Holds(Out(x, p)[y], e) => Holds(d.allow[y], e)
        /\ \A y \in Dir \ {x} : Out(x, p)[y] = d.allow[y]
    BY <1>1, RemoveOK
  <2>2. \A y \in Dir : AllowOK(Out(x, p)[y], y)
    BY <1>1, <2>1
  <2>3. NoPowerConflict(Out(x, p))
    BY <1>1, <2>1 DEF NoPowerConflict, Dir
  <2>4. Out(x, p) = [y \in Dir |-> Out(x, p)[y]] /\ d.block = [y \in Dir |-> d.block[y]]
    BY <1>1
  <2>5. [d EXCEPT !.allow[x] = Arb_CmdListRemove(@, p)] = [d EXCEPT !.block = d.block, !.allow = Out(x, p)]
    BY <1>1 DEF ArbData
  <2>6. [d EXCEPT !.block = d.block, !.allow = Out(x, p)].allow = Out(x, p)
    BY <1>1 DEF ArbData
  <2>7. DOMAIN Out(x, p) = Dir /\ DOMAIN d.block = Dir
    BY <1>1
  <2> HIDE DEF Out
  <2>8. DataInv([d EXCEPT !.block = d.block, !.allow = Out(x, p)])
    BY <1>1, <2>2, <2>3, <2>4, <2>7, ReplaceQueues
  <2> QED BY <2>1, <2>5, <2>6, <2>8
<1>3. "fwd" \in Dir /\ "rev" \in Dir
  BY DEF Dir
<1>4. PowerPos # PowerNeg
  BY ArbConstants
<1>5. CASE m.verb = "RUN" /\ m.device = PowerPos
  BY <1>2, <1>3, <1>4, <1>5 DEF Arb_RemoveOppositePowerAllow
<1>6. CASE m.verb = "RUN" /\ m.device = PowerNeg
  BY <1>2, <1>3, <1>4, <1>6 DEF Arb_RemoveOppositePowerAllow
<1>7. CASE ~ (m.verb = "RUN" /\ m.device \in {PowerPos, PowerNeg})
  BY <1>7 DEF Arb_RemoveOppositePowerAllow
<1> QED BY <1>5, <1>6, <1>7

\* A record built from a command is a record of the command's direction.
LEMMA RecordOfMsg ==
  ASSUME NEW m \in Msg
  PROVE  RecordOf(m) \in Record /\ RecordOf(m).dir = m.dir /\ RecordOf(m).device = m.device
         /\ m.dir \in Dir /\ m.verb \in Verb
BY DEF Msg, Record, RecordOf

\* Every command keeps the data of its axis good.
LEMMA ProcessMessageOK ==
  ASSUME NEW d0, DataInv(d0), NEW m \in Msg
  PROVE  DataInv(Arb_ProcessMessage(d0, m))
<1> DEFINE d == Arb_RemoveOppositePowerAllow(d0, m)
<1>1. /\ DataInv(d)
      /\ m.verb = "RUN" /\ m.device = PowerPos => ~ Holds(d.allow["rev"], PowerNeg)
      /\ m.verb = "RUN" /\ m.device = PowerNeg => ~ Holds(d.allow["fwd"], PowerPos)
  BY RemoveOppositeOK
<1>2. /\ d \in ArbData
      /\ d.allow \in [Dir -> Seq(Record)] /\ d.block \in [Dir -> Seq(Record)]
      /\ \A x \in Dir : QueueOK(d.block[x]) /\ AllowOK(d.allow[x], x) /\ QueueOK(d.allow[x])
      /\ NoPowerConflict(d.allow)
  BY <1>1 DEF DataInv, ArbData, AllowOK
<1>3. /\ RecordOf(m) \in Record /\ RecordOf(m).dir = m.dir /\ RecordOf(m).device = m.device
      /\ m.dir \in Dir /\ m.verb \in Verb
  BY RecordOfMsg
<1>d. d = Arb_RemoveOppositePowerAllow(d0, m)
  OBVIOUS
<1> HIDE DEF d
<1>4. CASE m.verb = "RUN"
  <2> DEFINE blockq == Arb_CmdListRemove(d.block[m.dir], m.device)
             allowq == Arb_CmdListSetAllow(d.allow[m.dir], blockq, RecordOf(m))
             block == [d.block EXCEPT ![m.dir] = blockq]
             allow == [d.allow EXCEPT ![m.dir] = allowq]
  <2>1. QueueOK(blockq)
    BY <1>2, <1>3, RemoveOK
  <2>2. AllowOK(allowq, m.dir) /\ \A e : Holds(allowq, e) => Holds(d.allow[m.dir], e) \/ e = m.device
    <3> HIDE DEF blockq
    <3>1. AllowOK(d.allow[m.dir], RecordOf(m).dir)
      BY <1>2, <1>3
    <3> QED BY <1>3, <3>1, SetAllowOK
  <2>3. Arb_ProcessMessage(d0, m) = [d EXCEPT !.block = block, !.allow = allow]
    BY <1>2, <1>3, <1>4, <1>d DEF Arb_ProcessMessage, RunCommand, ArbData
  <2> HIDE DEF blockq, allowq
  <2>4. /\ \A x \in Dir : QueueOK(block[x]) /\ AllowOK(allow[x], x)
        /\ DOMAIN block = Dir /\ DOMAIN allow = Dir
        /\ block = [x \in Dir |-> block[x]] /\ allow = [x \in Dir |-> allow[x]]
    BY <1>2, <1>3, <2>1, <2>2
  <2>5. NoPowerConflict(allow)
    <3>1. PowerPos # PowerNeg
      BY ArbConstants
    <3>2. \A x \in Dir : \A e : Holds(allow[x], e) => Holds(d.allow[x], e) \/ (x = m.dir /\ e = m.device)
      BY <1>2, <1>3, <2>2
    <3>3. CASE m.device = PowerPos
      BY <1>1, <1>2, <1>4, <3>1, <3>2, <3>3 DEF NoPowerConflict, Dir
    <3>4. CASE m.device = PowerNeg
      BY <1>1, <1>2, <1>4, <3>1, <3>2, <3>4 DEF NoPowerConflict, Dir
    <3>5. CASE m.device \notin {PowerPos, PowerNeg}
      BY <1>2, <3>2, <3>5 DEF NoPowerConflict, Dir
    <3> QED BY <3>3, <3>4, <3>5
  <2> HIDE DEF block, allow
  <2>6. DataInv([d EXCEPT !.block = block, !.allow = allow])
    BY <1>1, <2>4, <2>5, ReplaceQueues
  <2> QED BY <2>3, <2>6
<1>5. CASE m.verb = "STOP"
  <2> DEFINE allow == [x \in Dir |-> Arb_CmdListRemove(d.allow[x], m.device)]
  <2>1. \A x \in Dir : AllowOK(allow[x], x) /\ \A e : Holds(allow[x], e) => Holds(d.allow[x], e)
    BY <1>2, RemoveOK
  <2>2. Arb_ProcessMessage(d0, m) = [d EXCEPT !.block = d.block, !.allow = allow]
    BY <1>2, <1>5, <1>d DEF Arb_ProcessMessage, ArbData
  <2>3. DOMAIN allow = Dir /\ allow = [x \in Dir |-> allow[x]]
        /\ DOMAIN d.block = Dir /\ d.block = [x \in Dir |-> d.block[x]]
    BY <1>2
  <2> HIDE DEF allow
  <2>4. NoPowerConflict(allow)
    BY <1>2, <2>1 DEF NoPowerConflict, Dir
  <2>5. DataInv([d EXCEPT !.block = d.block, !.allow = allow])
    BY <1>1, <1>2, <2>1, <2>3, <2>4, ReplaceQueues
  <2> QED BY <2>2, <2>5
<1>6. CASE m.verb \in {"BLOCK", "UNBLOCK"}
  <2> DEFINE q == IF m.verb = "BLOCK" THEN Arb_CmdListSetBlock(d.block[m.dir], RecordOf(m))
                  ELSE Arb_CmdListRemove(d.block[m.dir], m.device)
             block == [d.block EXCEPT ![m.dir] = q]
  <2>1. QueueOK(q)
    BY <1>2, <1>3, RemoveOK, SetBlockOK
  <2>2. Arb_ProcessMessage(d0, m) = [d EXCEPT !.block = block, !.allow = d.allow]
    BY <1>2, <1>3, <1>6, <1>d DEF Arb_ProcessMessage, ArbData
  <2> HIDE DEF q
  <2>3. /\ \A x \in Dir : QueueOK(block[x])
        /\ DOMAIN block = Dir /\ DOMAIN d.allow = Dir
        /\ block = [x \in Dir |-> block[x]] /\ d.allow = [x \in Dir |-> d.allow[x]]
    BY <1>2, <1>3, <2>1
  <2> HIDE DEF block
  <2>4. DataInv([d EXCEPT !.block = block, !.allow = d.allow])
    BY <1>1, <1>2, <2>3, ReplaceQueues
  <2> QED BY <2>2, <2>4
<1>7. CASE m.verb \in {"CLEAR_ALLOW", "EMERGENCY_STOP"}
  <2> DEFINE allow == IF m.verb = "CLEAR_ALLOW" THEN [d.allow EXCEPT ![m.dir] = <<>>]
                      ELSE [x \in Dir |-> <<>>]
  <2>1. Arb_ProcessMessage(d0, m) = [d EXCEPT !.block = d.block, !.allow = allow]
    BY <1>2, <1>3, <1>7, <1>d DEF Arb_ProcessMessage, ArbData
  <2>2. \A x \in Dir : allow[x] = <<>> \/ allow[x] = d.allow[x]
    BY <1>2, <1>3, <1>7
  <2>3. DOMAIN allow = Dir /\ allow = [x \in Dir |-> allow[x]]
        /\ DOMAIN d.block = Dir /\ d.block = [x \in Dir |-> d.block[x]]
    BY <1>2, <1>3, <1>7
  <2> HIDE DEF allow
  <2>4. \A x \in Dir : AllowOK(allow[x], x) /\ \A e : Holds(allow[x], e) => Holds(d.allow[x], e)
    BY <1>2, <2>2, EmptyQueueOK
  <2>5. NoPowerConflict(allow)
    BY <1>2, <2>4 DEF NoPowerConflict, Dir
  <2>6. DataInv([d EXCEPT !.block = d.block, !.allow = allow])
    BY <1>1, <1>2, <2>3, <2>4, <2>5, ReplaceQueues
  <2> QED BY <2>1, <2>6
<1> QED BY <1>3, <1>4, <1>5, <1>6, <1>7 DEF Verb
-----------------------------------------------------------------------------
(* The decision *)

\* A command put forward stands in the queue of its direction, which nobody
\* blocks.
LEMMA CandidateOK ==
  ASSUME NEW d, DataInv(d), NEW dir \in Dir, NEW c \in Candidates(d, dir)
  PROVE  /\ c \in Record /\ c.dir = dir
         /\ d.block[dir] = <<>> /\ Holds(d.allow[dir], c.device)
<1>1. d.allow[dir] \in Seq(Record) /\ \A k \in DOMAIN d.allow[dir] : d.allow[dir][k].dir = dir
  BY DEF DataInv, AllowOK, QueueOK
<1>2. d.block[dir] = <<>> /\ d.allow[dir] # <<>> /\ c = Head(d.allow[dir])
  BY DEF Candidates
<1>3. Len(d.allow[dir]) \in Nat /\ DOMAIN d.allow[dir] = 1 .. Len(d.allow[dir])
  BY <1>1, LenProperties
<1>4. Len(d.allow[dir]) >= 1 /\ Head(d.allow[dir]) = d.allow[dir][1]
  BY <1>1, <1>2, <1>3, EmptySeq
<1>5. 1 \in DOMAIN d.allow[dir] /\ c = d.allow[dir][1]
  BY <1>2, <1>3, <1>4
<1>6. d.allow[dir][1] \in Record
  BY <1>1, <1>3, <1>5, ElementOfSeq
<1> QED BY <1>1, <1>2, <1>5, <1>6 DEF Holds

\* A decision changes no queue, and turns the motor only on an enabled axis,
\* in a direction nobody blocks, on behalf of a device that asks for it.
LEMMA DecisionOK ==
  ASSUME NEW d0, DataInv(d0)
  PROVE  LET e == Arb_Decision(d0) IN
         /\ DataInv(e)
         /\ e.block = d0.block /\ e.allow = d0.allow /\ e.enable = d0.enable
         /\ e.active_dir \in Dir =>
              /\ e.enable /\ e.block[e.active_dir] = <<>>
              /\ Holds(e.allow[e.active_dir], e.active_device)
<1> DEFINE d == [d0 EXCEPT !.conflict_fault = d0.enable /\ Conflict(d0)]
<1>0. d0 \in ArbData
  BY DEF DataInv
<1>1. /\ d \in ArbData
      /\ d.block = d0.block /\ d.allow = d0.allow /\ d.enable = d0.enable
  <2>1. (d0.enable /\ Conflict(d0)) \in BOOLEAN
    BY <1>0 DEF ArbData, Conflict
  <2> QED BY <1>0, <2>1 DEF ArbData
<1>d. Arb_Decision(d0) = IF d.enable /\ FinalCommands(d) # {}
                         THEN ApplyRun(d, CHOOSE c \in FinalCommands(d) : TRUE)
                         ELSE Arb_ApplyStop(d)
  BY DEF Arb_Decision
<1> HIDE DEF d
<1>2. DataInv(d)
  BY <1>1 DEF DataInv
<1>3. CASE d.enable /\ FinalCommands(d) # {}
  <2> DEFINE c == CHOOSE c \in FinalCommands(d) : TRUE
             e == ApplyRun(d, c)
  <2>1. c \in FinalCommands(d)
    BY <1>3
  <2>2. FinalCommands(d) \subseteq Candidates(d, "fwd") \cup Candidates(d, "rev")
    BY DEF FinalCommands
  <2>3. PICK dir \in Dir : c \in Candidates(d, dir)
    BY <2>1, <2>2 DEF Dir
  <2> HIDE DEF c
  <2>4. c \in Record /\ c.dir = dir /\ d.block[dir] = <<>> /\ Holds(d.allow[dir], c.device)
    BY <1>2, <2>3, CandidateOK
  <2>5. /\ e \in ArbData /\ e.block = d.block /\ e.allow = d.allow /\ e.enable = d.enable
        /\ e.active_dir = c.dir /\ e.active_device = c.device
    BY <1>1, <2>4 DEF ApplyRun, ArbData, Record
  <2>6. Arb_Decision(d0) = e
    BY <1>3, <1>d DEF c
  <2> HIDE DEF e
  <2>7. DataInv(e)
    BY <1>2, <2>5 DEF DataInv
  <2> QED BY <1>1, <1>3, <2>4, <2>5, <2>6, <2>7
<1>4. CASE ~ (d.enable /\ FinalCommands(d) # {})
  <2> DEFINE e == Arb_ApplyStop(d)
  <2>1. /\ e \in ArbData /\ e.block = d.block /\ e.allow = d.allow /\ e.enable = d.enable
        /\ e.active_dir = "none"
    <3>1. 0 \in 0 .. 100
      OBVIOUS
    <3> QED BY <1>1, <3>1 DEF Arb_ApplyStop, ArbData
  <2>2. Arb_Decision(d0) = e
    BY <1>4, <1>d
  <2> HIDE DEF e
  <2>3. DataInv(e)
    BY <1>2, <2>1 DEF DataInv
  <2> QED BY <1>1, <2>1, <2>2, <2>3 DEF Dir
<1> QED BY <1>3, <1>4
-----------------------------------------------------------------------------
(* The specification *)

\* How the inductive invariant splits into the data of the axes and the rest.
Driven(d, o) ==
  /\ o \in Dir => d.block[o] = <<>>
  /\ d.active_dir \in Dir => o = d.active_dir /\ Holds(d.allow[d.active_dir], d.active_device)

ByAxis ==
  /\ mq \in Seq(Msg) /\ Len(mq) <= MqDepth
  /\ arb \in [Axis -> ArbData]
  /\ out \in [Axis -> Dir \cup {"stop"}]
  /\ \A a \in Axis : DataInv(arb[a]) /\ Driven(arb[a], out[a])

\* The two forms of the invariant say the same.
LEMMA ArbInvByAxis == ArbInv <=> ByAxis
<1>1. ArbInv => ByAxis
  <2> SUFFICES ASSUME ArbInv PROVE ByAxis
    OBVIOUS
  <2>1. ASSUME NEW a \in Axis PROVE DataInv(arb[a])
    <3>1. arb[a] \in ArbData
      BY DEF ArbInv, ArbTypeOK
    <3>2. \A x \in Dir : arb[a].block[x] \in Seq(Record) /\ arb[a].allow[x] \in Seq(Record)
      BY <3>1 DEF ArbData
    <3> QED BY <3>1, <3>2 DEF ArbInv, DataInv, QueueOK, AllowOK, NoPowerConflict, QueuesBounded,
                 OneRecordPerDevice, AllowSorted, RecordsMatchQueue, PowerNeverConflicts
  <2>2. \A a \in Axis : Driven(arb[a], out[a])
    BY DEF ArbInv, Driven, NeverDriveBlocked, ActiveIsJustified
  <2> QED BY <2>1, <2>2 DEF ArbInv, ByAxis, ArbTypeOK, QueuesBounded
<1>2. ByAxis => ArbInv
  <2> SUFFICES ASSUME ByAxis PROVE ArbInv
    OBVIOUS
  <2>1. ArbTypeOK
    BY DEF ByAxis, ArbTypeOK
  <2>2. QueuesBounded /\ OneRecordPerDevice
    BY DEF ByAxis, DataInv, QueueOK, AllowOK, QueuesBounded, OneRecordPerDevice
  <2>3. AllowSorted /\ RecordsMatchQueue
    BY DEF ByAxis, DataInv, AllowOK, AllowSorted, RecordsMatchQueue
  <2>4. PowerNeverConflicts
    BY DEF ByAxis, DataInv, NoPowerConflict, PowerNeverConflicts
  <2>5. NeverDriveBlocked /\ ActiveIsJustified
    BY DEF ByAxis, Driven, NeverDriveBlocked, ActiveIsJustified
  <2> QED BY <2>1, <2>2, <2>3, <2>4, <2>5 DEF ArbInv
<1> QED BY <1>1, <1>2

\* An axis just initialised is in order, whatever its motor does.
LEMMA EmptyDataOK == DataInv(EmptyData) /\ \A o : Driven(EmptyData, o)
<1>1. EmptyData \in ArbData
  <2>1. 0 \in 0 .. 100 /\ <<>> \in Seq(Record)
    OBVIOUS
  <2> QED BY <2>1 DEF EmptyData, ArbData
<1>2. /\ \A x \in Dir : EmptyData.block[x] = <<>> /\ EmptyData.allow[x] = <<>>
      /\ EmptyData.active_dir \notin Dir
      /\ "fwd" \in Dir
  BY DEF EmptyData, Dir
<1>3. DataInv(EmptyData)
  BY <1>1, <1>2, EmptyQueueOK DEF DataInv, NoPowerConflict
<1> QED BY <1>2, <1>3 DEF Driven

\* One turn of the arbitration thread leaves its axis in order.
LEMMA TurnOK ==
  ASSUME NEW d, DataInv(d), NEW m \in Msg
  PROVE  LET e == Arb_Decision(Arb_ProcessMessage(d, m))
         IN DataInv(e) /\ e \in ArbData /\ OutputOp(e) \in Dir \cup {"stop"} /\ Driven(e, OutputOp(e))
<1> DEFINE e == Arb_Decision(Arb_ProcessMessage(d, m))
<1>1. /\ DataInv(e)
      /\ e.active_dir \in Dir =>
           /\ e.block[e.active_dir] = <<>>
           /\ Holds(e.allow[e.active_dir], e.active_device)
  BY ProcessMessageOK, DecisionOK
<1> HIDE DEF e
<1>2. e \in ArbData /\ e.active_dir \in Dir \cup {"none"}
  BY <1>1 DEF DataInv, ArbData
<1>3. OutputOp(e) = (IF e.active_dir \in Dir THEN e.active_dir ELSE "stop") /\ "stop" \notin Dir
  BY <1>2 DEF OutputOp, Dir
<1>4. Driven(e, OutputOp(e))
  BY <1>1, <1>3 DEF Driven
<1> QED BY <1>1, <1>2, <1>3, <1>4 DEF e

\* The invariant holds initially.
LEMMA InitInv == ArbInit => ArbInv
<1> SUFFICES ASSUME ArbInit PROVE ByAxis
  BY ArbInvByAxis
<1>1. mq \in Seq(Msg) /\ Len(mq) <= MqDepth
  <2>1. <<>> \in Seq(Msg) /\ Len(<<>>) = 0
    OBVIOUS
  <2> QED BY <2>1, ArbConstants DEF ArbInit
<1>2. \A a \in Axis : arb[a] = EmptyData /\ out[a] = "stop"
  BY DEF ArbInit
<1>3. EmptyData \in ArbData
  BY EmptyDataOK DEF DataInv
<1>4. arb \in [Axis -> ArbData] /\ out \in [Axis -> Dir \cup {"stop"}]
  BY <1>3 DEF ArbInit
<1> QED BY <1>1, <1>2, <1>4, EmptyDataOK DEF ByAxis

\* A step of any thread, with any command Arb_SendCommand accepts.
ArbStep ==
  \/ \E m \in Msg, urgent \in BOOLEAN : Arb_SendCommand(m, urgent)
  \/ \E a \in Axis, enable \in BOOLEAN : Arb_SetEnable(a, enable)
  \/ Arb_ThreadEntry
  \/ Arb_Module_Init

\* Every step of every thread preserves the invariant.
LEMMA StepInv == ArbInv /\ [ArbStep]_arbVars => ArbInv'
<1> SUFFICES ASSUME ByAxis, [ArbStep]_arbVars PROVE ByAxis'
  BY ArbInvByAxis, PTL
<1>1. ASSUME NEW m \in Msg, NEW urgent \in BOOLEAN, Arb_SendCommand(m, urgent) PROVE ByAxis'
  <2>1. m \in Msg
    OBVIOUS
  <2>2. mq \in Seq(Msg) /\ Len(mq) \in Nat /\ Len(mq) <= MqDepth
    BY LenProperties DEF ByAxis
  <2>3. /\ Append(mq, m) \in Seq(Msg) /\ Len(Append(mq, m)) = Len(mq) + 1
        /\ <<m>> \o mq \in Seq(Msg) /\ Len(<<m>> \o mq) = Len(mq) + 1
    <3>1. <<m>> \in Seq(Msg) /\ Len(<<m>>) = 1
      BY <2>1
    <3>2. <<m>> \o mq \in Seq(Msg) /\ Len(<<m>> \o mq) = Len(<<m>>) + Len(mq)
      BY <2>2, <3>1, ConcatProperties
    <3> QED BY <2>1, <2>2, <3>1, <3>2, AppendProperties
  <2>4. mq' \in Seq(Msg)
    BY <1>1, <2>2, <2>3 DEF Arb_SendCommand
  <2>5. Len(mq') <= MqDepth
    <3>1. CASE Len(mq) >= MqDepth
      BY <1>1, <2>2, <3>1 DEF Arb_SendCommand
    <3>2. CASE Len(mq) < MqDepth
      <4>1. mq' = <<m>> \o mq \/ mq' = Append(mq, m)
        BY <1>1, <2>2, <3>2, ArbConstants DEF Arb_SendCommand
      <4>2. Len(mq') = Len(mq) + 1
        BY <2>3, <4>1
      <4> QED BY <2>2, <3>2, <4>2, ArbConstants
    <3> QED BY <2>2, <3>1, <3>2, ArbConstants
  <2> QED BY <1>1, <2>4, <2>5 DEF ByAxis, Arb_SendCommand
<1>2. ASSUME NEW a \in Axis, NEW enable \in BOOLEAN, Arb_SetEnable(a, enable) PROVE ByAxis'
  <2> DEFINE e == [arb[a] EXCEPT !.enable = enable]
  <2>1. arb[a] \in ArbData /\ DataInv(arb[a]) /\ Driven(arb[a], out[a])
    BY DEF ByAxis
  <2>2. /\ e \in ArbData /\ e.block = arb[a].block /\ e.allow = arb[a].allow
        /\ e.active_dir = arb[a].active_dir /\ e.active_device = arb[a].active_device
    BY <2>1 DEF ArbData
  <2>3. arb' = [arb EXCEPT ![a] = e]
    BY <1>2 DEF Arb_SetEnable
  <2> HIDE DEF e
  <2>4. DataInv(e) /\ Driven(e, out[a])
    BY <2>1, <2>2 DEF DataInv, Driven
  <2>5. arb' \in [Axis -> ArbData] /\ \A b \in Axis : arb'[b] = IF b = a THEN e ELSE arb[b]
    BY <2>2, <2>3 DEF ByAxis
  <2>6. mq' = mq /\ out' = out
    BY <1>2 DEF Arb_SetEnable
  <2>7. ASSUME NEW b \in Axis PROVE DataInv(arb'[b]) /\ Driven(arb'[b], out'[b])
    BY <2>4, <2>5, <2>6 DEF ByAxis
  <2> QED BY <2>5, <2>6, <2>7 DEF ByAxis
<1>3. CASE Arb_ThreadEntry
  <2> DEFINE m == Head(mq)
             e == Arb_Decision(Arb_ProcessMessage(arb[m.axis], m))
  <2>1. mq \in Seq(Msg) /\ Len(mq) \in Nat /\ mq # <<>> /\ Len(mq) <= MqDepth
    BY <1>3, LenProperties DEF ByAxis, Arb_ThreadEntry
  <2>2. /\ m \in Msg /\ Tail(mq) \in Seq(Msg) /\ Len(Tail(mq)) = Len(mq) - 1
    BY <2>1, HeadTailProperties
  <2>3. m.axis \in Axis
    BY <2>2 DEF Msg
  <2>4. DataInv(arb[m.axis])
    BY <2>3 DEF ByAxis
  <2>5. /\ arb' = [arb EXCEPT ![m.axis] = e]
        /\ out' = [out EXCEPT ![m.axis] = OutputOp(e)]
        /\ mq' = Tail(mq)
    BY <1>3 DEF Arb_ThreadEntry
  <2> HIDE DEF m
  <2>6. DataInv(e) /\ e \in ArbData /\ OutputOp(e) \in Dir \cup {"stop"} /\ Driven(e, OutputOp(e))
    BY <2>2, <2>4, TurnOK
  <2> HIDE DEF e
  <2>7. /\ arb' \in [Axis -> ArbData] /\ out' \in [Axis -> Dir \cup {"stop"}]
        /\ \A b \in Axis : /\ arb'[b] = IF b = m.axis THEN e ELSE arb[b]
                           /\ out'[b] = IF b = m.axis THEN OutputOp(e) ELSE out[b]
    BY <2>3, <2>5, <2>6 DEF ByAxis
  <2>8. mq' \in Seq(Msg) /\ Len(mq') <= MqDepth
    BY <2>1, <2>2, <2>5, ArbConstants
  <2>9. ASSUME NEW b \in Axis PROVE DataInv(arb'[b]) /\ Driven(arb'[b], out'[b])
    BY <2>6, <2>7 DEF ByAxis
  <2> QED BY <2>7, <2>8, <2>9 DEF ByAxis
<1>4. CASE Arb_Module_Init
  <2>1. EmptyData \in ArbData
    BY EmptyDataOK DEF DataInv
  <2>2. arb' \in [Axis -> ArbData] /\ (\A b \in Axis : arb'[b] = EmptyData) /\ mq' = mq /\ out' = out
    BY <1>4, <2>1 DEF Arb_Module_Init
  <2> QED BY <2>2, EmptyDataOK DEF ByAxis
<1>5. CASE UNCHANGED arbVars
  BY <1>5 DEF ByAxis, arbVars
<1> QED BY <1>1, <1>2, <1>3, <1>4, <1>5 DEF ArbStep

\* Every step of the arbiter keeps it.
LEMMA NextInv == ArbInv /\ [ArbNext]_arbVars => ArbInv'
<1>1. ArbNext => ArbStep
  BY ArbConstants DEF ArbNext, ArbStep
<1> QED BY <1>1, StepInv

\* The arbitration kernel keeps its inductive invariant.
THEOREM ArbiterInvariant == ArbSpec => []ArbInv
BY InitInv, NextInv, PTL DEF ArbSpec

\* Whatever commands arrive and in whatever order, every variable has its type.
THEOREM ArbiterTypeCorrect == ArbSpec => []ArbTypeOK
<1>1. ArbInv => ArbTypeOK
  BY DEF ArbInv
<1> QED BY <1>1, ArbiterInvariant, PTL

\* For any number of axes, devices, queue sizes and commands no record array
\* overflows, one removal withdraws a device for good, and the head of an
\* allow queue is a command of the best priority.
THEOREM ArbiterQueues == ArbSpec => []QueuesWellFormed
<1>1. ArbInv => QueuesWellFormed
  BY DEF ArbInv, QueuesWellFormed
<1> QED BY <1>1, ArbiterInvariant, PTL

\* The motor never turns in a blocked direction.
THEOREM ArbiterNeverDrivesBlocked == ArbSpec => []NeverDriveBlocked
<1>1. ArbInv => NeverDriveBlocked
  BY DEF ArbInv
<1> QED BY <1>1, ArbiterInvariant, PTL

\* A direction reported as active is one some device still asks for.
THEOREM ArbiterActiveIsJustified == ArbSpec => []ActiveIsJustified
<1>1. ArbInv => ActiveIsJustified
  BY DEF ArbInv
<1> QED BY <1>1, ArbiterInvariant, PTL

\* A reversal of the supply never leaves both power commands standing.
THEOREM ArbiterPowerSource == ArbSpec => []PowerNeverConflicts
<1>1. ArbInv => PowerNeverConflicts
  BY DEF ArbInv
<1> QED BY <1>1, ArbiterInvariant, PTL

\* A command never changes the enable flag, and an emergency stop withdraws
\* every run command.
LEMMA ProcessKeeps ==
  ASSUME NEW d, DataInv(d), NEW m \in Msg
  PROVE  LET p == Arb_ProcessMessage(d, m)
         IN p.enable = d.enable /\ (m.verb = "EMERGENCY_STOP" => \A x \in Dir : p.allow[x] = <<>>)
<1> DEFINE p == Arb_ProcessMessage(d, m)
           d1 == Arb_RemoveOppositePowerAllow(d, m)
<1>1. d \in ArbData /\ m.dir \in Dir /\ m.verb \in Verb
  BY RecordOfMsg DEF DataInv
<1>2. d1 \in ArbData /\ d1.enable = d.enable
  <2>1. d1.enable = d.enable
    BY <1>1 DEF Arb_RemoveOppositePowerAllow, ArbData
  <2> QED BY <2>1, RemoveOppositeOK DEF DataInv
<1>3. p.enable = d1.enable /\ (m.verb = "EMERGENCY_STOP" => \A x \in Dir : p.allow[x] = <<>>)
  <2>1. p = CASE m.verb = "RUN" -> RunCommand(d1, m)
       [] m.verb = "STOP" ->
            [d1 EXCEPT !.allow = [x \in Dir |-> Arb_CmdListRemove(d1.allow[x], m.device)]]
       [] m.verb = "BLOCK" ->
            [d1 EXCEPT !.block[m.dir] = Arb_CmdListSetBlock(@, RecordOf(m))]
       [] m.verb = "UNBLOCK" ->
            [d1 EXCEPT !.block[m.dir] = Arb_CmdListRemove(@, m.device)]
       [] m.verb = "CLEAR_ALLOW" -> [d1 EXCEPT !.allow[m.dir] = <<>>]
       [] m.verb = "EMERGENCY_STOP" -> [d1 EXCEPT !.allow = [x \in Dir |-> <<>>]]
    BY DEF Arb_ProcessMessage
  <2> HIDE DEF p, d1
  <2> QED BY <1>1, <1>2, <2>1 DEF RunCommand, ArbData, Verb
<1> HIDE DEF d1
<1> QED BY <1>2, <1>3

\* A disabled axis, and one that processes an emergency stop, ends its turn
\* with the motor stopped.
LEMMA StoppedTurn ==
  ASSUME NEW d, DataInv(d), NEW m \in Msg, ~ d.enable \/ m.verb = "EMERGENCY_STOP"
  PROVE  OutputOp(Arb_Decision(Arb_ProcessMessage(d, m))) = "stop"
<1> DEFINE p == Arb_ProcessMessage(d, m)
           e == Arb_Decision(p)
<1>1. p.enable = d.enable /\ (m.verb = "EMERGENCY_STOP" => \A x \in Dir : p.allow[x] = <<>>)
  BY ProcessKeeps
<1>2. /\ DataInv(e) /\ e.allow = p.allow /\ e.enable = p.enable
      /\ e.active_dir \in Dir => e.enable /\ Holds(e.allow[e.active_dir], e.active_device)
  BY ProcessMessageOK, DecisionOK
<1> HIDE DEF p, e
<1>3. e.active_dir \notin Dir
  BY <1>1, <1>2, EmptyQueueOK
<1>4. e.active_dir \in Dir \cup {"none"}
  BY <1>2 DEF DataInv, ArbData
<1> QED BY <1>3, <1>4 DEF OutputOp, e, p

\* A motor at rest on a disabled axis stays at rest, and carrying out an
\* emergency stop always stops it.
THEOREM ArbiterStaysStopped == ArbSpec => DisabledStaysStopped
<1> DEFINE A == \A a \in Axis :
       /\ ~ arb[a].enable /\ out[a] = "stop" => out'[a] = "stop"
       /\ (mq # <<>> /\ mq' = Tail(mq) /\ Head(mq).axis = a
             /\ (~ arb[a].enable \/ Head(mq).verb = "EMERGENCY_STOP"))
          => out'[a] = "stop"
<1>1. ArbInv /\ [ArbNext]_arbVars => [A]_arbVars
  <2> SUFFICES ASSUME ByAxis, ArbNext PROVE A
    BY ArbInvByAxis
  <2>1. CASE Arb_ThreadEntry
    <3> DEFINE m == Head(mq)
               e == Arb_Decision(Arb_ProcessMessage(arb[m.axis], m))
    <3>1. mq \in Seq(Msg) /\ mq # <<>>
      BY <2>1 DEF ByAxis, Arb_ThreadEntry
    <3>2. m \in Msg
      BY <3>1, HeadTailProperties
    <3>3. m.axis \in Axis
      BY <3>2 DEF Msg
    <3>4. DataInv(arb[m.axis])
      BY <3>3 DEF ByAxis
    <3>5. out' = [out EXCEPT ![m.axis] = OutputOp(e)] /\ DOMAIN out = Axis
      BY <2>1 DEF Arb_ThreadEntry, ByAxis
    <3>6. ~ arb[m.axis].enable \/ m.verb = "EMERGENCY_STOP" => OutputOp(e) = "stop"
      <4> HIDE DEF m
      <4> QED BY <3>2, <3>4, StoppedTurn
    <3> HIDE DEF e
    <3> QED BY <3>5, <3>6
  <2>2. CASE ~ Arb_ThreadEntry
    <3>1. out' = out /\ (mq' = mq \/ \E m \in Command :
                              mq' = <<m>> \o mq \/ mq' = Append(mq, m))
      BY <2>2 DEF ArbNext, Arb_SendCommand, Arb_SetEnable, Arb_Module_Init
    <3>2. ASSUME mq # <<>> PROVE mq' # Tail(mq)
      <4>1. mq \in Seq(Msg) /\ Len(mq) \in Nat
        BY LenProperties DEF ByAxis
      <4>2. Len(Tail(mq)) = Len(mq) - 1
        BY <3>2, <4>1, HeadTailProperties
      <4>3. ASSUME NEW m \in Msg
            PROVE  Len(<<m>> \o mq) = Len(mq) + 1 /\ Len(Append(mq, m)) = Len(mq) + 1
        <5>1. <<m>> \in Seq(Msg) /\ Len(<<m>>) = 1
          OBVIOUS
        <5>2. Len(<<m>> \o mq) = Len(<<m>>) + Len(mq)
          BY <4>1, <5>1, ConcatProperties
        <5> QED BY <4>1, <5>1, <5>2, AppendProperties
      <4>4. Len(mq') = Len(mq) \/ Len(mq') = Len(mq) + 1
        BY <3>1, <4>3, ArbConstants
      <4> QED BY <4>1, <4>2, <4>4
    <3> QED BY <3>1, <3>2
  <2> QED BY <2>1, <2>2
<1>2. ArbSpec => [][A]_arbVars
  BY <1>1, ArbiterInvariant, PTL DEF ArbSpec
<1> QED BY <1>2 DEF DisabledStaysStopped
=============================================================================
