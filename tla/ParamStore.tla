------------------------------ MODULE ParamStore ------------------------------
(***************************************************************************)
(* The flash parameter store, Utils/param_manager.c, with its client for   *)
(* the rod position, dev_param_rod.c.                                      *)
(*                                                                         *)
(* Records are appended to a flash sector, word by word.  At power-up all  *)
(* sectors are scanned and the valid record with the largest sequence      *)
(* number is loaded.  Power may fail between any two words: the rod        *)
(* position is saved exactly when the supply goes away.                    *)
(*                                                                         *)
(* Abstractions.  A word is a tagged value; the CRC of a record is the     *)
(* tuple of the fields it covers.  Programming can only clear bits, so a   *)
(* word that is not blank becomes the bitwise AND of old and new.  Power   *)
(* lost during an erase leaves the sector untouched or unreadable.  The    *)
(* scan only reads and is one step.  Internal_VerifyBuffer reads again     *)
(* what every word's own check has just read and is left out.              *)
(***************************************************************************)
EXTENDS Integers, Sequences, FiniteSets

CONSTANTS
  SecStart, SecEnd,  \* the sectors of the store, used from SecStart down
  Slots,             \* records that fit in a sector
  MaxLife,           \* MAX_ERASE_LIFE
  MaxRetry,          \* MAX_WRITE_RETRY
  Data,              \* positions that may be saved
  Default,           \* PARAM_ROD_STROKE_DFT
  MaxFaults,         \* bound on the words and erasures that fail
  MaxSeq             \* bound on the sequence numbers

ASSUME StoreConstants ==
  /\ SecStart \in Nat /\ SecEnd \in 0 .. SecStart
  /\ Slots \in Nat \ {0} /\ MaxLife \in Nat \ {0} /\ MaxRetry \in Nat \ {0}
  /\ Default \notin Data /\ MaxFaults \in Nat /\ MaxSeq \in Nat

Sector == SecEnd .. SecStart

RecWords == 6               \* head, sequence_id, erase_count, position_mm, checksum, tail
SeqAt == 1                  \* seqOffset, in words
CrcAt == 4                  \* checksumOffset, in words
Words == Slots * RecWords   \* words of a sector

VARIABLES
  flash,    \* the words of every sector
  ram,      \* *pParamBuf: seq, erase, data
  rt,       \* the runtime position: sec, addr (in words, within the sector)
  job,      \* what the processor is doing
  saved,    \* history: the position saved last with success, or Default
  fresh,    \* history: no save has ended with success since power-up
  wiped,    \* history: the save under way has erased a sector
  faults    \* history: words and erasures that failed

history == <<saved, fresh, wiped>>
storeVars == <<flash, ram, rt, job, saved, fresh, wiped, faults>>
-----------------------------------------------------------------------------
(* Words and records *)

Blank == <<"blank">>
Junk == <<"junk">>
Head0 == <<"head">>
Tail0 == <<"tail">>

Crc(r) == <<"crc", r.seq, r.erase, r.data>>

\* The words of record r, in the order they are written.
WordsOf(r) ==
  <<Head0, <<"seq", r.seq>>, <<"erase", r.erase>>, <<"data", r.data>>, Crc(r), Tail0>>

\* The largest number that has no bit but those of a and of b.
BitAnd(a, b) ==
  LET Within(c, n) == c <= n /\ \A i \in 0 .. n : (c \div 2^i) % 2 <= (n \div 2^i) % 2
      both == {0} \cup {c \in 1 .. a : Within(c, a) /\ Within(c, b)}
  IN CHOOSE c \in both : \A d \in both : d <= c

\* What a cell may hold after new is programmed over old.  The bits of a
\* position or a CRC are not modelled: ANDing two of them may give either
\* or neither.
Programmed(old, new) ==
  IF old \in {Blank, new} THEN {new}
  ELSE IF old[1] = "seq" /\ new[1] = "seq" THEN {<<"seq", BitAnd(old[2], new[2])>>}
  ELSE {old, new, Junk}

ReadRec(w, a) == [seq |-> w[a + SeqAt][2], erase |-> w[a + 2][2], data |-> w[a + 3][2]]

\* Tail and checksum of the record at a are right.
ValidAt(w, a) ==
  /\ w[a + RecWords - 1] = Tail0
  /\ \A i \in {1, 2, 3} : Len(w[a + i]) = 2
  /\ w[a + CrcAt] = Crc(ReadRec(w, a))

\* The valid records the scan finds in a sector: a head with the magic is
\* skipped as a whole record, a blank head ends the sector, anything else
\* is skipped word by word.
ScanFrom(w, scan, a) ==
  IF a + RecWords > Words THEN {}
  ELSE IF w[a] = Head0 THEN (IF ValidAt(w, a) THEN {a} ELSE {}) \cup scan[a + RecWords]
  ELSE IF w[a] = Blank THEN {}
  ELSE scan[a + 1]
FoundIn(w) == LET scan[a \in 0 .. Words] == ScanFrom(w, scan, a) IN scan[0]

Found == UNION {{[sec |-> s, addr |-> a] : a \in FoundIn(flash[s])} : s \in Sector}
RecAt(p) == ReadRec(flash[p.sec], p.addr)

\* The order in which the scan meets two records.
Before(p, q) == p.sec > q.sec \/ (p.sec = q.sec /\ p.addr < q.addr)

\* The largest sequence number wins, among equals the first one met.
Best ==
  CHOOSE p \in Found : \A q \in Found :
    RecAt(p).seq > RecAt(q).seq \/ (RecAt(p).seq = RecAt(q).seq /\ (p = q \/ Before(p, q)))
-----------------------------------------------------------------------------
(* Power-up *)

Idle == [do |-> "idle"]
Off == [do |-> "off"]
Attempt(retry) == [do |-> "attempt", retry |-> retry]
Done(at) == [do |-> "done", at |-> at]
Write(retry, at, k) == [do |-> "write", retry |-> retry, at |-> at, k |-> k]

\* The flash fails to do what it was told.
Failure == faults < MaxFaults /\ faults' = faults + 1

Erased == [a \in 0 .. Words - 1 |-> Blank]

\* What erasing sector s may do to the flash.
Internal_Erase(s) ==
  \/ flash' = [flash EXCEPT ![s] = Erased] /\ UNCHANGED faults
  \/ UNCHANGED flash /\ Failure

\* Mutant: the sequence number of the defaults is not reset to 0.
DefaultSeq_One == 1

DefaultSeq == 0

\* Without a valid record the defaults are saved to the first sector.
Param_Init ==
  /\ job = Off
  /\ \/ /\ Found # {}
        /\ rt' = Best /\ ram' = RecAt(Best)
        /\ job' = Idle
        /\ UNCHANGED <<flash, faults>>
     \/ /\ Found = {}
        /\ ram' = [seq |-> DefaultSeq, erase |-> 1, data |-> Default]
        /\ rt' = [sec |-> SecStart, addr |-> 0]
        /\ Internal_Erase(SecStart)
        /\ job' = Attempt(0)
  /\ fresh' = TRUE /\ wiped' = FALSE
  /\ UNCHANGED saved
-----------------------------------------------------------------------------
(* Saving *)

\* The position of a calibrated rod, when the supply fails.
Dev_Param_RodSave(d) ==
  /\ job = Idle /\ ram.seq < MaxSeq
  /\ ram' = [ram EXCEPT !.data = d]
  /\ job' = Attempt(0)
  /\ wiped' = FALSE
  /\ UNCHANGED <<flash, rt, saved, fresh, faults>>

Fail(retry) == job' = IF retry + 1 < MaxRetry THEN Attempt(retry + 1) ELSE Idle

Full == rt.addr + RecWords > Words
NextSector == IF rt.sec <= SecEnd THEN SecStart ELSE rt.sec - 1

\* Mutant: an attempt does not advance the sequence number.
Bump_Not(r, erase) == [r EXCEPT !.erase = erase]

Bump(r, erase) == [r EXCEPT !.seq = @ + 1, !.erase = erase]

\* Mutant: a sector is erased once more than its life allows.
Worn_OffByOne == ram.erase > MaxLife

Worn == ram.erase >= MaxLife

\* Up to the first word of an attempt.  A full sector is erased in place,
\* or, when worn, the next one is.
Param_Save_Prepare ==
  /\ job.do = "attempt"
  /\ \/ /\ ~ Full
        /\ ram' = Bump(ram, ram.erase)
        /\ job' = Write(job.retry, rt.addr, 0)
        /\ UNCHANGED <<flash, rt, wiped, faults>>
     \/ /\ Full /\ ~ Worn
        /\ flash' = [flash EXCEPT ![rt.sec] = Erased]
        /\ ram' = Bump(ram, ram.erase + 1)
        /\ job' = Write(job.retry, 0, 0)
        /\ wiped' = TRUE
        /\ UNCHANGED <<rt, faults>>
     \/ /\ Full /\ ~ Worn /\ Failure
        /\ Fail(job.retry)
        /\ UNCHANGED <<flash, ram, rt, wiped>>
     \/ /\ Full /\ Worn
        /\ Internal_Erase(NextSector)
        /\ rt' = [rt EXCEPT !.sec = NextSector]
        /\ ram' = Bump(ram, 1)
        /\ job' = Write(job.retry, 0, 0)
        /\ wiped' = TRUE
  /\ UNCHANGED <<saved, fresh>>

\* Mutant: after success the write position stays.
AfterSave_Stays(at) == at

AfterSave(at) == at + RecWords

\* Mutant: what was read back is not compared.
ReadsBack_Always(now, w) == TRUE

\* HC32FLASH_WritedWord_Check.
ReadsBack(now, w) == now = w

\* One word.  What is read back decides: the next word, success after the
\* last one, or another attempt behind this record.
Param_Save_Word ==
  /\ job.do = "write"
  /\ LET w == WordsOf(ram)[job.k + 1]
         a == job.at + job.k
         old == flash[rt.sec][a]
     IN \E now \in Programmed(old, w) \cup {old, Junk} :
        /\ IF now \in Programmed(old, w) THEN UNCHANGED faults ELSE Failure
        /\ flash' = [flash EXCEPT ![rt.sec][a] = now]
        /\ \/ /\ ReadsBack(now, w)
              /\ job' = IF job.k + 1 < RecWords THEN [job EXCEPT !.k = @ + 1] ELSE Done(job.at)
              /\ UNCHANGED rt
           \/ /\ ~ ReadsBack(now, w)
              /\ rt' = [rt EXCEPT !.addr = job.at + RecWords]
              /\ Fail(job.retry)
  /\ UNCHANGED <<ram, history>>

\* Success: the next record goes behind this one.
Param_Save_Done ==
  /\ job.do = "done"
  /\ rt' = [rt EXCEPT !.addr = AfterSave(job.at)]
  /\ job' = Idle
  /\ saved' = ram.data /\ fresh' = FALSE
  /\ UNCHANGED <<flash, ram, wiped, faults>>

\* Power fails, perhaps in the middle of an erase.
PowerLoss ==
  /\ job # Off /\ job' = Off
  /\ \/ UNCHANGED flash
     \/ /\ job.do = "attempt" /\ Full
        /\ LET s == IF Worn THEN NextSector ELSE rt.sec
           IN flash' = [flash EXCEPT ![s] = [a \in 0 .. Words - 1 |-> Junk]]
  /\ UNCHANGED <<ram, rt, history, faults>>

StoreInit ==
  /\ flash = [s \in Sector |-> Erased]
  /\ ram = [seq |-> 0, erase |-> 0, data |-> Default]
  /\ rt = [sec |-> SecStart, addr |-> 0]
  /\ job = Off
  /\ saved = Default /\ fresh = TRUE /\ wiped = FALSE /\ faults = 0

StoreNext ==
  \/ Param_Init
  \/ \E d \in Data : Dev_Param_RodSave(d)
  \/ Param_Save_Prepare
  \/ Param_Save_Word
  \/ Param_Save_Done
  \/ PowerLoss

StoreSpec == StoreInit /\ [][StoreNext]_storeVars
-----------------------------------------------------------------------------
(* Properties *)

\* Every variable has its type.
StoreTypeOK ==
  /\ DOMAIN flash = Sector
  /\ rt.sec \in Sector /\ rt.addr \in 0 .. Words
  /\ ram.data \in Data \cup {Default} /\ saved \in Data \cup {Default}
  /\ ram.seq \in Nat /\ ram.erase \in 0 .. MaxLife
  /\ job.do \in {"off", "idle", "attempt", "write", "done"}

\* What the next power-up would load.
Loads(d) == Found # {} /\ RecAt(Best).data = d

Saving == job.do \in {"attempt", "write", "done"}

\* A save that reported success is what the next power-up loads, whatever
\* torn records earlier power failures left in the sectors.  (Param_Save skips
\* a word that failed, but the scan stops at a head that stayed blank.)
SavedSurvives == job = Idle /\ ~ fresh /\ faults = 0 => Loads(saved)

\* Success is reported only for a record that stands complete on the flash,
\* although words and erasures may fail.
SuccessIsOnFlash ==
  job.do = "done" => /\ ValidAt(flash[rt.sec], job.at)
                     /\ ReadRec(flash[rt.sec], job.at) = ram

\* Dev_Param_RodApply takes a record with a sequence number above 1 for the
\* position of a calibrated rod: it never is the default record.  (Every
\* attempt of Param_Save counts, so this is about flash that does not fail.)
RestoredIsReal ==
  faults = 0 /\ Found # {} /\ RecAt(Best).seq >= 2 => RecAt(Best).data \in Data

\* "Append": once a save has succeeded since power-up, and as long as none
\* erases, power lost at any word leaves the old position or the new one.
AppendIsSafe ==
  Saving /\ ~ fresh /\ ~ wiped /\ faults = 0 => Loads(saved) \/ Loads(ram.data)

\* flash存储模块.md:143: power lost half way through a save rolls back to
\* the old record; at worst the last save is lost.
PowerLossRollsBack ==
  Saving /\ saved # Default => Loads(saved) \/ Loads(ram.data)
=============================================================================
