------------------------ MODULE SharedObjectsProofs ------------------------
(***************************************************************************)
(* The two objects that goroutines share in memory, for any number of      *)
(* callers, readers and messages.  The validator: its counters add up, and *)
(* a hopeless error rate stays so.  The order books, for any number of     *)
(* readers, writes and writers: the number runs behind the stores by those *)
(* that are not counted; where stores exclude each other two sides read    *)
(* between equal numbers were one book.                                    *)
(***************************************************************************)
EXTENDS Validator, OrderBook, FiniteSetTheorems, TLAPS

-----------------------------------------------------------------------------
(***************************************************************************)
(* The validator.                                                          *)
(***************************************************************************)
Busy == {c \in Callers : vpc[c] # "idle"}

(* The calls in progress can be counted, and there are at most as many as  *)
(* callers.                                                                *)
LEMMA BusyIsFinite ==
  /\ IsFiniteSet(Busy) /\ Cardinality(Busy) \in Nat
  /\ Cardinality(Callers) \in Nat /\ Cardinality(Busy) <= Cardinality(Callers)
<1>1. Busy \subseteq Callers
  BY DEF Busy
<1>2. QED
  BY <1>1, FS_Subset, FS_CardinalityType, ValidatorAssumption

(* A call that begins is one more in progress.                             *)
LEMMA BeginsAddsOne ==
  ASSUME ValTypeOK, NEW c \in Callers, ValidateBegins(c)
  PROVE  Cardinality(Busy') = Cardinality(Busy) + 1
<1>1. Busy' = Busy \cup {c} /\ c \notin Busy
  BY DEF Busy, ValidateBegins, ValTypeOK
<1>2. QED
  BY <1>1, BusyIsFinite, FS_AddElement

(* A call that counts its verdict is over.                                 *)
LEMMA CountsRemovesOne ==
  ASSUME ValTypeOK, NEW c \in Callers, CountsVerdict(c)
  PROVE  Cardinality(Busy') = Cardinality(Busy) - 1
<1>1. Busy' = Busy \ {c} /\ c \in Busy
  BY DEF Busy, CountsVerdict, ValTypeOK
<1>2. QED
  BY <1>1, BusyIsFinite, FS_RemoveElement

(* A call that looks at the rate stays in progress.                        *)
LEMMA ReadsKeepsBusy ==
  ASSUME ValTypeOK, NEW c \in Callers, ReadsRate(c)
  PROVE  Cardinality(Busy') = Cardinality(Busy)
<1>1. Busy' = Busy
  BY DEF Busy, ReadsRate, ValTypeOK
<1>2. QED
  BY <1>1

-----------------------------------------------------------------------------
LEMMA InitTypes == ValInit => ValTypeOK
<1> SUFFICES ASSUME ValInit PROVE ValTypeOK
  OBVIOUS
<1>1. Busy = {}
  BY DEF Busy, ValInit
<1>2. Cardinality(Busy) = 0
  BY <1>1, FS_EmptySet
<1>3. QED
  BY <1>2, ValidatorAssumption DEF ValInit, ValTypeOK, Busy

LEMMA StepTypes == ValTypeOK /\ [ValNext]_valVars => ValTypeOK'
<1> SUFFICES ASSUME ValTypeOK, [ValNext]_valVars PROVE ValTypeOK'
  OBVIOUS
<1>0. validated = passed + failed + Cardinality(Busy)
  BY DEF ValTypeOK, Busy
<1>1. ASSUME NEW c \in Callers, ValidateBegins(c) PROVE ValTypeOK'
  <2>0. Cardinality(Busy') = Cardinality(Busy) + 1
    BY <1>1, BeginsAddsOne
  <2>1. validated' = passed' + failed' + Cardinality(Busy')
    BY <1>0, <1>1, <2>0, BusyIsFinite DEF ValidateBegins, ValTypeOK
  <2>2. \A m \in Message : Sound(m) \in BOOLEAN
    BY DEF Sound, Connectivity
  <2>3. verdict' \in [Callers -> BOOLEAN]
    BY <1>1, <2>2, SamplesAssumption DEF ValidateBegins, ValTypeOK
  <2>4. QED
    BY <1>1, <2>1, <2>3, ValidatorAssumption DEF ValidateBegins, ValTypeOK, Busy
<1>2. ASSUME NEW c \in Callers, ReadsRate(c) PROVE ValTypeOK'
  <2>1. validated' = passed' + failed' + Cardinality(Busy')
    <3>1. Cardinality(Busy') = Cardinality(Busy)
      BY <1>2, ReadsKeepsBusy
    <3>2. QED
      BY <1>0, <1>2, <3>1 DEF ReadsRate
  <2>2. verdict' \in [Callers -> BOOLEAN]
    BY <1>2, Zenon DEF ReadsRate, ValTypeOK
  <2>3. QED
    BY <1>2, <2>1, <2>2 DEF ReadsRate, ValTypeOK, Busy
<1>3. ASSUME NEW c \in Callers, CountsVerdict(c) PROVE ValTypeOK'
  <2>1. validated' = passed' + failed' + Cardinality(Busy')
    <3>1. Cardinality(Busy') = Cardinality(Busy) - 1
      BY <1>3, CountsRemovesOne
    <3>2. QED
      BY <1>0, <1>3, <3>1, BusyIsFinite DEF CountsVerdict, ValTypeOK
  <2>2. QED
    BY <1>3, <2>1 DEF CountsVerdict, ValTypeOK, Busy
<1>4. CASE UNCHANGED valVars
  BY <1>4 DEF valVars, ValTypeOK
<1>5. QED
  BY <1>1, <1>2, <1>3, <1>4 DEF ValNext

(* Every message is counted once when its call begins and once when it     *)
(* ends, for whatever callers interleave.                                  *)
THEOREM CountersAddUp == ValSpec => []ValTypeOK
<1>1. QED
  BY InitTypes, StepTypes, PTL DEF ValSpec

-----------------------------------------------------------------------------
(* When it is hopeless the rate is too high for whoever looks at it.       *)
LEMMA HopelessRate == ValTypeOK /\ Hopeless => ~RateOK
<1> SUFFICES ASSUME ValTypeOK, Hopeless PROVE ~RateOK
  OBVIOUS
<1> DEFINE all == passed + failed + Cardinality(Callers)
<1>1. all \in Nat /\ validated \in Nat /\ validated <= all
  BY BusyIsFinite, ValidatorAssumption DEF ValTypeOK, Busy
<1>2. \A n, a, b \in Nat : a <= b => n * a <= n * b
  OBVIOUS
<1>3. RateNum * validated <= RateNum * all
  BY <1>1, <1>2, ValidatorAssumption
<1>4. RateNum * validated \in Nat /\ RateNum * all \in Nat /\ failed * RateDen \in Nat
  BY <1>1, ValidatorAssumption DEF ValTypeOK
<1>5. failed * RateDen > RateNum * all
  BY DEF Hopeless
<1>6. QED
  BY <1>3, <1>4, <1>5 DEF RateOK

LEMMA HopelessStep == ValTypeOK /\ [ValNext]_valVars => (Hopeless => Hopeless' /\ passed' = passed)
<1> SUFFICES ASSUME ValTypeOK, [ValNext]_valVars, Hopeless PROVE Hopeless' /\ passed' = passed
  OBVIOUS
<1>1. ASSUME NEW c \in Callers, ValidateBegins(c) PROVE Hopeless' /\ passed' = passed
  BY <1>1 DEF ValidateBegins, Hopeless, ValTypeOK
<1>2. ASSUME NEW c \in Callers, ReadsRate(c) PROVE Hopeless' /\ passed' = passed
  <2>1. ~verdict'[c]
    BY <1>2, HopelessRate DEF ReadsRate, ValTypeOK
  <2>2. QED
    BY <1>2, <2>1 DEF ReadsRate, Hopeless, ValTypeOK
<1>3. ASSUME NEW c \in Callers, CountsVerdict(c) PROVE Hopeless' /\ passed' = passed
  <2>1. failed' = failed + 1 /\ passed' = passed
    BY <1>3 DEF CountsVerdict, Hopeless
  <2>2. \A d \in Callers : vpc'[d] = "count" => ~verdict'[d]
    BY <1>3 DEF CountsVerdict, Hopeless, ValTypeOK
  <2> DEFINE all == passed + failed + Cardinality(Callers)
  <2>3. all \in Nat /\ failed \in Nat
    BY BusyIsFinite DEF ValTypeOK
  <2>4. failed * RateDen \in Nat /\ RateNum * all \in Nat
    BY <2>3, ValidatorAssumption
  <2>5. (failed + 1) * RateDen = failed * RateDen + RateDen
    BY <2>3, ValidatorAssumption
  <2>6. RateNum * (all + 1) = RateNum * all + RateNum
    BY <2>3, ValidatorAssumption
  <2>7. failed * RateDen > RateNum * all
    BY DEF Hopeless
  <2>8. (failed + 1) * RateDen > RateNum * (all + 1)
    BY <2>4, <2>5, <2>6, <2>7, ValidatorAssumption
  <2>9. passed' + failed' + Cardinality(Callers) = all + 1
    BY <2>1, <2>3, BusyIsFinite DEF ValTypeOK
  <2>10. QED
    BY <2>1, <2>2, <2>8, <2>9 DEF Hopeless
<1>4. CASE UNCHANGED valVars
  BY <1>4 DEF valVars, Hopeless
<1>5. QED
  BY <1>1, <1>2, <1>3, <1>4 DEF ValNext

(* Once hopeless the validator passes nothing any more, whatever the rules *)
(* on rates, the number of callers and of messages.                        *)
THEOREM HopelessStays == ValSpec => HopelessForGood
<1>1. ValTypeOK /\ [ValNext]_valVars => [Hopeless => Hopeless' /\ passed' = passed]_valVars
  BY HopelessStep
<1>2. QED
  BY <1>1, CountersAddUp, PTL DEF ValSpec, HopelessForGood

-----------------------------------------------------------------------------
(***************************************************************************)
(* The order books.                                                        *)
(***************************************************************************)
(* The inductive invariant, in named parts.                                *)

LockedIsCounted == locking => uncounted = {}

(* The number runs behind the stores by those that are not counted.        *)
StoresAreCounted == writes = seq + Cardinality(uncounted)

NowIsMet == <<bids, asks>> \in met

(* While the number is the one the reader has seen, the bids it has are    *)
(* still current, or one store has replaced them that is not counted yet,  *)
(* and they were current together with the asks of now.                    *)
BidsFit(r) ==
  Lone /\ rpc[r] = "asks" /\ seq = view[r].before =>
    \/ view[r].bids = bids
    \/ uncounted # {} /\ <<view[r].bids, asks>> \in met

PairFits(r) ==
  /\ Lone /\ rpc[r] = "again" /\ seq = view[r].before =>
       <<view[r].bids, view[r].asks>> \in met
  /\ rpc[r] = "done" /\ view[r].before = view[r].after /\ (locking \/ r \in lone) =>
       <<view[r].bids, view[r].asks>> \in met

ReaderIsBehind(r) == rpc[r] # "seq" => view[r].before <= seq

BookInv ==
  /\ BookTypeOK /\ LockedIsCounted /\ StoresAreCounted /\ NowIsMet
  /\ \A r \in Readers : BidsFit(r) /\ PairFits(r) /\ ReaderIsBehind(r)

USE DEF View, Blind

-----------------------------------------------------------------------------
(* The writers between a store and its count can be counted.               *)
LEMMA UncountedIsFinite == BookTypeOK => IsFiniteSet(uncounted) /\ Cardinality(uncounted) \in Nat
  BY BookAssumption, FS_Subset, FS_CardinalityType DEF BookTypeOK

LEMMA BookStarts == BookInit => BookInv
<1> SUFFICES ASSUME BookInit PROVE BookInv
  OBVIOUS
<1>1. Cardinality({}) = 0 /\ MaxWrites \in Nat
  BY FS_EmptySet, BookAssumption
<1>2. QED
  BY <1>1 DEF BookInit, BookInv, BookTypeOK, LockedIsCounted, StoresAreCounted, NowIsMet, BidsFit,
     PairFits, ReaderIsBehind

(* A store that is not counted yet is one more, its count one less.        *)
LEMMA UncountedStep ==
  ASSUME BookInv, NEW w \in Writers
  PROVE  /\ StoreLockFree(w) => Cardinality(uncounted') = Cardinality(uncounted) + 1
         /\ Counts(w) => Cardinality(uncounted') = Cardinality(uncounted) - 1
  BY UncountedIsFinite, FS_AddElement, FS_RemoveElement DEF BookInv, StoreLockFree, Counts

LEMMA TypesStep == BookInv /\ [BookNext]_bookVars => BookTypeOK'
<1> SUFFICES ASSUME BookInv, [BookNext]_bookVars PROVE BookTypeOK'
  OBVIOUS
<1> USE BookAssumption
<1>1. ASSUME NEW w \in Writers, StoreLockFree(w) PROVE BookTypeOK'
  BY <1>1 DEF StoreLockFree, StoreSide, BookInv, BookTypeOK
<1>2. ASSUME NEW w \in Writers, Counts(w) PROVE BookTypeOK'
  <2>1. /\ Cardinality(uncounted) \in Nat /\ Cardinality(uncounted') \in Nat
        /\ Cardinality(uncounted') = Cardinality(uncounted) - 1
    <3>1. BookTypeOK /\ Cardinality(uncounted) \in Nat
      BY UncountedIsFinite DEF BookInv
    <3>2. IsFiniteSet(uncounted')
      BY <1>2, UncountedIsFinite, FS_Subset DEF BookInv, Counts
    <3>3. QED
      BY <1>2, <3>1, <3>2, UncountedStep, FS_CardinalityType
  <2>2. seq + 1 \in 0 .. writes
    BY <2>1 DEF BookInv, BookTypeOK, StoresAreCounted
  <2>3. QED
    BY <1>2, <2>2 DEF Counts, BookInv, BookTypeOK
<1>3. ASSUME NEW w \in Writers, StoreLocked(w) PROVE BookTypeOK'
  BY <1>3 DEF StoreLocked, StoreSide, BookInv, BookTypeOK, StoresAreCounted
<1>4. ASSUME NEW r \in Readers, ReadSeq(r) PROVE BookTypeOK'
  BY <1>4 DEF ReadSeq, BookInv, BookTypeOK
<1>5. ASSUME NEW r \in Readers, ReadBids(r) PROVE BookTypeOK'
  BY <1>5 DEF ReadBids, BookInv, BookTypeOK
<1>6. ASSUME NEW r \in Readers, ReadAsks(r) PROVE BookTypeOK'
  BY <1>6 DEF ReadAsks, BookInv, BookTypeOK
<1>7. ASSUME NEW r \in Readers, ReadSeqAgain(r) PROVE BookTypeOK'
  BY <1>7 DEF ReadSeqAgain, BookInv, BookTypeOK
<1>8. ASSUME NEW r \in Readers, ReadEnds(r) PROVE BookTypeOK'
  BY <1>8 DEF ReadEnds, BookInv, BookTypeOK
<1>9. CASE UNCHANGED bookVars
  BY <1>9 DEF bookVars, BookInv, BookTypeOK
<1>10. QED
  BY <1>1, <1>2, <1>3, <1>4, <1>5, <1>6, <1>7, <1>8, <1>9 DEF BookNext

(* Readers touch nothing the writers' parts speak of.                      *)
LEMMA WritersStep ==
  BookInv /\ [BookNext]_bookVars =>
    (LockedIsCounted /\ StoresAreCounted /\ NowIsMet)'
<1> SUFFICES ASSUME BookInv, [BookNext]_bookVars
             PROVE  (LockedIsCounted /\ StoresAreCounted /\ NowIsMet)'
  OBVIOUS
<1> USE DEF BookInv, BookTypeOK, LockedIsCounted, StoresAreCounted, NowIsMet
<1>1. ASSUME NEW w \in Writers, StoreLockFree(w)
      PROVE  (LockedIsCounted /\ StoresAreCounted /\ NowIsMet)'
  <2>1. Cardinality(uncounted') = Cardinality(uncounted) + 1 /\ Cardinality(uncounted) \in Nat
    BY <1>1, UncountedStep, UncountedIsFinite
  <2>2. QED
    BY <1>1, <2>1 DEF StoreLockFree, StoreSide
<1>2. ASSUME NEW w \in Writers, Counts(w)
      PROVE  (LockedIsCounted /\ StoresAreCounted /\ NowIsMet)'
  <2>1. Cardinality(uncounted') = Cardinality(uncounted) - 1 /\ Cardinality(uncounted) \in Nat
    BY <1>2, UncountedStep, UncountedIsFinite
  <2>2. QED
    BY <1>2, <2>1 DEF Counts
<1>3. ASSUME NEW w \in Writers, StoreLocked(w)
      PROVE  (LockedIsCounted /\ StoresAreCounted /\ NowIsMet)'
  BY <1>3, UncountedIsFinite DEF StoreLocked, StoreSide
<1>4. CASE UNCHANGED <<locking, bids, asks, seq, uncounted, writes, met>>
  BY <1>4
<1>5. QED
  BY <1>1, <1>2, <1>3, <1>4
     DEF BookNext, ReadSeq, ReadBids, ReadAsks, ReadSeqAgain, ReadEnds, bookVars

LEMMA ReadersStep ==
  BookInv /\ [BookNext]_bookVars =>
    \A r \in Readers : (BidsFit(r) /\ PairFits(r) /\ ReaderIsBehind(r))'
<1> SUFFICES ASSUME BookInv, [BookNext]_bookVars, NEW r \in Readers
             PROVE  (BidsFit(r) /\ PairFits(r) /\ ReaderIsBehind(r))'
  OBVIOUS
<1> USE DEF BidsFit, PairFits, Lone, ReaderIsBehind
<1>0. /\ BookTypeOK /\ LockedIsCounted /\ StoresAreCounted /\ NowIsMet
      /\ BidsFit(r) /\ PairFits(r) /\ ReaderIsBehind(r)
  BY DEF BookInv
<1>1. ASSUME NEW w \in Writers, StoreLockFree(w)
      PROVE  (BidsFit(r) /\ PairFits(r) /\ ReaderIsBehind(r))'
  <2>1. uncounted' # {} /\ (Lone' => uncounted = {})
    BY <1>1 DEF StoreLockFree
  <2>2. QED
    BY <1>0, <1>1, <2>1 DEF StoreLockFree, StoreSide, NowIsMet
<1>2. ASSUME NEW w \in Writers, Counts(w)
      PROVE  (BidsFit(r) /\ PairFits(r) /\ ReaderIsBehind(r))'
  BY <1>0, <1>2 DEF Counts, BookTypeOK
<1>3. ASSUME NEW w \in Writers, StoreLocked(w)
      PROVE  (BidsFit(r) /\ PairFits(r) /\ ReaderIsBehind(r))'
  BY <1>0, <1>3 DEF StoreLocked, StoreSide, BookTypeOK
<1>4. ASSUME NEW q \in Readers, ReadSeq(q)
      PROVE  (BidsFit(r) /\ PairFits(r) /\ ReaderIsBehind(r))'
  BY <1>0, <1>4 DEF ReadSeq, BookTypeOK
<1>5. ASSUME NEW q \in Readers, ReadBids(q)
      PROVE  (BidsFit(r) /\ PairFits(r) /\ ReaderIsBehind(r))'
  BY <1>0, <1>5 DEF ReadBids, BookTypeOK
<1>6. ASSUME NEW q \in Readers, ReadAsks(q)
      PROVE  (BidsFit(r) /\ PairFits(r) /\ ReaderIsBehind(r))'
  BY <1>0, <1>6 DEF ReadAsks, BookTypeOK, NowIsMet
<1>7. ASSUME NEW q \in Readers, ReadSeqAgain(q)
      PROVE  (BidsFit(r) /\ PairFits(r) /\ ReaderIsBehind(r))'
  <2>1. locking => Lone
    BY <1>0 DEF LockedIsCounted
  <2>2. CASE q = r
    <3>1. (BidsFit(r) /\ ReaderIsBehind(r))' /\ rpc'[r] = "done"
      BY <1>0, <1>7, <2>2 DEF ReadSeqAgain, BookTypeOK
    <3>2. r \in lone' => Lone
      BY <1>7, <2>2 DEF ReadSeqAgain
    <3>3. QED
      BY <1>0, <1>7, <2>1, <2>2, <3>1, <3>2 DEF ReadSeqAgain, BookTypeOK
  <2>3. CASE q # r
    BY <1>0, <1>7, <2>3 DEF ReadSeqAgain, BookTypeOK
  <2>4. QED
    BY <2>2, <2>3
<1>8. ASSUME NEW q \in Readers, ReadEnds(q)
      PROVE  (BidsFit(r) /\ PairFits(r) /\ ReaderIsBehind(r))'
  BY <1>0, <1>8 DEF ReadEnds, BookTypeOK
<1>9. CASE UNCHANGED bookVars
  BY <1>0, <1>9 DEF bookVars
<1>10. QED
  BY <1>1, <1>2, <1>3, <1>4, <1>5, <1>6, <1>7, <1>8, <1>9 DEF BookNext

(* The inductive invariant holds.                                          *)
THEOREM BookInvHolds == BookSpec => []BookInv
<1>1. BookInv /\ [BookNext]_bookVars => BookInv'
  BY TypesStep, WritersStep, ReadersStep DEF BookInv
<1>2. QED
  BY <1>1, BookStarts, PTL DEF BookSpec

(* The types of the books and of their readers; neither a side nor seq is  *)
(* ahead of the stores that were made, and what is not counted yet is of a *)
(* writer in the middle of its update.                                     *)
THEOREM BookTypes == BookSpec => []BookTypeOK
<1>1. BookInv => BookTypeOK
  BY DEF BookInv
<1>2. QED
  BY <1>1, BookInvHolds, PTL

(* What a reader took between two equal numbers was the book at one moment,*)
(* for any number of writers, unless two stores were uncounted.            *)
THEOREM EqualSeqIsOneBook == BookSpec => []SameSeqIsOneBook
<1>1. BookInv => SameSeqIsOneBook
  BY DEF BookInv, PairFits, SameSeqIsOneBook
<1>2. QED
  BY <1>1, BookInvHolds, PTL
=============================================================================
