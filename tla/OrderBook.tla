---------------------------- MODULE OrderBook ----------------------------
(***************************************************************************)
(* src/pkg/orderbook/lockfree.go: two sides and a sequence number that     *)
(* writers replace and readers read, each access a step of its own.  The   *)
(* lock-free book stores a side and counts afterwards, the mutex book does *)
(* the two under its lock.  A snapshot is the number of the write that made*)
(* it.                                                                     *)
(***************************************************************************)
EXTENDS Naturals, FiniteSets

CONSTANTS
  Writers,
  Readers,
  MaxWrites   \* bound

ASSUME BookAssumption == MaxWrites \in Nat /\ Writers # {} /\ IsFiniteSet(Writers)

VARIABLES
  locking,    \* MutexOrderBook or LockFreeOrderBook
  bids, asks, seq,
  uncounted,  \* writers between the store of a side and seq.Add
  writes,
  rpc,        \* [Readers -> "seq", "bids", "asks", "again", "done"]
  view,       \* what each reader has read
  lone,       \* history: the readers that compared when no two stores were uncounted
  met         \* history: the pairs of sides that were current together

bookVars == <<locking, bids, asks, seq, uncounted, writes, rpc, view, lone, met>>

View == [before : Nat, bids : Nat, asks : Nat, after : Nat]
Blind == [before |-> 0, bids |-> 0, asks |-> 0, after |-> 0]

BookInit ==
  /\ locking \in BOOLEAN
  /\ bids = 0 /\ asks = 0 /\ seq = 0
  /\ uncounted = {} /\ writes = 0
  /\ rpc = [r \in Readers |-> "seq"]
  /\ view = [r \in Readers |-> Blind]
  /\ lone = {} /\ met = {<<0, 0>>}

BookTypeOK ==
  /\ locking \in BOOLEAN
  /\ writes \in 0 .. MaxWrites
  /\ {bids, asks, seq} \subseteq 0 .. writes
  /\ uncounted \in SUBSET Writers
  /\ rpc \in [Readers -> {"seq", "bids", "asks", "again", "done"}]
  /\ view \in [Readers -> View]
  /\ lone \in SUBSET Readers
  /\ met \in SUBSET ((0 .. writes) \X (0 .. writes))

-----------------------------------------------------------------------------
(* Writers.                                                                *)

(* A new snapshot becomes the side.                                        *)
StoreSide ==
  /\ writes' = writes + 1
  /\ \/ bids' = writes' /\ UNCHANGED asks
     \/ asks' = writes' /\ UNCHANGED bids
  /\ met' = met \cup {<<bids', asks'>>}

StoreLockFree(w) ==
  /\ ~locking /\ w \notin uncounted /\ writes < MaxWrites
  /\ StoreSide
  /\ uncounted' = uncounted \cup {w}
  /\ UNCHANGED <<locking, seq, rpc, view, lone>>

(* Mistake: one number for every two updates, bids and asks of a tick.     *)
CountsPairs(w) ==
  /\ w \in uncounted
  /\ uncounted' = uncounted \ {w}
  /\ seq' = writes \div 2
  /\ UNCHANGED <<locking, bids, asks, writes, rpc, view, lone, met>>

Counts(w) ==
  /\ w \in uncounted
  /\ uncounted' = uncounted \ {w}
  /\ seq' = seq + 1
  /\ UNCHANGED <<locking, bids, asks, writes, rpc, view, lone, met>>

StoreLocked(w) ==
  /\ locking /\ writes < MaxWrites
  /\ StoreSide
  /\ seq' = seq + 1
  /\ UNCHANGED <<locking, uncounted, rpc, view, lone>>

-----------------------------------------------------------------------------
(* No two stores are uncounted.                                            *)
Lone == \A v, w \in uncounted : v = w

(* A reader compares the numbers before and after it reads both sides.     *)

ReadSeq(r) ==
  /\ rpc[r] = "seq"
  /\ view' = [view EXCEPT ![r] = [Blind EXCEPT !.before = seq]]
  /\ rpc' = [rpc EXCEPT ![r] = "bids"]
  /\ UNCHANGED <<locking, bids, asks, seq, uncounted, writes, lone, met>>

ReadBids(r) ==
  /\ rpc[r] = "bids"
  /\ view' = [view EXCEPT ![r].bids = bids]
  /\ rpc' = [rpc EXCEPT ![r] = "asks"]
  /\ UNCHANGED <<locking, bids, asks, seq, uncounted, writes, lone, met>>

ReadAsks(r) ==
  /\ rpc[r] = "asks"
  /\ view' = [view EXCEPT ![r].asks = asks]
  /\ rpc' = [rpc EXCEPT ![r] = "again"]
  /\ UNCHANGED <<locking, bids, asks, seq, uncounted, writes, lone, met>>

ReadSeqAgain(r) ==
  /\ rpc[r] = "again"
  /\ view' = [view EXCEPT ![r].after = seq]
  /\ rpc' = [rpc EXCEPT ![r] = "done"]
  /\ lone' = IF Lone THEN lone \cup {r} ELSE lone \ {r}
  /\ UNCHANGED <<locking, bids, asks, seq, uncounted, writes, met>>

(* The pair is used; the next one is another read.                         *)
ReadEnds(r) ==
  /\ rpc[r] = "done"
  /\ rpc' = [rpc EXCEPT ![r] = "seq"]
  /\ view' = [view EXCEPT ![r] = Blind]
  /\ lone' = lone \ {r}
  /\ UNCHANGED <<locking, bids, asks, seq, uncounted, writes, met>>

BookNext ==
  \/ \E w \in Writers : StoreLockFree(w) \/ Counts(w) \/ StoreLocked(w)
  \/ \E r \in Readers :
       ReadSeq(r) \/ ReadBids(r) \/ ReadAsks(r) \/ ReadSeqAgain(r) \/ ReadEnds(r)

BookSpec == BookInit /\ [][BookNext]_bookVars

-----------------------------------------------------------------------------
(***************************************************************************)
(* What an unchanged number is good for, however many writers there are:   *)
(* the two sides a reader took between two equal numbers were the book at  *)
(* some moment, although a store that is not counted yet may lie between   *)
(* them, unless two stores of different writers were uncounted when it     *)
(* compared.  Under the lock none ever is.                                 *)
(***************************************************************************)
SameSeqIsOneBook ==
  \A r \in Readers :
    rpc[r] = "done" /\ view[r].before = view[r].after /\ (locking \/ r \in lone)
      => <<view[r].bids, view[r].asks>> \in met
==========================================================================
