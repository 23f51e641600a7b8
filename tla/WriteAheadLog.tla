-------------------------- MODULE WriteAheadLog --------------------------
(***************************************************************************)
(* The write-ahead log of the storage process, in its two durability modes:*)
(* src/pkg/storage/wal.go ("sync": every Write is flushed and fsynced      *)
(* before it returns) and src/pkg/storage/wal_batched.go ("batched": Write *)
(* leaves the record in the bufio buffer, a ticker flushes it).            *)
(*                                                                         *)
(* Every operation runs under the mutex of the log and is one step.  What  *)
(* the wal_*.jsonl files hold is one sequence, in the order of their names.*)
(* A file is full by its size or its number of messages: here, by the      *)
(* latter.  A record that straddles the bufio buffer counts as buffered.   *)
(* An fsync that succeeds is taken to cover all that was written before.   *)
(***************************************************************************)
EXTENDS Naturals, Sequences

CONSTANTS
  Modes,        \* the durability modes a configuration may choose
  MaxMessages,  \* messages of a file before it is rotated
  BufCap,       \* records the bufio buffer holds
  MaxFaults     \* bound: I/O operations that fail

ASSUME ModesAssumption == Modes \subseteq {"sync", "batched"}
ASSUME MaxMessagesAssumption == MaxMessages \in Nat \ {0}
ASSUME BufCapAssumption == BufCap \in Nat \ {0}
ASSUME MaxFaultsAssumption == MaxFaults \in Nat

VARIABLES
  mode,
  running,
  file,      \* "open", or "closed": by Stop, or by a rotation that failed
  sticky,    \* bufio.Writer remembers that a flush failed
  buf,       \* records in the bufio buffer (batched)
  written,   \* records in the files, as Replay reads them
  synced,    \* how many of them are on stable storage
  count,     \* currentMessages
  faults,
  acked      \* history: the events whose Write returned nil

walVars == <<mode, running, file, sticky, buf, written, synced, count, faults, acked>>

Elements(s) == {s[i] : i \in DOMAIN s}

WalInit ==
  /\ mode \in Modes
  /\ running = TRUE /\ file = "open" /\ sticky = FALSE
  /\ buf = <<>> /\ written = <<>> /\ synced = 0 /\ count = 0
  /\ faults = 0 /\ acked = {}

WalTypeOK(Events) ==
  /\ mode \in Modes
  /\ running \in BOOLEAN /\ file \in {"open", "closed"} /\ sticky \in BOOLEAN
  /\ buf \in Seq(Events) /\ Len(buf) <= BufCap
  /\ written \in Seq(Events) /\ synced \in 0 .. Len(written)
  /\ count \in 0 .. MaxMessages
  /\ count = MaxMessages => file = "closed"
  /\ faults \in 0 .. MaxFaults
  /\ acked \in SUBSET Events

Writable == file = "open" /\ ~sticky

Fault == faults < MaxFaults /\ faults' = faults + 1

-----------------------------------------------------------------------------
(* Rotation.  rotateLocked ignores the error of the flush, closes the file *)
(* and opens the next one; when that fails the closed file stays current   *)
(* and the counters keep asking for a rotation.                            *)

(* Mistake: the buffer of the old file is not flushed.                     *)
OldFileTakesNothing(w, b) == written' = w /\ UNCHANGED synced

(* The files hold w.  The records b, still in the buffer, reach the old    *)
(* file and are synced if it can be written, and are dropped otherwise.    *)
OldFileTakes(w, b) ==
  /\ written' = IF Writable THEN w \o b ELSE w
  /\ synced' = IF Writable THEN Len(written') ELSE synced

NextFileOpens ==
  /\ file' = "open" /\ sticky' = FALSE /\ buf' = <<>> /\ count' = 0

RotateOpens(w, b) ==
  /\ OldFileTakes(w, b)
  /\ NextFileOpens
  /\ UNCHANGED faults

(* The flush of the old file fails and its error is ignored.               *)
RotateFlushFails(w, b) ==
  /\ Writable /\ b # <<>> /\ Fault
  /\ NextFileOpens
  /\ written' = w /\ UNCHANGED synced

(* The fsync of the old file fails, also ignored.                          *)
RotateSyncFails(w, b) ==
  /\ Writable /\ mode = "batched" /\ Fault
  /\ NextFileOpens
  /\ written' = w \o b /\ UNCHANGED synced

RotateOpenFails(w, b, n) ==
  /\ Fault
  /\ OldFileTakes(w, b)
  /\ file' = "closed" /\ count' = n
  /\ buf' = IF Writable THEN <<>> ELSE b
  /\ sticky' = (sticky \/ (file = "closed" /\ b # <<>>))

Rotate(w, b, n) ==
  \/ RotateOpens(w, b)
  \/ RotateFlushFails(w, b)
  \/ RotateSyncFails(w, b)
  \/ RotateOpenFails(w, b, n)

-----------------------------------------------------------------------------
(* Write, sync mode.                                                       *)

(* Mistake: the file is not fsynced.                                       *)
SyncWriteUnsynced(e) ==
  /\ mode = "sync" /\ running /\ Writable
  /\ written' = Append(written, e) /\ synced' = synced
  /\ acked' = acked \cup {e}
  /\ count' = count + 1
  /\ count + 1 < MaxMessages
  /\ UNCHANGED <<mode, running, file, sticky, buf, faults>>

(* The record is flushed and fsynced; the file may be full after it.       *)
SyncWrite(e) ==
  /\ mode = "sync" /\ running /\ Writable
  /\ written' = Append(written, e) /\ synced' = Len(written')
  /\ acked' = acked \cup {e}
  /\ IF count + 1 < MaxMessages
       THEN count' = count + 1 /\ UNCHANGED <<file, sticky, faults>>
       ELSE \/ file' = "open" /\ count' = 0 /\ UNCHANGED <<sticky, faults>>
            \/ file' = "closed" /\ count' = MaxMessages /\ Fault /\ UNCHANGED sticky
  /\ UNCHANGED <<mode, running, buf>>

(* The flush fails (always on a closed file), or only the fsync: the       *)
(* record of a Write that returned an error may be in the file.            *)
SyncWriteFails(e) ==
  /\ mode = "sync" /\ running
  /\ \/ ~Writable /\ sticky' = TRUE /\ UNCHANGED <<written, faults>>
     \/ Writable /\ Fault /\ sticky' = TRUE /\ UNCHANGED written
     \/ Writable /\ Fault /\ written' = Append(written, e) /\ UNCHANGED sticky
  /\ UNCHANGED <<mode, running, file, buf, synced, count, acked>>

-----------------------------------------------------------------------------
(* Write and Flush, batched mode.                                          *)

(* bufio writes its buffer to the file, without fsync, to make room.       *)
Spilled == IF Len(buf) < BufCap THEN <<>> ELSE buf
Kept == IF Len(buf) < BufCap THEN buf ELSE <<>>

(* Mistake: a file is rotated after it exceeds the limit.                  *)
BatchedWriteOverfills(e) ==
  /\ mode = "batched" /\ running /\ ~sticky
  /\ Spilled # <<>> => file = "open"
  /\ acked' = acked \cup {e}
  /\ count < MaxMessages
  /\ written' = written \o Spilled /\ buf' = Append(Kept, e)
  /\ count' = count + 1
  /\ UNCHANGED <<mode, running, file, sticky, synced, faults>>

(* A buffer that has room takes the record, even of a closed file.         *)
BatchedWrite(e) ==
  /\ mode = "batched" /\ running /\ ~sticky
  /\ Spilled # <<>> => file = "open"
  /\ acked' = acked \cup {e}
  /\ count + 1 < MaxMessages
  /\ written' = written \o Spilled /\ buf' = Append(Kept, e)
  /\ count' = count + 1
  /\ UNCHANGED <<mode, running, file, sticky, synced, faults>>

BatchedWriteRotates(e) ==
  /\ mode = "batched" /\ running /\ ~sticky
  /\ acked' = acked \cup {e}
  /\ count + 1 >= MaxMessages
  /\ Spilled # <<>> => file = "open"
  /\ Rotate(written \o Spilled, Append(Kept, e), MaxMessages)
  /\ UNCHANGED <<mode, running>>

(* The writer is sticky, or makes room and fails.                          *)
BatchedWriteFails ==
  /\ mode = "batched" /\ running
  /\ \/ sticky /\ UNCHANGED <<sticky, faults>>
     \/ ~sticky /\ Spilled # <<>> /\ file = "closed" /\ sticky' = TRUE /\ UNCHANGED faults
     \/ Writable /\ Spilled # <<>> /\ Fault /\ sticky' = TRUE
  /\ UNCHANGED <<mode, running, file, buf, written, synced, count, acked>>

WalWrite(e) == SyncWrite(e) \/ BatchedWrite(e) \/ BatchedWriteRotates(e)
WalWriteFails(e) == SyncWriteFails(e) \/ BatchedWriteFails

(* Mistake: the flushed records stay in the buffer.                        *)
FlushLockedKeeps ==
  /\ Writable
  /\ written' = written \o buf /\ synced' = Len(written')
  /\ UNCHANGED <<buf, sticky, faults>>

(* flushLocked, called by flushLoop and by Stop: the flush may fail, or the *)
(* fsync after it.                                                         *)
FlushLocked ==
  \/ /\ Writable
     /\ written' = written \o buf /\ synced' = Len(written') /\ buf' = <<>>
     /\ UNCHANGED <<sticky, faults>>
  \/ /\ Writable /\ buf # <<>> /\ Fault
     /\ sticky' = TRUE
     /\ UNCHANGED <<written, synced, buf>>
  \/ /\ Writable /\ Fault
     /\ written' = written \o buf /\ buf' = <<>>
     /\ UNCHANGED <<sticky, synced>>
  \/ /\ ~Writable
     /\ sticky' = (sticky \/ buf # <<>>)
     /\ UNCHANGED <<written, synced, buf, faults>>

(* Mistake: the ticks flush only a full buffer.                            *)
FlushWhenFull ==
  /\ mode = "batched" /\ running
  /\ Len(buf) = BufCap
  /\ FlushLocked
  /\ UNCHANGED <<mode, running, file, count, acked>>

Flush ==
  /\ mode = "batched" /\ running
  /\ buf # <<>> \/ synced < Len(written)
  /\ FlushLocked
  /\ UNCHANGED <<mode, running, file, count, acked>>

(* rotationChecker: only a rotation that failed leaves a full file.        *)
RotationTick ==
  /\ running /\ count >= MaxMessages
  /\ Rotate(written, buf, count)
  /\ UNCHANGED <<mode, running, acked>>

(* Mistake: Stop closes the file with records in the buffer.               *)
WalStopUnflushed ==
  /\ running
  /\ running' = FALSE /\ file' = "closed"
  /\ UNCHANGED <<mode, sticky, buf, written, synced, faults, count, acked>>

WalStop ==
  /\ running
  /\ running' = FALSE /\ file' = "closed"
  /\ IF mode = "batched" THEN FlushLocked ELSE UNCHANGED <<sticky, buf, written, synced, faults>>
  /\ UNCHANGED <<mode, count, acked>>

-----------------------------------------------------------------------------
(* The process starts again after Stop or a crash: Start opens a new file. *)

WalRestart(survives, fsynced) ==
  /\ running' = TRUE
  /\ NextFileOpens
  /\ written' = SubSeq(written, 1, survives)
  /\ synced' = fsynced
  /\ UNCHANGED <<mode, faults, acked>>
===========================================================================
