----------------------------- MODULE Storage -----------------------------
(***************************************************************************)
(* The storage process (src/cmd/storage/main.go): the log and the database *)
(* writer start, main connects, the server's handlers write; at shutdown   *)
(* the handlers end first, then the writer stops, then the log.  The       *)
(* process may crash, alone or with its machine, and starts again.         *)
(***************************************************************************)
EXTENDS DolphinDBWriter

CONSTANT MaxStarts   \* bound: how often the process starts again

ASSUME MaxStartsAssumption == MaxStarts \in Nat

VARIABLES
  phase,    \* "boot", "serve", "stop" (dbWriter.Stop), "close" (wal.Stop), "down"
  starts,
  crashed   \* history: the process crashed at least once

procVars == <<phase, starts, crashed>>
storageVars == <<walVars, writerVars, procVars>>

StorageInit ==
  /\ WalInit /\ WriterInit
  /\ phase = "boot" /\ starts = 0 /\ crashed = FALSE

TypeOK ==
  /\ WalTypeOK(Events) /\ WriterTypeOK
  /\ phase \in {"boot", "connect", "serve", "stop", "close", "down"}
  /\ starts \in 0 .. MaxStarts
  /\ crashed \in BOOLEAN

-----------------------------------------------------------------------------
(* main.                                                                   *)

MainConnects == phase = "boot" /\ ConnectDials("main") /\ phase' = "connect"

(* Connect fails, or DolphinDB is disabled: log-only mode.                 *)
MainGivesUp ==
  /\ phase = "boot"
  /\ phase' = "serve"
  /\ ConnectFails("main") \/ UNCHANGED <<walVars, writerVars>>

(* Connect has returned, the replay included: the server listens.          *)
MainListens ==
  /\ phase = "connect" /\ kpc["main"] = "idle"
  /\ phase' = "serve"
  /\ UNCHANGED <<walVars, writerVars>>

(* inSrv.Stop has waited for the handlers; dbWriter.Stop cancels.          *)
StopBegins ==
  /\ phase = "serve"
  /\ \A h \in Handlers : hev[h] = 0
  /\ phase' = "stop" /\ cancelled' = TRUE
  /\ UNCHANGED <<walVars, handlerVars, batch, flushVars, connectVars, errVars, db>>
  /\ UNCHANGED <<starts, crashed>>

(* Its wg.Wait covers flushLoop and reconnectLoop, not the goroutines of   *)
(* full batches.                                                           *)
WriterStops ==
  /\ phase = "stop" /\ fpc["ticker"] = "exit" /\ kpc["loop"] = "exit"
  /\ phase' = "close"
  /\ connected' = FALSE /\ session' = FALSE
  /\ UNCHANGED <<walVars, handlerVars, batch, flushVars, kpc, todo, cancelled, errVars, db>>

LogStops ==
  /\ phase = "close"
  /\ WalStop
  /\ phase' = "down"
  /\ UNCHANGED writerVars

MainRuns ==
  /\ MainConnects \/ MainGivesUp \/ MainListens \/ WriterStops \/ LogStops
  /\ UNCHANGED <<starts, crashed>>

(* A new process, which finds the first records of the files.              *)
StartsWith(survives, fsynced) ==
  /\ starts < MaxStarts /\ starts' = starts + 1
  /\ phase' = "boot"
  /\ WalRestart(survives, fsynced)
  /\ hev' = [h \in Handlers |-> 0] /\ batch' = {}
  /\ fpc' = [f \in Flushers |-> "idle"] /\ toWrite' = [f \in Flushers |-> {}]
  /\ kpc' = [k \in Connectors |-> "idle"] /\ todo' = [k \in Connectors |-> <<>>]
  /\ connected' = FALSE /\ session' = FALSE
  /\ cancelled' = FALSE /\ scriptErr' = FALSE /\ unread' = {}
  /\ UNCHANGED <<arrived, db>>

Restart == phase = "down" /\ StartsWith(Len(written), synced) /\ UNCHANGED crashed

(* The process dies: what its buffers held is gone.                        *)
ProcessCrash == phase # "down" /\ StartsWith(Len(written), synced) /\ crashed' = TRUE

(* The machine dies: of what was not fsynced any prefix may be gone.       *)
MachineCrash ==
  /\ phase # "down"
  /\ \E n \in synced .. Len(written) : StartsWith(n, n)
  /\ crashed' = TRUE

-----------------------------------------------------------------------------
Handler(h) ==
  \/ phase = "serve" /\ (WriteLogged(h) \/ WriteRefused(h))
  \/ WriteBatched(h)

Up == phase # "down" /\ UNCHANGED procVars

Flusher(f) == Up /\ (FlushStep(f) \/ (f = "ticker" /\ TickerStops))

Connector(k) == Up /\ ConnectRuns(k)

(* reconnectLoop; whether a dial succeeds is the database's choice.        *)
LoopRuns == Up /\ (LoopWakes \/ LoopDials \/ LoopDialFails \/ LoopStops)

LogFlushes == Up /\ Flush /\ UNCHANGED writerVars
LogRotates == Up /\ RotationTick /\ UNCHANGED writerVars

(* The process is down for good: nothing has to happen any more.           *)
StorageOver == phase = "down" /\ UNCHANGED storageVars

StorageNext ==
  \/ MainRuns \/ StopBegins
  \/ \E h \in Handlers : Up /\ Handler(h)
  \/ \E f \in Flushers : Flusher(f)
  \/ \E k \in Connectors : Connector(k)
  \/ LoopRuns \/ LogFlushes \/ LogRotates
  \/ Restart \/ ProcessCrash \/ MachineCrash
  \/ StorageOver

StorageSpec == StorageInit /\ [][StorageNext]_storageVars

(* Every goroutine that can run runs, the tickers tick, and a database that *)
(* is dialled again and again answers once.  Nobody has to send events, to *)
(* stop the process or to crash it.                                        *)
StorageFair ==
  /\ WF_storageVars(MainRuns)
  /\ \A h \in Handlers : WF_storageVars(Up /\ WriteBatched(h))
  /\ \A f \in Flushers : WF_storageVars(Flusher(f))
  /\ \A k \in Connectors : WF_storageVars(Connector(k))
  /\ WF_storageVars(LoopRuns)
  /\ SF_storageVars(Up /\ LoopDials)
  /\ WF_storageVars(LogFlushes)
  /\ WF_storageVars(LogRotates)

StorageFairSpec == StorageSpec /\ StorageFair

-----------------------------------------------------------------------------
Durable == Elements(SubSeq(written, 1, synced))
Held == Elements(written) \cup Elements(buf)

(* wal.go: a Write that returned nil is on stable storage, whatever        *)
(* crashes, failed rotations and I/O errors happen before or after.        *)
SyncIsDurable == mode = "sync" => acked \subseteq Durable

(* wal_batched.go: an accepted record leaves the log only in a crash or    *)
(* through an I/O error (in this step, or one that closed the file or broke*)
(* its writer before); a rotation, a flush, a restart lose nothing.        *)
LosesOnlyToFaults ==
  [][\A e \in (acked \cap Held) \cup (acked' \ acked) :
       e \in Held' \/ faults' > faults \/ ~Writable \/ crashed']_storageVars

(* The log is what DurableLog promises: an I/O error, a rotation, a crash  *)
(* or a shutdown takes at most an end of it that is not on stable storage, *)
(* and nothing comes twice or out of order.                                *)
AbstractLog == INSTANCE DurableLog WITH
  Record <- Events, sync <- (mode = "sync"), log <- written \o buf, durable <- synced,
  accepted <- acked, writable <- Writable, mishaps <- faults, runs <- starts

IsDurableLog == AbstractLog!LogSpec

(* What Replay reads, and the buffer behind it, are the events in the order*)
(* they were accepted, each once.                                          *)
LogInOrder ==
  LET s == written \o buf IN \A i, j \in DOMAIN s : i < j => s[i] < s[j]

(* "Stop drains the final batch (fsync)": after a shutdown everything      *)
(* accepted is on stable storage, also in batched mode.                    *)
StopDrains == phase = "down" /\ faults = 0 /\ ~crashed => acked \subseteq Durable

(* Between the log and the database: with a synchronous log a connected    *)
(* writer whose scripts succeed has every accepted event in the database,  *)
(* in a batch, or before it in a replay, however flushes, Connect and      *)
(* Write interleave; only what its last replay could not read is missing.  *)
OnItsWay ==
  batch \cup {hev[h] : h \in Handlers}
    \cup (UNION {toWrite[f] : f \in Flushers})
    \cup (UNION {Elements(todo[k]) : k \in Connectors})

SyncAccountedFor ==
  mode = "sync" /\ connected /\ ~scriptErr /\ (\A k \in Connectors : kpc[k] # "read")
    => acked \subseteq db \cup OnItsWay \cup unread

(* What the batched log accepted is on stable storage after the flushLoop's *)
(* next ticks, if no I/O operation fails and the process does not crash.   *)
EventuallyDurable ==
  \A e \in Events : e \in acked ~> e \in Durable \/ faults > 0 \/ crashed

(* A shutdown ends: dbWriter.Stop and wal.Stop do not wait for ever,       *)
(* whatever the database does.                                             *)
StorageStopTerminates == phase = "stop" ~> phase \in {"down", "boot"}

(* dolphindb.go, "Lossless design": what was accepted while DolphinDB was  *)
(* down, or in a script that failed, is replayed into it on recovery.      *)
DatabaseCatchesUp ==
  \A e \in Events : e \in acked ~> e \in db \/ phase # "serve"
============================================================================
