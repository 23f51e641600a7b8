------------------------- MODULE DolphinDBWriter -------------------------
(***************************************************************************)
(* src/pkg/storage/dolphindb.go: a Write goes to the log and then to the   *)
(* batch; flushes (the ticker's, and one goroutine per full batch) move the*)
(* batch to DolphinDB; Connect, called by main and by reconnectLoop, opens *)
(* the session and replays the log.                                        *)
(*                                                                         *)
(* The order of a batch is not used: batches and the database are sets of  *)
(* events.  A script is one step, since runner.mu serialises them.         *)
(***************************************************************************)
EXTENDS WriteAheadLog, FiniteSets

CONSTANTS
  MaxEvents,  \* bound: events that arrive
  Handlers,   \* goroutines that call Write
  Async,      \* bound: flush goroutines of full batches at a time
  BatchSize

ASSUME MaxEventsAssumption == MaxEvents \in Nat
ASSUME BatchSizeAssumption == BatchSize \in Nat \ {0}
ASSUME FlushersAssumption == "ticker" \notin Async

Events == 1 .. MaxEvents
Flushers == {"ticker"} \cup Async
Connectors == {"main", "loop"}   \* callers of Connect

VARIABLES
  arrived,    \* events that have arrived
  hev,        \* the event a handler still has to append to the batch, or 0
  batch,
  fpc,        \* where each flusher is
  toWrite,    \* the batch it took
  kpc,        \* where each caller of Connect is
  todo,       \* what its replay has still to write
  connected,
  session,    \* runner.db # nil
  cancelled,  \* ctx is done
  scriptErr,  \* history: a script failed since the process started
  unread,     \* history: the events the last replay could not read
  db          \* the events in DolphinDB

handlerVars == <<arrived, hev>>
flushVars == <<fpc, toWrite>>
connectVars == <<kpc, todo, connected, session>>
errVars == <<scriptErr, unread>>
writerVars == <<handlerVars, batch, flushVars, connectVars, cancelled, errVars, db>>

WriterInit ==
  /\ arrived = 0
  /\ hev = [h \in Handlers |-> 0]
  /\ batch = {}
  /\ fpc = [f \in Flushers |-> "idle"]
  /\ toWrite = [f \in Flushers |-> {}]
  /\ kpc = [k \in Connectors |-> "idle"]
  /\ todo = [k \in Connectors |-> <<>>]
  /\ connected = FALSE /\ session = FALSE
  /\ cancelled = FALSE /\ scriptErr = FALSE /\ unread = {}
  /\ db = {}

WriterTypeOK ==
  /\ arrived \in 0 .. MaxEvents
  /\ hev \in [Handlers -> 0 .. MaxEvents]
  /\ batch \in SUBSET Events
  /\ fpc \in [Flushers -> {"idle", "take", "check", "script", "exit"}]
  /\ toWrite \in [Flushers -> SUBSET Events]
  /\ kpc \in [Connectors -> {"idle", "due", "mark", "read", "replay", "exit"}]
  /\ todo \in [Connectors -> Seq(Events)]
  /\ connected \in BOOLEAN /\ session \in BOOLEAN
  /\ cancelled \in BOOLEAN /\ scriptErr \in BOOLEAN
  /\ unread \in SUBSET Events /\ db \in SUBSET Events

-----------------------------------------------------------------------------
(* Write.                                                                  *)

WriteLogged(h) ==
  /\ hev[h] = 0 /\ arrived < MaxEvents
  /\ arrived' = arrived + 1
  /\ WalWrite(arrived + 1)
  /\ hev' = [hev EXCEPT ![h] = arrived + 1]
  /\ UNCHANGED <<batch, flushVars, connectVars, cancelled, errVars, db>>

(* The log refuses the event: Write returns the error and the event is     *)
(* neither in the log nor in the batch.                                    *)
WriteRefused(h) ==
  /\ hev[h] = 0 /\ arrived < MaxEvents
  /\ arrived' = arrived + 1
  /\ WalWriteFails(arrived + 1)
  /\ UNCHANGED <<hev, batch, flushVars, connectVars, cancelled, errVars, db>>

(* The event joins the batch; a full batch starts a flush goroutine.       *)
WriteBatched(h) ==
  /\ hev[h] # 0
  /\ batch' = batch \cup {hev[h]}
  /\ hev' = [hev EXCEPT ![h] = 0]
  /\ IF Cardinality(batch') >= BatchSize
       THEN \E f \in Async : fpc[f] = "idle" /\ fpc' = [fpc EXCEPT ![f] = "take"]
       ELSE UNCHANGED fpc
  /\ UNCHANGED <<walVars, arrived, toWrite, connectVars, cancelled, errVars, db>>

-----------------------------------------------------------------------------
(* flush.                                                                  *)

Takes(f) == fpc[f] = "take" \/ (f = "ticker" /\ fpc[f] = "idle" /\ ~cancelled)

FlushTakes(f) ==
  /\ Takes(f) /\ batch # {}
  /\ toWrite' = [toWrite EXCEPT ![f] = batch]
  /\ batch' = {}
  /\ fpc' = [fpc EXCEPT ![f] = "check"]
  /\ UNCHANGED <<walVars, handlerVars, connectVars, cancelled, errVars, db>>

(* A flush goroutine finds the batch already taken.                        *)
FlushFindsNothing(f) ==
  /\ fpc[f] = "take" /\ batch = {}
  /\ fpc' = [fpc EXCEPT ![f] = "idle"]
  /\ UNCHANGED <<walVars, handlerVars, batch, toWrite, connectVars, cancelled, errVars, db>>

FlushChecks(f) ==
  /\ fpc[f] = "check" /\ connected
  /\ fpc' = [fpc EXCEPT ![f] = "script"]
  /\ UNCHANGED <<walVars, handlerVars, batch, toWrite, connectVars, cancelled, errVars, db>>

(* Not connected: the batch is dropped, the log has its events.            *)
FlushSkips(f) ==
  /\ fpc[f] = "check" /\ ~connected
  /\ fpc' = [fpc EXCEPT ![f] = "idle"]
  /\ toWrite' = [toWrite EXCEPT ![f] = {}]
  /\ UNCHANGED <<walVars, handlerVars, batch, connectVars, cancelled, errVars, db>>

FlushWrites(f) ==
  /\ fpc[f] = "script" /\ session
  /\ db' = db \cup toWrite[f]
  /\ fpc' = [fpc EXCEPT ![f] = "idle"]
  /\ toWrite' = [toWrite EXCEPT ![f] = {}]
  /\ UNCHANGED <<walVars, handlerVars, batch, connectVars, cancelled, errVars>>

(* The script fails: without a session always.  The batch is given up.     *)
FlushFails(f) ==
  /\ fpc[f] = "script"
  /\ IF session THEN Fault ELSE UNCHANGED faults
  /\ scriptErr' = TRUE
  /\ fpc' = [fpc EXCEPT ![f] = "idle"]
  /\ toWrite' = [toWrite EXCEPT ![f] = {}]
  /\ UNCHANGED <<mode, running, file, sticky, buf, written, synced, count, acked>>
  /\ UNCHANGED <<handlerVars, batch, connectVars, cancelled, unread, db>>

(* flushLoop after the cancel: one last flush, then it exits.              *)
TickerStops ==
  /\ cancelled /\ fpc["ticker"] = "idle"
  /\ fpc' = [fpc EXCEPT !["ticker"] = IF batch = {} THEN "exit" ELSE "take"]
  /\ UNCHANGED <<walVars, handlerVars, batch, toWrite, connectVars, cancelled, errVars, db>>

FlushStep(f) ==
  FlushTakes(f) \/ FlushFindsNothing(f) \/ FlushChecks(f) \/ FlushSkips(f)
  \/ FlushWrites(f) \/ FlushFails(f)

-----------------------------------------------------------------------------
(* Connect.                                                                *)

(* main calls it once, before events arrive.  reconnectLoop finds the      *)
(* writer not connected, waits for the backoff and then dials without      *)
(* looking again.                                                          *)
LoopWakes ==
  /\ kpc["loop"] = "idle" /\ ~connected /\ ~cancelled
  /\ kpc' = [kpc EXCEPT !["loop"] = "due"]
  /\ UNCHANGED <<walVars, handlerVars, batch, flushVars, todo, connected, session, cancelled, errVars, db>>

(* runner.connect: the old session is closed, the new one opened.          *)
ConnectDials(k) ==
  /\ session' = TRUE
  /\ kpc' = [kpc EXCEPT ![k] = "mark"]
  /\ UNCHANGED <<walVars, handlerVars, batch, flushVars, todo, connected, cancelled, errVars, db>>

(* The old session is closed and there is no new one; a caller that was    *)
(* first leaves connected as it is.                                        *)
ConnectFails(k) ==
  /\ session' = FALSE
  /\ kpc' = [kpc EXCEPT ![k] = "idle"]
  /\ UNCHANGED <<walVars, handlerVars, batch, flushVars, todo, connected, cancelled, errVars, db>>

LoopDials == kpc["loop"] = "due" /\ ConnectDials("loop")
LoopDialFails == kpc["loop"] = "due" /\ ConnectFails("loop")

(* connected is set; ensureTables' error is not fatal.                     *)
ConnectMarks(k) ==
  /\ kpc[k] = "mark"
  /\ connected' = TRUE
  /\ kpc' = [kpc EXCEPT ![k] = "read"]
  /\ UNCHANGED <<walVars, handlerVars, batch, flushVars, todo, session, cancelled, errVars, db>>

(* Mistake: only the current file is replayed.                             *)
ReplayReadsCurrentFile(k) ==
  /\ kpc[k] = "read"
  /\ todo' = [todo EXCEPT ![k] = SubSeq(written, Len(written) + 1 - count, Len(written))]
  /\ kpc' = [kpc EXCEPT ![k] = "replay"]
  /\ unread' = {}
  /\ UNCHANGED <<walVars, handlerVars, batch, flushVars, connected, session, cancelled, scriptErr, db>>

(* Replay reads the files, not the buffer of the log.                      *)
ReplayReads(k) ==
  /\ kpc[k] = "read"
  /\ todo' = [todo EXCEPT ![k] = written]
  /\ kpc' = [kpc EXCEPT ![k] = "replay"]
  /\ unread' = {}
  /\ UNCHANGED <<walVars, handlerVars, batch, flushVars, connected, session, cancelled, scriptErr, db>>

(* A file that cannot be opened or scanned is skipped whole, its records   *)
(* after the i-th up to the j-th; a log that cannot be listed yields none. *)
(* Either way the writer stays connected, and nothing reads them again.    *)
ReplayMisses(k) ==
  /\ kpc[k] = "read" /\ Fault
  /\ \E i, j \in 0 .. Len(written) :
       /\ i < j
       /\ todo' = [todo EXCEPT ![k] = SubSeq(written, 1, i) \o SubSeq(written, j + 1, Len(written))]
       /\ unread' = Elements(SubSeq(written, i + 1, j))
  /\ kpc' = [kpc EXCEPT ![k] = "replay"]
  /\ UNCHANGED <<mode, running, file, sticky, buf, written, synced, count, acked>>
  /\ UNCHANGED <<handlerVars, batch, flushVars, connected, session, cancelled, scriptErr, db>>

Chunk(s) == SubSeq(s, 1, IF Len(s) < BatchSize THEN Len(s) ELSE BatchSize)
AfterChunk(s) == SubSeq(s, BatchSize + 1, Len(s))

ReplayWrites(k) ==
  /\ kpc[k] = "replay" /\ todo[k] # <<>> /\ session
  /\ db' = db \cup Elements(Chunk(todo[k]))
  /\ todo' = [todo EXCEPT ![k] = AfterChunk(@)]
  /\ UNCHANGED <<walVars, handlerVars, batch, flushVars, kpc, connected, session, cancelled, errVars>>

(* A batch of the replay fails: the rest is left to the next attempt.      *)
ReplayFails(k) ==
  /\ kpc[k] = "replay" /\ todo[k] # <<>>
  /\ IF session THEN Fault ELSE UNCHANGED faults
  /\ scriptErr' = TRUE
  /\ todo' = [todo EXCEPT ![k] = <<>>]
  /\ UNCHANGED <<mode, running, file, sticky, buf, written, synced, count, acked>>
  /\ UNCHANGED <<handlerVars, batch, flushVars, kpc, connected, session, cancelled, unread, db>>

ReplayEnds(k) ==
  /\ kpc[k] = "replay" /\ todo[k] = <<>>
  /\ kpc' = [kpc EXCEPT ![k] = "idle"]
  /\ UNCHANGED <<walVars, handlerVars, batch, flushVars, todo, connected, session, cancelled, errVars, db>>

ConnectRuns(k) ==
  ConnectMarks(k) \/ ReplayReads(k) \/ ReplayMisses(k) \/ ReplayWrites(k) \/ ReplayFails(k)
  \/ ReplayEnds(k)

(* Mistake: a loop that is not connected does not listen to the cancel.    *)
LoopStopsIdle ==
  /\ cancelled /\ connected /\ kpc["loop"] = "idle"
  /\ kpc' = [kpc EXCEPT !["loop"] = "exit"]
  /\ UNCHANGED <<walVars, handlerVars, batch, flushVars, todo, connected, session, cancelled, errVars, db>>

(* reconnectLoop after the cancel.                                         *)
LoopStops ==
  /\ cancelled /\ kpc["loop"] \in {"idle", "due"}
  /\ kpc' = [kpc EXCEPT !["loop"] = "exit"]
  /\ UNCHANGED <<walVars, handlerVars, batch, flushVars, todo, connected, session, cancelled, errVars, db>>
============================================================================
