---------------------------- MODULE IpcClient ----------------------------
(***************************************************************************)
(* src/pkg/ipc/client.go with the spool of src/pkg/ipc/spool.go: producers *)
(* call Send, one drainLoop replays the spool over the current connection, *)
(* each connection has a readLoop that watches for its end, and the main   *)
(* goroutine flushes and stops the client.  The goroutines share conn,     *)
(* connected, the spool and two one-slot wake-up channels.                 *)
(*                                                                         *)
(* A record of the spool is one message; record framing inside the file is *)
(* the subject of SpoolFile.  Steps are cut where another goroutine can    *)
(* observe the difference: breakConn takes (and closes) the connection in  *)
(* one step and clears connected in a later one, connect stores conn in    *)
(* one step and sets connected in a later one, and the drain holds the     *)
(* spool's mutex from its first send to its return.                        *)
(***************************************************************************)
EXTENDS UnixSocket

CONSTANTS
  Producers,    \* goroutines that call Send
  MaxMsgs,      \* bound: messages each producer sends
  QueueSize,    \* capacity of the queue channel
  MaxSpool,     \* capacity of the spool, in records
  MaxCrashes    \* bound: crashes of the client's process

ASSUME MaxMsgsAssumption == MaxMsgs \in Nat
ASSUME QueueSizeAssumption == QueueSize \in Nat \ {0}
ASSUME MaxSpoolAssumption == MaxSpool \in Nat \ {0}
ASSUME MaxCrashesAssumption == MaxCrashes \in Nat

VARIABLES
  prod,       \* where each producer is in Send
  seq,        \* number of each producer's latest message
  queue,      \* the queue channel, oldest first
  spilling,
  spool,      \* records of the spool file, oldest first
  dpc,        \* where drainLoop is
  idx,        \* position in the spool of the record drain sends next
  dconn,      \* connect's local conn
  conn, connected, notify, connBroken,
  rl,         \* where each connection's readLoop is
  main,       \* where the goroutine that calls Flush and Stop is
  quiet,      \* the producers were stopped before Flush
  crashes,
  log,        \* history: every record ever appended to the spool
  handed,     \* history: the longest prefix of log written to connections
  born        \* history: Len(log) when the process started

prodVars == <<prod, seq, queue, spilling>>
drainVars == <<dpc, idx, dconn>>
connVars == <<conn, connected, connBroken>>
histVars == <<log, handed, born>>
mainVars == <<main, quiet, crashes>>
clientVars == <<prodVars, spool, drainVars, connVars, notify, rl, mainVars, histVars>>

Msgs == Producers \X (1 .. MaxMsgs)
MsgOf(p) == <<p, seq[p]>>

(* closed and ctx are set together at the start of Stop.                   *)
Closed == main \in {"break", "mark", "wait", "done"}

SpoolLocked == dpc = "send"

(* How many appended records are no longer in the spool.                   *)
Base == Len(log) - Len(spool)

ClientInit ==
  /\ prod = [p \in Producers |-> "idle"]
  /\ seq = [p \in Producers |-> 0]
  /\ queue = <<>> /\ spilling = FALSE /\ spool = <<>>
  /\ dpc = "top" /\ idx = 1 /\ dconn = NoConn
  /\ conn = NoConn /\ connected = FALSE
  /\ notify = FALSE /\ connBroken = FALSE
  /\ rl = [c \in Conns |-> "none"]
  /\ main = "run" /\ quiet = FALSE /\ crashes = 0
  /\ log = <<>> /\ handed = 0 /\ born = 0

ProdTypeOK ==
  /\ prod \in [Producers -> {"idle", "route", "append", "signal"}]
  /\ seq \in [Producers -> 0 .. MaxMsgs]
  /\ queue \in Seq(Msgs) /\ Len(queue) <= QueueSize
  /\ spilling \in BOOLEAN

SpoolTypeOK ==
  /\ spool \in Seq(Msgs) /\ Len(spool) <= MaxSpool
  /\ log \in Seq(Msgs)
  /\ handed \in 0 .. Len(log)
  /\ born \in 0 .. Len(log)

DrainTypeOK ==
  /\ dpc \in {"top", "dial", "connect", "backoff", "size", "send", "wait", "break", "mark", "exit"}
  /\ idx \in Nat \ {0}
  /\ dconn \in Conns \cup {NoConn}

ConnTypeOK ==
  /\ conn \in Conns \cup {NoConn}
  /\ connected \in BOOLEAN /\ notify \in BOOLEAN /\ connBroken \in BOOLEAN
  /\ rl \in [Conns -> {"none", "check", "read", "break", "mark", "done"}]

MainTypeOK ==
  /\ main \in {"run", "flushed", "break", "mark", "wait", "done"}
  /\ quiet \in BOOLEAN
  /\ crashes \in 0 .. MaxCrashes

ClientTypeOK == ProdTypeOK /\ SpoolTypeOK /\ DrainTypeOK /\ ConnTypeOK /\ MainTypeOK

-----------------------------------------------------------------------------
(* Send: the closed check, the route, the append, the wake-up.             *)

SendBegin(p) ==
  /\ prod[p] = "idle" /\ ~quiet /\ ~Closed
  /\ seq[p] < MaxMsgs
  /\ prod' = [prod EXCEPT ![p] = "route"]
  /\ seq' = [seq EXCEPT ![p] = @ + 1]
  /\ UNCHANGED <<queue, spilling, spool, drainVars, connVars, notify, rl, mainVars, histVars, sockVars>>

SendToQueue(p) ==
  /\ prod[p] = "route" /\ ~spilling /\ Len(queue) < QueueSize
  /\ queue' = Append(queue, MsgOf(p))
  /\ prod' = [prod EXCEPT ![p] = "idle"]
  /\ UNCHANGED <<seq, spilling, spool, drainVars, connVars, notify, rl, mainVars, histVars, sockVars>>

(* Mistake: a disconnected client spills without setting spilling.         *)
SendSpillsDisconnected(p) ==
  /\ prod[p] = "route" /\ (spilling \/ Len(queue) = QueueSize \/ ~connected)
  /\ prod' = [prod EXCEPT ![p] = "append"]
  /\ UNCHANGED <<seq, queue, spilling, spool, drainVars, connVars, notify, rl, mainVars, histVars, sockVars>>

(* spilling is set before the append, so that later Sends spill as well.   *)
SendSpills(p) ==
  /\ prod[p] = "route" /\ (spilling \/ Len(queue) = QueueSize)
  /\ spilling' = TRUE
  /\ prod' = [prod EXCEPT ![p] = "append"]
  /\ UNCHANGED <<seq, queue, spool, drainVars, connVars, notify, rl, mainVars, histVars, sockVars>>

(* The spool's mutex is taken for the whole append: a drain in progress    *)
(* keeps the producer waiting.                                             *)
Appendable == ~SpoolLocked /\ main # "done" /\ Len(spool) < MaxSpool

SpoolAppend(p) ==
  /\ prod[p] = "append" /\ Appendable
  /\ spool' = Append(spool, MsgOf(p))
  /\ log' = Append(log, MsgOf(p))
  /\ prod' = [prod EXCEPT ![p] = "signal"]
  /\ UNCHANGED <<seq, queue, spilling, drainVars, connVars, notify, rl, mainVars, handed, born, sockVars>>

(* ErrSpoolFull, or a write to the spool file that Stop has closed.        *)
SpoolRefuses(p) ==
  /\ prod[p] = "append" /\ ~SpoolLocked
  /\ Len(spool) = MaxSpool \/ main = "done"
  /\ prod' = [prod EXCEPT ![p] = "idle"]
  /\ UNCHANGED <<seq, queue, spilling, spool, drainVars, connVars, notify, rl, mainVars, histVars, sockVars>>

(* Mistake: only a connected client is woken.                              *)
SendSignalsConnected(p) ==
  /\ prod[p] = "signal"
  /\ notify' = (notify \/ connected)
  /\ prod' = [prod EXCEPT ![p] = "idle"]
  /\ UNCHANGED <<seq, queue, spilling, spool, drainVars, connVars, rl, mainVars, histVars, sockVars>>

SendSignals(p) ==
  /\ prod[p] = "signal"
  /\ notify' = TRUE
  /\ prod' = [prod EXCEPT ![p] = "idle"]
  /\ UNCHANGED <<seq, queue, spilling, spool, drainVars, connVars, rl, mainVars, histVars, sockVars>>

Send(p) ==
  \/ SendBegin(p) \/ SendToQueue(p) \/ SendSpills(p)
  \/ SpoolAppend(p) \/ SpoolRefuses(p) \/ SendSignals(p)

-----------------------------------------------------------------------------
(* breakConn, called by drainLoop, by a readLoop and by Stop.  It acts on  *)
(* whatever connection is current, and only when there is one.             *)

BreakTakes ==
  /\ conn # NoConn
  /\ conn' = NoConn
  /\ cEnd' = [cEnd EXCEPT ![conn] = "closed"]
  /\ UNCHANGED <<connected, connBroken, dials, sEnd, sent, rd, listening>>

BreakNothing == conn = NoConn /\ UNCHANGED <<connVars, sockVars>>

BreakMarks ==
  /\ connected' = FALSE
  /\ connBroken' = TRUE
  /\ UNCHANGED <<conn, sockVars>>

-----------------------------------------------------------------------------
(* drainLoop.                                                              *)

(* Mistake: every turn of the loop dials.                                  *)
DrainTopDials ==
  /\ dpc = "top"
  /\ dpc' = IF Closed THEN "exit" ELSE "dial"
  /\ UNCHANGED <<prodVars, spool, idx, dconn, connVars, notify, rl, mainVars, histVars, sockVars>>

DrainTop ==
  /\ dpc = "top"
  /\ dpc' = IF Closed THEN "exit" ELSE IF connected THEN "size" ELSE "dial"
  /\ UNCHANGED <<prodVars, spool, idx, dconn, connVars, notify, rl, mainVars, histVars, sockVars>>

(* connect: net.DialTimeout, then conn = the new connection.               *)
DrainDials ==
  /\ dpc = "dial"
  /\ \E c \in Conns : Dial(c) /\ conn' = c /\ dconn' = c
  /\ dpc' = "connect"
  /\ UNCHANGED <<prodVars, spool, idx, connected, connBroken, notify, rl, mainVars, histVars>>

(* The dial is refused or times out.                                       *)
DrainDialFails ==
  /\ dpc = "dial"
  /\ dpc' = "backoff"
  /\ UNCHANGED <<prodVars, spool, idx, dconn, connVars, notify, rl, mainVars, histVars, sockVars>>

(* connect: connected = true and the connection's readLoop.                *)
DrainConnected ==
  /\ dpc = "connect"
  /\ connected' = TRUE
  /\ rl' = [rl EXCEPT ![dconn] = "check"]
  /\ dpc' = "size" /\ dconn' = NoConn
  /\ UNCHANGED <<prodVars, spool, idx, conn, connBroken, notify, mainVars, histVars, sockVars>>

DrainBackoff ==
  /\ dpc = "backoff"
  /\ dpc' = "top"
  /\ UNCHANGED <<prodVars, spool, idx, dconn, connVars, notify, rl, mainVars, histVars, sockVars>>

DrainSize ==
  /\ dpc = "size"
  /\ IF spool # <<>>
       THEN dpc' = "send" /\ idx' = 1
       ELSE dpc' = "wait" /\ UNCHANGED idx
  /\ UNCHANGED <<prodVars, spool, dconn, connVars, notify, rl, mainVars, histVars, sockVars>>

(* Written is the first record of log that had not been written before.    *)
HandsNext(m) == handed < Len(log) /\ log[handed + 1] = m

(* Mistake: the newest record is sent first.                               *)
DrainSendsNewest ==
  /\ dpc = "send" /\ idx <= Len(spool) /\ conn # NoConn
  /\ Write(conn, spool[Len(spool) + 1 - idx])
  /\ idx' = idx + 1
  /\ handed' = IF HandsNext(spool[Len(spool) + 1 - idx]) THEN handed + 1 ELSE handed
  /\ UNCHANGED <<prodVars, spool, dpc, dconn, connVars, notify, rl, mainVars, log, born>>

(* drain -> writeFrame of one record.                                      *)
DrainSends ==
  /\ dpc = "send" /\ idx <= Len(spool) /\ conn # NoConn
  /\ Write(conn, spool[idx])
  /\ idx' = idx + 1
  /\ handed' = IF HandsNext(spool[idx]) THEN handed + 1 ELSE handed
  /\ UNCHANGED <<prodVars, spool, dpc, dconn, connVars, notify, rl, mainVars, log, born>>

(* Mistake: a failed drain is truncated like a successful one.             *)
DrainSendFailsTruncates ==
  /\ dpc = "send" /\ idx <= Len(spool)
  /\ conn # NoConn => WriteFails(conn)
  /\ dpc' = "break" /\ idx' = 1 /\ spool' = <<>>
  /\ UNCHANGED <<prodVars, dconn, connVars, notify, rl, mainVars, histVars, sockVars>>

(* Mistake: the drain is tried again over the same connection.             *)
DrainSendFailsKeepsConn ==
  /\ dpc = "send" /\ idx <= Len(spool)
  /\ conn # NoConn => WriteFails(conn)
  /\ dpc' = "top" /\ idx' = 1
  /\ UNCHANGED <<prodVars, spool, dconn, connVars, notify, rl, mainVars, histVars, sockVars>>

(* A send fails: the file is left as it is and the connection is broken.   *)
DrainSendFails ==
  /\ dpc = "send" /\ idx <= Len(spool)
  /\ conn # NoConn => WriteFails(conn)
  /\ dpc' = "break" /\ idx' = 1
  /\ UNCHANGED <<prodVars, spool, dconn, connVars, notify, rl, mainVars, histVars, sockVars>>

(* Every record was sent: the file is truncated, the mutex released.       *)
DrainTruncates ==
  /\ dpc = "send" /\ idx > Len(spool)
  /\ spool' = <<>>
  /\ dpc' = "wait" /\ idx' = 1
  /\ UNCHANGED <<prodVars, dconn, connVars, notify, rl, mainVars, histVars, sockVars>>

DrainBreaks ==
  /\ \/ dpc = "break" /\ BreakTakes /\ dpc' = "mark"
     \/ dpc = "break" /\ BreakNothing /\ dpc' = "top"
     \/ dpc = "mark" /\ BreakMarks /\ dpc' = "top"
  /\ UNCHANGED <<prodVars, spool, idx, dconn, notify, rl, mainVars, histVars>>

(* The select: shutdown, new data or a broken connection.                  *)
DrainWakes ==
  /\ dpc = "wait"
  /\ \/ Closed /\ dpc' = "exit" /\ UNCHANGED <<notify, connBroken>>
     \/ notify /\ notify' = FALSE /\ dpc' = "top" /\ UNCHANGED connBroken
     \/ connBroken /\ connBroken' = FALSE /\ dpc' = "top" /\ UNCHANGED notify
  /\ UNCHANGED <<prodVars, spool, idx, dconn, conn, connected, rl, mainVars, histVars, sockVars>>

Drain ==
  \/ DrainTop \/ DrainDials \/ DrainDialFails \/ DrainConnected \/ DrainBackoff
  \/ DrainSize \/ DrainSends \/ DrainSendFails \/ DrainTruncates
  \/ DrainBreaks \/ DrainWakes

-----------------------------------------------------------------------------
(* readLoop of connection c.  The servers of this pipeline send no reply,  *)
(* so its one read ends with an error.                                     *)

ReadLoopChecks(c) ==
  /\ rl[c] = "check"
  /\ rl' = [rl EXCEPT ![c] = IF Closed THEN "done" ELSE "read"]
  /\ UNCHANGED <<connVars, sockVars>>

ReadLoopFails(c) ==
  /\ rl[c] = "read" /\ ReadFails(c)
  /\ rl' = [rl EXCEPT ![c] = "break"]
  /\ UNCHANGED <<connVars, sockVars>>

ReadLoopBreaks(c) ==
  \/ rl[c] = "break" /\ BreakTakes /\ rl' = [rl EXCEPT ![c] = "mark"]
  \/ rl[c] = "break" /\ BreakNothing /\ rl' = [rl EXCEPT ![c] = "done"]
  \/ rl[c] = "mark" /\ BreakMarks /\ rl' = [rl EXCEPT ![c] = "done"]

ReadLoop(c) ==
  /\ ReadLoopChecks(c) \/ ReadLoopFails(c) \/ ReadLoopBreaks(c)
  /\ UNCHANGED <<prodVars, spool, drainVars, notify, mainVars, histVars>>

-----------------------------------------------------------------------------
(* The main goroutine: the shutdown order of cmd/*/main.go is to stop the  *)
(* producers, Flush, then Stop.  A Flush that times out goes on to Stop.   *)

StopProducers ==
  /\ main = "run" /\ ~quiet
  /\ \A p \in Producers : prod[p] = "idle"
  /\ quiet' = TRUE
  /\ UNCHANGED <<prodVars, spool, drainVars, connVars, notify, rl, main, crashes, histVars, sockVars>>

FlushReturns ==
  /\ main = "run" /\ spool = <<>>
  /\ main' = "flushed"
  /\ UNCHANGED <<prodVars, spool, drainVars, connVars, notify, rl, quiet, crashes, histVars, sockVars>>

StopBegins ==
  /\ main \in {"run", "flushed"}
  /\ main' = "break"
  /\ UNCHANGED <<prodVars, spool, drainVars, connVars, notify, rl, quiet, crashes, histVars, sockVars>>

(* Mistake: Stop waits without closing the connection.                     *)
StopBreaksNothing ==
  /\ main = "break" /\ main' = "wait"
  /\ UNCHANGED <<prodVars, spool, drainVars, connVars, notify, rl, quiet, crashes, histVars, sockVars>>

StopBreaks ==
  /\ \/ main = "break" /\ BreakTakes /\ main' = "mark"
     \/ main = "break" /\ BreakNothing /\ main' = "wait"
     \/ main = "mark" /\ BreakMarks /\ main' = "wait"
  /\ UNCHANGED <<prodVars, spool, drainVars, notify, rl, quiet, crashes, histVars>>

(* wg.Wait returned: the spool is closed and its file removed.             *)
StopReturns ==
  /\ main = "wait" /\ dpc = "exit"
  /\ \A c \in Conns : rl[c] \in {"none", "done"}
  /\ main' = "done"
  /\ spool' = <<>>
  /\ UNCHANGED <<prodVars, drainVars, connVars, notify, rl, quiet, crashes, histVars, sockVars>>

Main == StopProducers \/ FlushReturns \/ StopBegins \/ StopBreaks \/ StopReturns

-----------------------------------------------------------------------------
(* The process dies and is started again: memory is lost, the spool file   *)
(* is reopened as it was, the kernel closes the client ends.               *)
Crash ==
  /\ main # "done" /\ crashes < MaxCrashes
  /\ crashes' = crashes + 1
  /\ prod' = [p \in Producers |-> "idle"]
  /\ queue' = <<>> /\ spilling' = FALSE
  /\ dpc' = "top" /\ idx' = 1 /\ dconn' = NoConn
  /\ conn' = NoConn /\ connected' = FALSE /\ connBroken' = FALSE /\ notify' = FALSE
  /\ rl' = [c \in Conns |-> "none"]
  /\ main' = "run" /\ quiet' = FALSE
  /\ born' = Len(log)
  /\ cEnd' = [c \in Conns |-> IF cEnd[c] = "open" THEN "closed" ELSE cEnd[c]]
  /\ UNCHANGED <<seq, spool, log, handed, dials, sEnd, sent, rd, listening>>

ClientNext ==
  \/ \E p \in Producers : Send(p)
  \/ Drain
  \/ \E c \in Conns : ReadLoop(c)
  \/ Main
  \/ Crash

(***************************************************************************)
(* The Go scheduler runs every runnable goroutine, a blocked write ends by *)
(* its deadline, and Stop, once begun, goes on.  A goroutine that waits for*)
(* a sync.Mutex gets it even if others take it again and again.  Nothing   *)
(* makes main call Stop, a producer send, or a dial succeed.               *)
(***************************************************************************)
StopRuns == StopBreaks \/ StopReturns
SendRuns(p) == SendToQueue(p) \/ SendSpills(p) \/ SpoolAppend(p) \/ SpoolRefuses(p) \/ SendSignals(p)
=============================================================================
