------------------------------ MODULE Adapter ------------------------------
(***************************************************************************)
(* What the market-data adapters of src/pkg/adapter have in common: a      *)
(* connection to a venue that may break at any time, an atomic flag        *)
(* connected next to the pointer conn, one receiveLoop that reads,         *)
(* reconnects and delivers, and a Stop that other goroutines call.         *)
(*                                                                         *)
(* A step is one access to an atomic, to the channel, to the connection or *)
(* to conn; accesses nobody can come between with effect are one step.     *)
(* Left out: running (Start is called once) and the statistics of Health   *)
(* other than messagesRecv.                                                *)
(***************************************************************************)
EXTENDS Integers, Sequences, FiniteSets

CONSTANTS
  Adapters,     \* the adapters the configuration can enable
  MaxMsgs,      \* bound: messages of a venue that are counted
  MaxAttempts,  \* reconnectAttempts
  QueueSize     \* capacity of rawCh

ASSUME MaxMsgsAssumption == MaxMsgs \in Nat
ASSUME MaxAttemptsAssumption == MaxAttempts \in Nat \ {0}
ASSUME QueueSizeAssumption == QueueSize \in Nat \ {0}

VARIABLES
  ctxDone,       \* the context of main is cancelled
  cancelled,     \* cancelled[a]: the context of the adapter itself is
  connected, conn,
  alive,         \* alive[a]: connections neither end has closed
  cpc, cconn,    \* where the running Connect is and the connection it dialled
  rpc, rconn,    \* where receiveLoop is and the connection safeRead reads
  att,           \* the failed attempts of the reconnect that runs
  messagesRecv,  \* the statistic
  rawCh          \* the output channel that all adapters share: whose they are

ctxVars == <<ctxDone, cancelled>>
linkVars == <<connected, conn, alive>>
connectVars == <<cpc, cconn>>
loopVars == <<rpc, rconn, att>>
msgVars == <<messagesRecv, rawCh>>
adapterVars == <<ctxVars, linkVars, connectVars, loopVars, msgVars>>

(* Three connections are enough to tell a stale one from the current one:  *)
(* at most conn, the one a heartbeat holds and a new one are referred to.  *)
Conns == 1 .. 3
NoConn == 0

AdapterInit ==
  /\ ctxDone = FALSE /\ cancelled = [a \in Adapters |-> FALSE]
  /\ connected = [a \in Adapters |-> FALSE]
  /\ conn = [a \in Adapters |-> NoConn] /\ alive = [a \in Adapters |-> {}]
  /\ cpc = [a \in Adapters |-> "idle"] /\ cconn = [a \in Adapters |-> NoConn]
  /\ rpc = [a \in Adapters |-> "off"] /\ rconn = [a \in Adapters |-> NoConn]
  /\ att = [a \in Adapters |-> 0]
  /\ messagesRecv = [a \in Adapters |-> 0]
  /\ rawCh = <<>>

AdapterTypeOK ==
  /\ ctxDone \in BOOLEAN /\ cancelled \in [Adapters -> BOOLEAN]
  /\ connected \in [Adapters -> BOOLEAN]
  /\ conn \in [Adapters -> Conns \cup {NoConn}]
  /\ alive \in [Adapters -> SUBSET Conns]
  /\ cpc \in [Adapters -> {"idle", "dial", "publish", "handshake", "mark", "subscribe", "undo", "unmark", "ok", "err"}]
  /\ cconn \in [Adapters -> Conns \cup {NoConn}]
  /\ rpc \in [Adapters -> {"off", "check", "read", "failed", "backoff", "connect", "deliver"}]
  /\ rconn \in [Adapters -> Conns \cup {NoConn}]
  /\ att \in [Adapters -> 0 .. MaxAttempts]
  /\ messagesRecv \in [Adapters -> 0 .. MaxMsgs]
  /\ rawCh \in Seq(Adapters) /\ Len(rawCh) <= QueueSize

-----------------------------------------------------------------------------
(* The venue: a connection that the adapter still uses breaks.  One that   *)
(* was replaced is never used again, but for a heartbeat that was late.    *)

Held(a) == {conn[a], cconn[a], rconn[a]} \ {NoConn}

VenueDrops(a) ==
  /\ \E c \in alive[a] \cap Held(a) : alive' = [alive EXCEPT ![a] = @ \ {c}]
  /\ UNCHANGED <<ctxVars, connected, conn, connectVars, loopVars, msgVars>>

-----------------------------------------------------------------------------
(* Connect: what the adapters share.  It runs in main before Start and in  *)
(* receiveLoop after it.                                                   *)

(* The venue is unreachable, or the context is cancelled.                  *)
DialFails(a) ==
  /\ cpc[a] = "dial"
  /\ cpc' = [cpc EXCEPT ![a] = "err"]
  /\ UNCHANGED <<ctxVars, linkVars, cconn, loopVars, msgVars>>

DialSucceeds(a, held) ==
  /\ cpc[a] = "dial" /\ ~ctxDone
  /\ LET used == Held(a) \cup held
         c == CHOOSE c \in Conns : c \notin used
     IN /\ cconn' = [cconn EXCEPT ![a] = c]
        /\ alive' = [alive EXCEPT ![a] = (@ \cap used) \cup {c}]
  /\ cpc' = [cpc EXCEPT ![a] = "publish"]
  /\ UNCHANGED <<ctxVars, connected, conn, loopVars, msgVars>>

(* The connection before this one is not closed.                           *)
PublishConn(a, then) ==
  /\ cpc[a] = "publish"
  /\ conn' = [conn EXCEPT ![a] = cconn[a]]
  /\ cpc' = [cpc EXCEPT ![a] = then]
  /\ UNCHANGED <<ctxVars, connected, alive, cconn, loopVars, msgVars>>

MarkConnected(a) ==
  /\ cpc[a] = "mark"
  /\ connected' = [connected EXCEPT ![a] = TRUE]
  /\ cpc' = [cpc EXCEPT ![a] = "subscribe"]
  /\ UNCHANGED <<ctxVars, conn, alive, cconn, loopVars, msgVars>>

(* A write to conn[a]: it may succeed on a connection that is broken, and  *)
(* without a write deadline it fails only on one that is, or without one.  *)
WriteMaySucceed(a) == conn[a] # NoConn
Broken(a) == conn[a] \notin alive[a]

Subscribed(a) ==
  /\ cpc[a] = "subscribe" /\ WriteMaySucceed(a)
  /\ cpc' = [cpc EXCEPT ![a] = "ok"]
  /\ UNCHANGED <<ctxVars, linkVars, cconn, loopVars, msgVars>>

-----------------------------------------------------------------------------
(* receiveLoop.                                                            *)

Goto(a, pc) == rpc' = [rpc EXCEPT ![a] = pc]

LoopEnds(a) ==
  /\ rpc[a] = "check" /\ (ctxDone \/ cancelled[a])
  /\ Goto(a, "off")
  /\ UNCHANGED <<ctxVars, linkVars, connectVars, rconn, att, msgVars>>

LoopLoadsConn(a) ==
  /\ rpc[a] = "check" /\ ~ctxDone /\ ~cancelled[a] /\ conn[a] # NoConn
  /\ rconn' = [rconn EXCEPT ![a] = conn[a]]
  /\ Goto(a, "read")
  /\ UNCHANGED <<ctxVars, linkVars, connectVars, att, msgVars>>

LoopHasNoConn(a) ==
  /\ rpc[a] = "check" /\ ~ctxDone /\ ~cancelled[a] /\ conn[a] = NoConn
  /\ connected' = [connected EXCEPT ![a] = FALSE]
  /\ Goto(a, "failed")
  /\ UNCHANGED <<ctxVars, conn, alive, connectVars, rconn, att, msgVars>>

(* The statistic is counted before the message is on the channel.          *)
LoopReads(a) ==
  /\ rpc[a] = "read" /\ rconn[a] \in alive[a] /\ messagesRecv[a] < MaxMsgs
  /\ messagesRecv' = [messagesRecv EXCEPT ![a] = @ + 1]
  /\ rconn' = [rconn EXCEPT ![a] = NoConn]
  /\ Goto(a, "deliver")
  /\ UNCHANGED <<ctxVars, linkVars, connectVars, att, rawCh>>

(* The connection is broken, or the read deadline expires on a silent one. *)
(* left are the connections that can still be read afterwards.             *)
LoopReadFails(a, left) ==
  /\ rpc[a] = "read"
  /\ connected' = [connected EXCEPT ![a] = FALSE]
  /\ alive' = [alive EXCEPT ![a] = left]
  /\ rconn' = [rconn EXCEPT ![a] = NoConn]
  /\ Goto(a, "failed")
  /\ UNCHANGED <<ctxVars, conn, connectVars, att, msgVars>>

LoopSeesFailure(a) ==
  /\ rpc[a] = "failed"
  /\ Goto(a, IF connected[a] THEN "check" ELSE "backoff")
  /\ UNCHANGED <<ctxVars, linkVars, connectVars, rconn, att, msgVars>>

LoopDelivers(a) ==
  /\ rpc[a] = "deliver" /\ Len(rawCh) < QueueSize
  /\ rawCh' = Append(rawCh, a)
  /\ Goto(a, "check")
  /\ UNCHANGED <<ctxVars, linkVars, connectVars, rconn, att, messagesRecv>>

(* Mistake: the message that was given up stays counted.                   *)
LoopGivesUpCounted(a) ==
  /\ rpc[a] = "deliver" /\ Len(rawCh) = QueueSize
  /\ Goto(a, "check")
  /\ UNCHANGED <<ctxVars, linkVars, connectVars, rconn, att, msgVars>>

(* One second passes and the channel is still full.                        *)
LoopGivesUp(a) ==
  /\ rpc[a] = "deliver" /\ Len(rawCh) = QueueSize
  /\ messagesRecv' = [messagesRecv EXCEPT ![a] = @ - 1]
  /\ Goto(a, "check")
  /\ UNCHANGED <<ctxVars, linkVars, connectVars, rconn, att, rawCh>>

-----------------------------------------------------------------------------
(* reconnect, called by receiveLoop with the context of main: it does not  *)
(* see that the adapter itself was cancelled.                              *)

ReconnectReturns(a) ==
  /\ Goto(a, "check")
  /\ att' = [att EXCEPT ![a] = 0]

ReconnectCancelled(a) ==
  /\ rpc[a] = "backoff" /\ ctxDone /\ att[a] < MaxAttempts
  /\ ReconnectReturns(a)
  /\ UNCHANGED <<ctxVars, linkVars, connectVars, rconn, msgVars>>

(* The select may take the timer although ctx is done by now.              *)
ReconnectDials(a) ==
  /\ rpc[a] = "backoff" /\ att[a] < MaxAttempts
  /\ Goto(a, "connect")
  /\ cpc' = [cpc EXCEPT ![a] = IF connected[a] THEN "ok" ELSE "dial"]
  /\ UNCHANGED <<ctxVars, linkVars, cconn, rconn, att, msgVars>>

ConnectReturns(a) ==
  /\ cpc' = [cpc EXCEPT ![a] = "idle"]
  /\ cconn' = [cconn EXCEPT ![a] = NoConn]

ReconnectFails(a) ==
  /\ rpc[a] = "connect" /\ cpc[a] = "err"
  /\ ConnectReturns(a)
  /\ att' = [att EXCEPT ![a] = @ + 1]
  /\ Goto(a, "backoff")
  /\ UNCHANGED <<ctxVars, linkVars, rconn, msgVars>>

Reconnected(a) ==
  /\ rpc[a] = "connect" /\ cpc[a] = "ok"
  /\ ConnectReturns(a) /\ ReconnectReturns(a)
  /\ UNCHANGED <<ctxVars, linkVars, rconn, msgVars>>

(* Mistake: the loop ends with the attempts.                               *)
ReconnectEndsLoop(a) ==
  /\ rpc[a] = "backoff" /\ att[a] = MaxAttempts
  /\ Goto(a, "off")
  /\ UNCHANGED <<ctxVars, linkVars, connectVars, rconn, att, msgVars>>

(* Mistake: the attempts start over without a look at the contexts.        *)
ReconnectNeverGivesUp(a) ==
  /\ rpc[a] = "backoff" /\ att[a] = MaxAttempts
  /\ att' = [att EXCEPT ![a] = 0]
  /\ UNCHANGED <<ctxVars, linkVars, connectVars, rpc, rconn, msgVars>>

(* Mistake: one attempt more than configured.                              *)
ReconnectTriesOnceMore(a) ==
  /\ rpc[a] = "backoff" /\ att[a] = MaxAttempts
  /\ Goto(a, "connect")
  /\ cpc' = [cpc EXCEPT ![a] = "dial"]
  /\ UNCHANGED <<ctxVars, linkVars, cconn, rconn, att, msgVars>>

(* receiveLoop goes on; the next read fails again and reconnects again.    *)
ReconnectGivesUp(a) ==
  /\ rpc[a] = "backoff" /\ att[a] = MaxAttempts
  /\ ReconnectReturns(a)
  /\ UNCHANGED <<ctxVars, linkVars, connectVars, rconn, msgVars>>

ReceiveLoop(a) ==
  \/ LoopEnds(a) \/ LoopLoadsConn(a) \/ LoopHasNoConn(a)
  \/ LoopReads(a) \/ LoopSeesFailure(a)
  \/ LoopDelivers(a) \/ LoopGivesUp(a)
  \/ ReconnectCancelled(a) \/ ReconnectDials(a)
  \/ ReconnectFails(a) \/ Reconnected(a) \/ ReconnectGivesUp(a)

-----------------------------------------------------------------------------
(* Stop: the flags, the connection, the context.                           *)

StopFlags(a) ==
  /\ connected' = [connected EXCEPT ![a] = FALSE]
  /\ UNCHANGED <<ctxVars, conn, alive, connectVars, loopVars, msgVars>>

StopConn(a) ==
  /\ alive' = [alive EXCEPT ![a] = @ \ {conn[a]}]
  /\ conn' = [conn EXCEPT ![a] = NoConn]
  /\ UNCHANGED <<ctxVars, connected, connectVars, loopVars, msgVars>>

StopContext(a) ==
  /\ cancelled' = [cancelled EXCEPT ![a] = TRUE]
  /\ UNCHANGED <<ctxDone, linkVars, connectVars, loopVars, msgVars>>
===========================================================================
