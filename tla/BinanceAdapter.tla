--------------------------- MODULE BinanceAdapter ---------------------------
(***************************************************************************)
(* src/pkg/adapter/binance.go: a WebSocket.  Two goroutines run next to    *)
(* receiveLoop: one pings the venue, one rotates the session before the    *)
(* venue ends it after 24 hours.                                           *)
(***************************************************************************)
EXTENDS Adapter

VARIABLES
  hpc, hconn,  \* heartbeatLoop: "off", "tick" or "ping", and the connection
  opc          \* sessionRotationLoop: "off", "tick" or where it is in Stop

sideVars == <<hpc, hconn, opc>>

Binance == "BINANCE"

SideInit == hpc = "off" /\ hconn = NoConn /\ opc = "off"

SideTypeOK ==
  /\ hpc \in {"off", "tick", "ping"} /\ hconn \in Conns \cup {NoConn}
  /\ opc \in {"off", "tick", "flags", "close", "cancel", "connect"}

(* connected is set before the subscription is written.                    *)
BinancePublishes == PublishConn(Binance, "mark")

BinanceSubscribeFails ==
  /\ cpc[Binance] = "subscribe" /\ Broken(Binance)
  /\ cpc' = [cpc EXCEPT ![Binance] = "undo"]
  /\ UNCHANGED <<ctxVars, linkVars, cconn, loopVars, msgVars>>

(* b.conn.Close(): the pointer stays.                                      *)
BinanceUndoesConnect ==
  /\ cpc[Binance] = "undo" /\ conn[Binance] # NoConn
  /\ alive' = [alive EXCEPT ![Binance] = @ \ {conn[Binance]}]
  /\ connected' = [connected EXCEPT ![Binance] = FALSE]
  /\ cpc' = [cpc EXCEPT ![Binance] = "err"]
  /\ UNCHANGED <<ctxVars, conn, cconn, loopVars, msgVars>>

(* A Stop has set b.conn to nil: Close panics, Connect recovers and        *)
(* returns a nil error, and connected stays.                               *)
BinanceUndoPanics ==
  /\ cpc[Binance] = "undo" /\ conn[Binance] = NoConn
  /\ cpc' = [cpc EXCEPT ![Binance] = "ok"]
  /\ UNCHANGED <<ctxVars, linkVars, cconn, loopVars, msgVars>>

BinanceDialSucceeds == DialSucceeds(Binance, {hconn})

BinanceConnect ==
  \/ DialFails(Binance) \/ BinanceDialSucceeds
  \/ BinancePublishes \/ MarkConnected(Binance) \/ Subscribed(Binance)
  \/ BinanceSubscribeFails \/ BinanceUndoesConnect \/ BinanceUndoPanics

(* A failed read is final for a WebSocket.                                 *)
BinanceReadFails == LoopReadFails(Binance, alive[Binance] \ {rconn[Binance]})

BinanceReceives == ReceiveLoop(Binance) \/ BinanceReadFails

-----------------------------------------------------------------------------
(* heartbeatLoop.  A loop that waits for its ticker leaves as soon as the  *)
(* adapter is cancelled; a tick at that moment is one just before it.      *)

HeartbeatTicks ==
  /\ hpc = "tick" /\ ~cancelled[Binance] /\ connected[Binance] /\ conn[Binance] # NoConn
  /\ hconn' = conn[Binance] /\ hpc' = "ping"
  /\ UNCHANGED <<adapterVars, opc>>

HeartbeatDone == hpc' = "tick" /\ hconn' = NoConn

HeartbeatPings ==
  /\ hpc = "ping"
  /\ HeartbeatDone
  /\ UNCHANGED <<adapterVars, opc>>

(* connected is cleared whichever connection the ping was for.             *)
HeartbeatFails ==
  /\ hpc = "ping" /\ hconn \notin alive[Binance]
  /\ connected' = [connected EXCEPT ![Binance] = FALSE]
  /\ HeartbeatDone
  /\ UNCHANGED <<ctxVars, conn, alive, connectVars, loopVars, msgVars, opc>>

HeartbeatEnds ==
  /\ hpc = "tick" /\ cancelled[Binance]
  /\ hpc' = "off"
  /\ UNCHANGED <<adapterVars, hconn, opc>>

HeartbeatRuns == HeartbeatPings \/ HeartbeatFails \/ HeartbeatEnds

-----------------------------------------------------------------------------
(* sessionRotationLoop.                                                    *)

RotationTicks ==
  /\ opc = "tick" /\ ~cancelled[Binance]
  /\ opc' = "flags"
  /\ UNCHANGED <<adapterVars, hpc, hconn>>

RotationStops ==
  /\ \/ opc = "flags" /\ StopFlags(Binance) /\ opc' = "close"
     \/ opc = "close" /\ StopConn(Binance) /\ opc' = "cancel"
     \/ opc = "cancel" /\ StopContext(Binance) /\ opc' = "connect"
  /\ UNCHANGED <<hpc, hconn>>

(* Connect(b.ctx) returns at once if connected is set; else it dials with  *)
(* the context that Stop has just cancelled, which fails.                  *)
RotationConnects ==
  /\ opc = "connect"
  /\ opc' = "tick"
  /\ UNCHANGED <<adapterVars, hpc, hconn>>

RotationEnds ==
  /\ opc = "tick" /\ cancelled[Binance]
  /\ opc' = "off"
  /\ UNCHANGED <<adapterVars, hpc, hconn>>

RotationRuns == RotationStops \/ RotationConnects \/ RotationEnds
===========================================================================
