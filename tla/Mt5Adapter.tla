----------------------------- MODULE Mt5Adapter -----------------------------
(***************************************************************************)
(* src/pkg/adapter/mt5_zmq.go: a ZeroMQ SUB socket, which reconnects to    *)
(* its venue by itself; the adapter only ever replaces the socket.  Start  *)
(* runs receiveLoop in its caller, and main, the caller, never comes to    *)
(* cancel or to stop anything: neither ctx nor stopCh is ever done.        *)
(***************************************************************************)
EXTENDS Adapter

VARIABLE reconnectCount  \* capped at MaxAttempts + 1: more makes no difference

Mt5 == "MT5"

Mt5Init == reconnectCount = 0
Mt5TypeOK == reconnectCount \in 0 .. MaxAttempts + 1

(* Connect: the socket is published and then marked; nothing is written.   *)
Mt5DialSucceeds == DialSucceeds(Mt5, {})
Mt5Publishes == PublishConn(Mt5, "mark")

Mt5Marks ==
  /\ cpc[Mt5] = "mark"
  /\ connected' = [connected EXCEPT ![Mt5] = TRUE]
  /\ cpc' = [cpc EXCEPT ![Mt5] = "ok"]
  /\ UNCHANGED <<ctxVars, conn, alive, cconn, loopVars, msgVars>>

Mt5Connect ==
  (DialFails(Mt5) \/ Mt5DialSucceeds \/ Mt5Publishes \/ Mt5Marks) /\ UNCHANGED reconnectCount

(* No message within a second, or one that is not JSON.                    *)
Mt5ReadsNothing ==
  /\ rpc[Mt5] = "read"
  /\ Goto(Mt5, "check")
  /\ rconn' = [rconn EXCEPT ![Mt5] = NoConn]
  /\ UNCHANGED <<ctxVars, linkVars, connectVars, att, msgVars>>

Mt5ReadFails == LoopReadFails(Mt5, alive[Mt5])

(* reconnect counts over the whole life of the adapter, not since the last *)
(* success.                                                                *)
Mt5GivesUp ==
  /\ rpc[Mt5] = "failed" /\ reconnectCount >= MaxAttempts
  /\ reconnectCount' = MaxAttempts + 1
  /\ Goto(Mt5, "check")
  /\ UNCHANGED <<ctxVars, linkVars, connectVars, rconn, att, msgVars>>

Mt5ClosesSocket ==
  /\ rpc[Mt5] = "failed" /\ reconnectCount < MaxAttempts
  /\ reconnectCount' = reconnectCount + 1
  /\ alive' = [alive EXCEPT ![Mt5] = @ \ {conn[Mt5]}]
  /\ conn' = [conn EXCEPT ![Mt5] = NoConn]
  /\ Goto(Mt5, "backoff")
  /\ UNCHANGED <<ctxVars, connected, connectVars, rconn, att, msgVars>>

Mt5Dials ==
  /\ rpc[Mt5] = "backoff"
  /\ connected' = [connected EXCEPT ![Mt5] = FALSE]
  /\ Goto(Mt5, "connect")
  /\ cpc' = [cpc EXCEPT ![Mt5] = "dial"]
  /\ UNCHANGED <<ctxVars, conn, alive, cconn, rconn, att, msgVars>>

Mt5Reconnected ==
  /\ rpc[Mt5] = "connect" /\ cpc[Mt5] \in {"ok", "err"}
  /\ ConnectReturns(Mt5)
  /\ Goto(Mt5, "check")
  /\ UNCHANGED <<ctxVars, linkVars, rconn, att, msgVars>>

Mt5Receives ==
  \/ Mt5GivesUp \/ Mt5ClosesSocket
  \/ /\ \/ LoopLoadsConn(Mt5) \/ LoopHasNoConn(Mt5) \/ LoopReads(Mt5)
        \/ LoopDelivers(Mt5) \/ LoopGivesUp(Mt5)
        \/ Mt5ReadsNothing \/ Mt5ReadFails \/ Mt5Dials \/ Mt5Reconnected
     /\ UNCHANGED reconnectCount
===========================================================================
