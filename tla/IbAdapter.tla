----------------------------- MODULE IbAdapter -----------------------------
(***************************************************************************)
(* src/pkg/adapter/ib.go: a TCP connection with a handshake, and no        *)
(* goroutine but receiveLoop.                                              *)
(***************************************************************************)
EXTENDS Adapter

IB == "IB"

(* Mistake: connected is set as early as in the Binance adapter.           *)
IbPublishesConnected ==
  /\ cpc[IB] = "publish"
  /\ conn' = [conn EXCEPT ![IB] = cconn[IB]]
  /\ connected' = [connected EXCEPT ![IB] = TRUE]
  /\ cpc' = [cpc EXCEPT ![IB] = "handshake"]
  /\ UNCHANGED <<ctxVars, alive, cconn, loopVars, msgVars>>

IbPublishes == PublishConn(IB, "handshake")

IbHandshakes ==
  /\ cpc[IB] = "handshake" /\ WriteMaySucceed(IB)
  /\ cpc' = [cpc EXCEPT ![IB] = "mark"]
  /\ UNCHANGED <<ctxVars, linkVars, cconn, loopVars, msgVars>>

(* The connection that was dialled is closed and conn set to nil.          *)
IbDiscards(then) ==
  /\ alive' = [alive EXCEPT ![IB] = @ \ {cconn[IB]}]
  /\ conn' = [conn EXCEPT ![IB] = NoConn]
  /\ cpc' = [cpc EXCEPT ![IB] = then]
  /\ UNCHANGED <<ctxVars, connected, cconn, loopVars, msgVars>>

(* Both writes have a deadline, which may pass on a live connection.       *)
IbHandshakeFails ==
  /\ cpc[IB] = "handshake"
  /\ IbDiscards("err")

IbSubscribeFails ==
  /\ cpc[IB] = "subscribe"
  /\ IbDiscards("unmark")

IbUnmarks ==
  /\ cpc[IB] = "unmark"
  /\ connected' = [connected EXCEPT ![IB] = FALSE]
  /\ cpc' = [cpc EXCEPT ![IB] = "err"]
  /\ UNCHANGED <<ctxVars, conn, alive, cconn, loopVars, msgVars>>

IbDialSucceeds == DialSucceeds(IB, {})

IbConnect ==
  \/ DialFails(IB) \/ IbDialSucceeds
  \/ IbPublishes \/ IbHandshakes \/ IbHandshakeFails
  \/ MarkConnected(IB) \/ Subscribed(IB) \/ IbSubscribeFails \/ IbUnmarks

(* A read that missed its deadline, or whose length field is too large,    *)
(* leaves the connection as it is.                                         *)
IbReadFails == LoopReadFails(IB, alive[IB])

IbReceives == ReceiveLoop(IB) \/ IbReadFails
===========================================================================
