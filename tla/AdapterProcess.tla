--------------------------- MODULE AdapterProcess ---------------------------
(***************************************************************************)
(* src/cmd/adapter/main.go: connects and starts the enabled adapters one   *)
(* after the other, fans their messages in to the IPC client, and stops    *)
(* everything on a signal.  The IPC client is IpcClient; here a Send takes *)
(* the message or refuses it.                                              *)
(***************************************************************************)
EXTENDS BinanceAdapter, IbAdapter, Mt5Adapter

CONSTANT Configs  \* the sequences of enabled adapters that are looked at

ASSUME AdaptersAssumption == Adapters = {Binance, IB, Mt5}
ASSUME ConfigsAssumption ==
  Configs \subseteq {<<Binance>>, <<IB>>, <<Mt5>>, <<Binance, IB>>, <<Binance, Mt5>>, <<IB, Mt5>>, <<Binance, IB, Mt5>>}

VARIABLES
  enabled,
  mpc, mi,    \* main, and the index of the adapter it is at
  fpc,        \* the fanIn goroutine
  sent        \* sent[a]: messages of a that Send has taken or refused

mainVars == <<enabled, mpc, mi>>
fanVars == <<fpc, sent>>
privateVars == <<sideVars, reconnectCount>>
procVars == <<adapterVars, privateVars, mainVars, fanVars>>

Current == enabled[mi]

Init ==
  /\ AdapterInit /\ SideInit /\ Mt5Init
  /\ enabled \in Configs /\ mpc = "connect" /\ mi = 1
  /\ fpc = "receive" /\ sent = [a \in Adapters |-> 0]

TypeOK ==
  /\ AdapterTypeOK /\ SideTypeOK /\ Mt5TypeOK
  /\ enabled \in Configs /\ mi \in 1 .. Len(enabled)
  /\ mpc \in {"connect", "connecting", "blocked", "serve", "flags", "close", "cancel", "flush", "down"}
  /\ fpc \in {"receive", "drain", "off"} /\ sent \in [Adapters -> 0 .. MaxMsgs]

-----------------------------------------------------------------------------
(* main.                                                                   *)

MainConnects ==
  /\ mpc = "connect"
  /\ mpc' = "connecting"
  /\ cpc' = [cpc EXCEPT ![Current] = "dial"]
  /\ UNCHANGED <<ctxVars, linkVars, cconn, loopVars, msgVars, privateVars, enabled, mi, fanVars>>

NextAdapter(again, then) ==
  IF mi < Len(enabled) THEN mi' = mi + 1 /\ mpc' = again
                       ELSE mi' = 1 /\ mpc' = then

(* Start, whether Connect failed or not.  That of the MT5 adapter does not *)
(* return.                                                                 *)
MainStarts ==
  /\ mpc = "connecting" /\ cpc[Current] \in {"ok", "err"}
  /\ ConnectReturns(Current)
  /\ Goto(Current, "check")
  /\ IF Current = Binance THEN hpc' = "tick" /\ opc' = "tick" ELSE UNCHANGED <<hpc, opc>>
  /\ IF Current = Mt5 THEN mpc' = "blocked" /\ UNCHANGED mi ELSE NextAdapter("connect", "serve")
  /\ UNCHANGED <<ctxVars, linkVars, rconn, att, msgVars, hconn, reconnectCount, enabled, fanVars>>

(* A signal arrives.                                                       *)
MainCancels ==
  /\ mpc = "serve"
  /\ ctxDone' = TRUE /\ mpc' = "flags"
  /\ UNCHANGED <<cancelled, linkVars, connectVars, loopVars, msgVars, privateVars, enabled, mi, fanVars>>

MainStopsAdapter ==
  /\ \/ mpc = "flags" /\ StopFlags(Current) /\ mpc' = "close" /\ UNCHANGED mi
     \/ mpc = "close" /\ StopConn(Current) /\ mpc' = "cancel" /\ UNCHANGED mi
     \/ mpc = "cancel" /\ StopContext(Current) /\ NextAdapter("flags", "flush")
  /\ UNCHANGED <<privateVars, enabled, fanVars>>

(* Flush ends after ten seconds at the latest; client.Stop.                *)
MainEnds ==
  /\ mpc = "flush"
  /\ mpc' = "down"
  /\ UNCHANGED <<adapterVars, privateVars, enabled, mi, fanVars>>

MainRuns == MainConnects \/ MainStarts \/ MainStopsAdapter \/ MainEnds

-----------------------------------------------------------------------------
(* fanIn.  Its select may take a message although ctx is done.             *)

FanReceives ==
  /\ fpc \in {"receive", "drain"} /\ rawCh # <<>>
  /\ sent' = [sent EXCEPT ![Head(rawCh)] = @ + 1]
  /\ rawCh' = Tail(rawCh)
  /\ UNCHANGED <<ctxVars, linkVars, connectVars, loopVars, messagesRecv, privateVars, mainVars, fpc>>

FanSeesDone ==
  /\ fpc = "receive" /\ ctxDone
  /\ fpc' = "drain"
  /\ UNCHANGED <<adapterVars, privateVars, mainVars, sent>>

FanEnds ==
  /\ fpc = "drain" /\ rawCh = <<>>
  /\ fpc' = "off"
  /\ UNCHANGED <<adapterVars, privateVars, mainVars, sent>>

FanIn == FanReceives \/ FanSeesDone \/ FanEnds

-----------------------------------------------------------------------------
BinanceRuns == (BinanceConnect \/ BinanceReceives) /\ UNCHANGED <<privateVars, mainVars, fanVars>>
IbRuns == (IbConnect \/ IbReceives) /\ UNCHANGED <<privateVars, mainVars, fanVars>>
Mt5Runs == (Mt5Connect \/ Mt5Receives) /\ UNCHANGED <<sideVars, mainVars, fanVars>>
Heartbeat == HeartbeatRuns /\ UNCHANGED <<reconnectCount, mainVars, fanVars>>
Rotation == RotationRuns /\ UNCHANGED <<reconnectCount, mainVars, fanVars>>
DialAnswered ==
  (BinanceDialSucceeds \/ IbDialSucceeds) /\ UNCHANGED <<privateVars, mainVars, fanVars>>

Over == mpc = "down" /\ UNCHANGED procVars

Next ==
  \/ \E a \in {Binance, IB} : VenueDrops(a) /\ UNCHANGED <<privateVars, mainVars, fanVars>>
  \/ BinanceRuns \/ IbRuns \/ Mt5Runs
  \/ HeartbeatTicks /\ UNCHANGED <<reconnectCount, mainVars, fanVars>>
  \/ RotationTicks /\ UNCHANGED <<reconnectCount, mainVars, fanVars>>
  \/ Heartbeat \/ Rotation
  \/ MainRuns \/ MainCancels \/ FanIn
  \/ Over

Spec == Init /\ [][Next]_procVars

(* The receive loops run when they can: dials return, reads end by their   *)
(* deadline, the timers of a backoff and of a blocked channel fire.        *)
(* Nothing is asked of main, the fanIn, the tickers and the venue.         *)
FairSpec == Spec /\ WF_procVars(BinanceRuns) /\ WF_procVars(IbRuns)

-----------------------------------------------------------------------------
(* The comment on messagesRecv: a consumer that has a message from the     *)
(* channel finds it counted.  The statistic is exactly the messages that   *)
(* were put on the channel and the one that is about to be.                *)
OnChannel(a) == Cardinality({i \in DOMAIN rawCh : rawCh[i] = a})

CountedBeforeSeen ==
  \A a \in Adapters :
    messagesRecv[a] = sent[a] + OnChannel(a) + (IF rpc[a] = "deliver" THEN 1 ELSE 0)

(* An adapter that says it is connected has a connection: a failed Connect *)
(* takes the flag back before anyone can be misled, unless a Stop has come *)
(* in between.                                                             *)
Stopping(a) ==
  cancelled[a] \/ (a = Binance /\ opc = "cancel") \/ (mpc = "cancel" /\ Current = a)

ConnectedHasConn ==
  \A a \in Adapters :
    connected[a] /\ conn[a] = NoConn => Stopping(a) \/ cpc[a] = "unmark"

(* "exponential backoff reconnection": an adapter whose connection is gone *)
(* gets another, beyond the configured attempts too, until it is stopped.  *)
(* (The MT5 adapter makes only so many attempts in its whole life.)        *)
(* It takes a venue that answers one of the dials it gets again and again  *)
(* and does not for ever drop connections or let writes miss their deadline*)
VenueFails ==
  \/ \E a \in {Binance, IB} : VenueDrops(a)
  \/ ~Broken(IB) /\ (IbHandshakeFails \/ IbSubscribeFails)

VenueAnswers == SF_procVars(DialAnswered) /\ <>[][~VenueFails]_procVars

Streams(a) == conn[a] \in alive[a]

Recovers ==
  VenueAnswers =>
    \A a \in {Binance, IB} : rpc[a] # "off" ~> (Streams(a) \/ ctxDone \/ cancelled[a])

(* An adapter that was stopped stops: receiveLoop ends, whatever it is     *)
(* blocked in, a reconnect that does not listen to the adapter's context,  *)
(* or a channel that the fanIn does not read any more.                     *)
AdapterStops == \A a \in Adapters : cancelled[a] ~> rpc[a] = "off"

(* "proactively reconnects before 24h limit": after a rotation the adapter *)
(* receives from a connection again, if the venue answers its dials.       *)
Receives(a) == rpc[a] # "off" /\ Streams(a)

RotationReconnects ==
  VenueAnswers /\ WF_procVars(Rotation) =>
    (opc = "flags" ~> (ctxDone \/ (opc = "tick" /\ Receives(Binance))))
===========================================================================
