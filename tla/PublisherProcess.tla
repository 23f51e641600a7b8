------------------------- MODULE PublisherProcess -------------------------
(***************************************************************************)
(* src/cmd/publisher/main.go: main starts ZeroMQ, the client to storage and*)
(* the server, waits for a signal and stops them in the order server,      *)
(* Flush, client, ZeroMQ.  A handler publishes what it decodes, if it can, *)
(* and forwards every frame.  Of the client, which IpcClient models, there *)
(* is the number of records in the spool file; a message that Send left in *)
(* the in-memory queue or refused is not counted.                          *)
(***************************************************************************)
EXTENDS ZmqPublisher, FiniteSets

CONSTANTS
  Handlers,    \* serveConn goroutines of the inbound server
  FlushTimeout, \* in units of time
  MaxFrames     \* bound: frames received

ASSUME PublisherAssumption ==
  IsFiniteSet(Handlers) /\ FlushTimeout \in Nat \ {0} /\ MaxFrames \in Nat

VARIABLES
  phase,      \* main
  term,       \* a signal is in the channel of WaitForSignal
  outside,    \* it came first from elsewhere than the supervisor
  flushLeft,  \* what is left of the time of Flush
  hpc,        \* [Handlers -> "idle", "publish", "send", "forward"]
  received,
  spooled,    \* records of the spool file, which survives the process
  discarded   \* history: spooled records that client.Stop removed

pubVars == <<zmqVars, phase, term, outside, flushLeft, hpc, received, spooled, discarded>>

Phase == {"off", "boot", "client", "ready", "serve",
          "stop server", "flush", "stop client", "stop zmq", "close zmq", "exit"}

PubInit ==
  /\ ZmqIsNew /\ phase = "off" /\ term = FALSE /\ outside = FALSE
  /\ flushLeft = FlushTimeout
  /\ hpc = [h \in Handlers |-> "idle"]
  /\ received = 0 /\ spooled = 0 /\ discarded = 0

PubTypeOK ==
  /\ ZmqTypeOK /\ phase \in Phase /\ {term, outside} \subseteq BOOLEAN
  /\ flushLeft \in 0 .. FlushTimeout
  /\ hpc \in [Handlers -> {"idle", "publish", "send", "forward"}]
  /\ received \in 0 .. MaxFrames
  /\ spooled + discarded <= received

-----------------------------------------------------------------------------
(* The life of the process                                                 *)

PubBoots ==
  /\ phase = "off" /\ phase' = "boot"
  /\ UNCHANGED <<zmqVars, term, outside, flushLeft, hpc, received, spooled, discarded>>

(* Everything but the spool file is gone.                                  *)
PubDies ==
  /\ phase' = "off"
  /\ zsock' = "none" /\ zrunning' = FALSE /\ zdone' = FALSE /\ hb' = "off"
  /\ term' = FALSE /\ outside' = FALSE /\ flushLeft' = FlushTimeout
  /\ hpc' = [h \in Handlers |-> "idle"]
  /\ UNCHANGED <<received, spooled, discarded>>

(* SIGTERM before WaitForSignal is called ends the process.                *)
Untrapped == phase \in {"boot", "client", "ready"}

PubTrapsTerm ==
  /\ term' = TRUE
  /\ UNCHANGED <<zmqVars, phase, outside, flushLeft, hpc, received, spooled, discarded>>

(* A signal from elsewhere: an operator, systemd.                          *)
OutsideTerm ==
  /\ phase = "serve" /\ ~term
  /\ term' = TRUE /\ outside' = TRUE
  /\ UNCHANGED <<zmqVars, phase, flushLeft, hpc, received, spooled, discarded>>

-----------------------------------------------------------------------------
(* main                                                                    *)

MainGoes(from, to) ==
  /\ phase = from /\ phase' = to
  /\ UNCHANGED <<term, outside, flushLeft, hpc, received>>

(* ZeroMQ may be disabled or fail to bind; the process goes on without.    *)
BootsWithZmq == MainGoes("boot", "client") /\ ZmqStarts /\ UNCHANGED <<spooled, discarded>>
BootsWithout == MainGoes("boot", "client") /\ UNCHANGED <<zmqVars, spooled, discarded>>
(* The client, then the server; without one of them the process exits.     *)
BootsIpc == MainGoes("client", "ready") /\ UNCHANGED <<zmqVars, spooled, discarded>>
AwaitsSignal == MainGoes("ready", "serve") /\ UNCHANGED <<zmqVars, spooled, discarded>>

MainSignalled ==
  /\ term /\ MainGoes("serve", "stop server")
  /\ UNCHANGED <<zmqVars, spooled, discarded>>

(* Mistake: the client is flushed before the server stops.                 *)
ServerStopsAtOnce ==
  /\ MainGoes("stop server", "flush")
  /\ UNCHANGED <<zmqVars, spooled, discarded>>

(* inSrv.Stop waits for the handlers.                                      *)
ServerStops ==
  /\ \A h \in Handlers : hpc[h] = "idle"
  /\ MainGoes("stop server", "flush")
  /\ UNCHANGED <<zmqVars, spooled, discarded>>

FlushEnds ==
  /\ spooled = 0 /\ MainGoes("flush", "stop client")
  /\ UNCHANGED <<zmqVars, spooled, discarded>>

FlushPasses ==
  /\ flushLeft' = IF phase = "flush" /\ flushLeft > 0 THEN flushLeft - 1 ELSE flushLeft
  /\ UNCHANGED <<zmqVars, phase, term, outside, hpc, received, spooled, discarded>>

(* Mistake: Flush does not wait.                                           *)
FlushGivesUp ==
  /\ MainGoes("flush", "stop client")
  /\ UNCHANGED <<zmqVars, spooled, discarded>>

FlushTimesOut ==
  /\ flushLeft = 0 /\ MainGoes("flush", "stop client")
  /\ UNCHANGED <<zmqVars, spooled, discarded>>

(* client.Stop removes the spool file.                                     *)
ClientStops ==
  /\ MainGoes("stop client", IF zsock = "open" THEN "stop zmq" ELSE "exit")
  /\ discarded' = discarded + spooled /\ spooled' = 0
  /\ UNCHANGED zmqVars

StopsZmq == MainGoes("stop zmq", "close zmq") /\ ZmqStopBegins /\ UNCHANGED <<spooled, discarded>>
ClosesZmq == MainGoes("close zmq", "exit") /\ ZmqCloses /\ UNCHANGED <<spooled, discarded>>

MainRuns ==
  \/ BootsWithZmq \/ BootsWithout \/ BootsIpc \/ AwaitsSignal
  \/ MainSignalled \/ ServerStops \/ FlushEnds \/ FlushTimesOut
  \/ ClientStops \/ StopsZmq \/ ClosesZmq

-----------------------------------------------------------------------------
(* Handlers and the client's drain                                         *)

HandlerGoes(h, from, to) ==
  /\ hpc[h] = from /\ hpc' = [hpc EXCEPT ![h] = to]
  /\ UNCHANGED <<zmqVars, phase, term, outside, flushLeft, discarded>>

(* Also while inSrv.Stop closes the connections.                           *)
HandlerReceives(h) ==
  /\ phase \in {"ready", "serve", "stop server"} /\ received < MaxFrames
  /\ HandlerGoes(h, "idle", "publish")
  /\ received' = received + 1
  /\ UNCHANGED spooled

HandlerPublishes(h) ==
  /\ zrunning /\ HandlerGoes(h, "publish", "send")
  /\ UNCHANGED <<received, spooled>>

(* No ZeroMQ, it does not run, or the frame does not decode.               *)
HandlerPublishesNot(h) ==
  /\ HandlerGoes(h, "publish", "forward")
  /\ UNCHANGED <<received, spooled>>

(* What SendMessage returns is only counted.                               *)
HandlerSends(h) ==
  /\ HandlerGoes(h, "send", "forward")
  /\ UNCHANGED <<received, spooled>>

HandlerForwards(h) ==
  /\ HandlerGoes(h, "forward", "idle")
  /\ spooled' \in {spooled, spooled + 1}
  /\ UNCHANGED received

HandlerRuns(h) ==
  HandlerPublishes(h) \/ HandlerPublishesNot(h) \/ HandlerSends(h) \/ HandlerForwards(h)

ClientIsUp == phase \in Phase \ {"off", "boot", "client", "stop zmq", "close zmq", "exit"}

(* A drain wrote all records to storage and truncates the file.            *)
ClientDrains ==
  /\ ClientIsUp /\ spooled > 0
  /\ spooled' = 0
  /\ UNCHANGED <<zmqVars, phase, term, outside, flushLeft, hpc, received, discarded>>

-----------------------------------------------------------------------------
(***************************************************************************)
(* "stop inbound -> flush outbound spool -> stop client -> stop ZMQ": when *)
(* Flush looks at the spool no handler has a frame it has not forwarded,   *)
(* and when the socket is closed neither a handler nor the heartbeat is    *)
(* between the look at `running` and the send.                             *)
(***************************************************************************)
StagesAreQuiet ==
  /\ phase \in {"flush", "stop client", "stop zmq", "close zmq", "exit"}
       => \A h \in Handlers : hpc[h] = "idle"
  /\ zsock = "closed" => hb = "done"
===========================================================================
