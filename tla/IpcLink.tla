------------------------------ MODULE IpcLink ------------------------------
(***************************************************************************)
(* One edge of the pipeline: an ipc.Client and an ipc.Server over their    *)
(* Unix domain socket, with crashes and restarts of both processes.        *)
(***************************************************************************)
EXTENDS IpcClient, IpcServer

linkVars == <<clientVars, serverVars, sockVars>>

LinkInit == SockInit /\ ClientInit /\ ServerInit

(* The client's Stop has returned: nothing has to happen any more.         *)
LinkOver == main = "done" /\ UNCHANGED linkVars

LinkNext ==
  \/ ClientNext /\ UNCHANGED serverVars
  \/ ServerNext /\ UNCHANGED clientVars
  \/ LinkOver

LinkSpec == LinkInit /\ [][LinkNext]_linkVars

LinkFairness ==
  /\ WF_linkVars(Drain /\ UNCHANGED serverVars)
  /\ \A c \in Conns : WF_linkVars(ReadLoop(c) /\ UNCHANGED serverVars)
  /\ \A p \in Producers : SF_linkVars(SendRuns(p) /\ UNCHANGED serverVars)
  /\ WF_linkVars(StopRuns /\ UNCHANGED serverVars)
  /\ WF_linkVars(ServerRuns /\ UNCHANGED clientVars)

FairLinkSpec == LinkSpec /\ LinkFairness

-----------------------------------------------------------------------------
(* The types of the whole edge.                                            *)
TypeOK == SockTypeOK(Msgs) /\ ClientTypeOK /\ ServerTypeOK

(* A spooled record leaves the file only after it was written to some      *)
(* connection: the spool is always a tail of everything appended, and all  *)
(* before that tail has been handed over (spool.go drain: "a LOSS is never *)
(* introduced").  Stop removes the file.                                   *)
SpoolKeepsUnsent ==
  main # "done" =>
    /\ Len(spool) <= Len(log)
    /\ spool = SubSeq(log, Base + 1, Len(log))
    /\ Base <= handed

(* The frames of one connection are consecutive records in append order:   *)
(* none is skipped, repeated or overtaken within a connection, whatever    *)
(* breaks, reconnects and replays happened before it was made.             *)
ConnInOrder ==
  \A c \in Conns : \E first \in 0 .. Len(log) :
    /\ first + Len(sent[c]) <= Len(log)
    /\ sent[c] = SubSeq(log, first + 1, first + Len(sent[c]))

(* drainLoop dials only without a connection, so connect never overwrites  *)
(* (and leaks) a live one, and a client holds one open socket at a time.   *)
OneConnection ==
  /\ dpc = "dial" => conn = NoConn
  /\ \A c, d \in Conns : cEnd[c] = "open" /\ cEnd[d] = "open" => c = d

(* No wake-up is lost: while drainLoop sleeps in its select, records in    *)
(* the spool have a token, or a producer about to leave one, and so has a  *)
(* connection marked broken ("an event between the size check above and    *)
(* this select is not lost").                                              *)
WakeUpPending ==
  dpc = "wait" =>
    /\ spool # <<>> => notify \/ \E p \in Producers : prod[p] = "signal"
    /\ ~connected => connBroken

(* "queue contents are always older than spool contents": of one producer, *)
(* what it queued is older than whatever it has spooled since the process  *)
(* started.                                                                *)
QueueBeforeSpool ==
  \A i \in DOMAIN queue, j \in born + 1 .. Len(log) :
    queue[i][1] = log[j][1] => queue[i][2] < log[j][2]

(* Stop terminates, whatever the other goroutines are doing when it is     *)
(* called (a crash of the process ends it too).                            *)
StopTerminates == Closed ~> main \in {"run", "done"}

(* A Send that waits for the spool gets its turn: no drain holds the mutex *)
(* for ever, also when the server stops reading ("Never hang").            *)
SendTerminates == \A p \in Producers : prod[p] # "idle" ~> prod[p] = "idle"

(* The server's Stop terminates.                                           *)
ServerStopTerminates == srv = "stopping" ~> srv # "stopping"

(* The abstract promise, for the spooled records.                          *)
Promise == INSTANCE Outbox WITH
  Record <- Msgs,
  accepted <- log,
  handedOver <- handed,
  forgotten <- Base,
  stopped <- main = "done"

IsOutbox == Promise!OutboxSpec

-----------------------------------------------------------------------------
(* What comments say and the code does not do.                             *)

(* "Connected reports whether the client currently has a live connection": *)
(* as long as Stop is not called, when drainLoop and every breakConn have  *)
(* finished what they began, connected says whether there is a connection. *)
Settled ==
  /\ dpc \in {"wait", "top", "exit"}
  /\ \A c \in Conns : rl[c] # "mark"
  /\ main \in {"run", "flushed"}

ConnectedMeansConn == Settled => (connected <=> conn # NoConn)

(* "Call it before Stop for a lossless graceful shutdown": when Flush has  *)
(* returned nil after the producers stopped, everything accepted by Send   *)
(* has been handed over.                                                   *)
FlushIsLossless == main = "flushed" /\ quiet => queue = <<>> /\ handed = Len(log)
============================================================================
