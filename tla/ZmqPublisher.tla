--------------------------- MODULE ZmqPublisher ---------------------------
(***************************************************************************)
(* src/pkg/publisher/zmq.go: the socket, the heartbeat goroutine and Stop. *)
(* A Publish looks at `running` and sends later, under the mutex, if there *)
(* is a socket; Stop closes the socket under the mutex.  Sent messages and *)
(* counters are left out: publication is best effort.                      *)
(***************************************************************************)
EXTENDS Naturals

VARIABLES
  zsock,      \* "none", "open", "closed"
  zrunning,
  zdone,      \* its context is cancelled
  hb          \* the heartbeat: "off", "wait", "send" (Publish saw running), "done"

zmqVars == <<zsock, zrunning, zdone, hb>>

ZmqIsNew == zsock = "none" /\ zrunning = FALSE /\ zdone = FALSE /\ hb = "off"

ZmqTypeOK ==
  /\ zsock \in {"none", "open", "closed"}
  /\ zrunning \in BOOLEAN /\ zdone \in BOOLEAN
  /\ hb \in {"off", "wait", "send", "done"}

ZmqStarts ==
  /\ zsock' = "open" /\ zrunning' = TRUE /\ hb' = "wait"
  /\ UNCHANGED zdone

(* The ticker; Publish returns an error if the publisher does not run.     *)
HeartbeatTicks ==
  /\ hb = "wait" /\ zrunning
  /\ hb' = "send"
  /\ UNCHANGED <<zsock, zrunning, zdone>>

HeartbeatSends ==
  /\ hb = "send"
  /\ hb' = "wait"
  /\ UNCHANGED <<zsock, zrunning, zdone>>

HeartbeatEnds ==
  /\ hb = "wait" /\ zdone
  /\ hb' = "done"
  /\ UNCHANGED <<zsock, zrunning, zdone>>

Heartbeat == HeartbeatTicks \/ HeartbeatSends \/ HeartbeatEnds

(* running is cleared, the ticker stopped, the context cancelled.          *)
ZmqStopBegins ==
  /\ ~zdone
  /\ zrunning' = FALSE /\ zdone' = TRUE
  /\ UNCHANGED <<zsock, hb>>

(* Mistake: Stop does not wait for the heartbeat.                          *)
ZmqClosesAtOnce ==
  /\ zdone
  /\ zsock' = "closed"
  /\ UNCHANGED <<zrunning, zdone, hb>>

(* wg.Wait has returned.                                                   *)
ZmqCloses ==
  /\ zdone /\ hb \in {"off", "done"}
  /\ zsock' = "closed"
  /\ UNCHANGED <<zrunning, zdone, hb>>
===========================================================================
