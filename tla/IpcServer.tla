---------------------------- MODULE IpcServer ----------------------------
(***************************************************************************)
(* src/pkg/ipc/server.go: acceptLoop hands each connection to a serveConn  *)
(* goroutine of its own, which reads frames and calls the handler; Stop    *)
(* closes the listener and every tracked connection and waits for the      *)
(* goroutines.  A stopped or crashed server may be started again (Listen). *)
(***************************************************************************)
EXTENDS UnixSocket

CONSTANT MaxDowns   \* bound: stops and crashes of the server

ASSUME MaxDownsAssumption == MaxDowns \in Nat

VARIABLES
  srv,        \* "up", "stopping" (Stop waits for the goroutines), "down"
  acc,        \* the connection acceptLoop has accepted and not yet tracked
  serving,    \* [Conns -> {"no", "run", "done"}]: its serveConn goroutine
  tracked,    \* the conns map
  downs

serverVars == <<srv, acc, serving, tracked, downs>>

ServerInit ==
  /\ srv = "up" /\ acc = NoConn
  /\ serving = [c \in Conns |-> "no"]
  /\ tracked = {}
  /\ downs = 0

ServerTypeOK ==
  /\ srv \in {"up", "stopping", "down"}
  /\ acc \in Conns \cup {NoConn}
  /\ serving \in [Conns -> {"no", "run", "done"}]
  /\ tracked \in SUBSET Conns
  /\ downs \in 0 .. MaxDowns

(* The listener's backlog is a queue: the oldest connection comes first.   *)
Accept(c) ==
  /\ listening /\ acc = NoConn
  /\ sEnd[c] = "backlog" /\ \A d \in Conns : sEnd[d] = "backlog" => c <= d
  /\ acc' = c
  /\ sEnd' = [sEnd EXCEPT ![c] = "open"]
  /\ UNCHANGED <<srv, serving, tracked, downs, dials, cEnd, sent, rd, listening>>

(* trackConn and go serveConn; Stop may have run since the Accept.         *)
Track ==
  /\ acc # NoConn
  /\ tracked' = tracked \cup {acc}
  /\ serving' = [serving EXCEPT ![acc] = "run"]
  /\ acc' = NoConn
  /\ UNCHANGED <<srv, downs, sockVars>>

(* serveConn: one frame read and handled.  Nothing is acknowledged; rd     *)
(* counts what the handler was called with.                                *)
Serve(c) ==
  /\ serving[c] = "run" /\ srv = "up"
  /\ sEnd[c] = "open" /\ Buffered(c) > 0
  /\ rd' = [rd EXCEPT ![c] = @ + 1]
  /\ UNCHANGED <<srv, acc, serving, tracked, downs, dials, cEnd, sEnd, sent, listening>>

(* Mistake: serveConn does not look at quit.                               *)
ServeEndsOnError(c) ==
  /\ serving[c] = "run"
  /\ sEnd[c] = "closed" \/ ReadEOF(c)
  /\ serving' = [serving EXCEPT ![c] = "done"]
  /\ tracked' = tracked \ {c}
  /\ CloseServerEnds({c})
  /\ UNCHANGED <<srv, acc, downs, dials, cEnd, sent, rd, listening>>

(* serveConn returns: quit is closed, or the read fails.                   *)
ServeEnds(c) ==
  /\ serving[c] = "run"
  /\ srv # "up" \/ sEnd[c] = "closed" \/ ReadEOF(c)
  /\ serving' = [serving EXCEPT ![c] = "done"]
  /\ tracked' = tracked \ {c}
  /\ CloseServerEnds({c})
  /\ UNCHANGED <<srv, acc, downs, dials, cEnd, sent, rd, listening>>

(* Closing the listener also closes what is still in its backlog.          *)
Backlog == {c \in Conns : sEnd[c] = "backlog"}

ServerStopBegins ==
  /\ srv = "up" /\ downs < MaxDowns
  /\ srv' = "stopping" /\ downs' = downs + 1
  /\ listening' = FALSE
  /\ CloseServerEnds(tracked \cup Backlog)
  /\ UNCHANGED <<acc, serving, tracked, dials, cEnd, sent, rd>>

(* Mistake: Stop does not wait for the goroutines.                         *)
ServerStopReturnsEarly ==
  /\ srv = "stopping"
  /\ srv' = "down"
  /\ UNCHANGED <<acc, serving, tracked, downs, sockVars>>

(* wg.Wait: acceptLoop has returned and no serveConn runs.                 *)
ServerStopReturns ==
  /\ srv = "stopping" /\ acc = NoConn
  /\ \A c \in Conns : serving[c] # "run"
  /\ srv' = "down"
  /\ UNCHANGED <<acc, serving, tracked, downs, sockVars>>

ServerCrash ==
  /\ srv # "down" /\ downs < MaxDowns
  /\ srv' = "down" /\ downs' = downs + 1
  /\ listening' = FALSE
  /\ acc' = NoConn /\ tracked' = {}
  /\ serving' = [c \in Conns |-> IF serving[c] = "run" THEN "done" ELSE serving[c]]
  /\ CloseServerEnds({c \in Conns : sEnd[c] # "none"})
  /\ UNCHANGED <<dials, cEnd, sent, rd>>

Listen ==
  /\ srv = "down"
  /\ srv' = "up"
  /\ listening' = TRUE
  /\ UNCHANGED <<acc, serving, tracked, downs, dials, cEnd, sEnd, sent, rd>>

ServerNext ==
  \/ \E c \in Conns : Accept(c) \/ Serve(c) \/ ServeEnds(c)
  \/ Track
  \/ ServerStopBegins \/ ServerStopReturns \/ ServerCrash \/ Listen

(* Every goroutine the server runs is scheduled; the handler returns.      *)
ServerRuns == Track \/ ServerStopReturns \/ \E c \in Conns : ServeEnds(c)

(***************************************************************************)
(* Once Stop has returned, or the process died, no goroutine serves and no *)
(* connection is left half-served, also one accepted while Stop ran.       *)
(***************************************************************************)
ServerDownIsQuiet ==
  srv = "down" => /\ acc = NoConn /\ tracked = {} /\ ~listening
                  /\ \A c \in Conns : serving[c] # "run" /\ sEnd[c] \in {"none", "closed"}
==========================================================================
