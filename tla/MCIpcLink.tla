----------------------------- MODULE MCIpcLink -----------------------------
(* Instances of one edge of the pipeline for TLC.  Not every bound is at   *)
(* its largest in one behaviour: each stays within one of the boxes.       *)
EXTENDS IpcLink

Box(conns, msgs, fails, outages, stops) ==
  [conns |-> conns, msgs |-> msgs, crashes |-> fails, downs |-> outages, stops |-> stops]

(* A client that reconnects and crashes while it replays; the same with    *)
(* fewer messages and the shutdown; a server that ends; a spool that fills *)
(* up while there is no connection.                                        *)
Boxes == {Box(2, 3, 1, 0, FALSE), Box(2, 2, 1, 0, TRUE),
          Box(1, 3, 0, 1, TRUE), Box(1, 4, 0, 0, FALSE)}

Fits(b) ==
  /\ dials <= b.conns /\ crashes <= b.crashes /\ downs <= b.downs
  /\ \A p \in Producers : seq[p] <= b.msgs
  /\ main # "run" => b.stops

(* Nobody stops the client: the bounds are reached.                        *)
Rests ==
  /\ \A b \in Boxes : Fits(b) => ~b.stops
  /\ UNCHANGED linkVars

BoxedNext == LinkNext \/ Rests

(* The bounds disable nothing that fairness makes happen: a dial may fail, *)
(* and no Send, outage, crash or Stop has to happen.                       *)
BoxedLinkSpec ==
  /\ LinkInit /\ [][BoxedNext /\ \E b \in Boxes : Fits(b)']_linkVars
  /\ LinkFairness
============================================================================
