---------------------------- MODULE UnixSocket ----------------------------
(***************************************************************************)
(* The Unix domain socket between an ipc.Client and an ipc.Server, as the  *)
(* code of src/pkg/ipc uses it: connections numbered in the order they are *)
(* dialled, each with a client end, a server end and a bounded kernel      *)
(* buffer of whole frames.  The kernel is not part of the repository: this *)
(* module models what net.Dial, Read, Write and Close do for it.           *)
(***************************************************************************)
EXTENDS Naturals, Sequences

CONSTANTS
  MaxConns,  \* bound: how many dials may succeed
  SockBuf    \* frames a connection buffers before a write blocks

ASSUME MaxConnsAssumption == MaxConns \in Nat
ASSUME SockBufAssumption == SockBuf \in Nat \ {0}

Conns == 1 .. MaxConns
NoConn == 0   \* a nil net.Conn

VARIABLES
  dials,     \* connections made so far; the next one is dials + 1
  cEnd,      \* [Conns -> {"none", "open", "closed"}]
  sEnd,      \* [Conns -> {"none", "backlog", "open", "closed"}]
  sent,      \* [Conns -> Seq(frames)]: every frame written, in order
  rd,        \* [Conns -> Nat]: how many of them the server has read
  listening  \* a listener is bound to the path

sockVars == <<dials, cEnd, sEnd, sent, rd, listening>>

Buffered(c) == Len(sent[c]) - rd[c]

SockInit ==
  /\ dials = 0
  /\ cEnd = [c \in Conns |-> "none"]
  /\ sEnd = [c \in Conns |-> "none"]
  /\ sent = [c \in Conns |-> <<>>]
  /\ rd = [c \in Conns |-> 0]
  /\ listening = TRUE

SockTypeOK(Frames) ==
  /\ dials \in 0 .. MaxConns
  /\ cEnd \in [Conns -> {"none", "open", "closed"}]
  /\ sEnd \in [Conns -> {"none", "backlog", "open", "closed"}]
  /\ sent \in [Conns -> Seq(Frames)]
  /\ rd \in [Conns -> Nat]
  /\ listening \in BOOLEAN

(***************************************************************************)
(* A dial succeeds once the connection is in the listener's backlog, before*)
(* any Accept: frames may be written to it from then on.                   *)
(***************************************************************************)
Dial(c) ==
  /\ listening
  /\ dials < MaxConns
  /\ c = dials + 1
  /\ dials' = c
  /\ cEnd' = [cEnd EXCEPT ![c] = "open"]
  /\ sEnd' = [sEnd EXCEPT ![c] = "backlog"]
  /\ UNCHANGED <<sent, rd, listening>>

(* A write that reaches the kernel buffer.                                 *)
Write(c, m) ==
  /\ cEnd[c] = "open"
  /\ sEnd[c] \in {"backlog", "open"}
  /\ Buffered(c) < SockBuf
  /\ sent' = [sent EXCEPT ![c] = Append(@, m)]
  /\ UNCHANGED <<dials, cEnd, sEnd, rd, listening>>

(* Mistake: no write deadline is set.                                      *)
WriteFailsNoDeadline(c) == cEnd[c] = "closed" \/ sEnd[c] = "closed"

(* A write that fails: an end is closed, or the buffer stays full past the *)
(* write deadline.                                                         *)
WriteFails(c) ==
  \/ cEnd[c] = "closed"
  \/ sEnd[c] = "closed"
  \/ Buffered(c) = SockBuf

(* The client's blocking read returns an error once either end is closed.  *)
ReadFails(c) == cEnd[c] = "closed" \/ sEnd[c] = "closed"

(* The server reads EOF: the client closed and every frame has been read.  *)
ReadEOF(c) == cEnd[c] = "closed" /\ Buffered(c) = 0

CloseServerEnds(cs) ==
  sEnd' = [c \in Conns |-> IF c \in cs THEN "closed" ELSE sEnd[c]]
============================================================================
