---------------------------- MODULE DurableLog ----------------------------
(***************************************************************************)
(* What wal.go and wal_batched.go promise of the write-ahead log, without  *)
(* buffers, files or rotations: one sequence of records that grows at its  *)
(* end, in the order they arrive.  What is on stable storage stays.  The   *)
(* rest of a log that can be written loses nothing, unless an I/O operation*)
(* fails or the process starts again, and a log is closed only when all it *)
(* accepted is stable.  A synchronous log accepts what is stable.          *)
(***************************************************************************)
EXTENDS Naturals, Sequences

CONSTANT Record   \* numbers, in the order the records arrive

VARIABLES
  sync,      \* whether a write waits for stable storage
  log,       \* the records, in order
  durable,   \* how many of them are on stable storage
  accepted,  \* the records whose write has succeeded
  writable,
  mishaps,   \* I/O operations that failed
  runs       \* how often the process has started again

logVars == <<sync, log, durable, accepted, writable, mishaps, runs>>

LogInit ==
  /\ sync \in BOOLEAN
  /\ log = <<>> /\ durable = 0 /\ accepted = {}
  /\ writable = TRUE /\ mishaps = 0 /\ runs = 0

(* Nothing goes wrong in this step.                                        *)
Sound == writable /\ mishaps' = mishaps

(* Nothing but an end that is not stable is ever lost.                     *)
LosesAnEnd(l) ==
  /\ \E n \in durable .. Len(l) : log' = SubSeq(l, 1, n)
  /\ durable' \in durable .. Len(log')

(* The log is l, or what is left of it.                                    *)
Becomes(l) ==
  /\ LosesAnEnd(l)
  /\ Sound => log' = l /\ writable'
  /\ mishaps' \in mishaps .. mishaps + 1
  /\ UNCHANGED <<sync, runs>>

(* A record comes after those the log holds or has accepted.               *)
Arrives(r) ==
  /\ \A q \in accepted : q < r
  /\ \A i \in DOMAIN log : log[i] < r

Accept(r) ==
  /\ Arrives(r)
  /\ accepted' = accepted \cup {r}
  /\ Becomes(Append(log, r))
  /\ sync => log' = Append(log, r) /\ durable' = Len(log')

(* A write fails after its record has reached the file.                    *)
Reject(r) ==
  /\ Arrives(r)
  /\ mishaps' = mishaps + 1
  /\ log' = Append(log, r)
  /\ UNCHANGED <<sync, durable, accepted, writable, runs>>

(* A flush, a rotation, or a failure of one.                               *)
Maintain == Becomes(log) /\ UNCHANGED accepted

Close ==
  /\ Sound /\ writable' = FALSE
  /\ durable' \in durable .. Len(log)
  /\ \A i \in DOMAIN log : log[i] \in accepted => i <= durable'
  /\ UNCHANGED <<sync, log, accepted, runs>>

Start ==
  /\ runs' = runs + 1
  /\ LosesAnEnd(log)
  /\ writable' = TRUE
  /\ UNCHANGED <<sync, accepted, mishaps>>

LogNext ==
  \/ \E r \in Record : Accept(r) \/ Reject(r)
  \/ Maintain \/ Close \/ Start

LogSpec == LogInit /\ [][LogNext]_logVars
===========================================================================
