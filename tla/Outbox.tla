------------------------------ MODULE Outbox ------------------------------
(***************************************************************************)
(* What the comments of src/pkg/ipc/client.go and spool.go promise of the  *)
(* records a client spools, without sockets, goroutines or files: records  *)
(* are handed to the transport for the first time in the order they were   *)
(* accepted, and none is forgotten before it was handed over at least once,*)
(* unless the client is stopped.                                           *)
(***************************************************************************)
EXTENDS Naturals, Sequences

CONSTANT Record

VARIABLES
  accepted,   \* the records, in the order they were accepted
  handedOver, \* how many of them have been handed over
  forgotten,  \* how many of them are no longer stored
  stopped

outboxVars == <<accepted, handedOver, forgotten, stopped>>

OutboxInit ==
  accepted = <<>> /\ handedOver = 0 /\ forgotten = 0 /\ stopped = FALSE

Put ==
  /\ ~stopped
  /\ \E r \in Record : accepted' = Append(accepted, r)
  /\ UNCHANGED <<handedOver, forgotten, stopped>>

HandOver ==
  /\ ~stopped
  /\ handedOver < Len(accepted)
  /\ handedOver' = handedOver + 1
  /\ UNCHANGED <<accepted, forgotten, stopped>>

Forget ==
  /\ ~stopped
  /\ forgotten' \in forgotten .. handedOver
  /\ UNCHANGED <<accepted, handedOver, stopped>>

Discard ==
  /\ stopped' = TRUE
  /\ forgotten' = Len(accepted)
  /\ UNCHANGED <<accepted, handedOver>>

OutboxNext == Put \/ HandOver \/ Forget \/ Discard

OutboxSpec == OutboxInit /\ [][OutboxNext]_outboxVars
===========================================================================
