------------------------------ MODULE MCParts ------------------------------
(* The parts that are checked alone: the bytes of a spool file, the order  *)
(* book, the validator and the supervised publisher.  They share nothing,  *)
(* so an execution runs one of them.                                       *)
EXTENDS SpoolFile, OrderBook, Validator, SupervisedPublisher

CONSTANTS w1, w2, r1, c1, c2, h1

VARIABLE part

(* Bodies of one unit, of the largest size, of the largest size and one,   *)
(* with units that are no header, that are one, and that are too large one.*)
MCBodies == {<<1>>, <<3, 0>>, <<0, 2, 2>>}

partsVars == <<part, spoolVars, bookVars, valVars, allVars>>

PartsInit ==
  /\ part \in {"spool", "book", "validator", "publisher"}
  /\ SpoolInit /\ BookInit /\ ValInit /\ SupervisedInit
  /\ part # "book" => locking   \* one initial state for each other part

(* Nothing is in progress, for the bounds are reached or nobody calls.     *)
PartsRest ==
  /\ part # "publisher"
  /\ op = "none" /\ \A c \in Callers : vpc[c] = "idle"
  /\ UNCHANGED partsVars

OfPublisher(A) ==
  part = "publisher" /\ A /\ UNCHANGED <<part, spoolVars, bookVars, valVars>>

PartsNext ==
  \/ part = "spool" /\ SpoolNext /\ UNCHANGED <<part, bookVars, valVars, allVars>>
  \/ part = "book" /\ BookNext /\ UNCHANGED <<part, spoolVars, valVars, allVars>>
  \/ part = "validator" /\ ValNext /\ UNCHANGED <<part, spoolVars, bookVars, allVars>>
  \/ OfPublisher(SupervisedNext)
  \/ PartsRest

(* The fairness of SupervisedFairSpec; the other parts need none.          *)
PartsSpec ==
  /\ PartsInit /\ [][PartsNext]_partsVars
  /\ \A p \in Procs :
       /\ WF_partsVars(OfPublisher(Monitor(p)))
       /\ WF_partsVars(OfPublisher(Stop(p)))
  /\ WF_partsVars(OfPublisher(ManagerRuns)) /\ WF_partsVars(OfPublisher(TimePasses))

(* The types of the parts.                                                 *)
TypeOK == SpoolTypeOK /\ BookTypeOK /\ ValTypeOK /\ SupervisedTypeOK
============================================================================
