---------------------------- MODULE PartsProofs ----------------------------
(***************************************************************************)
(* The parts checked alone, together: what an execution of MCParts does is *)
(* what one of them does, and nothing happens to the others.  So what is   *)
(* proved of each part holds of their composition.                         *)
(***************************************************************************)
EXTENDS MCParts, SpoolFileProofs, SharedObjectsProofs, PublisherProofs

-----------------------------------------------------------------------------
(* Every step is one of each part, or leaves it alone.                     *)

LEMMA PartsStart ==
  PartsInit => SpoolInit /\ BookInit /\ ValInit /\ SupervisedInit
  BY DEF PartsInit

LEMMA PartsSteps ==
  [PartsNext]_partsVars =>
    /\ [SpoolNext]_spoolVars /\ [BookNext]_bookVars
    /\ [ValNext]_valVars /\ [SupervisedNext]_allVars
<1> SUFFICES ASSUME [PartsNext]_partsVars
             PROVE  /\ [SpoolNext]_spoolVars /\ [BookNext]_bookVars
                    /\ [ValNext]_valVars /\ [SupervisedNext]_allVars
  OBVIOUS
<1>1. CASE SpoolNext /\ UNCHANGED <<part, bookVars, valVars, allVars>>
  BY <1>1
<1>2. CASE BookNext /\ UNCHANGED <<part, spoolVars, valVars, allVars>>
  BY <1>2
<1>3. CASE ValNext /\ UNCHANGED <<part, spoolVars, bookVars, allVars>>
  BY <1>3
<1>4. CASE OfPublisher(SupervisedNext)
  BY <1>4 DEF OfPublisher
<1>5. CASE UNCHANGED partsVars
  BY <1>5 DEF partsVars
<1>6. QED
  BY <1>1, <1>2, <1>3, <1>4, <1>5 DEF PartsNext, PartsRest

(* An execution of the composition is one of every part: the composition   *)
(* adds no behaviour that a part does not have.                            *)
THEOREM PartsAreFaithful ==
  PartsSpec => SpoolSpec /\ BookSpec /\ ValSpec /\ SupervisedSpec
<1>1. QED
  BY PartsStart, PartsSteps, PTL DEF PartsSpec, SpoolSpec, BookSpec, ValSpec, SupervisedSpec

-----------------------------------------------------------------------------
(* The types of all parts, with what they say of the spool's bytes, of the *)
(* stores not counted yet, of the validator's counters and of the          *)
(* supervisor's children.                                                  *)
THEOREM PartsTypes == PartsSpec => []TypeOK
<1>1. PartsSpec => [](SpoolTypeOK /\ BookTypeOK /\ ValTypeOK /\ SupervisedTypeOK)
  BY PartsAreFaithful, SpoolTypes, BookTypes, CountersAddUp, SupervisedTypes, PTL
<1>2. QED
  BY <1>1, PTL DEF TypeOK

(* So does every other safety property of the parts: a spool is drained of *)
(* what it accepted, as the outbox does; equal numbers are one book; a     *)
(* hopeless validator stays so; Stop leaves no child, the stages of a      *)
(* shutdown are in order, and with a grace shorter than the time Flush     *)
(* waits a Stop of the supervisor keeps the spool.                         *)
THEOREM PartsAreSafe ==
  ASSUME GraceIsShorter
  PROVE  PartsSpec =>
           /\ [](FileIsAccepted /\ SameSeqIsOneBook /\ NoChildLeft /\ StagesAreQuiet)
           /\ SpoolIsOutbox /\ HopelessForGood /\ StopKeepsSpool
<1>1. SupervisedSpec => StopKeepsSpool
  BY SupervisorKeepsSpool
<1>2. QED
  BY <1>1, PartsAreFaithful, DrainReadsWhatWasAccepted, EqualSeqIsOneBook, StopLeavesNoChild,
     ShutdownIsStaged, SpoolImplementsOutbox, HopelessStays, PTL
============================================================================
