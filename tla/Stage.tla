------------------------------- MODULE Stage -------------------------------
(***************************************************************************)
(* What a stage of the pipeline promises of the messages it takes, without *)
(* queues, workers or recycled events: every message leaves once.  Either a*)
(* result goes on that is made of this message alone and is final, or a    *)
(* counter tells of its loss.  A stage that has shut down has taken nothing*)
(* since the shutdown began, and nothing is left in it.                    *)
(***************************************************************************)
EXTENDS Naturals

CONSTANT Types   \* of results

VARIABLES
  taken,     \* messages taken so far, numbered
  result,    \* result[m]: what has gone on of message m, if it has
  counted,   \* messages that are lost and counted
  stopping, over

stageVars == <<taken, result, counted, stopping, over>>

StageInit ==
  /\ taken = 0 /\ result = [m \in {} |-> m] /\ counted = {}
  /\ stopping = FALSE /\ over = FALSE

Inside == (1 .. taken) \ (DOMAIN result \cup counted)

(* What may be made of m: values that every result has, and others that    *)
(* only some have.                                                         *)
Made(m) == [main : {m}, type : Types, rest : SUBSET {m}]

(* The next message comes in, or is turned away.                           *)
Take ==
  /\ ~stopping
  /\ taken' = taken + 1
  /\ counted' \in {counted, counted \cup {taken'}}
  /\ UNCHANGED <<result, stopping, over>>

HandOn(m) ==
  /\ m \in Inside
  /\ \E r \in Made(m) :
       result' = [n \in DOMAIN result \cup {m} |-> IF n = m THEN r ELSE result[n]]
  /\ UNCHANGED <<taken, counted, stopping, over>>

Drop(m) ==
  /\ m \in Inside
  /\ counted' = counted \cup {m}
  /\ UNCHANGED <<taken, result, stopping, over>>

Stop ==
  /\ stopping' = TRUE
  /\ UNCHANGED <<taken, result, counted, over>>

End ==
  /\ stopping /\ Inside = {}
  /\ over' = TRUE
  /\ UNCHANGED <<taken, result, counted, stopping>>

StageNext ==
  \/ Take \/ Stop \/ End
  \/ \E m \in Inside : HandOn(m) \/ Drop(m)

StageSpec == StageInit /\ [][StageNext]_stageVars
============================================================================
