---------------------------- MODULE Validator ----------------------------
(***************************************************************************)
(* src/pkg/validation/validator.go: Validate counts a message, judges it by*)
(* five layers and counts the verdict.  Layers 1, 2, 3 and 5 look at the   *)
(* message; layer 4 also compares the failures so far with MaxErrorRate.   *)
(* Each critical section is a step.  Counters per layer are left out.      *)
(***************************************************************************)
EXTENDS Naturals, FiniteSets

CONSTANTS
  Callers,
  RateNum, RateDen,  \* MaxErrorRate
  MaxValidated       \* bound

ASSUME ValidatorAssumption ==
  /\ IsFiniteSet(Callers) /\ MaxValidated \in Nat
  /\ RateNum \in Nat /\ RateDen \in Nat \ {0} /\ RateNum <= RateDen

VARIABLES
  validated, passed, failed,   \* totalValidated, totalPassed, totalFailed
  vpc,      \* [Callers -> "idle", "judge", "count"]
  verdict   \* the verdict on the message so far

valVars == <<validated, passed, failed, vpc, verdict>>

ValInit ==
  /\ validated = 0 /\ passed = 0 /\ failed = 0
  /\ vpc = [c \in Callers |-> "idle"]
  /\ verdict = [c \in Callers |-> FALSE]

ValTypeOK ==
  /\ validated \in 0 .. MaxValidated /\ passed \in Nat /\ failed \in Nat
  /\ vpc \in [Callers -> {"idle", "judge", "count"}]
  /\ verdict \in [Callers -> BOOLEAN]
  /\ validated = passed + failed + Cardinality({c \in Callers : vpc[c] # "idle"})

-----------------------------------------------------------------------------
(* The layers, over what they can tell apart.                              *)

Name == {"", "UNKNOWN", "known"}
Message ==
  [id : {"", "known"}, source : Name, symbol : Name, type : Name, side : Name,
   payload : BOOLEAN,
   recent : BOOLEAN,    \* younger than MaxTimestampAge
   stamped : BOOLEAN,   \* LocalHWTimestamp > 0
   inRange : BOOLEAN,   \* price and size within their limits
   onTime : BOOLEAN,    \* processed within MaxLatencyMs
   ordered : BOOLEAN]   \* not stamped before the exchange did, or old

Known(n) == n # "" /\ n # "UNKNOWN"

Connectivity(m) == m.recent /\ m.stamped /\ Known(m.source)
Protocol(m) == "" \notin {m.id, m.source, m.symbol, m.type} /\ Known(m.type) /\ m.payload
Integrity(m) == Known(m.symbol) /\ m.inRange /\ m.side # ""
Performance(m) == m.onTime /\ m.ordered

Sound(m) == Connectivity(m) /\ Protocol(m) /\ Integrity(m) /\ m.payload /\ Performance(m)

(* A sound message, and for each layer one that it alone refuses.          *)
Perfect ==
  [id |-> "known", source |-> "known", symbol |-> "known", type |-> "known", side |-> "known",
   payload |-> TRUE, recent |-> TRUE, stamped |-> TRUE, inRange |-> TRUE,
   onTime |-> TRUE, ordered |-> TRUE]
Samples ==
  {Perfect, [Perfect EXCEPT !.recent = FALSE], [Perfect EXCEPT !.type = "UNKNOWN"],
   [Perfect EXCEPT !.symbol = "UNKNOWN"], [Perfect EXCEPT !.onTime = FALSE]}

ASSUME SamplesAssumption == \A m \in Samples : m \in Message /\ (Sound(m) <=> m = Perfect)

-----------------------------------------------------------------------------
ValidateBegins(c) ==
  /\ vpc[c] = "idle" /\ validated < MaxValidated
  /\ validated' = validated + 1
  /\ \E m \in Samples : verdict' = [verdict EXCEPT ![c] = Sound(m)]
  /\ vpc' = [vpc EXCEPT ![c] = "judge"]
  /\ UNCHANGED <<passed, failed>>

(* failed / validated <= MaxErrorRate; the message itself is counted.      *)
RateOK == failed * RateDen <= RateNum * validated

(* Layer 4, under the read lock.                                           *)
ReadsRate(c) ==
  /\ vpc[c] = "judge"
  /\ verdict' = [verdict EXCEPT ![c] = @ /\ RateOK]
  /\ vpc' = [vpc EXCEPT ![c] = "count"]
  /\ UNCHANGED <<validated, passed, failed>>

CountsVerdict(c) ==
  /\ vpc[c] = "count"
  /\ IF verdict[c]
       THEN passed' = passed + 1 /\ UNCHANGED failed
       ELSE failed' = failed + 1 /\ UNCHANGED passed
  /\ vpc' = [vpc EXCEPT ![c] = "idle"]
  /\ verdict' = [verdict EXCEPT ![c] = FALSE]
  /\ UNCHANGED validated

ValNext == \E c \in Callers : ValidateBegins(c) \/ ReadsRate(c) \/ CountsVerdict(c)

ValSpec == ValInit /\ [][ValNext]_valVars

-----------------------------------------------------------------------------
(***************************************************************************)
(* The error rate feeds on itself: a message refused for the rate is one   *)
(* more failure.  Once the failures exceed what the rate allows of all the *)
(* calls that are over and as many more as can run at once, and nobody is  *)
(* about to count a success, no message passes ever again, however sound.  *)
(***************************************************************************)
Hopeless ==
  /\ failed * RateDen > RateNum * (passed + failed + Cardinality(Callers))
  /\ \A c \in Callers : vpc[c] = "count" => ~verdict[c]

HopelessForGood == [][Hopeless => Hopeless' /\ passed' = passed]_valVars

(* validator.go, layer 4: "system-level, always pass for individual        *)
(* messages".  The failures of other messages never are what keeps every   *)
(* sound message from passing.                                             *)
RateSparesMessages == ~Hopeless
==========================================================================
