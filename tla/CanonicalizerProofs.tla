------------------------ MODULE CanonicalizerProofs ------------------------
(***************************************************************************)
(* The safety properties of CanonicalizerProcess for every number of       *)
(* messages, handlers and workers, every size of the channels and every    *)
(* assignment of kinds to messages.                                        *)
(***************************************************************************)
EXTENDS CanonicalizerProcess, FiniteSetTheorems, SequenceTheorems, TLAPS

-----------------------------------------------------------------------------
(* The inductive invariant: who has what                                   *)

Holding == {"count", "process", "deliver"}

(* A worker, a Submit and the output loop have a message exactly between   *)
(* the step that gets it and the step that leaves it.                      *)
HoldersFit ==
  /\ \A w \in Workers : wmsg[w] # NoMsg <=> wpc[w] \in Holding
  /\ \A s \in Submitters : smsg[s] # NoMsg <=> spc[s] \in {"push", "count"}
  /\ lmsg # NoMsg <=> lpc \in {"encode", "send"}

Alive == {w \in Workers : wpc[w] # "off"}

(* The counter of workers, and what the autoscaler may still add to it.    *)
CountFits ==
  /\ activeWorkers = Cardinality(Alive) + (IF apc = "check" THEN 1 ELSE 0)
  /\ apc \in {"spawn", "check"} => activeWorkers + toSpawn <= MaxWorkers

(* The order of the shutdown.                                              *)
Staged ==
  /\ phase # "serve" => \A s \in Submitters : spc[s] = "idle"
  /\ stpc # "idle" => phase # "serve"
  /\ phase \in {"drain", "down"} => stpc = "done"
  /\ ctxDone <=> stpc \in {"wait", "close", "done"}
  /\ outClosed <=> stpc = "done"
  /\ draining # {} => ctxDone
  /\ lpc = "done" => outClosed /\ output = <<>>
  /\ phase = "down" => lpc = "done"

(* The last worker leaves an empty queue, and nothing comes after it.      *)
Drained ==
  /\ Alive = {} => phase # "serve" /\ input = <<>>
  /\ stpc \in {"close", "done"} => input = <<>> /\ \A w \in Workers : wmsg[w] = NoMsg

-----------------------------------------------------------------------------
(* Where the messages are                                                  *)

Elements(s) == {s[i] : i \in DOMAIN s}
Distinct(s) == \A i, j \in DOMAIN s : s[i] = s[j] => i = j

Pushers == {s \in Submitters : spc[s] = "push"}
Pushed == {smsg[s] : s \in Pushers}
Worked == {wmsg[w] : w \in Workers} \ {NoMsg}
Looped == {lmsg} \ {NoMsg}
Ended == handed \cup rejected \cup timedOut \cup panicked

(* No two have the same message.                                           *)
NoTwins ==
  /\ \A s, t \in Pushers : smsg[s] = smsg[t] => s = t
  /\ \A v, w \in Workers : wmsg[v] = wmsg[w] /\ wmsg[v] # NoMsg => v = w
  /\ Distinct(input) /\ Distinct(output)

(* Every message submitted is in one place: with a Submit, in a channel,   *)
(* with a worker or the output loop, or handed on or counted.              *)
OnePlace ==
  /\ 1 .. sent = Pushed \cup Elements(input) \cup Worked \cup Elements(output) \cup Looped \cup Ended
  /\ Pushed \cap (Elements(input) \cup Worked \cup Elements(output) \cup Looped \cup Ended) = {}
  /\ Elements(input) \cap (Worked \cup Elements(output) \cup Looped \cup Ended) = {}
  /\ Worked \cap (Elements(output) \cup Looped \cup Ended) = {}
  /\ Elements(output) \cap (Looped \cup Ended) = {}
  /\ Looped \cap Ended = {}

-----------------------------------------------------------------------------
(* Whose the events are                                                    *)

Live == {m \in Msgs : canon[m] # NoEvent}
Delivering == {wmsg[w] : w \in {v \in Workers : wpc[v] = "deliver"}}

(* Messages whose event has been put back.                                 *)
Wired == handed \cup IF lpc = "send" THEN {lmsg} ELSE {}

IsOwn(c, m) == c.main = m /\ c.rest \subseteq {m}

(* An event belongs to one message, has its values, and is not in the pool;*)
(* those in the pool are blank.                                            *)
EventsAreOwned ==
  /\ \A m \in Live : canon[m] \notin free /\ IsOwn(content[canon[m]], m)
  /\ \A m, n \in Live : canon[m] = canon[n] => m = n
  /\ \A e \in free : content[e] = Blank

(* A message has an event from the worker's result to the encoding of it.  *)
LiveWhere ==
  /\ Live \subseteq Delivering \cup Elements(output) \cup (IF lpc = "encode" THEN {lmsg} ELSE {})
  /\ lpc = "encode" => lmsg \in Live

(* There is always an event nobody has.                                    *)
EnoughEvents == Cardinality(free \cup InUse) <= Cardinality(Wired \cup Live)

WiredIsOwn == \A m \in Wired : IsOwn(wire[m], m)

-----------------------------------------------------------------------------
(* Types, but for the two counters, which CountFits and DepthIsQueue bound,*)
(* and the events                                                          *)

ChannelsFit ==
  /\ input \in Seq(Msgs) /\ Len(input) <= QueueSize
  /\ output \in Seq(Msgs) /\ Len(output) <= QueueSize
  /\ outClosed \in BOOLEAN /\ stopped \in BOOLEAN /\ ctxDone \in BOOLEAN

HistoriesFit ==
  /\ sent \in 0 .. MaxMsgs
  /\ processed \in SUBSET Msgs /\ rejected \in SUBSET Msgs
  /\ timedOut \in SUBSET Msgs /\ panicked \in SUBSET Msgs /\ handed \in SUBSET Msgs

PlacesFit ==
  /\ wpc \in [Workers -> {"off", "select", "count", "process", "deliver"}]
  /\ wmsg \in [Workers -> Msgs \cup {NoMsg}]
  /\ draining \in SUBSET Workers
  /\ spc \in [Submitters -> {"idle", "push", "count"}]
  /\ smsg \in [Submitters -> Msgs \cup {NoMsg}]
  /\ apc \in {"tick", "read", "spawn", "check", "exit"}
  /\ stpc \in {"idle", "cancel", "wait", "close", "done"}
  /\ phase \in {"serve", "pool", "drain", "down"}
  /\ lpc \in {"receive", "encode", "send", "done"} /\ lmsg \in Msgs \cup {NoMsg}
  /\ queueDepth \in Int /\ activeWorkers \in Int /\ toSpawn \in Int

Shape == ChannelsFit /\ HistoriesFit /\ PlacesFit /\ HoldersFit

(* The steps by who takes them.                                            *)
Submits(s) == (phase = "serve" \/ spc[s] # "idle") /\ Submit(s) /\ UNCHANGED <<eventVars, procVars>>
Scales == Autoscaler /\ UNCHANGED <<eventVars, procVars>>
Stops == (StopRuns \/ (phase = "pool" /\ StopMarks)) /\ UNCHANGED <<eventVars, procVars>>
Mains == MainStopsServer \/ MainAfterPool \/ MainAfterLoop

Steps ==
  \/ \E s \in Submitters : Submits(s)
  \/ \E w \in Workers : Worker(w)
  \/ Scales \/ Stops \/ OutputLoop \/ Mains
  \/ UNCHANGED canonVars

LEMMA StepsAre == [CanonNext]_canonVars => Steps
BY DEF CanonNext, Steps, Handler, Submits, Scales, Stops, Mains, MainShutsDown, MainStopsPool, CanonOver

LEMMA MessageNumbers ==
  ASSUME Shape
  PROVE  /\ MaxMsgs \in Nat /\ Msgs = 1 .. MaxMsgs /\ NoMsg = 0 /\ NoMsg \notin Msgs
         /\ sent \in 0 .. MaxMsgs
         /\ (sent < MaxMsgs => (sent + 1 \in Msgs /\ sent + 1 \in 0 .. MaxMsgs /\ sent + 1 # NoMsg))
         /\ QueueSize \in Nat \ {0}
BY MaxMsgsAssumption, QueueSizeAssumption DEF Msgs, NoMsg, Shape, HistoriesFit

LEMMA ShapeInit == CanonInit => Shape
<1> SUFFICES ASSUME CanonInit PROVE Shape
  OBVIOUS
<1>1. PoolInit
  BY DEF CanonInit
<1>2. ChannelsFit
  <2>1. <<>> \in Seq(Msgs) /\ Len(<<>>) = 0 /\ 0 <= QueueSize
    BY EmptySeq, QueueSizeAssumption
  <2>2. QED
    BY <1>1, <2>1 DEF PoolInit, ChannelsFit
<1>3. HistoriesFit
  <2>1. 0 \in 0 .. MaxMsgs
    BY MaxMsgsAssumption
  <2>2. QED
    BY <1>1, <2>1 DEF PoolInit, CanonInit, HistoriesFit
<1>4. MinWorkers \in Int
  <2>1. MaxWorkers \in Nat
    BY WorkersAssumption, FS_CardinalityType DEF MaxWorkers
  <2>2. QED
    BY <2>1, MinWorkersAssumption
<1>5. PlacesFit /\ HoldersFit
  BY <1>1, <1>4 DEF PoolInit, CanonInit, PlacesFit, HoldersFit, Holding
<1>6. QED
  BY <1>2, <1>3, <1>5 DEF Shape

LEMMA SubmitKeepsShape ==
  ASSUME Shape, NEW s \in Submitters, Submits(s)
  PROVE  Shape'
<1> USE DEF chanVars, workerVars, submitVars, scaleVars, stopVars, countVars, procVars
<1>1. /\ UNCHANGED <<output, outClosed, workerVars, scaleVars, stopVars, processed, timedOut, panicked, procVars>>
      /\ Submit(s)
  BY DEF Submits, Submit, SubmitBegins, SubmitPushes, SubmitRejects, SubmitCounts
<1>2. /\ sent < MaxMsgs => sent + 1 \in Msgs /\ sent + 1 \in 0 .. MaxMsgs /\ sent + 1 # NoMsg
      /\ NoMsg \notin Msgs
  BY MessageNumbers
<1>3. smsg[s] \in Msgs \/ (smsg[s] = NoMsg /\ spc[s] = "idle")
  BY <1>2 DEF Shape, PlacesFit, HoldersFit
<1>4. ChannelsFit'
  <2>1. CASE SubmitPushes(s)
    <3>1. smsg[s] \in Msgs /\ input \in Seq(Msgs) /\ Len(input) < QueueSize
      BY <1>3, <2>1 DEF SubmitPushes, Shape, ChannelsFit
    <3>2. Append(input, smsg[s]) \in Seq(Msgs) /\ Len(Append(input, smsg[s])) = Len(input) + 1
          /\ Len(input) \in Nat
      BY <3>1, AppendProperties, LenProperties
    <3>3. Len(input) + 1 <= QueueSize
      BY <3>1, <3>2, QueueSizeAssumption
    <3>4. QED
      BY <1>1, <2>1, <3>2, <3>3 DEF SubmitPushes, Shape, ChannelsFit
  <2>2. CASE input' = input
    BY <1>1, <2>2 DEF Shape, ChannelsFit
  <2>3. QED
    BY <1>1, <2>1, <2>2 DEF Submit, SubmitBegins, SubmitRejects, SubmitCounts
<1>5. HistoriesFit'
  <2>1. sent' \in 0 .. MaxMsgs /\ rejected' \in SUBSET Msgs
    BY <1>1, <1>2, <1>3 DEF Submit, SubmitBegins, SubmitPushes, SubmitRejects, SubmitCounts, Shape, HistoriesFit
  <2>2. QED
    BY <1>1, <2>1 DEF Shape, HistoriesFit
<1>6. PlacesFit'
  <2>1. queueDepth' \in Int
    BY <1>1 DEF Submit, SubmitBegins, SubmitPushes, SubmitRejects, SubmitCounts, Shape, PlacesFit
  <2>2. spc' \in [Submitters -> {"idle", "push", "count"}] /\ smsg' \in [Submitters -> Msgs \cup {NoMsg}]
    BY <1>1, <1>2 DEF Submit, SubmitBegins, SubmitPushes, SubmitRejects, SubmitCounts, Shape, PlacesFit
  <2>3. QED
    BY <1>1, <2>1, <2>2 DEF Shape, PlacesFit
<1>7. HoldersFit'
  <2>1. \A t \in Submitters : smsg'[t] # NoMsg <=> spc'[t] \in {"push", "count"}
    BY <1>1, <1>2 DEF Submit, SubmitBegins, SubmitPushes, SubmitRejects, SubmitCounts, Shape, PlacesFit, HoldersFit
  <2>2. QED
    BY <1>1, <2>1 DEF Shape, HoldersFit
<1>8. QED
  BY <1>4, <1>5, <1>6, <1>7 DEF Shape

LEMMA TailFits ==
  ASSUME NEW S, NEW q \in Seq(S), NEW n \in Nat, Len(q) <= n, q # <<>>
  PROVE  Head(q) \in S /\ Tail(q) \in Seq(S) /\ Len(Tail(q)) <= n
<1>1. Head(q) \in S /\ Tail(q) \in Seq(S) /\ Len(Tail(q)) = Len(q) - 1 /\ Len(q) \in Nat
  BY HeadTailProperties, LenProperties
<1>2. QED
  BY <1>1

LEMMA WorkerKeepsShape ==
  ASSUME Shape, NEW w \in Workers, Worker(w)
  PROVE  Shape'
<1> USE DEF chanVars, workerVars, submitVars, scaleVars, stopVars, countVars, procVars, LeaveMessage, Holding
<1>1. /\ UNCHANGED <<outClosed, submitVars, scaleVars, stopVars, rejected, procVars>>
      /\ \/ WorkerTakes(w) \/ WorkerSeesDone(w) \/ WorkerCounts(w) \/ WorkerProcesses(w)
         \/ WorkerPanics(w) \/ WorkerDelivers(w) \/ WorkerGivesUp(w) \/ WorkerExits(w)
  BY DEF Worker, WorkerTakes, WorkerSeesDone, WorkerCounts, WorkerProcesses, WorkerPanics,
         WorkerDelivers, WorkerGivesUp, WorkerExits
<1>2. NoMsg \notin Msgs /\ QueueSize \in Nat
  BY MessageNumbers
<1>3. wpc[w] \in {"count", "process", "deliver"} => wmsg[w] \in Msgs
  BY DEF Shape, PlacesFit, HoldersFit
<1>4. ChannelsFit'
  <2>1. input' \in Seq(Msgs) /\ Len(input') <= QueueSize
    <3>1. CASE WorkerTakes(w)
      BY <1>2, <3>1, TailFits DEF WorkerTakes, Shape, ChannelsFit
    <3>2. CASE input' = input
      BY <3>2 DEF Shape, ChannelsFit
    <3>3. QED
      BY <1>1, <3>1, <3>2 DEF WorkerSeesDone, WorkerCounts, WorkerProcesses, WorkerPanics, WorkerDelivers,
                              WorkerGivesUp, WorkerExits
  <2>2. output' \in Seq(Msgs) /\ Len(output') <= QueueSize
    <3>1. CASE WorkerDelivers(w)
      <4>1. wmsg[w] \in Msgs /\ output \in Seq(Msgs) /\ Len(output) < QueueSize
        BY <1>3, <3>1 DEF WorkerDelivers, Shape, ChannelsFit
      <4>2. Append(output, wmsg[w]) \in Seq(Msgs) /\ Len(Append(output, wmsg[w])) = Len(output) + 1
            /\ Len(output) \in Nat
        BY <4>1, AppendProperties, LenProperties
      <4>3. Len(output) + 1 <= QueueSize
        BY <1>2, <4>1, <4>2
      <4>4. QED
        BY <3>1, <4>2, <4>3 DEF WorkerDelivers
    <3>2. CASE output' = output
      BY <3>2 DEF Shape, ChannelsFit
    <3>3. QED
      BY <1>1, <3>1, <3>2 DEF WorkerTakes, WorkerSeesDone, WorkerCounts, WorkerProcesses, WorkerPanics,
                              WorkerGivesUp, WorkerExits
  <2>3. QED
    BY <1>1, <2>1, <2>2 DEF Shape, ChannelsFit
<1>5. HistoriesFit'
  BY <1>1, <1>3 DEF WorkerTakes, WorkerSeesDone, WorkerCounts, WorkerProcesses, WorkerPanics,
                    WorkerDelivers, WorkerGivesUp, WorkerExits, Shape, HistoriesFit
<1>6. PlacesFit'
  <2>1. queueDepth' \in Int /\ activeWorkers' \in Int
    BY <1>1 DEF WorkerTakes, WorkerSeesDone, WorkerCounts, WorkerProcesses, WorkerPanics,
                WorkerDelivers, WorkerGivesUp, WorkerExits, Shape, PlacesFit
  <2>2. input # <<>> => Head(input) \in Msgs
    BY <1>2, TailFits DEF Shape, ChannelsFit
  <2>3. /\ wpc' \in [Workers -> {"off", "select", "count", "process", "deliver"}]
        /\ wmsg' \in [Workers -> Msgs \cup {NoMsg}] /\ draining' \in SUBSET Workers
    BY <1>1, <2>2 DEF WorkerTakes, WorkerSeesDone, WorkerCounts, WorkerProcesses, WorkerPanics,
                      WorkerDelivers, WorkerGivesUp, WorkerExits, Shape, PlacesFit
  <2>4. QED
    BY <1>1, <2>1, <2>3 DEF Shape, PlacesFit
<1>7. HoldersFit'
  <2>1. input # <<>> => Head(input) # NoMsg
    BY <1>2, TailFits DEF Shape, ChannelsFit
  <2>2. \A v \in Workers : wmsg'[v] # NoMsg <=> wpc'[v] \in Holding
    BY <1>1, <2>1 DEF WorkerTakes, WorkerSeesDone, WorkerCounts, WorkerProcesses, WorkerPanics,
                      WorkerDelivers, WorkerGivesUp, WorkerExits, Shape, PlacesFit, HoldersFit
  <2>3. QED
    BY <1>1, <2>2 DEF Shape, HoldersFit
<1>8. QED
  BY <1>4, <1>5, <1>6, <1>7 DEF Shape

LEMMA LoopKeepsShape ==
  ASSUME Shape, OutputLoop
  PROVE  Shape'
<1> USE DEF workerVars, submitVars, scaleVars, stopVars, countVars, eventVars, poolVars, chanVars
<1>1. /\ UNCHANGED <<input, outClosed, queueDepth, workerVars, submitVars, scaleVars, stopVars, countVars, phase>>
      /\ \/ output' = output
         \/ output # <<>> /\ output' = Tail(output) /\ lmsg' = Head(output)
  BY DEF OutputLoop, LoopReceives, LoopFallsBack, LoopEncodes, LoopSends, LoopEnds
<1>2. NoMsg \notin Msgs /\ QueueSize \in Nat
  BY MessageNumbers
<1>3. output # <<>> => Head(output) \in Msgs /\ Tail(output) \in Seq(Msgs) /\ Len(Tail(output)) <= QueueSize
  BY <1>2, TailFits DEF Shape, ChannelsFit
<1>4. ChannelsFit'
  BY <1>1, <1>3 DEF Shape, ChannelsFit
<1>5. HistoriesFit'
  <2>1. handed' \in SUBSET Msgs
    BY DEF OutputLoop, LoopReceives, LoopFallsBack, LoopEncodes, LoopSends, LoopEnds, Shape, HistoriesFit,
           PlacesFit, HoldersFit
  <2>2. QED
    BY <1>1, <2>1 DEF Shape, HistoriesFit
<1>6. PlacesFit' /\ HoldersFit'
  <2>1. /\ lpc' \in {"receive", "encode", "send", "done"} /\ lmsg' \in Msgs \cup {NoMsg}
        /\ lmsg' # NoMsg <=> lpc' \in {"encode", "send"}
    BY <1>2, <1>3 DEF OutputLoop, LoopReceives, LoopFallsBack, LoopEncodes, LoopSends, LoopEnds, Shape,
                      PlacesFit, HoldersFit
  <2>2. QED
    BY <1>1, <2>1 DEF Shape, PlacesFit, HoldersFit
<1>7. QED
  BY <1>4, <1>5, <1>6 DEF Shape

LEMMA OthersKeepShape ==
  ASSUME Shape, Scales \/ Stops \/ Mains
  PROVE  Shape'
<1> USE DEF workerVars, submitVars, scaleVars, stopVars, countVars, eventVars, poolVars, chanVars, procVars
<1>1. CASE Scales
  <2>1. /\ UNCHANGED <<chanVars, queueDepth, wmsg, draining, submitVars, stopVars, countVars, procVars>>
        /\ apc' \in {"tick", "read", "spawn", "check", "exit"}
        /\ wpc' = wpc \/ \E w \in Workers : wpc[w] = "off" /\ wpc' = [wpc EXCEPT ![w] = "select"]
    BY <1>1 DEF Scales, Autoscaler, ScaleTick, ScaleReads, ScaleEnds, SpawnCounts, SpawnStarts, ScaleStops,
                Shape, PlacesFit
  <2>2. toSpawn' \in Int /\ activeWorkers' \in Int
    <3>1. MaxWorkers \in Int /\ ScaleStep \in Int
      BY WorkersAssumption, FS_CardinalityType, ScaleAssumption DEF MaxWorkers
    <3>2. activeWorkers \in Int /\ toSpawn \in Int
      BY DEF Shape, PlacesFit
    <3>3. QED
      BY <1>1, <3>1, <3>2 DEF Scales, Autoscaler, ScaleTick, ScaleReads, ScaleEnds, SpawnCounts,
                              SpawnStarts, ScaleStops
  <2>3. QED
    BY <2>1, <2>2 DEF Shape, ChannelsFit, HistoriesFit, PlacesFit, HoldersFit, Holding
<1>2. CASE Stops \/ Mains
  <2>1. /\ UNCHANGED <<input, output, queueDepth, workerVars, submitVars, scaleVars, countVars, lpc, lmsg, handed>>
        /\ outClosed' \in BOOLEAN /\ stopped' \in BOOLEAN /\ ctxDone' \in BOOLEAN
        /\ stpc' \in {"idle", "cancel", "wait", "close", "done"}
        /\ phase' \in {"serve", "pool", "drain", "down"}
    BY <1>2 DEF Stops, StopRuns, StopMarks, StopCancels, StopWaits, StopCloses, Mains, MainStopsServer,
                MainAfterPool, MainAfterLoop, Shape, PlacesFit, ChannelsFit
  <2>2. QED
    BY <2>1 DEF Shape, ChannelsFit, HistoriesFit, PlacesFit, HoldersFit
<1>3. QED
  BY <1>1, <1>2

LEMMA ShapeStep == ASSUME Shape, Steps PROVE Shape'
<1>1. CASE UNCHANGED canonVars
  BY <1>1 DEF canonVars, poolVars, chanVars, workerVars, submitVars, scaleVars, stopVars, countVars, procVars,
              Shape, ChannelsFit, HistoriesFit, PlacesFit, HoldersFit
<1>2. QED
  BY <1>1, SubmitKeepsShape, WorkerKeepsShape, LoopKeepsShape, OthersKeepShape DEF Steps

-----------------------------------------------------------------------------
(* The workers and their counter                                           *)

LEMMA AliveCounted ==
  /\ IsFiniteSet(Alive) /\ Cardinality(Alive) \in 0 .. MaxWorkers /\ MaxWorkers \in Nat
  /\ \A w \in Alive : Cardinality(Alive \ {w}) = Cardinality(Alive) - 1
  /\ \A w \in Workers \ Alive : Cardinality(Alive \cup {w}) = Cardinality(Alive) + 1
<1>1. Alive \subseteq Workers
  BY DEF Alive
<1>2. /\ IsFiniteSet(Alive) /\ Cardinality(Alive) <= Cardinality(Workers)
      /\ Cardinality(Alive) \in Nat /\ Cardinality(Workers) \in Nat
  BY <1>1, WorkersAssumption, FS_Subset, FS_CardinalityType
<1>3. \A w \in Alive : Cardinality(Alive \ {w}) = Cardinality(Alive) - 1
  BY <1>2, FS_RemoveElement
<1>4. \A w \in Workers \ Alive : Cardinality(Alive \cup {w}) = Cardinality(Alive) + 1
  BY <1>2, FS_AddElement
<1>5. QED
  BY <1>2, <1>3, <1>4 DEF MaxWorkers

LEMMA CountInit == CanonInit => CountFits
<1> SUFFICES ASSUME CanonInit PROVE CountFits
  OBVIOUS
<1>1. PICK W \in SUBSET Workers : /\ Cardinality(W) = MinWorkers
                                 /\ wpc = [w \in Workers |-> IF w \in W THEN "select" ELSE "off"]
  BY DEF CanonInit, PoolInit
<1>2. Alive = W /\ activeWorkers = MinWorkers /\ apc = "tick"
  BY <1>1 DEF Alive, CanonInit, PoolInit
<1>3. Cardinality(Alive) \in Nat
  BY AliveCounted
<1>4. QED
  BY <1>1, <1>2, <1>3 DEF CountFits

LEMMA CountStep == ASSUME Shape, CountFits, Steps PROVE CountFits'
<1> USE DEF chanVars, workerVars, submitVars, scaleVars, stopVars, countVars, eventVars, poolVars, procVars
<1>1. wpc \in [Workers -> {"off", "select", "count", "process", "deliver"}]
      /\ activeWorkers \in Int /\ toSpawn \in Int
  BY DEF Shape, PlacesFit
<1>2. CASE UNCHANGED <<activeWorkers, apc, toSpawn>> /\ Alive' = Alive
  BY <1>2 DEF CountFits
<1>3. ASSUME UNCHANGED <<activeWorkers, wpc, apc, toSpawn>> PROVE CountFits'
  BY <1>2, <1>3 DEF Alive
<1>4. ASSUME NEW s \in Submitters, Submits(s) PROVE CountFits'
  BY <1>3, <1>4 DEF Submits, Submit, SubmitBegins, SubmitPushes, SubmitRejects, SubmitCounts
<1>5. ASSUME NEW w \in Workers, Worker(w) PROVE CountFits'
  <2>1. CASE WorkerExits(w)
    <3>1. Alive' = Alive \ {w} /\ w \in Alive
      BY <1>1, <2>1 DEF WorkerExits, Alive
    <3>2. activeWorkers' = activeWorkers - 1 /\ apc' = apc /\ toSpawn' = toSpawn
      BY <2>1 DEF WorkerExits
    <3>3. Cardinality(Alive') = Cardinality(Alive) - 1 /\ Cardinality(Alive) \in Nat /\ MaxWorkers \in Nat
      BY <3>1, AliveCounted
    <3>4. activeWorkers' = Cardinality(Alive') + (IF apc' = "check" THEN 1 ELSE 0)
      BY <3>2, <3>3 DEF CountFits
    <3>5. apc' \in {"spawn", "check"} => activeWorkers' + toSpawn' <= MaxWorkers
      BY <1>1, <3>2, <3>3 DEF CountFits
    <3>6. QED
      BY <3>4, <3>5 DEF CountFits
  <2>2. CASE ~WorkerExits(w)
    <3>1. UNCHANGED <<activeWorkers, apc, toSpawn>> /\ Alive' = Alive
      BY <1>1, <1>5, <2>2 DEF Worker, WorkerTakes, WorkerSeesDone, WorkerCounts, WorkerProcesses, WorkerPanics,
                        WorkerDelivers, WorkerGivesUp, LeaveMessage, Alive
    <3>2. QED
      BY <1>2, <3>1
  <2>3. QED
    BY <2>1, <2>2
<1>6. CASE Scales
  <2>1. CASE ScaleTick \/ ScaleStops \/ ScaleEnds
    <3>1. wpc' = wpc /\ activeWorkers' = activeWorkers /\ apc # "check" /\ apc' \notin {"spawn", "check"}
      BY <2>1 DEF ScaleTick, ScaleStops, ScaleEnds
    <3>2. QED
      BY <3>1 DEF CountFits, Alive
  <2>2. CASE ScaleReads
    <3>1. /\ wpc' = wpc /\ activeWorkers' = activeWorkers /\ apc = "read" /\ apc' = "spawn"
          /\ toSpawn' = IF MaxWorkers - activeWorkers < ScaleStep THEN MaxWorkers - activeWorkers ELSE ScaleStep
      BY <2>2 DEF ScaleReads
    <3>2. activeWorkers' + toSpawn' <= MaxWorkers
      BY <1>1, <3>1, AliveCounted, ScaleAssumption
    <3>3. QED
      BY <3>1, <3>2 DEF CountFits, Alive
  <2>3. CASE SpawnCounts
    <3>1. /\ wpc' = wpc /\ activeWorkers' = activeWorkers + 1 /\ apc = "spawn" /\ apc' = "check"
          /\ toSpawn' = toSpawn - 1
      BY <2>3 DEF SpawnCounts
    <3>2. activeWorkers' + toSpawn' <= MaxWorkers
      BY <1>1, <3>1, AliveCounted DEF CountFits
    <3>3. activeWorkers = Cardinality(Alive) /\ Cardinality(Alive) \in Nat /\ Alive' = Alive
      BY <3>1, AliveCounted DEF CountFits, Alive
    <3>4. QED
      BY <3>1, <3>2, <3>3 DEF CountFits
  <2>4. CASE SpawnStarts
    <3>1. PICK w \in Workers : wpc[w] = "off" /\ wpc' = [wpc EXCEPT ![w] = "select"]
      BY <2>4 DEF SpawnStarts
    <3>2. Alive' = Alive \cup {w} /\ w \in Workers \ Alive
      BY <1>1, <3>1 DEF Alive
    <3>3. activeWorkers' = activeWorkers /\ apc = "check" /\ apc' = "spawn" /\ toSpawn' = toSpawn
      BY <2>4 DEF SpawnStarts
    <3>4. Cardinality(Alive') = Cardinality(Alive) + 1 /\ Cardinality(Alive) \in Nat
      BY <3>2, AliveCounted
    <3>5. QED
      BY <3>3, <3>4 DEF CountFits
  <2>5. QED
    BY <1>6, <2>1, <2>2, <2>3, <2>4 DEF Scales, Autoscaler
<1>7. CASE Stops \/ Mains \/ OutputLoop \/ UNCHANGED canonVars
  BY <1>3, <1>7 DEF Stops, StopRuns, StopMarks, StopCancels, StopWaits, StopCloses, Mains, MainStopsServer,
                    MainAfterPool, MainAfterLoop, OutputLoop, LoopReceives, LoopFallsBack, LoopEncodes,
                    LoopSends, LoopEnds, canonVars
<1>8. QED
  BY <1>4, <1>5, <1>6, <1>7 DEF Steps

-----------------------------------------------------------------------------
(* queueDepth and the input channel                                        *)

CountingUp == {s \in Submitters : spc[s] = "count"}
CountingDown == {w \in Workers : wpc[w] = "count"}

LEMMA Counted ==
  ASSUME NEW T, IsFiniteSet(T), NEW U \in SUBSET T
  PROVE  /\ Cardinality(U) \in 0 .. Cardinality(T) /\ Cardinality(U) \in Int
         /\ \A x \in U : Cardinality(U \ {x}) = Cardinality(U) - 1
         /\ \A x \in T \ U : Cardinality(U \cup {x}) = Cardinality(U) + 1
<1>1. /\ IsFiniteSet(U) /\ Cardinality(U) <= Cardinality(T)
      /\ Cardinality(U) \in Nat /\ Cardinality(T) \in Nat
  BY FS_Subset, FS_CardinalityType
<1>2. \A x \in U : Cardinality(U \ {x}) = Cardinality(U) - 1
  BY <1>1, FS_RemoveElement
<1>3. \A x \in T \ U : Cardinality(U \cup {x}) = Cardinality(U) + 1
  BY <1>1, FS_AddElement
<1>4. QED
  BY <1>1, <1>2, <1>3

LEMMA CountingUpCounted ==
  /\ Cardinality(CountingUp) \in 0 .. Cardinality(Submitters) /\ Cardinality(CountingUp) \in Int
  /\ \A x \in CountingUp : Cardinality(CountingUp \ {x}) = Cardinality(CountingUp) - 1
  /\ \A x \in Submitters \ CountingUp : Cardinality(CountingUp \cup {x}) = Cardinality(CountingUp) + 1
<1>1. CountingUp \in SUBSET Submitters
  BY DEF CountingUp
<1>2. QED
  BY <1>1, SubmittersAssumption, Counted

LEMMA CountingDownCounted ==
  /\ Cardinality(CountingDown) \in 0 .. MaxWorkers /\ Cardinality(CountingDown) \in Int
  /\ \A x \in CountingDown : Cardinality(CountingDown \ {x}) = Cardinality(CountingDown) - 1
  /\ \A x \in Workers \ CountingDown : Cardinality(CountingDown \cup {x}) = Cardinality(CountingDown) + 1
<1>1. CountingDown \in SUBSET Workers
  BY DEF CountingDown
<1>2. QED
  BY <1>1, WorkersAssumption, Counted DEF MaxWorkers

DepthFits == queueDepth = Len(input) - Cardinality(CountingUp) + Cardinality(CountingDown)

LEMMA DepthInit == CanonInit => DepthFits
<1> SUFFICES ASSUME CanonInit PROVE DepthFits
  OBVIOUS
<1>1. CountingUp = {} /\ CountingDown = {} /\ input = <<>> /\ queueDepth = 0
  BY DEF CanonInit, PoolInit, CountingUp, CountingDown
<1>2. Cardinality({}) = 0 /\ Len(<<>>) = 0
  BY FS_EmptySet
<1>3. QED
  BY <1>1, <1>2 DEF DepthFits

LEMMA DepthStep == ASSUME Shape, DepthFits, Steps PROVE DepthFits'
<1> USE DEF chanVars, workerVars, submitVars, scaleVars, stopVars, countVars, eventVars, poolVars, procVars
<1>1. /\ wpc \in [Workers -> {"off", "select", "count", "process", "deliver"}]
      /\ spc \in [Submitters -> {"idle", "push", "count"}]
      /\ input \in Seq(Msgs) /\ Len(input) \in Nat /\ queueDepth \in Int
  BY LenProperties DEF Shape, PlacesFit, ChannelsFit
<1>2. ASSUME UNCHANGED <<queueDepth, input>>, CountingUp' = CountingUp, CountingDown' = CountingDown
      PROVE  DepthFits'
  BY <1>2 DEF DepthFits
<1>3. ASSUME UNCHANGED <<queueDepth, input, wpc, spc>> PROVE DepthFits'
  BY <1>2, <1>3 DEF CountingUp, CountingDown
<1>4. ASSUME NEW s \in Submitters, Submits(s) PROVE DepthFits'
  <2>1. CASE SubmitBegins(s) \/ SubmitRejects(s)
    <3>1. UNCHANGED <<queueDepth, input>> /\ CountingUp' = CountingUp /\ CountingDown' = CountingDown
      BY <1>1, <2>1 DEF SubmitBegins, SubmitRejects, CountingUp, CountingDown
    <3>2. QED
      BY <1>2, <3>1
  <2>2. CASE SubmitPushes(s)
    <3>1. /\ CountingUp' = CountingUp \cup {s} /\ s \in Submitters \ CountingUp
          /\ CountingDown' = CountingDown /\ queueDepth' = queueDepth /\ input' = Append(input, smsg[s])
          /\ smsg[s] \in Msgs
      BY <1>1, <2>2 DEF SubmitPushes, CountingUp, CountingDown, Shape, HoldersFit, PlacesFit
    <3>2. Len(input') = Len(input) + 1
      BY <1>1, <3>1, AppendProperties
    <3>3. Cardinality(CountingUp') = Cardinality(CountingUp) + 1
      BY <3>1, CountingUpCounted
    <3>4. QED
      BY <1>1, <3>1, <3>2, <3>3, CountingUpCounted, CountingDownCounted DEF DepthFits
  <2>3. CASE SubmitCounts(s)
    <3>1. /\ CountingUp' = CountingUp \ {s} /\ s \in CountingUp
          /\ CountingDown' = CountingDown /\ queueDepth' = queueDepth + 1 /\ input' = input
      BY <1>1, <2>3 DEF SubmitCounts, CountingUp, CountingDown
    <3>2. Cardinality(CountingUp') = Cardinality(CountingUp) - 1
      BY <3>1, CountingUpCounted
    <3>3. QED
      BY <1>1, <3>1, <3>2, CountingUpCounted, CountingDownCounted DEF DepthFits
  <2>4. QED
    BY <1>4, <2>1, <2>2, <2>3 DEF Submits, Submit
<1>5. ASSUME NEW w \in Workers, Worker(w) PROVE DepthFits'
  <2>1. CASE WorkerTakes(w)
    <3>1. /\ CountingDown' = CountingDown \cup {w} /\ w \in Workers \ CountingDown
          /\ CountingUp' = CountingUp /\ queueDepth' = queueDepth /\ input' = Tail(input) /\ input # <<>>
      BY <1>1, <2>1 DEF WorkerTakes, CountingUp, CountingDown
    <3>2. Len(input') = Len(input) - 1
      BY <1>1, <3>1, HeadTailProperties
    <3>3. Cardinality(CountingDown') = Cardinality(CountingDown) + 1
      BY <3>1, CountingDownCounted
    <3>4. QED
      BY <1>1, <3>1, <3>2, <3>3, CountingUpCounted, CountingDownCounted DEF DepthFits
  <2>2. CASE WorkerCounts(w)
    <3>1. /\ CountingDown' = CountingDown \ {w} /\ w \in CountingDown
          /\ CountingUp' = CountingUp /\ queueDepth' = queueDepth - 1 /\ input' = input
      BY <1>1, <2>2 DEF WorkerCounts, CountingUp, CountingDown
    <3>2. Cardinality(CountingDown') = Cardinality(CountingDown) - 1
      BY <3>1, CountingDownCounted
    <3>3. QED
      BY <1>1, <3>1, <3>2, CountingUpCounted, CountingDownCounted DEF DepthFits
  <2>3. CASE ~WorkerTakes(w) /\ ~WorkerCounts(w)
    <3>1. UNCHANGED <<queueDepth, input>> /\ CountingUp' = CountingUp /\ CountingDown' = CountingDown
      BY <1>1, <1>5, <2>3 DEF Worker, WorkerSeesDone, WorkerProcesses, WorkerPanics, WorkerDelivers,
                              WorkerGivesUp, WorkerExits, LeaveMessage, CountingUp, CountingDown
    <3>2. QED
      BY <1>2, <3>1
  <2>4. QED
    BY <2>1, <2>2, <2>3
<1>6. CASE Scales
  <2>1. UNCHANGED <<queueDepth, input>> /\ CountingUp' = CountingUp /\ CountingDown' = CountingDown
    BY <1>1, <1>6 DEF Scales, Autoscaler, ScaleTick, ScaleReads, ScaleEnds, SpawnCounts, SpawnStarts, ScaleStops,
                      CountingUp, CountingDown
  <2>2. QED
    BY <1>2, <2>1
<1>7. CASE Stops \/ Mains \/ OutputLoop \/ UNCHANGED canonVars
  BY <1>3, <1>7 DEF Stops, StopRuns, StopMarks, StopCancels, StopWaits, StopCloses, Mains, MainStopsServer,
                    MainAfterPool, MainAfterLoop, OutputLoop, LoopReceives, LoopFallsBack, LoopEncodes,
                    LoopSends, LoopEnds, canonVars
<1>8. QED
  BY <1>4, <1>5, <1>6, <1>7 DEF Steps

-----------------------------------------------------------------------------
(* The shutdown                                                            *)

LEMMA StagedInit == CanonInit => Staged /\ Drained
<1> SUFFICES ASSUME CanonInit PROVE Staged /\ Drained
  OBVIOUS
<1>1. Staged
  BY DEF CanonInit, PoolInit, Staged
<1>2. Alive # {}
  <2>1. PICK W \in SUBSET Workers : /\ Cardinality(W) = MinWorkers
                                   /\ wpc = [w \in Workers |-> IF w \in W THEN "select" ELSE "off"]
    BY DEF CanonInit, PoolInit
  <2>2. Alive = W
    BY <2>1 DEF Alive
  <2>3. Cardinality({}) = 0 /\ MinWorkers # 0
    <3>1. MaxWorkers \in Nat
      BY AliveCounted
    <3>2. QED
      BY <3>1, FS_EmptySet, MinWorkersAssumption
  <2>4. QED
    BY <2>1, <2>2, <2>3
<1>3. QED
  BY <1>1, <1>2 DEF CanonInit, PoolInit, Drained

LEMMA StagedStep == ASSUME Shape, Staged, Drained, Steps PROVE Staged' /\ Drained'
<1> USE DEF chanVars, workerVars, submitVars, scaleVars, stopVars, countVars, eventVars, poolVars, procVars
<1>1. /\ wpc \in [Workers -> {"off", "select", "count", "process", "deliver"}]
      /\ wmsg \in [Workers -> Msgs \cup {NoMsg}]
      /\ spc \in [Submitters -> {"idle", "push", "count"}]
      /\ stpc \in {"idle", "cancel", "wait", "close", "done"}
      /\ phase \in {"serve", "pool", "drain", "down"}
      /\ \A w \in Workers : wmsg[w] # NoMsg <=> wpc[w] \in Holding
  BY DEF Shape, PlacesFit, HoldersFit
<1>2. ASSUME NEW s \in Submitters, Submits(s) PROVE Staged' /\ Drained'
  <2>1. /\ UNCHANGED <<output, outClosed, workerVars, scaleVars, stopVars, procVars>>
        /\ \A t \in Submitters : t # s => spc'[t] = spc[t]
    BY <1>1, <1>2 DEF Submits, Submit, SubmitBegins, SubmitPushes, SubmitRejects, SubmitCounts
  <2>2. phase = "serve"
    BY <1>2 DEF Submits, Staged
  <2>3. stpc = "idle"
    BY <2>2 DEF Staged
  <2>4. Alive # {} /\ Alive' = Alive
    BY <2>1, <2>2 DEF Drained, Alive
  <2>5. QED
    BY <2>1, <2>2, <2>3, <2>4 DEF Staged, Drained
<1>3. ASSUME NEW w \in Workers, Worker(w) PROVE Staged' /\ Drained'
  <2>1. UNCHANGED <<outClosed, submitVars, stopVars, procVars>>
    BY <1>3 DEF Worker, WorkerTakes, WorkerSeesDone, WorkerCounts, WorkerProcesses, WorkerPanics, WorkerDelivers,
                WorkerGivesUp, WorkerExits, LeaveMessage
  <2>2. draining' # {} => ctxDone
    BY <1>3 DEF Worker, WorkerTakes, WorkerSeesDone, WorkerCounts, WorkerProcesses, WorkerPanics, WorkerDelivers,
                WorkerGivesUp, WorkerExits, LeaveMessage, Staged
  <2>3. lpc = "done" => output' = <<>>
    <3>1. ~outClosed \/ wpc[w] \notin Holding
      BY <1>1 DEF Staged, Drained
    <3>2. WorkerDelivers(w) \/ output' = output
      BY <1>3 DEF Worker, WorkerTakes, WorkerSeesDone, WorkerCounts, WorkerProcesses, WorkerPanics, WorkerGivesUp,
                  WorkerExits, LeaveMessage
    <3>3. QED
      BY <3>1, <3>2 DEF WorkerDelivers, Staged, Holding
  <2>4. Staged'
    BY <2>1, <2>2, <2>3 DEF Staged
  <2>5. Alive' = {} => phase # "serve" /\ input' = <<>>
    <3>1. CASE WorkerExits(w)
      <4>1. ctxDone /\ input = <<>> /\ input' = input
        BY <3>1 DEF WorkerExits, Staged
      <4>2. QED
        BY <4>1 DEF Staged
    <3>2. CASE ~WorkerExits(w)
      <4>1. wpc[w] # "off" /\ wpc'[w] # "off"
        BY <1>1, <1>3, <3>2 DEF Worker, WorkerTakes, WorkerSeesDone, WorkerCounts, WorkerProcesses, WorkerPanics,
                                WorkerDelivers, WorkerGivesUp, LeaveMessage
      <4>2. QED
        BY <4>1 DEF Alive
    <3>3. QED
      BY <3>1, <3>2
  <2>6. ASSUME stpc \in {"close", "done"} PROVE input' = <<>> /\ \A v \in Workers : wmsg'[v] = NoMsg
    <3>1. input = <<>> /\ \A v \in Workers : wmsg[v] = NoMsg
      BY <2>6 DEF Drained
    <3>2. wpc[w] \notin Holding
      BY <1>1, <3>1
    <3>3. (WorkerSeesDone(w) \/ WorkerExits(w))
      BY <1>3, <3>1, <3>2 DEF Worker, WorkerTakes, WorkerCounts, WorkerProcesses, WorkerPanics, WorkerDelivers,
                              WorkerGivesUp, Holding
    <3>4. QED
      BY <3>1, <3>3 DEF WorkerSeesDone, WorkerExits
  <2>7. QED
    BY <2>1, <2>4, <2>5, <2>6 DEF Drained
<1>4. CASE Scales
  <2>1. /\ UNCHANGED <<chanVars, wmsg, draining, submitVars, stopVars, procVars>>
        /\ wpc' = wpc \/ \E w \in Workers : wpc' = [wpc EXCEPT ![w] = "select"]
    BY <1>4 DEF Scales, Autoscaler, ScaleTick, ScaleReads, ScaleEnds, SpawnCounts, SpawnStarts, ScaleStops
  <2>2. Alive' = {} => Alive = {}
    BY <1>1, <2>1 DEF Alive
  <2>3. QED
    BY <2>1, <2>2 DEF Staged, Drained
<1>5. CASE Stops
  <2>1. UNCHANGED <<input, output, workerVars, submitVars, procVars>> /\ Alive' = Alive
    BY <1>5 DEF Stops, StopRuns, StopMarks, StopCancels, StopWaits, StopCloses, Alive
  <2>2. CASE StopWaits
    <3>1. Alive = {} /\ \A w \in Workers : wmsg[w] = NoMsg
      BY <1>1, <2>2 DEF StopWaits, Alive, Holding
    <3>2. QED
      BY <2>1, <2>2, <3>1 DEF StopWaits, Staged, Drained
  <2>3. CASE StopCancels \/ StopCloses \/ (phase = "pool" /\ StopMarks)
    BY <2>1, <2>3 DEF StopCancels, StopCloses, StopMarks, Staged, Drained
  <2>4. QED
    BY <1>5, <2>2, <2>3 DEF Stops, StopRuns
<1>6. CASE Mains
  BY <1>6 DEF Mains, MainStopsServer, MainAfterPool, MainAfterLoop, Staged, Drained, Alive
<1>7. CASE OutputLoop
  <2>1. /\ UNCHANGED <<input, outClosed, workerVars, submitVars, stopVars, phase>>
        /\ lpc # "done" /\ (lpc' = "done" => outClosed /\ output = <<>> /\ output' = output)
    BY <1>7 DEF OutputLoop, LoopReceives, LoopFallsBack, LoopEncodes, LoopSends, LoopEnds
  <2>2. QED
    BY <2>1 DEF Staged, Drained, Alive
<1>8. CASE UNCHANGED canonVars
  BY <1>8 DEF canonVars, Staged, Drained, Alive
<1>9. QED
  BY <1>2, <1>3, <1>4, <1>5, <1>6, <1>7, <1>8 DEF Steps

-----------------------------------------------------------------------------
(* Every message in one place                                              *)

LEMMA AppendDistinct ==
  ASSUME NEW S, NEW q \in Seq(S), NEW m \in S, Distinct(q), m \notin Elements(q)
  PROVE  Distinct(Append(q, m)) /\ Elements(Append(q, m)) = Elements(q) \cup {m}
<1> DEFINE r == Append(q, m)
<1>1. /\ r \in Seq(S) /\ Len(r) = Len(q) + 1 /\ Len(q) \in Nat
      /\ \A i \in 1 .. Len(q) : r[i] = q[i]
      /\ r[Len(q) + 1] = m
  BY AppendProperties, LenProperties
<1>2. DOMAIN r = 1 .. Len(r) /\ DOMAIN q = 1 .. Len(q)
  BY <1>1, LenProperties
<1> HIDE DEF r
<1>3. \A i \in 1 .. Len(q) : q[i] # m
  BY <1>2 DEF Elements
<1>4. \A i \in 1 .. Len(r) : i \in 1 .. Len(q) \/ i = Len(q) + 1
  BY <1>1
<1>5. Distinct(r)
  <2> SUFFICES ASSUME NEW i \in 1 .. Len(r), NEW j \in 1 .. Len(r), r[i] = r[j] PROVE i = j
    BY <1>2 DEF Distinct
  <2>1. CASE i \in 1 .. Len(q) /\ j \in 1 .. Len(q)
    BY <1>1, <1>2, <2>1 DEF Distinct
  <2>2. CASE i = Len(q) + 1 /\ j = Len(q) + 1
    BY <2>2
  <2>3. CASE i \in 1 .. Len(q) /\ j = Len(q) + 1
    BY <1>1, <1>3, <2>3
  <2>4. CASE i = Len(q) + 1 /\ j \in 1 .. Len(q)
    BY <1>1, <1>3, <2>4
  <2>5. QED
    BY <1>4, <2>1, <2>2, <2>3, <2>4
<1>6. Elements(r) = Elements(q) \cup {m}
  <2>1. ASSUME NEW x \in Elements(r) PROVE x \in Elements(q) \cup {m}
    <3>1. PICK i \in 1 .. Len(r) : x = r[i]
      BY <1>2 DEF Elements
    <3>2. QED
      BY <1>1, <1>2, <1>4, <3>1 DEF Elements
  <2>2. ASSUME NEW x \in Elements(q) PROVE x \in Elements(r)
    <3>1. PICK i \in 1 .. Len(q) : x = q[i]
      BY <1>2 DEF Elements
    <3>2. i \in 1 .. Len(r) /\ x = r[i]
      BY <1>1, <3>1
    <3>3. QED
      BY <1>2, <3>2 DEF Elements
  <2>3. m \in Elements(r)
    <3>1. Len(q) + 1 \in 1 .. Len(r)
      BY <1>1
    <3>2. QED
      BY <1>1, <1>2, <3>1 DEF Elements
  <2>4. QED
    BY <2>1, <2>2, <2>3
<1>7. QED
  BY <1>5, <1>6 DEF r

LEMMA TailDistinct ==
  ASSUME NEW S, NEW q \in Seq(S), q # <<>>, Distinct(q)
  PROVE  /\ Distinct(Tail(q))
         /\ Head(q) \in Elements(q) /\ Elements(Tail(q)) = Elements(q) \ {Head(q)}
<1> DEFINE t == Tail(q)
<1>1. /\ t \in Seq(S) /\ Len(t) = Len(q) - 1 /\ Len(q) \in Nat \ {0}
      /\ \A i \in 1 .. Len(t) : t[i] = q[i + 1]
  BY HeadTailProperties, LenProperties, EmptySeq
<1>2. DOMAIN t = 1 .. Len(t) /\ DOMAIN q = 1 .. Len(q) /\ Head(q) = q[1]
  BY <1>1, LenProperties
<1> HIDE DEF t
<1>3. /\ 1 \in 1 .. Len(q)
      /\ \A i \in 1 .. Len(t) : i + 1 \in 1 .. Len(q) /\ i + 1 # 1
      /\ \A i \in 1 .. Len(q) : i # 1 => i - 1 \in 1 .. Len(t) /\ (i - 1) + 1 = i
  BY <1>1
<1>4. Distinct(t)
  <2> SUFFICES ASSUME NEW i \in 1 .. Len(t), NEW j \in 1 .. Len(t), t[i] = t[j] PROVE i = j
    BY <1>2 DEF Distinct
  <2>1. i + 1 = j + 1
    BY <1>1, <1>2, <1>3 DEF Distinct
  <2>2. QED
    BY <1>1, <2>1
<1>5. ASSUME NEW x \in Elements(t) PROVE x \in Elements(q) \ {Head(q)}
  <2>1. PICK i \in 1 .. Len(t) : x = t[i]
    BY <1>2 DEF Elements
  <2>2. i + 1 \in 1 .. Len(q) /\ x = q[i + 1] /\ i + 1 # 1
    BY <1>1, <1>3, <2>1
  <2>3. QED
    BY <1>2, <1>3, <2>2 DEF Elements, Distinct
<1>6. ASSUME NEW x \in Elements(q) \ {Head(q)} PROVE x \in Elements(t)
  <2>1. PICK i \in 1 .. Len(q) : x = q[i] /\ i # 1
    BY <1>2 DEF Elements
  <2>2. i - 1 \in 1 .. Len(t) /\ x = t[i - 1]
    BY <1>1, <1>3, <2>1
  <2>3. QED
    BY <1>2, <2>2 DEF Elements
<1>7. Head(q) \in Elements(q)
  BY <1>2, <1>3 DEF Elements
<1>8. QED
  BY <1>4, <1>5, <1>6, <1>7 DEF t

Partition(n, P, Q, W, O, L, E) ==
  /\ n = P \cup Q \cup W \cup O \cup L \cup E
  /\ P \cap (Q \cup W \cup O \cup L \cup E) = {}
  /\ Q \cap (W \cup O \cup L \cup E) = {}
  /\ W \cap (O \cup L \cup E) = {}
  /\ O \cap (L \cup E) = {}
  /\ L \cap E = {}

LEMMA OnePlaceMeans ==
  OnePlace <=> Partition(1 .. sent, Pushed, Elements(input), Worked, Elements(output), Looped, Ended)
BY DEF OnePlace, Partition

(* A message goes from one place to the next, or a new one comes.          *)
LEMMA Moved ==
  ASSUME NEW n, NEW P, NEW Q, NEW W, NEW O, NEW L, NEW E, NEW m, Partition(n, P, Q, W, O, L, E)
  PROVE  /\ m \notin n => /\ Partition(n \cup {m}, P \cup {m}, Q, W, O, L, E)
                         /\ Partition(n \cup {m}, P, Q, W, O, L, E \cup {m})
         /\ m \in P => /\ Partition(n, P \ {m}, Q \cup {m}, W, O, L, E)
                      /\ Partition(n, P \ {m}, Q, W, O, L, E \cup {m})
         /\ m \in Q => Partition(n, P, Q \ {m}, W \cup {m}, O, L, E)
         /\ m \in W => /\ Partition(n, P, Q, W \ {m}, O \cup {m}, L, E)
                      /\ Partition(n, P, Q, W \ {m}, O, L, E \cup {m})
         /\ m \in O => Partition(n, P, Q, W, O \ {m}, L \cup {m}, E)
         /\ m \in L => Partition(n, P, Q, W, O, L \ {m}, E \cup {m})
<1>1. m \notin n => /\ Partition(n \cup {m}, P \cup {m}, Q, W, O, L, E)
                   /\ Partition(n \cup {m}, P, Q, W, O, L, E \cup {m})
  BY DEF Partition
<1>2. m \in P => /\ Partition(n, P \ {m}, Q \cup {m}, W, O, L, E)
                /\ Partition(n, P \ {m}, Q, W, O, L, E \cup {m})
  BY DEF Partition
<1>3. m \in Q => Partition(n, P, Q \ {m}, W \cup {m}, O, L, E)
  BY DEF Partition
<1>4. m \in W => /\ Partition(n, P, Q, W \ {m}, O \cup {m}, L, E)
                /\ Partition(n, P, Q, W \ {m}, O, L, E \cup {m})
  BY DEF Partition
<1>5. m \in O => Partition(n, P, Q, W, O \ {m}, L \cup {m}, E)
  BY DEF Partition
<1>6. m \in L => Partition(n, P, Q, W, O, L \ {m}, E \cup {m})
  BY DEF Partition
<1>7. QED
  BY <1>1, <1>2, <1>3, <1>4, <1>5, <1>6

LEMMA PlacesInit == CanonInit => NoTwins /\ OnePlace
<1> SUFFICES ASSUME CanonInit PROVE NoTwins /\ OnePlace
  OBVIOUS
<1>1. /\ input = <<>> /\ output = <<>> /\ wmsg = [w \in Workers |-> NoMsg] /\ lmsg = NoMsg
      /\ spc = [s \in Submitters |-> "idle"] /\ sent = 0 /\ handed = {} /\ rejected = {} /\ timedOut = {}
      /\ panicked = {}
  BY DEF CanonInit, PoolInit
<1>2. Elements(<<>>) = {} /\ Distinct(<<>>) /\ 1 .. 0 = {}
  BY DEF Elements, Distinct
<1>3. Pushers = {} /\ Pushed = {} /\ Worked = {} /\ Looped = {} /\ Ended = {}
  BY <1>1 DEF Pushers, Pushed, Worked, Looped, Ended
<1>4. QED
  BY <1>1, <1>2, <1>3 DEF NoTwins, OnePlace

LEMMA PlacesTyped ==
  ASSUME Shape
  PROVE  /\ spc \in [Submitters -> {"idle", "push", "count"}] /\ smsg \in [Submitters -> Msgs \cup {NoMsg}]
         /\ wpc \in [Workers -> {"off", "select", "count", "process", "deliver"}]
         /\ wmsg \in [Workers -> Msgs \cup {NoMsg}]
         /\ input \in Seq(Msgs) /\ output \in Seq(Msgs)
         /\ \A s \in Submitters : smsg[s] # NoMsg <=> spc[s] \in {"push", "count"}
         /\ \A s \in Submitters : spc[s] \in {"push", "count"} => smsg[s] \in Msgs
         /\ \A w \in Workers : wmsg[w] # NoMsg <=> wpc[w] \in Holding
         /\ \A w \in Workers : wpc[w] \in Holding => wmsg[w] \in Msgs
         /\ lmsg # NoMsg <=> lpc \in {"encode", "send"}
BY MessageNumbers DEF Shape, PlacesFit, HoldersFit, ChannelsFit

LEMMA SubmitPlaces ==
  ASSUME Shape, NoTwins, OnePlace, NEW s \in Submitters, Submits(s)
  PROVE  NoTwins' /\ OnePlace'
<1> USE DEF chanVars, workerVars, submitVars, scaleVars, stopVars, countVars, procVars
<1>1. /\ UNCHANGED <<output, wmsg, lmsg, handed, timedOut, panicked>>
      /\ Submit(s)
  BY DEF Submits, Submit, SubmitBegins, SubmitPushes, SubmitRejects, SubmitCounts
<1>2. /\ spc \in [Submitters -> {"idle", "push", "count"}] /\ smsg \in [Submitters -> Msgs \cup {NoMsg}]
      /\ input \in Seq(Msgs)
      /\ \A t \in Submitters : spc[t] \in {"push", "count"} => smsg[t] \in Msgs
  BY PlacesTyped
<1>3. Partition(1 .. sent, Pushed, Elements(input), Worked, Elements(output), Looped, Ended)
  BY OnePlaceMeans
<1>4. Worked' = Worked /\ Looped' = Looped /\ Elements(output') = Elements(output) /\ Distinct(output')
      /\ \A v, w \in Workers : wmsg'[v] = wmsg'[w] /\ wmsg'[v] # NoMsg => v = w
  BY <1>1 DEF Worked, Looped, NoTwins
<1>5. SUFFICES /\ Partition(1 .. sent', Pushed', Elements(input'), Worked, Elements(output), Looped, Ended')
               /\ \A t, u \in Pushers' : smsg'[t] = smsg'[u] => t = u
               /\ Distinct(input')
  BY <1>4 DEF Partition, OnePlace, NoTwins, Elements, Distinct
<1>6. CASE SubmitBegins(s)
  <2> DEFINE m == sent + 1
  <2>1. /\ sent' = m /\ input' = input /\ sent \in Nat /\ m \notin 1 .. sent /\ 1 .. m = (1 .. sent) \cup {m}
    BY <1>6, MessageNumbers DEF SubmitBegins
  <2> HIDE DEF m
  <2>2. /\ Partition((1 .. sent) \cup {m}, Pushed \cup {m}, Elements(input), Worked, Elements(output), Looped, Ended)
        /\ Partition((1 .. sent) \cup {m}, Pushed, Elements(input), Worked, Elements(output), Looped, Ended \cup {m})
    BY <1>3, <2>1, Moved
  <2>3. CASE stopped
    <3>1. Pushers' = Pushers /\ Pushed' = Pushed /\ smsg' = smsg /\ Ended' = Ended \cup {m}
      BY <1>1, <1>6, <2>1, <2>3 DEF SubmitBegins, Pushers, Pushed, Ended
    <3>2. QED
      BY <2>1, <2>2, <3>1 DEF NoTwins
  <2>4. CASE ~stopped
    <3>1. /\ spc[s] = "idle" /\ spc' = [spc EXCEPT ![s] = "push"] /\ smsg' = [smsg EXCEPT ![s] = m]
          /\ Ended' = Ended
      BY <1>1, <1>6, <2>1, <2>4 DEF SubmitBegins, Ended
    <3>2. /\ Pushers' = Pushers \cup {s} /\ s \notin Pushers /\ smsg'[s] = m
          /\ \A t \in Pushers : smsg'[t] = smsg[t]
      BY <1>2, <3>1 DEF Pushers
    <3>3. Pushed' = Pushed \cup {m}
      BY <3>2 DEF Pushed
    <3>4. \A t \in Pushers : smsg[t] # m
      BY <1>3, <2>1 DEF Partition, Pushed
    <3>5. \A t, u \in Pushers' : smsg'[t] = smsg'[u] => t = u
      BY <3>2, <3>4 DEF NoTwins
    <3>6. Partition(1 .. sent', Pushed', Elements(input'), Worked, Elements(output), Looped, Ended')
      BY <2>1, <2>2, <3>1, <3>3
    <3>7. QED
      BY <2>1, <3>5, <3>6 DEF NoTwins
  <2>5. QED
    BY <2>3, <2>4
<1>7. ASSUME spc[s] = "push", spc'[s] # "push", smsg' = smsg \/ smsg' = [smsg EXCEPT ![s] = NoMsg],
             \A t \in Submitters : t # s => spc'[t] = spc[t]
      PROVE  /\ smsg[s] \in Pushed /\ Pushed' = Pushed \ {smsg[s]}
             /\ \A t, u \in Pushers' : smsg'[t] = smsg'[u] => t = u
  <2>1. Pushers' = Pushers \ {s} /\ s \in Pushers /\ \A t \in Pushers \ {s} : smsg'[t] = smsg[t]
    BY <1>2, <1>7 DEF Pushers
  <2>2. \A t \in Pushers \ {s} : smsg[t] # smsg[s]
    BY <2>1 DEF NoTwins
  <2>3. QED
    BY <2>1, <2>2 DEF Pushed, NoTwins
<1>8. CASE SubmitPushes(s)
  <2>1. /\ spc[s] = "push" /\ spc' = [spc EXCEPT ![s] = "count"] /\ smsg' = smsg /\ sent' = sent
        /\ input' = Append(input, smsg[s]) /\ Ended' = Ended
    BY <1>1, <1>8 DEF SubmitPushes, Ended
  <2>2. /\ smsg[s] \in Pushed /\ Pushed' = Pushed \ {smsg[s]}
        /\ \A t, u \in Pushers' : smsg'[t] = smsg'[u] => t = u
    BY <1>2, <1>7, <2>1
  <2>3. smsg[s] \in Msgs /\ smsg[s] \notin Elements(input) /\ Distinct(input)
    BY <1>2, <1>3, <2>1, <2>2 DEF Partition, NoTwins
  <2>4. Distinct(input') /\ Elements(input') = Elements(input) \cup {smsg[s]}
    BY <1>2, <2>1, <2>3, AppendDistinct
  <2>5. Partition(1 .. sent, Pushed \ {smsg[s]}, Elements(input) \cup {smsg[s]}, Worked, Elements(output), Looped, Ended)
    BY <1>3, <2>2, Moved
  <2>6. QED
    BY <2>1, <2>2, <2>4, <2>5
<1>9. CASE SubmitRejects(s)
  <2>1. /\ spc[s] = "push" /\ spc' = [spc EXCEPT ![s] = "idle"] /\ smsg' = [smsg EXCEPT ![s] = NoMsg]
        /\ sent' = sent /\ input' = input /\ Ended' = Ended \cup {smsg[s]}
    BY <1>1, <1>9 DEF SubmitRejects, Ended
  <2>2. /\ smsg[s] \in Pushed /\ Pushed' = Pushed \ {smsg[s]}
        /\ \A t, u \in Pushers' : smsg'[t] = smsg'[u] => t = u
    BY <1>2, <1>7, <2>1
  <2>3. QED
    BY <1>3, <2>1, <2>2, Moved DEF NoTwins
<1>10. CASE SubmitCounts(s)
  <2>1. /\ spc[s] = "count" /\ spc' = [spc EXCEPT ![s] = "idle"] /\ smsg' = [smsg EXCEPT ![s] = NoMsg]
        /\ sent' = sent /\ input' = input /\ Ended' = Ended
    BY <1>1, <1>10 DEF SubmitCounts, Ended
  <2>2. Pushers' = Pushers /\ \A t \in Pushers : smsg'[t] = smsg[t]
    BY <1>2, <2>1 DEF Pushers
  <2>3. Pushed' = Pushed
    BY <2>2 DEF Pushed
  <2>4. QED
    BY <1>3, <2>1, <2>2, <2>3 DEF NoTwins
<1>11. QED
  BY <1>1, <1>6, <1>8, <1>9, <1>10 DEF Submit

LEMMA WorkerPlaces ==
  ASSUME Shape, NoTwins, OnePlace, NEW w \in Workers, Worker(w)
  PROVE  NoTwins' /\ OnePlace'
<1> USE DEF chanVars, workerVars, submitVars, scaleVars, stopVars, countVars, procVars, LeaveMessage
<1>1. /\ UNCHANGED <<spc, smsg, sent, lmsg, handed, rejected>>
      /\ \/ WorkerTakes(w) \/ WorkerSeesDone(w) \/ WorkerCounts(w) \/ WorkerProcesses(w)
         \/ (wpc[w] = "deliver" /\ WorkerPanics(w)) \/ WorkerDelivers(w) \/ WorkerGivesUp(w) \/ WorkerExits(w)
  BY DEF Worker, WorkerTakes, WorkerSeesDone, WorkerCounts, WorkerProcesses, WorkerPanics,
         WorkerDelivers, WorkerGivesUp, WorkerExits
<1>2. /\ wpc \in [Workers -> {"off", "select", "count", "process", "deliver"}]
      /\ wmsg \in [Workers -> Msgs \cup {NoMsg}]
      /\ input \in Seq(Msgs) /\ output \in Seq(Msgs) /\ NoMsg \notin Msgs
      /\ \A v \in Workers : wmsg[v] # NoMsg <=> wpc[v] \in Holding
      /\ \A v \in Workers : wpc[v] \in Holding => wmsg[v] \in Msgs
  BY PlacesTyped, MessageNumbers
<1>3. Partition(1 .. sent, Pushed, Elements(input), Worked, Elements(output), Looped, Ended)
  BY OnePlaceMeans
<1>4. /\ Pushers' = Pushers /\ Pushed' = Pushed /\ Looped' = Looped /\ sent' = sent
      /\ \A s, t \in Pushers' : smsg'[s] = smsg'[t] => s = t
  BY <1>1 DEF Pushers, Pushed, Looped, NoTwins
<1> DEFINE Partitioned == Partition(1 .. sent, Pushed, Elements(input'), Worked', Elements(output'), Looped, Ended')
           Single == \A u, v \in Workers : wmsg'[u] = wmsg'[v] /\ wmsg'[u] # NoMsg => u = v
<1>5. SUFFICES Partitioned /\ Single /\ Distinct(input') /\ Distinct(output')
  BY <1>4 DEF Partition, OnePlace, NoTwins, Elements, Distinct
<1>6. Distinct(input) /\ Distinct(output) /\ \A u, v \in Workers : wmsg[u] = wmsg[v] /\ wmsg[u] # NoMsg => u = v
  BY DEF NoTwins
<1>7. CASE UNCHANGED <<wmsg, input, output, timedOut, panicked>>
  <2>1. Worked' = Worked /\ Ended' = Ended
    BY <1>1, <1>7 DEF Worked, Ended
  <2>2. QED
    BY <1>3, <1>6, <1>7, <2>1
<1>8. CASE WorkerTakes(w)
  <2> DEFINE m == Head(input)
  <2>1. /\ wpc[w] = "select" /\ input # <<>> /\ wmsg' = [wmsg EXCEPT ![w] = m] /\ input' = Tail(input)
        /\ output' = output /\ Ended' = Ended
    BY <1>1, <1>8 DEF WorkerTakes, Ended
  <2>2. /\ m \in Elements(input) /\ Elements(input') = Elements(input) \ {m} /\ Distinct(input')
        /\ m \in Msgs
    BY <1>2, <1>6, <2>1, TailDistinct, HeadTailProperties
  <2>3. Partition(1 .. sent, Pushed, Elements(input) \ {m}, Worked \cup {m}, Elements(output), Looped, Ended)
    BY <1>3, <2>2, Moved
  <2> HIDE DEF m
  <2>4. wmsg[w] = NoMsg /\ wmsg'[w] = m /\ \A v \in Workers \ {w} : wmsg'[v] = wmsg[v]
    BY <1>2, <2>1 DEF Holding
  <2>5. Worked' = Worked \cup {m}
    BY <1>2, <2>2, <2>4 DEF Worked
  <2>6. m \notin Worked
    BY <1>3, <2>2 DEF Partition
  <2>7. Single
    BY <1>2, <1>6, <2>2, <2>4, <2>6 DEF Worked
  <2>8. QED
    BY <1>6, <2>1, <2>2, <2>3, <2>5, <2>7
<1>9. ASSUME wpc[w] \in Holding, wmsg' = [wmsg EXCEPT ![w] = NoMsg]
      PROVE  wmsg[w] \in Worked /\ Worked' = Worked \ {wmsg[w]} /\ Single
  <2>1. /\ wmsg[w] \in Msgs /\ wmsg[w] # NoMsg /\ wmsg'[w] = NoMsg
        /\ \A v \in Workers \ {w} : wmsg'[v] = wmsg[v] /\ wmsg[v] # wmsg[w]
    BY <1>2, <1>6, <1>9
  <2>2. QED
    BY <1>6, <2>1 DEF Worked
<1>10. CASE WorkerDelivers(w)
  <2>1. /\ wpc[w] \in Holding /\ wmsg' = [wmsg EXCEPT ![w] = NoMsg] /\ input' = input
        /\ output' = Append(output, wmsg[w]) /\ Ended' = Ended
    BY <1>1, <1>10 DEF WorkerDelivers, Ended, Holding
  <2>2. wmsg[w] \in Worked /\ Worked' = Worked \ {wmsg[w]} /\ Single /\ wmsg[w] \in Msgs
    BY <1>2, <1>9, <2>1
  <2>3. wmsg[w] \notin Elements(output)
    BY <1>3, <2>2 DEF Partition
  <2>4. Distinct(output') /\ Elements(output') = Elements(output) \cup {wmsg[w]}
    BY <1>2, <1>6, <2>1, <2>2, <2>3, AppendDistinct
  <2>5. Partition(1 .. sent, Pushed, Elements(input), Worked \ {wmsg[w]}, Elements(output) \cup {wmsg[w]}, Looped, Ended)
    BY <1>3, <2>2, Moved
  <2>6. QED
    BY <1>6, <2>1, <2>2, <2>4, <2>5
<1>11. CASE WorkerGivesUp(w) \/ (wpc[w] = "deliver" /\ WorkerPanics(w))
  <2>1. /\ wpc[w] \in Holding /\ wmsg' = [wmsg EXCEPT ![w] = NoMsg] /\ input' = input
        /\ output' = output /\ Ended' = Ended \cup {wmsg[w]}
    BY <1>1, <1>11 DEF WorkerGivesUp, WorkerPanics, Ended, Holding
  <2>2. wmsg[w] \in Worked /\ Worked' = Worked \ {wmsg[w]} /\ Single
    BY <1>9, <2>1
  <2>3. Partition(1 .. sent, Pushed, Elements(input), Worked \ {wmsg[w]}, Elements(output), Looped, Ended \cup {wmsg[w]})
    BY <1>3, <2>2, Moved
  <2>4. QED
    BY <1>6, <2>1, <2>2, <2>3
<1>12. CASE WorkerSeesDone(w) \/ WorkerCounts(w) \/ WorkerProcesses(w) \/ WorkerExits(w)
  BY <1>7, <1>12 DEF WorkerSeesDone, WorkerCounts, WorkerProcesses, WorkerExits
<1>13. QED
  BY <1>1, <1>8, <1>10, <1>11, <1>12

LEMMA LoopPlaces ==
  ASSUME Shape, NoTwins, OnePlace, OutputLoop
  PROVE  NoTwins' /\ OnePlace'
<1> USE DEF chanVars, workerVars, submitVars, scaleVars, stopVars, countVars, poolVars
<1>1. UNCHANGED <<input, wpc, wmsg, spc, smsg, sent, rejected, timedOut, panicked>>
  BY DEF OutputLoop, LoopReceives, LoopFallsBack, LoopEncodes, LoopSends, LoopEnds
<1>2. output \in Seq(Msgs) /\ Distinct(output) /\ NoMsg \notin Msgs /\ (lmsg # NoMsg <=> lpc \in {"encode", "send"})
  BY PlacesTyped, MessageNumbers DEF NoTwins
<1>3. Partition(1 .. sent, Pushed, Elements(input), Worked, Elements(output), Looped, Ended)
  BY OnePlaceMeans
<1>4. /\ Pushers' = Pushers /\ Pushed' = Pushed /\ Worked' = Worked
      /\ Elements(input') = Elements(input) /\ Distinct(input')
      /\ \A s, t \in Pushers' : smsg'[s] = smsg'[t] => s = t
      /\ \A v, w \in Workers : wmsg'[v] = wmsg'[w] /\ wmsg'[v] # NoMsg => v = w
  BY <1>1 DEF Pushers, Pushed, Worked, NoTwins
<1>5. SUFFICES /\ Partition(1 .. sent, Pushed, Elements(input), Worked, Elements(output'), Looped', Ended')
               /\ Distinct(output')
  BY <1>1, <1>4 DEF Partition, OnePlace, NoTwins, Elements, Distinct
<1>6. CASE LoopReceives \/ LoopFallsBack
  <2>1. /\ lpc = "receive" /\ output # <<>> /\ lmsg' = Head(output) /\ output' = Tail(output)
        /\ handed' = handed
    BY <1>6 DEF LoopReceives, LoopFallsBack
  <2>2. /\ Head(output) \in Elements(output) /\ Elements(output') = Elements(output) \ {Head(output)}
        /\ Distinct(output') /\ Head(output) \in Msgs
    BY <1>2, <2>1, TailDistinct, HeadTailProperties
  <2>3. Looped = {} /\ Looped' = {Head(output)} /\ Ended' = Ended
    BY <1>1, <1>2, <2>1, <2>2 DEF Looped, Ended
  <2>4. Partition(1 .. sent, Pushed, Elements(input), Worked, Elements(output) \ {Head(output)}, Looped \cup {Head(output)}, Ended)
    BY <1>3, <2>2, Moved
  <2>5. QED
    BY <2>2, <2>3, <2>4
<1>7. CASE LoopSends
  <2>1. lpc = "send" /\ output' = output /\ lmsg' = NoMsg /\ handed' = handed \cup {lmsg}
    BY <1>7 DEF LoopSends
  <2>2. Looped = {lmsg} /\ Looped' = {} /\ Ended' = Ended \cup {lmsg}
    BY <1>1, <1>2, <2>1 DEF Looped, Ended
  <2>3. Partition(1 .. sent, Pushed, Elements(input), Worked, Elements(output), Looped \ {lmsg}, Ended \cup {lmsg})
    BY <1>3, <2>2, Moved
  <2>4. QED
    BY <1>2, <2>1, <2>2, <2>3
<1>8. CASE LoopEncodes \/ LoopEnds
  <2>1. output' = output /\ lmsg' = lmsg /\ handed' = handed
    BY <1>8 DEF LoopEncodes, LoopEnds
  <2>2. Looped' = Looped /\ Ended' = Ended
    BY <1>1, <2>1 DEF Looped, Ended
  <2>3. QED
    BY <1>2, <1>3, <2>1, <2>2
<1>9. QED
  BY <1>6, <1>7, <1>8 DEF OutputLoop

LEMMA PlacesStep == ASSUME Shape, NoTwins, OnePlace, Steps PROVE NoTwins' /\ OnePlace'
<1>1. CASE Scales \/ Stops \/ Mains \/ UNCHANGED canonVars
  <2>1. UNCHANGED <<input, output, wmsg, spc, smsg, sent, lmsg, handed, rejected, timedOut, panicked>>
    BY <1>1 DEF Scales, Autoscaler, ScaleTick, ScaleReads, ScaleEnds, SpawnCounts, SpawnStarts, ScaleStops,
                Stops, StopRuns, StopMarks, StopCancels, StopWaits, StopCloses, Mains, MainStopsServer,
                MainAfterPool, MainAfterLoop, canonVars, poolVars, procVars, chanVars, workerVars, submitVars,
                countVars
  <2>2. /\ Pushers' = Pushers /\ Pushed' = Pushed /\ Worked' = Worked /\ Looped' = Looped /\ Ended' = Ended
        /\ Elements(input') = Elements(input) /\ Elements(output') = Elements(output)
    BY <2>1 DEF Pushers, Pushed, Worked, Looped, Ended
  <2>3. QED
    BY <2>1, <2>2 DEF NoTwins, OnePlace, Elements, Distinct
<1>2. QED
  BY <1>1, SubmitPlaces, WorkerPlaces, LoopPlaces DEF Steps

-----------------------------------------------------------------------------
(* Every event with one message                                            *)

EventsFit == EventsTypeOK /\ wire \in [Msgs -> Contents]

Owned == EventsFit /\ EventsAreOwned /\ LiveWhere /\ EnoughEvents /\ WiredIsOwn

LEMMA TypesOfKinds ==
  ASSUME NEW k \in Kinds, k # "malformed"
  PROVE  TypeOf[k] \in {"TRADE", "QUOTE", "BOOK_SNAPSHOT"}
BY DEF Kinds, TypeOf

LEMMA BlankFits == Blank \in Contents
BY DEF Blank, Contents

LEMMA ParsedFits ==
  ASSUME NEW m \in Msgs, kind[m] \in Kinds, kind[m] # "malformed"
  PROVE  Parsed(Blank, m) \in Contents /\ IsOwn(Parsed(Blank, m), m)
<1>1. TypeOf[kind[m]] \in {"TRADE", "QUOTE", "BOOK_SNAPSHOT"}
  BY TypesOfKinds
<1>2. QED
  BY <1>1 DEF Parsed, Blank, Contents, EventTypes, IsOwn

LEMMA FallbackFits ==
  ASSUME NEW m \in Msgs
  PROVE  /\ [Blank EXCEPT !.main = m, !.type = "TRADE"] \in Contents
         /\ IsOwn([Blank EXCEPT !.main = m, !.type = "TRADE"], m)
BY DEF Blank, Contents, EventTypes, IsOwn

LEMMA EncodedFits ==
  ASSUME NEW c \in Contents, NEW m, IsOwn(c, m)
  PROVE  Encoded(c) \in Contents /\ IsOwn(Encoded(c), m)
BY DEF Encoded, Contents, EventTypes, IsOwn

LEMMA StillEnough ==
  ASSUME NEW A, NEW B, NEW C, NEW D, NEW e, NEW m,
         IsFiniteSet(A), IsFiniteSet(B), IsFiniteSet(D), Cardinality(A) <= Cardinality(B),
         \/ C \subseteq A /\ B \subseteq D
         \/ C = A \cup {e} /\ D = B \cup {m} /\ m \notin B
         \/ C = A \ {e} /\ e \in A /\ D = B \ {m}
  PROVE  Cardinality(C) <= Cardinality(D)
<1>1. Cardinality(A) \in Nat /\ Cardinality(B) \in Nat /\ Cardinality(D) \in Nat
  BY FS_CardinalityType
<1>2. CASE C \subseteq A /\ B \subseteq D
  <2>1. Cardinality(C) <= Cardinality(A) /\ Cardinality(B) <= Cardinality(D) /\ Cardinality(C) \in Nat
    BY <1>2, FS_Subset, FS_CardinalityType
  <2>2. QED
    BY <1>1, <2>1
<1>3. CASE C = A \cup {e} /\ D = B \cup {m} /\ m \notin B
  <2>1. Cardinality(D) = Cardinality(B) + 1
    BY <1>3, FS_AddElement
  <2>2. Cardinality(C) = Cardinality(A) \/ Cardinality(C) = Cardinality(A) + 1
    BY <1>3, FS_AddElement
  <2>3. QED
    BY <1>1, <2>1, <2>2
<1>4. CASE C = A \ {e} /\ e \in A /\ D = B \ {m}
  <2>1. Cardinality(C) = Cardinality(A) - 1
    BY <1>4, FS_RemoveElement
  <2>2. Cardinality(D) = Cardinality(B) \/ Cardinality(D) = Cardinality(B) - 1
    BY <1>4, FS_RemoveElement
  <2>3. QED
    BY <1>1, <2>1, <2>2
<1>5. QED
  BY <1>2, <1>3, <1>4

LEMMA EventsFinite ==
  ASSUME Shape, EventsFit
  PROVE  /\ IsFiniteSet(free \cup InUse) /\ free \cup InUse \subseteq Events
         /\ IsFiniteSet(Wired \cup Live) /\ Wired \cup Live \subseteq Msgs
         /\ IsFiniteSet(Msgs) /\ Cardinality(Msgs) = MaxMsgs
         /\ IsFiniteSet(Events) /\ Cardinality(Events) = MaxMsgs + 1
<1>1. /\ IsFiniteSet(Msgs) /\ Cardinality(Msgs) = MaxMsgs
      /\ IsFiniteSet(Events) /\ Cardinality(Events) = MaxMsgs + 1
  BY MaxMsgsAssumption, FS_Interval DEF Msgs, Events
<1>2. free \cup InUse \subseteq Events
  BY DEF EventsFit, EventsTypeOK, InUse
<1>3. Wired \cup Live \subseteq Msgs
  <2>1. handed \subseteq Msgs /\ (lpc = "send" => lmsg \in Msgs)
    BY PlacesTyped DEF Shape, HistoriesFit, PlacesFit
  <2>2. QED
    BY <2>1 DEF Wired, Live
<1>4. QED
  BY <1>1, <1>2, <1>3, FS_Subset

(* An event that can be had is blank, and no message has it.               *)
LEMMA AcquiredIsBlank ==
  ASSUME Shape, EventsFit, EventsAreOwned, EnoughEvents, NEW e \in Acquirable
  PROVE  e \in Events /\ e \notin InUse /\ e # NoEvent /\ Found(e) = Blank
<1>1. \E x \in Events : x \notin free \cup InUse
  <2> SUFFICES ASSUME Events \subseteq free \cup InUse PROVE FALSE
    OBVIOUS
  <2>1. free \cup InUse = Events
    BY EventsFinite
  <2>2. MaxMsgs + 1 <= Cardinality(Wired \cup Live)
    BY <2>1, EventsFinite DEF EnoughEvents
  <2>3. Cardinality(Wired \cup Live) <= MaxMsgs /\ Cardinality(Wired \cup Live) \in Nat
    BY EventsFinite, FS_Subset, FS_CardinalityType
  <2>4. QED
    BY <2>2, <2>3, MaxMsgsAssumption
<1>2. Allocated \in Events /\ Allocated \notin free \cup InUse
  BY <1>1 DEF Allocated
<1>3. \A x \in free : x \in Events /\ x \notin InUse /\ content[x] = Blank
  BY DEF EventsFit, EventsTypeOK, EventsAreOwned, InUse, Live
<1>4. \A x \in Events : x # NoEvent
  BY MaxMsgsAssumption DEF Events, NoEvent
<1>5. QED
  BY <1>2, <1>3, <1>4 DEF Acquirable, Found

(* A message gets an event.                                                *)
LEMMA GetsEvent ==
  ASSUME Shape, EventsFit, EventsAreOwned, EnoughEvents, NEW e \in Acquirable, NEW m \in Msgs, NEW c \in Contents,
         IsOwn(c, m), m \notin Live, m \notin Wired,
         free' = free \ {e}, content' = [content EXCEPT ![e] = c], canon' = [canon EXCEPT ![m] = e],
         kind' = kind, wire' = wire, Wired' = Wired
  PROVE  /\ EventsFit' /\ EventsAreOwned' /\ EnoughEvents' /\ Live' = Live \cup {m}
<1>1. e \in Events /\ e \notin InUse /\ e # NoEvent
  BY AcquiredIsBlank
<1>2. /\ free \in SUBSET Events /\ content \in [Events -> Contents]
      /\ canon \in [Msgs -> Events \cup {NoEvent}] /\ wire \in [Msgs -> Contents] /\ kind \in Inputs
  BY DEF EventsFit, EventsTypeOK
<1>3. EventsFit'
  BY <1>1, <1>2 DEF EventsFit, EventsTypeOK
<1>4. canon'[m] = e /\ \A n \in Msgs : n # m => canon'[n] = canon[n]
  BY <1>2
<1>5. Live' = Live \cup {m}
  BY <1>1, <1>4 DEF Live
<1>6. \A n \in Live : canon[n] # e /\ canon[n] \in Events /\ n # m /\ n \in Msgs
  BY <1>1, <1>2 DEF InUse, Live
<1>7. content'[e] = c /\ \A x \in Events : x # e => content'[x] = content[x]
  BY <1>1, <1>2
<1>8. EventsAreOwned'
  <2>1. \A n \in Live' : canon'[n] \notin free' /\ IsOwn(content'[canon'[n]], n)
    <3> SUFFICES ASSUME NEW n \in Live' PROVE canon'[n] \notin free' /\ IsOwn(content'[canon'[n]], n)
      OBVIOUS
    <3>1. CASE n = m
      BY <1>4, <1>7, <3>1
    <3>2. CASE n # m
      <4>1. n \in Live /\ canon'[n] = canon[n] /\ canon[n] # e /\ canon[n] \in Events
        BY <1>4, <1>5, <1>6, <3>2
      <4>2. canon[n] \notin free /\ IsOwn(content[canon[n]], n)
        BY <4>1 DEF EventsAreOwned
      <4>3. QED
        BY <1>7, <4>1, <4>2
    <3>3. QED
      BY <3>1, <3>2
  <2>2. \A n, o \in Live' : canon'[n] = canon'[o] => n = o
    BY <1>4, <1>5, <1>6 DEF EventsAreOwned
  <2>3. \A x \in free' : content'[x] = Blank
    BY <1>2, <1>7 DEF EventsAreOwned
  <2>4. QED
    BY <2>1, <2>2, <2>3 DEF EventsAreOwned
<1>9. EnoughEvents'
  <2>1. canon[m] = NoEvent
    BY DEF Live
  <2>2. InUse' = InUse \cup {e}
    BY <1>1, <1>4, <2>1 DEF InUse
  <2>3. free' \cup InUse' = (free \cup InUse) \cup {e} /\ Wired' \cup Live' = (Wired \cup Live) \cup {m}
    BY <1>5, <2>2
  <2>4. m \notin Wired \cup Live /\ IsFiniteSet((Wired \cup Live) \cup {m})
    BY EventsFinite, FS_AddElement
  <2>5. /\ IsFiniteSet(free \cup InUse) /\ IsFiniteSet(Wired \cup Live)
        /\ Cardinality(free \cup InUse) <= Cardinality(Wired \cup Live)
    BY EventsFinite DEF EnoughEvents
  <2>6. Cardinality((free \cup InUse) \cup {e}) <= Cardinality((Wired \cup Live) \cup {m})
    BY <2>4, <2>5, StillEnough
  <2>7. QED
    BY <2>3, <2>6 DEF EnoughEvents
<1>10. QED
  BY <1>3, <1>5, <1>8, <1>9

(* The event of a message is gone, or back in the pool.                    *)
LEMMA LosesEvent ==
  ASSUME Shape, EventsFit, EventsAreOwned, NEW m \in Live,
         canon' = [canon EXCEPT ![m] = NoEvent], content' = [content EXCEPT ![canon[m]] = Blank],
         free' = free \/ free' = free \cup {canon[m]}, kind' = kind, wire' \in [Msgs -> Contents]
  PROVE  /\ EventsFit' /\ EventsAreOwned' /\ Live' = Live \ {m}
         /\ InUse' = InUse \ {canon[m]} /\ canon[m] \in InUse /\ canon[m] \notin free
<1>1. /\ free \in SUBSET Events /\ content \in [Events -> Contents]
      /\ canon \in [Msgs -> Events \cup {NoEvent}] /\ kind \in Inputs
  BY DEF EventsFit, EventsTypeOK
<1>2. m \in Msgs /\ canon[m] # NoEvent /\ canon[m] \in Events /\ canon[m] \notin free
  BY <1>1 DEF Live, EventsAreOwned
<1>3. canon'[m] = NoEvent /\ \A n \in Msgs : n # m => canon'[n] = canon[n]
  BY <1>1, <1>2
<1>4. EventsFit'
  BY <1>1, <1>2, BlankFits DEF EventsFit, EventsTypeOK
<1>5. Live' = Live \ {m}
  BY <1>2, <1>3 DEF Live
<1>6. \A n \in Live \ {m} : canon[n] # canon[m] /\ n \in Msgs
  BY DEF EventsAreOwned, Live
<1>7. content'[canon[m]] = Blank /\ \A x \in Events : x # canon[m] => content'[x] = content[x]
  BY <1>1, <1>2
<1>8. EventsAreOwned'
  <2>1. \A n \in Live' : canon'[n] \notin free' /\ IsOwn(content'[canon'[n]], n)
    <3> SUFFICES ASSUME NEW n \in Live' PROVE canon'[n] \notin free' /\ IsOwn(content'[canon'[n]], n)
      OBVIOUS
    <3>1. n \in Live /\ n \in Msgs /\ canon'[n] = canon[n] /\ canon[n] # canon[m] /\ canon[n] \in Events
      BY <1>1, <1>3, <1>5, <1>6 DEF Live
    <3>2. canon[n] \notin free /\ IsOwn(content[canon[n]], n)
      BY <3>1 DEF EventsAreOwned
    <3>3. QED
      BY <1>7, <3>1, <3>2
  <2>2. \A n, o \in Live' : canon'[n] = canon'[o] => n = o
    BY <1>3, <1>5, <1>6 DEF EventsAreOwned
  <2>3. \A x \in free' : content'[x] = Blank
    BY <1>1, <1>7 DEF EventsAreOwned
  <2>4. QED
    BY <2>1, <2>2, <2>3 DEF EventsAreOwned
<1>9. InUse' = InUse \ {canon[m]} /\ canon[m] \in InUse
  BY <1>2, <1>3, <1>6 DEF InUse, Live
<1>10. QED
  BY <1>2, <1>4, <1>5, <1>8, <1>9

LEMMA EventsStay ==
  ASSUME EventsFit, EventsAreOwned, UNCHANGED <<eventVars, wire>>
  PROVE  EventsFit' /\ EventsAreOwned' /\ Live' = Live /\ InUse' = InUse
<1>1. UNCHANGED <<kind, free, content, canon, wire>> /\ Live' = Live /\ InUse' = InUse
  BY DEF eventVars, Live, InUse
<1>2. QED
  BY <1>1 DEF EventsFit, EventsTypeOK, EventsAreOwned

LEMMA WiredWhere == ASSUME Shape PROVE Wired \subseteq Ended \cup Looped /\ (lpc # "send" => Wired = handed)
BY PlacesTyped DEF Wired, Ended, Looped

LEMMA WorkerEvents ==
  ASSUME Shape, NoTwins, OnePlace, Owned, NEW w \in Workers, Worker(w)
  PROVE  Owned'
<1> USE DEF chanVars, workerVars, submitVars, scaleVars, stopVars, countVars, procVars, LeaveMessage
<1> DEFINE m == wmsg[w]
<1>1. UNCHANGED <<lpc, lmsg, handed, wire>> /\ Wired' = Wired
  BY DEF Worker, Wired
<1>2. /\ wpc \in [Workers -> {"off", "select", "count", "process", "deliver"}]
      /\ wmsg \in [Workers -> Msgs \cup {NoMsg}]
      /\ input \in Seq(Msgs) /\ output \in Seq(Msgs)
      /\ \A v \in Workers : wpc[v] \in Holding => wmsg[v] \in Msgs /\ wmsg[v] # NoMsg
  BY PlacesTyped, MessageNumbers
<1>3. /\ EventsFit /\ EventsAreOwned /\ EnoughEvents /\ WiredIsOwn
      /\ Live \subseteq Delivering \cup Elements(output) \cup (IF lpc = "encode" THEN {lmsg} ELSE {})
      /\ lpc = "encode" => lmsg \in Live
  BY DEF Owned, LiveWhere
<1>4. WiredIsOwn'
  BY <1>1, <1>3 DEF WiredIsOwn
<1>5. ASSUME wpc[w] \in Holding
      PROVE  /\ m \in Msgs /\ m \notin Elements(output) /\ m \notin Wired
             /\ lpc = "encode" => m # lmsg
             /\ \A v \in Workers \ {w} : wmsg[v] # m
  <2>1. m \in Msgs /\ m # NoMsg
    BY <1>2, <1>5
  <2>2. m \in Worked
    BY <2>1 DEF Worked
  <2>3. m \notin Elements(output) /\ m \notin Looped /\ m \notin Ended
    BY <2>2 DEF OnePlace
  <2>4. m \notin Wired
    BY <2>3, WiredWhere
  <2>5. lpc = "encode" => m # lmsg
    BY <2>1, <2>3 DEF Looped
  <2>6. QED
    BY <2>1, <2>3, <2>4, <2>5 DEF NoTwins
<1>6. CASE WorkerProcesses(w) /\ Process(m)
  <2>1. wpc[w] = "process" /\ wpc' = [wpc EXCEPT ![w] = "deliver"] /\ wmsg' = wmsg /\ output' = output
    BY <1>6 DEF WorkerProcesses
  <2>2. /\ m \in Msgs /\ m \notin Elements(output) /\ m \notin Wired
        /\ lpc = "encode" => m # lmsg
        /\ \A v \in Workers \ {w} : wmsg[v] # m
    BY <1>5, <2>1 DEF Holding
  <2>3. Delivering' = Delivering \cup {m}
    BY <1>2, <2>1 DEF Delivering
  <2>4. m \notin Delivering
    BY <2>1, <2>2 DEF Delivering
  <2>5. m \notin Live
    BY <1>3, <2>2, <2>4
  <2>6. PICK e \in Acquirable :
          /\ free' = free \ {e} /\ kind' = kind
          /\ IF kind[m] = "malformed"
               THEN UNCHANGED <<content, canon>>
               ELSE /\ content' = [content EXCEPT ![e] = Parsed(Found(e), m)]
                    /\ canon' = [canon EXCEPT ![m] = e]
    BY <1>6 DEF Process
  <2>7. CASE kind[m] = "malformed"
    <3>1. UNCHANGED <<kind, content, canon, wire>> /\ free' \subseteq free
      BY <1>1, <2>6, <2>7
    <3>2. Live' = Live /\ InUse' = InUse
      BY <3>1 DEF Live, InUse
    <3>3. EventsFit' /\ EventsAreOwned'
      BY <1>3, <3>1, <3>2 DEF EventsFit, EventsTypeOK, EventsAreOwned
    <3>4. LiveWhere'
      BY <1>1, <1>3, <2>1, <2>3, <3>2 DEF LiveWhere, Elements
    <3>5. EnoughEvents'
      <4>1. free' \cup InUse' \subseteq free \cup InUse /\ Wired' \cup Live' = Wired \cup Live
        BY <1>1, <3>1, <3>2
      <4>2. /\ IsFiniteSet(free \cup InUse) /\ IsFiniteSet(Wired \cup Live)
            /\ Cardinality(free \cup InUse) <= Cardinality(Wired \cup Live)
        BY <1>3, EventsFinite DEF EnoughEvents
      <4>3. Cardinality(free' \cup InUse') <= Cardinality(Wired \cup Live)
        BY <4>1, <4>2, StillEnough
      <4>4. QED
        BY <4>1, <4>3 DEF EnoughEvents
    <3>6. QED
      BY <1>4, <3>3, <3>4, <3>5 DEF Owned
  <2>8. CASE kind[m] # "malformed"
    <3>1. kind[m] \in Kinds
      BY <1>3, <2>2, InputsAssumption DEF EventsFit, EventsTypeOK
    <3>2. Found(e) = Blank
      BY <1>3, AcquiredIsBlank
    <3>3. Parsed(Blank, m) \in Contents /\ IsOwn(Parsed(Blank, m), m)
      BY <2>2, <2>8, <3>1, ParsedFits
    <3>4. content' = [content EXCEPT ![e] = Parsed(Blank, m)] /\ canon' = [canon EXCEPT ![m] = e]
      BY <2>6, <2>8, <3>2
    <3>5. EventsFit' /\ EventsAreOwned' /\ EnoughEvents' /\ Live' = Live \cup {m}
      BY <1>1, <1>3, <2>2, <2>5, <2>6, <3>3, <3>4, GetsEvent
    <3>6. LiveWhere'
      BY <1>1, <1>3, <2>1, <2>3, <3>5 DEF LiveWhere, Elements
    <3>7. QED
      BY <1>4, <3>5, <3>6 DEF Owned
  <2>9. QED
    BY <2>7, <2>8
<1>7. CASE (WorkerGivesUp(w) \/ (wpc[w] = "deliver" /\ WorkerPanics(w))) /\ Forget(m)
  <2>1. /\ wpc[w] = "deliver" /\ wpc' = [wpc EXCEPT ![w] = "select"] /\ wmsg' = [wmsg EXCEPT ![w] = NoMsg]
        /\ output' = output
    BY <1>7 DEF WorkerGivesUp, WorkerPanics
  <2>2. /\ m \in Msgs /\ m \notin Elements(output) /\ m \notin Wired
        /\ lpc = "encode" => m # lmsg
    BY <1>5, <2>1 DEF Holding
  <2>3. Delivering \ {m} \subseteq Delivering'
    <3>1. \A v \in Workers \ {w} : wpc'[v] = wpc[v] /\ wmsg'[v] = wmsg[v]
      BY <1>2, <2>1
    <3>2. QED
      BY <3>1 DEF Delivering
  <2>4. /\ content' = [e \in Events |-> IF e = canon[m] THEN Blank ELSE content[e]]
        /\ canon' = [canon EXCEPT ![m] = NoEvent] /\ kind' = kind /\ free' = free
    BY <1>7 DEF Forget
  <2>5. content \in [Events -> Contents] /\ canon \in [Msgs -> Events \cup {NoEvent}] /\ wire' \in [Msgs -> Contents]
    BY <1>1, <1>3 DEF EventsFit, EventsTypeOK
  <2>6. CASE canon[m] = NoEvent
    <3>1. \A e \in Events : e # NoEvent
      BY MaxMsgsAssumption DEF Events, NoEvent
    <3>2. content' = content /\ canon' = canon
      BY <2>2, <2>4, <2>5, <2>6, <3>1
    <3>3. EventsFit' /\ EventsAreOwned' /\ Live' = Live /\ InUse' = InUse
      BY <1>1, <1>3, <2>4, <3>2, EventsStay DEF eventVars
    <3>4. m \notin Live
      BY <2>6 DEF Live
    <3>5. LiveWhere'
      BY <1>1, <1>3, <2>1, <2>3, <3>3, <3>4 DEF LiveWhere, Elements
    <3>6. EnoughEvents'
      BY <1>1, <1>3, <2>4, <3>3 DEF EnoughEvents
    <3>7. QED
      BY <1>4, <3>3, <3>5, <3>6 DEF Owned
  <2>7. CASE canon[m] # NoEvent
    <3>1. m \in Live
      BY <2>2, <2>7 DEF Live
    <3>2. content' = [content EXCEPT ![canon[m]] = Blank]
      BY <2>4, <2>5
    <3>3. /\ EventsFit' /\ EventsAreOwned' /\ Live' = Live \ {m}
          /\ InUse' = InUse \ {canon[m]} /\ canon[m] \in InUse /\ canon[m] \notin free
      BY <1>3, <2>4, <2>5, <3>1, <3>2, LosesEvent
    <3>4. LiveWhere'
      BY <1>1, <1>3, <2>1, <2>2, <2>3, <3>3 DEF LiveWhere, Elements
    <3>5. EnoughEvents'
      <4>1. free' \cup InUse' = (free \cup InUse) \ {canon[m]} /\ canon[m] \in free \cup InUse
        BY <2>4, <3>3
      <4>2. Wired' \cup Live' = (Wired \cup Live) \ {m}
        BY <1>1, <2>2, <3>3
      <4>3. /\ IsFiniteSet(free \cup InUse) /\ IsFiniteSet(Wired \cup Live)
            /\ IsFiniteSet((Wired \cup Live) \ {m})
            /\ Cardinality(free \cup InUse) <= Cardinality(Wired \cup Live)
        BY <1>3, EventsFinite, FS_RemoveElement DEF EnoughEvents
      <4>4. Cardinality((free \cup InUse) \ {canon[m]}) <= Cardinality((Wired \cup Live) \ {m})
        <5>1. \A A, B, e, n : /\ IsFiniteSet(A) /\ IsFiniteSet(B) /\ IsFiniteSet(B \ {n})
                              /\ Cardinality(A) <= Cardinality(B) /\ e \in A
                              => Cardinality(A \ {e}) <= Cardinality(B \ {n})
          BY StillEnough
        <5>2. QED
          BY <4>1, <4>3, <5>1
      <4>5. QED
        BY <4>1, <4>2, <4>4 DEF EnoughEvents
    <3>6. QED
      BY <1>4, <3>3, <3>4, <3>5 DEF Owned
  <2>8. QED
    BY <2>6, <2>7
<1>8. CASE UNCHANGED eventVars
  <2>1. EventsFit' /\ EventsAreOwned' /\ Live' = Live /\ InUse' = InUse
    BY <1>1, <1>3, <1>8, EventsStay
  <2>2. EnoughEvents'
    BY <1>1, <1>3, <1>8, <2>1 DEF EnoughEvents, eventVars
  <2>3. ASSUME Delivering \cup Elements(output) \subseteq Delivering' \cup Elements(output') PROVE Owned'
    <3>1. LiveWhere'
      BY <1>1, <1>3, <2>1, <2>3 DEF LiveWhere, Elements
    <3>2. QED
      BY <1>4, <2>1, <2>2, <3>1 DEF Owned
  <2>4. CASE WorkerDelivers(w)
    <3>1. /\ wpc[w] = "deliver" /\ wpc' = [wpc EXCEPT ![w] = "select"] /\ wmsg' = [wmsg EXCEPT ![w] = NoMsg]
          /\ output' = Append(output, m)
      BY <2>4 DEF WorkerDelivers
    <3>2. m \in Msgs /\ m \notin Elements(output) /\ Distinct(output)
      BY <1>5, <3>1 DEF Holding, NoTwins
    <3>3. Elements(output') = Elements(output) \cup {m}
      BY <1>2, <3>1, <3>2, AppendDistinct
    <3>4. \A v \in Workers \ {w} : wpc'[v] = wpc[v] /\ wmsg'[v] = wmsg[v]
      BY <1>2, <3>1
    <3>5. Delivering \ {m} \subseteq Delivering'
      BY <3>4 DEF Delivering
    <3>6. QED
      BY <2>3, <3>3, <3>5
  <2>5. CASE WorkerTakes(w) \/ WorkerSeesDone(w) \/ WorkerCounts(w) \/ WorkerExits(w)
    <3>1. /\ output' = output /\ wpc[w] # "deliver" /\ wpc'[w] # "deliver"
          /\ \A v \in Workers \ {w} : wpc'[v] = wpc[v] /\ wmsg'[v] = wmsg[v]
      BY <1>2, <2>5 DEF WorkerTakes, WorkerSeesDone, WorkerCounts, WorkerExits
    <3>2. Delivering \subseteq Delivering'
      BY <3>1 DEF Delivering
    <3>3. QED
      BY <2>3, <3>1, <3>2
  <2>6. CASE WorkerProcesses(w) /\ Process(m)
    BY <1>6, <2>6
  <2>7. CASE (WorkerGivesUp(w) \/ (wpc[w] = "deliver" /\ WorkerPanics(w))) /\ Forget(m)
    BY <1>7, <2>7
  <2>8. QED
    BY <2>4, <2>5, <2>6, <2>7 DEF Worker
<1>9. QED
  BY <1>6, <1>7, <1>8 DEF Worker

LEMMA LoopEvents ==
  ASSUME Shape, OnePlace, Owned, OutputLoop
  PROVE  Owned'
<1> USE DEF chanVars, workerVars, submitVars, scaleVars, stopVars, countVars, poolVars
<1>1. UNCHANGED <<wpc, wmsg>> /\ Delivering' = Delivering
  BY DEF OutputLoop, LoopReceives, LoopFallsBack, LoopEncodes, LoopSends, LoopEnds, Delivering
<1>2. /\ output \in Seq(Msgs)
      /\ lmsg # NoMsg <=> lpc \in {"encode", "send"}
      /\ NoMsg \notin Msgs
  BY PlacesTyped, MessageNumbers
<1>3. /\ EventsFit /\ EventsAreOwned /\ EnoughEvents /\ WiredIsOwn
      /\ Live \subseteq Delivering \cup Elements(output) \cup (IF lpc = "encode" THEN {lmsg} ELSE {})
      /\ lpc = "encode" => lmsg \in Live
  BY DEF Owned, LiveWhere
<1>4. ASSUME lpc = "receive", output # <<>>
      PROVE  /\ Head(output) \in Msgs /\ Head(output) \in Elements(output) /\ Head(output) \notin Wired
             /\ \A x \in Elements(output) : x = Head(output) \/ x \in Elements(Tail(output))
  <2>1. Head(output) \in Msgs /\ Tail(output) \in Seq(Msgs)
    BY <1>2, <1>4, HeadTailProperties
  <2>2. /\ Len(output) \in Nat \ {0} /\ DOMAIN output = 1 .. Len(output) /\ Head(output) = output[1]
        /\ Len(Tail(output)) = Len(output) - 1 /\ DOMAIN Tail(output) = 1 .. Len(output) - 1
        /\ \A i \in 1 .. Len(output) - 1 : Tail(output)[i] = output[i + 1]
    BY <1>2, <1>4, <2>1, HeadTailProperties, LenProperties, EmptySeq
  <2>3. Head(output) \in Elements(output)
    <3>1. 1 \in DOMAIN output
      BY <2>2
    <3>2. QED
      BY <2>2, <3>1 DEF Elements
  <2>4. Head(output) \notin Wired
    BY <2>3, WiredWhere DEF OnePlace
  <2>5. \A x \in Elements(output) : x = Head(output) \/ x \in Elements(Tail(output))
    <3> SUFFICES ASSUME NEW x \in Elements(output), x # Head(output) PROVE x \in Elements(Tail(output))
      OBVIOUS
    <3>1. PICK i \in DOMAIN output : x = output[i]
      BY DEF Elements
    <3>2. i - 1 \in 1 .. Len(output) - 1 /\ (i - 1) + 1 = i
      BY <2>2, <3>1
    <3>3. i - 1 \in DOMAIN Tail(output) /\ x = Tail(output)[i - 1]
      BY <2>2, <3>1, <3>2
    <3>4. QED
      BY <3>3 DEF Elements
  <2>6. QED
    BY <2>1, <2>3, <2>4, <2>5
<1>5. CASE LoopReceives
  <2>1. /\ lpc = "receive" /\ output # <<>> /\ canon[Head(output)] # NoEvent /\ lmsg' = Head(output)
        /\ output' = Tail(output) /\ lpc' = "encode" /\ handed' = handed /\ UNCHANGED <<eventVars, wire>>
    BY <1>5 DEF LoopReceives
  <2>2. EventsFit' /\ EventsAreOwned' /\ Live' = Live /\ InUse' = InUse
    BY <1>3, <2>1, EventsStay
  <2>3. Wired' = Wired
    BY <2>1 DEF Wired
  <2>4. EnoughEvents' /\ WiredIsOwn'
    BY <1>3, <2>1, <2>2, <2>3 DEF EnoughEvents, WiredIsOwn, eventVars
  <2>5. Head(output) \in Live
    BY <1>4, <2>1 DEF Live
  <2>6. LiveWhere'
    BY <1>1, <1>3, <1>4, <2>1, <2>2, <2>5 DEF LiveWhere, Elements
  <2>7. QED
    BY <2>2, <2>4, <2>6 DEF Owned
<1>6. CASE LoopFallsBack
  <2> DEFINE m == Head(output)
  <2>1. /\ lpc = "receive" /\ output # <<>> /\ canon[m] = NoEvent /\ lmsg' = m
        /\ output' = Tail(output) /\ lpc' = "encode" /\ handed' = handed /\ UNCHANGED <<kind, wire>>
    BY <1>6 DEF LoopFallsBack
  <2>2. PICK e \in Acquirable :
          /\ free' = free \ {e}
          /\ content' = [content EXCEPT ![e] = [Found(e) EXCEPT !.main = m, !.type = "TRADE"]]
          /\ canon' = [canon EXCEPT ![m] = e]
    BY <1>6 DEF LoopFallsBack
  <2>3. m \in Msgs /\ m \notin Wired /\ m \notin Live
    BY <1>4, <2>1 DEF Live
  <2>4. Wired' = Wired
    BY <2>1 DEF Wired
  <2>5. Found(e) = Blank
    BY <1>3, AcquiredIsBlank
  <2>6. /\ [Blank EXCEPT !.main = m, !.type = "TRADE"] \in Contents
        /\ IsOwn([Blank EXCEPT !.main = m, !.type = "TRADE"], m)
    BY <2>3, FallbackFits
  <2>7. content' = [content EXCEPT ![e] = [Blank EXCEPT !.main = m, !.type = "TRADE"]]
    BY <2>2, <2>5
  <2>8. EventsFit' /\ EventsAreOwned' /\ EnoughEvents' /\ Live' = Live \cup {m}
    BY <1>3, <2>1, <2>2, <2>3, <2>4, <2>6, <2>7, GetsEvent
  <2>9. LiveWhere'
    BY <1>1, <1>3, <1>4, <2>1, <2>8 DEF LiveWhere, Elements
  <2>10. WiredIsOwn'
    BY <1>3, <2>1, <2>4 DEF WiredIsOwn
  <2>11. QED
    BY <2>8, <2>9, <2>10 DEF Owned
<1>7. CASE LoopEncodes
  <2>1. /\ lpc = "encode" /\ lpc' = "send" /\ lmsg' = lmsg /\ handed' = handed /\ output' = output
        /\ wire' = [wire EXCEPT ![lmsg] = Encoded(content[canon[lmsg]])] /\ kind' = kind
        /\ free' = free \cup {canon[lmsg]} /\ content' = [content EXCEPT ![canon[lmsg]] = Blank]
        /\ canon' = [canon EXCEPT ![lmsg] = NoEvent]
    BY <1>7 DEF LoopEncodes, Release
  <2>2. lmsg \in Live /\ lmsg \in Msgs
    BY <1>3, <2>1 DEF Live
  <2>3. /\ content \in [Events -> Contents] /\ canon \in [Msgs -> Events \cup {NoEvent}]
        /\ wire \in [Msgs -> Contents]
    BY <1>3 DEF EventsFit, EventsTypeOK
  <2>4. content[canon[lmsg]] \in Contents /\ IsOwn(content[canon[lmsg]], lmsg)
    BY <1>3, <2>2, <2>3 DEF EventsAreOwned, Live
  <2>5. Encoded(content[canon[lmsg]]) \in Contents /\ IsOwn(Encoded(content[canon[lmsg]]), lmsg)
    BY <2>4, EncodedFits
  <2>6. /\ wire' \in [Msgs -> Contents] /\ IsOwn(wire'[lmsg], lmsg)
        /\ \A n \in Msgs : n # lmsg => wire'[n] = wire[n]
    BY <2>1, <2>2, <2>3, <2>5
  <2>7. /\ EventsFit' /\ EventsAreOwned' /\ Live' = Live \ {lmsg}
        /\ InUse' = InUse \ {canon[lmsg]} /\ canon[lmsg] \in InUse /\ canon[lmsg] \notin free
    BY <1>3, <2>1, <2>2, <2>6, LosesEvent
  <2>8. Wired' = Wired \cup {lmsg}
    BY <2>1 DEF Wired
  <2>9. free' \cup InUse' = free \cup InUse /\ Wired' \cup Live' = Wired \cup Live
    BY <2>1, <2>2, <2>7, <2>8
  <2>10. EnoughEvents'
    BY <1>3, <2>9 DEF EnoughEvents
  <2>11. LiveWhere'
    BY <1>1, <1>3, <2>1, <2>7 DEF LiveWhere, Elements
  <2>12. WiredIsOwn'
    <3>1. Wired \subseteq Msgs
      BY <1>3, EventsFinite
    <3>2. QED
      BY <1>3, <2>6, <2>8, <3>1 DEF WiredIsOwn
  <2>13. QED
    BY <2>7, <2>10, <2>11, <2>12 DEF Owned
<1>8. CASE LoopSends \/ LoopEnds
  <2>1. UNCHANGED <<eventVars, wire, output>> /\ lpc # "encode" /\ lpc' # "encode"
    BY <1>8 DEF LoopSends, LoopEnds
  <2>2. EventsFit' /\ EventsAreOwned' /\ Live' = Live /\ InUse' = InUse
    BY <1>3, <2>1, EventsStay
  <2>3. Wired' = Wired
    BY <1>8 DEF LoopSends, LoopEnds, Wired
  <2>4. EnoughEvents' /\ WiredIsOwn'
    BY <1>3, <2>1, <2>2, <2>3 DEF EnoughEvents, WiredIsOwn, eventVars
  <2>5. LiveWhere'
    BY <1>1, <1>3, <2>1, <2>2 DEF LiveWhere, Elements
  <2>6. QED
    BY <2>2, <2>4, <2>5 DEF Owned
<1>9. QED
  BY <1>5, <1>6, <1>7, <1>8 DEF OutputLoop

LEMMA OwnedStep == ASSUME Shape, NoTwins, OnePlace, Owned, Steps PROVE Owned'
<1>1. CASE Scales \/ Stops \/ Mains \/ (\E s \in Submitters : Submits(s)) \/ UNCHANGED canonVars
  <2>1. /\ UNCHANGED <<eventVars, wire, output, wmsg, lpc, lmsg, handed>>
        /\ \A w \in Workers : wpc'[w] = "deliver" <=> wpc[w] = "deliver"
    BY <1>1, PlacesTyped
       DEF Scales, Autoscaler, ScaleTick, ScaleReads, ScaleEnds, SpawnCounts, SpawnStarts, ScaleStops,
           Stops, StopRuns, StopMarks, StopCancels, StopWaits, StopCloses, Mains, MainStopsServer,
           MainAfterPool, MainAfterLoop, Submits, Submit, SubmitBegins, SubmitPushes, SubmitRejects, SubmitCounts,
           canonVars, poolVars, procVars, chanVars, workerVars
  <2>2. Delivering' = Delivering /\ Wired' = Wired
    BY <2>1 DEF Delivering, Wired
  <2>3. EventsFit' /\ EventsAreOwned' /\ Live' = Live /\ InUse' = InUse
    BY <2>1, EventsStay DEF Owned
  <2>4. EnoughEvents' /\ WiredIsOwn' /\ LiveWhere'
    BY <2>1, <2>2, <2>3 DEF Owned, EnoughEvents, WiredIsOwn, LiveWhere, Elements, eventVars
  <2>5. QED
    BY <2>3, <2>4 DEF Owned
<1>2. QED
  BY <1>1, WorkerEvents, LoopEvents DEF Steps

LEMMA OwnedInit == CanonInit => Owned
<1> SUFFICES ASSUME CanonInit PROVE Owned
  OBVIOUS
<1>1. /\ kind \in Inputs /\ free = {} /\ content = [e \in Events |-> Blank]
      /\ canon = [m \in Msgs |-> NoEvent] /\ wire = [m \in Msgs |-> Blank]
      /\ handed = {} /\ lpc = "receive"
  BY DEF CanonInit, EventsInit
<1>2. EventsFit
  BY <1>1, BlankFits DEF EventsFit, EventsTypeOK
<1>3. Live = {} /\ InUse = {} /\ Wired = {} /\ free \cup InUse = Wired \cup Live
  BY <1>1 DEF Live, InUse, Wired
<1>4. EnoughEvents
  <2>1. Cardinality({}) = 0
    BY FS_EmptySet
  <2>2. QED
    BY <1>1, <1>3, <2>1 DEF EnoughEvents
<1>5. EventsAreOwned /\ LiveWhere /\ WiredIsOwn
  BY <1>1, <1>3 DEF EventsAreOwned, LiveWhere, WiredIsOwn
<1>6. QED
  BY <1>2, <1>4, <1>5 DEF Owned

-----------------------------------------------------------------------------
(* The theorems                                                            *)

SpawnsFit == toSpawn \in 0 .. ScaleStep

LEMMA SpawnsStep == ASSUME Shape, CountFits, SpawnsFit, Steps PROVE SpawnsFit'
<1>1. ScaleStep \in Nat /\ MaxWorkers \in Nat
  BY ScaleAssumption, AliveCounted
<1>2. CASE Scales
  <2>1. CASE ScaleReads
    <3>1. /\ apc = "read"
          /\ toSpawn' = IF MaxWorkers - activeWorkers < ScaleStep THEN MaxWorkers - activeWorkers ELSE ScaleStep
      BY <2>1 DEF ScaleReads
    <3>2. activeWorkers \in 0 .. MaxWorkers
      BY <3>1, AliveCounted DEF CountFits
    <3>3. QED
      BY <1>1, <3>1, <3>2 DEF SpawnsFit
  <2>2. CASE SpawnCounts
    <3>1. toSpawn > 0 /\ toSpawn' = toSpawn - 1
      BY <2>2 DEF SpawnCounts
    <3>2. QED
      BY <1>1, <3>1 DEF SpawnsFit
  <2>3. CASE toSpawn' = toSpawn
    BY <2>3 DEF SpawnsFit
  <2>4. QED
    BY <1>2, <2>1, <2>2, <2>3 DEF Scales, Autoscaler, ScaleTick, ScaleEnds, SpawnStarts, ScaleStops
<1>3. CASE toSpawn' = toSpawn
  BY <1>3 DEF SpawnsFit
<1>4. QED
  BY <1>2, <1>3
     DEF Steps, Submits, Submit, SubmitBegins, SubmitPushes, SubmitRejects, SubmitCounts, Worker, WorkerTakes,
         WorkerSeesDone, WorkerCounts, WorkerProcesses, WorkerPanics, WorkerDelivers, WorkerGivesUp, WorkerExits,
         Stops, StopRuns, StopMarks, StopCancels, StopWaits, StopCloses, Mains, MainStopsServer,
         MainAfterPool, MainAfterLoop, OutputLoop, LoopReceives, LoopFallsBack, LoopEncodes, LoopSends, LoopEnds,
         canonVars, poolVars, scaleVars

CanonInv ==
  /\ Shape /\ CountFits /\ SpawnsFit /\ DepthFits
  /\ Staged /\ Drained
  /\ NoTwins /\ OnePlace
  /\ Owned

(* CanonInv holds of every run of the process.  Everything below is read   *)
(* off it.                                                                 *)
THEOREM CanonInvariant == CanonSpec => []CanonInv
<1>1. CanonInit => CanonInv
  <2>1. CanonInit => SpawnsFit
    BY ScaleAssumption DEF CanonInit, PoolInit, SpawnsFit
  <2>2. QED
    BY <2>1, ShapeInit, CountInit, DepthInit, StagedInit, PlacesInit, OwnedInit DEF CanonInv
<1>2. CanonInv /\ [CanonNext]_canonVars => CanonInv'
  <2> SUFFICES ASSUME CanonInv, Steps PROVE CanonInv'
    BY StepsAre
  <2>1. /\ Shape /\ CountFits /\ SpawnsFit /\ DepthFits /\ Staged /\ Drained /\ NoTwins /\ OnePlace /\ Owned
    BY DEF CanonInv
  <2>2. Shape' /\ CountFits' /\ SpawnsFit' /\ DepthFits'
    BY <2>1, ShapeStep, CountStep, SpawnsStep, DepthStep
  <2>3. Staged' /\ Drained' /\ NoTwins' /\ OnePlace'
    BY <2>1, StagedStep, PlacesStep
  <2>4. Owned'
    BY <2>1, OwnedStep
  <2>5. QED
    BY <2>2, <2>3, <2>4 DEF CanonInv
<1>3. QED
  BY <1>1, <1>2, PTL DEF CanonSpec

(* Every variable has its type at every instance: in particular queueDepth *)
(* is at most as far below zero as there are handlers, and at most as far  *)
(* above the capacity of the channel as there are workers, and the limit   *)
(* on the workers is kept although spawnWorker counts before it looks.     *)
THEOREM CanonTypes == CanonSpec => []TypeOK
<1>1. CanonInv => TypeOK
  <2> SUFFICES ASSUME CanonInv PROVE TypeOK
    OBVIOUS
  <2>1. Shape /\ CountFits /\ SpawnsFit /\ DepthFits /\ EventsFit
    BY DEF CanonInv, Owned
  <2>2. queueDepth \in -Cardinality(Submitters) .. QueueSize + MaxWorkers
    <3>1. Len(input) \in Nat /\ Len(input) <= QueueSize /\ QueueSize \in Nat
      BY <2>1, LenProperties, QueueSizeAssumption DEF Shape, ChannelsFit
    <3>2. Cardinality(Submitters) \in Nat /\ MaxWorkers \in Nat
      BY SubmittersAssumption, FS_CardinalityType, AliveCounted
    <3>3. QED
      BY <2>1, <3>1, <3>2, CountingUpCounted, CountingDownCounted DEF DepthFits
  <2>3. activeWorkers \in 0 .. MaxWorkers
    <3>1. CASE apc = "check"
      BY <2>1, <3>1, AliveCounted, ScaleAssumption DEF CountFits, SpawnsFit
    <3>2. CASE apc # "check"
      BY <2>1, <3>2, AliveCounted DEF CountFits
    <3>3. QED
      BY <3>1, <3>2
  <2>4. PoolTypeOK
    BY <2>1, <2>2, <2>3 DEF PoolTypeOK, Shape, ChannelsFit, HistoriesFit, PlacesFit, SpawnsFit
  <2>5. QED
    BY <2>1, <2>4 DEF TypeOK, EventsFit, Shape, HistoriesFit, PlacesFit
<1>2. QED
  BY <1>1, CanonInvariant, PTL

(* What the autoscaler, the health check and the metrics read is the       *)
(* length of the input channel but for those between the channel and the   *)
(* counter, however many Submits and workers there are.                    *)
THEOREM DepthFollowsTheQueue == CanonSpec => []DepthIsQueue
<1>1. CanonInv => DepthIsQueue
  BY DEF CanonInv, DepthFits, DepthIsQueue, CountingUp, CountingDown
<1>2. QED
  BY <1>1, CanonInvariant, PTL

(* Nobody sends on the closed output channel: pool.Stop closes it after    *)
(* the last worker, and neither a Submit nor the autoscaler brings one     *)
(* back to work.                                                           *)
THEOREM ClosedIsClosed == CanonSpec => []NoSendOnClosed
<1>1. CanonInv => NoSendOnClosed
  BY DEF CanonInv, Staged, Drained, NoSendOnClosed
<1>2. QED
  BY <1>1, CanonInvariant, PTL

LEMMA DownIsEmpty == CanonInv => NothingVanishes
<1> SUFFICES ASSUME CanonInv, phase = "down" PROVE 1 .. sent = handed \cup rejected \cup timedOut \cup panicked
  BY DEF NothingVanishes
<1>1. Shape /\ Staged /\ Drained /\ OnePlace
  BY DEF CanonInv
<1>2. /\ input = <<>> /\ output = <<>> /\ lpc = "done" /\ \A w \in Workers : wmsg[w] = NoMsg
      /\ \A s \in Submitters : spc[s] = "idle"
  BY <1>1 DEF Staged, Drained
<1>3. Elements(<<>>) = {}
  BY DEF Elements
<1>4. lmsg = NoMsg
  BY <1>1, <1>2 DEF Shape, HoldersFit
<1>5. Pushed = {} /\ Worked = {} /\ Looped = {}
  BY <1>2, <1>4 DEF Pushed, Pushers, Worked, Looped
<1>6. QED
  BY <1>1, <1>2, <1>3, <1>5 DEF OnePlace, Ended

(* After the shutdown every message that was submitted has been handed on  *)
(* or is in a counter: none is left in a channel or with a goroutine.      *)
THEOREM ShutdownLosesNothing == CanonSpec => []NothingVanishes
<1>1. QED
  BY DownIsEmpty, CanonInvariant, PTL

(* Pooling is use-after-reset free: whatever the interleaving of workers   *)
(* and output loop, what goes out for a message has that message's values  *)
(* only, although its event has been other messages' before and after.     *)
THEOREM EncodedFromItsOwn == CanonSpec => []WireIsOwn
<1>1. CanonInv => WireIsOwn
  BY DEF CanonInv, Owned, WiredIsOwn, Wired, IsOwn, WireIsOwn
<1>2. QED
  BY <1>1, CanonInvariant, PTL

-----------------------------------------------------------------------------
(***************************************************************************)
(* Refinement: the process, with its queues, its workers, its output loop  *)
(* and its recycled events, is a Stage.                                    *)
(***************************************************************************)

(* What has been encoded has a type, although a recycled event has none.   *)
WiredIsTyped == \A m \in Wired : wire[m].type \in EventTypes

StageInv == CanonInv /\ WiredIsTyped

LEMMA TypedStep == ASSUME CanonInv, WiredIsTyped, Steps PROVE WiredIsTyped'
<1> USE DEF chanVars, workerVars, submitVars, scaleVars, stopVars, countVars, poolVars, eventVars, procVars
<1>1. CASE LoopEncodes
  <2>1. /\ lpc = "encode" /\ lpc' = "send" /\ lmsg' = lmsg /\ handed' = handed
        /\ wire' = [wire EXCEPT ![lmsg] = Encoded(content[canon[lmsg]])]
    BY <1>1 DEF LoopEncodes
  <2>2. /\ lmsg \in Msgs /\ canon[lmsg] \in Events
        /\ content \in [Events -> Contents] /\ wire \in [Msgs -> Contents]
    BY <2>1 DEF CanonInv, Owned, EventsFit, EventsTypeOK, LiveWhere, Live
  <2>3. content[canon[lmsg]].type \in EventTypes \cup {""}
    BY <2>2 DEF Contents
  <2>4. Encoded(content[canon[lmsg]]).type \in EventTypes
    <3> DEFINE c == content[canon[lmsg]]
    <3>1. c \in Contents
      BY <2>2
    <3> HIDE DEF c
    <3>2. Encoded(c).type \in EventTypes
      BY <3>1 DEF Encoded, Contents, EventTypes
    <3>3. QED
      BY <3>2 DEF c
  <2>5. Wired' = Wired \cup {lmsg} /\ Wired \subseteq Msgs
    BY <2>1 DEF Wired, CanonInv, Shape, HistoriesFit
  <2>6. \A m \in Wired' : wire'[m].type \in EventTypes
    BY <2>1, <2>2, <2>4, <2>5 DEF WiredIsTyped
  <2>7. QED
    BY <2>6 DEF WiredIsTyped
<1>2. CASE wire' = wire /\ Wired' \subseteq Wired
  BY <1>2 DEF WiredIsTyped
<1>3. ASSUME OutputLoop, ~LoopEncodes PROVE wire' = wire /\ Wired' \subseteq Wired
  BY <1>3 DEF OutputLoop, LoopReceives, LoopFallsBack, LoopSends, LoopEnds, Wired
<1>4. ASSUME ~OutputLoop PROVE UNCHANGED <<wire, lpc, lmsg, handed>>
  BY <1>4 DEF Steps, Submits, Worker, Scales, Stops, Mains, MainStopsServer, MainAfterPool, MainAfterLoop, canonVars
<1>5. QED
  BY <1>1, <1>2, <1>3, <1>4 DEF Wired

(* The messages that have left are those the abstract stage has let go.    *)
LEMMA InsideAre ==
  /\ AbstractStage!Inside = (1 .. sent) \ Ended
  /\ (\A m \in handed : wire'[m] = wire[m]) /\ handed' = handed
       => [m \in handed' |-> wire'[m]] = [m \in handed |-> wire[m]]
<1>1. DOMAIN [m \in handed |-> wire[m]] = handed
  OBVIOUS
<1>2. AbstractStage!Inside = (1 .. sent) \ Ended
  BY <1>1 DEF AbstractStage!Inside, Ended
<1>3. QED
  BY <1>2

Counted3 == rejected \cup timedOut \cup panicked

LEMMA SubmitStages ==
  ASSUME StageInv, NEW s \in Submitters, Submits(s)
  PROVE  [AbstractStage!StageNext]_(AbstractStage!stageVars)
<1> USE DEF chanVars, workerVars, submitVars, scaleVars, stopVars, countVars, procVars,
            AbstractStage!StageNext, AbstractStage!stageVars
<1>1. /\ UNCHANGED <<phase, lpc, lmsg, wire, handed, timedOut, panicked>> /\ Submit(s)
      /\ OnePlace /\ Shape
  BY DEF Submits, Submit, SubmitBegins, SubmitPushes, SubmitRejects, SubmitCounts, StageInv, CanonInv
<1>2. [m \in handed' |-> wire'[m]] = [m \in handed |-> wire[m]]
  BY <1>1
<1>3. CASE SubmitBegins(s)
  <2>1. phase = "serve" /\ sent' = sent + 1
        /\ (rejected' = rejected \/ rejected' = rejected \cup {sent'})
    BY <1>3 DEF Submits, SubmitBegins
  <2>2. \/ rejected' \cup timedOut' \cup panicked' = Counted3
        \/ rejected' \cup timedOut' \cup panicked' = Counted3 \cup {sent'}
    BY <1>1, <2>1 DEF Counted3
  <2>3. AbstractStage!Take
    BY <1>1, <1>2, <2>1, <2>2 DEF AbstractStage!Take, Counted3
  <2>4. QED
    BY <2>3
<1>4. CASE SubmitRejects(s)
  <2>1. spc[s] = "push" /\ rejected' = rejected \cup {smsg[s]} /\ sent' = sent
    BY <1>4 DEF SubmitRejects
  <2>2. smsg[s] \in Pushed
    BY <2>1 DEF Pushed, Pushers
  <2>3. smsg[s] \in (1 .. sent) \ Ended
    BY <1>1, <2>2 DEF OnePlace
  <2>4. smsg[s] \in AbstractStage!Inside
    BY <2>3, InsideAre
  <2>5. rejected' \cup timedOut' \cup panicked' = Counted3 \cup {smsg[s]}
    BY <1>1, <2>1 DEF Counted3
  <2>6. AbstractStage!Drop(smsg[s])
    BY <1>1, <1>2, <2>1, <2>4, <2>5 DEF AbstractStage!Drop, Counted3
  <2>7. QED
    BY <2>4, <2>6
<1>5. CASE SubmitPushes(s) \/ SubmitCounts(s)
  BY <1>1, <1>2, <1>5 DEF SubmitPushes, SubmitCounts
<1>6. QED
  BY <1>1, <1>3, <1>4, <1>5 DEF Submit

LEMMA WorkerStages ==
  ASSUME StageInv, NEW w \in Workers, Worker(w)
  PROVE  [AbstractStage!StageNext]_(AbstractStage!stageVars)
<1> USE DEF chanVars, workerVars, submitVars, scaleVars, stopVars, countVars, procVars,
            AbstractStage!StageNext, AbstractStage!stageVars
<1>1. /\ UNCHANGED <<phase, lpc, lmsg, wire, handed>> /\ OnePlace /\ Shape
  BY DEF Worker, StageInv, CanonInv
<1>2. [m \in handed' |-> wire'[m]] = [m \in handed |-> wire[m]]
  BY <1>1
<1>3. CASE WorkerGivesUp(w) \/ WorkerPanics(w)
  <2>1. /\ wpc[w] \in Holding /\ sent' = sent
        /\ rejected' \cup timedOut' \cup panicked' = Counted3 \cup {wmsg[w]}
    BY <1>3 DEF WorkerGivesUp, WorkerPanics, LeaveMessage, Holding, Counted3
  <2>2. wmsg[w] \in Worked
    BY <1>1, <2>1, PlacesTyped DEF Worked
  <2>3. wmsg[w] \in (1 .. sent) \ Ended
    BY <1>1, <2>2 DEF OnePlace
  <2>4. wmsg[w] \in AbstractStage!Inside
    BY <2>3, InsideAre
  <2>5. AbstractStage!Drop(wmsg[w])
    BY <1>1, <1>2, <2>1, <2>4 DEF AbstractStage!Drop, Counted3
  <2>6. QED
    BY <2>4, <2>5
<1>4. CASE ~(WorkerGivesUp(w) \/ WorkerPanics(w))
  <2>1. UNCHANGED <<sent, rejected, timedOut, panicked>>
    BY <1>4 DEF Worker, WorkerTakes, WorkerSeesDone, WorkerCounts, WorkerProcesses, WorkerDelivers, WorkerExits
  <2>2. QED
    BY <1>1, <1>2, <2>1
<1>5. QED
  BY <1>3, <1>4

LEMMA LoopStages ==
  ASSUME StageInv, OutputLoop
  PROVE  [AbstractStage!StageNext]_(AbstractStage!stageVars)
<1> USE DEF chanVars, workerVars, submitVars, scaleVars, stopVars, countVars, poolVars, eventVars,
            AbstractStage!StageNext, AbstractStage!stageVars
<1>1. /\ UNCHANGED <<phase, sent, rejected, timedOut, panicked>>
      /\ OnePlace /\ Shape /\ Owned /\ WiredIsTyped
  BY DEF OutputLoop, LoopReceives, LoopFallsBack, LoopEncodes, LoopSends, LoopEnds, StageInv, CanonInv
<1>2. CASE LoopSends
  <2>1. lpc = "send" /\ handed' = handed \cup {lmsg} /\ wire' = wire
    BY <1>2 DEF LoopSends
  <2>2. lmsg \in Looped /\ lmsg \in Wired /\ lmsg \in Msgs
    BY <1>1, <2>1 DEF Looped, Wired, Shape, PlacesFit, HoldersFit
  <2>3. lmsg \in AbstractStage!Inside
    BY <1>1, <2>2, InsideAre DEF OnePlace
  <2>4. wire[lmsg] \in AbstractStage!Made(lmsg)
    <3>1. /\ wire[lmsg] \in Contents /\ wire[lmsg].main = lmsg /\ wire[lmsg].rest \subseteq {lmsg}
          /\ wire[lmsg].type \in EventTypes
      BY <1>1, <2>2 DEF Owned, EventsFit, WiredIsOwn, IsOwn, WiredIsTyped
    <3> DEFINE c == wire[lmsg]
    <3>2. c = [main |-> c.main, type |-> c.type, rest |-> c.rest]
      BY <3>1 DEF Contents
    <3> HIDE DEF c
    <3>3. c.main = lmsg /\ c.rest \in SUBSET {lmsg} /\ c.type \in EventTypes
      BY <3>1 DEF c
    <3>4. c \in [main : {lmsg}, type : EventTypes, rest : SUBSET {lmsg}]
      BY <3>2, <3>3
    <3>5. QED
      BY <3>4 DEF c, AbstractStage!Made
  <2> DEFINE res == [m \in handed |-> wire[m]]
             next == [n \in DOMAIN res \cup {lmsg} |-> IF n = lmsg THEN wire[lmsg] ELSE res[n]]
  <2>5. [m \in handed' |-> wire'[m]] = next
    <3>1. DOMAIN res = handed /\ \A n \in handed : res[n] = wire[n]
      OBVIOUS
    <3>2. \A n \in handed \cup {lmsg} : (IF n = lmsg THEN wire[lmsg] ELSE res[n]) = wire[n]
      BY <3>1
    <3>3. next = [n \in handed \cup {lmsg} |-> wire[n]]
      BY <3>1, <3>2
    <3>4. QED
      BY <2>1, <3>3
  <2>6. PICK m : m = lmsg
    OBVIOUS
  <2>7. AbstractStage!HandOn(m)
    <3>1. \E r \in AbstractStage!Made(lmsg) :
            [n \in handed' |-> wire'[n]]
              = [n \in DOMAIN res \cup {lmsg} |-> IF n = lmsg THEN r ELSE res[n]]
      BY <2>4, <2>5
    <3>2. QED
      BY <1>1, <2>3, <2>6, <3>1 DEF AbstractStage!HandOn
  <2> HIDE DEF res, next, AbstractStage!StageNext, AbstractStage!stageVars
  <2>8. \E n \in AbstractStage!Inside : AbstractStage!HandOn(n) \/ AbstractStage!Drop(n)
    BY <2>3, <2>6, <2>7, Zenon
  <2>9. QED
    BY <2>8, Zenon DEF AbstractStage!StageNext
<1>3. CASE ~LoopSends
  <2>1. handed' = handed /\ \A m \in handed : wire'[m] = wire[m]
    <3>1. CASE LoopEncodes
      <4>1. /\ lpc = "encode" /\ handed' = handed
            /\ wire' = [wire EXCEPT ![lmsg] = Encoded(content[canon[lmsg]])]
        BY <3>1 DEF LoopEncodes
      <4>2. lmsg \in Looped
        BY <1>1, <4>1 DEF Looped, Shape, HoldersFit
      <4>3. lmsg \notin handed
        BY <1>1, <4>2 DEF OnePlace, Ended
      <4>4. wire \in [Msgs -> Contents] /\ handed \subseteq Msgs
        BY <1>1 DEF Owned, EventsFit, Shape, HistoriesFit
      <4>5. QED
        BY <4>1, <4>3, <4>4
    <3>2. CASE LoopReceives \/ LoopFallsBack \/ LoopEnds
      BY <3>2 DEF LoopReceives, LoopFallsBack, LoopEnds
    <3>3. QED
      BY <1>3, <3>1, <3>2 DEF OutputLoop
  <2>2. [m \in handed' |-> wire'[m]] = [m \in handed |-> wire[m]]
    BY <2>1, InsideAre
  <2>3. QED
    BY <1>1, <2>2
<1>4. QED
  BY <1>2, <1>3

LEMMA MainStages ==
  ASSUME StageInv, NothingVanishes', Scales \/ Stops \/ Mains \/ UNCHANGED canonVars
  PROVE  [AbstractStage!StageNext]_(AbstractStage!stageVars)
<1> USE DEF chanVars, workerVars, submitVars, scaleVars, stopVars, countVars, poolVars, eventVars, procVars,
            AbstractStage!StageNext, AbstractStage!stageVars
<1>1. UNCHANGED <<sent, rejected, timedOut, panicked, handed, wire>>
  BY DEF Scales, Autoscaler, ScaleTick, ScaleReads, ScaleEnds, SpawnCounts, SpawnStarts, ScaleStops,
         Stops, StopRuns, StopMarks, StopCancels, StopWaits, StopCloses, Mains, MainStopsServer,
         MainAfterPool, MainAfterLoop, canonVars
<1>2. [m \in handed' |-> wire'[m]] = [m \in handed |-> wire[m]]
  BY <1>1
<1>3. CASE MainStopsServer
  <2>1. phase = "serve" /\ phase' = "pool"
    BY <1>3 DEF MainStopsServer
  <2>2. AbstractStage!Stop
    BY <1>1, <1>2, <2>1 DEF AbstractStage!Stop
  <2>3. QED
    BY <2>2
<1>4. CASE MainAfterLoop
  <2>1. phase = "drain" /\ phase' = "down"
    BY <1>4 DEF MainAfterLoop
  <2>2. 1 .. sent = handed \cup rejected \cup timedOut \cup panicked
    BY <1>1, <2>1 DEF NothingVanishes
  <2>3. AbstractStage!Inside = {}
    BY <2>2, InsideAre DEF Ended
  <2>4. AbstractStage!End
    BY <1>1, <1>2, <2>1, <2>3 DEF AbstractStage!End
  <2>5. QED
    BY <2>4
<1>5. CASE MainAfterPool
  BY <1>1, <1>2, <1>5 DEF MainAfterPool
<1>6. CASE Scales \/ Stops \/ UNCHANGED canonVars
  <2>1. phase' = phase
    BY <1>6 DEF Scales, Stops, canonVars
  <2>2. QED
    BY <1>1, <1>2, <2>1
<1>7. QED
  BY <1>3, <1>4, <1>5, <1>6 DEF Mains

(* Whatever the handlers, workers, autoscaler, output loop and main do in  *)
(* whatever order, a frame that was received leaves the process once: as an*)
(* event of its own values, that nobody changes afterwards, or in one of   *)
(* the counters.                                                           *)
THEOREM CanonicalizerIsStage == CanonSpec => IsStage
<1>1. CanonInit => AbstractStage!StageInit /\ WiredIsTyped
  <2> SUFFICES ASSUME CanonInit PROVE AbstractStage!StageInit /\ WiredIsTyped
    OBVIOUS
  <2>1. /\ sent = 0 /\ handed = {} /\ rejected = {} /\ timedOut = {} /\ panicked = {}
        /\ phase = "serve" /\ lpc = "receive"
    BY DEF CanonInit, PoolInit
  <2>2. [m \in handed |-> wire[m]] = [m \in {} |-> m]
    BY <2>1
  <2>3. QED
    BY <2>1, <2>2 DEF AbstractStage!StageInit, WiredIsTyped, Wired
<1>2. CanonInv /\ WiredIsTyped /\ [CanonNext]_canonVars => WiredIsTyped'
  BY TypedStep, StepsAre
<1>3. CanonInv /\ NothingVanishes' /\ WiredIsTyped /\ [CanonNext]_canonVars
        => [AbstractStage!StageNext]_(AbstractStage!stageVars)
  <2> SUFFICES ASSUME CanonInv, NothingVanishes', WiredIsTyped, Steps
               PROVE  [AbstractStage!StageNext]_(AbstractStage!stageVars)
    BY StepsAre
  <2>1. StageInv
    BY DEF StageInv
  <2>2. QED
    BY <2>1, SubmitStages, WorkerStages, LoopStages, MainStages DEF Steps
<1>4. QED
  BY <1>1, <1>2, <1>3, CanonInvariant, ShutdownLosesNothing, PTL
     DEF CanonSpec, IsStage, AbstractStage!StageSpec

-----------------------------------------------------------------------------
(* What the stage adds to CanonInv: nothing is both handed on and counted, *)
(* and what was handed on for a message stays as it was.                   *)

Losses == rejected \cup timedOut \cup panicked
LeavesOnce == handed \cap Losses = {}
StaysAsSent == \A m \in handed : m \in handed' /\ wire'[m] = wire[m]

(* Only messages that came in have left, on one of the two ways.           *)
LeftAreTaken == sent \in Nat /\ handed \cup Losses \subseteq 1 .. sent /\ LeavesOnce

LEMMA StageStep ==
  ASSUME LeftAreTaken, [AbstractStage!StageNext]_(AbstractStage!stageVars)
  PROVE  LeftAreTaken' /\ StaysAsSent
<1> DEFINE res == [m \in handed |-> wire[m]]
<1>1. DOMAIN res = handed /\ DOMAIN res' = handed' /\ AbstractStage!Inside = (1 .. sent) \ (handed \cup Losses)
  BY DEF AbstractStage!Inside, Losses
<1>2. /\ \A m \in handed : res[m] = wire[m]
      /\ \A m \in handed' : res'[m] = wire'[m]
  OBVIOUS
<1> HIDE DEF res
<1>3. ASSUME res' = res PROVE handed' = handed /\ StaysAsSent
  BY <1>1, <1>2, <1>3 DEF StaysAsSent
<1>4. CASE AbstractStage!Take
  <2>1. res' = res /\ sent' = sent + 1 /\ Losses' \in {Losses, Losses \cup {sent'}}
    BY <1>4 DEF AbstractStage!Take, Losses, res
  <2>2. QED
    BY <1>3, <2>1 DEF LeftAreTaken, LeavesOnce
<1>5. CASE AbstractStage!Stop \/ AbstractStage!End \/ UNCHANGED AbstractStage!stageVars
  <2>1. res' = res /\ sent' = sent /\ Losses' = Losses
    BY <1>5 DEF AbstractStage!Stop, AbstractStage!End, AbstractStage!stageVars, Losses, res
  <2>2. QED
    BY <1>3, <2>1 DEF LeftAreTaken, LeavesOnce
<1>6. ASSUME NEW m \in AbstractStage!Inside, AbstractStage!HandOn(m)
      PROVE  LeftAreTaken' /\ StaysAsSent
  <2>1. /\ sent' = sent /\ Losses' = Losses
        /\ \E r : res' = [n \in DOMAIN res \cup {m} |-> IF n = m THEN r ELSE res[n]]
    BY <1>6 DEF AbstractStage!HandOn, Losses, res
  <2>2. m \in 1 .. sent /\ m \notin handed /\ m \notin Losses
    BY <1>1
  <2>3. handed' = handed \cup {m} /\ \A n \in handed : res'[n] = res[n]
    BY <1>1, <2>1, <2>2
  <2>4. QED
    BY <1>1, <1>2, <2>1, <2>2, <2>3 DEF LeftAreTaken, LeavesOnce, StaysAsSent
<1>7. ASSUME NEW m \in AbstractStage!Inside, AbstractStage!Drop(m)
      PROVE  LeftAreTaken' /\ StaysAsSent
  <2>1. res' = res /\ sent' = sent /\ Losses' = Losses \cup {m}
    BY <1>7 DEF AbstractStage!Drop, Losses, res
  <2>2. QED
    BY <1>1, <1>3, <2>1 DEF LeftAreTaken, LeavesOnce
<1>8. QED
  BY <1>4, <1>5, <1>6, <1>7 DEF AbstractStage!StageNext

(* A frame is never sent on and counted as lost too, a late worker and a   *)
(* Submit that races Stop included, and the recycling of events never      *)
(* changes what was sent on.                                               *)
THEOREM FramesLeaveOnce == CanonSpec => []LeavesOnce /\ [][StaysAsSent]_canonVars
<1>1. CanonInit => LeftAreTaken
  BY DEF CanonInit, PoolInit, LeftAreTaken, LeavesOnce, Losses
<1>2. LeftAreTaken /\ [AbstractStage!StageNext]_(AbstractStage!stageVars) => LeftAreTaken' /\ StaysAsSent
  BY StageStep
<1>3. LeftAreTaken => LeavesOnce
  BY DEF LeftAreTaken
<1>4. CanonSpec => [][AbstractStage!StageNext]_(AbstractStage!stageVars)
  BY CanonicalizerIsStage, PTL DEF IsStage, AbstractStage!StageSpec
<1>5. QED
  BY <1>1, <1>2, <1>3, <1>4, PTL DEF CanonSpec
===========================================================================
