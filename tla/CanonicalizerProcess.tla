----------------------- MODULE CanonicalizerProcess -----------------------
(***************************************************************************)
(* src/cmd/canonicalizer/main.go: the handlers of the inbound server submit*)
(* to the pool, the output loop encodes what the pool puts out and hands it*)
(* to the IPC client, and main shuts the three down in this order.         *)
(***************************************************************************)
EXTENDS Canonicalizer

VARIABLES
  phase,   \* main: "serve", "pool" (pool.Stop), "drain" (<-outputDone), "down"
  lpc,     \* the output loop: "receive", "encode", "send", "done"
  lmsg,    \* its message
  wire,    \* wire[m]: what was encoded for m
  handed   \* messages Send has taken, or whose failure was logged

procVars == <<phase, lpc, lmsg, wire, handed>>
canonVars == <<poolVars, eventVars, procVars>>

CanonInit ==
  /\ PoolInit /\ EventsInit
  /\ phase = "serve" /\ lpc = "receive" /\ lmsg = NoMsg
  /\ wire = [m \in Msgs |-> Blank]
  /\ handed = {}

TypeOK ==
  /\ PoolTypeOK /\ EventsTypeOK
  /\ phase \in {"serve", "pool", "drain", "down"}
  /\ lpc \in {"receive", "encode", "send", "done"} /\ lmsg \in Msgs \cup {NoMsg}
  /\ wire \in [Msgs -> Contents]
  /\ handed \in SUBSET Msgs

-----------------------------------------------------------------------------
(* The output loop.                                                        *)

LoopReceives ==
  /\ lpc = "receive" /\ output # <<>> /\ canon[Head(output)] # NoEvent
  /\ lmsg' = Head(output) /\ output' = Tail(output)
  /\ lpc' = "encode"
  /\ UNCHANGED <<input, outClosed, queueDepth, workerVars, submitVars, scaleVars, stopVars, countVars>>
  /\ UNCHANGED <<eventVars, phase, wire, handed>>

(* The message comes without an event: one is made of its source, payload  *)
(* and times.                                                              *)
LoopFallsBack ==
  /\ lpc = "receive" /\ output # <<>> /\ canon[Head(output)] = NoEvent
  /\ lmsg' = Head(output) /\ output' = Tail(output)
  /\ \E e \in Acquirable :
       /\ free' = free \ {e}
       /\ content' = [content EXCEPT ![e] = [Found(e) EXCEPT !.main = lmsg', !.type = "TRADE"]]
       /\ canon' = [canon EXCEPT ![lmsg'] = e]
  /\ lpc' = "encode"
  /\ UNCHANGED <<input, outClosed, queueDepth, workerVars, submitVars, scaleVars, stopVars, countVars>>
  /\ UNCHANGED <<kind, phase, wire, handed>>

(* Encoding copies, so the event is released whether it failed or not.     *)
LoopEncodes ==
  /\ lpc = "encode"
  /\ wire' = [wire EXCEPT ![lmsg] = Encoded(content[canon[lmsg]])]
  /\ Release(canon[lmsg])
  /\ canon' = [canon EXCEPT ![lmsg] = NoEvent]
  /\ lpc' = "send"
  /\ UNCHANGED <<poolVars, kind, phase, lmsg, handed>>

(* Send.  That it failed, or the encoding did, is logged.                  *)
LoopSends ==
  /\ lpc = "send"
  /\ handed' = handed \cup {lmsg}
  /\ lpc' = "receive" /\ lmsg' = NoMsg
  /\ UNCHANGED <<poolVars, eventVars, phase, wire>>

LoopEnds ==
  /\ lpc = "receive" /\ output = <<>> /\ outClosed
  /\ lpc' = "done"
  /\ UNCHANGED <<poolVars, eventVars, phase, lmsg, wire, handed>>

OutputLoop ==
  LoopReceives \/ LoopFallsBack \/ LoopEncodes \/ LoopSends \/ LoopEnds

-----------------------------------------------------------------------------
(* The workers run Process, which recovers from its own panics.            *)

Worker(w) ==
  /\ \/ WorkerProcesses(w) /\ Process(wmsg[w])
     \/ WorkerGivesUp(w) /\ Forget(wmsg[w])
     \/ wpc[w] = "deliver" /\ WorkerPanics(w) /\ Forget(wmsg[w])
     \/ /\ \/ WorkerTakes(w) \/ WorkerSeesDone(w) \/ WorkerCounts(w)
           \/ WorkerDelivers(w) \/ WorkerExits(w)
        /\ UNCHANGED eventVars
  /\ UNCHANGED procVars

-----------------------------------------------------------------------------
(* main.                                                                   *)

Handler(s) ==
  /\ phase = "serve" \/ spc[s] # "idle"
  /\ Submit(s)
  /\ UNCHANGED <<eventVars, procVars>>

(* Mistake: inSrv.Stop returns while handlers run.                         *)
MainStopsServerAtOnce ==
  /\ phase = "serve"
  /\ phase' = "pool"
  /\ UNCHANGED <<poolVars, eventVars, lpc, lmsg, wire, handed>>

(* inSrv.Stop waits for the handlers.                                      *)
MainStopsServer ==
  /\ phase = "serve" /\ \A s \in Submitters : spc[s] = "idle"
  /\ phase' = "pool"
  /\ UNCHANGED <<poolVars, eventVars, lpc, lmsg, wire, handed>>

MainStopsPool == phase = "pool" /\ StopMarks /\ UNCHANGED <<eventVars, procVars>>

MainAfterPool ==
  /\ phase = "pool" /\ stpc = "done"
  /\ phase' = "drain"
  /\ UNCHANGED <<poolVars, eventVars, lpc, lmsg, wire, handed>>

MainAfterLoop ==
  /\ phase = "drain" /\ lpc = "done"
  /\ phase' = "down"
  /\ UNCHANGED <<poolVars, eventVars, lpc, lmsg, wire, handed>>

MainShutsDown == MainStopsPool \/ MainAfterPool \/ MainAfterLoop

CanonOver == phase = "down" /\ UNCHANGED canonVars

CanonNext ==
  \/ \E s \in Submitters : Handler(s)
  \/ \E w \in Workers : Worker(w)
  \/ Autoscaler /\ UNCHANGED <<eventVars, procVars>>
  \/ StopRuns /\ UNCHANGED <<eventVars, procVars>>
  \/ OutputLoop
  \/ MainStopsServer \/ MainShutsDown
  \/ CanonOver

CanonSpec == CanonInit /\ [][CanonNext]_canonVars

(* Goroutines that can run run; the 1s timer of a blocked output fires.    *)
(* Handlers submit and main is told to stop when they like.                *)
PoolFair ==
  /\ \A s \in Submitters : WF_canonVars(spc[s] # "idle" /\ Handler(s))
  /\ \A w \in Workers : WF_canonVars(Worker(w))
  /\ WF_canonVars(Autoscaler /\ UNCHANGED <<eventVars, procVars>>)
  /\ WF_canonVars(StopRuns /\ UNCHANGED <<eventVars, procVars>>)
  /\ WF_canonVars(MainShutsDown)

CanonFairSpec == CanonSpec /\ PoolFair

-----------------------------------------------------------------------------
(* queueDepth, which the autoscaler, the health check and the metrics read,*)
(* is the length of the input channel but for the Submits and the workers  *)
(* that are between the channel and the counter.                           *)
DepthIsQueue ==
  queueDepth = Len(input)
                 - Cardinality({s \in Submitters : spc[s] = "count"})
                 + Cardinality({w \in Workers : wpc[w] = "count"})

(* "Graceful, lossless": after the shutdown every frame the handlers       *)
(* received has gone to the IPC client or is in a counter or a warning.    *)
NothingVanishes ==
  phase = "down" =>
    1 .. sent = handed \cup rejected \cup timedOut \cup panicked

(* The process is the stage of Stage: every frame leaves it once, as an    *)
(* event of its own values or in a counter, and none is left in it when it *)
(* is down.                                                                *)
AbstractStage == INSTANCE Stage WITH
  Types <- EventTypes, taken <- sent, result <- [m \in handed |-> wire[m]],
  counted <- rejected \cup timedOut \cup panicked,
  stopping <- (phase # "serve"), over <- (phase = "down")

IsStage == AbstractStage!StageSpec

(* Nobody sends on the closed output channel, late Submits and workers the *)
(* autoscaler spawns during Stop included.                                 *)
NoSendOnClosed == outClosed => \A w \in Workers : wmsg[w] = NoMsg

(* "Pooling is therefore use-after-reset free": an event that goes out has *)
(* the values of its own message only, none of an earlier user of the      *)
(* event, and none of a later one that had it before it was encoded.       *)
WireIsOwn == \A m \in handed : wire[m].main = m /\ wire[m].rest \subseteq {m}

(* pool.Stop ends although nobody reads the output channel.                *)
PoolStopTerminates == stpc = "cancel" ~> stpc = "done"

(* The shutdown of the process ends: the output loop sees the channel      *)
(* closed, and main does not wait for ever, if Send always returns.        *)
ShutdownTerminates ==
  WF_canonVars(OutputLoop) => (phase = "pool" ~> phase = "down")

-----------------------------------------------------------------------------
(* What a comment says and the code does not do: "a lossless "UNKNOWN"     *)
(* fallback ... Used on parse error or unknown source".                    *)
FallbackIsUnknown ==
  \A m \in handed : kind[m] = "malformed" => wire[m].type = "UNKNOWN"
===========================================================================
