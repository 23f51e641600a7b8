---------------------------- MODULE WorkerPool ----------------------------
(***************************************************************************)
(* src/pkg/workerpool/pool.go: a bounded pool of workers between an input  *)
(* channel and an output channel, with a counter next to the input channel *)
(* that the autoscaler reads.                                              *)
(*                                                                         *)
(* A step is one access to a channel, an atomic or the WaitGroup.  The     *)
(* sets rejected, timedOut and panicked are histories: what the counters   *)
(* dropped and errors count.                                               *)
(***************************************************************************)
EXTENDS Integers, Sequences, FiniteSets

CONSTANTS
  MaxMsgs,      \* bound: messages submitted
  Submitters,   \* goroutines that call Submit
  Workers,      \* worker goroutines; there are maxWorkers of them
  MinWorkers,   \* workers that Start spawns
  QueueSize,    \* capacity of each channel
  HighWater,    \* queue depth at which the autoscaler adds workers
  ScaleStep     \* workers it adds at most at a tick

Msgs == 1 .. MaxMsgs
MaxWorkers == Cardinality(Workers)

ASSUME MaxMsgsAssumption == MaxMsgs \in Nat
ASSUME SubmittersAssumption == IsFiniteSet(Submitters)
ASSUME WorkersAssumption == IsFiniteSet(Workers)
ASSUME MinWorkersAssumption == MinWorkers \in 1 .. MaxWorkers
ASSUME QueueSizeAssumption == QueueSize \in Nat \ {0}
ASSUME ScaleAssumption == HighWater \in Nat \ {0} /\ ScaleStep \in Nat \ {0}

VARIABLES
  input, output, outClosed,
  stopped, ctxDone,
  queueDepth, activeWorkers,
  wpc, wmsg,    \* where a worker is ("off": no goroutine) and its message
  draining,     \* workers in the inner loop, after ctx.Done
  spc, smsg,    \* where a Submit is and its message
  apc, toSpawn, \* where the autoscaler is, workers it has still to spawn
  stpc,         \* where Stop is
  sent,         \* messages submitted so far
  processed, rejected, timedOut, panicked

chanVars == <<input, output, outClosed>>
workerVars == <<activeWorkers, wpc, wmsg, draining>>
submitVars == <<spc, smsg, sent>>
scaleVars == <<apc, toSpawn>>
stopVars == <<stopped, ctxDone, stpc>>
countVars == <<processed, rejected, timedOut, panicked>>
poolVars == <<chanVars, queueDepth, workerVars, submitVars, scaleVars, stopVars, countVars>>

NoMsg == 0

(* Start has returned: MinWorkers workers and the autoscaler run.          *)
PoolInit ==
  /\ input = <<>> /\ output = <<>> /\ outClosed = FALSE
  /\ stopped = FALSE /\ ctxDone = FALSE
  /\ queueDepth = 0 /\ activeWorkers = MinWorkers
  /\ \E W \in SUBSET Workers :
       /\ Cardinality(W) = MinWorkers
       /\ wpc = [w \in Workers |-> IF w \in W THEN "select" ELSE "off"]
  /\ wmsg = [w \in Workers |-> NoMsg] /\ draining = {}
  /\ spc = [s \in Submitters |-> "idle"] /\ smsg = [s \in Submitters |-> NoMsg]
  /\ apc = "tick" /\ toSpawn = 0
  /\ stpc = "idle" /\ sent = 0
  /\ processed = {} /\ rejected = {} /\ timedOut = {} /\ panicked = {}

PoolTypeOK ==
  /\ input \in Seq(Msgs) /\ Len(input) <= QueueSize
  /\ output \in Seq(Msgs) /\ Len(output) <= QueueSize
  /\ outClosed \in BOOLEAN /\ stopped \in BOOLEAN /\ ctxDone \in BOOLEAN
  /\ queueDepth \in -Cardinality(Submitters) .. QueueSize + MaxWorkers
  /\ activeWorkers \in 0 .. MaxWorkers
  /\ wpc \in [Workers -> {"off", "select", "count", "process", "deliver"}]
  /\ wmsg \in [Workers -> Msgs \cup {NoMsg}]
  /\ draining \in SUBSET Workers
  /\ spc \in [Submitters -> {"idle", "push", "count"}]
  /\ smsg \in [Submitters -> Msgs \cup {NoMsg}]
  /\ apc \in {"tick", "read", "spawn", "check", "exit"} /\ toSpawn \in 0 .. ScaleStep
  /\ stpc \in {"idle", "cancel", "wait", "close", "done"}
  /\ sent \in 0 .. MaxMsgs
  /\ processed \in SUBSET Msgs /\ rejected \in SUBSET Msgs
  /\ timedOut \in SUBSET Msgs /\ panicked \in SUBSET Msgs

-----------------------------------------------------------------------------
(* Submit.                                                                 *)

SubmitBegins(s) ==
  /\ spc[s] = "idle" /\ sent < MaxMsgs
  /\ sent' = sent + 1
  /\ IF stopped
       THEN rejected' = rejected \cup {sent'} /\ UNCHANGED <<spc, smsg>>
       ELSE /\ spc' = [spc EXCEPT ![s] = "push"]
            /\ smsg' = [smsg EXCEPT ![s] = sent']
            /\ UNCHANGED rejected
  /\ UNCHANGED <<chanVars, queueDepth, workerVars, scaleVars, stopVars, processed, timedOut, panicked>>

SubmitPushes(s) ==
  /\ spc[s] = "push" /\ Len(input) < QueueSize
  /\ input' = Append(input, smsg[s])
  /\ spc' = [spc EXCEPT ![s] = "count"]
  /\ UNCHANGED <<output, outClosed, queueDepth, workerVars, smsg, sent, scaleVars, stopVars, countVars>>

(* The channel is full: backpressure.                                      *)
SubmitRejects(s) ==
  /\ spc[s] = "push" /\ Len(input) = QueueSize
  /\ rejected' = rejected \cup {smsg[s]}
  /\ spc' = [spc EXCEPT ![s] = "idle"] /\ smsg' = [smsg EXCEPT ![s] = NoMsg]
  /\ UNCHANGED <<chanVars, queueDepth, workerVars, sent, scaleVars, stopVars, processed, timedOut, panicked>>

SubmitCounts(s) ==
  /\ spc[s] = "count"
  /\ queueDepth' = queueDepth + 1
  /\ spc' = [spc EXCEPT ![s] = "idle"] /\ smsg' = [smsg EXCEPT ![s] = NoMsg]
  /\ UNCHANGED <<chanVars, workerVars, sent, scaleVars, stopVars, countVars>>

Submit(s) == SubmitBegins(s) \/ SubmitPushes(s) \/ SubmitRejects(s) \/ SubmitCounts(s)

-----------------------------------------------------------------------------
(* worker.  Its select may take a message although ctx is done.            *)

WorkerTakes(w) ==
  /\ wpc[w] = "select" /\ input # <<>>
  /\ wmsg' = [wmsg EXCEPT ![w] = Head(input)]
  /\ input' = Tail(input)
  /\ wpc' = [wpc EXCEPT ![w] = "count"]
  /\ UNCHANGED <<output, outClosed, queueDepth, activeWorkers, draining, submitVars, scaleVars, stopVars, countVars>>

WorkerSeesDone(w) ==
  /\ wpc[w] = "select" /\ ctxDone /\ w \notin draining
  /\ draining' = draining \cup {w}
  /\ UNCHANGED <<chanVars, queueDepth, activeWorkers, wpc, wmsg, submitVars, scaleVars, stopVars, countVars>>

(* Mistake: the inner loop does not count down.                            *)
WorkerCountsOnce(w) ==
  /\ wpc[w] = "count"
  /\ queueDepth' = IF w \in draining THEN queueDepth ELSE queueDepth - 1
  /\ wpc' = [wpc EXCEPT ![w] = "process"]
  /\ UNCHANGED <<chanVars, activeWorkers, wmsg, draining, submitVars, scaleVars, stopVars, countVars>>

WorkerCounts(w) ==
  /\ wpc[w] = "count"
  /\ queueDepth' = queueDepth - 1
  /\ wpc' = [wpc EXCEPT ![w] = "process"]
  /\ UNCHANGED <<chanVars, activeWorkers, wmsg, draining, submitVars, scaleVars, stopVars, countVars>>

(* The processor returns, with a result or an error: both go downstream.   *)
WorkerProcesses(w) ==
  /\ wpc[w] = "process"
  /\ processed' = processed \cup {wmsg[w]}
  /\ wpc' = [wpc EXCEPT ![w] = "deliver"]
  /\ UNCHANGED <<chanVars, queueDepth, activeWorkers, wmsg, draining, submitVars, scaleVars, stopVars, rejected, timedOut, panicked>>

LeaveMessage(w) ==
  /\ wpc' = [wpc EXCEPT ![w] = "select"]
  /\ wmsg' = [wmsg EXCEPT ![w] = NoMsg]
  /\ UNCHANGED <<activeWorkers, draining>>

(* A panic of the processor, or of a send on the closed output channel, is *)
(* recovered in processMessage.                                            *)
WorkerPanics(w) ==
  /\ wpc[w] = "process" \/ (wpc[w] = "deliver" /\ outClosed)
  /\ panicked' = panicked \cup {wmsg[w]}
  /\ LeaveMessage(w)
  /\ UNCHANGED <<chanVars, queueDepth, submitVars, scaleVars, stopVars, processed, rejected, timedOut>>

WorkerDelivers(w) ==
  /\ wpc[w] = "deliver" /\ Len(output) < QueueSize /\ ~outClosed
  /\ output' = Append(output, wmsg[w])
  /\ LeaveMessage(w)
  /\ UNCHANGED <<input, outClosed, queueDepth, submitVars, scaleVars, stopVars, countVars>>

(* Mistake: the timer does not run while the pool drains.                  *)
WorkerGivesUpServing(w) ==
  /\ wpc[w] = "deliver" /\ Len(output) = QueueSize /\ ~ctxDone
  /\ timedOut' = timedOut \cup {wmsg[w]}
  /\ LeaveMessage(w)
  /\ UNCHANGED <<chanVars, queueDepth, submitVars, scaleVars, stopVars, processed, rejected, panicked>>

(* One second passes and the output channel is still full.                 *)
WorkerGivesUp(w) ==
  /\ wpc[w] = "deliver" /\ Len(output) = QueueSize /\ ~outClosed
  /\ timedOut' = timedOut \cup {wmsg[w]}
  /\ LeaveMessage(w)
  /\ UNCHANGED <<chanVars, queueDepth, submitVars, scaleVars, stopVars, processed, rejected, panicked>>

(* Mistake: the worker leaves at ctx.Done without draining the queue.      *)
WorkerExitsAtOnce(w) ==
  /\ wpc[w] = "select" /\ w \in draining
  /\ wpc' = [wpc EXCEPT ![w] = "off"]
  /\ draining' = draining \ {w}
  /\ activeWorkers' = activeWorkers - 1
  /\ UNCHANGED <<chanVars, queueDepth, wmsg, submitVars, scaleVars, stopVars, countVars>>

(* Mistake: the worker is counted down in the loop and in its defer.       *)
WorkerExitsTwice(w) ==
  /\ wpc[w] = "select" /\ w \in draining /\ input = <<>>
  /\ wpc' = [wpc EXCEPT ![w] = "off"]
  /\ draining' = draining \ {w}
  /\ activeWorkers' = activeWorkers - 2
  /\ UNCHANGED <<chanVars, queueDepth, wmsg, submitVars, scaleVars, stopVars, countVars>>

WorkerExits(w) ==
  /\ wpc[w] = "select" /\ w \in draining /\ input = <<>>
  /\ wpc' = [wpc EXCEPT ![w] = "off"]
  /\ draining' = draining \ {w}
  /\ activeWorkers' = activeWorkers - 1
  /\ UNCHANGED <<chanVars, queueDepth, wmsg, submitVars, scaleVars, stopVars, countVars>>

-----------------------------------------------------------------------------
(* autoscaler.  It is not in the WaitGroup, and workers are never scaled   *)
(* down.                                                                   *)

ScaleTick ==
  /\ apc = "tick" /\ queueDepth >= HighWater
  /\ apc' = "read"
  /\ UNCHANGED <<chanVars, queueDepth, workerVars, submitVars, toSpawn, stopVars, countVars>>

ScaleReads ==
  /\ apc = "read"
  /\ toSpawn' = IF MaxWorkers - activeWorkers < ScaleStep
                  THEN MaxWorkers - activeWorkers ELSE ScaleStep
  /\ apc' = "spawn"
  /\ UNCHANGED <<chanVars, queueDepth, workerVars, submitVars, stopVars, countVars>>

ScaleEnds ==
  /\ apc = "spawn" /\ toSpawn = 0
  /\ apc' = "tick"
  /\ UNCHANGED <<chanVars, queueDepth, workerVars, submitVars, toSpawn, stopVars, countVars>>

(* spawnWorker counts first and looks at the limit then.  Only the         *)
(* autoscaler counts up, so after ScaleReads the limit never refuses.      *)
SpawnCounts ==
  /\ apc = "spawn" /\ toSpawn > 0
  /\ toSpawn' = toSpawn - 1
  /\ activeWorkers' = activeWorkers + 1
  /\ apc' = "check"
  /\ UNCHANGED <<chanVars, queueDepth, wpc, wmsg, draining, submitVars, stopVars, countVars>>

(* The goroutine is in the WaitGroup from here on.                         *)
SpawnStarts ==
  /\ apc = "check"
  /\ \E w \in Workers : wpc[w] = "off" /\ wpc' = [wpc EXCEPT ![w] = "select"]
  /\ apc' = "spawn"
  /\ UNCHANGED <<chanVars, queueDepth, activeWorkers, wmsg, draining, submitVars, toSpawn, stopVars, countVars>>

ScaleStops ==
  /\ apc = "tick" /\ ctxDone
  /\ apc' = "exit"
  /\ UNCHANGED <<chanVars, queueDepth, workerVars, submitVars, toSpawn, stopVars, countVars>>

Autoscaler ==
  ScaleTick \/ ScaleReads \/ ScaleEnds \/ SpawnCounts \/ SpawnStarts \/ ScaleStops

-----------------------------------------------------------------------------
(* Stop: the flag, the cancel, the WaitGroup, the output channel.          *)

StopMarks ==
  /\ stpc = "idle"
  /\ stopped' = TRUE /\ stpc' = "cancel"
  /\ UNCHANGED <<chanVars, queueDepth, workerVars, submitVars, scaleVars, ctxDone, countVars>>

StopCancels ==
  /\ stpc = "cancel"
  /\ ctxDone' = TRUE /\ stpc' = "wait"
  /\ UNCHANGED <<chanVars, queueDepth, workerVars, submitVars, scaleVars, stopped, countVars>>

StopWaits ==
  /\ stpc = "wait" /\ \A w \in Workers : wpc[w] = "off"
  /\ stpc' = "close"
  /\ UNCHANGED <<chanVars, queueDepth, workerVars, submitVars, scaleVars, stopped, ctxDone, countVars>>

(* Mistake: the output channel stays open.                                 *)
StopReturnsOpen ==
  /\ stpc = "close"
  /\ stpc' = "done"
  /\ UNCHANGED <<chanVars, queueDepth, workerVars, submitVars, scaleVars, stopped, ctxDone, countVars>>

StopCloses ==
  /\ stpc = "close"
  /\ outClosed' = TRUE /\ stpc' = "done"
  /\ UNCHANGED <<input, output, queueDepth, workerVars, submitVars, scaleVars, stopped, ctxDone, countVars>>

StopRuns == StopCancels \/ StopWaits \/ StopCloses
===========================================================================
