-------------------------- MODULE PublisherProofs --------------------------
(***************************************************************************)
(* The supervised publisher for every number of processes and handlers,    *)
(* every number of retries and crashes, and every timeout.                 *)
(***************************************************************************)
EXTENDS SupervisedPublisher, FiniteSetTheorems, TLAPS

-----------------------------------------------------------------------------
(* The supervisor, by its own variables                                    *)

(* The manager stands at a process, or has passed all of them.             *)
TurnFits ==
  /\ mgr = "starts" => turn \in Procs
  /\ mgr \in {"stops", "waits"} => turn \in 0 .. NumProcs
  /\ mgr = "waits" => turn \in Procs

(* A monitor that goes on has retries left.                                *)
RetriesLeft == \A p \in Procs : mpc[p] # "done" => ~Exhausted(restarts[p])

(* There is a child only between the start of a command and its wait.      *)
ChildHasMonitor ==
  \A p \in Procs : child[p] # "none" => mpc[p] \in {"assign", "wait"}

(* A Stop has returned only after the monitor.                             *)
ReturnedIsDone == \A p \in Procs : spc[p] = "returned" => mpc[p] = "done"

(* StopAll has passed only processes whose Stop has returned.              *)
PassedIsStopped ==
  /\ mgr \in {"stops", "waits"}
       => \A p \in Procs : p > turn => spc[p] = "returned"
  /\ mgr = "down" => \A p \in Procs : spc[p] = "returned"

SupInv ==
  /\ SupTypeOK /\ TurnFits /\ RetriesLeft
  /\ ChildHasMonitor /\ ReturnedIsDone /\ PassedIsStopped

(* What a step of the whole does to the supervisor's variables.            *)
OnlyEnds(p) == ChildEnds(p) /\ UNCHANGED <<cmd, mpc, restarts, stopperVars, managerVars>>
SignalsOrEnds(p) == StopSignals(p) /\ (UNCHANGED child \/ ChildEnds(p))
ProcessMoves(p) ==
  \/ MonitorRuns(p) \/ MonitorStarts(p) \/ MonitorStartFails(p)
  \/ StopRuns(p) \/ SignalsOrEnds(p) \/ OnlyEnds(p) \/ StopsOne(p)
SupMoves ==
  \/ \E p \in Procs : ProcessMoves(p)
  \/ StartsNext \/ StopAllBegins \/ StopAllRuns \/ GracePasses

LEMMA SupView == SupInv /\ [SupervisedNext]_allVars => SupMoves \/ UNCHANGED supVars
<1> SUFFICES ASSUME [SupervisedNext]_allVars PROVE SupMoves \/ UNCHANGED supVars
  OBVIOUS
<1>0. Publisher \in Procs
  BY SupervisorAssumption DEF Publisher, Procs
<1>1. ASSUME NEW p \in Procs, Monitor(p) \/ StartFails(p) \/ Stop(p) \/ Crashes(p) \/ Obeys(p)
      PROVE SupMoves
  <2>1. CASE Monitor(p)
    BY <2>1 DEF Monitor, StartsChild, SupMoves, ProcessMoves
  <2>2. CASE StartFails(p)
    BY <2>2 DEF StartFails, SupMoves, ProcessMoves
  <2>3. CASE StopRuns(p)
    BY <2>3 DEF SupMoves, ProcessMoves
  <2>4. CASE SignalsChild(p)
    BY <2>4 DEF SignalsChild, SupMoves, ProcessMoves, SignalsOrEnds
  <2>5. CASE KillsChild(p)
    BY <2>5 DEF KillsChild, Kills, SupMoves, ProcessMoves, OnlyEnds
  <2>6. CASE Crashes(p) \/ Obeys(p)
    BY <2>6 DEF Crashes, Obeys, EndsOthers, SupMoves, ProcessMoves, OnlyEnds
  <2>7. QED
    BY <1>1, <2>1, <2>2, <2>3, <2>4, <2>5, <2>6 DEF Stop
<1>2. CASE \E p \in Alone : StopsOne(p)
  BY <1>2, CrashAssumption DEF SupMoves, ProcessMoves
<1>3. CASE ManagerRuns \/ StopAllBegins
  BY <1>3 DEF ManagerRuns, SupMoves
<1>4. CASE TimePasses
  BY <1>4 DEF TimePasses, SupMoves
<1>5. CASE PublisherRuns
  BY <1>5 DEF PublisherRuns
<1>6. CASE PublisherExits \/ PublisherBootFails
  BY <1>0, <1>6 DEF PublisherExits, PublisherBootFails, EndsOthers, SupMoves, ProcessMoves, OnlyEnds
<1>7. CASE SupervisedOver \/ UNCHANGED allVars
  BY <1>7 DEF SupervisedOver, allVars
<1>8. QED
  BY <1>1, <1>2, <1>3, <1>4, <1>5, <1>6, <1>7 DEF SupervisedNext

LEMMA SupInit0 == SupInit => SupInv
BY SupervisorAssumption
   DEF SupInit, SupInv, SupTypeOK, TurnFits, RetriesLeft, ChildHasMonitor,
       ReturnedIsDone, PassedIsStopped, Exhausted, MonitorPc, Procs

LEMMA MonitorKeepsSupInv ==
  ASSUME SupInv, NEW p \in Procs, MonitorRuns(p) \/ MonitorStarts(p) \/ MonitorStartFails(p)
  PROVE  SupInv'
<1> USE SupervisorAssumption
  DEF SupInv, SupTypeOK, TurnFits, RetriesLeft, ChildHasMonitor, ReturnedIsDone,
      PassedIsStopped, MonitorPc, Goes, stopperVars, managerVars
<1>1. CASE MonitorTop(p)
  BY <1>1 DEF MonitorTop
<1>2. CASE MonitorAssigns(p)
  BY <1>2 DEF MonitorAssigns
<1>3. CASE MonitorReaps(p)
  BY <1>3 DEF MonitorReaps
<1>4. CASE MonitorChecks(p)
  BY <1>4 DEF MonitorChecks
<1>5. CASE MonitorCounts(p)
  BY <1>5 DEF MonitorCounts, Exhausted
<1>6. CASE MonitorBacksOff(p)
  BY <1>6 DEF MonitorBacksOff
<1>7. CASE MonitorStarts(p)
  BY <1>7 DEF MonitorStarts
<1>8. CASE MonitorStartFails(p)
  BY <1>8 DEF MonitorStartFails
<1>9. QED
  BY <1>1, <1>2, <1>3, <1>4, <1>5, <1>6, <1>7, <1>8 DEF MonitorRuns

LEMMA StopKeepsSupInv ==
  ASSUME SupInv, NEW p \in Procs,
         StopRuns(p) \/ SignalsOrEnds(p) \/ OnlyEnds(p) \/ StopsOne(p)
  PROVE  SupInv'
<1> USE SupervisorAssumption
  DEF SupInv, SupTypeOK, TurnFits, RetriesLeft, ChildHasMonitor, ReturnedIsDone,
      PassedIsStopped, MonitorPc, StopMoves, ChildEnds, monitorVars, stopperVars, managerVars
<1>1. CASE StopCancels(p)
  BY <1>1 DEF StopCancels
<1>2. CASE StopReturns(p)
  BY <1>2 DEF StopReturns
<1>3. CASE SignalsOrEnds(p)
  BY <1>3 DEF SignalsOrEnds, StopSignals
<1>4. CASE OnlyEnds(p)
  BY <1>4 DEF OnlyEnds
<1>5. CASE StopsOne(p)
  BY <1>5 DEF StopsOne, StopBegins, Procs
<1>6. QED
  BY <1>1, <1>2, <1>3, <1>4, <1>5 DEF StopRuns

LEMMA ManagerKeepsSupInv ==
  ASSUME SupInv, StartsNext \/ StopAllBegins \/ StopAllRuns \/ GracePasses
  PROVE  SupInv'
<1> USE SupervisorAssumption
  DEF SupInv, SupTypeOK, TurnFits, RetriesLeft, ChildHasMonitor, ReturnedIsDone,
      PassedIsStopped, MonitorPc, Procs, monitorVars, stopperVars, managerVars
<1>1. CASE StartsNext
  BY <1>1 DEF StartsNext, Goes
<1>2. CASE StopAllBegins
  BY <1>2 DEF StopAllBegins
<1>3. CASE StopsNext
  BY <1>3 DEF StopsNext, StopBegins, StopMoves
<1>4. CASE StopAllWaits
  <2>1. turn' = turn - 1 /\ spc' = spc /\ turn \in 1 .. NumProcs
    BY <1>4 DEF StopAllWaits
  <2>2. \A p \in Procs : p > turn' => spc'[p] = "returned"
    BY <1>4, <2>1 DEF StopAllWaits
  <2>3. QED
    BY <1>4, <2>1, <2>2 DEF StopAllWaits
<1>5. CASE StopAllReturns
  BY <1>5 DEF StopAllReturns
<1>6. CASE GracePasses
  BY <1>6 DEF GracePasses, InGrace
<1>7. QED
  BY <1>1, <1>2, <1>3, <1>4, <1>5, <1>6 DEF StopAllRuns

LEMMA SupStep == SupInv /\ [SupervisedNext]_allVars => SupInv'
<1> SUFFICES ASSUME SupInv, [SupervisedNext]_allVars PROVE SupInv'
  OBVIOUS
<1>1. SupMoves \/ UNCHANGED supVars
  BY SupView
<1>2. CASE SupMoves
  BY <1>2, MonitorKeepsSupInv, StopKeepsSupInv, ManagerKeepsSupInv DEF SupMoves, ProcessMoves
<1>3. CASE UNCHANGED supVars
  BY <1>3
     DEF supVars, monitorVars, stopperVars, managerVars, SupInv, SupTypeOK, TurnFits,
         RetriesLeft, ChildHasMonitor, ReturnedIsDone, PassedIsStopped, Exhausted
<1>4. QED
  BY <1>1, <1>2, <1>3

-----------------------------------------------------------------------------
(* The publisher, by its own variables                                     *)

(* A handler that is not idle has a frame, which is not in the spool yet.  *)
Holding == {h \in Handlers : hpc[h] # "idle"}
FramesAddUp == spooled + discarded + Cardinality(Holding) <= received

PubNats == spooled \in Nat /\ discarded \in Nat /\ received \in Nat

(* A socket that opens gets a heartbeat; only an open one is closed.       *)
ZmqInOrder ==
  /\ zsock = "open" => hb # "off"
  /\ phase \in {"stop zmq", "close zmq"} => zsock = "open"

HandlerTypes == hpc \in [Handlers -> {"idle", "publish", "send", "forward"}]

PubInv == PubTypeOK /\ PubNats /\ FramesAddUp /\ ZmqInOrder /\ StagesAreQuiet

(* What a step of the whole does to the publisher's variables.             *)
PubMoves ==
  \/ PubBoots \/ PubDies \/ PubTrapsTerm \/ OutsideTerm
  \/ MainRuns
  \/ Heartbeat /\ UNCHANGED <<phase, term, outside, flushLeft, hpc, received, spooled, discarded>>
  \/ \E h \in Handlers : HandlerReceives(h) \/ HandlerRuns(h)
  \/ ClientDrains \/ FlushPasses

LEMMA PubView == [SupervisedNext]_allVars => PubMoves \/ UNCHANGED pubVars
<1> SUFFICES ASSUME [SupervisedNext]_allVars PROVE PubMoves \/ UNCHANGED pubVars
  OBVIOUS
<1> USE DEF PubMoves
<1>1. ASSUME NEW p \in Procs, Monitor(p) \/ StartFails(p) \/ Stop(p) \/ Crashes(p) \/ Obeys(p)
      PROVE PubMoves \/ UNCHANGED pubVars
  BY <1>1 DEF Monitor, StartsChild, StartFails, Stop, SignalsChild, KillsChild, Crashes, Obeys, Dies
<1>2. CASE (\E p \in Alone : StopsOne(p) /\ UNCHANGED <<pubVars, crashes>>)
           \/ ManagerRuns \/ (StopAllBegins /\ UNCHANGED <<pubVars, crashes>>)
  BY <1>2 DEF ManagerRuns
<1>3. CASE TimePasses
  BY <1>3 DEF TimePasses
<1>4. CASE PublisherRuns
  BY <1>4 DEF PublisherRuns
<1>5. CASE PublisherExits \/ PublisherBootFails
  BY <1>5 DEF PublisherExits, PublisherBootFails
<1>6. CASE SupervisedOver \/ UNCHANGED allVars
  BY <1>6 DEF SupervisedOver, allVars
<1>7. QED
  BY <1>1, <1>2, <1>3, <1>4, <1>5, <1>6 DEF SupervisedNext

LEMMA HoldingIsFinite == IsFiniteSet(Holding) /\ Cardinality(Holding) \in Nat
<1>1. Holding \subseteq Handlers
  BY DEF Holding
<1>2. QED
  BY <1>1, FS_Subset, FS_CardinalityType, PublisherAssumption

LEMMA HoldingStaysFinite == Cardinality(Holding)' \in Nat
<1>1. Holding' \subseteq Handlers
  BY DEF Holding
<1>2. QED
  BY <1>1, FS_Subset, FS_CardinalityType, PublisherAssumption

(* Nobody holds a frame.                                                   *)
LEMMA IdleHoldsNone == (\A h \in Handlers : hpc[h] = "idle") => Cardinality(Holding) = 0
<1> SUFFICES ASSUME \A h \in Handlers : hpc[h] = "idle" PROVE Cardinality(Holding) = 0
  OBVIOUS
<1>1. Holding = {}
  BY DEF Holding
<1>2. QED
  BY <1>1, FS_EmptySet

LEMMA PubInit0 == PubInit => PubInv
<1> SUFFICES ASSUME PubInit PROVE PubInv
  OBVIOUS
<1>1. Cardinality(Holding) = 0
  BY IdleHoldsNone DEF PubInit
<1>2. PubNats /\ FramesAddUp
  BY <1>1 DEF PubInit, PubNats, FramesAddUp
<1>3. PubTypeOK
  <2>1. ZmqTypeOK /\ {term, outside} \subseteq BOOLEAN
    BY DEF PubInit, ZmqIsNew, ZmqTypeOK
  <2>2. QED
    BY <2>1, PublisherAssumption DEF PubInit, PubTypeOK, Phase
<1>4. ZmqInOrder /\ StagesAreQuiet
  BY DEF PubInit, ZmqInOrder, StagesAreQuiet, ZmqIsNew
<1>5. QED
  BY <1>2, <1>3, <1>4 DEF PubInv

-----------------------------------------------------------------------------
(* The frames: a handler that takes one holds one more, one that forwards  *)
(* it one less, and in between the number is the same.                     *)
LEMMA FramesKept ==
  ASSUME PubNats, FramesAddUp, HandlerTypes, PubMoves
  PROVE  PubNats' /\ FramesAddUp'
<1> USE DEF PubNats, FramesAddUp, HandlerTypes
<1>0. Cardinality(Holding) \in Nat /\ IsFiniteSet(Holding)
  BY HoldingIsFinite
<1>1. CASE PubDies
  <2>1. Holding' = {}
    BY <1>1 DEF Holding, PubDies
  <2>2. Cardinality(Holding') = 0
    BY <2>1, FS_EmptySet
  <2>3. QED
    BY <1>0, <1>1, <2>2 DEF PubDies
<1>2. ASSUME UNCHANGED <<hpc, received>>,
             \/ UNCHANGED <<spooled, discarded>>
             \/ spooled' = 0 /\ (discarded' = discarded \/ discarded' = discarded + spooled)
      PROVE  PubNats' /\ FramesAddUp'
  <2>1. Holding' = Holding
    BY <1>2 DEF Holding
  <2>2. Cardinality(Holding') = Cardinality(Holding)
    BY <2>1
  <2>3. QED
    BY <1>0, <1>2, <2>2
<1>3. ASSUME NEW h \in Handlers, HandlerReceives(h) PROVE PubNats' /\ FramesAddUp'
  <2>1. Holding' = Holding \cup {h} /\ h \notin Holding
    BY <1>3 DEF HandlerReceives, HandlerGoes, Holding
  <2>2. Cardinality(Holding') = Cardinality(Holding) + 1
    BY <1>0, <2>1, FS_AddElement
  <2>3. received' = received + 1 /\ UNCHANGED <<spooled, discarded>>
    BY <1>3 DEF HandlerReceives, HandlerGoes
  <2>4. QED
    BY <1>0, <2>2, <2>3
<1>4. ASSUME NEW h \in Handlers, HandlerForwards(h) PROVE PubNats' /\ FramesAddUp'
  <2>1. Holding' = Holding \ {h} /\ h \in Holding
    BY <1>4 DEF HandlerForwards, HandlerGoes, Holding
  <2>2. Cardinality(Holding') = Cardinality(Holding) - 1
    BY <1>0, <2>1, FS_RemoveElement
  <2>3. QED
    BY <1>0, <1>4, <2>2 DEF HandlerForwards, HandlerGoes
<1>5. ASSUME NEW h \in Handlers, HandlerPublishes(h) \/ HandlerPublishesNot(h) \/ HandlerSends(h)
      PROVE  PubNats' /\ FramesAddUp'
  <2>1. Holding' = Holding /\ UNCHANGED <<received, spooled, discarded>>
    BY <1>5 DEF HandlerPublishes, HandlerPublishesNot, HandlerSends, HandlerGoes, Holding
  <2>2. QED
    BY <2>1
<1>6. CASE MainRuns
  BY <1>2, <1>6
     DEF MainRuns, BootsWithZmq, BootsWithout, BootsIpc, AwaitsSignal, MainSignalled,
         ServerStops, FlushEnds, FlushTimesOut, ClientStops, StopsZmq, ClosesZmq, MainGoes
<1>7. QED
  BY <1>1, <1>2, <1>3, <1>4, <1>5, <1>6
     DEF PubMoves, PubBoots, PubTrapsTerm, OutsideTerm, HandlerRuns, ClientDrains, FlushPasses

-----------------------------------------------------------------------------
LEMMA TypesKept ==
  ASSUME PubInv, PubMoves
  PROVE  PubTypeOK'
<1> USE DEF PubTypeOK, ZmqTypeOK, Phase
<1>0. PubTypeOK /\ PubNats /\ FramesAddUp /\ HandlerTypes
  BY DEF PubInv, HandlerTypes
<1>a. /\ flushLeft \in 0 .. FlushTimeout /\ FlushTimeout \in Nat
      /\ received \in 0 .. MaxFrames /\ MaxFrames \in Nat
  BY <1>0, PublisherAssumption
<1>1. spooled' + discarded' <= received'
  <2>1. PubNats' /\ FramesAddUp'
    BY <1>0, FramesKept
  <2>2. Cardinality(Holding)' \in Nat
    BY HoldingStaysFinite
  <2>3. \A a, b, c, d \in Nat : a + b + c <= d => a + b <= d
    OBVIOUS
  <2>4. QED
    BY <2>1, <2>2, <2>3 DEF PubNats, FramesAddUp
<1>2. CASE PubBoots \/ PubDies \/ PubTrapsTerm \/ OutsideTerm \/ FlushPasses \/ ClientDrains
  <2> USE DEF PubBoots, PubDies, PubTrapsTerm, OutsideTerm, FlushPasses, ClientDrains, zmqVars
  <2>1. ZmqTypeOK' /\ {term', outside'} \subseteq BOOLEAN
    BY <1>0, <1>2
  <2>2. phase' \in Phase /\ received' = received
        /\ hpc' \in [Handlers -> {"idle", "publish", "send", "forward"}]
    BY <1>0, <1>2
  <2>3. flushLeft' \in 0 .. FlushTimeout
    <3>1. \/ flushLeft' = flushLeft \/ flushLeft' = FlushTimeout
          \/ (flushLeft > 0 /\ flushLeft' = flushLeft - 1)
      BY <1>2
    <3>2. QED
      BY <1>a, <3>1
  <2>4. QED
    BY <1>0, <1>1, <2>1, <2>2, <2>3
<1>3. CASE MainRuns
  <2>1. UNCHANGED <<term, outside, flushLeft, hpc, received>> /\ phase' \in Phase
    BY <1>0, <1>3
       DEF MainRuns, BootsWithZmq, BootsWithout, BootsIpc, AwaitsSignal, MainSignalled,
           ServerStops, FlushEnds, FlushTimesOut, ClientStops, StopsZmq, ClosesZmq, MainGoes
  <2>2. ZmqTypeOK'
    BY <1>0, <1>3
       DEF MainRuns, BootsWithZmq, BootsWithout, BootsIpc, AwaitsSignal, MainSignalled,
           ServerStops, FlushEnds, FlushTimesOut, ClientStops, StopsZmq, ClosesZmq,
           ZmqStarts, ZmqStopBegins, ZmqCloses, zmqVars
  <2>3. QED
    BY <1>0, <1>1, <2>1, <2>2
<1>4. CASE Heartbeat /\ UNCHANGED <<phase, term, outside, flushLeft, hpc, received, spooled, discarded>>
  BY <1>0, <1>1, <1>4 DEF Heartbeat, HeartbeatTicks, HeartbeatSends, HeartbeatEnds
<1>5. ASSUME NEW h \in Handlers, HandlerReceives(h) \/ HandlerRuns(h) PROVE PubTypeOK'
  <2>1. UNCHANGED <<zmqVars, phase, term, outside, flushLeft>>
        /\ hpc' \in [Handlers -> {"idle", "publish", "send", "forward"}]
    BY <1>0, <1>5
       DEF HandlerReceives, HandlerRuns, HandlerPublishes, HandlerPublishesNot,
           HandlerSends, HandlerForwards, HandlerGoes
  <2>2. received' \in 0 .. MaxFrames
    <3>1. received' = received \/ (received < MaxFrames /\ received' = received + 1)
      BY <1>5
       DEF HandlerReceives, HandlerRuns, HandlerPublishes, HandlerPublishesNot,
           HandlerSends, HandlerForwards
    <3>2. QED
      BY <1>a, <3>1
  <2>3. QED
    BY <1>0, <1>1, <2>1, <2>2 DEF zmqVars
<1>6. QED
  BY <1>2, <1>3, <1>4, <1>5 DEF PubMoves

(* Once the server has stopped nobody takes a frame; the socket is closed  *)
(* only after the heartbeat has ended, which does not start again before   *)
(* the socket is opened again.                                             *)
LEMMA OrderKept ==
  ASSUME HandlerTypes, ZmqInOrder, StagesAreQuiet, PubMoves
  PROVE  ZmqInOrder' /\ StagesAreQuiet'
<1> USE DEF HandlerTypes, ZmqInOrder, StagesAreQuiet
<1>1. CASE PubBoots \/ PubDies \/ PubTrapsTerm \/ OutsideTerm \/ FlushPasses \/ ClientDrains
  BY <1>1 DEF PubBoots, PubDies, PubTrapsTerm, OutsideTerm, FlushPasses, ClientDrains, zmqVars
<1>2. CASE MainRuns
  BY <1>2
     DEF MainRuns, BootsWithZmq, BootsWithout, BootsIpc, AwaitsSignal, MainSignalled,
         ServerStops, FlushEnds, FlushTimesOut, ClientStops, StopsZmq, ClosesZmq, MainGoes,
         ZmqStarts, ZmqStopBegins, ZmqCloses, zmqVars
<1>3. CASE Heartbeat /\ UNCHANGED <<phase, term, outside, flushLeft, hpc, received, spooled, discarded>>
  BY <1>3 DEF Heartbeat, HeartbeatTicks, HeartbeatSends, HeartbeatEnds
<1>4. ASSUME NEW h \in Handlers, HandlerReceives(h) \/ HandlerRuns(h)
      PROVE  ZmqInOrder' /\ StagesAreQuiet'
  BY <1>4 DEF HandlerReceives, HandlerRuns, HandlerPublishes, HandlerPublishesNot,
              HandlerSends, HandlerForwards, HandlerGoes, zmqVars
<1>5. QED
  BY <1>1, <1>2, <1>3, <1>4 DEF PubMoves

LEMMA PubStep == PubInv /\ [SupervisedNext]_allVars => PubInv'
<1> SUFFICES ASSUME PubInv, [SupervisedNext]_allVars PROVE PubInv'
  OBVIOUS
<1>0. HandlerTypes
  BY DEF PubInv, PubTypeOK, HandlerTypes
<1>1. CASE PubMoves
  BY <1>0, <1>1, TypesKept, OrderKept, FramesKept DEF PubInv
<1>2. CASE UNCHANGED pubVars
  BY <1>2 DEF pubVars, zmqVars, PubInv, PubTypeOK, PubNats, FramesAddUp, Holding,
              ZmqInOrder, StagesAreQuiet, ZmqTypeOK
<1>3. QED
  BY <1>1, <1>2, PubView

-----------------------------------------------------------------------------
(* The supervisor and the publisher together                               *)

(* The process lives exactly while the child does.                         *)
LivesAsChild ==
  /\ child[Publisher] = "alive" <=> phase # "off"
  /\ phase = "off" => ~term

(* A signal from nobody else is the supervisor's, whose timer then runs.   *)
TermIsStops == term /\ ~outside => signalled[Publisher] /\ spc[Publisher] = "wait"

Draining == {"stop server", "flush", "stop client", "stop zmq", "close zmq", "exit"}
DrainsOnTerm == phase \in Draining => term

(* The time Flush has used is at most what the grace has.                  *)
FlushWithinGrace ==
  /\ phase \notin Draining \ {"stop server"} => flushLeft = FlushTimeout
  /\ phase = "flush" /\ ~outside
       => flushLeft + GracefulTimeout >= FlushTimeout + grace[Publisher]

Together == LivesAsChild /\ TermIsStops /\ DrainsOnTerm /\ FlushWithinGrace

LEMMA PublisherIsProc == Publisher \in Procs
BY SupervisorAssumption DEF Publisher, Procs

LEMMA TogetherInit == SupervisedInit => Together
BY PublisherIsProc
   DEF SupervisedInit, SupInit, PubInit, Together, LivesAsChild, TermIsStops, DrainsOnTerm,
       FlushWithinGrace, Draining

(* A step of the supervisor the publisher does not notice.                 *)
LEMMA UnnoticedKeepsTogether ==
  ASSUME Together, UNCHANGED <<phase, term, outside, flushLeft>>,
         child'[Publisher] = "alive" <=> child[Publisher] = "alive",
         grace'[Publisher] = grace[Publisher],
         term /\ ~outside => /\ signalled'[Publisher] = signalled[Publisher]
                             /\ spc'[Publisher] = spc[Publisher]
  PROVE  Together'
BY DEF Together, LivesAsChild, TermIsStops, DrainsOnTerm, FlushWithinGrace, Draining, Publisher

(* The publisher dies with its child.                                      *)
LEMMA DeathKeepsTogether ==
  ASSUME SupInv, ChildEnds(Publisher), PubDies, UNCHANGED grace
  PROVE  Together'
BY PublisherIsProc
   DEF SupInv, SupTypeOK, ChildEnds, PubDies, Together, LivesAsChild, TermIsStops,
       DrainsOnTerm, FlushWithinGrace, Draining, Publisher

LEMMA ProcessKeepsTogether ==
  ASSUME SupInv, Together, NEW p \in Procs,
         Monitor(p) \/ StartFails(p) \/ Stop(p) \/ Crashes(p) \/ Obeys(p)
  PROVE  Together'
<1> USE PublisherIsProc
<1>0. /\ child \in [Procs -> {"none", "alive", "dead"}]
      /\ spc \in [Procs -> {"idle", "cancel", "signal", "wait", "returned"}]
      /\ signalled \in [Procs -> BOOLEAN] /\ grace \in [Procs -> 0 .. GracefulTimeout]
  BY DEF SupInv, SupTypeOK
<1>1. CASE MonitorRuns(p) /\ UNCHANGED <<pubVars, crashes>>
  <2>1. /\ child'[Publisher] = "alive" <=> child[Publisher] = "alive"
        /\ UNCHANGED <<signalled, spc, grace>>
    BY <1>0, <1>1
       DEF MonitorRuns, MonitorTop, MonitorAssigns, MonitorReaps, MonitorChecks,
           MonitorCounts, MonitorBacksOff, stopperVars
  <2>2. QED
    BY <1>1, <2>1, UnnoticedKeepsTogether DEF pubVars
<1>2. CASE StartsChild(p)
  <2>1. CASE p = Publisher
    BY <1>0, <1>2, <2>1
       DEF StartsChild, MonitorStarts, PubBoots, stopperVars, Together, LivesAsChild,
           TermIsStops, DrainsOnTerm, FlushWithinGrace, Draining
  <2>2. CASE p # Publisher
    <3>1. child'[Publisher] = child[Publisher] /\ UNCHANGED <<signalled, spc, grace, pubVars>>
      BY <1>0, <1>2, <2>2 DEF StartsChild, MonitorStarts, stopperVars
    <3>2. QED
      BY <3>1, UnnoticedKeepsTogether DEF pubVars
  <2>3. QED
    BY <2>1, <2>2
<1>3. CASE StartFails(p)
  <2>1. UNCHANGED <<child, signalled, spc, grace, pubVars>>
    BY <1>3 DEF StartFails, MonitorStartFails, stopperVars
  <2>2. QED
    BY <2>1, UnnoticedKeepsTogether DEF pubVars
<1>4. CASE StopCancels(p) /\ UNCHANGED <<pubVars, crashes>>
  <2>1. spc[p] = "cancel" /\ UNCHANGED <<child, signalled, grace>>
        /\ spc' = [spc EXCEPT ![p] = "signal"]
    BY <1>4 DEF StopCancels, StopMoves, monitorVars
  <2>2. term /\ ~outside => spc'[Publisher] = spc[Publisher]
    BY <1>0, <2>1 DEF Together, TermIsStops
  <2>3. QED
    BY <1>4, <2>1, <2>2, UnnoticedKeepsTogether DEF pubVars
<1>5. CASE StopReturns(p) /\ UNCHANGED <<pubVars, crashes>>
  <2>1. mpc[p] = "done" /\ UNCHANGED <<child, signalled, grace>>
        /\ spc' = [spc EXCEPT ![p] = "returned"]
    BY <1>5 DEF StopReturns, StopMoves, monitorVars
  <2>2. p = Publisher => ~term
    BY <2>1 DEF SupInv, ChildHasMonitor, Together, LivesAsChild
  <2>3. term /\ ~outside => spc'[Publisher] = spc[Publisher]
    BY <1>0, <2>1, <2>2
  <2>4. QED
    BY <1>5, <2>1, <2>3, UnnoticedKeepsTogether DEF pubVars
<1>6. CASE SignalsChild(p)
  <2>1. /\ spc[p] = "signal" /\ spc' = [spc EXCEPT ![p] = "wait"]
        /\ signalled' = [signalled EXCEPT ![p] = cmd[p]] /\ grace' = grace
    BY <1>6 DEF SignalsChild, StopSignals, StopMoves
  <2>2. term /\ ~outside => p # Publisher
    BY <2>1 DEF Together, TermIsStops
  <2>3. CASE UNCHANGED <<child, pubVars>>
    <3>1. term /\ ~outside => /\ signalled'[Publisher] = signalled[Publisher]
                              /\ spc'[Publisher] = spc[Publisher]
      BY <1>0, <2>1, <2>2
    <3>2. QED
      BY <2>1, <2>3, <3>1, UnnoticedKeepsTogether DEF pubVars
  <2>4. CASE p = Publisher /\ ChildEnds(p) /\ PubDies
    BY <2>1, <2>4, DeathKeepsTogether
  <2>5. CASE p = Publisher /\ cmd[p] /\ child[p] = "alive" /\ PubTrapsTerm /\ UNCHANGED child
    <3>1. signalled'[Publisher] /\ spc'[Publisher] = "wait"
      BY <1>0, <2>1, <2>5
    <3>2. QED
      BY <2>1, <2>5, <3>1
         DEF PubTrapsTerm, Together, LivesAsChild, TermIsStops, DrainsOnTerm,
             FlushWithinGrace, Draining, Publisher
  <2>6. QED
    BY <1>6, <2>3, <2>4, <2>5 DEF SignalsChild
<1>7. CASE KillsChild(p) \/ Crashes(p) \/ Obeys(p)
  <2>1. ChildEnds(p) /\ UNCHANGED <<signalled, spc, grace>>
        /\ IF p = Publisher THEN PubDies ELSE UNCHANGED pubVars
    BY <1>7 DEF KillsChild, Kills, Crashes, Obeys, EndsOthers, Dies, stopperVars
  <2>2. CASE p = Publisher
    BY <2>1, <2>2, DeathKeepsTogether
  <2>3. CASE p # Publisher
    <3>1. child'[Publisher] = child[Publisher]
      BY <1>0, <2>1, <2>3 DEF ChildEnds
    <3>2. QED
      BY <2>1, <2>3, <3>1, UnnoticedKeepsTogether DEF pubVars
  <2>4. QED
    BY <2>2, <2>3
<1>8. QED
  BY <1>1, <1>2, <1>3, <1>4, <1>5, <1>6, <1>7 DEF Monitor, Stop, StopRuns

LEMMA ManagerKeepsTogether ==
  ASSUME SupInv, Together, UNCHANGED pubVars,
         ManagerRuns \/ StopAllBegins \/ (\E p \in Alone : StopsOne(p))
  PROVE  Together'
<1>1. UNCHANGED <<child, signalled, grace>>
      /\ (spc' = spc \/ \E p \in Procs : spc[p] = "idle" /\ spc' = [spc EXCEPT ![p] = "cancel"])
  BY CrashAssumption
     DEF ManagerRuns, StartsNext, StopAllRuns, StopsNext, StopAllWaits, StopAllReturns,
         StopAllBegins, StopsOne, StopBegins, StopMoves, monitorVars, stopperVars,
         SupInv, TurnFits, Procs
<1>2. term /\ ~outside => spc'[Publisher] = spc[Publisher]
  BY <1>1, PublisherIsProc DEF SupInv, SupTypeOK, Together, TermIsStops
<1>3. QED
  BY <1>1, <1>2, UnnoticedKeepsTogether DEF pubVars

(* While Flush waits for a shutdown of the supervisor, its timer and the   *)
(* one of the supervisor run together.                                     *)
LEMMA TimeKeepsTogether ==
  ASSUME SupInv, PubInv, Together, TimePasses
  PROVE  Together'
<1>0. /\ grace[Publisher] \in 0 .. GracefulTimeout /\ GracefulTimeout \in Nat
      /\ flushLeft \in 0 .. FlushTimeout /\ FlushTimeout \in Nat
  BY PublisherIsProc, SupervisorAssumption, PublisherAssumption
     DEF SupInv, SupTypeOK, PubInv, PubTypeOK
<1>1. UNCHANGED <<child, signalled, spc, phase, term, outside>>
  BY DEF TimePasses, GracePasses, FlushPasses, monitorVars
<1>2. LivesAsChild' /\ TermIsStops' /\ DrainsOnTerm'
  BY <1>1 DEF Together, LivesAsChild, TermIsStops, DrainsOnTerm, Publisher
<1>3. phase \notin Draining \ {"stop server"} => flushLeft' = FlushTimeout
  BY DEF TimePasses, FlushPasses, Together, FlushWithinGrace, Draining
<1>4. ASSUME phase = "flush", ~outside
      PROVE  flushLeft' + GracefulTimeout >= FlushTimeout + grace'[Publisher]
  <2>1. InGrace(Publisher)
    BY <1>4 DEF Together, LivesAsChild, TermIsStops, DrainsOnTerm, Draining, InGrace
  <2>2. grace[Publisher] > 0 /\ grace'[Publisher] = grace[Publisher] - 1
    BY <2>1, PublisherIsProc DEF TimePasses, GracePasses
  <2>3. flushLeft' = IF flushLeft > 0 THEN flushLeft - 1 ELSE flushLeft
    BY <1>4 DEF TimePasses, FlushPasses
  <2>4. flushLeft + GracefulTimeout >= FlushTimeout + grace[Publisher]
    BY <1>4 DEF Together, FlushWithinGrace
  <2>5. QED
    BY <1>0, <2>2, <2>3, <2>4
<1>5. QED
  BY <1>1, <1>2, <1>3, <1>4 DEF Together, FlushWithinGrace

LEMMA PublisherKeepsTogether ==
  ASSUME SupInv, PubInv, Together, PublisherRuns
  PROVE  Together'
<1>0. UNCHANGED <<child, signalled, spc, grace>> /\ child[Publisher] = "alive"
  BY DEF PublisherRuns, supVars, monitorVars, stopperVars
<1>a. /\ grace[Publisher] \in 0 .. GracefulTimeout /\ GracefulTimeout \in Nat
      /\ FlushTimeout \in Nat
  BY PublisherIsProc, SupervisorAssumption, PublisherAssumption DEF SupInv, SupTypeOK
<1>1. CASE MainRuns
  <2>1. UNCHANGED <<term, outside, flushLeft>>
    BY <1>1 DEF MainRuns, BootsWithZmq, BootsWithout, BootsIpc, AwaitsSignal, MainSignalled,
                ServerStops, FlushEnds, FlushTimesOut, ClientStops, StopsZmq, ClosesZmq, MainGoes
  <2>2. /\ phase # "off" /\ phase' # "off"
        /\ phase' \in Draining => term
        /\ phase' = "flush" => phase = "stop server"
        /\ phase' \notin Draining \ {"stop server"} => phase \notin Draining \ {"stop server"}
    BY <1>1
       DEF MainRuns, BootsWithZmq, BootsWithout, BootsIpc, AwaitsSignal, MainSignalled,
           ServerStops, FlushEnds, FlushTimesOut, ClientStops, StopsZmq, ClosesZmq, MainGoes,
           Draining, Together, DrainsOnTerm
  <2>3. LivesAsChild' /\ TermIsStops' /\ DrainsOnTerm'
    BY <1>0, <2>1, <2>2 DEF Together, LivesAsChild, TermIsStops, DrainsOnTerm, Publisher
  <2>4. FlushWithinGrace'
    <3>1. phase' \notin Draining \ {"stop server"} => flushLeft' = FlushTimeout
      BY <2>1, <2>2 DEF Together, FlushWithinGrace
    <3>2. phase' = "flush" => flushLeft' = FlushTimeout
      BY <2>1, <2>2 DEF Together, FlushWithinGrace, Draining
    <3>3. grace'[Publisher] = grace[Publisher]
      BY <1>0
    <3>4. phase' = "flush" => flushLeft' + GracefulTimeout >= FlushTimeout + grace'[Publisher]
      BY <1>a, <3>2, <3>3
    <3>5. QED
      BY <3>1, <3>4 DEF FlushWithinGrace, Draining, Publisher
  <2>5. QED
    BY <2>3, <2>4 DEF Together
<1>2. CASE OutsideTerm
  BY <1>0, <1>2 DEF OutsideTerm, Together, LivesAsChild, TermIsStops, DrainsOnTerm,
                    FlushWithinGrace, Draining, Publisher
<1>3. CASE UNCHANGED <<phase, term, outside, flushLeft>>
  BY <1>0, <1>3, UnnoticedKeepsTogether
<1>4. QED
  BY <1>1, <1>2, <1>3
     DEF PublisherRuns, HandlerReceives, HandlerRuns, HandlerPublishes, HandlerPublishesNot,
         HandlerSends, HandlerForwards, HandlerGoes, ClientDrains

LEMMA TogetherStep ==
  SupInv /\ PubInv /\ Together /\ [SupervisedNext]_allVars => Together'
<1> SUFFICES ASSUME SupInv, PubInv, Together, [SupervisedNext]_allVars PROVE Together'
  OBVIOUS
<1>1. CASE PublisherExits \/ PublisherBootFails
  <2>1. ChildEnds(Publisher) /\ PubDies /\ UNCHANGED grace
    BY <1>1 DEF PublisherExits, PublisherBootFails, EndsOthers, stopperVars
  <2>2. QED
    BY <2>1, DeathKeepsTogether
<1>2. CASE SupervisedOver \/ UNCHANGED allVars
  <2>1. UNCHANGED <<child, signalled, spc, grace, pubVars>>
    BY <1>2 DEF SupervisedOver, allVars, supVars, monitorVars, stopperVars
  <2>2. QED
    BY <2>1, UnnoticedKeepsTogether DEF pubVars
<1>3. CASE ManagerRuns \/ (StopAllBegins /\ UNCHANGED <<pubVars, crashes>>)
           \/ (\E p \in Alone : StopsOne(p) /\ UNCHANGED <<pubVars, crashes>>)
  BY <1>3, ManagerKeepsTogether DEF ManagerRuns
<1>4. QED
  BY <1>1, <1>2, <1>3, ProcessKeepsTogether, TimeKeepsTogether, PublisherKeepsTogether
     DEF SupervisedNext

-----------------------------------------------------------------------------
(* The theorems                                                            *)

PInv == SupInv /\ PubInv /\ Together /\ crashes \in 0 .. MaxCrashes

(* The inductive invariant.                                                *)
THEOREM PInvHolds == SupervisedSpec => []PInv
<1>1. SupervisedInit => PInv
  BY SupInit0, PubInit0, TogetherInit, CrashAssumption DEF SupervisedInit, PInv
<1>2. crashes \in 0 .. MaxCrashes /\ [SupervisedNext]_allVars => crashes' \in 0 .. MaxCrashes
  <2> SUFFICES ASSUME crashes \in 0 .. MaxCrashes, [SupervisedNext]_allVars
               PROVE  crashes' \in 0 .. MaxCrashes
    OBVIOUS
  <2>1. crashes' = crashes \/ (crashes < MaxCrashes /\ crashes' = crashes + 1)
    BY DEF SupervisedNext, allVars, Monitor, StartsChild, StartFails, Stop, SignalsChild,
           KillsChild, Crashes, Obeys, Fails, TimePasses, PublisherRuns, ManagerRuns,
           PublisherExits, PublisherBootFails, SupervisedOver
  <2>2. QED
    BY <2>1, CrashAssumption
<1>3. PInv /\ [SupervisedNext]_allVars => PInv'
  BY <1>2, SupStep, PubStep, TogetherStep DEF PInv
<1>4. QED
  BY <1>1, <1>3, PTL DEF SupervisedSpec

(* Every variable has its type: in particular no record reaches the spool  *)
(* that no handler received.                                               *)
THEOREM SupervisedTypes == SupervisedSpec => []SupervisedTypeOK
<1>1. PInv => SupervisedTypeOK
  BY DEF PInv, SupInv, PubInv, SupervisedTypeOK
<1>2. QED
  BY <1>1, PInvHolds, PTL

(* When Stop or StopAll has returned, no child is left and none will be    *)
(* started.                                                                *)
THEOREM StopLeavesNoChild == SupervisedSpec => []NoChildLeft
<1>1. PInv => NoChildLeft
  BY DEF PInv, SupInv, ReturnedIsDone, ChildHasMonitor, PassedIsStopped, NoChildLeft
<1>2. QED
  BY <1>1, PInvHolds, PTL

(* Every stage of the publisher's shutdown finds the one before it at rest.*)
THEOREM ShutdownIsStaged == SupervisedSpec => []StagesAreQuiet
<1>1. PInv => StagesAreQuiet
  BY DEF PInv, PubInv
<1>2. QED
  BY <1>1, PInvHolds, PTL

(* As configured.                                                          *)
GraceIsShorter == GracefulTimeout < FlushTimeout

(* The supervisor kills before Flush gives up.                             *)
LEMMA FlushOutlivesGrace == ASSUME PInv, GraceIsShorter, FlushTimesOut PROVE outside
<1> SUFFICES ASSUME ~outside PROVE FALSE
  OBVIOUS
<1>1. flushLeft = 0 /\ phase = "flush"
  BY DEF FlushTimesOut, MainGoes
<1>2. flushLeft + GracefulTimeout >= FlushTimeout + grace[Publisher]
  BY <1>1 DEF PInv, Together, FlushWithinGrace
<1>3. grace[Publisher] \in 0 .. GracefulTimeout
  BY PublisherIsProc DEF PInv, SupInv, SupTypeOK
<1>4. GracefulTimeout \in Nat /\ FlushTimeout \in Nat
  BY SupervisorAssumption, PublisherAssumption
<1>5. QED
  BY <1>1, <1>2, <1>3, <1>4 DEF GraceIsShorter

(* Main comes to client.Stop with an empty spool.                          *)
Emptied == phase = "stop client" /\ ~outside => spooled = 0

(* With a grace shorter than the time Flush waits, a Stop of the supervisor*)
(* removes no spooled record.                                              *)
THEOREM SupervisorKeepsSpool ==
  ASSUME GraceIsShorter
  PROVE  SupervisedSpec => StopKeepsSpool
<1>1. SupervisedInit => Emptied
  BY DEF SupervisedInit, PubInit, Emptied
<1>2. PInv /\ Emptied /\ [SupervisedNext]_allVars => Emptied'
  <2> SUFFICES ASSUME PInv, Emptied, [SupervisedNext]_allVars,
                      phase' = "stop client", ~outside'
               PROVE  spooled' = 0
    BY DEF Emptied
  <2>1. PubMoves \/ UNCHANGED pubVars
    BY PubView
  <2>2. CASE FlushTimesOut
    BY <2>2, FlushOutlivesGrace DEF FlushTimesOut, MainGoes
  <2>3. CASE phase = "stop client" /\ UNCHANGED <<outside, spooled>>
    BY <2>3 DEF Emptied
  <2>4. CASE FlushEnds \/ ClientDrains \/ ClientStops
    BY <2>4 DEF FlushEnds, ClientDrains, ClientStops
  <2>5. ASSUME NEW h \in Handlers, HandlerReceives(h) \/ HandlerRuns(h) PROVE spooled' = 0
    <3>1. phase = "stop client" /\ hpc[h] # "idle"
      BY <2>5 DEF HandlerReceives, HandlerRuns, HandlerPublishes, HandlerPublishesNot,
                  HandlerSends, HandlerForwards, HandlerGoes
    <3>2. QED
      BY <3>1 DEF PInv, PubInv, StagesAreQuiet
  <2>6. QED
    BY <2>1, <2>2, <2>3, <2>4, <2>5
       DEF PubMoves, PubBoots, PubDies, PubTrapsTerm, OutsideTerm, FlushPasses, pubVars,
           MainRuns, BootsWithZmq, BootsWithout, BootsIpc, AwaitsSignal, MainSignalled,
           ServerStops, StopsZmq, ClosesZmq, MainGoes
<1>3. PInv /\ Emptied /\ [SupervisedNext]_allVars => [discarded' # discarded => outside]_allVars
  <2> SUFFICES ASSUME PInv, Emptied, [SupervisedNext]_allVars, ~outside
               PROVE  discarded' = discarded
    OBVIOUS
  <2>1. PubMoves \/ UNCHANGED pubVars
    BY PubView
  <2>2. CASE ClientStops
    <3>1. spooled = 0
      BY <2>2 DEF ClientStops, MainGoes, Emptied
    <3>2. discarded \in Nat /\ discarded' = discarded + spooled
      BY <2>2 DEF ClientStops, PInv, PubInv, PubNats
    <3>3. QED
      BY <3>1, <3>2
  <2>3. CASE MainRuns /\ ~ClientStops
    BY <2>3
       DEF MainRuns, BootsWithZmq, BootsWithout, BootsIpc, AwaitsSignal, MainSignalled,
           ServerStops, FlushEnds, FlushTimesOut, StopsZmq, ClosesZmq
  <2>4. ASSUME NEW h \in Handlers, HandlerReceives(h) \/ HandlerRuns(h)
        PROVE  discarded' = discarded
    BY <2>4 DEF HandlerReceives, HandlerRuns, HandlerPublishes, HandlerPublishesNot,
                HandlerSends, HandlerForwards, HandlerGoes
  <2>5. QED
    BY <2>1, <2>2, <2>3, <2>4
       DEF PubMoves, PubBoots, PubDies, PubTrapsTerm, OutsideTerm, FlushPasses,
           ClientDrains, pubVars
<1>4. QED
  BY <1>1, <1>2, <1>3, PInvHolds, PTL DEF SupervisedSpec, StopKeepsSpool
============================================================================
