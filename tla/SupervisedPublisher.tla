------------------------ MODULE SupervisedPublisher ------------------------
(***************************************************************************)
(* The publisher and the processes registered after it, storage first, as  *)
(* children of a Manager.  Process 1 is the publisher; of the others only  *)
(* matters that they live, end when they like, and may ignore SIGTERM.     *)
(***************************************************************************)
EXTENDS Supervisor, PublisherProcess

CONSTANTS
  MaxCrashes,  \* bound: failed starts and ends of a child nobody asked for
  Unstable,    \* bound: the processes this happens to
  Alone        \* bound: the processes somebody may stop alone

ASSUME CrashAssumption ==
  MaxCrashes \in Nat /\ Unstable \subseteq Procs /\ Alone \subseteq Procs

VARIABLE crashes

allVars == <<supVars, pubVars, crashes>>

Publisher == 1

SupervisedInit == SupInit /\ PubInit /\ crashes = 0

SupervisedTypeOK == SupTypeOK /\ PubTypeOK /\ crashes \in 0 .. MaxCrashes

-----------------------------------------------------------------------------
(* Storage takes records while it runs.                                    *)
StorageIsUp == \E p \in Procs \ {Publisher} : child[p] = "alive"

EndsOthers(p) == ChildEnds(p) /\ UNCHANGED <<cmd, mpc, restarts, stopperVars, managerVars>>

(* Something goes wrong.                                                   *)
Fails(p) == p \in Unstable /\ crashes < MaxCrashes /\ crashes' = crashes + 1

(* The death of a child, and with the publisher that of its goroutines.    *)
Dies(p) == IF p = Publisher THEN PubDies ELSE UNCHANGED pubVars

Crashes(p) ==
  /\ Fails(p) /\ EndsOthers(p) /\ Dies(p)

(* Another process obeys SIGTERM.                                          *)
Obeys(p) ==
  /\ p # Publisher /\ signalled[p]
  /\ EndsOthers(p) /\ UNCHANGED <<pubVars, crashes>>

PublisherExits ==
  /\ phase = "exit"
  /\ EndsOthers(Publisher) /\ PubDies
  /\ UNCHANGED crashes

(* os.Exit: the client or the server cannot be made.                       *)
PublisherBootFails ==
  /\ phase = "client" /\ Fails(Publisher)
  /\ EndsOthers(Publisher) /\ PubDies

StartsChild(p) ==
  /\ MonitorStarts(p)
  /\ IF p = Publisher THEN PubBoots ELSE UNCHANGED pubVars
  /\ UNCHANGED crashes

KillsChild(p) == Kills(p) /\ Dies(p) /\ UNCHANGED crashes

(* SIGTERM arrives at a publisher that traps it, at one that does not yet, *)
(* or at nobody.                                                           *)
SignalsChild(p) ==
  /\ StopSignals(p)
  /\ IF p # Publisher \/ ~cmd[p] \/ child[p] # "alive" THEN UNCHANGED <<child, pubVars>>
     ELSE IF Untrapped THEN ChildEnds(p) /\ PubDies
     ELSE PubTrapsTerm /\ UNCHANGED child
  /\ UNCHANGED crashes

Monitor(p) ==
  \/ MonitorRuns(p) /\ UNCHANGED <<pubVars, crashes>>
  \/ StartsChild(p)

StartFails(p) == Fails(p) /\ MonitorStartFails(p) /\ UNCHANGED pubVars

Stop(p) ==
  \/ StopRuns(p) /\ UNCHANGED <<pubVars, crashes>>
  \/ SignalsChild(p)
  \/ KillsChild(p)

(* The clock of all timers.                                                *)
TimePasses ==
  /\ phase = "flush" \/ \E p \in Procs : InGrace(p)
  /\ GracePasses /\ FlushPasses
  /\ UNCHANGED crashes

PublisherRuns ==
  /\ \/ MainRuns
     \/ Heartbeat /\ UNCHANGED <<phase, term, outside, flushLeft, hpc, received, spooled, discarded>>
     \/ \E h \in Handlers : HandlerReceives(h) \/ HandlerRuns(h)
     \/ OutsideTerm
     \/ StorageIsUp /\ ClientDrains
  /\ child[Publisher] = "alive"
  /\ UNCHANGED <<supVars, crashes>>

ManagerRuns == (StartsNext \/ StopAllRuns) /\ UNCHANGED <<pubVars, crashes>>

(* Nothing is left to do, or StopAll waits for good (see Missed).          *)
SupervisedOver ==
  /\ \/ mgr = "down"
     \/ mgr = "alone" /\ spc[turn] = "returned"
     \/ \E p \in Procs : Missed(p)
  /\ UNCHANGED allVars

SupervisedNext ==
  \/ \E p \in Procs :
       Monitor(p) \/ StartFails(p) \/ Stop(p) \/ Crashes(p) \/ Obeys(p)
  \/ \E p \in Alone : StopsOne(p) /\ UNCHANGED <<pubVars, crashes>>
  \/ ManagerRuns \/ TimePasses
  \/ StopAllBegins /\ UNCHANGED <<pubVars, crashes>>
  \/ PublisherRuns \/ PublisherExits \/ PublisherBootFails
  \/ SupervisedOver

SupervisedSpec == SupervisedInit /\ [][SupervisedNext]_allVars

(* The supervisor's goroutines run and its timers fire.  Of the children   *)
(* nothing is assumed, and nobody need ever call Stop.                     *)
SupervisedFairSpec ==
  /\ SupervisedSpec
  /\ \A p \in Procs : WF_allVars(Monitor(p)) /\ WF_allVars(Stop(p))
  /\ WF_allVars(ManagerRuns) /\ WF_allVars(TimePasses)

-----------------------------------------------------------------------------
(***************************************************************************)
(* A Stop of the supervisor costs no spooled record, although StopAll stops*)
(* storage first and Flush then waits in vain: SIGKILL comes before Flush  *)
(* gives up and client.Stop removes the file.  Only a shutdown that somebody*)
(* else began can lose the spool.                                          *)
(***************************************************************************)
StopKeepsSpool == [][discarded' # discarded => outside]_allVars
============================================================================
