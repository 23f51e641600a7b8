---------------------------- MODULE Supervisor ----------------------------
(***************************************************************************)
(* src/pkg/process: for each Process a monitor goroutine that starts the   *)
(* child, waits for it and starts it again, Stop, which signals the child  *)
(* and waits for the monitor, and the Manager, which starts all processes  *)
(* in the order they were registered and stops them in the reverse one.    *)
(* What a child does with a signal is left to the modules that use this    *)
(* one.  `running`, which follows p.cmd and which Health reports, is left  *)
(* out, and the parent context is never cancelled.                         *)
(***************************************************************************)
EXTENDS Naturals

CONSTANTS
  NumProcs,
  MaxRetries,       \* Policy.MaxRetries; 0 is unlimited
  GracefulTimeout   \* in units of time

ASSUME SupervisorAssumption ==
  NumProcs \in Nat \ {0} /\ MaxRetries \in Nat /\ GracefulTimeout \in Nat

Procs == 1 .. NumProcs

VARIABLES
  child,     \* the OS process: "none", "alive", "dead" (not yet waited for)
  cmd,       \* p.cmd is set
  mpc,       \* the monitor
  restarts,
  stopped,
  cancelled, \* the context of the process
  signalled, \* Stop has seen a cmd and sent it SIGTERM
  grace,     \* what is left of the time after which it is killed
  spc,       \* the Stop that won the swap of `stopped`
  mgr, turn  \* the Manager, and the process it is at

monitorVars == <<child, cmd, mpc, restarts>>
stopperVars == <<stopped, cancelled, signalled, grace, spc>>
managerVars == <<mgr, turn>>
supVars == <<monitorVars, stopperVars, managerVars>>

MonitorPc == {"off", "top", "start", "assign", "wait", "check", "count", "backoff", "done"}

SupInit ==
  /\ child = [p \in Procs |-> "none"]
  /\ cmd = [p \in Procs |-> FALSE]
  /\ mpc = [p \in Procs |-> "off"]
  /\ restarts = [p \in Procs |-> 0]
  /\ stopped = [p \in Procs |-> FALSE]
  /\ cancelled = [p \in Procs |-> FALSE]
  /\ signalled = [p \in Procs |-> FALSE]
  /\ grace = [p \in Procs |-> GracefulTimeout]
  /\ spc = [p \in Procs |-> "idle"]
  /\ mgr = "starts" /\ turn = 1

SupTypeOK ==
  /\ child \in [Procs -> {"none", "alive", "dead"}]
  /\ mpc \in [Procs -> MonitorPc]
  /\ restarts \in [Procs -> Nat]
  /\ MaxRetries > 0 => \A p \in Procs : restarts[p] <= MaxRetries + 1
  /\ grace \in [Procs -> 0 .. GracefulTimeout]
  /\ spc \in [Procs -> {"idle", "cancel", "signal", "wait", "returned"}]
  /\ {cmd, stopped, cancelled, signalled} \subseteq [Procs -> BOOLEAN]
  /\ mgr \in {"starts", "serves", "stops", "waits", "down", "alone"}
  /\ turn \in 0 .. NumProcs + 1

-----------------------------------------------------------------------------
(* monitor                                                                 *)

Goes(p, from, to) == mpc[p] = from /\ mpc' = [mpc EXCEPT ![p] = to]

MonitorTop(p) ==
  /\ Goes(p, "top", IF cancelled[p] THEN "done" ELSE "start")
  /\ UNCHANGED <<child, cmd, restarts, stopperVars, managerVars>>

MonitorStarts(p) ==
  /\ Goes(p, "start", "assign")
  /\ child' = [child EXCEPT ![p] = "alive"]
  /\ UNCHANGED <<cmd, restarts, stopperVars, managerVars>>

MonitorStartFails(p) ==
  /\ Goes(p, "start", "count")
  /\ UNCHANGED <<child, cmd, restarts, stopperVars, managerVars>>

MonitorAssigns(p) ==
  /\ Goes(p, "assign", "wait")
  /\ cmd' = [cmd EXCEPT ![p] = TRUE]
  /\ UNCHANGED <<child, restarts, stopperVars, managerVars>>

(* cmd.Wait returns, and p.cmd is nil again.                               *)
MonitorReaps(p) ==
  /\ child[p] = "dead" /\ Goes(p, "wait", "check")
  /\ child' = [child EXCEPT ![p] = "none"]
  /\ cmd' = [cmd EXCEPT ![p] = FALSE]
  /\ UNCHANGED <<restarts, stopperVars, managerVars>>

MonitorChecks(p) ==
  /\ Goes(p, "check", IF stopped[p] THEN "done" ELSE "count")
  /\ UNCHANGED <<child, cmd, restarts, stopperVars, managerVars>>

(* Mistake: the last of the retries is not made.                           *)
MonitorCountsOneLess(p) ==
  /\ Goes(p, "count", IF MaxRetries > 0 /\ restarts[p] + 1 >= MaxRetries THEN "done" ELSE "backoff")
  /\ restarts' = [restarts EXCEPT ![p] = @ + 1]
  /\ UNCHANGED <<child, cmd, stopperVars, managerVars>>

Exhausted(n) == MaxRetries > 0 /\ n > MaxRetries

MonitorCounts(p) ==
  /\ Goes(p, "count", IF Exhausted(restarts[p] + 1) THEN "done" ELSE "backoff")
  /\ restarts' = [restarts EXCEPT ![p] = @ + 1]
  /\ UNCHANGED <<child, cmd, stopperVars, managerVars>>

(* The backoff is over, or the context is cancelled.                       *)
MonitorBacksOff(p) ==
  /\ Goes(p, "backoff", "top")
  /\ UNCHANGED <<child, cmd, restarts, stopperVars, managerVars>>

MonitorRuns(p) ==
  \/ MonitorTop(p) \/ MonitorAssigns(p) \/ MonitorReaps(p)
  \/ MonitorChecks(p) \/ MonitorCounts(p) \/ MonitorBacksOff(p)

(* The child ends: of itself, for SIGTERM, or for SIGKILL.                 *)
ChildEnds(p) == child[p] = "alive" /\ child' = [child EXCEPT ![p] = "dead"]

-----------------------------------------------------------------------------
(* Stop.  A second call, which returns at once, is left out.               *)

StopMoves(p, from, to) == spc[p] = from /\ spc' = [spc EXCEPT ![p] = to]

StopBegins(p) ==
  /\ mpc[p] # "off" /\ ~stopped[p] /\ StopMoves(p, "idle", "cancel")
  /\ stopped' = [stopped EXCEPT ![p] = TRUE]
  /\ UNCHANGED <<monitorVars, cancelled, signalled, grace>>

StopCancels(p) ==
  /\ StopMoves(p, "cancel", "signal")
  /\ cancelled' = [cancelled EXCEPT ![p] = TRUE]
  /\ UNCHANGED <<monitorVars, stopped, signalled, grace, managerVars>>

(* SIGTERM to the command Stop has read, if there is one; a dead child     *)
(* does not get it.  The timer of the escalation starts.                   *)
StopSignals(p) ==
  /\ StopMoves(p, "signal", "wait")
  /\ signalled' = [signalled EXCEPT ![p] = cmd[p]]
  /\ UNCHANGED <<cmd, mpc, restarts, stopped, cancelled, grace, managerVars>>

InGrace(p) == spc[p] = "wait" /\ signalled[p] /\ child[p] = "alive"

(* Time passes for those of the timers that run; a timer that has run out  *)
(* goes off before more time passes.                                       *)
GracePasses ==
  /\ \A p \in Procs : InGrace(p) => grace[p] > 0
  /\ grace' = [p \in Procs |-> IF InGrace(p) THEN grace[p] - 1 ELSE grace[p]]
  /\ UNCHANGED <<monitorVars, stopped, cancelled, signalled, spc, managerVars>>

(* Mistake: the escalation comes after wg.Wait.                            *)
KillsAfterWait(p) ==
  /\ InGrace(p) /\ grace[p] = 0 /\ mpc[p] = "done"
  /\ ChildEnds(p)
  /\ UNCHANGED <<cmd, mpc, restarts, stopperVars, managerVars>>

(* GracefulTimeout has passed.                                             *)
Kills(p) ==
  /\ InGrace(p) /\ grace[p] = 0
  /\ ChildEnds(p)
  /\ UNCHANGED <<cmd, mpc, restarts, stopperVars, managerVars>>

(* Mistake: Stop waits until there is no command.                          *)
StopReturnsWithoutCmd(p) ==
  /\ ~cmd[p] /\ StopMoves(p, "wait", "returned")
  /\ UNCHANGED <<monitorVars, stopped, cancelled, signalled, grace, managerVars>>

(* wg.Wait: the monitor has returned.                                      *)
StopReturns(p) ==
  /\ mpc[p] = "done" /\ StopMoves(p, "wait", "returned")
  /\ UNCHANGED <<monitorVars, stopped, cancelled, signalled, grace, managerVars>>

StopRuns(p) == StopCancels(p) \/ StopReturns(p)

-----------------------------------------------------------------------------
(* Manager                                                                 *)

(* StartAll starts the next monitor.                                       *)
StartsNext ==
  /\ mgr = "starts" /\ Goes(turn, "off", "top")
  /\ turn' = turn + 1
  /\ mgr' = IF turn = NumProcs THEN "serves" ELSE "starts"
  /\ UNCHANGED <<child, cmd, restarts, stopperVars>>

StopAllBegins ==
  /\ mgr = "serves"
  /\ mgr' = "stops" /\ turn' = NumProcs
  /\ UNCHANGED <<monitorVars, stopperVars>>

StopsNext ==
  /\ mgr = "stops" /\ turn > 0
  /\ mgr' = "waits" /\ turn' = turn
  /\ StopBegins(turn)

StopAllWaits ==
  /\ mgr = "waits" /\ spc[turn] = "returned"
  /\ mgr' = "stops" /\ turn' = turn - 1
  /\ UNCHANGED <<monitorVars, stopperVars>>

StopAllReturns ==
  /\ mgr = "stops" /\ turn = 0
  /\ mgr' = "down" /\ turn' = turn
  /\ UNCHANGED <<monitorVars, stopperVars>>

StopAllRuns == StopsNext \/ StopAllWaits \/ StopAllReturns

(* Somebody stops one process alone, as the tests do; StopAll does not     *)
(* follow.                                                                 *)
StopsOne(p) ==
  /\ mgr = "serves" /\ StopBegins(p)
  /\ mgr' = "alone" /\ turn' = p

-----------------------------------------------------------------------------
(***************************************************************************)
(* When Stop has returned there is no child, and none will be started, also*)
(* if a restart was under way; StopAll "waits for all monitors to exit".   *)
(***************************************************************************)
NoChildLeft ==
  \A p \in Procs :
    spc[p] = "returned" \/ mgr = "down" => child[p] = "none" /\ mpc[p] = "done"

(* Stop ends, however long the child ignores SIGTERM; the one exception is *)
(* a Stop that looked for the command between the monitor's look at the    *)
(* context and its assignment of p.cmd: it waits for a child that nobody   *)
(* signals.                                                                *)
Missed(p) == spc[p] = "wait" /\ ~signalled[p] /\ child[p] = "alive"

StopEnds ==
  \A p \in Procs : spc[p] = "wait" ~> spc[p] = "returned" \/ Missed(p)

(* One crash does not take a process down: until Stop or MaxRetries a child*)
(* that ended is started again.                                            *)
GivenUp(p) == stopped[p] \/ Exhausted(restarts[p])
CrashedIsRestarted ==
  \A p \in Procs : child[p] = "dead" ~> (child[p] = "alive" \/ GivenUp(p))
===========================================================================
