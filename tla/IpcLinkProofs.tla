--------------------------- MODULE IpcLinkProofs ---------------------------
(***************************************************************************)
(* The safety properties of IpcLink for every number of producers,         *)
(* messages, connections, crashes and restarts, and every capacity, from   *)
(* one inductive invariant.                                                *)
(***************************************************************************)
EXTENDS IpcLink, SequenceTheorems, TLAPS

-----------------------------------------------------------------------------
(* The inductive invariant, in named parts.                                *)

(* A producer inside Send has numbered its message.                        *)
SendingIsNumbered == \A p \in Producers : prod[p] # "idle" => seq[p] >= 1

(* The spool is the tail of log, record by record, and what precedes it    *)
(* has been handed over; so have the records a drain in progress has sent. *)
SpoolIsTail ==
  main # "done" =>
    /\ Len(spool) <= Len(log)
    /\ Base <= handed
    /\ \A i \in 1 .. Len(spool) : spool[i] = log[Base + i]

DrainIsWithin ==
  dpc = "send" => idx <= Len(spool) + 1 /\ Base + idx - 1 <= handed

StoppedIsIdle == main = "done" => dpc = "exit"

(* The position in log of the last record a healthy connection carries.    *)
Cursor == IF dpc = "send" THEN Base + idx - 1 ELSE Base

Segment(s, first) ==
  /\ first + Len(s) <= Len(log)
  /\ \A i \in 1 .. Len(s) : s[i] = log[first + i]

(* Every connection carries a segment of log; the current one carries the  *)
(* segment that ends at the cursor, unless a send over it has just failed. *)
SegmentOf == \A c \in Conns : \E first \in 0 .. Len(log) : Segment(sent[c], first)

CurrentEndsAtCursor ==
  conn # NoConn /\ dpc # "break" /\ main # "done" =>
    /\ Len(sent[conn]) <= Cursor
    /\ Segment(sent[conn], Cursor - Len(sent[conn]))

UndialledIsEmpty ==
  /\ conn <= dials
  /\ \A c \in Conns : c > dials => sent[c] = <<>>

(* At most one breakConn is between taking a connection and clearing       *)
(* connected, and meanwhile nothing dials.                                 *)
Marking == dpc = "mark" \/ main = "mark" \/ \E c \in Conns : rl[c] = "mark"

OneMark ==
  /\ ~(dpc = "mark" /\ main = "mark")
  /\ \A c \in Conns : rl[c] = "mark" =>
       dpc # "mark" /\ main # "mark" /\ \A d \in Conns : rl[d] = "mark" => d = c

MarkingHoldsDial ==
  Marking => conn = NoConn /\ (connected \/ dpc = "connect") /\ dpc # "dial"

DisconnectedHasNone ==
  /\ ~connected /\ dpc # "connect" => conn = NoConn
  /\ dpc = "dial" => ~connected

OpenIsCurrent == \A c \in Conns : cEnd[c] = "open" => c = conn

(* A broken connection leaves a token once the drain is past its dial.     *)
BrokenIsSignalled ==
  dpc \in {"size", "send", "wait"} /\ ~connected => connBroken

SpooledIsSignalled ==
  dpc = "wait" /\ spool # <<>> => notify \/ \E p \in Producers : prod[p] = "signal"

(* Nothing is appended before spilling is set, nothing is queued after.    *)
NotSpillingYet ==
  ~spilling => Len(log) = born /\ \A p \in Producers : prod[p] # "append"

QueueIsOld ==
  \A i \in DOMAIN queue :
    LET p == queue[i][1] IN
    /\ queue[i][2] <= seq[p]
    /\ prod[p] \in {"route", "append"} => queue[i][2] < seq[p]

(* The server: acceptLoop or a serveConn owns every open connection, the    *)
(* map holds those served, and only a listening server has a backlog.      *)
ServerOwnsOpen ==
  /\ listening = (srv = "up")
  /\ tracked = {c \in Conns : serving[c] = "run"}
  /\ \A c \in Conns : sEnd[c] = "backlog" => srv = "up"
  /\ \A c \in Conns : sEnd[c] = "open" => acc = c \/ serving[c] = "run"
  /\ srv = "down" => acc = NoConn /\ \A c \in Conns : serving[c] # "run"

-----------------------------------------------------------------------------
(* Type correctness.                                                       *)

Assumptions == MaxConns \in Nat /\ SockBuf \in Nat \ {0} /\ MaxMsgs \in Nat
               /\ QueueSize \in Nat \ {0} /\ MaxSpool \in Nat \ {0}
               /\ MaxCrashes \in Nat /\ MaxDowns \in Nat

LEMMA AssumptionsHold == Assumptions
  BY MaxConnsAssumption, SockBufAssumption, MaxMsgsAssumption, QueueSizeAssumption,
     MaxSpoolAssumption, MaxCrashesAssumption, MaxDownsAssumption DEF Assumptions

-----------------------------------------------------------------------------
(* Which actions change which variables.                                   *)

LEMMA ProdFrame ==
  [LinkNext]_linkVars => (\E p \in Producers : Send(p)) \/ Crash \/ UNCHANGED prodVars
  BY DEF LinkNext, ClientNext, Drain, DrainTop, DrainDials, DrainDialFails, DrainConnected,
     DrainBackoff, DrainSize, DrainSends, DrainSendFails, DrainTruncates, DrainBreaks, DrainWakes,
     ReadLoop, Main, StopProducers, FlushReturns, StopBegins, StopBreaks, StopReturns,
     LinkOver, clientVars, linkVars

LEMMA SpoolFrame ==
  [LinkNext]_linkVars =>
    \/ \E p \in Producers : SpoolAppend(p)
    \/ DrainSends \/ DrainTruncates \/ StopReturns \/ Crash
    \/ UNCHANGED <<spool, log, handed, born>>
  BY DEF LinkNext, ClientNext, Send, SendBegin, SendToQueue, SendSpills, SpoolRefuses, SendSignals,
     Drain, DrainTop, DrainDials, DrainDialFails, DrainConnected,
     DrainBackoff, DrainSize, DrainSendFails, DrainBreaks, DrainWakes,
     ReadLoop, Main, StopProducers, FlushReturns, StopBegins, StopBreaks,
     LinkOver, clientVars, histVars, linkVars

LEMMA DrainFrame == [LinkNext]_linkVars => Drain \/ Crash \/ UNCHANGED drainVars
  BY DEF LinkNext, ClientNext, Send, SendBegin, SendToQueue, SendSpills, SpoolAppend, SpoolRefuses,
     SendSignals, ReadLoop, Main, StopProducers, FlushReturns, StopBegins, StopBreaks, StopReturns,
     LinkOver, clientVars, linkVars

LEMMA ConnFrame ==
  [LinkNext]_linkVars =>
    \/ \E p \in Producers : SendSignals(p)
    \/ DrainDials \/ DrainConnected \/ DrainBreaks \/ DrainWakes
    \/ \E c \in Conns : ReadLoop(c)
    \/ StopBreaks \/ Crash
    \/ UNCHANGED <<connVars, notify, rl>>
  BY DEF LinkNext, ClientNext, Send, SendBegin, SendToQueue, SendSpills, SpoolAppend, SpoolRefuses,
     Drain, DrainTop, DrainDialFails, DrainBackoff, DrainSize, DrainSends, DrainSendFails,
     DrainTruncates, Main, StopProducers, FlushReturns, StopBegins, StopReturns,
     LinkOver, clientVars, linkVars

LEMMA MainFrame == [LinkNext]_linkVars => Main \/ Crash \/ UNCHANGED mainVars
  BY DEF LinkNext, ClientNext, Send, SendBegin, SendToQueue, SendSpills, SpoolAppend, SpoolRefuses,
     SendSignals, Drain, DrainTop, DrainDials, DrainDialFails, DrainConnected,
     DrainBackoff, DrainSize, DrainSends, DrainSendFails, DrainTruncates, DrainBreaks, DrainWakes,
     ReadLoop, LinkOver, clientVars, linkVars

LEMMA ServerFrame == [LinkNext]_linkVars => ServerNext \/ UNCHANGED serverVars
  BY DEF LinkNext, LinkOver, linkVars

LEMMA SockFrame ==
  [LinkNext]_linkVars =>
    \/ DrainDials \/ DrainSends \/ DrainBreaks
    \/ \E c \in Conns : ReadLoop(c)
    \/ StopBreaks \/ Crash \/ ServerNext
    \/ UNCHANGED sockVars
  BY DEF LinkNext, ClientNext, Send, SendBegin, SendToQueue, SendSpills, SpoolAppend, SpoolRefuses,
     SendSignals, Drain, DrainTop, DrainDialFails, DrainConnected, DrainBackoff, DrainSize,
     DrainSendFails, DrainTruncates, DrainWakes, Main, StopProducers, FlushReturns, StopBegins,
     StopReturns, LinkOver, linkVars

-----------------------------------------------------------------------------
(* Type correctness, part by part.                                         *)

TypeInv == TypeOK /\ SendingIsNumbered

LEMMA TypeInit == LinkInit => TypeInv
<1> SUFFICES ASSUME LinkInit PROVE TypeInv
  OBVIOUS
<1> USE AssumptionsHold DEF Assumptions, LinkInit, NoConn
<1>1. SockTypeOK(Msgs)
  BY DEF SockInit, SockTypeOK, Conns
<1>2. SendingIsNumbered /\ spilling \in BOOLEAN /\ quiet \in BOOLEAN
  BY DEF ClientInit, SendingIsNumbered
<1>3. ProdTypeOK /\ MainTypeOK
  BY <1>2 DEF ClientInit, ProdTypeOK, MainTypeOK
<1>6. SpoolTypeOK /\ DrainTypeOK
  BY DEF ClientInit, SpoolTypeOK, DrainTypeOK
<1>4. ConnTypeOK
  BY DEF ClientInit, ConnTypeOK
<1>5. ServerTypeOK
  BY DEF ServerInit, ServerTypeOK
<1> QED
  BY <1>1, <1>2, <1>3, <1>4, <1>5, <1>6 DEF TypeInv, TypeOK, ClientTypeOK

LEMMA ProdTypeStep ==
  ASSUME ProdTypeOK, SendingIsNumbered, [LinkNext]_linkVars
  PROVE  ProdTypeOK' /\ SendingIsNumbered'
<1> USE AssumptionsHold DEF Assumptions, ProdTypeOK, SendingIsNumbered
<1>1. ASSUME NEW p \in Producers, Send(p) PROVE ProdTypeOK' /\ SendingIsNumbered'
  <2> MsgOf(p) \in Msgs \/ prod[p] = "idle"
    BY DEF MsgOf, Msgs
  <2>1. CASE SendToQueue(p)
    BY <2>1 DEF SendToQueue
  <2>2. CASE SendBegin(p)
    BY <2>2 DEF SendBegin
  <2>3. CASE SpoolAppend(p) \/ SpoolRefuses(p) \/ SendSignals(p)
    BY <2>3 DEF SpoolAppend, SpoolRefuses, SendSignals
  <2>4. CASE SendSpills(p)
    <3>1. spilling' \in BOOLEAN
      BY <2>4 DEF SendSpills
    <3> QED
      BY <2>4, <3>1 DEF SendSpills
  <2> QED
    BY <1>1, <2>1, <2>2, <2>3, <2>4 DEF Send
<1>2. CASE Crash
  <2>1. spilling' \in BOOLEAN
    BY <1>2 DEF Crash
  <2> QED
    BY <1>2, <2>1 DEF Crash
<1>3. CASE UNCHANGED prodVars
  BY <1>3 DEF prodVars
<1> QED
  BY <1>1, <1>2, <1>3, ProdFrame

LEMMA SpoolTypeStep ==
  ASSUME TypeInv, [LinkNext]_linkVars
  PROVE  SpoolTypeOK'
<1> USE AssumptionsHold DEF Assumptions, SpoolTypeOK
<1>0. SpoolTypeOK /\ ProdTypeOK /\ SendingIsNumbered /\ DrainTypeOK
  BY DEF TypeInv, TypeOK, ClientTypeOK
<1>1. ASSUME NEW p \in Producers, SpoolAppend(p) PROVE SpoolTypeOK'
  <2>1. MsgOf(p) \in Msgs
    BY <1>0, <1>1 DEF MsgOf, Msgs, SpoolAppend, ProdTypeOK, SendingIsNumbered
  <2> QED
    BY <1>0, <1>1, <2>1 DEF SpoolAppend, Appendable
<1>2. CASE DrainSends
  BY <1>0, <1>2 DEF DrainSends, HandsNext
<1>3. CASE DrainTruncates
  BY <1>0, <1>3 DEF DrainTruncates, histVars
<1>4. CASE StopReturns
  BY <1>0, <1>4 DEF StopReturns, histVars
<1>5. CASE Crash
  BY <1>0, <1>5 DEF Crash
<1>6. CASE UNCHANGED <<spool, log, handed, born>>
  BY <1>0, <1>6
<1> QED
  BY <1>1, <1>2, <1>3, <1>4, <1>5, <1>6, SpoolFrame

LEMMA DrainTypeStep ==
  ASSUME DrainTypeOK, [LinkNext]_linkVars
  PROVE  DrainTypeOK'
<1> USE DEF DrainTypeOK, drainVars
<1>1. CASE DrainTop \/ DrainDialFails \/ DrainBackoff \/ DrainSize \/ DrainSendFails
  BY <1>1 DEF DrainTop, DrainDialFails, DrainBackoff, DrainSize, DrainSendFails
<1>2. CASE DrainDials \/ DrainConnected \/ DrainSends
  BY <1>2 DEF DrainDials, DrainConnected, DrainSends
<1>3. CASE DrainTruncates \/ DrainBreaks \/ DrainWakes
  BY <1>3 DEF DrainTruncates, DrainBreaks, DrainWakes
<1>4. CASE Crash
  BY <1>4 DEF Crash
<1>5. CASE UNCHANGED drainVars
  BY <1>5
<1> QED
  BY <1>1, <1>2, <1>3, <1>4, <1>5, DrainFrame DEF Drain

LEMMA ConnTypeStep ==
  ASSUME ConnTypeOK, [LinkNext]_linkVars
  PROVE  ConnTypeOK'
<1> USE DEF ConnTypeOK, connVars, BreakTakes, BreakNothing, BreakMarks
<1>1. CASE \E p \in Producers : SendSignals(p)
  BY <1>1 DEF SendSignals
<1>2. CASE DrainDials \/ DrainConnected
  BY <1>2 DEF DrainDials, DrainConnected
<1>3. CASE DrainBreaks \/ DrainWakes
  BY <1>3 DEF DrainBreaks, DrainWakes
<1>4. ASSUME NEW c \in Conns, ReadLoop(c) PROVE ConnTypeOK'
  BY <1>4 DEF ReadLoop, ReadLoopChecks, ReadLoopFails, ReadLoopBreaks
<1>5. CASE StopBreaks
  BY <1>5 DEF StopBreaks
<1>6. CASE Crash
  BY <1>6 DEF Crash
<1>7. CASE UNCHANGED <<connVars, notify, rl>>
  BY <1>7
<1> QED
  BY <1>1, <1>2, <1>3, <1>4, <1>5, <1>6, <1>7, ConnFrame

LEMMA MainTypeStep ==
  ASSUME MainTypeOK, [LinkNext]_linkVars
  PROVE  MainTypeOK'
<1> USE AssumptionsHold DEF Assumptions, MainTypeOK, mainVars
<1>1. CASE Main
  BY <1>1 DEF Main, StopProducers, FlushReturns, StopBegins, StopBreaks, StopReturns
<1>2. CASE Crash
  <2>1. quiet' \in BOOLEAN
    BY <1>2 DEF Crash
  <2> QED
    BY <1>2, <2>1 DEF Crash
<1>3. CASE UNCHANGED mainVars
  BY <1>3
<1> QED
  BY <1>1, <1>2, <1>3, MainFrame

LEMMA SockTypeStep ==
  ASSUME TypeInv, [LinkNext]_linkVars
  PROVE  SockTypeOK(Msgs)'
<1> USE AssumptionsHold DEF Assumptions, SockTypeOK, sockVars
<1>0. SockTypeOK(Msgs) /\ SpoolTypeOK /\ DrainTypeOK /\ ConnTypeOK
  BY DEF TypeInv, TypeOK, ClientTypeOK
<1>1. CASE DrainDials
  BY <1>0, <1>1 DEF DrainDials, Dial, Conns
<1>2. CASE DrainSends
  <2>1. conn \in Conns /\ spool[idx] \in Msgs
    BY <1>0, <1>2 DEF DrainSends, SpoolTypeOK, DrainTypeOK, ConnTypeOK
  <2>2. sent[conn] \in Seq(Msgs)
    BY <1>0, <2>1
  <2>3. Append(sent[conn], spool[idx]) \in Seq(Msgs)
    BY <2>1, <2>2
  <2> QED
    BY <1>0, <1>2, <2>1, <2>3 DEF DrainSends, Write
<1>3. CASE BreakTakes \/ BreakNothing \/ BreakMarks
  BY <1>0, <1>3 DEF BreakTakes, BreakNothing, BreakMarks
<1>4. CASE Crash
  BY <1>0, <1>4 DEF Crash
<1>5. ASSUME NEW c \in Conns, Accept(c) \/ Serve(c) \/ ServeEnds(c) PROVE SockTypeOK(Msgs)'
  <2>1. CASE Accept(c)
    BY <1>0, <2>1 DEF Accept
  <2>2. CASE Serve(c)
    BY <1>0, <2>2 DEF Serve
  <2>3. CASE ServeEnds(c)
    BY <1>0, <2>3 DEF ServeEnds, CloseServerEnds
  <2> QED
    BY <1>5, <2>1, <2>2, <2>3
<1>6. CASE Track \/ ServerStopReturns \/ UNCHANGED sockVars
  BY <1>0, <1>6 DEF Track, ServerStopReturns
<1>7. CASE ServerStopBegins \/ ServerCrash \/ Listen
  BY <1>0, <1>7 DEF ServerStopBegins, ServerCrash, Listen, CloseServerEnds
<1>8. CASE DrainBreaks \/ StopBreaks
  BY <1>3, <1>8 DEF DrainBreaks, StopBreaks
<1>9. ASSUME NEW c \in Conns, ReadLoop(c) PROVE SockTypeOK(Msgs)'
  BY <1>3, <1>6, <1>9 DEF ReadLoop, ReadLoopChecks, ReadLoopFails, ReadLoopBreaks
<1> QED
  BY <1>1, <1>2, <1>4, <1>5, <1>6, <1>7, <1>8, <1>9, SockFrame DEF ServerNext

LEMMA ServerTypeStep ==
  ASSUME TypeInv, [LinkNext]_linkVars
  PROVE  ServerTypeOK'
<1> USE AssumptionsHold DEF Assumptions, ServerTypeOK
<1>0. ServerTypeOK /\ SockTypeOK(Msgs)
  BY DEF TypeInv, TypeOK
<1>1. ASSUME NEW c \in Conns, Accept(c) \/ ServeEnds(c) PROVE ServerTypeOK'
  BY <1>0, <1>1 DEF Accept, ServeEnds
<1>2. ASSUME NEW c \in Conns, Serve(c) PROVE ServerTypeOK'
  BY <1>0, <1>2 DEF Serve
<1>3. CASE Track \/ ServerStopReturns \/ Listen
  BY <1>0, <1>3 DEF Track, ServerStopReturns, Listen
<1>4. CASE ServerStopBegins \/ ServerCrash
  BY <1>0, <1>4 DEF ServerStopBegins, ServerCrash, NoConn
<1>5. CASE UNCHANGED serverVars
  BY <1>0, <1>5 DEF serverVars
<1> QED
  BY <1>1, <1>2, <1>3, <1>4, <1>5, ServerFrame DEF ServerNext

LEMMA TypeStep == TypeInv /\ [LinkNext]_linkVars => TypeInv'
  BY ProdTypeStep, SpoolTypeStep, DrainTypeStep, ConnTypeStep, MainTypeStep, SockTypeStep,
     ServerTypeStep DEF TypeInv, TypeOK, ClientTypeOK

-----------------------------------------------------------------------------
(* The spool: what has left it has been handed over.                       *)

SpoolInv == SpoolIsTail /\ DrainIsWithin /\ StoppedIsIdle

LEMMA SpoolInit == LinkInit => SpoolInv
  BY DEF LinkInit, ClientInit, SpoolInv, SpoolIsTail, DrainIsWithin, StoppedIsIdle, Base

LEMMA SpoolStep ==
  ASSUME TypeInv, SpoolInv, [LinkNext]_linkVars
  PROVE  SpoolInv'
<1> USE DEF SpoolInv, SpoolIsTail, DrainIsWithin, StoppedIsIdle, Base
<1>0. /\ spool \in Seq(Msgs) /\ log \in Seq(Msgs) /\ handed \in Nat /\ handed <= Len(log)
      /\ idx \in Nat \ {0}
  BY DEF TypeInv, TypeOK, ClientTypeOK, SpoolTypeOK, DrainTypeOK
<1>1. ASSUME NEW p \in Producers, SpoolAppend(p) PROVE SpoolInv'
  <2>1. MsgOf(p) \in Msgs
    BY <1>1 DEF SpoolAppend, TypeInv, TypeOK, ClientTypeOK, ProdTypeOK, SendingIsNumbered, MsgOf, Msgs
  <2>2. /\ spool' = Append(spool, MsgOf(p)) /\ log' = Append(log, MsgOf(p))
        /\ handed' = handed /\ dpc' = dpc /\ main' = main
        /\ dpc # "send" /\ main # "done"
    BY <1>1 DEF SpoolAppend, Appendable, SpoolLocked, drainVars, mainVars
  <2>3. Len(spool') = Len(spool) + 1 /\ Len(log') = Len(log) + 1
    BY <1>0, <2>1, <2>2
  <2>4. ASSUME NEW i \in 1 .. Len(spool')
        PROVE  spool'[i] = log'[Len(log') - Len(spool') + i]
    <3>1. CASE i = Len(spool) + 1
      BY <1>0, <2>1, <2>2, <2>3, <3>1
    <3>2. CASE i \in 1 .. Len(spool)
      <4> DEFINE j == Len(log) - Len(spool) + i
      <4>1. j \in 1 .. Len(log) /\ spool[i] = log[j]
        BY <1>0, <2>2, <3>2
      <4>2. spool'[i] = spool[i] /\ log'[j] = log[j]
        BY <1>0, <2>1, <2>2, <3>2, <4>1
      <4> QED
        BY <1>0, <2>3, <4>1, <4>2
    <3> QED
      BY <1>0, <2>3, <2>4, <3>1, <3>2
  <2>5. Len(spool) \in Nat /\ Len(log) \in Nat
    BY <1>0
  <2>6. /\ Len(spool') <= Len(log') /\ Len(log') - Len(spool') <= handed'
    BY <1>0, <2>2, <2>3, <2>5
  <2>7. SpoolIsTail'
    BY <2>4, <2>6
  <2> QED
    BY <2>2, <2>7
<1>2. CASE DrainSends
  BY <1>0, <1>2 DEF DrainSends, HandsNext, mainVars
<1>3. CASE DrainTruncates
  BY <1>0, <1>3 DEF DrainTruncates, histVars, mainVars
<1>4. CASE StopReturns
  BY <1>0, <1>4 DEF StopReturns, drainVars, histVars
<1>5. CASE Crash
  BY <1>0, <1>5 DEF Crash
<1>6. CASE UNCHANGED <<spool, log, handed, born>>
  <2>1. CASE Drain
    <3>1. CASE DrainSize
      BY <1>0, <1>6, <3>1 DEF DrainSize, mainVars
    <3>2. CASE DrainTop \/ DrainDials \/ DrainDialFails \/ DrainConnected \/ DrainBackoff
      BY <1>0, <1>6, <3>2
      DEF DrainTop, DrainDials, DrainDialFails, DrainConnected, DrainBackoff, mainVars
    <3>3. CASE DrainSendFails \/ DrainBreaks \/ DrainWakes
      BY <1>0, <1>6, <3>3 DEF DrainSendFails, DrainBreaks, DrainWakes, mainVars
    <3> QED
      BY <1>2, <1>3, <2>1, <3>1, <3>2, <3>3 DEF Drain
  <2>2. CASE Main
    BY <1>0, <1>6, <2>2 DEF Main, StopProducers, FlushReturns, StopBegins, StopBreaks, StopReturns,
       drainVars
  <2>3. CASE UNCHANGED <<drainVars, mainVars>>
    BY <1>0, <1>6, <2>3 DEF drainVars, mainVars
  <2>4. Drain \/ Main \/ Crash \/ UNCHANGED <<drainVars, mainVars>>
    BY DrainFrame, MainFrame DEF Drain, Main
  <2> QED
    BY <1>5, <2>1, <2>2, <2>3, <2>4
<1> QED
  BY <1>1, <1>2, <1>3, <1>4, <1>5, <1>6, SpoolFrame

-----------------------------------------------------------------------------
(* The connection: taken once, dialled only when there is none.            *)

ConnInv ==
  /\ OneMark /\ MarkingHoldsDial /\ DisconnectedHasNone /\ OpenIsCurrent
  /\ BrokenIsSignalled

LEMMA ConnInit == LinkInit => ConnInv
  BY AssumptionsHold
  DEF Assumptions, LinkInit, ClientInit, SockInit, ConnInv, OneMark, MarkingHoldsDial, Marking,
      DisconnectedHasNone, OpenIsCurrent, BrokenIsSignalled, NoConn, Conns

LEMMA ConnStep ==
  ASSUME TypeInv, ConnInv, [LinkNext]_linkVars
  PROVE  ConnInv'
<1> USE DEF ConnInv, OneMark, MarkingHoldsDial, Marking, DisconnectedHasNone, OpenIsCurrent,
            BrokenIsSignalled, drainVars, connVars, mainVars, sockVars
<1>0. /\ dpc \in {"top", "dial", "connect", "backoff", "size", "send", "wait", "break", "mark", "exit"}
      /\ conn \in Conns \cup {NoConn} /\ NoConn \notin Conns
      /\ connected \in BOOLEAN /\ connBroken \in BOOLEAN
      /\ rl \in [Conns -> {"none", "check", "read", "break", "mark", "done"}]
      /\ cEnd \in [Conns -> {"none", "open", "closed"}]
  BY AssumptionsHold
  DEF Assumptions, TypeInv, TypeOK, ClientTypeOK, DrainTypeOK, ConnTypeOK, SockTypeOK, Conns, NoConn
<1>1. ASSUME NEW p \in Producers, Send(p) PROVE ConnInv'
  BY <1>1 DEF Send, SendBegin, SendToQueue, SendSpills, SpoolAppend, SpoolRefuses, SendSignals
<1>2. CASE DrainTop \/ DrainDialFails \/ DrainBackoff \/ DrainSize
  BY <1>0, <1>2 DEF DrainTop, DrainDialFails, DrainBackoff, DrainSize
<1>3. CASE DrainDials
  BY <1>0, <1>3 DEF DrainDials, Dial
<1>4. CASE DrainConnected
  BY <1>0, <1>4 DEF DrainConnected
<1>5. CASE DrainSends \/ DrainSendFails \/ DrainTruncates
  BY <1>0, <1>5 DEF DrainSends, Write, DrainSendFails, DrainTruncates
<1>6. CASE DrainBreaks
  BY <1>0, <1>6 DEF DrainBreaks, BreakTakes, BreakNothing, BreakMarks
<1>7. CASE DrainWakes
  BY <1>0, <1>7 DEF DrainWakes
<1>8. ASSUME NEW c \in Conns, ReadLoop(c) PROVE ConnInv'
  BY <1>0, <1>8
  DEF ReadLoop, ReadLoopChecks, ReadLoopFails, ReadLoopBreaks, BreakTakes, BreakNothing, BreakMarks
<1>9. CASE StopBreaks
  BY <1>0, <1>9 DEF StopBreaks, BreakTakes, BreakNothing, BreakMarks
<1>10. CASE StopProducers \/ FlushReturns \/ StopBegins \/ StopReturns
  BY <1>0, <1>10 DEF StopProducers, FlushReturns, StopBegins, StopReturns
<1>11. CASE Crash
  BY <1>0, <1>11 DEF Crash
<1>12. CASE UNCHANGED clientVars /\ UNCHANGED cEnd
  BY <1>12 DEF clientVars
<1>13. ServerNext /\ UNCHANGED clientVars => UNCHANGED cEnd
  BY DEF ServerNext, Accept, Track, Serve, ServeEnds, ServerStopBegins, ServerStopReturns,
         ServerCrash, Listen
<1>14. UNCHANGED linkVars => UNCHANGED clientVars /\ UNCHANGED cEnd
  BY DEF linkVars
<1> QED
  BY <1>1, <1>2, <1>3, <1>4, <1>5, <1>6, <1>7, <1>8, <1>9, <1>10, <1>11, <1>12, <1>13, <1>14
  DEF LinkNext, ClientNext, Drain, Main, LinkOver

-----------------------------------------------------------------------------
(* The frames of a connection are a segment of log.                        *)

SegmentInv == SegmentOf /\ CurrentEndsAtCursor /\ UndialledIsEmpty

LEMMA SegmentInit == LinkInit => SegmentInv
<1> SUFFICES ASSUME LinkInit PROVE SegmentInv
  OBVIOUS
<1>1. dials = 0 /\ \A c \in Conns : sent[c] = <<>>
  BY DEF LinkInit, SockInit
<1>2. conn = 0 /\ NoConn = 0 /\ log = <<>>
  BY DEF LinkInit, ClientInit, NoConn
<1>3. \A c \in Conns : Segment(sent[c], 0)
  BY <1>1, <1>2 DEF Segment
<1> QED
  BY <1>1, <1>2, <1>3 DEF SegmentInv, SegmentOf, CurrentEndsAtCursor, UndialledIsEmpty

(* A segment of log stays one when log is appended to.                     *)
LEMMA SegmentStays ==
  ASSUME log \in Seq(Msgs), log' = log \/ \E m \in Msgs : log' = Append(log, m),
         NEW s \in Seq(Msgs), NEW first \in Nat, Segment(s, first)
  PROVE  /\ Len(log) <= Len(log') /\ first + Len(s) <= Len(log')
         /\ \A i \in 1 .. Len(s) : s[i] = log'[first + i]
<1>1. CASE log' = log
  BY <1>1 DEF Segment
<1>2. ASSUME NEW m \in Msgs, log' = Append(log, m)
      PROVE  /\ Len(log') = Len(log) + 1
             /\ \A j \in 1 .. Len(log) : log'[j] = log[j]
  BY <1>2
<1>3. ASSUME NEW i \in 1 .. Len(s)
      PROVE  first + i \in 1 .. Len(log) /\ s[i] = log[first + i]
  BY DEF Segment
<1>4. CASE \E m \in Msgs : log' = Append(log, m)
  <2>1. Len(log) <= Len(log') /\ first + Len(s) <= Len(log')
    BY <1>2, <1>4 DEF Segment
  <2> QED
    BY <1>2, <1>3, <1>4, <2>1
<1> QED
  BY <1>1, <1>4

(* One more frame at the cursor.                                           *)
LEMMA SegmentGrows ==
  ASSUME log \in Seq(Msgs), NEW s \in Seq(Msgs), NEW m \in Msgs, NEW end \in Nat,
         Len(s) <= end, Segment(s, end - Len(s)), end + 1 <= Len(log), m = log[end + 1]
  PROVE  /\ Len(Append(s, m)) <= end + 1
         /\ Segment(Append(s, m), end + 1 - Len(Append(s, m)))
<1>1. Len(Append(s, m)) = Len(s) + 1
  OBVIOUS
<1>2. end + 1 - Len(Append(s, m)) = end - Len(s)
  BY <1>1
<1>3. ASSUME NEW i \in 1 .. Len(s) + 1
      PROVE  Append(s, m)[i] = log[end - Len(s) + i]
  <2>1. CASE i = Len(s) + 1
    BY <2>1
  <2>2. CASE i \in 1 .. Len(s)
    BY <2>2 DEF Segment
  <2> QED
    BY <2>1, <2>2
<1> QED
  BY <1>1, <1>2, <1>3 DEF Segment

LEMMA SegmentStep ==
  ASSUME TypeInv, SpoolInv, SegmentInv, [LinkNext]_linkVars
  PROVE  SegmentInv'
<1>0. /\ spool \in Seq(Msgs) /\ log \in Seq(Msgs) /\ idx \in Nat \ {0}
      /\ sent \in [Conns -> Seq(Msgs)]
      /\ conn \in Conns \cup {NoConn} /\ dials \in 0 .. MaxConns
      /\ Len(spool) \in Nat /\ Len(log) \in Nat
  BY DEF TypeInv, TypeOK, ClientTypeOK, SpoolTypeOK, DrainTypeOK, ConnTypeOK, SockTypeOK
<1>a. MaxConns \in Nat /\ NoConn \notin Conns /\ NoConn = 0
  BY AssumptionsHold DEF Assumptions, NoConn, Conns
<1>b. dpc = "send" => /\ main # "done" /\ Len(spool) <= Len(log)
                      /\ idx <= Len(spool) + 1
                      /\ \A i \in 1 .. Len(spool) : spool[i] = log[Len(log) - Len(spool) + i]
  BY DEF SpoolInv, SpoolIsTail, DrainIsWithin, StoppedIsIdle, Base
<1>c. main # "done" => Len(spool) <= Len(log)
  BY DEF SpoolInv, SpoolIsTail
(* Whatever changes neither log nor what is sent keeps the segments; what  *)
(* also keeps the cursor keeps the current connection's place.             *)
<1>1. UNCHANGED <<log, sent>> => SegmentOf'
  BY DEF SegmentInv, SegmentOf, Segment
<1>2. UNCHANGED <<sent, dials>> /\ conn' \in {conn, NoConn} => UndialledIsEmpty'
  BY <1>0, <1>a DEF SegmentInv, UndialledIsEmpty
<1>3. UNCHANGED <<log, sent, conn>> /\ Cursor' = Cursor /\ (main' # "done" => main # "done")
        /\ (dpc = "break" => dpc' = "break" \/ conn = NoConn)
      => CurrentEndsAtCursor'
  BY <1>0 DEF SegmentInv, CurrentEndsAtCursor, Segment
<1>4. conn' = NoConn => CurrentEndsAtCursor'
  BY DEF CurrentEndsAtCursor, NoConn
<1>5. ASSUME NEW p \in Producers, SpoolAppend(p) PROVE SegmentInv'
  <2>1. MsgOf(p) \in Msgs
    BY <1>5 DEF SpoolAppend, TypeInv, TypeOK, ClientTypeOK, ProdTypeOK, SendingIsNumbered, MsgOf, Msgs
  <2>2. /\ spool' = Append(spool, MsgOf(p)) /\ log' = Append(log, MsgOf(p))
        /\ UNCHANGED <<dpc, idx, conn, main, sent, dials>> /\ dpc # "send" /\ main # "done"
    BY <1>5 DEF SpoolAppend, Appendable, SpoolLocked, drainVars, connVars, mainVars, sockVars
  <2>3. Cursor' = Cursor /\ Cursor \in Nat
    <3>1. Len(spool') = Len(spool) + 1 /\ Len(log') = Len(log) + 1
      BY <1>0, <2>1, <2>2
    <3> QED
      BY <1>0, <1>c, <2>2, <3>1 DEF Cursor, Base
  <2>4. SegmentOf'
    <3> SUFFICES ASSUME NEW c \in Conns
                 PROVE  \E first \in 0 .. Len(log') : Segment(sent[c], first)'
      BY <2>2 DEF SegmentOf
    <3>1. PICK first \in 0 .. Len(log) : Segment(sent[c], first)
      BY DEF SegmentInv, SegmentOf
    <3>2. sent[c] \in Seq(Msgs) /\ first \in Nat
      BY <1>0
    <3>3. Len(log) <= Len(log') /\ Segment(sent[c], first)'
      BY <1>0, <2>1, <2>2, <3>1, <3>2, SegmentStays DEF Segment
    <3>4. first \in 0 .. Len(log')
      BY <1>0, <2>1, <2>2, <3>3
    <3> QED
      BY <3>3, <3>4
  <2>5. CurrentEndsAtCursor'
    <3> SUFFICES ASSUME conn # NoConn, dpc # "break"
                 PROVE  Len(sent[conn]) <= Cursor /\ Segment(sent[conn], Cursor - Len(sent[conn]))'
      BY <2>2, <2>3 DEF CurrentEndsAtCursor
    <3>1. Len(sent[conn]) <= Cursor /\ Segment(sent[conn], Cursor - Len(sent[conn]))
      BY <2>2 DEF SegmentInv, CurrentEndsAtCursor
    <3>2. sent[conn] \in Seq(Msgs)
      BY <1>0
    <3>3. Cursor - Len(sent[conn]) \in Nat
      BY <2>3, <3>1, <3>2
    <3>4. /\ Cursor - Len(sent[conn]) + Len(sent[conn]) <= Len(log')
          /\ \A i \in 1 .. Len(sent[conn]) : sent[conn][i] = log'[Cursor - Len(sent[conn]) + i]
      BY <1>0, <2>1, <2>2, <3>1, <3>2, <3>3, SegmentStays
    <3> QED
      BY <2>2, <2>3, <3>1, <3>4 DEF Segment
  <2> QED
    BY <1>2, <2>2, <2>4, <2>5 DEF SegmentInv
<1>6. CASE DrainSends
  <2>1. /\ conn \in Conns /\ dpc = "send" /\ idx \in 1 .. Len(spool)
        /\ sent' = [sent EXCEPT ![conn] = Append(@, spool[idx])]
        /\ idx' = idx + 1 /\ UNCHANGED <<spool, log, dpc, conn, main, dials>>
    BY <1>0, <1>6 DEF DrainSends, Write, connVars, mainVars
  <2>0. PICK end : end = Len(log) - Len(spool) + idx - 1
    OBVIOUS
  <2>2. /\ sent[conn] \in Seq(Msgs) /\ spool[idx] \in Msgs /\ end \in Nat /\ end + 1 <= Len(log)
        /\ spool[idx] = log[end + 1]
    <3>1. sent[conn] \in Seq(Msgs) /\ spool[idx] \in Msgs
      BY <1>0, <2>1
    <3>2. Len(spool) <= Len(log) /\ spool[idx] = log[Len(log) - Len(spool) + idx]
      BY <1>b, <2>1
    <3>3. end + 1 = Len(log) - Len(spool) + idx /\ end \in Nat /\ end + 1 <= Len(log)
      BY <1>0, <2>0, <2>1, <3>2
    <3> QED
      BY <3>1, <3>2, <3>3
  <2>3. Cursor = end /\ Cursor' = end + 1
    BY <1>0, <2>0, <2>1 DEF Cursor, Base
  <2>4. Len(sent[conn]) <= end /\ Segment(sent[conn], end - Len(sent[conn]))
    BY <1>a, <1>b, <2>1, <2>3 DEF SegmentInv, CurrentEndsAtCursor
  <2>5. sent'[conn] = Append(sent[conn], spool[idx]) /\ \A c \in Conns : c # conn => sent'[c] = sent[c]
    BY <1>0, <2>1
  <2>6. Len(sent'[conn]) <= end + 1 /\ Segment(sent'[conn], end + 1 - Len(sent'[conn]))
    BY <1>0, <2>2, <2>4, <2>5, SegmentGrows
  <2>7. CurrentEndsAtCursor'
    <3>1. conn' = conn /\ log' = log /\ Cursor' = end + 1
      BY <2>1, <2>3
    <3>2. Len(sent'[conn']) <= Cursor'
      BY <2>6, <3>1
    <3>3. Cursor' - Len(sent'[conn']) = end + 1 - Len(sent'[conn])
      <4>1. end \in Nat /\ Len(sent'[conn]) \in Nat
        BY <2>2, <2>5
      <4> QED
        BY <3>1, <4>1
    <3>4. /\ Cursor' - Len(sent'[conn']) + Len(sent'[conn']) <= Len(log')
          /\ \A i \in 1 .. Len(sent'[conn']) :
               sent'[conn'][i] = log'[Cursor' - Len(sent'[conn']) + i]
      BY <2>6, <3>1, <3>3 DEF Segment
    <3> QED
      BY <3>2, <3>4 DEF CurrentEndsAtCursor, Segment
  <2>8. SegmentOf'
    <3> SUFFICES ASSUME NEW c \in Conns
                 PROVE  \E first \in 0 .. Len(log) : Segment(sent'[c], first)
      BY <2>1 DEF SegmentOf, Segment
    <3>1. CASE c = conn
      <4>1. Len(sent'[conn]) \in Nat
        BY <2>2, <2>5
      <4>2. end + 1 - Len(sent'[conn]) \in 0 .. Len(log)
        BY <1>0, <2>2, <2>6, <4>1
      <4> QED
        BY <2>6, <3>1, <4>2
    <3>2. CASE c # conn
      BY <2>5, <3>2 DEF SegmentInv, SegmentOf
    <3> QED
      BY <3>1, <3>2
  <2>9. UndialledIsEmpty'
    <3>1. conn <= dials /\ \A c \in Conns : c > dials => sent[c] = <<>> /\ c # conn
      BY <1>0, <1>a, <2>1 DEF SegmentInv, UndialledIsEmpty, Conns
    <3> QED
      BY <2>1, <2>5, <3>1 DEF UndialledIsEmpty
  <2> QED
    BY <2>7, <2>8, <2>9 DEF SegmentInv
<1>7. CASE DrainDials
  <2>1. PICK c \in Conns : Dial(c) /\ conn' = c
    BY <1>7 DEF DrainDials
  <2>2. /\ c = dials + 1 /\ dials' = c /\ dpc = "dial" /\ dpc' = "connect" /\ UNCHANGED <<spool, log, idx, main, sent>>
    BY <1>7, <2>1 DEF DrainDials, Dial, histVars, mainVars
  <2>3. sent[c] = <<>>
    BY <1>0, <2>2 DEF SegmentInv, UndialledIsEmpty
  <2>4. UndialledIsEmpty'
    BY <1>0, <1>a, <2>1, <2>2 DEF SegmentInv, UndialledIsEmpty, Conns
  <2>5. main # "done" => Cursor' \in Nat /\ Cursor' <= Len(log)
    BY <1>0, <1>c, <2>2 DEF Cursor, Base
  <2>6. CurrentEndsAtCursor'
    BY <2>1, <2>2, <2>3, <2>5 DEF CurrentEndsAtCursor, Segment
  <2> QED
    BY <1>1, <2>2, <2>4, <2>6 DEF SegmentInv
<1>8. CASE DrainTruncates
  <2>1. /\ dpc = "send" /\ dpc' = "wait" /\ spool' = <<>> /\ idx > Len(spool)
        /\ UNCHANGED <<log, sent, conn, main, dials>>
    BY <1>8 DEF DrainTruncates, histVars, connVars, mainVars, sockVars
  <2>2. Cursor' = Cursor
    <3>1. idx = Len(spool) + 1
      BY <1>0, <1>b, <2>1
    <3>2. Cursor = Len(log)
      BY <1>0, <2>1, <3>1 DEF Cursor, Base
    <3>3. Cursor' = Len(log)
      BY <1>0, <2>1 DEF Cursor, Base
    <3> QED
      BY <3>2, <3>3
  <2> QED
    BY <1>1, <1>2, <1>3, <2>1, <2>2 DEF SegmentInv
<1>9. CASE DrainTop \/ DrainDialFails \/ DrainBackoff \/ DrainSize \/ DrainConnected \/ DrainWakes
  <2>1. UNCHANGED <<spool, log, sent, conn, main, dials>>
    BY <1>9 DEF DrainTop, DrainDialFails, DrainBackoff, DrainSize, DrainConnected, DrainWakes,
                histVars, connVars, mainVars, sockVars
  <2>2. dpc # "send" /\ dpc # "break" /\ (dpc' = "send" => idx' = 1)
    BY <1>9 DEF DrainTop, DrainDialFails, DrainBackoff, DrainSize, DrainConnected, DrainWakes
  <2>3. Cursor' = Cursor
    BY <1>0, <2>1, <2>2 DEF Cursor, Base
  <2> QED
    BY <1>1, <1>2, <1>3, <2>1, <2>2, <2>3 DEF SegmentInv
<1>10. CASE DrainSendFails
  <2>1. dpc' = "break" /\ UNCHANGED <<log, sent, dials, conn>>
    BY <1>10 DEF DrainSendFails, histVars, connVars, sockVars
  <2> QED
    BY <1>1, <1>2, <2>1 DEF SegmentInv, CurrentEndsAtCursor
<1>11. CASE UNCHANGED <<log, sent, dials>> /\ conn' = NoConn
  BY <1>1, <1>2, <1>4, <1>11 DEF SegmentInv
<1>12. CASE /\ UNCHANGED <<log, sent, dials, conn, spool, idx, dpc>>
            /\ main' # "done" => main # "done"
  <2>1. Cursor' = Cursor
    BY <1>12 DEF Cursor, Base
  <2> QED
    BY <1>1, <1>2, <1>3, <1>12, <2>1 DEF SegmentInv
<1>13. CASE DrainBreaks
  <2>1. UNCHANGED <<log, sent, dials>>
    BY <1>13 DEF DrainBreaks, BreakTakes, BreakNothing, BreakMarks, histVars, sockVars
  <2>2. CASE dpc = "break"
    BY <1>11, <1>13, <2>1, <2>2 DEF DrainBreaks, BreakTakes, BreakNothing, connVars
  <2>3. CASE dpc = "mark"
    <3>1. dpc' = "top" /\ UNCHANGED <<conn, main, spool, idx>>
      BY <1>13, <2>3 DEF DrainBreaks, BreakMarks, mainVars
    <3>2. Cursor' = Cursor
      BY <2>1, <2>3, <3>1 DEF Cursor, Base
    <3> QED
      BY <1>1, <1>2, <1>3, <2>1, <2>3, <3>1, <3>2 DEF SegmentInv
  <2> QED
    BY <1>13, <2>2, <2>3 DEF DrainBreaks
<1>14. ASSUME NEW c \in Conns, ReadLoop(c) PROVE SegmentInv'
  <2>1. UNCHANGED <<log, sent, dials, spool, idx, dpc, main>> /\ (conn' = conn \/ conn' = NoConn)
    BY <1>14 DEF ReadLoop, ReadLoopChecks, ReadLoopFails, ReadLoopBreaks, BreakTakes, BreakNothing,
                 BreakMarks, drainVars, connVars, mainVars, histVars, sockVars
  <2> QED
    BY <1>11, <1>12, <2>1
<1>15. CASE StopBreaks
  <2>1. UNCHANGED <<log, sent, dials, spool, idx, dpc>> /\ (conn' = conn \/ conn' = NoConn)
        /\ main # "done"
    BY <1>15 DEF StopBreaks, BreakTakes, BreakNothing, BreakMarks, drainVars, connVars, histVars, sockVars
  <2> QED
    BY <1>11, <1>12, <2>1
<1>16. CASE StopReturns
  <2>1. UNCHANGED <<log, sent, dials, conn>> /\ main' = "done"
    BY <1>16 DEF StopReturns, connVars, histVars, sockVars
  <2> QED
    BY <1>1, <1>2, <2>1 DEF SegmentInv, CurrentEndsAtCursor
<1>17. CASE StopProducers \/ FlushReturns \/ StopBegins
  <2>1. UNCHANGED <<log, sent, dials, conn, spool, idx, dpc>> /\ main # "done"
    BY <1>17 DEF StopProducers, FlushReturns, StopBegins, drainVars, connVars, histVars, sockVars
  <2> QED
    BY <1>12, <2>1
<1>18. CASE Crash
  BY <1>11, <1>18 DEF Crash
<1>19. ASSUME NEW p \in Producers, Send(p), ~SpoolAppend(p) PROVE SegmentInv'
  <2>1. UNCHANGED <<log, sent, dials, conn, spool, idx, dpc, main>>
    BY <1>19 DEF Send, SendBegin, SendToQueue, SendSpills, SpoolRefuses, SendSignals,
                 drainVars, connVars, mainVars, histVars, sockVars
  <2> QED
    BY <1>12, <2>1
<1>20. CASE ServerNext /\ UNCHANGED clientVars
  <2>1. UNCHANGED <<sent, dials>>
    BY <1>20 DEF ServerNext, Accept, Track, Serve, ServeEnds, ServerStopBegins, ServerStopReturns,
                 ServerCrash, Listen, sockVars
  <2> QED
    BY <1>12, <1>20, <2>1 DEF clientVars, drainVars, connVars, mainVars, histVars
<1>21. CASE UNCHANGED linkVars
  BY <1>12, <1>21 DEF linkVars, clientVars, drainVars, connVars, mainVars, histVars, sockVars
<1> QED
  BY <1>5, <1>6, <1>7, <1>8, <1>9, <1>10, <1>13, <1>14, <1>15, <1>16, <1>17, <1>18, <1>19, <1>20, <1>21
  DEF LinkNext, ClientNext, Drain, Main, LinkOver

-----------------------------------------------------------------------------
(* The wake-ups of a spooled record.                                       *)

LEMMA WakeInit == LinkInit => SpooledIsSignalled
  BY DEF LinkInit, ClientInit, SpooledIsSignalled

LEMMA WakeStep ==
  ASSUME TypeInv, SpooledIsSignalled, [LinkNext]_linkVars
  PROVE  SpooledIsSignalled'
<1> USE DEF SpooledIsSignalled
<1>0. prod \in [Producers -> {"idle", "route", "append", "signal"}]
  BY DEF TypeInv, TypeOK, ClientTypeOK, ProdTypeOK
<1>1. ASSUME NEW p \in Producers, SpoolAppend(p) PROVE SpooledIsSignalled'
  BY <1>0, <1>1 DEF SpoolAppend
<1>2. ASSUME NEW p \in Producers, SendSignals(p) PROVE SpooledIsSignalled'
  BY <1>0, <1>2 DEF SendSignals
<1>3. ASSUME NEW p \in Producers, SendBegin(p) \/ SendToQueue(p) \/ SendSpills(p) \/ SpoolRefuses(p)
      PROVE  SpooledIsSignalled'
  BY <1>0, <1>3 DEF SendBegin, SendToQueue, SendSpills, SpoolRefuses, drainVars
<1>4. CASE Drain
  BY <1>4 DEF Drain, DrainTop, DrainDials, DrainDialFails, DrainConnected,
     DrainBackoff, DrainSize, DrainSends, DrainSendFails, DrainTruncates, DrainBreaks, DrainWakes
<1>5. CASE StopReturns \/ Crash
  BY <1>5 DEF StopReturns, Crash
<1>6. CASE UNCHANGED <<prodVars, spool, drainVars, notify>>
  BY <1>6 DEF prodVars, drainVars
<1>7. Main \/ (\E c \in Conns : ReadLoop(c)) =>
        StopReturns \/ UNCHANGED <<prodVars, spool, drainVars, notify>>
  BY DEF Main, StopProducers, FlushReturns, StopBegins, StopBreaks, ReadLoop
<1>8. ServerNext /\ UNCHANGED clientVars => UNCHANGED <<prodVars, spool, drainVars, notify>>
  BY DEF clientVars
<1>9. UNCHANGED linkVars => UNCHANGED <<prodVars, spool, drainVars, notify>>
  BY DEF linkVars, clientVars
<1> QED
  BY <1>1, <1>2, <1>3, <1>4, <1>5, <1>6, <1>7, <1>8, <1>9 DEF LinkNext, ClientNext, Send, LinkOver

-----------------------------------------------------------------------------
(* The queue and the spool.                                                *)

QueueInv == NotSpillingYet /\ QueueIsOld /\ QueueBeforeSpool

LEMMA QueueInit == LinkInit => QueueInv
  BY DEF LinkInit, ClientInit, QueueInv, NotSpillingYet, QueueIsOld, QueueBeforeSpool

LEMMA LogFrame ==
  [LinkNext]_linkVars =>
    (\E p \in Producers : SpoolAppend(p)) \/ Crash \/ UNCHANGED <<log, born>>
  BY SpoolFrame DEF DrainSends, DrainTruncates, StopReturns, histVars

LEMMA QueueStep ==
  ASSUME TypeInv, QueueInv, [LinkNext]_linkVars
  PROVE  QueueInv'
<1> USE DEF QueueInv, NotSpillingYet, QueueIsOld, QueueBeforeSpool
<1>0. /\ prod \in [Producers -> {"idle", "route", "append", "signal"}]
      /\ seq \in [Producers -> Nat]
      /\ queue \in Seq(Msgs) /\ log \in Seq(Msgs) /\ born \in Nat
      /\ \A m \in Msgs : m[1] \in Producers /\ m[2] \in Nat
      /\ Len(queue) \in Nat /\ Len(log) \in Nat /\ DOMAIN queue = 1 .. Len(queue)
  <2>1. /\ prod \in [Producers -> {"idle", "route", "append", "signal"}]
        /\ seq \in [Producers -> 0 .. MaxMsgs]
        /\ queue \in Seq(Msgs) /\ log \in Seq(Msgs) /\ born \in 0 .. Len(log)
    BY DEF TypeInv, TypeOK, ClientTypeOK, ProdTypeOK, SpoolTypeOK
  <2>2. MaxMsgs \in Nat
    BY AssumptionsHold DEF Assumptions
  <2>3. Len(queue) \in Nat /\ Len(log) \in Nat /\ DOMAIN queue = 1 .. Len(queue)
    BY <2>1
  <2>4. seq \in [Producers -> Nat] /\ born \in Nat
    BY <2>1, <2>2, <2>3
  <2>5. \A m \in Msgs : m[1] \in Producers /\ m[2] \in Nat
    BY <2>2 DEF Msgs
  <2> QED
    BY <2>1, <2>3, <2>4, <2>5
<1>1. \A i \in DOMAIN queue : queue[i] \in Msgs /\ queue[i][1] \in Producers /\ queue[i][2] \in Nat
  BY <1>0
<1>2. ASSUME NEW p \in Producers, SendBegin(p) PROVE QueueInv'
  BY <1>0, <1>1, <1>2 DEF SendBegin, histVars
<1>3. ASSUME NEW p \in Producers, SendToQueue(p) PROVE QueueInv'
  <2>1. MsgOf(p) \in Msgs /\ MsgOf(p)[1] = p /\ MsgOf(p)[2] = seq[p]
    BY <1>3 DEF SendToQueue, TypeInv, TypeOK, ClientTypeOK, ProdTypeOK, SendingIsNumbered, MsgOf, Msgs
  <2>2. /\ queue' = Append(queue, MsgOf(p)) /\ prod' = [prod EXCEPT ![p] = "idle"]
        /\ UNCHANGED <<seq, spilling, log, born>> /\ ~spilling /\ prod[p] = "route"
    BY <1>3 DEF SendToQueue, histVars
  <2>3. DOMAIN queue' = 1 .. Len(queue) + 1 /\ queue'[Len(queue) + 1] = MsgOf(p)
        /\ \A i \in DOMAIN queue : queue'[i] = queue[i]
    BY <1>0, <2>1, <2>2
  <2>4. NotSpillingYet'
    BY <1>0, <2>2
  <2>5. QueueIsOld'
    <3> SUFFICES ASSUME NEW i \in DOMAIN queue'
                 PROVE  /\ queue'[i][2] <= seq[queue'[i][1]]
                        /\ prod'[queue'[i][1]] \in {"route", "append"}
                             => queue'[i][2] < seq[queue'[i][1]]
      BY <2>2
    <3>1. CASE i = Len(queue) + 1
      BY <1>0, <2>1, <2>2, <2>3, <3>1
    <3>2. CASE i \in DOMAIN queue
      BY <1>0, <1>1, <2>2, <2>3, <3>2
    <3> QED
      BY <1>0, <2>3, <3>1, <3>2
  <2>6. QueueBeforeSpool'
    BY <1>0, <2>2
  <2> QED
    BY <2>4, <2>5, <2>6
<1>4. ASSUME NEW p \in Producers, SendSpills(p) PROVE QueueInv'
  BY <1>0, <1>1, <1>4 DEF SendSpills, histVars
<1>5. ASSUME NEW p \in Producers, SpoolRefuses(p) \/ SendSignals(p) PROVE QueueInv'
  BY <1>0, <1>1, <1>5 DEF SpoolRefuses, SendSignals, histVars
<1>6. ASSUME NEW p \in Producers, SpoolAppend(p) PROVE QueueInv'
  <2>1. MsgOf(p) \in Msgs /\ MsgOf(p)[1] = p /\ MsgOf(p)[2] = seq[p]
    BY <1>6 DEF SpoolAppend, TypeInv, TypeOK, ClientTypeOK, ProdTypeOK, SendingIsNumbered, MsgOf, Msgs
  <2>2. /\ log' = Append(log, MsgOf(p)) /\ prod' = [prod EXCEPT ![p] = "signal"]
        /\ UNCHANGED <<seq, queue, spilling, born>> /\ prod[p] = "append"
    BY <1>6 DEF SpoolAppend
  <2>3. Len(log') = Len(log) + 1 /\ log'[Len(log) + 1] = MsgOf(p)
        /\ \A j \in 1 .. Len(log) : log'[j] = log[j]
    BY <1>0, <2>1, <2>2
  <2>4. NotSpillingYet'
    BY <2>2
  <2>5. QueueIsOld'
    BY <1>0, <1>1, <2>2
  <2>6. QueueBeforeSpool'
    <3> SUFFICES ASSUME NEW i \in DOMAIN queue, NEW j \in born + 1 .. Len(log) + 1,
                        queue[i][1] = log'[j][1]
                 PROVE  queue[i][2] < log'[j][2]
      BY <2>2, <2>3
    <3>1. CASE j = Len(log) + 1
      <4>1. log'[j] = MsgOf(p) /\ queue[i][1] = p
        BY <2>1, <2>3, <3>1
      <4>2. queue[i][2] < seq[p]
        BY <2>2, <4>1
      <4> QED
        BY <2>1, <4>1, <4>2
    <3>2. CASE j \in born + 1 .. Len(log)
      <4>1. j \in 1 .. Len(log) /\ log'[j] = log[j]
        BY <1>0, <2>3, <3>2
      <4> QED
        BY <3>2, <4>1
    <3> QED
      BY <1>0, <3>1, <3>2
  <2> QED
    BY <2>4, <2>5, <2>6
<1>7. CASE Crash
  BY <1>0, <1>7 DEF Crash
<1>8. CASE UNCHANGED <<prodVars, log, born>>
  BY <1>8 DEF prodVars
<1>9. \A p \in Producers : SpoolAppend(p) => Send(p)
  BY DEF Send
<1> QED
  BY <1>2, <1>3, <1>4, <1>5, <1>6, <1>7, <1>8, <1>9, ProdFrame, LogFrame DEF Send

-----------------------------------------------------------------------------
(* The server.                                                             *)

LEMMA ServerOwnsInit == LinkInit => ServerOwnsOpen
  BY DEF LinkInit, SockInit, ServerInit, ServerOwnsOpen

LEMMA ServerOwnsStep ==
  ASSUME TypeInv, ServerOwnsOpen, [LinkNext]_linkVars
  PROVE  ServerOwnsOpen'
<1> USE DEF ServerOwnsOpen
<1>0. /\ sEnd \in [Conns -> {"none", "backlog", "open", "closed"}]
      /\ serving \in [Conns -> {"no", "run", "done"}]
      /\ acc \in Conns \cup {NoConn} /\ NoConn \notin Conns
  BY AssumptionsHold DEF Assumptions, TypeInv, TypeOK, SockTypeOK, ServerTypeOK, NoConn, Conns
<1>1. CASE DrainDials /\ UNCHANGED serverVars
  BY <1>0, <1>1 DEF DrainDials, Dial, serverVars
<1>2. CASE UNCHANGED <<sEnd, listening, serverVars>>
  BY <1>2 DEF serverVars
<1>3. ASSUME NEW c \in Conns, Accept(c) PROVE ServerOwnsOpen'
  BY <1>0, <1>3 DEF Accept
<1>4. CASE Track
  BY <1>0, <1>4 DEF Track, sockVars
<1>5. ASSUME NEW c \in Conns, Serve(c) PROVE ServerOwnsOpen'
  BY <1>0, <1>5 DEF Serve
<1>6. ASSUME NEW c \in Conns, ServeEnds(c) PROVE ServerOwnsOpen'
  BY <1>0, <1>6 DEF ServeEnds, CloseServerEnds
<1>7. CASE ServerStopBegins
  BY <1>0, <1>7 DEF ServerStopBegins, CloseServerEnds, Backlog
<1>8. CASE ServerStopReturns
  BY <1>0, <1>8 DEF ServerStopReturns, sockVars
<1>9. CASE ServerCrash
  BY <1>0, <1>9 DEF ServerCrash, CloseServerEnds
<1>10. CASE Listen
  BY <1>0, <1>10 DEF Listen
<1>11. DrainSends \/ DrainBreaks \/ StopBreaks \/ Crash \/ (\E c \in Conns : ReadLoop(c))
         => UNCHANGED <<sEnd, listening>>
  BY DEF DrainSends, Write, DrainBreaks, StopBreaks, Crash, ReadLoop, ReadLoopChecks, ReadLoopFails,
         ReadLoopBreaks, BreakTakes, BreakNothing, BreakMarks, sockVars
<1>12. ServerNext => ServerOwnsOpen'
  BY <1>3, <1>4, <1>5, <1>6, <1>7, <1>8, <1>9, <1>10 DEF ServerNext
<1>13. UNCHANGED sockVars => UNCHANGED <<sEnd, listening>>
  BY DEF sockVars
<1> QED
  BY <1>1, <1>2, <1>11, <1>12, <1>13, ServerFrame, SockFrame

-----------------------------------------------------------------------------
(* The theorems.                                                           *)

IInv ==
  /\ TypeInv /\ SpoolInv /\ ConnInv /\ SegmentInv
  /\ SpooledIsSignalled /\ QueueInv /\ ServerOwnsOpen

(* The inductive invariant holds in every reachable state of an edge.       *)
THEOREM IInvHolds == LinkSpec => []IInv
<1>1. LinkInit => IInv
  BY TypeInit, SpoolInit, ConnInit, SegmentInit, WakeInit, QueueInit, ServerOwnsInit DEF IInv
<1>2. IInv /\ [LinkNext]_linkVars => IInv'
  BY TypeStep, SpoolStep, ConnStep, SegmentStep, WakeStep, QueueStep, ServerOwnsStep DEF IInv
<1> QED
  BY <1>1, <1>2, PTL DEF LinkSpec

(* Every variable of the edge keeps its type, and the queue, the spool and  *)
(* the counters keep the capacities the code gives them.                    *)
THEOREM TypesAlwaysHold == LinkSpec => []TypeOK
<1>1. IInv => TypeOK
  BY DEF IInv, TypeInv
<1> QED
  BY <1>1, IInvHolds, PTL

LEMMA SegmentIsSubSeq ==
  ASSUME NEW S, NEW s \in Seq(S), NEW t \in Seq(S), NEW f \in Nat,
         f + Len(s) <= Len(t), \A i \in 1 .. Len(s) : s[i] = t[f + i]
  PROVE  s = SubSeq(t, f + 1, f + Len(s))
<1>1. Len(s) \in Nat /\ Len(t) \in Nat
  OBVIOUS
<1>2. \A i \in f + 1 .. f + Len(s) : t[i] \in S
  BY <1>1
<1>3. /\ SubSeq(t, f + 1, f + Len(s)) \in Seq(S)
      /\ Len(SubSeq(t, f + 1, f + Len(s))) = Len(s)
      /\ \A i \in 1 .. Len(s) : SubSeq(t, f + 1, f + Len(s))[i] = t[f + i]
  <2> DEFINE m == f + 1
             n == f + Len(s)
  <2>1. m \in Int /\ n \in Int /\ n - m + 1 = Len(s)
    BY <1>1
  <2>2. \A i \in m .. n : t[i] \in S
    BY <1>2
  <2>3. /\ SubSeq(t, m, n) \in Seq(S)
        /\ Len(SubSeq(t, m, n)) = IF m <= n THEN n - m + 1 ELSE 0
        /\ \A i \in 1 .. n - m + 1 : SubSeq(t, m, n)[i] = t[m + i - 1]
    <3> HIDE DEF m, n
    <3> QED
      BY <2>1, <2>2, SubSeqProperties
  <2>4. Len(SubSeq(t, m, n)) = Len(s)
    BY <1>1, <2>3
  <2>5. \A i \in 1 .. Len(s) : m + i - 1 = f + i
    BY <1>1
  <2> QED
    BY <2>1, <2>3, <2>4, <2>5
<1> QED
  BY <1>3, SeqEqual

(* Nothing leaves the spool that was not written to a connection: the spool *)
(* of drain is always the tail of everything ever appended (spool.go drain, *)
(* "a LOSS is never introduced").                                           *)
THEOREM NoSpooledRecordLost == LinkSpec => []SpoolKeepsUnsent
<1>1. IInv => SpoolKeepsUnsent
  <2> SUFFICES ASSUME IInv, main # "done" PROVE SpoolKeepsUnsent
    BY DEF SpoolKeepsUnsent
  <2>1. spool \in Seq(Msgs) /\ log \in Seq(Msgs) /\ Len(spool) \in Nat /\ Len(log) \in Nat
    BY DEF IInv, TypeInv, TypeOK, ClientTypeOK, SpoolTypeOK
  <2>2. /\ Len(spool) <= Len(log) /\ Base <= handed
        /\ \A i \in 1 .. Len(spool) : spool[i] = log[Base + i]
    BY DEF IInv, SpoolInv, SpoolIsTail
  <2>3. Base \in Nat /\ Base + Len(spool) = Len(log)
    BY <2>1, <2>2 DEF Base
  <2>4. spool = SubSeq(log, Base + 1, Base + Len(spool))
    <3> HIDE DEF Base
    <3> QED
      BY <2>1, <2>2, <2>3, SegmentIsSubSeq
  <2> QED
    BY <2>2, <2>3, <2>4 DEF SpoolKeepsUnsent
<1> QED
  BY <1>1, IInvHolds, PTL

(* Within one connection the frames written are consecutive records of the  *)
(* spool in append order, through every break, reconnect and replay.        *)
THEOREM ConnectionsInOrder == LinkSpec => []ConnInOrder
<1>1. IInv => ConnInOrder
  <2> SUFFICES ASSUME IInv, NEW c \in Conns
               PROVE  \E first \in 0 .. Len(log) :
                        /\ first + Len(sent[c]) <= Len(log)
                        /\ sent[c] = SubSeq(log, first + 1, first + Len(sent[c]))
    BY DEF ConnInOrder
  <2>1. sent[c] \in Seq(Msgs) /\ log \in Seq(Msgs)
    BY DEF IInv, TypeInv, TypeOK, ClientTypeOK, SpoolTypeOK, SockTypeOK
  <2>2. PICK first \in 0 .. Len(log) : Segment(sent[c], first)
    BY DEF IInv, SegmentInv, SegmentOf
  <2>3. /\ first \in Nat /\ first + Len(sent[c]) <= Len(log)
        /\ \A i \in 1 .. Len(sent[c]) : sent[c][i] = log[first + i]
    BY <2>2 DEF Segment
  <2> QED
    BY <2>1, <2>3, SegmentIsSubSeq
<1> QED
  BY <1>1, IInvHolds, PTL

(* connect never replaces a live connection, and at most one socket of a    *)
(* client is open, however breakConn of drainLoop, readLoop and Stop race.  *)
THEOREM OneConnectionAtATime == LinkSpec => []OneConnection
<1>1. IInv => OneConnection
  BY DEF IInv, ConnInv, DisconnectedHasNone, OpenIsCurrent, OneConnection
<1> QED
  BY <1>1, IInvHolds, PTL

(* drainLoop never sleeps on records or on a broken connection without a    *)
(* token that will wake it (client.go: "an event between the size check     *)
(* above and this select is not lost").                                     *)
THEOREM NoWakeUpLost == LinkSpec => []WakeUpPending
<1>1. IInv => WakeUpPending
  BY DEF IInv, ConnInv, BrokenIsSignalled, SpooledIsSignalled, WakeUpPending
<1> QED
  BY <1>1, IInvHolds, PTL

(* "queue contents are always older than spool contents" (client.go).       *)
THEOREM QueueOlderThanSpool == LinkSpec => []QueueBeforeSpool
<1>1. IInv => QueueBeforeSpool
  BY DEF IInv, QueueInv
<1> QED
  BY <1>1, IInvHolds, PTL

(* When the server is down no goroutine of it serves and no connection is   *)
(* left open, also one accepted while Stop was closing the others.          *)
THEOREM DownServerIsQuiet == LinkSpec => []ServerDownIsQuiet
<1>1. IInv => ServerDownIsQuiet
  <2>1. ASSUME IInv, NEW c \in Conns, srv = "down" PROVE sEnd[c] \in {"none", "closed"}
    <3>1. sEnd[c] \in {"none", "backlog", "open", "closed"} /\ c # NoConn
      BY <2>1, AssumptionsHold
      DEF Assumptions, IInv, TypeInv, TypeOK, SockTypeOK, NoConn, Conns
    <3> QED
      BY <2>1, <3>1 DEF IInv, ServerOwnsOpen
  <2> QED
    BY <2>1 DEF IInv, ServerOwnsOpen, ServerDownIsQuiet
<1> QED
  BY <1>1, IInvHolds, PTL

-----------------------------------------------------------------------------
(* Refinement: an edge implements the abstract outbox.                     *)

LEMMA OutboxStep ==
  ASSUME IInv, IInv', [LinkNext]_linkVars
  PROVE  [Promise!OutboxNext]_(Promise!outboxVars)
<1> USE DEF Promise!OutboxNext, Promise!outboxVars, Base
<1>0. /\ spool \in Seq(Msgs) /\ log \in Seq(Msgs) /\ handed \in 0 .. Len(log)
      /\ Len(spool) \in Nat /\ Len(log) \in Nat
      /\ main # "done" => Len(spool) <= Len(log) /\ Len(log) - Len(spool) <= handed
  BY DEF IInv, TypeInv, TypeOK, ClientTypeOK, SpoolTypeOK, SpoolInv, SpoolIsTail
<1>1. ASSUME NEW p \in Producers, SpoolAppend(p) PROVE Promise!Put
  <2>1. MsgOf(p) \in Msgs
    BY <1>1 DEF IInv, SpoolAppend, TypeInv, TypeOK, ClientTypeOK, ProdTypeOK, SendingIsNumbered, MsgOf, Msgs
  <2>2. /\ spool' = Append(spool, MsgOf(p)) /\ log' = Append(log, MsgOf(p))
        /\ handed' = handed /\ main' = main /\ main # "done"
    BY <1>1 DEF SpoolAppend, Appendable, mainVars
  <2>3. Len(spool') = Len(spool) + 1 /\ Len(log') = Len(log) + 1
    BY <1>0, <2>1, <2>2
  <2>4. Len(log') - Len(spool') = Len(log) - Len(spool)
    BY <1>0, <2>3
  <2> QED
    BY <2>1, <2>2, <2>4 DEF Promise!Put
<1>2. CASE DrainSends
  <2>1. UNCHANGED <<spool, log, main>> /\ dpc = "send"
    BY <1>2 DEF DrainSends, mainVars
  <2>2. CASE HandsNext(spool[idx])
    <3>1. handed' = handed + 1 /\ handed < Len(log)
      BY <1>2, <2>2 DEF DrainSends, HandsNext
    <3>2. main # "done"
      BY <2>1 DEF IInv, SpoolInv, StoppedIsIdle
    <3> QED
      BY <2>1, <3>1, <3>2 DEF Promise!HandOver
  <2>3. CASE ~HandsNext(spool[idx])
    BY <1>2, <2>1, <2>3 DEF DrainSends
  <2> QED
    BY <2>2, <2>3
<1>3. CASE DrainTruncates
  <2>1. /\ spool' = <<>> /\ UNCHANGED <<log, handed, main>> /\ dpc = "send" /\ idx > Len(spool)
    BY <1>3 DEF DrainTruncates, histVars, mainVars
  <2>2. main # "done"
    BY <2>1 DEF IInv, SpoolInv, StoppedIsIdle
  <2>3. Len(log') - Len(spool') <= handed'
    BY <2>1, <2>2 DEF IInv, SpoolInv, SpoolIsTail
  <2>4. Len(log') - Len(spool') \in (Len(log) - Len(spool)) .. handed
    BY <1>0, <2>1, <2>2, <2>3
  <2> QED
    BY <2>1, <2>2, <2>4 DEF Promise!Forget
<1>4. CASE StopReturns
  BY <1>0, <1>4 DEF StopReturns, histVars, Promise!Discard
<1>5. CASE Crash
  <2>1. UNCHANGED <<spool, log, handed>> /\ main # "done" /\ main' # "done"
    BY <1>5 DEF Crash
  <2> QED
    BY <2>1
<1>6. CASE UNCHANGED <<spool, log, handed, born>>
  <2>1. (main = "done") = (main' = "done") \/ StopReturns
    BY <1>5, <1>6, MainFrame
    DEF Main, StopProducers, FlushReturns, StopBegins, StopBreaks, mainVars, Crash
  <2> QED
    BY <1>4, <1>6, <2>1
<1> QED
  BY <1>1, <1>2, <1>3, <1>4, <1>5, <1>6, SpoolFrame

(* The spooled records of an edge are an in-order, at-least-once outbox:    *)
(* handed over for the first time in the order they were appended, and not  *)
(* forgotten before that, until Stop.                                       *)
THEOREM LinkImplementsOutbox == LinkSpec => IsOutbox
<1>1. LinkInit => Promise!OutboxInit
  BY DEF LinkInit, ClientInit, Promise!OutboxInit, Base
<1>2. IInv /\ IInv' /\ [LinkNext]_linkVars => [Promise!OutboxNext]_(Promise!outboxVars)
  BY OutboxStep
<1> QED
  BY <1>1, <1>2, IInvHolds, PTL DEF LinkSpec, IsOutbox, Promise!OutboxSpec
=============================================================================
