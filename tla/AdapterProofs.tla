--------------------------- MODULE AdapterProofs ---------------------------
(***************************************************************************)
(* The safety properties of AdapterProcess for every sequence of adapters  *)
(* that can be enabled, every number of messages and attempts and every    *)
(* capacity of the channel.                                                *)
(***************************************************************************)
EXTENDS AdapterProcess, FiniteSetTheorems, FunctionTheorems, SequenceTheorems, TLAPS

-----------------------------------------------------------------------------
(* How often an element is in a sequence                                   *)

Places(q, x) == {i \in DOMAIN q : q[i] = x}
Count(q, x) == Cardinality(Places(q, x))

LEMMA PlacesFinite ==
  ASSUME NEW S, NEW q \in Seq(S), NEW x
  PROVE  IsFiniteSet(Places(q, x)) /\ Count(q, x) \in Nat
<1>1. DOMAIN q = 1 .. Len(q) /\ Len(q) \in Nat
  BY LenProperties
<1>2. IsFiniteSet(1 .. Len(q)) /\ Places(q, x) \subseteq 1 .. Len(q)
  BY <1>1, FS_Interval DEF Places
<1>3. QED
  BY <1>2, FS_Subset, FS_CardinalityType DEF Count

LEMMA CountEmpty == ASSUME NEW x PROVE Count(<<>>, x) = 0
<1>1. Places(<<>>, x) = {}
  BY DEF Places
<1>2. QED
  BY <1>1, FS_EmptySet DEF Count

LEMMA CountAppend ==
  ASSUME NEW S, NEW q \in Seq(S), NEW y \in S, NEW x
  PROVE  Count(Append(q, y), x) = Count(q, x) + (IF y = x THEN 1 ELSE 0)
<1> DEFINE r == Append(q, y)
<1>1. /\ r \in Seq(S) /\ Len(r) = Len(q) + 1 /\ Len(q) \in Nat
      /\ \A i \in 1 .. Len(q) : r[i] = q[i]
      /\ r[Len(q) + 1] = y
  BY AppendProperties, LenProperties
<1>2. DOMAIN r = 1 .. Len(r) /\ DOMAIN q = 1 .. Len(q)
  BY <1>1, LenProperties
<1> HIDE DEF r
<1>3. \A i : i \in 1 .. Len(r) <=> i \in 1 .. Len(q) \/ i = Len(q) + 1
  BY <1>1
<1>4. Len(q) + 1 \notin 1 .. Len(q)
  BY <1>1
<1>5. IsFiniteSet(Places(q, x)) /\ Cardinality(Places(q, x)) \in Nat /\ Len(q) + 1 \notin Places(q, x)
  BY <1>2, <1>4, PlacesFinite DEF Places, Count
<1>6. CASE y = x
  <2>1. Places(r, x) = Places(q, x) \cup {Len(q) + 1}
    BY <1>1, <1>2, <1>3, <1>6 DEF Places
  <2>2. Cardinality(Places(r, x)) = Cardinality(Places(q, x)) + 1
    BY <1>5, <2>1, FS_AddElement
  <2>3. QED
    BY <1>6, <2>2 DEF Count, r
<1>7. CASE y # x
  <2>1. Places(r, x) = Places(q, x)
    BY <1>1, <1>2, <1>3, <1>7 DEF Places
  <2>2. QED
    BY <1>5, <1>7, <2>1 DEF Count, r
<1>8. QED
  BY <1>6, <1>7

LEMMA CountTail ==
  ASSUME NEW S, NEW q \in Seq(S), q # <<>>, NEW x
  PROVE  Count(q, x) = Count(Tail(q), x) + (IF Head(q) = x THEN 1 ELSE 0)
<1> DEFINE t == Tail(q)
<1>1. /\ t \in Seq(S) /\ Len(t) = Len(q) - 1 /\ Len(q) \in Nat \ {0}
      /\ \A i \in 1 .. Len(t) : t[i] = q[i + 1]
  BY HeadTailProperties, LenProperties, EmptySeq
<1>2. DOMAIN t = 1 .. Len(t) /\ DOMAIN q = 1 .. Len(q) /\ Head(q) = q[1]
  BY <1>1, LenProperties
<1> HIDE DEF t
<1> DEFINE P == Places(t, x)
           Q == Places(q, x) \ {1}
           f == [i \in P |-> i + 1]
<1>3. /\ \A i \in P : i \in 1 .. Len(t) /\ i \in Int /\ i + 1 \in Q
      /\ \A j \in Q : j - 1 \in P /\ (j - 1) + 1 = j
  <2>1. \A i \in P : i \in 1 .. Len(t) /\ i \in Int /\ i + 1 \in 1 .. Len(q) /\ i + 1 # 1 /\ q[i + 1] = x
    BY <1>1, <1>2 DEF Places
  <2>2. ASSUME NEW j \in Q PROVE j - 1 \in P /\ (j - 1) + 1 = j
    <3>1. j \in 1 .. Len(q) /\ j # 1 /\ q[j] = x
      BY <1>2 DEF Places
    <3>2. j - 1 \in 1 .. Len(t) /\ (j - 1) + 1 = j
      BY <1>1, <3>1
    <3>3. t[j - 1] = x
      BY <1>1, <3>1, <3>2
    <3>4. QED
      BY <1>2, <3>2, <3>3 DEF Places
  <2>3. QED
    BY <1>2, <2>1, <2>2 DEF Places
<1>4. /\ f \in [P -> Q]
      /\ \A a, b \in P : f[a] = f[b] => a = b
      /\ \A j \in Q : \E i \in P : f[i] = j
  <2>1. f \in [P -> Q]
    BY <1>3
  <2>2. ASSUME NEW a \in P, NEW b \in P, f[a] = f[b] PROVE a = b
    <3>1. a + 1 = b + 1 /\ a \in Int /\ b \in Int
      BY <1>3, <2>2
    <3>2. QED
      BY <3>1
  <2>3. ASSUME NEW j \in Q PROVE \E i \in P : f[i] = j
    <3>1. j - 1 \in P /\ f[j - 1] = j
      BY <1>3
    <3>2. QED
      BY <3>1
  <2>4. QED
    BY <2>1, <2>2, <2>3
<1>5. IsFiniteSet(P) /\ IsFiniteSet(Places(q, x)) /\ Cardinality(Places(q, x)) \in Nat
  BY <1>1, PlacesFinite DEF Count
<1> HIDE DEF f
<1>6. f \in Bijection(P, Q)
  BY <1>4, Fun_IsBij
<1>7. Cardinality(Q) = Cardinality(P)
  BY <1>5, <1>6, FS_Bijection DEF ExistsBijection
<1>8. 1 \in Places(q, x) <=> Head(q) = x
  BY <1>1, <1>2 DEF Places
<1>9. CASE Head(q) = x
  <2>1. Cardinality(Q) = Cardinality(Places(q, x)) - 1
    BY <1>5, <1>8, <1>9, FS_RemoveElement
  <2>2. QED
    BY <1>5, <1>7, <1>9, <2>1 DEF Count, t
<1>10. CASE Head(q) # x
  <2>1. Q = Places(q, x)
    BY <1>8, <1>10
  <2>2. QED
    BY <1>5, <1>7, <1>10, <2>1 DEF Count, t
<1>11. QED
  BY <1>9, <1>10

-----------------------------------------------------------------------------
(* The inductive invariant                                                 *)

(* Types, but for the bounds of the two counts.                            *)
LinksFit ==
  /\ ctxDone \in BOOLEAN /\ cancelled \in [Adapters -> BOOLEAN]
  /\ connected \in [Adapters -> BOOLEAN]
  /\ conn \in [Adapters -> Conns \cup {NoConn}]
  /\ alive \in [Adapters -> SUBSET Conns]
  /\ cpc \in [Adapters -> {"idle", "dial", "publish", "handshake", "mark", "subscribe", "undo", "unmark", "ok", "err"}]
  /\ cconn \in [Adapters -> Conns \cup {NoConn}]

LoopsFit ==
  /\ rpc \in [Adapters -> {"off", "check", "read", "failed", "backoff", "connect", "deliver"}]
  /\ rconn \in [Adapters -> Conns \cup {NoConn}]
  /\ att \in [Adapters -> 0 .. MaxAttempts]

MessagesFit ==
  /\ messagesRecv \in [Adapters -> Int] /\ sent \in [Adapters -> Int]
  /\ rawCh \in Seq(Adapters) /\ Len(rawCh) <= QueueSize
  /\ fpc \in {"receive", "drain", "off"}

MainFits ==
  /\ enabled \in Configs /\ mi \in 1 .. Len(enabled)
  /\ mpc \in {"connect", "connecting", "blocked", "serve", "flags", "close", "cancel", "flush", "down"}

Shape == LinksFit /\ LoopsFit /\ MessagesFit /\ MainFits /\ SideTypeOK /\ Mt5TypeOK

(* main has not come to the adapter.                                       *)
Waiting(a) ==
  \E j \in 1 .. Len(enabled) :
    enabled[j] = a /\ ((mpc = "connect" /\ j >= mi) \/ (mpc = "connecting" /\ j > mi))

(* Main connects an adapter that does not run, receiveLoop reconnects it   *)
(* while it does nothing else.                                             *)
OneConnects ==
  /\ \A a \in Adapters : Waiting(a) => rpc[a] = "off" /\ cpc[a] = "idle" /\ ~connected[a]
  /\ \A a \in Adapters :
       cpc[a] # "idle" => rpc[a] = "connect" \/ (rpc[a] = "off" /\ mpc = "connecting" /\ a = Current)
  /\ mpc = "connecting" => rpc[Current] = "off"

(* What the goroutines of an adapter still refer to.                       *)
ConnsHeld ==
  \A a \in Adapters :
    /\ cpc[a] \in {"idle", "dial"} => cconn[a] = NoConn
    /\ cpc[a] = "publish" => cconn[a] # NoConn
    /\ rpc[a] # "read" => rconn[a] = NoConn

AttemptsLeft == \A a \in Adapters \ {Mt5} : rpc[a] = "connect" => att[a] < MaxAttempts

(* connected is set after conn, and taken back before conn is, unless a    *)
(* Stop has come in between.                                               *)
FlagAfterConn ==
  /\ \A a \in Adapters : cpc[a] \in {"handshake", "mark"} => conn[a] # NoConn \/ Stopping(a)
  /\ cpc[IB] \in {"dial", "publish", "handshake", "mark"} => ~connected[IB]
  /\ rpc[Mt5] = "failed" => ~connected[Mt5]
  /\ ConnectedHasConn

(* Nobody rotates the session of an adapter that was not started.          *)
RotationIsOff ==
  mpc \in {"connect", "connecting"} =>
    \A j \in mi .. Len(enabled) : enabled[j] = Binance => opc = "off"

CountsFit ==
  \A a \in Adapters :
    /\ messagesRecv[a] <= MaxMsgs /\ 0 <= sent[a]
    /\ messagesRecv[a] = sent[a] + Count(rawCh, a) + (IF rpc[a] = "deliver" THEN 1 ELSE 0)

LEMMA Names ==
  /\ Adapters = {Binance, IB, Mt5} /\ Binance # IB /\ Binance # Mt5 /\ IB # Mt5
  /\ MaxMsgs \in Nat /\ MaxAttempts \in Nat \ {0} /\ QueueSize \in Nat \ {0}
BY AdaptersAssumption, MaxMsgsAssumption, MaxAttemptsAssumption, QueueSizeAssumption DEF Binance, IB, Mt5

(* The adapters that are enabled are different ones.                       *)
LEMMA ConfigsMean ==
  ASSUME NEW c \in Configs
  PROVE  /\ c \in Seq(Adapters) /\ Len(c) \in Nat \ {0}
         /\ \A i \in 1 .. Len(c) : c[i] \in Adapters
         /\ \A i, j \in 1 .. Len(c) : c[i] = c[j] => i = j
<1>1. \/ c = <<Binance>> \/ c = <<IB>> \/ c = <<Mt5>>
      \/ c = <<Binance, IB>> \/ c = <<Binance, Mt5>> \/ c = <<IB, Mt5>> \/ c = <<Binance, IB, Mt5>>
  BY ConfigsAssumption
<1>2. ASSUME NEW a \in Adapters, c = <<a>>
      PROVE  /\ c \in Seq(Adapters) /\ Len(c) = 1 /\ c[1] = a
  BY <1>2
<1>3. ASSUME NEW a \in Adapters, NEW b \in Adapters, a # b, c = <<a, b>>
      PROVE  /\ c \in Seq(Adapters) /\ Len(c) = 2 /\ c[1] = a /\ c[2] = b
  BY <1>3
<1>4. CASE c = <<Binance, IB, Mt5>>
  BY <1>4, Names
<1>5. CASE \E a \in Adapters : c = <<a>>
  <2>1. c \in Seq(Adapters) /\ Len(c) = 1 /\ c[1] \in Adapters
    BY <1>2, <1>5
  <2>2. \A i \in 1 .. Len(c) : i = 1
    BY <2>1
  <2>3. QED
    BY <2>1, <2>2
<1>6. CASE \E a, b \in Adapters : a # b /\ c = <<a, b>>
  <2>1. c \in Seq(Adapters) /\ Len(c) = 2 /\ c[1] \in Adapters /\ c[2] \in Adapters /\ c[1] # c[2]
    BY <1>3, <1>6
  <2>2. \A i \in 1 .. Len(c) : i = 1 \/ i = 2
    BY <2>1
  <2>3. QED
    BY <2>1, <2>2
<1>7. QED
  BY <1>1, <1>4, <1>5, <1>6, Names

LEMMA CurrentFits ==
  ASSUME Shape
  PROVE  /\ Current \in Adapters /\ mi \in 1 .. Len(enabled) /\ Len(enabled) \in Nat \ {0}
         /\ \A i \in 1 .. Len(enabled) : enabled[i] \in Adapters
         /\ \A i, j \in 1 .. Len(enabled) : enabled[i] = enabled[j] => i = j
BY ConfigsMean DEF Shape, MainFits, Current

(* There is a connection for every dial.                                   *)
LEMMA DialHasConn ==
  ASSUME Shape, ConnsHeld, NEW a \in Adapters, rpc[a] # "read", cpc[a] = "dial", NEW h,
         NEW c, c = CHOOSE x \in Conns : x \notin Held(a) \cup {h}
  PROVE  c \in Conns /\ c # NoConn
<1>1. Held(a) \subseteq {conn[a]}
  BY DEF Held, ConnsHeld
<1>2. \E x \in Conns : x \notin {conn[a], h}
  BY DEF Conns
<1>3. c \in Conns
  <2>1. \E x \in Conns : x \notin Held(a) \cup {h}
    BY <1>1, <1>2
  <2>2. QED
    BY <2>1, Zenon
<1>4. \A x \in Conns : x # NoConn
  BY DEF Conns, NoConn
<1>5. QED
  BY <1>3, <1>4

-----------------------------------------------------------------------------
(* Types                                                                   *)

LEMMA ShapeInit == Init => Shape
<1> SUFFICES ASSUME Init PROVE Shape
  OBVIOUS
<1>1. AdapterInit /\ SideInit /\ Mt5Init
  BY DEF Init
<1>2. LinksFit
  BY <1>1 DEF AdapterInit, LinksFit
<1>3. LoopsFit
  <2>1. 0 \in 0 .. MaxAttempts
    BY MaxAttemptsAssumption
  <2>2. QED
    BY <1>1, <2>1 DEF AdapterInit, LoopsFit
<1>4. MessagesFit
  <2>1. <<>> \in Seq(Adapters) /\ Len(<<>>) = 0 /\ 0 <= QueueSize
    BY EmptySeq, QueueSizeAssumption
  <2>2. QED
    BY <1>1, <2>1 DEF Init, AdapterInit, MessagesFit
<1>5. MainFits
  BY ConfigsMean DEF Init, MainFits
<1>6. SideTypeOK /\ Mt5TypeOK
  BY <1>1, MaxAttemptsAssumption DEF SideInit, Mt5Init, SideTypeOK, Mt5TypeOK
<1>7. QED
  BY <1>2, <1>3, <1>4, <1>5, <1>6 DEF Shape

(* The steps by who takes them.                                            *)
Venue == \E a \in {Binance, IB} : VenueDrops(a) /\ UNCHANGED <<privateVars, mainVars, fanVars>>
Connecting ==
  (BinanceConnect \/ IbConnect \/ Mt5Connect) /\ UNCHANGED <<privateVars, mainVars, fanVars>>
Receiving(a) ==
  /\ a \in {Binance, IB}
  /\ ReceiveLoop(a) \/ \E left \in SUBSET alive[a] : LoopReadFails(a, left)
  /\ UNCHANGED <<privateVars, mainVars, fanVars>>
ReceivingMt5 == Mt5Receives /\ UNCHANGED <<sideVars, mainVars, fanVars>>
Beside ==
  /\ HeartbeatTicks \/ HeartbeatRuns \/ RotationTicks \/ RotationRuns
  /\ UNCHANGED <<reconnectCount, mainVars, fanVars>>
Main == MainRuns \/ MainCancels

Steps ==
  \/ Venue \/ Connecting
  \/ (\E a \in Adapters : Receiving(a)) \/ ReceivingMt5
  \/ Beside \/ Main \/ FanIn
  \/ UNCHANGED procVars

LEMMA StepsAre == ASSUME Shape, [Next]_procVars PROVE Steps
<1>1. CASE BinanceRuns \/ IbRuns \/ Mt5Runs
  <2>1. \A a \in Adapters : alive[a] \in SUBSET alive[a] /\ alive[a] \ {rconn[a]} \in SUBSET alive[a]
    OBVIOUS
  <2>2. Binance \in Adapters /\ IB \in Adapters
    BY Names
  <2>3. CASE BinanceRuns
    BY <2>1, <2>2, <2>3 DEF BinanceRuns, BinanceReceives, BinanceReadFails, Receiving, Connecting, Steps
  <2>4. CASE IbRuns
    BY <2>1, <2>2, <2>4 DEF IbRuns, IbReceives, IbReadFails, Receiving, Connecting, Steps
  <2>5. CASE Mt5Runs
    BY <2>5 DEF Mt5Runs, Mt5Connect, Connecting, ReceivingMt5, Steps, privateVars
  <2>6. QED
    BY <1>1, <2>3, <2>4, <2>5
<1>2. QED
  BY <1>1 DEF Next, Venue, Heartbeat, Rotation, Beside, Main, Over, Steps

LEMMA ConnectKeepsShape == ASSUME Shape, ConnsHeld, OneConnects, Connecting PROVE Shape'
<1> USE DEF ctxVars, linkVars, connectVars, loopVars, msgVars, privateVars, sideVars, mainVars, fanVars
<1>1. UNCHANGED <<ctxVars, loopVars, msgVars, privateVars, mainVars, fanVars>>
  BY DEF Connecting, BinanceConnect, IbConnect, Mt5Connect, DialFails, BinanceDialSucceeds, IbDialSucceeds,
         Mt5DialSucceeds, DialSucceeds, BinancePublishes, IbPublishes, Mt5Publishes, PublishConn, MarkConnected,
         Subscribed, BinanceSubscribeFails, BinanceUndoesConnect, BinanceUndoPanics, IbHandshakes,
         IbHandshakeFails, IbSubscribeFails, IbDiscards, IbUnmarks, Mt5Marks
<1>2. LoopsFit' /\ MessagesFit' /\ MainFits' /\ SideTypeOK' /\ Mt5TypeOK'
  BY <1>1 DEF Shape, LoopsFit, MessagesFit, MainFits, SideTypeOK, Mt5TypeOK
<1>3. LinksFit
  BY DEF Shape
<1>4. SUFFICES LinksFit'
  BY <1>2 DEF Shape
<1>5. ASSUME NEW a \in Adapters, NEW h, DialSucceeds(a, {h}) \/ DialSucceeds(a, {}) PROVE LinksFit'
  <2>1. cpc[a] = "dial" /\ rpc[a] # "read"
    BY <1>5 DEF DialSucceeds, OneConnects
  <2>2. PICK c : /\ c \in Conns /\ connected' = connected /\ conn' = conn /\ UNCHANGED ctxVars
                 /\ cconn' = [cconn EXCEPT ![a] = c]
                 /\ \E u : alive' = [alive EXCEPT ![a] = (alive[a] \cap u) \cup {c}]
                 /\ cpc' = [cpc EXCEPT ![a] = "publish"]
    <3>1. CASE DialSucceeds(a, {h})
      <4>1. (CHOOSE x \in Conns : x \notin Held(a) \cup {h}) \in Conns
        BY <2>1, DialHasConn
      <4>2. QED
        BY <3>1, <4>1 DEF DialSucceeds
    <3>2. CASE DialSucceeds(a, {})
      <4>1. (CHOOSE x \in Conns : x \notin Held(a) \cup {NoConn}) \in Conns
        BY <2>1, DialHasConn
      <4>2. QED
        BY <3>2, <4>1 DEF DialSucceeds
    <3>3. QED
      BY <1>5, <3>1, <3>2
  <2>3. QED
    BY <1>3, <2>2 DEF LinksFit
<1>6. ASSUME NEW a \in Adapters,
             \/ DialFails(a) \/ PublishConn(a, "mark") \/ PublishConn(a, "handshake")
             \/ MarkConnected(a) \/ Subscribed(a)
      PROVE  LinksFit'
  BY <1>3, <1>6 DEF DialFails, PublishConn, MarkConnected, Subscribed, LinksFit
<1>7. Binance \in Adapters /\ IB \in Adapters /\ Mt5 \in Adapters
  BY Names
<1>8. CASE BinanceConnect
  <2>1. CASE BinanceSubscribeFails \/ BinanceUndoPanics
    BY <1>3, <1>7, <2>1 DEF BinanceSubscribeFails, BinanceUndoPanics, LinksFit
  <2>2. CASE BinanceUndoesConnect
    <3>1. alive' \in [Adapters -> SUBSET Conns]
      BY <1>3, <1>7, <2>2 DEF BinanceUndoesConnect, LinksFit
    <3>2. QED
      BY <1>3, <1>7, <2>2, <3>1 DEF BinanceUndoesConnect, LinksFit
  <2>3. QED
    BY <1>5, <1>6, <1>7, <1>8, <2>1, <2>2 DEF BinanceConnect, BinanceDialSucceeds, BinancePublishes
<1>9. CASE IbConnect
  <2>1. CASE IbHandshakes \/ IbHandshakeFails \/ IbSubscribeFails \/ IbUnmarks
    <3>1. CASE IbHandshakes
      BY <1>3, <1>7, <3>1 DEF IbHandshakes, LinksFit
    <3>2. CASE IbHandshakeFails
      BY <1>3, <1>7, <3>2 DEF IbHandshakeFails, IbDiscards, LinksFit
    <3>3. CASE IbSubscribeFails
      BY <1>3, <1>7, <3>3 DEF IbSubscribeFails, IbDiscards, LinksFit
    <3>4. CASE IbUnmarks
      BY <1>3, <1>7, <3>4 DEF IbUnmarks, LinksFit
    <3>5. QED
      BY <2>1, <3>1, <3>2, <3>3, <3>4
  <2>2. QED
    BY <1>5, <1>6, <1>7, <1>9, <2>1 DEF IbConnect, IbDialSucceeds, IbPublishes
<1>10. CASE Mt5Connect
  <2>1. CASE Mt5Marks
    BY <1>3, <1>7, <2>1 DEF Mt5Marks, LinksFit
  <2>2. QED
    BY <1>5, <1>6, <1>7, <1>10, <2>1 DEF Mt5Connect, Mt5DialSucceeds, Mt5Publishes
<1>11. QED
  BY <1>8, <1>9, <1>10 DEF Connecting

LEMMA ReceiveKeepsShape ==
  ASSUME Shape, AttemptsLeft, NEW a \in Adapters, Receiving(a)
  PROVE  Shape'
<1> USE DEF ctxVars, linkVars, connectVars, loopVars, msgVars, privateVars, sideVars, mainVars, fanVars,
            Goto, ConnectReturns, ReconnectReturns
<1>1. /\ UNCHANGED <<ctxVars, conn, privateVars, mainVars, fanVars>>
      /\ \/ LoopEnds(a) \/ LoopLoadsConn(a) \/ LoopHasNoConn(a) \/ LoopReads(a) \/ LoopSeesFailure(a)
         \/ LoopDelivers(a) \/ LoopGivesUp(a) \/ ReconnectCancelled(a) \/ ReconnectDials(a)
         \/ ReconnectFails(a) \/ Reconnected(a) \/ ReconnectGivesUp(a)
         \/ \E left \in SUBSET alive[a] : LoopReadFails(a, left)
  BY DEF Receiving, ReceiveLoop, LoopEnds, LoopLoadsConn, LoopHasNoConn, LoopReads, LoopSeesFailure, LoopDelivers,
         LoopGivesUp, ReconnectCancelled, ReconnectDials, ReconnectFails, Reconnected, ReconnectGivesUp,
         LoopReadFails
<1>2. MainFits' /\ SideTypeOK' /\ Mt5TypeOK'
  BY <1>1 DEF Shape, MainFits, SideTypeOK, Mt5TypeOK
<1>3. LinksFit /\ LoopsFit /\ MessagesFit
  BY DEF Shape
<1>4. LinksFit'
  <2>1. connected' \in [Adapters -> BOOLEAN]
    BY <1>1, <1>3
       DEF LoopEnds, LoopLoadsConn, LoopHasNoConn, LoopReads, LoopSeesFailure, LoopDelivers, LoopGivesUp,
           ReconnectCancelled, ReconnectDials, ReconnectFails, Reconnected, ReconnectGivesUp, LoopReadFails, LinksFit
  <2>2. alive' = alive \/ \E left \in SUBSET alive[a] : alive' = [alive EXCEPT ![a] = left]
    BY <1>1
       DEF LoopEnds, LoopLoadsConn, LoopHasNoConn, LoopReads, LoopSeesFailure, LoopDelivers, LoopGivesUp,
           ReconnectCancelled, ReconnectDials, ReconnectFails, Reconnected, ReconnectGivesUp, LoopReadFails
  <2>3. alive' \in [Adapters -> SUBSET Conns]
    BY <1>3, <2>2 DEF LinksFit
  <2>4. /\ cpc' = cpc \/ cpc' = [cpc EXCEPT ![a] = "idle"] \/ cpc' = [cpc EXCEPT ![a] = "ok"]
           \/ cpc' = [cpc EXCEPT ![a] = "dial"]
        /\ cconn' = cconn \/ cconn' = [cconn EXCEPT ![a] = NoConn]
    BY <1>1
       DEF LoopEnds, LoopLoadsConn, LoopHasNoConn, LoopReads, LoopSeesFailure, LoopDelivers, LoopGivesUp,
           ReconnectCancelled, ReconnectDials, ReconnectFails, Reconnected, ReconnectGivesUp, LoopReadFails
  <2>5. QED
    BY <1>1, <1>3, <2>1, <2>3, <2>4 DEF LinksFit
<1>5. LoopsFit'
  <2>1. rpc' \in [Adapters -> {"off", "check", "read", "failed", "backoff", "connect", "deliver"}]
    BY <1>1, <1>3
       DEF LoopEnds, LoopLoadsConn, LoopHasNoConn, LoopReads, LoopSeesFailure, LoopDelivers, LoopGivesUp,
           ReconnectCancelled, ReconnectDials, ReconnectFails, Reconnected, ReconnectGivesUp, LoopReadFails, LoopsFit
  <2>2. rconn' = rconn \/ rconn' = [rconn EXCEPT ![a] = conn[a]] \/ rconn' = [rconn EXCEPT ![a] = NoConn]
    BY <1>1
       DEF LoopEnds, LoopLoadsConn, LoopHasNoConn, LoopReads, LoopSeesFailure, LoopDelivers, LoopGivesUp,
           ReconnectCancelled, ReconnectDials, ReconnectFails, Reconnected, ReconnectGivesUp, LoopReadFails
  <2>3. rconn' \in [Adapters -> Conns \cup {NoConn}]
    BY <1>3, <2>2 DEF LinksFit, LoopsFit
  <2>4. att' = att \/ att' = [att EXCEPT ![a] = 0] \/ (rpc[a] = "connect" /\ att' = [att EXCEPT ![a] = att[a] + 1])
    BY <1>1
       DEF LoopEnds, LoopLoadsConn, LoopHasNoConn, LoopReads, LoopSeesFailure, LoopDelivers, LoopGivesUp,
           ReconnectCancelled, ReconnectDials, ReconnectFails, Reconnected, ReconnectGivesUp, LoopReadFails
  <2>5. rpc[a] = "connect" => att[a] < MaxAttempts
    BY Names DEF AttemptsLeft, Receiving
  <2>6. 0 \in 0 .. MaxAttempts /\ (att[a] < MaxAttempts => att[a] + 1 \in 0 .. MaxAttempts)
    BY <1>3, Names DEF LoopsFit
  <2>7. att' \in [Adapters -> 0 .. MaxAttempts]
    BY <1>3, <2>4, <2>5, <2>6 DEF LoopsFit
  <2>8. QED
    BY <2>1, <2>3, <2>7 DEF LoopsFit
<1>6. MessagesFit'
  <2>1. messagesRecv' = messagesRecv \/ (messagesRecv' = [messagesRecv EXCEPT ![a] = messagesRecv[a] + 1])
        \/ (messagesRecv' = [messagesRecv EXCEPT ![a] = messagesRecv[a] - 1])
    BY <1>1
       DEF LoopEnds, LoopLoadsConn, LoopHasNoConn, LoopReads, LoopSeesFailure, LoopDelivers, LoopGivesUp,
           ReconnectCancelled, ReconnectDials, ReconnectFails, Reconnected, ReconnectGivesUp, LoopReadFails
  <2>2. messagesRecv' \in [Adapters -> Int]
    BY <1>3, <2>1 DEF MessagesFit
  <2>3. rawCh' = rawCh \/ (Len(rawCh) < QueueSize /\ rawCh' = Append(rawCh, a))
    BY <1>1
       DEF LoopEnds, LoopLoadsConn, LoopHasNoConn, LoopReads, LoopSeesFailure, LoopDelivers, LoopGivesUp,
           ReconnectCancelled, ReconnectDials, ReconnectFails, Reconnected, ReconnectGivesUp, LoopReadFails
  <2>4. rawCh \in Seq(Adapters) /\ Len(rawCh) \in Nat /\ Len(rawCh) <= QueueSize
    BY <1>3, LenProperties DEF MessagesFit
  <2>5. Append(rawCh, a) \in Seq(Adapters) /\ Len(Append(rawCh, a)) = Len(rawCh) + 1
    BY <2>4, AppendProperties
  <2>6. rawCh' \in Seq(Adapters) /\ Len(rawCh') <= QueueSize
    BY <2>3, <2>4, <2>5, Names
  <2>7. QED
    BY <1>1, <1>3, <2>2, <2>6 DEF MessagesFit
<1>7. QED
  BY <1>2, <1>4, <1>5, <1>6 DEF Shape

LEMMA Mt5KeepsShape == ASSUME Shape, ReceivingMt5 PROVE Shape'
<1> USE DEF ctxVars, linkVars, connectVars, loopVars, msgVars, privateVars, sideVars, mainVars, fanVars,
            Goto, ConnectReturns
<1>1. /\ UNCHANGED <<ctxVars, att, sideVars, mainVars, fanVars>>
      /\ \/ Mt5GivesUp \/ Mt5ClosesSocket
         \/ LoopLoadsConn(Mt5) \/ LoopHasNoConn(Mt5) \/ LoopReads(Mt5) \/ LoopDelivers(Mt5) \/ LoopGivesUp(Mt5)
         \/ Mt5ReadsNothing \/ Mt5ReadFails \/ Mt5Dials \/ Mt5Reconnected
  BY DEF ReceivingMt5, Mt5Receives, Mt5GivesUp, Mt5ClosesSocket, LoopLoadsConn, LoopHasNoConn, LoopReads,
         LoopDelivers, LoopGivesUp, Mt5ReadsNothing, Mt5ReadFails, LoopReadFails, Mt5Dials, Mt5Reconnected
<1>2. LinksFit /\ LoopsFit /\ MessagesFit /\ Mt5TypeOK /\ Mt5 \in Adapters
  BY Names DEF Shape
<1>3. MainFits' /\ SideTypeOK'
  BY <1>1 DEF Shape, MainFits, SideTypeOK
<1>4. LinksFit'
  <2>1. connected' = connected \/ connected' = [connected EXCEPT ![Mt5] = FALSE]
    BY <1>1 DEF Mt5GivesUp, Mt5ClosesSocket, LoopLoadsConn, LoopHasNoConn, LoopReads, LoopDelivers, LoopGivesUp,
                Mt5ReadsNothing, Mt5ReadFails, LoopReadFails, Mt5Dials, Mt5Reconnected
  <2>2. alive' = alive \/ alive' = [alive EXCEPT ![Mt5] = alive[Mt5] \ {conn[Mt5]}]
        \/ alive' = [alive EXCEPT ![Mt5] = alive[Mt5]]
    BY <1>1 DEF Mt5GivesUp, Mt5ClosesSocket, LoopLoadsConn, LoopHasNoConn, LoopReads, LoopDelivers, LoopGivesUp,
                Mt5ReadsNothing, Mt5ReadFails, LoopReadFails, Mt5Dials, Mt5Reconnected
  <2>3. /\ conn' = conn \/ conn' = [conn EXCEPT ![Mt5] = NoConn]
        /\ cpc' = cpc \/ cpc' = [cpc EXCEPT ![Mt5] = "idle"] \/ cpc' = [cpc EXCEPT ![Mt5] = "dial"]
        /\ cconn' = cconn \/ cconn' = [cconn EXCEPT ![Mt5] = NoConn]
    BY <1>1 DEF Mt5GivesUp, Mt5ClosesSocket, LoopLoadsConn, LoopHasNoConn, LoopReads, LoopDelivers, LoopGivesUp,
                Mt5ReadsNothing, Mt5ReadFails, LoopReadFails, Mt5Dials, Mt5Reconnected
  <2>4. alive' \in [Adapters -> SUBSET Conns]
    BY <1>2, <2>2 DEF LinksFit
  <2>5. QED
    BY <1>1, <1>2, <2>1, <2>3, <2>4 DEF LinksFit
<1>5. LoopsFit'
  <2>1. rpc' \in [Adapters -> {"off", "check", "read", "failed", "backoff", "connect", "deliver"}]
    BY <1>1, <1>2
       DEF Mt5GivesUp, Mt5ClosesSocket, LoopLoadsConn, LoopHasNoConn, LoopReads, LoopDelivers, LoopGivesUp,
           Mt5ReadsNothing, Mt5ReadFails, LoopReadFails, Mt5Dials, Mt5Reconnected, LoopsFit
  <2>2. rconn' = rconn \/ rconn' = [rconn EXCEPT ![Mt5] = conn[Mt5]] \/ rconn' = [rconn EXCEPT ![Mt5] = NoConn]
    BY <1>1 DEF Mt5GivesUp, Mt5ClosesSocket, LoopLoadsConn, LoopHasNoConn, LoopReads, LoopDelivers, LoopGivesUp,
                Mt5ReadsNothing, Mt5ReadFails, LoopReadFails, Mt5Dials, Mt5Reconnected
  <2>3. QED
    BY <1>1, <1>2, <2>1, <2>2 DEF LinksFit, LoopsFit
<1>6. MessagesFit'
  <2>1. messagesRecv' = messagesRecv \/ (messagesRecv' = [messagesRecv EXCEPT ![Mt5] = messagesRecv[Mt5] + 1])
        \/ (messagesRecv' = [messagesRecv EXCEPT ![Mt5] = messagesRecv[Mt5] - 1])
    BY <1>1 DEF Mt5GivesUp, Mt5ClosesSocket, LoopLoadsConn, LoopHasNoConn, LoopReads, LoopDelivers, LoopGivesUp,
                Mt5ReadsNothing, Mt5ReadFails, LoopReadFails, Mt5Dials, Mt5Reconnected
  <2>2. messagesRecv' \in [Adapters -> Int]
    BY <1>2, <2>1 DEF MessagesFit
  <2>3. rawCh' = rawCh \/ (Len(rawCh) < QueueSize /\ rawCh' = Append(rawCh, Mt5))
    BY <1>1 DEF Mt5GivesUp, Mt5ClosesSocket, LoopLoadsConn, LoopHasNoConn, LoopReads, LoopDelivers, LoopGivesUp,
                Mt5ReadsNothing, Mt5ReadFails, LoopReadFails, Mt5Dials, Mt5Reconnected
  <2>4. rawCh \in Seq(Adapters) /\ Len(rawCh) \in Nat /\ Len(rawCh) <= QueueSize
    BY <1>2, LenProperties DEF MessagesFit
  <2>5. Append(rawCh, Mt5) \in Seq(Adapters) /\ Len(Append(rawCh, Mt5)) = Len(rawCh) + 1
    BY <1>2, <2>4, AppendProperties
  <2>6. rawCh' \in Seq(Adapters) /\ Len(rawCh') <= QueueSize
    BY <2>3, <2>4, <2>5, Names
  <2>7. QED
    BY <1>1, <1>2, <2>2, <2>6 DEF MessagesFit
<1>7. Mt5TypeOK'
  <2>1. \/ reconnectCount' = reconnectCount \/ reconnectCount' = MaxAttempts + 1
        \/ reconnectCount < MaxAttempts /\ reconnectCount' = reconnectCount + 1
    BY DEF ReceivingMt5, Mt5Receives, Mt5GivesUp, Mt5ClosesSocket
  <2>2. QED
    BY <1>2, <2>1, Names DEF Mt5TypeOK
<1>8. QED
  BY <1>3, <1>4, <1>5, <1>6, <1>7 DEF Shape

LEMMA BesideKeepsShape == ASSUME Shape, Venue \/ Beside PROVE Shape'
<1> USE DEF ctxVars, linkVars, connectVars, loopVars, msgVars, adapterVars, privateVars, sideVars, mainVars, fanVars
<1>1. LinksFit /\ SideTypeOK /\ Binance \in Adapters /\ IB \in Adapters
  BY Names DEF Shape
<1>2. CASE Venue
  <2>1. PICK a \in {Binance, IB} : VenueDrops(a) /\ UNCHANGED <<privateVars, mainVars, fanVars>>
    BY <1>2 DEF Venue
  <2>2. PICK c : alive' = [alive EXCEPT ![a] = alive[a] \ {c}]
    BY <2>1 DEF VenueDrops
  <2>3. alive' \in [Adapters -> SUBSET Conns]
    BY <1>1, <2>2 DEF LinksFit
  <2>4. UNCHANGED <<ctxVars, connected, conn, connectVars, loopVars, msgVars, privateVars, mainVars, fanVars>>
    BY <2>1 DEF VenueDrops
  <2>5. QED
    BY <2>3, <2>4 DEF Shape, LinksFit, LoopsFit, MessagesFit, MainFits, SideTypeOK, Mt5TypeOK
<1>3. CASE Beside
  <2> USE DEF HeartbeatDone, StopFlags, StopConn, StopContext
  <2>1. UNCHANGED <<ctxDone, connectVars, loopVars, msgVars, reconnectCount, mainVars, fanVars>>
    BY <1>3 DEF Beside, HeartbeatTicks, HeartbeatRuns, HeartbeatPings, HeartbeatFails, HeartbeatEnds,
                RotationTicks, RotationRuns, RotationStops, RotationConnects, RotationEnds
  <2>2. /\ cancelled' = cancelled \/ cancelled' = [cancelled EXCEPT ![Binance] = TRUE]
        /\ connected' = connected \/ connected' = [connected EXCEPT ![Binance] = FALSE]
        /\ conn' = conn \/ conn' = [conn EXCEPT ![Binance] = NoConn]
        /\ alive' = alive \/ alive' = [alive EXCEPT ![Binance] = alive[Binance] \ {conn[Binance]}]
    BY <1>3 DEF Beside, HeartbeatTicks, HeartbeatRuns, HeartbeatPings, HeartbeatFails, HeartbeatEnds,
                RotationTicks, RotationRuns, RotationStops, RotationConnects, RotationEnds
  <2>3. alive' \in [Adapters -> SUBSET Conns]
    BY <1>1, <2>2 DEF LinksFit
  <2>4. LinksFit'
    BY <1>1, <2>1, <2>2, <2>3 DEF LinksFit
  <2>5. SideTypeOK'
    BY <1>1, <1>3 DEF Beside, HeartbeatTicks, HeartbeatRuns, HeartbeatPings, HeartbeatFails, HeartbeatEnds,
                RotationTicks, RotationRuns, RotationStops, RotationConnects, RotationEnds, SideTypeOK, LinksFit
  <2>6. QED
    BY <2>1, <2>4, <2>5 DEF Shape, LoopsFit, MessagesFit, MainFits, Mt5TypeOK
<1>4. QED
  BY <1>2, <1>3

LEMMA NextAdapterFits ==
  ASSUME Shape, NEW p, NEW q, NextAdapter(p, q)
  PROVE  /\ mi' \in 1 .. Len(enabled) /\ mpc' \in {p, q}
         /\ (mpc' # q => mi' = mi + 1 /\ mpc' = p)
BY CurrentFits DEF NextAdapter

LEMMA MainKeepsShape == ASSUME Shape, Main PROVE Shape'
<1> USE DEF ctxVars, linkVars, connectVars, loopVars, msgVars, adapterVars, privateVars, sideVars, mainVars, fanVars
<1>1. LinksFit /\ LoopsFit /\ MainFits /\ SideTypeOK /\ Current \in Adapters
  BY CurrentFits DEF Shape
<1>2. UNCHANGED <<rconn, att, msgVars, hconn, reconnectCount, enabled, fanVars>>
  BY DEF Main, MainRuns, MainConnects, MainStarts, MainStopsAdapter, StopFlags, StopConn, StopContext, MainEnds,
         MainCancels
<1>3. LinksFit'
  <2>1. /\ ctxDone' = ctxDone \/ ctxDone' = TRUE
        /\ cancelled' = cancelled \/ cancelled' = [cancelled EXCEPT ![Current] = TRUE]
        /\ connected' = connected \/ connected' = [connected EXCEPT ![Current] = FALSE]
        /\ conn' = conn \/ conn' = [conn EXCEPT ![Current] = NoConn]
        /\ alive' = alive \/ alive' = [alive EXCEPT ![Current] = alive[Current] \ {conn[Current]}]
        /\ cpc' = cpc \/ cpc' = [cpc EXCEPT ![Current] = "dial"] \/ cpc' = [cpc EXCEPT ![Current] = "idle"]
        /\ cconn' = cconn \/ cconn' = [cconn EXCEPT ![Current] = NoConn]
    BY DEF Main, MainRuns, MainConnects, MainStarts, ConnectReturns, MainStopsAdapter, StopFlags, StopConn,
           StopContext, MainEnds, MainCancels
  <2>2. alive' \in [Adapters -> SUBSET Conns]
    BY <1>1, <2>1 DEF LinksFit
  <2>3. QED
    BY <1>1, <2>1, <2>2 DEF LinksFit
<1>4. LoopsFit'
  <2>1. rpc' = rpc \/ rpc' = [rpc EXCEPT ![Current] = "check"]
    BY DEF Main, MainRuns, MainConnects, MainStarts, Goto, MainStopsAdapter, StopFlags, StopConn,
           StopContext, MainEnds, MainCancels
  <2>2. QED
    BY <1>1, <1>2, <2>1 DEF LoopsFit
<1>5. MainFits'
  <2>1. \/ mi' = mi /\ mpc' \in {"connecting", "blocked", "flags", "close", "cancel", "down"}
        \/ NextAdapter("connect", "serve") \/ NextAdapter("flags", "flush")
    BY DEF Main, MainRuns, MainConnects, MainStarts, MainStopsAdapter, MainEnds, MainCancels
  <2>2. QED
    BY <1>1, <1>2, <2>1, NextAdapterFits DEF MainFits
<1>6. SideTypeOK'
  BY <1>1, <1>2 DEF Main, MainRuns, MainConnects, MainStarts, MainStopsAdapter, MainEnds, MainCancels, SideTypeOK
<1>7. QED
  BY <1>2, <1>3, <1>4, <1>5, <1>6 DEF Shape, MessagesFit, Mt5TypeOK

LEMMA FanKeepsShape == ASSUME Shape, FanIn PROVE Shape'
<1> USE DEF ctxVars, linkVars, connectVars, loopVars, msgVars, adapterVars, privateVars, sideVars, mainVars
<1>1. UNCHANGED <<ctxVars, linkVars, connectVars, loopVars, messagesRecv, privateVars, mainVars>>
  BY DEF FanIn, FanReceives, FanSeesDone, FanEnds
<1>2. rawCh \in Seq(Adapters) /\ Len(rawCh) \in Nat /\ Len(rawCh) <= QueueSize /\ sent \in [Adapters -> Int]
      /\ QueueSize \in Nat
  BY LenProperties, Names DEF Shape, MessagesFit
<1>3. MessagesFit'
  <2>1. CASE FanReceives
    <3>1. /\ rawCh # <<>> /\ rawCh' = Tail(rawCh) /\ fpc' = fpc
          /\ sent' = [sent EXCEPT ![Head(rawCh)] = sent[Head(rawCh)] + 1]
      BY <2>1 DEF FanReceives
    <3>2. /\ Tail(rawCh) \in Seq(Adapters) /\ Len(Tail(rawCh)) = Len(rawCh) - 1
          /\ Head(rawCh) \in Adapters
      BY <1>2, <3>1, HeadTailProperties
    <3>3. Len(Tail(rawCh)) <= QueueSize
      BY <1>2, <3>2
    <3>4. sent' \in [Adapters -> Int]
      BY <1>2, <3>1
    <3>5. QED
      BY <1>1, <3>1, <3>2, <3>3, <3>4 DEF Shape, MessagesFit
  <2>2. CASE FanSeesDone \/ FanEnds
    BY <1>1, <2>2 DEF FanSeesDone, FanEnds, Shape, MessagesFit
  <2>3. QED
    BY <2>1, <2>2 DEF FanIn
<1>4. QED
  BY <1>1, <1>3 DEF Shape, LinksFit, LoopsFit, MainFits, SideTypeOK, Mt5TypeOK

LEMMA ShapeStep ==
  ASSUME Shape, OneConnects, ConnsHeld, AttemptsLeft, Steps
  PROVE  Shape'
<1>1. CASE UNCHANGED procVars
  BY <1>1 DEF procVars, adapterVars, ctxVars, linkVars, connectVars, loopVars, msgVars, privateVars, sideVars,
              mainVars, fanVars, Shape, LinksFit, LoopsFit, MessagesFit, MainFits, SideTypeOK, Mt5TypeOK
<1>2. QED
  BY <1>1, ConnectKeepsShape, ReceiveKeepsShape, Mt5KeepsShape, BesideKeepsShape, MainKeepsShape, FanKeepsShape
     DEF Steps

-----------------------------------------------------------------------------
(* The loops, the connections and the flag                                 *)

LinkInv == OneConnects /\ ConnsHeld /\ AttemptsLeft /\ FlagAfterConn /\ RotationIsOff

(* What one adapter has of the variables the invariant is about.           *)
Same(b) ==
  /\ cpc'[b] = cpc[b] /\ cconn'[b] = cconn[b] /\ conn'[b] = conn[b] /\ connected'[b] = connected[b]
  /\ rpc'[b] = rpc[b] /\ rconn'[b] = rconn[b] /\ att'[b] = att[b]

LEMMA WaitingStays ==
  ASSUME UNCHANGED mainVars
  PROVE  \A a : Waiting(a)' <=> Waiting(a)
BY DEF mainVars, Waiting

LEMMA StoppingStays ==
  ASSUME UNCHANGED <<mainVars, cancelled, opc>>
  PROVE  \A a : Stopping(a)' <=> Stopping(a)
BY DEF mainVars, Stopping, Current

(* A step of Connect.                                                      *)
ConnectMoves(a) ==
  \/ cpc[a] = "dial" /\ cpc'[a] = "err" /\ conn'[a] = conn[a] /\ connected'[a] = connected[a]
  \/ cpc[a] = "dial" /\ cpc'[a] = "publish" /\ cconn'[a] # NoConn /\ conn'[a] = conn[a] /\ connected'[a] = connected[a]
  \/ cpc[a] = "publish" /\ cpc'[a] \in {"mark", "handshake"} /\ conn'[a] = cconn[a] /\ connected'[a] = connected[a]
  \/ cpc[a] = "handshake" /\ cpc'[a] = "mark" /\ conn[a] # NoConn /\ conn'[a] = conn[a] /\ connected'[a] = connected[a]
  \/ cpc[a] = "handshake" /\ cpc'[a] = "err" /\ a = IB /\ connected'[a] = connected[a]
  \/ cpc[a] = "mark" /\ cpc'[a] \in {"subscribe", "ok"} /\ conn'[a] = conn[a]
  \/ cpc[a] = "subscribe" /\ cpc'[a] \in {"ok", "undo"} /\ conn'[a] = conn[a] /\ connected'[a] = connected[a]
  \/ cpc[a] = "subscribe" /\ cpc'[a] = "unmark"
  \/ cpc[a] = "undo" /\ cpc'[a] = "ok" /\ conn'[a] = conn[a] /\ connected'[a] = connected[a]
  \/ cpc[a] \in {"undo", "unmark"} /\ cpc'[a] = "err" /\ ~connected'[a]

LEMMA ConnectingMoves ==
  ASSUME Shape, ConnsHeld, OneConnects, Connecting
  PROVE  \E a \in Adapters : ConnectMoves(a) /\ \A b \in Adapters \ {a} : Same(b)
<1> USE DEF ctxVars, linkVars, connectVars, loopVars, msgVars, privateVars, sideVars, mainVars, fanVars, ConnectMoves
<1>1. UNCHANGED loopVars
  BY DEF Connecting, BinanceConnect, IbConnect, Mt5Connect, DialFails, BinanceDialSucceeds, IbDialSucceeds,
         Mt5DialSucceeds, DialSucceeds, BinancePublishes, IbPublishes, Mt5Publishes, PublishConn, MarkConnected,
         Subscribed, BinanceSubscribeFails, BinanceUndoesConnect, BinanceUndoPanics, IbHandshakes,
         IbHandshakeFails, IbSubscribeFails, IbDiscards, IbUnmarks, Mt5Marks
<1>2. LinksFit /\ Binance \in Adapters /\ IB \in Adapters /\ Mt5 \in Adapters
  BY Names DEF Shape
<1>3. SUFFICES ASSUME NEW a \in Adapters,
                      \/ DialFails(a) \/ (\E held : DialSucceeds(a, held) /\ cconn'[a] # NoConn)
                      \/ PublishConn(a, "mark") \/ PublishConn(a, "handshake")
                      \/ MarkConnected(a) \/ Subscribed(a)
                      \/ a = Binance /\ (BinanceSubscribeFails \/ BinanceUndoesConnect \/ BinanceUndoPanics)
                      \/ a = IB /\ (IbHandshakes \/ IbHandshakeFails \/ IbSubscribeFails \/ IbUnmarks)
                      \/ a = Mt5 /\ Mt5Marks
               PROVE  ConnectMoves(a) /\ \A b \in Adapters \ {a} : Same(b)
  <2>1. ASSUME NEW a \in Adapters, NEW h, DialSucceeds(a, {h}) \/ DialSucceeds(a, {}) PROVE cconn'[a] # NoConn
    <3>1. cpc[a] = "dial" /\ rpc[a] # "read"
      BY <2>1 DEF DialSucceeds, OneConnects
    <3>2. CASE DialSucceeds(a, {h})
      <4>1. (CHOOSE x \in Conns : x \notin Held(a) \cup {h}) # NoConn
        BY <3>1, DialHasConn
      <4>2. QED
        BY <1>2, <3>2, <4>1 DEF DialSucceeds, LinksFit
    <3>3. CASE DialSucceeds(a, {})
      <4>1. (CHOOSE x \in Conns : x \notin Held(a) \cup {NoConn}) # NoConn
        BY <3>1, DialHasConn
      <4>2. Held(a) \cup {} = Held(a) /\ \A x \in Conns : x # NoConn
        BY DEF Conns, NoConn
      <4>3. PICK c \in Conns : cconn' = [cconn EXCEPT ![a] = c]
        <5>1. (CHOOSE x \in Conns : x \notin Held(a) \cup {NoConn}) \in Conns
          BY <3>1, DialHasConn
        <5>2. QED
          BY <3>3, <5>1 DEF DialSucceeds
      <4>4. QED
        BY <1>2, <4>2, <4>3 DEF LinksFit
    <3>4. QED
      BY <2>1, <3>2, <3>3
  <2>2. CASE BinanceConnect
    BY <1>2, <1>3, <2>1, <2>2 DEF BinanceConnect, BinanceDialSucceeds, BinancePublishes
  <2>3. CASE IbConnect
    BY <1>2, <1>3, <2>1, <2>3 DEF IbConnect, IbDialSucceeds, IbPublishes
  <2>4. CASE Mt5Connect
    BY <1>2, <1>3, <2>1, <2>4 DEF Mt5Connect, Mt5DialSucceeds, Mt5Publishes
  <2>5. QED
    BY <2>2, <2>3, <2>4 DEF Connecting
<1>4. CASE DialFails(a) \/ (\E held : DialSucceeds(a, held) /\ cconn'[a] # NoConn)
  BY <1>1, <1>2, <1>4 DEF DialFails, DialSucceeds, LinksFit, Same
<1>5. CASE PublishConn(a, "mark") \/ PublishConn(a, "handshake") \/ MarkConnected(a) \/ Subscribed(a)
  BY <1>1, <1>2, <1>5 DEF PublishConn, MarkConnected, Subscribed, LinksFit, Same
<1>6. CASE a = Binance /\ (BinanceSubscribeFails \/ BinanceUndoesConnect \/ BinanceUndoPanics)
  BY <1>1, <1>2, <1>6 DEF BinanceSubscribeFails, BinanceUndoesConnect, BinanceUndoPanics, LinksFit, Same
<1>7. CASE a = IB /\ (IbHandshakes \/ IbHandshakeFails \/ IbSubscribeFails \/ IbUnmarks)
  BY <1>1, <1>2, <1>7
     DEF IbHandshakes, IbHandshakeFails, IbSubscribeFails, IbDiscards, IbUnmarks, WriteMaySucceed, LinksFit, Same
<1>8. CASE a = Mt5 /\ Mt5Marks
  BY <1>1, <1>2, <1>8 DEF Mt5Marks, LinksFit, Same
<1>9. QED
  BY <1>3, <1>4, <1>5, <1>6, <1>7, <1>8

LEMMA ConnectKeepsLinks == ASSUME Shape, LinkInv, Connecting PROVE LinkInv'
<1>1. OneConnects /\ ConnsHeld /\ AttemptsLeft /\ FlagAfterConn
  BY DEF LinkInv
<1>2. PICK a \in Adapters : ConnectMoves(a) /\ \A b \in Adapters \ {a} : Same(b)
  BY <1>1, ConnectingMoves
<1>3. UNCHANGED <<ctxVars, loopVars, sideVars, mainVars>>
  BY DEF Connecting, BinanceConnect, IbConnect, Mt5Connect, DialFails, BinanceDialSucceeds, IbDialSucceeds,
         Mt5DialSucceeds, DialSucceeds, BinancePublishes, IbPublishes, Mt5Publishes, PublishConn, MarkConnected,
         Subscribed, BinanceSubscribeFails, BinanceUndoesConnect, BinanceUndoPanics, IbHandshakes,
         IbHandshakeFails, IbSubscribeFails, IbDiscards, IbUnmarks, Mt5Marks, privateVars
<1>4. /\ UNCHANGED <<rpc, rconn, att, mainVars, mpc, mi, enabled, cancelled, opc>> /\ Current' = Current
      /\ \A b : Waiting(b)' <=> Waiting(b)
      /\ \A b : Stopping(b)' <=> Stopping(b)
  BY <1>3, WaitingStays, StoppingStays DEF ctxVars, loopVars, sideVars, mainVars, Current
<1>5. cpc[a] # "idle" /\ cpc'[a] # "idle" /\ cpc'[a] # "dial"
  BY <1>2 DEF ConnectMoves
<1>6. OneConnects'
  BY <1>1, <1>2, <1>4, <1>5 DEF OneConnects, Same
<1>7. cpc'[a] = "publish" => cconn'[a] # NoConn
  BY <1>2 DEF ConnectMoves
<1>8. ConnsHeld' /\ AttemptsLeft'
  BY <1>1, <1>2, <1>4, <1>5, <1>7 DEF ConnsHeld, AttemptsLeft, Same
<1>9. \A b \in Adapters : cpc'[b] \in {"handshake", "mark"} => conn'[b] # NoConn \/ Stopping(b)'
  <2>1. cpc'[a] \in {"handshake", "mark"} => conn'[a] # NoConn
    BY <1>1, <1>2 DEF ConnectMoves, ConnsHeld
  <2>2. QED
    BY <1>1, <1>2, <1>4, <2>1 DEF FlagAfterConn, Same
<1>10. cpc'[IB] \in {"dial", "publish", "handshake", "mark"} => ~connected'[IB]
  <2>1. CASE a = IB
    BY <1>1, <1>2, <2>1 DEF ConnectMoves, FlagAfterConn
  <2>2. CASE a # IB
    BY <1>1, <1>2, <2>2, Names DEF Same, FlagAfterConn
  <2>3. QED
    BY <2>1, <2>2
<1>11. rpc'[Mt5] = "failed" => ~connected'[Mt5]
  <2>1. rpc[Mt5] = "failed" => a # Mt5
    BY <1>1, <1>5 DEF OneConnects
  <2>2. QED
    BY <1>1, <1>2, <1>4, <2>1, Names DEF FlagAfterConn, Same
<1>12. ConnectedHasConn'
  <2>1. connected'[a] /\ conn'[a] = NoConn => Stopping(a) \/ cpc'[a] = "unmark"
    BY <1>1, <1>2 DEF ConnectMoves, FlagAfterConn, ConnectedHasConn, ConnsHeld
  <2>2. \A b \in Adapters \ {a} : connected'[b] /\ conn'[b] = NoConn => Stopping(b) \/ cpc'[b] = "unmark"
    BY <1>1, <1>2 DEF Same, FlagAfterConn, ConnectedHasConn
  <2>3. QED
    BY <1>4, <2>1, <2>2 DEF ConnectedHasConn
<1>13. RotationIsOff'
  BY <1>4 DEF LinkInv, RotationIsOff
<1>14. QED
  BY <1>6, <1>8, <1>9, <1>10, <1>11, <1>12, <1>13 DEF LinkInv, FlagAfterConn

(* A step of receiveLoop.                                                  *)
ReceiveMoves(a) ==
  /\ rpc[a] # "off" /\ cpc[a] # "unmark"
  /\ rpc'[a] # "read" => rconn'[a] = NoConn
  /\ connected'[a] => (connected[a] /\ conn'[a] = conn[a])
  /\ a = Mt5 /\ rpc'[a] = "failed" => ~connected'[a]
  /\ cconn'[a] = NoConn
  /\ \/ rpc'[a] # "connect" /\ cpc'[a] = "idle"
     \/ rpc'[a] = "connect" /\ cpc'[a] \in {"ok", "dial"}
  /\ cpc'[a] = "dial" => ~connected'[a]
  /\ a # Mt5 /\ rpc'[a] = "connect" => att'[a] < MaxAttempts

LEMMA ReceivingMoves ==
  ASSUME Shape, LinkInv, NEW a \in Adapters, Receiving(a)
  PROVE  ReceiveMoves(a) /\ \A b \in Adapters \ {a} : Same(b)
<1> USE DEF ctxVars, linkVars, connectVars, loopVars, msgVars, Goto
<1>1. LinksFit /\ LoopsFit /\ a # Mt5
  BY Names DEF Shape, Receiving
<1>2. /\ rpc[a] \notin {"off", "connect"} => cpc[a] = "idle"
      /\ cpc[a] = "idle" => cconn[a] = NoConn
      /\ rpc[a] # "read" => rconn[a] = NoConn
  BY DEF LinkInv, OneConnects, ConnsHeld
<1>3. CASE LoopEnds(a) \/ LoopLoadsConn(a) \/ LoopHasNoConn(a) \/ LoopReads(a) \/ LoopSeesFailure(a)
  BY <1>1, <1>2, <1>3 DEF LoopEnds, LoopLoadsConn, LoopHasNoConn, LoopReads, LoopSeesFailure, LinksFit, LoopsFit,
                          ReceiveMoves, Same
<1>4. CASE LoopDelivers(a) \/ LoopGivesUp(a) \/ \E left \in SUBSET alive[a] : LoopReadFails(a, left)
  BY <1>1, <1>2, <1>4 DEF LoopDelivers, LoopGivesUp, LoopReadFails, LinksFit, LoopsFit, ReceiveMoves, Same
<1>5. CASE ReconnectCancelled(a) \/ ReconnectDials(a) \/ ReconnectGivesUp(a)
  BY <1>1, <1>2, <1>5 DEF ReconnectCancelled, ReconnectDials, ReconnectGivesUp, ReconnectReturns, LinksFit, LoopsFit,
                          ReceiveMoves, Same
<1>6. CASE ReconnectFails(a) \/ Reconnected(a)
  BY <1>1, <1>2, <1>6 DEF ReconnectFails, Reconnected, ConnectReturns, ReconnectReturns, LinksFit, LoopsFit,
                          ReceiveMoves, Same
<1>7. QED
  BY <1>3, <1>4, <1>5, <1>6 DEF Receiving, ReceiveLoop

LEMMA ReceivingMt5Moves ==
  ASSUME Shape, LinkInv, ReceivingMt5
  PROVE  ReceiveMoves(Mt5) /\ \A b \in Adapters \ {Mt5} : Same(b)
<1> USE DEF ctxVars, linkVars, connectVars, loopVars, msgVars, Goto
<1>1. LinksFit /\ LoopsFit /\ Mt5 \in Adapters
  BY Names DEF Shape
<1>2. /\ rpc[Mt5] \notin {"off", "connect"} => cpc[Mt5] = "idle"
      /\ cpc[Mt5] = "idle" => cconn[Mt5] = NoConn
      /\ rpc[Mt5] # "read" => rconn[Mt5] = NoConn
      /\ rpc[Mt5] = "failed" => ~connected[Mt5]
  BY <1>1 DEF LinkInv, OneConnects, ConnsHeld, FlagAfterConn
<1>3. CASE Mt5GivesUp \/ Mt5ClosesSocket
  BY <1>1, <1>2, <1>3 DEF Mt5GivesUp, Mt5ClosesSocket, LinksFit, LoopsFit, ReceiveMoves, Same
<1>4. CASE LoopLoadsConn(Mt5) \/ LoopHasNoConn(Mt5) \/ LoopReads(Mt5) \/ LoopDelivers(Mt5) \/ LoopGivesUp(Mt5)
  BY <1>1, <1>2, <1>4 DEF LoopLoadsConn, LoopHasNoConn, LoopReads, LoopDelivers, LoopGivesUp, LinksFit, LoopsFit,
                          ReceiveMoves, Same
<1>5. CASE Mt5ReadsNothing \/ Mt5ReadFails
  BY <1>1, <1>2, <1>5 DEF Mt5ReadsNothing, Mt5ReadFails, LoopReadFails, LinksFit, LoopsFit, ReceiveMoves, Same
<1>6. CASE Mt5Dials \/ Mt5Reconnected
  BY <1>1, <1>2, <1>6 DEF Mt5Dials, Mt5Reconnected, ConnectReturns, LinksFit, LoopsFit, ReceiveMoves, Same
<1>7. QED
  BY <1>3, <1>4, <1>5, <1>6 DEF ReceivingMt5, Mt5Receives

LEMMA ReceiveKeepsLinks ==
  ASSUME Shape, LinkInv, (\E a \in Adapters : Receiving(a)) \/ ReceivingMt5
  PROVE  LinkInv'
<1>1. OneConnects /\ ConnsHeld /\ AttemptsLeft /\ FlagAfterConn /\ Current \in Adapters
  BY CurrentFits DEF LinkInv
<1>2. PICK a \in Adapters : ReceiveMoves(a) /\ \A b \in Adapters \ {a} : Same(b)
  BY ReceivingMoves, ReceivingMt5Moves, Names
<1>3. UNCHANGED <<ctxVars, sideVars, mainVars>>
  BY DEF Receiving, ReceivingMt5, ReceiveLoop, LoopEnds, LoopLoadsConn, LoopHasNoConn, LoopReads, LoopSeesFailure,
         LoopDelivers, LoopGivesUp, LoopReadFails, ReconnectCancelled, ReconnectDials, ReconnectFails, Reconnected,
         ReconnectGivesUp, Mt5Receives, Mt5GivesUp, Mt5ClosesSocket, Mt5ReadsNothing, Mt5ReadFails, Mt5Dials,
         Mt5Reconnected, privateVars
<1>4. /\ UNCHANGED <<mainVars, mpc, mi, enabled, cancelled, opc>> /\ Current' = Current
      /\ \A b : Waiting(b)' <=> Waiting(b)
      /\ \A b : Stopping(b)' <=> Stopping(b)
  BY <1>3, WaitingStays, StoppingStays DEF ctxVars, sideVars, mainVars, Current
<1>5. ~Waiting(a) /\ (mpc = "connecting" => a # Current)
  BY <1>1, <1>2 DEF OneConnects, ReceiveMoves
<1>6. OneConnects'
  <2>1. cpc'[a] # "idle" => rpc'[a] = "connect"
    BY <1>2 DEF ReceiveMoves
  <2>2. QED
    BY <1>1, <1>2, <1>4, <1>5, <2>1 DEF OneConnects, Same
<1>7. ConnsHeld'
  BY <1>1, <1>2 DEF ConnsHeld, Same, ReceiveMoves
<1>8. AttemptsLeft'
  BY <1>1, <1>2 DEF AttemptsLeft, Same, ReceiveMoves
<1>9. \A b \in Adapters : cpc'[b] \in {"handshake", "mark"} => conn'[b] # NoConn \/ Stopping(b)'
  BY <1>1, <1>2, <1>4 DEF FlagAfterConn, Same, ReceiveMoves
<1>10. cpc'[IB] \in {"dial", "publish", "handshake", "mark"} => ~connected'[IB]
  <2>1. CASE a = IB
    BY <1>2, <2>1 DEF ReceiveMoves
  <2>2. CASE a # IB
    BY <1>1, <1>2, <2>2, Names DEF Same, FlagAfterConn
  <2>3. QED
    BY <2>1, <2>2
<1>11. rpc'[Mt5] = "failed" => ~connected'[Mt5]
  <2>1. CASE a = Mt5
    BY <1>2, <2>1 DEF ReceiveMoves
  <2>2. CASE a # Mt5
    BY <1>1, <1>2, <2>2, Names DEF Same, FlagAfterConn
  <2>3. QED
    BY <2>1, <2>2
<1>12. ConnectedHasConn'
  <2>1. connected'[a] /\ conn'[a] = NoConn => Stopping(a)
    BY <1>1, <1>2 DEF ReceiveMoves, FlagAfterConn, ConnectedHasConn
  <2>2. \A b \in Adapters \ {a} : connected'[b] /\ conn'[b] = NoConn => Stopping(b) \/ cpc'[b] = "unmark"
    BY <1>1, <1>2 DEF Same, FlagAfterConn, ConnectedHasConn
  <2>3. QED
    BY <1>4, <2>1, <2>2 DEF ConnectedHasConn
<1>13. RotationIsOff'
  BY <1>4 DEF LinkInv, RotationIsOff
<1>14. QED
  BY <1>6, <1>7, <1>8, <1>9, <1>10, <1>11, <1>12, <1>13 DEF LinkInv, FlagAfterConn

(* The steps that leave Connect and the loops where they are: of the venue *)
(* and the tickers, and those of a Stop.                                   *)
LEMMA StopKeepsLinks ==
  ASSUME LinkInv, UNCHANGED <<cpc, cconn, rpc, rconn, att>>,
         UNCHANGED mainVars \/ (mpc # "connecting" /\ mpc' \notin {"connect", "connecting"}),
         opc = "off" => opc' = "off",
         \A b \in Adapters : /\ connected'[b] => connected[b]
                             /\ conn'[b] = conn[b] \/ Stopping(b)'
                             /\ Stopping(b) => Stopping(b)'
  PROVE  LinkInv'
<1>1. OneConnects /\ ConnsHeld /\ AttemptsLeft /\ FlagAfterConn /\ RotationIsOff
  BY DEF LinkInv
<1>2. \A b \in Adapters : Waiting(b)' => Waiting(b)
  BY WaitingStays DEF Waiting
<1>3. OneConnects'
  <2>1. CASE UNCHANGED mainVars
    BY <1>1, <1>2, <2>1 DEF OneConnects, mainVars, Current
  <2>2. CASE mpc # "connecting" /\ mpc' \notin {"connect", "connecting"}
    BY <1>1, <1>2, <2>2 DEF OneConnects
  <2>3. QED
    BY <2>1, <2>2
<1>4. ConnsHeld' /\ AttemptsLeft'
  BY <1>1 DEF ConnsHeld, AttemptsLeft
<1>5. FlagAfterConn'
  BY <1>1, Names DEF FlagAfterConn, ConnectedHasConn
<1>6. RotationIsOff'
  BY <1>1 DEF RotationIsOff, mainVars
<1>7. QED
  BY <1>3, <1>4, <1>5, <1>6 DEF LinkInv

LEMMA BesideKeepsLinks == ASSUME Shape, LinkInv, Venue \/ Beside \/ FanIn \/ UNCHANGED procVars PROVE LinkInv'
<1> USE DEF ctxVars, linkVars, connectVars, loopVars, msgVars, adapterVars, privateVars, sideVars, mainVars, fanVars
<1>1. LinksFit /\ Binance \in Adapters /\ IB \in Adapters
  BY Names DEF Shape
<1>2. CASE Venue \/ FanIn \/ UNCHANGED procVars
  <2>1. UNCHANGED <<cpc, cconn, rpc, rconn, att, mainVars, mpc, mi, enabled, opc, connected, conn, cancelled>>
    BY <1>2 DEF Venue, VenueDrops, FanIn, FanReceives, FanSeesDone, FanEnds, procVars
  <2>2. \A b \in Adapters : Stopping(b)' <=> Stopping(b)
    BY <2>1, StoppingStays
  <2>3. QED
    BY <2>1, <2>2, StopKeepsLinks
<1>3. CASE Beside
  <2> USE DEF HeartbeatDone, StopFlags, StopConn, StopContext
  <2>1. UNCHANGED <<cpc, cconn, rpc, rconn, att, mainVars, mpc, mi, enabled>> /\ (opc = "off" => opc' = "off")
    BY <1>3 DEF Beside, HeartbeatTicks, HeartbeatRuns, HeartbeatPings, HeartbeatFails, HeartbeatEnds,
                RotationTicks, RotationRuns, RotationStops, RotationConnects, RotationEnds
  <2>2. /\ connected' = connected \/ connected' = [connected EXCEPT ![Binance] = FALSE]
        /\ conn' = conn \/ (conn' = [conn EXCEPT ![Binance] = NoConn] /\ opc' = "cancel")
        /\ cancelled' = cancelled \/ cancelled' = [cancelled EXCEPT ![Binance] = TRUE]
        /\ opc = "cancel" => opc' = "cancel" \/ cancelled' = [cancelled EXCEPT ![Binance] = TRUE]
    BY <1>3 DEF Beside, HeartbeatTicks, HeartbeatRuns, HeartbeatPings, HeartbeatFails, HeartbeatEnds,
                RotationTicks, RotationRuns, RotationStops, RotationConnects, RotationEnds
  <2>3. Current' = Current
    BY <2>1 DEF Current
  <2>4. ASSUME NEW b \in Adapters
        PROVE  /\ connected'[b] => connected[b]
               /\ conn'[b] = conn[b] \/ Stopping(b)'
               /\ Stopping(b) => Stopping(b)'
    <3>1. connected'[b] => connected[b]
      BY <1>1, <2>2 DEF LinksFit
    <3>2. conn'[b] = conn[b] \/ Stopping(b)'
      BY <1>1, <2>2 DEF LinksFit, Stopping
    <3>3. cancelled[b] => cancelled'[b]
      BY <1>1, <2>2 DEF LinksFit
    <3>4. b = Binance /\ opc = "cancel" => opc' = "cancel" \/ cancelled'[b]
      BY <1>1, <2>2 DEF LinksFit
    <3>5. QED
      BY <2>1, <2>3, <3>1, <3>2, <3>3, <3>4 DEF Stopping
  <2>5. QED
    BY <2>1, <2>4, StopKeepsLinks
<1>4. QED
  BY <1>2, <1>3

LEMMA MainStopsKeepLinks == ASSUME Shape, LinkInv, MainStopsAdapter \/ MainEnds \/ MainCancels PROVE LinkInv'
<1> USE DEF ctxVars, linkVars, connectVars, loopVars, msgVars, adapterVars, privateVars, sideVars, fanVars
<1>1. LinksFit /\ Current \in Adapters
  BY CurrentFits DEF Shape
<1>2. /\ UNCHANGED <<cpc, cconn, rpc, rconn, att, enabled, opc>>
      /\ mpc # "connecting" /\ mpc' \notin {"connect", "connecting"}
  BY DEF MainStopsAdapter, StopFlags, StopConn, StopContext, NextAdapter, MainEnds, MainCancels
<1>3. CASE \/ mpc = "flags" /\ StopFlags(Current) /\ mpc' = "close" /\ UNCHANGED mi
           \/ mpc = "close" /\ StopConn(Current) /\ mpc' = "cancel" /\ UNCHANGED mi
  <2>1. /\ connected' = connected \/ connected' = [connected EXCEPT ![Current] = FALSE]
        /\ conn' = conn \/ (conn' = [conn EXCEPT ![Current] = NoConn] /\ mpc' = "cancel")
        /\ cancelled' = cancelled /\ Current' = Current /\ mpc # "cancel"
    BY <1>2, <1>3 DEF StopFlags, StopConn, Current
  <2>2. ASSUME NEW b \in Adapters
        PROVE  /\ connected'[b] => connected[b]
               /\ conn'[b] = conn[b] \/ Stopping(b)'
               /\ Stopping(b) => Stopping(b)'
    <3>1. connected'[b] => connected[b]
      BY <1>1, <2>1 DEF LinksFit
    <3>2. conn'[b] = conn[b] \/ Stopping(b)'
      BY <1>1, <2>1 DEF LinksFit, Stopping
    <3>3. QED
      BY <1>2, <2>1, <3>1, <3>2 DEF Stopping
  <2>3. QED
    BY <1>2, <2>2, StopKeepsLinks
<1>4. CASE \/ mpc = "cancel" /\ StopContext(Current) /\ NextAdapter("flags", "flush")
           \/ MainEnds \/ MainCancels
  <2>1. /\ UNCHANGED <<connected, conn>>
        /\ cancelled' = cancelled \/ cancelled' = [cancelled EXCEPT ![Current] = TRUE]
        /\ mpc = "cancel" => cancelled' = [cancelled EXCEPT ![Current] = TRUE]
    BY <1>4 DEF StopContext, MainEnds, MainCancels
  <2>2. ASSUME NEW b \in Adapters
        PROVE  /\ connected'[b] => connected[b]
               /\ conn'[b] = conn[b] \/ Stopping(b)'
               /\ Stopping(b) => Stopping(b)'
    <3>1. cancelled[b] => cancelled'[b]
      BY <1>1, <2>1 DEF LinksFit
    <3>2. mpc = "cancel" /\ Current = b => cancelled'[b]
      BY <1>1, <2>1 DEF LinksFit
    <3>3. QED
      BY <1>2, <2>1, <3>1, <3>2 DEF Stopping
  <2>3. QED
    BY <1>2, <2>2, StopKeepsLinks
<1>5. QED
  BY <1>3, <1>4 DEF MainStopsAdapter

(* main comes to an adapter that rests.                                    *)
LEMMA MainConnectsKeepsLinks == ASSUME Shape, LinkInv, MainConnects PROVE LinkInv'
<1> DEFINE a == Current
<1> USE DEF ctxVars, linkVars, loopVars, privateVars, sideVars
<1>1. OneConnects /\ ConnsHeld /\ AttemptsLeft /\ FlagAfterConn /\ RotationIsOff
  BY DEF LinkInv
<1>2. /\ LinksFit /\ a \in Adapters /\ mi \in 1 .. Len(enabled) /\ Len(enabled) \in Nat /\ enabled[mi] = a
      /\ \A i, j \in 1 .. Len(enabled) : enabled[i] = enabled[j] => i = j
  BY CurrentFits DEF Shape, Current
<1>3. /\ mpc = "connect" /\ mpc' = "connecting"
      /\ UNCHANGED <<cancelled, connected, conn, cconn, rpc, rconn, att, opc, enabled, mi>> /\ Current' = a
      /\ cpc'[a] = "dial" /\ \A b \in Adapters \ {a} : cpc'[b] = cpc[b]
  BY <1>2 DEF MainConnects, LinksFit, Current
<1>4. Waiting(a)
  BY <1>2, <1>3 DEF Waiting
<1>5. rpc[a] = "off" /\ cpc[a] = "idle" /\ ~connected[a]
  BY <1>1, <1>2, <1>4 DEF OneConnects
<1>6. \A b \in Adapters : Waiting(b)' => Waiting(b) /\ b # a
  <2>1. ASSUME NEW b \in Adapters, Waiting(b)' PROVE Waiting(b) /\ b # a
    <3>1. PICK j \in 1 .. Len(enabled) : enabled[j] = b /\ j > mi
      BY <1>3, <2>1 DEF Waiting
    <3>2. j >= mi /\ j # mi
      BY <1>2, <3>1
    <3>3. QED
      BY <1>2, <1>3, <3>1, <3>2 DEF Waiting
  <2>2. QED
    BY <2>1
<1>7. \A b \in Adapters : Stopping(b)' <=> Stopping(b)
  BY <1>3 DEF Stopping
<1> HIDE DEF a
<1>8. OneConnects'
  BY <1>1, <1>2, <1>3, <1>5, <1>6 DEF OneConnects
<1>9. ConnsHeld' /\ AttemptsLeft'
  BY <1>1, <1>2, <1>3, <1>5 DEF ConnsHeld, AttemptsLeft
<1>10. FlagAfterConn'
  <2>1. cpc'[IB] \in {"dial", "publish", "handshake", "mark"} => ~connected[IB]
    BY <1>1, <1>2, <1>3, <1>5, Names DEF FlagAfterConn
  <2>2. \A b \in Adapters : cpc'[b] \in {"handshake", "mark"} => cpc[b] = cpc'[b]
    BY <1>2, <1>3
  <2>3. ConnectedHasConn'
    BY <1>1, <1>2, <1>3, <1>5, <1>7 DEF FlagAfterConn, ConnectedHasConn
  <2>4. QED
    BY <1>1, <1>3, <1>7, <2>1, <2>2, <2>3 DEF FlagAfterConn
<1>11. RotationIsOff'
  BY <1>1, <1>3 DEF RotationIsOff
<1>12. QED
  BY <1>8, <1>9, <1>10, <1>11 DEF LinkInv

LEMMA MainStartsKeepsLinks == ASSUME Shape, LinkInv, MainStarts PROVE LinkInv'
<1> DEFINE a == Current
<1> USE DEF ctxVars, linkVars, msgVars
<1>1. OneConnects /\ ConnsHeld /\ AttemptsLeft /\ FlagAfterConn /\ RotationIsOff
  BY DEF LinkInv
<1>2. /\ LinksFit /\ LoopsFit
      /\ a \in Adapters /\ mi \in 1 .. Len(enabled) /\ Len(enabled) \in Nat /\ enabled[mi] = a
      /\ \A i, j \in 1 .. Len(enabled) : enabled[i] = enabled[j] => i = j
  BY CurrentFits DEF Shape, Current
<1>3. /\ mpc = "connecting" /\ cpc[a] \in {"ok", "err"}
      /\ UNCHANGED <<cancelled, connected, conn, rconn, att, enabled>>
      /\ cpc'[a] = "idle" /\ cconn'[a] = NoConn /\ rpc'[a] = "check"
      /\ \A b \in Adapters \ {a} : cpc'[b] = cpc[b] /\ cconn'[b] = cconn[b] /\ rpc'[b] = rpc[b]
  BY <1>2 DEF MainStarts, ConnectReturns, Goto, LinksFit, LoopsFit
<1>4. (mpc' = "connect" /\ mi' = mi + 1) \/ mpc' \in {"serve", "blocked"}
  BY <1>2 DEF MainStarts, NextAdapter
<1>5. rpc[a] = "off"
  BY <1>1, <1>3 DEF OneConnects
<1>6. \A j \in mi' .. Len(enabled) : mpc' = "connect" => j \in mi .. Len(enabled) /\ j \in 1 .. Len(enabled) /\ j > mi
  BY <1>2, <1>4
<1>7. \A b \in Adapters : Waiting(b)' => Waiting(b) /\ b # a
  <2>1. ASSUME NEW b \in Adapters, Waiting(b)' PROVE Waiting(b) /\ b # a
    <3>1. PICK j \in 1 .. Len(enabled) : enabled[j] = b /\ mpc' = "connect" /\ j >= mi + 1
      BY <1>3, <1>4, <2>1 DEF Waiting
    <3>2. j > mi /\ j # mi
      BY <1>2, <3>1
    <3>3. QED
      BY <1>2, <1>3, <3>1, <3>2 DEF Waiting
  <2>2. QED
    BY <2>1
<1>8. /\ a = Binance => opc = "off"
      /\ opc' = opc \/ (a = Binance /\ opc' = "tick")
  <2>1. a = Binance => opc = "off"
    BY <1>1, <1>2, <1>3 DEF RotationIsOff
  <2>2. QED
    BY <2>1 DEF MainStarts
<1>9. \A b \in Adapters : Stopping(b)' <=> Stopping(b)
  BY <1>3, <1>4, <1>8 DEF Stopping
<1>10. RotationIsOff'
  <2>1. ASSUME mpc' \in {"connect", "connecting"}, NEW j \in mi' .. Len(enabled), enabled[j] = Binance
        PROVE  opc' = "off"
    <3>1. mpc' = "connect" /\ j \in mi .. Len(enabled) /\ j \in 1 .. Len(enabled) /\ j # mi
      BY <1>2, <1>4, <1>6, <2>1
    <3>2. enabled[j] # a
      BY <1>2, <3>1
    <3>3. QED
      BY <1>1, <1>3, <1>8, <2>1, <3>1, <3>2 DEF RotationIsOff
  <2>2. QED
    BY <1>3, <2>1 DEF RotationIsOff
<1>11. Current = a
  OBVIOUS
<1> HIDE DEF a
<1>12. OneConnects'
  BY <1>1, <1>2, <1>3, <1>4, <1>7, <1>11 DEF OneConnects
<1>13. ConnsHeld' /\ AttemptsLeft'
  BY <1>1, <1>2, <1>3, <1>5 DEF ConnsHeld, AttemptsLeft
<1>14. FlagAfterConn'
  <2>1. cpc'[IB] \in {"dial", "publish", "handshake", "mark"} => ~connected[IB]
    BY <1>1, <1>2, <1>3, Names DEF FlagAfterConn
  <2>2. \A b \in Adapters : cpc'[b] \in {"handshake", "mark"} => cpc[b] = cpc'[b]
    BY <1>2, <1>3
  <2>3. ConnectedHasConn'
    BY <1>1, <1>2, <1>3, <1>9 DEF FlagAfterConn, ConnectedHasConn
  <2>4. rpc'[Mt5] = "failed" => rpc[Mt5] = "failed"
    BY <1>2, <1>3, Names
  <2>5. QED
    BY <1>1, <1>3, <1>9, <2>1, <2>2, <2>3, <2>4 DEF FlagAfterConn
<1>15. QED
  BY <1>10, <1>12, <1>13, <1>14 DEF LinkInv

LEMMA LinkInit == Init => LinkInv
<1> SUFFICES ASSUME Init PROVE LinkInv
  OBVIOUS
<1>1. AdapterInit /\ SideInit /\ mpc = "connect" /\ mi = 1
  BY DEF Init
<1>2. \A a \in Adapters : /\ rpc[a] = "off" /\ cpc[a] = "idle" /\ ~connected[a] /\ conn[a] = NoConn
                          /\ cconn[a] = NoConn /\ rconn[a] = NoConn
  BY <1>1 DEF AdapterInit
<1>3. OneConnects /\ ConnsHeld /\ AttemptsLeft
  BY <1>1, <1>2 DEF OneConnects, ConnsHeld, AttemptsLeft
<1>4. FlagAfterConn /\ RotationIsOff
  BY <1>1, <1>2, Names DEF FlagAfterConn, ConnectedHasConn, RotationIsOff, SideInit
<1>5. QED
  BY <1>3, <1>4 DEF LinkInv

LEMMA LinkStep == ASSUME Shape, LinkInv, Steps PROVE LinkInv'
<1>1. CASE Main
  BY <1>1, MainConnectsKeepsLinks, MainStartsKeepsLinks, MainStopsKeepLinks DEF Main, MainRuns
<1>2. CASE Venue \/ Beside \/ FanIn \/ UNCHANGED procVars
  BY <1>2, BesideKeepsLinks
<1>3. QED
  BY <1>1, <1>2, ConnectKeepsLinks, ReceiveKeepsLinks DEF Steps

-----------------------------------------------------------------------------
(* The statistic                                                           *)

Delivering(a) == IF rpc[a] = "deliver" THEN 1 ELSE 0

LEMMA CountsInit == Init => CountsFit
BY CountEmpty, Names DEF Init, AdapterInit, CountsFit

LEMMA CountsStay ==
  ASSUME CountsFit, UNCHANGED <<messagesRecv, rawCh, sent>>,
         \A b \in Adapters : rpc'[b] = "deliver" <=> rpc[b] = "deliver"
  PROVE  CountsFit'
BY DEF CountsFit

(* receiveLoop counts a message, puts it on the channel or gives it up.    *)
LEMMA ReceivingCounts ==
  ASSUME Shape, CountsFit, NEW a \in Adapters, UNCHANGED sent,
         LoopReads(a) \/ LoopDelivers(a) \/ LoopGivesUp(a)
  PROVE  CountsFit'
<1> USE DEF linkVars, connectVars, Goto
<1>1. /\ messagesRecv \in [Adapters -> Int] /\ sent \in [Adapters -> Int] /\ rawCh \in Seq(Adapters)
      /\ LoopsFit /\ MaxMsgs \in Nat
  BY Names DEF Shape, MessagesFit
<1>2. \A b \in Adapters :
        /\ Count(rawCh, b) \in Nat
        /\ Count(Append(rawCh, a), b) = Count(rawCh, b) + (IF a = b THEN 1 ELSE 0)
  BY <1>1, PlacesFinite, CountAppend
<1>3. SUFFICES ASSUME NEW b \in Adapters
               PROVE  /\ messagesRecv'[b] <= MaxMsgs /\ 0 <= sent'[b]
                      /\ messagesRecv'[b] = sent'[b] + Count(rawCh', b) + Delivering(b)'
  BY DEF CountsFit, Delivering
<1>4. /\ messagesRecv[b] \in Int /\ sent[b] \in Int /\ Count(rawCh, b) \in Nat
      /\ messagesRecv[b] <= MaxMsgs /\ 0 <= sent[b] /\ sent'[b] = sent[b]
      /\ messagesRecv[b] = sent[b] + Count(rawCh, b) + Delivering(b)
  BY <1>1, <1>2 DEF CountsFit, Delivering
<1>5. CASE b # a
  <2>1. Delivering(b)' = Delivering(b) /\ messagesRecv'[b] = messagesRecv[b]
    BY <1>1, <1>5 DEF LoopReads, LoopDelivers, LoopGivesUp, msgVars, LoopsFit, Delivering
  <2>2. rawCh' = rawCh \/ rawCh' = Append(rawCh, a)
    BY DEF LoopReads, LoopDelivers, LoopGivesUp
  <2>3. Count(Append(rawCh, a), b) = Count(rawCh, b)
    BY <1>2, <1>4, <1>5
  <2>4. QED
    BY <1>4, <2>1, <2>2, <2>3
<1>6. CASE b = a
  <2>1. CASE LoopReads(a)
    <3>1. /\ messagesRecv'[a] = messagesRecv[a] + 1 /\ messagesRecv[a] < MaxMsgs /\ rawCh' = rawCh
          /\ Delivering(a) = 0 /\ Delivering(a)' = 1
      BY <1>1, <2>1 DEF LoopReads, LoopsFit, Delivering
    <3>2. QED
      BY <1>1, <1>4, <1>6, <3>1
  <2>2. CASE LoopDelivers(a)
    <3>1. /\ messagesRecv'[a] = messagesRecv[a] /\ rawCh' = Append(rawCh, a)
          /\ Delivering(a) = 1 /\ Delivering(a)' = 0
      BY <1>1, <2>2 DEF LoopDelivers, LoopsFit, Delivering
    <3>2. Count(rawCh', b) = Count(rawCh, b) + 1
      BY <1>2, <1>6, <3>1
    <3>3. QED
      BY <1>4, <1>6, <3>1, <3>2
  <2>3. CASE LoopGivesUp(a)
    <3>1. /\ messagesRecv'[a] = messagesRecv[a] - 1 /\ rawCh' = rawCh
          /\ Delivering(a) = 1 /\ Delivering(a)' = 0
      BY <1>1, <2>3 DEF LoopGivesUp, LoopsFit, Delivering
    <3>2. QED
      BY <1>1, <1>4, <1>6, <3>1
  <2>4. QED
    BY <2>1, <2>2, <2>3
<1>7. QED
  BY <1>5, <1>6

(* The fanIn takes a message from the channel.                             *)
LEMMA FanReceivesCounts == ASSUME Shape, CountsFit, FanReceives PROVE CountsFit'
<1> DEFINE h == Head(rawCh)
<1>1. /\ messagesRecv \in [Adapters -> Int] /\ sent \in [Adapters -> Int] /\ rawCh \in Seq(Adapters)
      /\ UNCHANGED <<messagesRecv, rpc>> /\ rawCh # <<>> /\ rawCh' = Tail(rawCh)
      /\ sent' = [sent EXCEPT ![h] = sent[h] + 1]
  BY DEF Shape, MessagesFit, FanReceives, loopVars
<1>2. Tail(rawCh) \in Seq(Adapters)
  BY <1>1, HeadTailProperties
<1>3. SUFFICES ASSUME NEW b \in Adapters
               PROVE  /\ messagesRecv'[b] <= MaxMsgs /\ 0 <= sent'[b]
                      /\ messagesRecv'[b] = sent'[b] + Count(rawCh', b) + Delivering(b)'
  BY DEF CountsFit, Delivering
<1>4. /\ Count(rawCh, b) = Count(Tail(rawCh), b) + (IF h = b THEN 1 ELSE 0)
      /\ Count(Tail(rawCh), b) \in Nat
  BY <1>1, <1>2, PlacesFinite, CountTail
<1>5. sent'[b] = sent[b] + (IF h = b THEN 1 ELSE 0) /\ sent[b] \in Int
  BY <1>1
<1>6. /\ messagesRecv[b] \in Int /\ messagesRecv'[b] = messagesRecv[b] /\ Delivering(b)' = Delivering(b)
      /\ Delivering(b) \in Int
      /\ messagesRecv[b] <= MaxMsgs /\ 0 <= sent[b]
      /\ messagesRecv[b] = sent[b] + Count(rawCh, b) + Delivering(b)
  BY <1>1 DEF CountsFit, Delivering
<1>7. Count(rawCh', b) = Count(Tail(rawCh), b)
  BY <1>1
<1> HIDE DEF h
<1>8. CASE h = b
  BY <1>4, <1>5, <1>6, <1>7, <1>8
<1>9. CASE h # b
  BY <1>4, <1>5, <1>6, <1>7, <1>9
<1>10. QED
  BY <1>8, <1>9

LEMMA CountsStep == ASSUME Shape, LinkInv, CountsFit, Steps PROVE CountsFit'
<1> USE DEF ctxVars, linkVars, connectVars, loopVars, msgVars, adapterVars, privateVars, sideVars, fanVars
<1>1. CASE Venue \/ Connecting \/ Beside \/ FanSeesDone \/ FanEnds \/ UNCHANGED procVars
  <2>1. UNCHANGED <<rpc, messagesRecv, rawCh, sent>>
    <3>1. CASE Venue \/ FanSeesDone \/ FanEnds \/ UNCHANGED procVars
      BY <3>1 DEF Venue, VenueDrops, FanSeesDone, FanEnds, procVars
    <3>2. CASE Connecting
      BY <3>2 DEF Connecting, BinanceConnect, IbConnect, Mt5Connect, DialFails, BinanceDialSucceeds, IbDialSucceeds,
         Mt5DialSucceeds, DialSucceeds, BinancePublishes, IbPublishes, Mt5Publishes, PublishConn, MarkConnected,
         Subscribed, BinanceSubscribeFails, BinanceUndoesConnect, BinanceUndoPanics, IbHandshakes,
         IbHandshakeFails, IbSubscribeFails, IbDiscards, IbUnmarks, Mt5Marks
    <3>3. CASE Beside
      BY <3>3 DEF Beside, HeartbeatTicks, HeartbeatRuns, HeartbeatPings, HeartbeatFails, HeartbeatEnds,
         RotationTicks, RotationRuns, RotationStops, RotationConnects, RotationEnds, HeartbeatDone, StopFlags,
         StopConn, StopContext
    <3>4. QED
      BY <1>1, <3>1, <3>2, <3>3
  <2>2. QED
    BY <2>1, CountsStay
<1>2. CASE Main
  <2>1. UNCHANGED <<messagesRecv, rawCh, sent>>
    BY <1>2 DEF Main, MainRuns, MainConnects, MainStarts, MainStopsAdapter, StopFlags, StopConn, StopContext,
                MainEnds, MainCancels
  <2>2. rpc' = rpc \/ (rpc[Current] = "off" /\ rpc' = [rpc EXCEPT ![Current] = "check"])
    BY <1>2 DEF Main, MainRuns, MainConnects, MainStarts, Goto, MainStopsAdapter, StopFlags, StopConn, StopContext,
                MainEnds, MainCancels, LinkInv, OneConnects
  <2>3. \A b \in Adapters : rpc'[b] = "deliver" <=> rpc[b] = "deliver"
    BY <2>2 DEF Shape, LoopsFit
  <2>4. QED
    BY <2>1, <2>3, CountsStay
<1>3. ASSUME NEW a \in Adapters, Receiving(a) PROVE CountsFit'
  <2>1. UNCHANGED sent
    BY <1>3 DEF Receiving
  <2>2. CASE LoopReads(a) \/ LoopDelivers(a) \/ LoopGivesUp(a)
    BY <2>1, <2>2, ReceivingCounts
  <2>3. CASE ~(LoopReads(a) \/ LoopDelivers(a) \/ LoopGivesUp(a))
    <3>1. UNCHANGED <<messagesRecv, rawCh>>
      BY <1>3, <2>3 DEF Receiving, ReceiveLoop, LoopEnds, LoopLoadsConn, LoopHasNoConn, LoopSeesFailure,
         LoopReadFails, ReconnectCancelled, ReconnectDials, ReconnectFails, Reconnected, ReconnectGivesUp
    <3>2. \A b \in Adapters : rpc'[b] = "deliver" <=> rpc[b] = "deliver"
      BY <1>3, <2>3 DEF Receiving, ReceiveLoop, LoopEnds, LoopLoadsConn, LoopHasNoConn, LoopSeesFailure,
         LoopReadFails, ReconnectCancelled, ReconnectDials, ReconnectFails, Reconnected, ReconnectGivesUp,
         ReconnectReturns, Goto, Shape, LoopsFit
    <3>3. QED
      BY <2>1, <3>1, <3>2, CountsStay
  <2>4. QED
    BY <2>2, <2>3
<1>4. CASE ReceivingMt5
  <2>1. UNCHANGED sent /\ Mt5 \in Adapters
    BY <1>4, Names DEF ReceivingMt5
  <2>2. CASE LoopReads(Mt5) \/ LoopDelivers(Mt5) \/ LoopGivesUp(Mt5)
    BY <2>1, <2>2, ReceivingCounts
  <2>3. CASE ~(LoopReads(Mt5) \/ LoopDelivers(Mt5) \/ LoopGivesUp(Mt5))
    <3>1. UNCHANGED <<messagesRecv, rawCh>>
      BY <1>4, <2>3 DEF ReceivingMt5, Mt5Receives, Mt5GivesUp, Mt5ClosesSocket, LoopLoadsConn, LoopHasNoConn,
         Mt5ReadsNothing, Mt5ReadFails, LoopReadFails, Mt5Dials, Mt5Reconnected
    <3>2. \A b \in Adapters : rpc'[b] = "deliver" <=> rpc[b] = "deliver"
      BY <1>4, <2>3 DEF ReceivingMt5, Mt5Receives, Mt5GivesUp, Mt5ClosesSocket, LoopLoadsConn, LoopHasNoConn,
         Mt5ReadsNothing, Mt5ReadFails, LoopReadFails, Mt5Dials, Mt5Reconnected, Goto, Shape, LoopsFit
    <3>3. QED
      BY <2>1, <3>1, <3>2, CountsStay
  <2>4. QED
    BY <2>2, <2>3
<1>5. CASE FanReceives
  BY <1>5, FanReceivesCounts
<1>6. QED
  BY <1>1, <1>2, <1>3, <1>4, <1>5 DEF Steps, FanIn

-----------------------------------------------------------------------------
(* The theorems                                                            *)

AdapterInv == Shape /\ LinkInv /\ CountsFit

(* In every reachable state at most one Connect of an adapter runs, that   *)
(* of main before Start and that of reconnect in receiveLoop after it, the *)
(* connections the goroutines refer to are the ones they took, connected   *)
(* is set after conn, and the statistic counts the messages that were read.*)
THEOREM AdapterInvariant == Spec => []AdapterInv
<1>1. Init => AdapterInv
  BY ShapeInit, LinkInit, CountsInit DEF AdapterInv
<1>2. AdapterInv /\ [Next]_procVars => AdapterInv'
  BY StepsAre, ShapeStep, LinkStep, CountsStep DEF AdapterInv, LinkInv
<1>3. QED
  BY <1>1, <1>2, PTL DEF Spec

(* What a consumer has taken from the channel or can take from it is       *)
(* counted in messagesRecv, and nothing else but the one message that      *)
(* receiveLoop is about to deliver (binance.go, ib.go and mt5_zmq.go       *)
(* count before the select that sends).                                    *)
THEOREM ConsumersFindItCounted == Spec => []CountedBeforeSeen
<1>1. AdapterInv => CountedBeforeSeen
  BY DEF AdapterInv, CountsFit, CountedBeforeSeen, OnChannel, Count, Places
<1>2. QED
  BY <1>1, AdapterInvariant, PTL

(* An adapter that reports connected has a connection, unless a Stop has   *)
(* come between the two or IB's Connect is about to take the flag back.    *)
THEOREM FlagMeansConnection == Spec => []ConnectedHasConn
<1>1. AdapterInv => ConnectedHasConn
  BY DEF AdapterInv, LinkInv, FlagAfterConn
<1>2. QED
  BY <1>1, AdapterInvariant, PTL

(* The types of the adapters and of their process, the bounds of the two   *)
(* counts of messages among them: a count never falls below zero, although *)
(* receiveLoop takes back what it counted for a message it gives up, and   *)
(* never more messages are sent than were received.                        *)
THEOREM AdapterTypes == Spec => []TypeOK
<1>1. ASSUME AdapterInv PROVE TypeOK
  <2>1. Shape /\ CountsFit /\ MaxMsgs \in Nat
    BY <1>1, Names DEF AdapterInv
  <2>2. /\ messagesRecv \in [Adapters -> Int] /\ sent \in [Adapters -> Int] /\ rawCh \in Seq(Adapters)
    BY <2>1 DEF Shape, MessagesFit
  <2>3. ASSUME NEW a \in Adapters PROVE messagesRecv[a] \in 0 .. MaxMsgs /\ sent[a] \in 0 .. MaxMsgs
    <3>1. Count(rawCh, a) \in Nat /\ messagesRecv[a] \in Int /\ sent[a] \in Int /\ Delivering(a) \in {0, 1}
      BY <2>2, PlacesFinite DEF Delivering
    <3>2. /\ messagesRecv[a] <= MaxMsgs /\ 0 <= sent[a]
          /\ messagesRecv[a] = sent[a] + Count(rawCh, a) + Delivering(a)
      BY <2>1 DEF CountsFit, Delivering
    <3>3. QED
      BY <2>1, <3>1, <3>2
  <2>4. messagesRecv \in [Adapters -> 0 .. MaxMsgs] /\ sent \in [Adapters -> 0 .. MaxMsgs]
    BY <2>2, <2>3
  <2>5. QED
    BY <2>1, <2>4 DEF TypeOK, AdapterTypeOK, Shape, LinksFit, LoopsFit, MessagesFit, MainFits
<1>2. QED
  BY <1>1, AdapterInvariant, PTL
===========================================================================
