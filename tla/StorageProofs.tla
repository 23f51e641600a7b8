--------------------------- MODULE StorageProofs ---------------------------
(***************************************************************************)
(* The safety properties of Storage for every number of events, handlers,  *)
(* flushers, faults and restarts, and every size of buffer, file and batch.*)
(***************************************************************************)
EXTENDS Storage, SequenceTheorems, TLAPS

-----------------------------------------------------------------------------
(* Sequences                                                               *)

Prefix(s, t) == Len(s) <= Len(t) /\ \A i \in 1 .. Len(s) : s[i] = t[i]

(* The numbers up to n, in increasing order, some left out.                *)
Sorted(s, n) ==
  /\ s \in Seq(1 .. n)
  /\ \A i, j \in 1 .. Len(s) : i < j => s[i] < s[j]

LEMMA ElementsByIndex ==
  ASSUME NEW S, NEW s \in Seq(S)
  PROVE  /\ Elements(s) \subseteq S
         /\ \A x : x \in Elements(s) <=> \E i \in 1 .. Len(s) : x = s[i]
BY LenProperties, ElementOfSeq DEF Elements

LEMMA ElementsOfConcat ==
  ASSUME NEW S, NEW s \in Seq(S), NEW t \in Seq(S)
  PROVE  Elements(s \o t) = Elements(s) \cup Elements(t)
<1> DEFINE u == s \o t
<1>1. /\ u \in Seq(S) /\ Len(u) = Len(s) + Len(t) /\ Len(s) \in Nat /\ Len(t) \in Nat
      /\ \A i \in 1 .. Len(s) + Len(t) : u[i] = IF i <= Len(s) THEN s[i] ELSE t[i - Len(s)]
  BY ConcatProperties, LenProperties
<1> HIDE DEF u
<1>2. ASSUME NEW x \in Elements(u) PROVE x \in Elements(s) \cup Elements(t)
  <2>1. PICK i \in 1 .. Len(u) : x = u[i]
    BY <1>1, ElementsByIndex
  <2>2. CASE i <= Len(s)
    <3>1. i \in 1 .. Len(s) /\ x = s[i]
      BY <1>1, <2>1, <2>2
    <3>2. QED
      BY <3>1, ElementsByIndex
  <2>3. CASE ~(i <= Len(s))
    <3>1. i - Len(s) \in 1 .. Len(t) /\ x = t[i - Len(s)]
      BY <1>1, <2>1, <2>3
    <3>2. QED
      BY <3>1, ElementsByIndex
  <2>4. QED
    BY <2>2, <2>3
<1>3. ASSUME NEW x \in Elements(s) PROVE x \in Elements(u)
  <2>1. PICK i \in 1 .. Len(s) : x = s[i]
    BY ElementsByIndex
  <2>2. i \in 1 .. Len(u) /\ x = u[i]
    BY <1>1, <2>1
  <2>3. QED
    BY <1>1, <2>2, ElementsByIndex
<1>4. ASSUME NEW x \in Elements(t) PROVE x \in Elements(u)
  <2>1. PICK j \in 1 .. Len(t) : x = t[j]
    BY ElementsByIndex
  <2>2. /\ j + Len(s) \in 1 .. Len(s) + Len(t)
        /\ ~(j + Len(s) <= Len(s)) /\ (j + Len(s)) - Len(s) = j
    BY <1>1, <2>1
  <2>3. j + Len(s) \in 1 .. Len(u) /\ u[j + Len(s)] = t[(j + Len(s)) - Len(s)]
    BY <1>1, <2>2
  <2>4. u[j + Len(s)] = x
    BY <2>1, <2>2, <2>3
  <2>5. QED
    BY <1>1, <2>3, <2>4, ElementsByIndex
<1>5. QED
  BY <1>2, <1>3, <1>4 DEF u

LEMMA NoElements == Elements(<<>>) = {}
BY DEF Elements

LEMMA PrefixElements ==
  ASSUME NEW S, NEW s \in Seq(S), NEW t \in Seq(S), Prefix(s, t)
  PROVE  Elements(s) \subseteq Elements(t)
<1>1. Len(s) \in Nat /\ Len(t) \in Nat
  BY LenProperties
<1>2. ASSUME NEW x \in Elements(s) PROVE x \in Elements(t)
  <2>1. PICK i \in 1 .. Len(s) : x = s[i]
    BY ElementsByIndex
  <2>2. i \in 1 .. Len(t) /\ x = t[i]
    BY <1>1, <2>1 DEF Prefix
  <2>3. QED
    BY <2>2, ElementsByIndex
<1>3. QED
  BY <1>2

LEMMA PrefixOfItself == ASSUME NEW S, NEW s \in Seq(S) PROVE Prefix(s, s)
BY LenProperties DEF Prefix

LEMMA PrefixOfConcat ==
  ASSUME NEW S, NEW s \in Seq(S), NEW t \in Seq(S)
  PROVE  Prefix(s, s \o t)
BY ConcatProperties, LenProperties DEF Prefix

LEMMA PrefixOfAppend ==
  ASSUME NEW S, NEW s \in Seq(S), NEW e \in S
  PROVE  Prefix(s, Append(s, e)) /\ e \in Elements(Append(s, e))
<1>1. /\ Append(s, e) \in Seq(S)
      /\ Len(Append(s, e)) = Len(s) + 1
      /\ \A i \in 1 .. Len(s) : Append(s, e)[i] = s[i]
      /\ Append(s, e)[Len(s) + 1] = e
      /\ Len(s) \in Nat
  BY AppendProperties, LenProperties
<1>2. Prefix(s, Append(s, e))
  BY <1>1 DEF Prefix
<1>3. Len(s) + 1 \in 1 .. Len(Append(s, e))
  BY <1>1
<1>4. QED
  BY <1>1, <1>2, <1>3, ElementsByIndex

LEMMA PrefixTransitive ==
  ASSUME NEW S, NEW s \in Seq(S), NEW t \in Seq(S), NEW u \in Seq(S), Prefix(s, t), Prefix(t, u)
  PROVE  Prefix(s, u)
<1>1. Len(s) \in Nat /\ Len(t) \in Nat /\ Len(u) \in Nat
  BY LenProperties
<1>2. \A i \in 1 .. Len(s) : i \in 1 .. Len(t)
  BY <1>1 DEF Prefix
<1>3. QED
  BY <1>1, <1>2 DEF Prefix

LEMMA SubSeqIsPrefix ==
  ASSUME NEW S, NEW s \in Seq(S), NEW m \in 0 .. Len(s)
  PROVE  /\ SubSeq(s, 1, m) \in Seq(S)
         /\ Len(SubSeq(s, 1, m)) = m
         /\ Prefix(SubSeq(s, 1, m), s)
<1>1. Len(s) \in Nat /\ \A i \in 1 .. m : i \in 1 .. Len(s)
  BY LenProperties
<1>2. \A i \in 1 .. m : s[i] \in S
  BY <1>1, ElementOfSeq
<1> DEFINE t == SubSeq(s, 1, m)
<1>3. t \in Seq(S) /\ Len(t) = (IF 1 <= m THEN m - 1 + 1 ELSE 0)
      /\ \A i \in 1 .. m - 1 + 1 : t[i] = s[1 + i - 1]
  BY <1>2, SubSeqProperties, m \in Int, 1 \in Int
<1> HIDE DEF t
<1>4. Len(t) = m
  BY <1>1, <1>3
<1>5. \A i \in 1 .. m : t[i] = s[i]
  BY <1>3
<1>6. QED
  BY <1>1, <1>3, <1>4, <1>5 DEF Prefix, t

(* What two sequences begin with alike.                                    *)
LEMMA AlikeUpTo ==
  ASSUME NEW S, NEW s \in Seq(S), NEW t \in Seq(S),
         NEW m \in 0 .. Len(s), NEW n \in m .. Len(t), \A i \in 1 .. m : s[i] = t[i]
  PROVE  Elements(SubSeq(s, 1, m)) \subseteq Elements(SubSeq(t, 1, n))
<1>1. Len(s) \in Nat /\ Len(t) \in Nat /\ n \in 0 .. Len(t)
  BY LenProperties
<1> DEFINE u == SubSeq(s, 1, m)
           v == SubSeq(t, 1, n)
<1>2. u \in Seq(S) /\ Len(u) = m /\ Prefix(u, s) /\ v \in Seq(S) /\ Len(v) = n /\ Prefix(v, t)
  BY <1>1, SubSeqIsPrefix
<1> HIDE DEF u, v
<1>3. Prefix(u, v)
  <2>1. \A i \in 1 .. m : i \in 1 .. Len(s) /\ i \in 1 .. n
    BY <1>1
  <2>2. QED
    BY <1>1, <1>2, <2>1 DEF Prefix
<1>4. QED
  BY <1>2, <1>3, PrefixElements DEF u, v

LEMMA AppendSorted ==
  ASSUME NEW n \in Nat, NEW s, Sorted(s, n)
  PROVE  Sorted(Append(s, n + 1), n + 1)
<1> DEFINE t == Append(s, n + 1)
<1>1. s \in Seq(1 .. n + 1)
  BY SeqMonotonic DEF Sorted
<1>2. /\ t \in Seq(1 .. n + 1) /\ Len(t) = Len(s) + 1 /\ Len(s) \in Nat
      /\ \A i \in 1 .. Len(s) : t[i] = s[i]
      /\ t[Len(s) + 1] = n + 1
  BY <1>1, AppendProperties, LenProperties
<1>3. \A i \in 1 .. Len(s) : s[i] \in 1 .. n
  BY ElementOfSeq DEF Sorted
<1> HIDE DEF t
<1>4. ASSUME NEW i \in 1 .. Len(t), NEW j \in 1 .. Len(t), i < j PROVE t[i] < t[j]
  <2>1. i \in 1 .. Len(s) /\ t[i] = s[i]
    BY <1>2, <1>4
  <2>2. CASE j = Len(s) + 1
    BY <1>2, <1>3, <2>1, <2>2
  <2>3. CASE j \in 1 .. Len(s)
    BY <1>2, <1>4, <2>1, <2>3 DEF Sorted
  <2>4. QED
    BY <1>2, <2>2, <2>3
<1>5. QED
  BY <1>2, <1>4 DEF Sorted, t

LEMMA PrefixSorted ==
  ASSUME NEW n \in Nat, NEW S, NEW s \in Seq(S), NEW t, Sorted(t, n), Prefix(s, t)
  PROVE  Sorted(s, n)
<1>1. Len(s) \in Nat /\ Len(t) \in Nat /\ t \in Seq(1 .. n) /\ s = [i \in 1 .. Len(s) |-> s[i]]
  BY LenProperties DEF Sorted
<1>2. \A i \in 1 .. Len(s) : i \in 1 .. Len(t) /\ s[i] = t[i]
  BY <1>1 DEF Prefix
<1>3. \A i \in 1 .. Len(s) : s[i] \in 1 .. n
  BY <1>1, <1>2, ElementOfSeq
<1>4. s \in Seq(1 .. n)
  BY <1>1, <1>3, SeqDef
<1>5. QED
  BY <1>2, <1>4 DEF Sorted

LEMMA LaterSorted == ASSUME NEW n \in Nat, NEW s, Sorted(s, n) PROVE Sorted(s, n + 1)
BY SeqMonotonic DEF Sorted

-----------------------------------------------------------------------------
(* The log, by the variables of WriteAheadLog                              *)

Log == written \o buf

(* A synchronous log leaves nothing in the buffer.                         *)
SyncUnbuffered == mode = "sync" => buf = <<>>

LogTypeOK == WalTypeOK(Events)

(* A step of a running log: the files are added to, the log becomes l or   *)
(* loses an end of it, and that only if it is not writable or a fault      *)
(* happens in the step.                                                    *)
Moves(l) ==
  /\ LogTypeOK'
  /\ mode' = mode
  /\ faults' \in {faults, faults + 1}
  /\ Prefix(written, written') /\ synced' \in synced .. Len(written')
  /\ Prefix(Log', l)
  /\ (Writable /\ faults' = faults) => Log' = l

LEMMA RotateMoves ==
  ASSUME LogTypeOK, NEW w \in Seq(Events), NEW b \in Seq(Events), NEW n \in 0 .. MaxMessages,
         Len(b) <= BufCap, Prefix(written, w), Rotate(w, b, n), mode' = mode, running' = running,
         acked' \in SUBSET Events
  PROVE  /\ Moves(w \o b)
         /\ buf' \in {<<>>, b}
         /\ (Writable /\ faults' = faults) => Writable'
<1> DEFINE wb == w \o b
<1>1. /\ w \in Seq(Events) /\ wb \in Seq(Events) /\ written \in Seq(Events) /\ <<>> \in Seq(Events)
      /\ Len(wb) \in Nat /\ Len(w) \in Nat /\ Len(written) \in Nat /\ Len(<<>>) = 0
  BY ConcatProperties, LenProperties, EmptySeq DEF LogTypeOK, WalTypeOK
<1>2. Prefix(w, wb) /\ Prefix(w, w) /\ Prefix(wb, wb)
  BY <1>1, PrefixOfConcat, PrefixOfItself
<1>3. Prefix(written, wb)
  BY <1>1, <1>2, PrefixTransitive
<1>4. w \o <<>> = w /\ wb \o <<>> = wb
  BY <1>1, ConcatEmptySeq
<1>5. faults \in 0 .. MaxFaults /\ MaxFaults \in Nat /\ BufCap \in Nat /\ MaxMessages \in Nat \ {0}
      /\ sticky \in BOOLEAN /\ mode \in Modes /\ running \in BOOLEAN /\ synced \in 0 .. Len(written)
  BY MaxFaultsAssumption, BufCapAssumption, MaxMessagesAssumption DEF LogTypeOK, WalTypeOK
<1> HIDE DEF wb
<1>a. (faults' = faults /\ RotateOpens(w, b)) \/ (faults' = faults + 1 /\ faults < MaxFaults)
  <2>1. RotateOpens(w, b) => faults' = faults
    BY DEF RotateOpens
  <2>2. RotateOpens(w, b) \/ Fault
    BY DEF Rotate, RotateFlushFails, RotateSyncFails, RotateOpenFails
  <2>3. QED
    BY <2>1, <2>2 DEF Fault
<1>b. ASSUME RotateOpens(w, b), Writable PROVE Log' = wb /\ Writable'
  BY <1>b, <1>4 DEF RotateOpens, OldFileTakes, NextFileOpens, Log, wb, Writable
<1>c. faults' # faults + 1 \/ faults' # faults
  BY <1>5
<1>6. /\ written' \in {w, wb} /\ buf' \in {<<>>, b} /\ synced' \in {synced, Len(written')}
      /\ \/ file' = "open" /\ count' = 0
         \/ file' = "closed" /\ count' = n
      /\ sticky' \in BOOLEAN
  <2>1. CASE RotateOpens(w, b)
    BY <2>1, <1>4 DEF RotateOpens, OldFileTakes, NextFileOpens, wb
  <2>2. CASE RotateFlushFails(w, b)
    BY <2>2, <1>4 DEF RotateFlushFails, NextFileOpens, wb
  <2>3. CASE RotateSyncFails(w, b)
    BY <2>3, <1>4 DEF RotateSyncFails, NextFileOpens, wb
  <2>4. CASE RotateOpenFails(w, b, n)
    BY <2>4, <1>4, <1>5 DEF RotateOpenFails, OldFileTakes, wb
  <2>5. QED
    BY <2>1, <2>2, <2>3, <2>4 DEF Rotate
<1>d. Log' \in {w, wb}
  <2>1. CASE buf' = <<>>
    BY <2>1, <1>4, <1>6 DEF Log
  <2>2. CASE buf' # <<>>
    <3>1. RotateOpenFails(w, b, n)
      BY <2>2 DEF Rotate, RotateOpens, RotateFlushFails, RotateSyncFails, NextFileOpens
    <3>2. ~Writable /\ buf' = b /\ written' = w
      BY <3>1, <2>2 DEF RotateOpenFails, OldFileTakes
    <3>3. QED
      BY <3>2 DEF Log, wb
  <2>3. QED
    BY <2>1, <2>2
<1>e. (Writable /\ faults' = faults) => (Log' = wb /\ Writable')
  BY <1>a, <1>b, <1>c
<1>7. Prefix(written, written') /\ written' \in Seq(Events)
  BY <1>1, <1>3, <1>6
<1>8. Len(written') \in Nat /\ Len(written) <= Len(written')
  BY <1>7, LenProperties DEF Prefix
<1>9. synced' \in synced .. Len(written') /\ synced' \in 0 .. Len(written')
  BY <1>5, <1>6, <1>8, <1>1
<1>10. faults' \in 0 .. MaxFaults
  BY <1>5, <1>a
<1>11. buf' \in Seq(Events) /\ Len(buf') <= BufCap
  <2>1. CASE buf' = <<>>
    BY <2>1, <1>1, <1>5
  <2>2. CASE buf' = b
    BY <2>2
  <2>3. QED
    BY <2>1, <2>2, <1>6
<1>12. count' \in 0 .. MaxMessages /\ (count' = MaxMessages => file' = "closed")
  BY <1>5, <1>6
<1>13. LogTypeOK'
  BY <1>5, <1>6, <1>7, <1>9, <1>10, <1>11, <1>12 DEF LogTypeOK, WalTypeOK
<1>14. Prefix(Log', wb)
  BY <1>2, <1>d
<1>15. QED
  BY <1>a, <1>e, <1>6, <1>7, <1>9, <1>13, <1>14 DEF Moves, wb

(* What a Write may do, one that is refused included.                      *)
WritesTo(e) ==
  /\ Moves(Append(Log, e))
  /\ SyncUnbuffered'
  /\ acked' \subseteq acked \cup {e}
  /\ mode = "sync" => acked' \subseteq acked \cup Durable'
  /\ (Writable /\ faults' = faults) => Writable'
  /\ running /\ running'

LEMMA LogTypes ==
  ASSUME LogTypeOK
  PROVE  /\ written \in Seq(Events) /\ buf \in Seq(Events) /\ Log \in Seq(Events)
         /\ Len(written) \in Nat /\ synced \in 0 .. Len(written)
         /\ faults \in 0 .. MaxFaults /\ MaxFaults \in Nat
         /\ count \in 0 .. MaxMessages /\ MaxMessages \in Nat \ {0}
         /\ Len(buf) \in 0 .. BufCap /\ BufCap \in Nat \ {0}
         /\ acked \in SUBSET Events
BY ConcatProperties, LenProperties, MaxFaultsAssumption, BufCapAssumption, MaxMessagesAssumption
   DEF LogTypeOK, WalTypeOK, Log

LEMMA AppendKeeps ==
  ASSUME LogTypeOK, NEW e \in Events
  PROVE  Elements(Log) \subseteq Elements(Append(Log, e)) /\ e \in Elements(Append(Log, e))
BY LogTypes, PrefixOfAppend, AppendProperties, PrefixElements

LEMMA SyncWriteWrites ==
  ASSUME LogTypeOK, SyncUnbuffered, NEW e \in Events, SyncWrite(e)
  PROVE  WritesTo(e)
<1>1. /\ mode = "sync" /\ mode' = mode /\ buf = <<>> /\ buf' = <<>> /\ Writable /\ running /\ running'
      /\ written' = Append(written, e) /\ synced' = Len(written') /\ acked' = acked \cup {e}
      /\ sticky' = sticky /\ file' \in {"open", "closed"}
  BY DEF SyncWrite, SyncUnbuffered, Writable
<1>2. Log' = Append(written, e) /\ Log = written
  BY <1>1, LogTypes, ConcatEmptySeq, AppendProperties DEF Log
<1>3. /\ Prefix(written, written') /\ e \in Elements(written') /\ written' \in Seq(Events)
      /\ Len(written') = Len(written) + 1
  BY <1>1, LogTypes, PrefixOfAppend, AppendProperties
<1>4. synced' \in synced .. Len(written') /\ synced' \in 0 .. Len(written')
  BY <1>1, <1>3, LogTypes
<1>5. e \in Durable' /\ acked' \subseteq acked \cup Durable'
  <2>1. SubSeq(written', 1, Len(written')) = written'
    BY <1>3, SubSeqFull
  <2>2. Durable' = Elements(written')
    BY <1>1, <2>1 DEF Durable
  <2>3. QED
    BY <1>1, <1>3, <2>2
<1>6. (faults' = faults /\ file' = "open") \/ (faults' = faults + 1 /\ faults < MaxFaults)
  BY <1>1 DEF SyncWrite, Fault, Writable
<1>7. count' \in 0 .. MaxMessages /\ (count' = MaxMessages => file' = "closed")
  <2>1. CASE count + 1 < MaxMessages /\ count' = count + 1
    BY <2>1, LogTypes
  <2>2. CASE count' = 0
    BY <2>2, LogTypes
  <2>3. CASE count' = MaxMessages /\ file' = "closed"
    BY <2>3, LogTypes
  <2>4. QED
    BY <2>1, <2>2, <2>3 DEF SyncWrite
<1>8. faults' \in 0 .. MaxFaults
  BY <1>6, LogTypes
<1>9. LogTypeOK'
  BY <1>1, <1>3, <1>4, <1>7, <1>8, LogTypes, EmptySeq DEF LogTypeOK, WalTypeOK
<1>10. Prefix(Log', Append(Log, e))
  BY <1>1, <1>2, <1>3, PrefixOfItself
<1>11. Moves(Append(Log, e))
  BY <1>1, <1>2, <1>3, <1>4, <1>6, <1>9, <1>10 DEF Moves
<1>12. (Writable /\ faults' = faults) => Writable'
  <2>1. faults' = faults => file' = "open"
    BY <1>6, LogTypes
  <2>2. QED
    BY <2>1, <1>1 DEF Writable
<1>13. QED
  BY <1>1, <1>5, <1>11, <1>12 DEF WritesTo, SyncUnbuffered

LEMMA SyncWriteFailsWrites ==
  ASSUME LogTypeOK, SyncUnbuffered, NEW e \in Events, SyncWriteFails(e)
  PROVE  WritesTo(e)
<1>1. /\ mode = "sync" /\ mode' = mode /\ buf = <<>> /\ buf' = <<>> /\ running /\ running'
      /\ synced' = synced /\ acked' = acked /\ file' = file /\ count' = count
  BY DEF SyncWriteFails, SyncUnbuffered
<1>2. written' \in {written, Append(written, e)} /\ sticky' \in BOOLEAN
  BY DEF SyncWriteFails, LogTypeOK, WalTypeOK
<1>3. Log = written /\ Log' = written'
  BY <1>1, <1>2, LogTypes, ConcatEmptySeq, AppendProperties DEF Log
<1>4. /\ Prefix(written, written') /\ written' \in Seq(Events) /\ Len(written') \in Nat
      /\ Prefix(Log', Append(Log, e))
  <2>1. /\ Prefix(written, written) /\ Prefix(written, Append(written, e))
        /\ Append(written, e) \in Seq(Events) /\ written \in Seq(Events)
        /\ Prefix(Append(written, e), Append(written, e))
    BY LogTypes, PrefixOfAppend, PrefixOfItself, AppendProperties
  <2>2. QED
    BY <1>2, <1>3, <2>1, LenProperties
<1>5. Len(written) <= Len(written')
  BY <1>4 DEF Prefix
<1>6. synced' \in synced .. Len(written') /\ synced' \in 0 .. Len(written')
  BY <1>1, <1>4, <1>5, LogTypes
<1>7. (~Writable /\ faults' = faults) \/ (faults' = faults + 1 /\ faults < MaxFaults)
  BY DEF SyncWriteFails, Fault
<1>8. faults' \in 0 .. MaxFaults /\ ~(Writable /\ faults' = faults)
  BY <1>7, LogTypes
<1>9. LogTypeOK'
  BY <1>1, <1>2, <1>4, <1>6, <1>8, LogTypes, EmptySeq DEF LogTypeOK, WalTypeOK
<1>10. Moves(Append(Log, e))
  BY <1>1, <1>4, <1>6, <1>7, <1>8, <1>9 DEF Moves
<1>11. QED
  BY <1>1, <1>8, <1>10 DEF WritesTo, SyncUnbuffered

LEMMA SpillMakesRoom ==
  ASSUME LogTypeOK, NEW e \in Events
  PROVE  /\ written \o Spilled \in Seq(Events) /\ Prefix(written, written \o Spilled)
         /\ Append(Kept, e) \in Seq(Events) /\ Len(Append(Kept, e)) <= BufCap
         /\ (written \o Spilled) \o Append(Kept, e) = Append(Log, e)
<1>1. <<>> \in Seq(Events) /\ Len(<<>>) = 0 /\ <<e>> \in Seq(Events)
  BY EmptySeq
<1>2. CASE Len(buf) < BufCap
  <2>1. Spilled = <<>> /\ Kept = buf /\ written \o <<>> = written
    BY <1>2, LogTypes, ConcatEmptySeq DEF Spilled, Kept
  <2>2. Append(buf, e) = buf \o <<e>> /\ Append(Log, e) = Log \o <<e>>
    BY LogTypes, AppendIsConcat
  <2>a. written \in Seq(Events) /\ buf \in Seq(Events)
    BY LogTypes
  <2>b. \A s \in Seq(Events) : (written \o buf) \o s = written \o (buf \o s)
    BY <2>a, ConcatAssociative
  <2>3. Append(Log, e) = written \o Append(buf, e)
    BY <1>1, <2>2, <2>b DEF Log
  <2>4. Append(buf, e) \in Seq(Events) /\ Len(Append(buf, e)) = Len(buf) + 1
    BY LogTypes, AppendProperties
  <2>5. Len(Append(buf, e)) <= BufCap
    BY <1>2, <2>4, LogTypes
  <2>6. QED
    BY <2>1, <2>3, <2>4, <2>5, LogTypes, PrefixOfItself
<1>3. CASE ~(Len(buf) < BufCap)
  <2>1. Spilled = buf /\ Kept = <<>>
    BY <1>3 DEF Spilled, Kept
  <2>2. Append(<<>>, e) = <<e>> /\ Len(<<e>>) = 1 /\ Append(Log, e) = Log \o <<e>>
    BY LogTypes, AppendIsConcat
  <2>3. 1 <= BufCap
    BY LogTypes
  <2>4. QED
    BY <1>1, <2>1, <2>2, <2>3, LogTypes, PrefixOfConcat DEF Log
<1>4. QED
  BY <1>2, <1>3

LEMMA BatchedWriteWrites ==
  ASSUME LogTypeOK, NEW e \in Events, BatchedWrite(e)
  PROVE  WritesTo(e)
<1>1. /\ mode = "batched" /\ mode' = mode /\ running /\ running' /\ acked' = acked \cup {e}
      /\ written' = written \o Spilled /\ buf' = Append(Kept, e)
      /\ file' = file /\ sticky' = sticky /\ synced' = synced /\ faults' = faults
  BY DEF BatchedWrite
<1>2. count' = count + 1 /\ count + 1 < MaxMessages
  BY DEF BatchedWrite
<1>3. /\ written' \in Seq(Events) /\ Prefix(written, written')
      /\ buf' \in Seq(Events) /\ Len(buf') <= BufCap /\ Log' = Append(Log, e)
  BY <1>1, SpillMakesRoom DEF Log
<1>4. Len(written') \in Nat /\ Len(written) <= Len(written')
  BY <1>3, LenProperties DEF Prefix
<1>5. synced' \in synced .. Len(written') /\ synced' \in 0 .. Len(written')
  BY <1>1, <1>4, LogTypes
<1>6. count' \in 0 .. MaxMessages /\ count' # MaxMessages
  BY <1>2, LogTypes
<1>7. LogTypeOK'
  BY <1>1, <1>3, <1>5, <1>6, LogTypes DEF LogTypeOK, WalTypeOK
<1>8. Prefix(Log', Append(Log, e))
  BY <1>3, LogTypes, AppendProperties, PrefixOfItself
<1>9. Moves(Append(Log, e))
  BY <1>1, <1>3, <1>5, <1>7, <1>8 DEF Moves
<1>10. QED
  BY <1>1, <1>9 DEF WritesTo, SyncUnbuffered, Writable

LEMMA BatchedWriteRotatesWrites ==
  ASSUME LogTypeOK, NEW e \in Events, BatchedWriteRotates(e)
  PROVE  WritesTo(e)
<1>1. /\ mode = "batched" /\ mode' = mode /\ running /\ running' = running /\ acked' = acked \cup {e}
      /\ Rotate(written \o Spilled, Append(Kept, e), MaxMessages)
  BY DEF BatchedWriteRotates
<1>2. MaxMessages \in 0 .. MaxMessages
  BY LogTypes
<1>3. /\ Moves((written \o Spilled) \o Append(Kept, e))
      /\ (Writable /\ faults' = faults) => Writable'
  BY <1>1, <1>2, SpillMakesRoom, RotateMoves, LogTypes
<1>4. QED
  BY <1>1, <1>3, SpillMakesRoom DEF WritesTo, SyncUnbuffered

LEMMA BatchedWriteFailsWrites ==
  ASSUME LogTypeOK, NEW e \in Events, BatchedWriteFails
  PROVE  WritesTo(e)
<1>1. /\ mode = "batched" /\ mode' = mode /\ running /\ running' /\ acked' = acked /\ file' = file
      /\ buf' = buf /\ written' = written /\ synced' = synced /\ count' = count
      /\ sticky' \in BOOLEAN
  BY DEF BatchedWriteFails, LogTypeOK, WalTypeOK
<1>2. (~Writable /\ faults' = faults) \/ (faults' = faults + 1 /\ faults < MaxFaults)
  BY DEF BatchedWriteFails, Fault, Writable
<1>3. faults' \in 0 .. MaxFaults /\ ~(Writable /\ faults' = faults)
  BY <1>2, LogTypes
<1>4. LogTypeOK'
  BY <1>1, <1>3 DEF LogTypeOK, WalTypeOK
<1>5. Log' = Log
  BY <1>1 DEF Log
<1>6. Prefix(Log', Append(Log, e)) /\ Prefix(written, written')
  BY <1>1, <1>5, LogTypes, PrefixOfAppend, PrefixOfItself
<1>7. synced' \in synced .. Len(written')
  BY <1>1, LogTypes
<1>8. Moves(Append(Log, e))
  BY <1>1, <1>2, <1>3, <1>4, <1>6, <1>7 DEF Moves
<1>9. QED
  BY <1>1, <1>3, <1>8 DEF WritesTo, SyncUnbuffered

(* Every outcome of a Write, in both modes.                                *)
LEMMA WriteWrites ==
  ASSUME LogTypeOK, SyncUnbuffered, NEW e \in Events, WalWrite(e) \/ WalWriteFails(e)
  PROVE  WritesTo(e)
BY SyncWriteWrites, SyncWriteFailsWrites, BatchedWriteWrites, BatchedWriteRotatesWrites,
   BatchedWriteFailsWrites DEF WalWrite, WalWriteFails

LEMMA FlushLockedMoves ==
  ASSUME LogTypeOK, FlushLocked, mode' = mode, running' \in BOOLEAN, acked' = acked, count' = count,
         file' \in {file, "closed"}
  PROVE  /\ Moves(Log)
         /\ buf' \in {<<>>, buf}
         /\ (Writable /\ faults' = faults) => (~sticky' /\ Durable' = Elements(Log'))
<1>1. Log \in Seq(Events) /\ Log \o <<>> = Log /\ <<>> \in Seq(Events) /\ Len(<<>>) = 0
  BY LogTypes, ConcatEmptySeq, EmptySeq
<1>2. /\ \/ written' = Log /\ buf' = <<>>
         \/ written' = written /\ buf' = buf
      /\ synced' \in {synced, Len(written')}
      /\ sticky' \in BOOLEAN
      /\ (Writable /\ ~Fault) => (~sticky' /\ written' = Log /\ buf' = <<>> /\ synced' = Len(written'))
  <2>1. sticky \in BOOLEAN
    BY DEF LogTypeOK, WalTypeOK
  <2>2. CASE Writable /\ ~Fault
    <3>1. /\ Writable
          /\ written' = written \o buf /\ synced' = Len(written') /\ buf' = <<>>
          /\ UNCHANGED <<sticky, faults>>
      BY <2>2 DEF FlushLocked
    <3>2. sticky = FALSE
      BY <2>1, <2>2 DEF Writable
    <3>3. QED
      BY <3>1, <3>2 DEF Log
  <2>3. CASE ~(Writable /\ ~Fault)
    BY <2>1, <2>3 DEF FlushLocked, Log
  <2>4. QED
    BY <2>2, <2>3
<1>3. (faults' = faults) \/ (faults' = faults + 1 /\ faults < MaxFaults)
  BY DEF FlushLocked, Fault
<1>4. /\ faults' \in 0 .. MaxFaults
      /\ faults' = faults => ~Fault
  BY <1>3, LogTypes DEF Fault
<1>5. Log' = Log
  BY <1>1, <1>2 DEF Log
<1>6. /\ Prefix(written, written') /\ written' \in Seq(Events)
      /\ buf' \in Seq(Events) /\ Len(buf') <= BufCap
  <2>1. CASE written' = Log /\ buf' = <<>>
    BY <2>1, <1>1, LogTypes, PrefixOfConcat DEF Log
  <2>2. CASE written' = written /\ buf' = buf
    BY <2>2, LogTypes, PrefixOfItself
  <2>3. QED
    BY <1>2, <2>1, <2>2
<1>7. Len(written') \in Nat /\ Len(written) <= Len(written')
  BY <1>6, LenProperties DEF Prefix
<1>8. synced' \in synced .. Len(written') /\ synced' \in 0 .. Len(written')
  BY <1>2, <1>7, LogTypes
<1>9. LogTypeOK'
  BY <1>2, <1>4, <1>6, <1>8 DEF LogTypeOK, WalTypeOK
<1>10. Moves(Log)
  BY <1>1, <1>3, <1>5, <1>6, <1>8, <1>9, PrefixOfItself DEF Moves
<1>11. (Writable /\ faults' = faults) => Durable' = Elements(Log')
  BY <1>1, <1>2, <1>4, <1>5, SubSeqFull DEF Durable
<1>12. QED
  BY <1>2, <1>4, <1>10, <1>11

(* The log between the Writes: flushes and rotations by its own goroutines.*)
LEMMA TicksMove ==
  ASSUME LogTypeOK, SyncUnbuffered, Flush \/ RotationTick
  PROVE  /\ Moves(Log) /\ SyncUnbuffered' /\ acked' = acked /\ running /\ running'
         /\ (Writable /\ faults' = faults) => Writable'
<1>1. running \in BOOLEAN /\ running /\ mode' = mode /\ running' = running /\ acked' = acked
  BY DEF Flush, RotationTick, LogTypeOK, WalTypeOK
<1>2. CASE Flush
  <2>1. FlushLocked /\ file' = file /\ count' = count
    BY <1>2 DEF Flush
  <2>2. /\ Moves(Log) /\ buf' \in {<<>>, buf}
        /\ (Writable /\ faults' = faults) => ~sticky'
    BY <1>1, <2>1, FlushLockedMoves
  <2>3. QED
    BY <1>1, <2>1, <2>2 DEF SyncUnbuffered, Writable
<1>3. CASE RotationTick
  <2>1. Rotate(written, buf, count)
    BY <1>3 DEF RotationTick
  <2>2. Prefix(written, written) /\ Len(buf) <= BufCap
    BY LogTypes, PrefixOfItself
  <2>3. /\ Moves(written \o buf) /\ buf' \in {<<>>, buf}
        /\ (Writable /\ faults' = faults) => Writable'
    BY <1>1, <2>1, <2>2, LogTypes, RotateMoves
  <2>4. QED
    BY <1>1, <2>3 DEF SyncUnbuffered, Log
<1>4. QED
  BY <1>2, <1>3

LEMMA StopMoves ==
  ASSUME LogTypeOK, SyncUnbuffered, WalStop
  PROVE  /\ Moves(Log) /\ SyncUnbuffered' /\ acked' = acked /\ ~running' /\ file' = "closed"
         /\ (mode = "batched" /\ Writable /\ faults' = faults) => Durable' = Elements(Log')
<1>1. mode' = mode /\ running' = FALSE /\ file' = "closed" /\ acked' = acked /\ count' = count
  BY DEF WalStop
<1>2. CASE mode = "batched"
  <2>1. FlushLocked
    BY <1>2 DEF WalStop
  <2>2. QED
    BY <1>1, <1>2, <2>1, FlushLockedMoves DEF SyncUnbuffered
<1>3. CASE mode # "batched"
  <2>1. UNCHANGED <<sticky, buf, written, synced, faults>>
    BY <1>3 DEF WalStop
  <2>2. Log' = Log /\ Prefix(Log, Log) /\ Prefix(written, written)
    BY <2>1, LogTypes, PrefixOfItself DEF Log
  <2>3. synced' \in synced .. Len(written')
    BY <2>1, LogTypes
  <2>4. LogTypeOK'
    BY <1>1, <2>1 DEF LogTypeOK, WalTypeOK
  <2>5. QED
    BY <1>1, <1>3, <2>1, <2>2, <2>3, <2>4 DEF Moves, SyncUnbuffered
<1>4. QED
  BY <1>2, <1>3

-----------------------------------------------------------------------------
(* The inductive invariant of the log in its process                       *)

ProcTypeOK ==
  /\ phase \in {"boot", "connect", "serve", "stop", "close", "down"}
  /\ starts \in 0 .. MaxStarts
  /\ crashed \in BOOLEAN

(* What was appended is the events in order, some refused or lost.         *)
AppendedInOrder == Sorted(Log, arrived)

(* The log runs from the start of the process to the end of its shutdown.  *)
RunsWhileUp ==
  /\ running <=> phase # "down"
  /\ phase = "down" => file = "closed"

(* As long as no I/O operation has failed and the process has not crashed, *)
(* the log holds what it accepted, and a shutdown has put it on the disk.  *)
Faultless ==
  faults = 0 /\ ~crashed
    => /\ acked \subseteq Elements(Log)
       /\ phase # "down" => Writable
       /\ phase = "down" => acked \subseteq Durable

LogInv ==
  /\ LogTypeOK /\ ProcTypeOK /\ arrived \in 0 .. MaxEvents
  /\ SyncUnbuffered
  /\ AppendedInOrder
  /\ SyncIsDurable
  /\ RunsWhileUp
  /\ Faultless

(* The steps, by what they do to the log.                                  *)
WritesLog ==
  /\ phase # "down" /\ arrived < MaxEvents /\ arrived' = arrived + 1
  /\ WalWrite(arrived + 1) \/ WalWriteFails(arrived + 1)
  /\ UNCHANGED procVars

TicksLog == phase # "down" /\ (Flush \/ RotationTick) /\ UNCHANGED <<arrived, procVars>>

StopsLog == phase = "close" /\ phase' = "down" /\ WalStop /\ UNCHANGED <<arrived, starts, crashed>>

RestartsLog(n, m) ==
  /\ WalRestart(n, m)
  /\ starts < MaxStarts /\ starts' = starts + 1 /\ phase' = "boot" /\ UNCHANGED arrived
  /\ (n = Len(written) /\ m = synced) \/ m = n
  /\ (n = Len(written) /\ phase = "down" /\ crashed' = crashed) \/ crashed' = TRUE

LeavesLog ==
  /\ UNCHANGED <<mode, running, file, sticky, buf, written, synced, count, acked, arrived, starts, crashed>>
  /\ Fault \/ UNCHANGED faults
  /\ phase' \in {"boot", "connect", "serve", "stop", "close", "down"}
  /\ phase' = "down" <=> phase = "down"

LogMoves ==
  \/ WritesLog \/ TicksLog \/ StopsLog \/ LeavesLog
  \/ \E n \in synced .. Len(written) : \E m \in synced .. n : RestartsLog(n, m)

LEMMA LogView ==
  ASSUME LogTypeOK, ProcTypeOK, [StorageNext]_storageVars
  PROVE  LogMoves
<1> USE DEF walVars, writerVars, handlerVars, flushVars, connectVars, errVars, procVars
<1>0. phase \in {"boot", "connect", "serve", "stop", "close", "down"}
  BY DEF ProcTypeOK
<1>1. CASE UNCHANGED storageVars
  BY <1>0, <1>1 DEF storageVars, LogMoves, LeavesLog
<1>2. CASE MainRuns
  <2>1. CASE MainConnects
    BY <1>2, <2>1 DEF MainRuns, MainConnects, ConnectDials, LogMoves, LeavesLog
  <2>2. CASE MainGivesUp
    BY <1>2, <2>2 DEF MainRuns, MainGivesUp, ConnectFails, LogMoves, LeavesLog
  <2>3. CASE MainListens
    BY <1>2, <2>3 DEF MainRuns, MainListens, LogMoves, LeavesLog
  <2>4. CASE WriterStops
    BY <1>2, <2>4 DEF MainRuns, WriterStops, LogMoves, LeavesLog
  <2>5. CASE LogStops
    BY <1>2, <2>5 DEF MainRuns, LogStops, LogMoves, StopsLog
  <2>6. QED
    BY <1>2, <2>1, <2>2, <2>3, <2>4, <2>5 DEF MainRuns
<1>3. CASE StopBegins
  BY <1>3 DEF StopBegins, LogMoves, LeavesLog
<1>4. ASSUME NEW h \in Handlers, Up, Handler(h) PROVE LogMoves
  <2>1. CASE WriteLogged(h) \/ WriteRefused(h)
    BY <1>4, <2>1 DEF Up, WriteLogged, WriteRefused, LogMoves, WritesLog
  <2>2. CASE WriteBatched(h)
    BY <1>0, <1>4, <2>2 DEF Up, WriteBatched, LogMoves, LeavesLog
  <2>3. QED
    BY <1>4, <2>1, <2>2 DEF Handler
<1>5. ASSUME NEW f \in Flushers, Flusher(f) PROVE LogMoves
  BY <1>0, <1>5 DEF Flusher, Up, FlushStep, FlushTakes, FlushFindsNothing, FlushChecks, FlushSkips,
                    FlushWrites, FlushFails, TickerStops, LogMoves, LeavesLog
<1>6. ASSUME NEW k \in Connectors, Connector(k) PROVE LogMoves
  BY <1>0, <1>6 DEF Connector, Up, ConnectRuns, ConnectMarks, ReplayReads, ReplayMisses, ReplayWrites,
                    ReplayFails, ReplayEnds, LogMoves, LeavesLog
<1>7. CASE LoopRuns
  BY <1>0, <1>7 DEF LoopRuns, Up, LoopWakes, LoopDials, LoopDialFails, LoopStops, ConnectDials,
                    ConnectFails, LogMoves, LeavesLog
<1>8. CASE LogFlushes \/ LogRotates
  BY <1>8 DEF LogFlushes, LogRotates, Up, LogMoves, TicksLog
<1>9. synced \in 0 .. Len(written) /\ Len(written) \in Nat
  BY LogTypes
<1>10. Len(written) \in synced .. Len(written) /\ synced \in synced .. Len(written)
  BY <1>9
<1>11. CASE Restart
  <2>1. RestartsLog(Len(written), synced)
    BY <1>11 DEF Restart, StartsWith, RestartsLog
  <2>2. QED
    BY <1>10, <2>1 DEF LogMoves
<1>12. CASE ProcessCrash
  <2>1. RestartsLog(Len(written), synced)
    BY <1>12 DEF ProcessCrash, StartsWith, RestartsLog
  <2>2. QED
    BY <1>10, <2>1 DEF LogMoves
<1>13. CASE MachineCrash
  <2>1. PICK n \in synced .. Len(written) : StartsWith(n, n)
    BY <1>13 DEF MachineCrash
  <2>2. RestartsLog(n, n)
    BY <1>13, <2>1 DEF MachineCrash, StartsWith, RestartsLog
  <2>3. n \in synced .. n
    BY <1>9
  <2>4. QED
    BY <2>2, <2>3 DEF LogMoves
<1>14. CASE StorageOver
  BY <1>1, <1>14 DEF StorageOver
<1>15. QED
  BY <1>1, <1>2, <1>3, <1>4, <1>5, <1>6, <1>7, <1>8, <1>11, <1>12, <1>13, <1>14 DEF StorageNext

(* While the log runs, what is on the disk stays there.                    *)
LEMMA DurableGrows ==
  ASSUME LogTypeOK, LogTypeOK', Prefix(written, written'), synced' \in synced .. Len(written')
  PROVE  Durable \subseteq Durable'
<1>1. /\ written \in Seq(Events) /\ written' \in Seq(Events)
      /\ Len(written) \in Nat /\ Len(written') \in Nat /\ synced \in 0 .. Len(written)
  BY LenProperties DEF LogTypeOK, WalTypeOK
<1>2. \A i \in 1 .. synced : i \in 1 .. Len(written)
  BY <1>1
<1>3. \A i \in 1 .. synced : written[i] = written'[i]
  BY <1>2 DEF Prefix
<1>4. QED
  BY <1>1, <1>3, AlikeUpTo DEF Durable

LEMMA DurableIsLogged == ASSUME LogTypeOK PROVE Durable \subseteq Elements(written) /\ Elements(written) \subseteq Elements(Log)
<1>1. SubSeq(written, 1, synced) \in Seq(Events) /\ Prefix(SubSeq(written, 1, synced), written)
  BY LogTypes, SubSeqIsPrefix
<1>2. Durable \subseteq Elements(written)
  BY <1>1, LogTypes, PrefixElements DEF Durable
<1>3. Elements(Log) = Elements(written) \cup Elements(buf)
  BY LogTypes, ElementsOfConcat DEF Log
<1>4. QED
  BY <1>2, <1>3

LEMMA LogInit == StorageInit => LogInv
<1> SUFFICES ASSUME StorageInit PROVE LogInv
  OBVIOUS
<1>1. /\ mode \in Modes /\ running = TRUE /\ file = "open" /\ sticky = FALSE
      /\ buf = <<>> /\ written = <<>> /\ synced = 0 /\ count = 0
      /\ faults = 0 /\ acked = {}
      /\ phase = "boot" /\ starts = 0 /\ crashed = FALSE /\ arrived = 0
  BY DEF StorageInit, WalInit, WriterInit
<1>2. /\ MaxFaults \in Nat /\ BufCap \in Nat \ {0} /\ MaxMessages \in Nat \ {0}
      /\ MaxEvents \in Nat /\ MaxStarts \in Nat
  BY MaxFaultsAssumption, BufCapAssumption, MaxMessagesAssumption, MaxEventsAssumption, MaxStartsAssumption
<1>3. <<>> \in Seq(Events) /\ Len(<<>>) = 0 /\ <<>> \in Seq(1 .. 0) /\ <<>> \o <<>> = <<>>
  BY EmptySeq, ConcatEmptySeq
<1>4. LogTypeOK
  <2>1. Len(buf) <= BufCap /\ synced \in 0 .. Len(written)
    BY <1>1, <1>2, <1>3
  <2>2. count \in 0 .. MaxMessages /\ count # MaxMessages /\ faults \in 0 .. MaxFaults
    BY <1>1, <1>2
  <2>3. QED
    BY <1>1, <1>3, <2>1, <2>2 DEF LogTypeOK, WalTypeOK
<1>5. ProcTypeOK /\ arrived \in 0 .. MaxEvents
  <2>1. 0 \in 0 .. MaxStarts /\ 0 \in 0 .. MaxEvents
    BY <1>2
  <2>2. QED
    BY <1>1, <2>1 DEF ProcTypeOK
<1>6. AppendedInOrder
  <2>1. Log = <<>>
    BY <1>1, <1>3 DEF Log
  <2>2. Sorted(<<>>, 0)
    BY <1>3 DEF Sorted
  <2>3. QED
    BY <1>1, <2>1, <2>2 DEF AppendedInOrder
<1>7. QED
  BY <1>1, <1>4, <1>5, <1>6
     DEF LogInv, SyncUnbuffered, SyncIsDurable, RunsWhileUp, Faultless, Writable

(* A Write, accepted or refused.                                           *)
LEMMA WriteKeepsLogInv == LogInv /\ WritesLog => LogInv'
<1> SUFFICES ASSUME LogInv, WritesLog PROVE LogInv'
  OBVIOUS
<1>1. /\ LogTypeOK /\ ProcTypeOK /\ arrived \in 0 .. MaxEvents /\ SyncUnbuffered /\ AppendedInOrder
      /\ SyncIsDurable /\ RunsWhileUp /\ Faultless
  BY DEF LogInv
<1>2. /\ phase # "down" /\ phase' = phase /\ arrived < MaxEvents /\ arrived' = arrived + 1
      /\ WalWrite(arrived + 1) \/ WalWriteFails(arrived + 1)
      /\ crashed' = crashed /\ starts' = starts
  BY DEF WritesLog, procVars
<1> DEFINE e == arrived + 1
           l == Append(Log, e)
<1>3. arrived \in Nat /\ e \in Nat /\ e \in Events /\ e \in 0 .. MaxEvents
  BY <1>1, <1>2, MaxEventsAssumption DEF Events
<1>4. WritesTo(e)
  BY <1>1, <1>2, <1>3, WriteWrites
<1> HIDE DEF e
<1>5. /\ Moves(l) /\ SyncUnbuffered' /\ acked' \subseteq acked \cup {e}
      /\ mode = "sync" => acked' \subseteq acked \cup Durable'
      /\ (Writable /\ faults' = faults) => Writable'
      /\ running /\ running'
  BY <1>4 DEF WritesTo
<1>6. /\ LogTypeOK' /\ mode' = mode /\ faults' \in {faults, faults + 1}
      /\ Prefix(written, written') /\ synced' \in synced .. Len(written')
      /\ Prefix(Log', l) /\ ((Writable /\ faults' = faults) => Log' = l)
  BY <1>5 DEF Moves
<1>7. ProcTypeOK' /\ arrived' \in 0 .. MaxEvents
  BY <1>1, <1>2, <1>3 DEF ProcTypeOK, e
<1>8. AppendedInOrder'
  <2>1. Log' \in Seq(Events)
    BY <1>6, ConcatProperties DEF LogTypeOK, WalTypeOK, Log
  <2>2. Sorted(l, e)
    BY <1>1, <1>3, AppendSorted DEF AppendedInOrder, e
  <2>3. Sorted(Log', e)
    BY <1>3, <1>6, <2>1, <2>2, PrefixSorted
  <2>4. QED
    BY <1>2, <2>3 DEF AppendedInOrder, e
<1>9. SyncIsDurable'
  BY <1>1, <1>5, <1>6, DurableGrows DEF SyncIsDurable
<1>10. RunsWhileUp'
  BY <1>2, <1>5 DEF RunsWhileUp
<1>11. Faultless'
  <2> SUFFICES ASSUME faults' = 0, ~crashed' PROVE acked' \subseteq Elements(Log)' /\ Writable'
    BY <1>2 DEF Faultless
  <2>1. faults \in Nat
    BY <1>1, LogTypes
  <2>2. faults = 0 /\ faults' = faults
    BY <1>6, <2>1
  <2>3. acked \subseteq Elements(Log) /\ Writable
    BY <1>1, <1>2, <2>2 DEF Faultless
  <2>4. Log' = l /\ Writable'
    BY <1>5, <1>6, <2>2, <2>3
  <2>5. Elements(Log) \subseteq Elements(l) /\ e \in Elements(l)
    BY <1>1, <1>3, AppendKeeps
  <2>6. acked' \subseteq Elements(l)
    BY <1>5, <2>3, <2>5
  <2>7. QED
    BY <2>4, <2>6
<1>12. QED
  BY <1>5, <1>6, <1>7, <1>8, <1>9, <1>10, <1>11 DEF LogInv

(* The goroutines of the log, and its Stop.                                *)
LEMMA LogMovesKeepLogInv == LogInv /\ (TicksLog \/ StopsLog) => LogInv'
<1> SUFFICES ASSUME LogInv, TicksLog \/ StopsLog PROVE LogInv'
  OBVIOUS
<1>1. /\ LogTypeOK /\ ProcTypeOK /\ arrived \in 0 .. MaxEvents /\ SyncUnbuffered /\ AppendedInOrder
      /\ SyncIsDurable /\ RunsWhileUp /\ Faultless
  BY DEF LogInv
<1>2. /\ Moves(Log) /\ SyncUnbuffered' /\ acked' = acked
      /\ TicksLog => (running' /\ ((Writable /\ faults' = faults) => Writable'))
      /\ StopsLog => (~running' /\ file' = "closed")
      /\ (StopsLog /\ mode = "batched" /\ Writable /\ faults' = faults) => Durable' = Elements(Log')
  <2>1. CASE TicksLog
    <3>1. TicksLog => Flush \/ RotationTick
      BY DEF TicksLog
    <3>2. ~StopsLog
      BY <2>1 DEF TicksLog, StopsLog, procVars
    <3>3. QED
      BY <1>1, <2>1, <3>1, <3>2, TicksMove
  <2>2. CASE StopsLog
    <3>1. WalStop
      BY <2>2 DEF StopsLog
    <3>2. ~TicksLog
      BY <2>2 DEF TicksLog, StopsLog, procVars
    <3>3. QED
      BY <1>1, <3>1, <3>2, StopMoves
  <2>3. QED
    BY <2>1, <2>2
<1>3. /\ arrived' = arrived /\ crashed' = crashed /\ phase # "down"
      /\ TicksLog => phase' = phase
      /\ StopsLog => phase' = "down"
      /\ starts' = starts
  BY DEF TicksLog, StopsLog, procVars
<1>4. /\ LogTypeOK' /\ mode' = mode /\ faults' \in {faults, faults + 1}
      /\ Prefix(written, written') /\ synced' \in synced .. Len(written')
      /\ Prefix(Log', Log) /\ ((Writable /\ faults' = faults) => Log' = Log)
  BY <1>2 DEF Moves
<1>5. ProcTypeOK' /\ arrived' \in 0 .. MaxEvents
  BY <1>1, <1>3 DEF ProcTypeOK
<1>6. AppendedInOrder'
  <2>1. Log' \in Seq(Events) /\ arrived \in Nat
    BY <1>1, <1>4, ConcatProperties DEF LogTypeOK, WalTypeOK, Log
  <2>2. Sorted(Log', arrived)
    BY <1>1, <1>4, <2>1, PrefixSorted DEF AppendedInOrder
  <2>3. QED
    BY <1>3, <2>2 DEF AppendedInOrder
<1>7. SyncIsDurable'
  BY <1>1, <1>2, <1>4, DurableGrows DEF SyncIsDurable
<1>8. RunsWhileUp'
  BY <1>2, <1>3 DEF RunsWhileUp
<1>9. Faultless'
  <2> SUFFICES ASSUME faults' = 0, ~crashed'
               PROVE  /\ acked' \subseteq Elements(Log')
                      /\ phase' # "down" => Writable'
                      /\ phase' = "down" => acked' \subseteq Durable'
    BY DEF Faultless
  <2>1. faults \in Nat
    BY <1>1, LogTypes
  <2>2. faults = 0 /\ faults' = faults
    BY <1>4, <2>1
  <2>3. acked \subseteq Elements(Log) /\ Writable /\ Log' = Log
    BY <1>1, <1>3, <1>4, <2>2 DEF Faultless
  <2>4. phase' # "down" => Writable'
    BY <1>2, <1>3, <2>2, <2>3
  <2>5. ASSUME phase' = "down" PROVE acked' \subseteq Durable'
    <3>1. StopsLog
      BY <1>3, <2>5
    <3>2. CASE mode = "batched"
      BY <1>2, <2>2, <2>3, <3>1, <3>2
    <3>3. CASE mode = "sync"
      BY <1>2, <1>4, <1>7, <3>3 DEF SyncIsDurable
    <3>4. mode \in {"sync", "batched"}
      BY <1>1, ModesAssumption DEF LogTypeOK, WalTypeOK
    <3>5. QED
      BY <3>2, <3>3, <3>4
  <2>6. QED
    BY <1>2, <2>3, <2>4, <2>5
<1>10. QED
  BY <1>2, <1>4, <1>5, <1>6, <1>7, <1>8, <1>9 DEF LogInv

(* A restart: a crash, or the start after a shutdown.                      *)
LEMMA RestartKeepsLogInv ==
  ASSUME LogInv, NEW n \in synced .. Len(written), NEW m \in synced .. n, RestartsLog(n, m)
  PROVE  LogInv'
<1>1. /\ LogTypeOK /\ ProcTypeOK /\ arrived \in 0 .. MaxEvents /\ SyncUnbuffered /\ AppendedInOrder
      /\ SyncIsDurable /\ RunsWhileUp /\ Faultless
  BY DEF LogInv
<1>2. /\ running' = TRUE /\ file' = "open" /\ sticky' = FALSE /\ buf' = <<>> /\ count' = 0
      /\ written' = SubSeq(written, 1, n) /\ synced' = m
      /\ mode' = mode /\ faults' = faults /\ acked' = acked
      /\ phase' = "boot" /\ arrived' = arrived
      /\ starts < MaxStarts /\ starts' = starts + 1
  BY DEF RestartsLog, WalRestart, NextFileOpens
<1>3. n \in 0 .. Len(written) /\ m \in 0 .. n
  BY <1>1, LogTypes
<1>4. /\ written' \in Seq(Events) /\ Len(written') = n /\ Prefix(written', written)
      /\ Log' = written' /\ <<>> \in Seq(Events) /\ Len(<<>>) = 0
  BY <1>1, <1>2, <1>3, LogTypes, SubSeqIsPrefix, ConcatEmptySeq, EmptySeq DEF Log
<1>5. LogTypeOK'
  <2>1. synced' \in 0 .. Len(written') /\ Len(buf') <= BufCap
    BY <1>1, <1>2, <1>3, <1>4, LogTypes
  <2>2. count' \in 0 .. MaxMessages /\ count' # MaxMessages
    BY <1>1, <1>2, LogTypes
  <2>3. QED
    BY <1>1, <1>2, <1>4, <2>1, <2>2 DEF LogTypeOK, WalTypeOK
<1>6. ProcTypeOK' /\ arrived' \in 0 .. MaxEvents
  <2>1. starts' \in 0 .. MaxStarts
    BY <1>1, <1>2, MaxStartsAssumption DEF ProcTypeOK
  <2>2. crashed' \in BOOLEAN
    BY <1>1 DEF ProcTypeOK, RestartsLog
  <2>3. QED
    BY <1>1, <1>2, <2>1, <2>2 DEF ProcTypeOK
<1>7. AppendedInOrder'
  <2>1. Prefix(written, Log) /\ written \in Seq(Events) /\ Log \in Seq(Events)
    BY <1>1, LogTypes, PrefixOfConcat DEF Log
  <2>2. Prefix(Log', Log)
    BY <1>4, <2>1, PrefixTransitive
  <2>3. Sorted(Log', arrived)
    BY <1>1, <1>4, <2>2, PrefixSorted DEF AppendedInOrder
  <2>4. QED
    BY <1>2, <2>3 DEF AppendedInOrder
<1>8. Durable \subseteq Durable'
  <2>1. /\ synced \in 0 .. Len(written) /\ m \in synced .. Len(written')
        /\ \A i \in 1 .. synced : i \in 1 .. Len(written')
    BY <1>1, <1>3, <1>4, LogTypes
  <2>2. \A i \in 1 .. synced : written[i] = written'[i]
    BY <1>4, <2>1 DEF Prefix
  <2>3. QED
    <3>1. written \in Seq(Events) /\ written' \in Seq(Events)
      BY <1>1, <1>4, LogTypes
    <3>2. Elements(SubSeq(written, 1, synced)) \subseteq Elements(SubSeq(written', 1, m))
      BY <3>1, <2>1, <2>2, AlikeUpTo
    <3>3. QED
      BY <1>2, <3>2 DEF Durable
<1>9. SyncIsDurable'
  BY <1>1, <1>2, <1>8 DEF SyncIsDurable
<1>10. RunsWhileUp'
  BY <1>2 DEF RunsWhileUp
<1>11. Faultless'
  <2> SUFFICES ASSUME faults' = 0, ~crashed' PROVE acked' \subseteq Elements(Log')
    BY <1>2 DEF Faultless, Writable
  <2>1. phase = "down" /\ ~crashed /\ n = Len(written)
    BY DEF RestartsLog
  <2>2. acked \subseteq Elements(written)
    BY <1>1, <1>2, <2>1, DurableIsLogged DEF Faultless
  <2>3. written' = written
    BY <1>1, <1>2, <2>1, LogTypes, SubSeqFull
  <2>4. QED
    BY <1>2, <1>4, <2>2, <2>3
<1>12. QED
  BY <1>2, <1>5, <1>6, <1>7, <1>9, <1>10, <1>11 DEF LogInv, SyncUnbuffered

(* The writer, DolphinDB and main leave the log alone.                     *)
LEMMA LeavingKeepsLogInv == LogInv /\ LeavesLog => LogInv'
<1> SUFFICES ASSUME LogInv, LeavesLog PROVE LogInv'
  OBVIOUS
<1>1. /\ mode' = mode /\ running' = running /\ file' = file /\ sticky' = sticky /\ buf' = buf
      /\ written' = written /\ synced' = synced /\ count' = count /\ acked' = acked
      /\ arrived' = arrived /\ starts' = starts /\ crashed' = crashed
      /\ phase' \in {"boot", "connect", "serve", "stop", "close", "down"}
      /\ phase' = "down" <=> phase = "down"
  BY DEF LeavesLog
<1>2. faults' \in 0 .. MaxFaults /\ (faults' = 0 => faults = 0)
  <2>1. LogTypeOK
    BY DEF LogInv
  <2>2. faults' = faults \/ (faults < MaxFaults /\ faults' = faults + 1)
    BY DEF LeavesLog, Fault
  <2>3. QED
    BY <2>1, <2>2, LogTypes
<1>3. LogTypeOK'
  BY <1>1, <1>2 DEF LogInv, LogTypeOK, WalTypeOK
<1>4. ProcTypeOK' /\ arrived' \in 0 .. MaxEvents
  BY <1>1 DEF LogInv, ProcTypeOK
<1>5. SyncUnbuffered' /\ AppendedInOrder' /\ SyncIsDurable' /\ RunsWhileUp'
  BY <1>1 DEF LogInv, SyncUnbuffered, AppendedInOrder, SyncIsDurable, RunsWhileUp, Log, Durable
<1>6. Faultless'
  BY <1>1, <1>2 DEF LogInv, Faultless, Writable, Log, Durable
<1>7. QED
  BY <1>3, <1>4, <1>5, <1>6 DEF LogInv

LEMMA LogStep == LogInv /\ [StorageNext]_storageVars => LogInv'
<1> SUFFICES ASSUME LogInv, [StorageNext]_storageVars PROVE LogInv'
  OBVIOUS
<1>1. LogMoves
  BY LogView DEF LogInv
<1>2. ASSUME NEW n \in synced .. Len(written), NEW m \in synced .. n, RestartsLog(n, m) PROVE LogInv'
  BY <1>2, RestartKeepsLogInv
<1>3. QED
  BY <1>1, <1>2, WriteKeepsLogInv, LogMovesKeepLogInv, LeavingKeepsLogInv DEF LogMoves

(* The inductive invariant of the log in its process.                      *)
THEOREM LogInvariant == StorageSpec => []LogInv
<1>1. StorageInit => LogInv
  BY LogInit
<1>2. LogInv /\ [StorageNext]_storageVars => LogInv'
  BY LogStep
<1>3. QED
  BY <1>1, <1>2, PTL DEF StorageSpec

(* wal.go: in sync mode a Write that returned nil is on stable storage,    *)
(* whatever faults, rotations, shutdowns and crashes come before or after. *)
THEOREM SyncWritesAreDurable == StorageSpec => []SyncIsDurable
<1>1. LogInv => SyncIsDurable
  BY DEF LogInv
<1>2. QED
  BY <1>1, LogInvariant, PTL

(* What Replay reads, and the buffer behind it, is in the order of the     *)
(* Writes, each event once.                                                *)
THEOREM LogKeepsOrder == StorageSpec => []LogInOrder
<1>1. ASSUME LogInv PROVE LogInOrder
  <2>1. LogTypeOK /\ Sorted(Log, arrived)
    BY <1>1 DEF LogInv, AppendedInOrder
  <2>2. DOMAIN Log = 1 .. Len(Log)
    BY <2>1, LogTypes, LenProperties
  <2>3. QED
    BY <2>1, <2>2 DEF Sorted, LogInOrder, Log
<1>2. QED
  BY <1>1, LogInvariant, PTL

(* "Stop drains the final batch (fsync)": without a fault or a crash a     *)
(* shutdown leaves everything accepted on stable storage, in both modes.   *)
THEOREM StopDrainsTheLog == StorageSpec => []StopDrains
<1>1. LogInv => StopDrains
  BY DEF LogInv, Faultless, StopDrains
<1>2. QED
  BY <1>1, LogInvariant, PTL

-----------------------------------------------------------------------------
(* A record leaves the log only through a fault or a crash                 *)

LEMMA HeldIsLogged == ASSUME LogTypeOK PROVE Held = Elements(Log)
BY LogTypes, ElementsOfConcat DEF Held, Log

LEMMA NothingLost ==
  ASSUME LogInv, LogInv', [StorageNext]_storageVars
  PROVE  \A e \in (acked \cap Held) \cup (acked' \ acked) :
           e \in Held' \/ faults' > faults \/ ~Writable \/ crashed'
<1> SUFFICES ASSUME Writable, ~crashed', ~(faults' > faults)
             PROVE  (acked \cap Held) \cup (acked' \ acked) \subseteq Held'
  OBVIOUS
<1>1. /\ LogTypeOK /\ LogTypeOK' /\ Held = Elements(Log) /\ Held' = Elements(Log')
      /\ SyncUnbuffered /\ RunsWhileUp /\ faults \in Nat
  <2>1. LogTypeOK /\ LogTypeOK' /\ SyncUnbuffered /\ RunsWhileUp
    BY DEF LogInv
  <2>2. Held = Elements(Log) /\ faults \in Nat
    BY <2>1, HeldIsLogged, LogTypes
  <2>3. written' \in Seq(Events) /\ buf' \in Seq(Events)
    BY <2>1 DEF LogTypeOK, WalTypeOK
  <2>4. Elements(written' \o buf') = Elements(written') \cup Elements(buf')
    BY <2>3, ElementsOfConcat
  <2>5. Held' = Elements(Log')
    BY <2>4 DEF Held, Log
  <2>6. QED
    BY <2>1, <2>2, <2>5
<1>2. CASE WritesLog
  <2>1. arrived + 1 \in Events /\ acked' \subseteq acked \cup {arrived + 1}
        /\ Moves(Append(Log, arrived + 1))
    <3>1. arrived \in 0 .. MaxEvents /\ arrived < MaxEvents
      BY <1>2 DEF LogInv, WritesLog
    <3>2. arrived + 1 \in Events
      BY <3>1, MaxEventsAssumption DEF Events
    <3>3. WritesTo(arrived + 1)
      BY <1>1, <1>2, <3>2, WriteWrites DEF WritesLog
    <3>4. QED
      BY <3>2, <3>3 DEF WritesTo
  <2>2. faults' = faults
    BY <1>1, <2>1 DEF Moves
  <2>3. Log' = Append(Log, arrived + 1)
    BY <2>1, <2>2 DEF Moves
  <2>4. Elements(Log) \subseteq Elements(Log') /\ arrived + 1 \in Elements(Log')
    BY <1>1, <2>1, <2>3, AppendKeeps
  <2>5. QED
    BY <1>1, <2>1, <2>4
<1>3. CASE TicksLog \/ StopsLog
  <2>1. Moves(Log) /\ acked' = acked
    BY <1>1, <1>3, TicksMove, StopMoves DEF TicksLog, StopsLog
  <2>2. faults' = faults
    BY <1>1, <2>1 DEF Moves
  <2>3. QED
    BY <1>1, <2>1, <2>2 DEF Moves
<1>4. ASSUME NEW n \in synced .. Len(written), NEW m \in synced .. n, RestartsLog(n, m) PROVE FALSE
  BY <1>1, <1>4 DEF RestartsLog, RunsWhileUp, Writable
<1>5. CASE LeavesLog
  BY <1>1, <1>5 DEF LeavesLog, Log
<1>6. LogMoves
  BY <1>1, LogView DEF LogInv
<1>7. QED
  BY <1>2, <1>3, <1>4, <1>5, <1>6 DEF LogMoves

(* wal_batched.go: an accepted record is lost only in a crash, in a step   *)
(* with an I/O error, or when one has closed the file or broken its writer.*)
THEOREM LogLosesOnlyToFaults == StorageSpec => LosesOnlyToFaults
<1>1. LogInv /\ LogInv' /\ [StorageNext]_storageVars
        => [\A e \in (acked \cap Held) \cup (acked' \ acked) :
              e \in Held' \/ faults' > faults \/ ~Writable \/ crashed']_storageVars
  BY NothingLost
<1>2. QED
  BY <1>1, LogInvariant, PTL DEF StorageSpec, LosesOnlyToFaults

-----------------------------------------------------------------------------
(* The writer                                                              *)

(* Only a flusher between the take and the script holds a batch.           *)
TakenByFlushers == \A f \in Flushers : fpc[f] \notin {"check", "script"} => toWrite[f] = {}

(* main has not dialled before it connects.                                *)
MainHasNotDialled == phase = "boot" => kpc["main"] = "idle"

WriterShape == WriterTypeOK /\ TakenByFlushers /\ MainHasNotDialled

LEMMA ChunkAndRest ==
  ASSUME NEW S, NEW s \in Seq(S)
  PROVE  /\ AfterChunk(s) \in Seq(S)
         /\ Elements(Chunk(s)) \subseteq S
         /\ Elements(s) \subseteq Elements(Chunk(s)) \cup Elements(AfterChunk(s))
<1>1. BatchSize \in Nat \ {0} /\ Len(s) \in Nat
  BY BatchSizeAssumption, LenProperties
<1> DEFINE n == IF Len(s) < BatchSize THEN Len(s) ELSE BatchSize
<1>2. n \in 0 .. Len(s)
  BY <1>1
<1>3. Chunk(s) \in Seq(S) /\ Len(Chunk(s)) = n
  BY <1>2, SubSeqIsPrefix DEF Chunk
<1>4. \A i \in 1 .. n : Chunk(s)[i] = s[i]
  BY <1>2, <1>3, SubSeqIsPrefix DEF Prefix, Chunk
<1>5. /\ AfterChunk(s) \in Seq(S)
      /\ Len(AfterChunk(s)) = IF BatchSize + 1 <= Len(s) THEN Len(s) - (BatchSize + 1) + 1 ELSE 0
      /\ \A i \in 1 .. Len(s) - (BatchSize + 1) + 1 : AfterChunk(s)[i] = s[BatchSize + 1 + i - 1]
  <2>1. \A i \in BatchSize + 1 .. Len(s) : i \in 1 .. Len(s)
    BY <1>1
  <2>2. \A i \in BatchSize + 1 .. Len(s) : s[i] \in S
    BY <2>1, ElementOfSeq
  <2>3. BatchSize + 1 \in Int /\ Len(s) \in Int
    BY <1>1
  <2>4. QED
    BY <2>2, <2>3, SubSeqProperties DEF AfterChunk
<1> DEFINE c == Chunk(s)
           r == AfterChunk(s)
<1> HIDE DEF c, r
<1>6. ASSUME NEW x \in Elements(s) PROVE x \in Elements(c) \cup Elements(r)
  <2>1. PICK i \in 1 .. Len(s) : x = s[i]
    BY ElementsByIndex
  <2>2. CASE i <= BatchSize
    <3>1. i \in 1 .. n
      BY <1>1, <2>2
    <3>2. x = c[i] /\ i \in 1 .. Len(c) /\ c \in Seq(S)
      BY <1>3, <1>4, <2>1, <3>1 DEF c
    <3>3. QED
      BY <3>2, ElementsByIndex
  <2>3. CASE ~(i <= BatchSize)
    <3>1. /\ BatchSize + 1 <= Len(s) /\ i - BatchSize \in 1 .. Len(s) - (BatchSize + 1) + 1
          /\ BatchSize + 1 + (i - BatchSize) - 1 = i
          /\ Len(s) - (BatchSize + 1) + 1 \in Nat
      BY <1>1, <2>3
    <3>2. x = r[i - BatchSize] /\ i - BatchSize \in 1 .. Len(r) /\ r \in Seq(S)
      BY <1>5, <2>1, <3>1 DEF r
    <3>3. QED
      BY <3>2, ElementsByIndex
  <2>4. QED
    BY <2>2, <2>3
<1>7. QED
  BY <1>3, <1>5, <1>6, ElementsByIndex DEF c, r

(* A replay that passes over the records after the i-th up to the j-th.    *)
LEMMA PassedOver ==
  ASSUME NEW S, NEW s \in Seq(S), NEW i \in 0 .. Len(s), NEW j \in 0 .. Len(s), i < j
  PROVE  /\ SubSeq(s, 1, i) \o SubSeq(s, j + 1, Len(s)) \in Seq(S)
         /\ Elements(SubSeq(s, i + 1, j)) \subseteq S
         /\ Elements(s) \subseteq Elements(SubSeq(s, 1, i) \o SubSeq(s, j + 1, Len(s)))
                                 \cup Elements(SubSeq(s, i + 1, j))
<1> DEFINE a == SubSeq(s, 1, i)
           b == SubSeq(s, i + 1, j)
           c == SubSeq(s, j + 1, Len(s))
<1>1. Len(s) \in Nat /\ i \in Nat /\ j \in Nat /\ i < j /\ j <= Len(s)
  BY LenProperties
<1>2. \A n \in 1 .. Len(s) : s[n] \in S
  BY ElementOfSeq
<1>3. a \in Seq(S) /\ Len(a) = i /\ \A n \in 1 .. i : a[n] = s[n]
  BY <1>1, SubSeqIsPrefix DEF Prefix
<1>4. /\ b \in Seq(S) /\ Len(b) = j - i
      /\ \A n \in 1 .. j - i : b[n] = s[i + n]
  <2>1. \A n \in i + 1 .. j : s[n] \in S
    BY <1>1, <1>2
  <2>2. i + 1 \in Int /\ j \in Int
    BY <1>1
  <2>3. /\ b \in Seq(S) /\ Len(b) = IF i + 1 <= j THEN j - (i + 1) + 1 ELSE 0
        /\ \A n \in 1 .. j - (i + 1) + 1 : b[n] = s[i + 1 + n - 1]
    BY <2>1, <2>2, SubSeqProperties
  <2> HIDE DEF b
  <2>4. \A n \in 1 .. j - i : n \in 1 .. j - (i + 1) + 1 /\ i + 1 + n - 1 = i + n
    BY <1>1
  <2>5. QED
    BY <1>1, <2>3, <2>4
<1>5. /\ c \in Seq(S) /\ Len(c) = Len(s) - j
      /\ \A n \in 1 .. Len(s) - j : c[n] = s[j + n]
  <2>1. \A n \in j + 1 .. Len(s) : s[n] \in S
    BY <1>1, <1>2
  <2>2. j + 1 \in Int /\ Len(s) \in Int
    BY <1>1
  <2>3. /\ c \in Seq(S) /\ Len(c) = IF j + 1 <= Len(s) THEN Len(s) - (j + 1) + 1 ELSE 0
        /\ \A n \in 1 .. Len(s) - (j + 1) + 1 : c[n] = s[j + 1 + n - 1]
    BY <2>1, <2>2, SubSeqProperties
  <2> HIDE DEF c
  <2>4. \A n \in 1 .. Len(s) - j : n \in 1 .. Len(s) - (j + 1) + 1 /\ j + 1 + n - 1 = j + n
    BY <1>1
  <2>5. QED
    BY <1>1, <2>3, <2>4
<1> HIDE DEF a, b, c
<1>6. a \o c \in Seq(S) /\ Elements(a \o c) = Elements(a) \cup Elements(c)
  BY <1>3, <1>5, ConcatProperties, ElementsOfConcat
<1>7. Elements(b) \subseteq S
  BY <1>4, ElementsByIndex
<1>8. ASSUME NEW x \in Elements(s) PROVE x \in Elements(a) \cup Elements(b) \cup Elements(c)
  <2>1. PICK n \in 1 .. Len(s) : x = s[n]
    BY ElementsByIndex
  <2>2. CASE n <= i
    <3>1. n \in 1 .. Len(a) /\ x = a[n]
      BY <1>1, <1>3, <2>1, <2>2
    <3>2. QED
      BY <1>3, <3>1, ElementsByIndex
  <2>3. CASE i < n /\ n <= j
    <3>1. n - i \in 1 .. j - i /\ i + (n - i) = n
      BY <1>1, <2>1, <2>3
    <3>2. n - i \in 1 .. Len(b) /\ x = b[n - i]
      BY <1>4, <2>1, <3>1
    <3>3. QED
      BY <1>4, <3>2, ElementsByIndex
  <2>4. CASE j < n
    <3>1. n - j \in 1 .. Len(s) - j /\ j + (n - j) = n
      BY <1>1, <2>1, <2>4
    <3>2. n - j \in 1 .. Len(c) /\ x = c[n - j]
      BY <1>5, <2>1, <3>1
    <3>3. QED
      BY <1>5, <3>2, ElementsByIndex
  <2>5. QED
    BY <1>1, <2>1, <2>2, <2>3, <2>4
<1>9. QED
  BY <1>6, <1>7, <1>8 DEF a, b, c

LEMMA WriterInitShape == StorageInit => WriterShape
<1> SUFFICES ASSUME StorageInit PROVE WriterShape
  OBVIOUS
<1>1. WriterInit
  BY DEF StorageInit
<1>2. MaxEvents \in Nat /\ 0 \in 0 .. MaxEvents
  BY MaxEventsAssumption
<1>3. <<>> \in Seq(Events)
  BY EmptySeq
<1>4. WriterTypeOK
  BY <1>1, <1>2, <1>3 DEF WriterInit, WriterTypeOK, Connectors
<1>5. TakenByFlushers /\ MainHasNotDialled
  BY <1>1 DEF WriterInit, TakenByFlushers, MainHasNotDialled, Connectors
<1>6. QED
  BY <1>4, <1>5 DEF WriterShape

LEMMA HandlerKeepsShape ==
  ASSUME LogInv, WriterShape, Up, NEW h \in Handlers, Handler(h)
  PROVE  WriterShape'
<1> USE DEF writerVars, handlerVars, flushVars, connectVars, errVars, procVars
<1>1. arrived \in 0 .. MaxEvents /\ MaxEvents \in Nat
  BY MaxEventsAssumption DEF LogInv
<1>2. CASE WriteLogged(h) \/ WriteRefused(h)
  <2>1. arrived' \in 0 .. MaxEvents /\ arrived' = arrived + 1
    BY <1>1, <1>2 DEF WriteLogged, WriteRefused
  <2>2. hev' \in [Handlers -> 0 .. MaxEvents]
    BY <1>2, <2>1 DEF WriteLogged, WriteRefused, WriterShape, WriterTypeOK
  <2>3. /\ batch' = batch /\ fpc' = fpc /\ toWrite' = toWrite /\ kpc' = kpc /\ todo' = todo
        /\ connected' = connected /\ session' = session /\ cancelled' = cancelled
        /\ scriptErr' = scriptErr /\ unread' = unread /\ db' = db /\ phase' = phase
    BY <1>2 DEF WriteLogged, WriteRefused, Up
  <2>4. QED
    BY <2>1, <2>2, <2>3 DEF WriterShape, WriterTypeOK, TakenByFlushers, MainHasNotDialled
<1>3. CASE WriteBatched(h)
  <2>1. hev[h] \in Events
    BY <1>1, <1>3 DEF WriteBatched, WriterShape, WriterTypeOK, Events
  <2>2. batch' \in SUBSET Events
    BY <1>3, <2>1 DEF WriteBatched, WriterShape, WriterTypeOK
  <2>3. 0 \in 0 .. MaxEvents
    BY <1>1
  <2>4. hev' \in [Handlers -> 0 .. MaxEvents]
    BY <1>3, <2>3 DEF WriteBatched, WriterShape, WriterTypeOK
  <2>5. fpc' \in [Flushers -> {"idle", "take", "check", "script", "exit"}]
        /\ \A f \in Flushers : fpc'[f] \notin {"check", "script"} => fpc[f] \notin {"check", "script"}
    <3>1. CASE Cardinality(batch') >= BatchSize
      BY <1>3, <3>1 DEF WriteBatched, WriterShape, WriterTypeOK, Flushers
    <3>2. CASE ~(Cardinality(batch') >= BatchSize)
      BY <1>3, <3>2 DEF WriteBatched, WriterShape, WriterTypeOK
    <3>3. QED
      BY <3>1, <3>2
  <2>6. /\ arrived' = arrived /\ toWrite' = toWrite /\ kpc' = kpc /\ todo' = todo
        /\ connected' = connected /\ session' = session /\ cancelled' = cancelled
        /\ scriptErr' = scriptErr /\ unread' = unread /\ db' = db /\ phase' = phase
    BY <1>3 DEF WriteBatched, Up
  <2>7. QED
    BY <2>2, <2>4, <2>5, <2>6 DEF WriterShape, WriterTypeOK, TakenByFlushers, MainHasNotDialled
<1>4. QED
  BY <1>2, <1>3 DEF Handler

LEMMA FlusherKeepsShape ==
  ASSUME WriterShape, NEW f \in Flushers, Flusher(f)
  PROVE  WriterShape'
<1> USE DEF writerVars, handlerVars, flushVars, connectVars, errVars, procVars
<1> USE DEF WriterShape, WriterTypeOK, TakenByFlushers, MainHasNotDialled
<1>1. Up /\ (FlushStep(f) \/ (f = "ticker" /\ TickerStops))
  BY DEF Flusher
<1>2. CASE FlushTakes(f)
  BY <1>1, <1>2 DEF Up, FlushTakes
<1>3. CASE FlushFindsNothing(f)
  BY <1>1, <1>3 DEF Up, FlushFindsNothing
<1>4. CASE FlushChecks(f)
  BY <1>1, <1>4 DEF Up, FlushChecks
<1>5. CASE FlushSkips(f)
  BY <1>1, <1>5 DEF Up, FlushSkips
<1>6. CASE FlushWrites(f)
  BY <1>1, <1>6 DEF Up, FlushWrites
<1>7. CASE FlushFails(f)
  BY <1>1, <1>7 DEF Up, FlushFails
<1>8. CASE TickerStops
  BY <1>1, <1>8 DEF Up, TickerStops, Flushers
<1>9. QED
  BY <1>1, <1>2, <1>3, <1>4, <1>5, <1>6, <1>7, <1>8 DEF FlushStep

LEMMA ConnectorKeepsShape ==
  ASSUME LogInv, WriterShape, NEW k \in Connectors, Connector(k) \/ LoopRuns
  PROVE  WriterShape'
<1> USE DEF writerVars, handlerVars, flushVars, connectVars, errVars, procVars
<1>1. /\ Up /\ UNCHANGED <<handlerVars, batch, flushVars, cancelled>>
      /\ db' \in SUBSET Events /\ unread' \in SUBSET Events /\ scriptErr' \in BOOLEAN
      /\ connected' \in BOOLEAN /\ session' \in BOOLEAN
      /\ kpc' \in [Connectors -> {"idle", "due", "mark", "read", "replay", "exit"}]
      /\ todo' \in [Connectors -> Seq(Events)]
      /\ (kpc'["main"] = kpc["main"] \/ kpc["main"] # "idle")
  <2> USE DEF WriterShape, WriterTypeOK, Connectors
  <2>1. CASE Up /\ ConnectMarks(k)
    BY <2>1 DEF ConnectMarks
  <2>2. CASE Up /\ ReplayReads(k)
    BY <2>2, LogTypes DEF LogInv, ReplayReads
  <2>3. CASE Up /\ ReplayWrites(k)
    <3>1. todo[k] \in Seq(Events)
      OBVIOUS
    <3>2. AfterChunk(todo[k]) \in Seq(Events) /\ Elements(Chunk(todo[k])) \subseteq Events
      BY <3>1, ChunkAndRest
    <3>3. QED
      BY <2>3, <3>2 DEF ReplayWrites
  <2>4. CASE Up /\ ReplayFails(k)
    BY <2>4, EmptySeq DEF ReplayFails
  <2>8. CASE Up /\ ReplayMisses(k)
    <3>1. written \in Seq(Events)
      BY LogTypes DEF LogInv
    <3>2. PICK i \in 0 .. Len(written), j \in 0 .. Len(written) :
            /\ i < j
            /\ todo' = [todo EXCEPT ![k] = SubSeq(written, 1, i) \o SubSeq(written, j + 1, Len(written))]
            /\ unread' = Elements(SubSeq(written, i + 1, j))
      BY <2>8 DEF ReplayMisses
    <3>3. /\ SubSeq(written, 1, i) \o SubSeq(written, j + 1, Len(written)) \in Seq(Events)
          /\ unread' \subseteq Events
      BY <3>1, <3>2, PassedOver
    <3>4. todo' \in [Connectors -> Seq(Events)]
      BY <3>2, <3>3
    <3>5. QED
      BY <2>8, <3>3, <3>4 DEF ReplayMisses
  <2>5. CASE Up /\ ReplayEnds(k)
    BY <2>5 DEF ReplayEnds
  <2>6. CASE LoopRuns
    BY <2>6 DEF LoopRuns, LoopWakes, LoopDials, LoopDialFails, LoopStops, ConnectDials, ConnectFails
  <2>7. QED
    BY <2>1, <2>2, <2>3, <2>4, <2>5, <2>6, <2>8 DEF Connector, ConnectRuns
<1>2. QED
  BY <1>1 DEF WriterShape, WriterTypeOK, TakenByFlushers, MainHasNotDialled, Up

LEMMA MainKeepsShape ==
  ASSUME WriterShape, MainRuns \/ StopBegins
  PROVE  WriterShape'
<1> USE DEF writerVars, handlerVars, flushVars, connectVars, errVars, procVars
<1> USE DEF WriterShape, WriterTypeOK, TakenByFlushers, MainHasNotDialled, Connectors
<1>1. CASE MainConnects
  BY <1>1 DEF MainConnects, ConnectDials
<1>2. CASE MainGivesUp
  BY <1>2 DEF MainGivesUp, ConnectFails
<1>3. CASE MainListens
  BY <1>3 DEF MainListens
<1>4. CASE StopBegins
  BY <1>4 DEF StopBegins
<1>5. CASE WriterStops
  BY <1>5 DEF WriterStops
<1>6. CASE LogStops
  BY <1>6 DEF LogStops
<1>7. QED
  BY <1>1, <1>2, <1>3, <1>4, <1>5, <1>6 DEF MainRuns

LEMMA RestartKeepsShape ==
  ASSUME WriterShape, NEW n, NEW m, StartsWith(n, m)
  PROVE  WriterShape'
<1>1. 0 \in 0 .. MaxEvents /\ <<>> \in Seq(Events)
  BY MaxEventsAssumption, EmptySeq
<1>2. WriterTypeOK'
  BY <1>1 DEF StartsWith, WriterShape, WriterTypeOK
<1>3. TakenByFlushers' /\ MainHasNotDialled'
  BY DEF StartsWith, TakenByFlushers, MainHasNotDialled, Connectors
<1>4. QED
  BY <1>2, <1>3 DEF WriterShape

LEMMA ShapeStep == LogInv /\ WriterShape /\ [StorageNext]_storageVars => WriterShape'
<1> SUFFICES ASSUME LogInv, WriterShape, [StorageNext]_storageVars PROVE WriterShape'
  OBVIOUS
<1>1. CASE UNCHANGED <<writerVars, procVars>>
  BY <1>1 DEF WriterShape, WriterTypeOK, TakenByFlushers, MainHasNotDialled, writerVars, handlerVars,
              flushVars, connectVars, errVars, procVars
<1>2. CASE MainRuns \/ StopBegins
  BY <1>2, MainKeepsShape
<1>3. ASSUME NEW h \in Handlers, Up, Handler(h) PROVE WriterShape'
  BY <1>3, HandlerKeepsShape
<1>4. ASSUME NEW f \in Flushers, Flusher(f) PROVE WriterShape'
  BY <1>4, FlusherKeepsShape
<1>5. ASSUME NEW k \in Connectors, Connector(k) PROVE WriterShape'
  BY <1>5, ConnectorKeepsShape
<1>6. CASE LoopRuns
  BY <1>6, ConnectorKeepsShape DEF Connectors
<1>7. CASE LogFlushes \/ LogRotates \/ StorageOver \/ UNCHANGED storageVars
  BY <1>1, <1>7 DEF LogFlushes, LogRotates, StorageOver, Up, storageVars
<1>8. CASE Restart \/ ProcessCrash \/ MachineCrash
  BY <1>8, RestartKeepsShape DEF Restart, ProcessCrash, MachineCrash
<1>9. QED
  BY <1>2, <1>3, <1>4, <1>5, <1>6, <1>7, <1>8 DEF StorageNext

(* With the log: the batches the flushers hold, the sessions and the replay*)
(* of Connect fit the place where their goroutine is.                      *)
THEOREM StorageShape == StorageSpec => [](LogInv /\ WriterShape)
<1>1. StorageInit => LogInv /\ WriterShape
  BY LogInit, WriterInitShape
<1>2. LogInv /\ WriterShape /\ [StorageNext]_storageVars => (LogInv /\ WriterShape)'
  BY LogStep, ShapeStep
<1>3. QED
  BY <1>1, <1>2, PTL DEF StorageSpec

(* Type correctness of the storage process: the log, the writer, main.     *)
THEOREM StorageTypes == StorageSpec => []TypeOK
<1>1. LogInv /\ WriterShape => TypeOK
  BY DEF LogInv, WriterShape, LogTypeOK, ProcTypeOK, TypeOK
<1>2. QED
  BY <1>1, StorageShape, PTL

-----------------------------------------------------------------------------
(* Between the log and the database                                        *)

(* An event that is in DolphinDB, on its way there, or was passed over by  *)
(* the last replay.                                                        *)
Traced(e) ==
  \/ e \in db
  \/ e \in batch
  \/ \E h \in Handlers : e = hev[h]
  \/ \E f \in Flushers : e \in toWrite[f]
  \/ \E k \in Connectors : e \in Elements(todo[k])
  \/ e \in unread

(* A connected writer that has nothing to make up for.                     *)
InStep == mode = "sync" /\ connected /\ ~scriptErr /\ \A k \in Connectors : kpc[k] # "read"

AccountedFor == InStep => \A e \in acked : Traced(e)

LEMMA AccountedForMeans == SyncAccountedFor <=> AccountedFor
<1>1. \A e : Traced(e) <=> e \in db \cup OnItsWay \cup unread
  <2> TAKE e
  <2> DEFINE Logged == {hev[h] : h \in Handlers}
             Taken == UNION {toWrite[f] : f \in Flushers}
             Replayed == UNION {Elements(todo[k]) : k \in Connectors}
  <2>1. e \in Logged <=> \E h \in Handlers : e = hev[h]
    OBVIOUS
  <2>2. e \in Taken <=> \E f \in Flushers : e \in toWrite[f]
    OBVIOUS
  <2>3. e \in Replayed <=> \E k \in Connectors : e \in Elements(todo[k])
    OBVIOUS
  <2>4. OnItsWay = batch \cup Logged \cup Taken \cup Replayed
    BY DEF OnItsWay
  <2> HIDE DEF Logged, Taken, Replayed
  <2>5. e \in db \cup OnItsWay \cup unread
          <=> (e \in db \/ e \in batch \/ e \in Logged \/ e \in Taken \/ e \in Replayed \/ e \in unread)
    BY <2>4
  <2>6. QED
    BY <2>1, <2>2, <2>3, <2>5 DEF Traced
<1>2. acked \subseteq db \cup OnItsWay \cup unread <=> \A e \in acked : Traced(e)
  BY <1>1
<1>3. QED
  BY <1>2 DEF SyncAccountedFor, AccountedFor, InStep

LEMMA HandlerKeepsAccount ==
  ASSUME LogInv, WriterShape, AccountedFor, Up, NEW h \in Handlers, Handler(h)
  PROVE  AccountedFor'
<1> USE DEF writerVars, handlerVars, flushVars, connectVars, errVars, procVars
<1> SUFFICES ASSUME InStep', NEW e \in acked' PROVE Traced(e)'
  BY DEF AccountedFor
<1>1. CASE WriteLogged(h) \/ WriteRefused(h)
  <2>1. /\ arrived < MaxEvents /\ hev[h] = 0
        /\ WalWrite(arrived + 1) \/ WalWriteFails(arrived + 1)
        /\ UNCHANGED <<batch, flushVars, connectVars, errVars, db>>
    BY <1>1 DEF WriteLogged, WriteRefused
  <2>2. arrived + 1 \in Events
    BY <2>1, MaxEventsAssumption DEF LogInv, Events
  <2>3. WritesTo(arrived + 1)
    BY <2>1, <2>2, WriteWrites DEF LogInv
  <2>4. mode' = mode /\ InStep
    BY <2>1, <2>3 DEF WritesTo, Moves, InStep
  <2>5. CASE e \in acked
    <3>1. Traced(e)
      BY <2>4, <2>5 DEF AccountedFor
    <3>2. e # 0
      BY <2>5, LogTypes DEF LogInv, Events
    <3>3. \A i \in Handlers : e = hev[i] => e = hev'[i]
      BY <1>1, <2>1, <3>2 DEF WriteLogged, WriteRefused, WriterShape, WriterTypeOK
    <3>4. QED
      BY <2>1, <3>1, <3>3 DEF Traced
  <2>6. CASE e \notin acked
    <3>1. e = arrived + 1
      BY <2>3, <2>6 DEF WritesTo
    <3>2. ~WriteRefused(h)
      BY <2>6 DEF WriteRefused, WalWriteFails, SyncWriteFails, BatchedWriteFails
    <3>3. e = hev'[h]
      BY <1>1, <3>1, <3>2 DEF WriteLogged, WriterShape, WriterTypeOK
    <3>4. QED
      BY <3>3 DEF Traced
  <2>7. QED
    BY <2>5, <2>6
<1>2. CASE WriteBatched(h)
  <2>1. /\ UNCHANGED <<walVars, toWrite, connectVars, errVars, db>>
        /\ batch' = batch \cup {hev[h]} /\ hev' = [hev EXCEPT ![h] = 0]
    BY <1>2 DEF WriteBatched
  <2>2. InStep /\ e \in acked
    BY <2>1 DEF InStep, walVars
  <2>3. Traced(e)
    BY <2>2 DEF AccountedFor
  <2>4. \A i \in Handlers : e = hev[i] => e = hev'[i] \/ e \in batch'
    BY <2>1 DEF WriterShape, WriterTypeOK
  <2>5. QED
    BY <2>1, <2>3, <2>4 DEF Traced
<1>3. QED
  BY <1>1, <1>2 DEF Handler

LEMMA FlusherKeepsAccount ==
  ASSUME WriterShape, AccountedFor, NEW f \in Flushers, Flusher(f)
  PROVE  AccountedFor'
<1> USE DEF writerVars, handlerVars, flushVars, connectVars, errVars, procVars
<1> SUFFICES ASSUME InStep', NEW e \in acked' PROVE Traced(e)'
  BY DEF AccountedFor
<1>1. /\ mode' = mode /\ acked' = acked /\ kpc' = kpc /\ todo' = todo /\ connected' = connected
      /\ hev' = hev /\ unread' = unread
      /\ scriptErr' = scriptErr \/ scriptErr' = TRUE
  BY DEF Flusher, FlushStep, FlushTakes, FlushFindsNothing, FlushChecks, FlushSkips, FlushWrites,
         FlushFails, TickerStops, walVars
<1>2. connected /\ ~scriptErr' /\ InStep /\ Traced(e)
  BY <1>1 DEF InStep, AccountedFor
<1>3. toWrite \in [Flushers -> SUBSET Events]
  BY DEF WriterShape, WriterTypeOK
<1>4. CASE FlushTakes(f)
  <2>1. toWrite[f] = {}
    BY <1>4 DEF FlushTakes, Takes, WriterShape, TakenByFlushers
  <2>2. toWrite' = [toWrite EXCEPT ![f] = batch] /\ db' = db
    BY <1>4 DEF FlushTakes
  <2>3. /\ \A g \in Flushers : e \in toWrite[g] => e \in toWrite'[g]
        /\ e \in batch => e \in toWrite'[f]
    BY <1>3, <2>1, <2>2
  <2>4. QED
    BY <1>1, <1>2, <2>2, <2>3 DEF Traced
<1>5. CASE FlushFindsNothing(f) \/ FlushChecks(f) \/ TickerStops
  BY <1>1, <1>2, <1>5 DEF FlushFindsNothing, FlushChecks, TickerStops, Traced
<1>6. CASE FlushSkips(f)
  BY <1>2, <1>6 DEF FlushSkips
<1>7. CASE FlushWrites(f)
  <2>1. /\ db' = db \cup toWrite[f] /\ toWrite' = [toWrite EXCEPT ![f] = {}] /\ batch' = batch
    BY <1>7 DEF FlushWrites
  <2>2. \A g \in Flushers : e \in toWrite[g] => e \in toWrite'[g] \/ e \in db'
    BY <1>3, <2>1
  <2>3. QED
    BY <1>1, <1>2, <2>1, <2>2 DEF Traced
<1>8. CASE FlushFails(f)
  BY <1>2, <1>8 DEF FlushFails
<1>9. QED
  BY <1>4, <1>5, <1>6, <1>7, <1>8 DEF Flusher, FlushStep

LEMMA ConnectorKeepsAccount ==
  ASSUME LogInv, WriterShape, AccountedFor, NEW k \in Connectors, Connector(k) \/ LoopRuns
  PROVE  AccountedFor'
<1> USE DEF writerVars, handlerVars, flushVars, connectVars, errVars, procVars
<1> SUFFICES ASSUME InStep', NEW e \in acked' PROVE Traced(e)'
  BY DEF AccountedFor
<1>1. /\ mode' = mode /\ acked' = acked /\ hev' = hev /\ batch' = batch /\ toWrite' = toWrite
      /\ scriptErr' = scriptErr \/ scriptErr' = TRUE
  BY DEF Connector, ConnectRuns, ConnectMarks, ReplayReads, ReplayMisses, ReplayWrites, ReplayFails, ReplayEnds,
         LoopRuns, LoopWakes, LoopDials, LoopDialFails, LoopStops, ConnectDials, ConnectFails, walVars
<1>2. /\ kpc \in [Connectors -> {"idle", "due", "mark", "read", "replay", "exit"}]
      /\ todo \in [Connectors -> Seq(Events)] /\ "loop" \in Connectors
  BY DEF WriterShape, WriterTypeOK, Connectors
<1>3. mode = "sync" /\ connected' /\ ~scriptErr' /\ ~scriptErr /\ \A j \in Connectors : kpc'[j] # "read"
  BY <1>1 DEF InStep
<1>4. CASE ConnectMarks(k)
  BY <1>2, <1>3, <1>4 DEF ConnectMarks
<1>5. CASE ReplayReads(k)
  <2>1. acked \subseteq Elements(written)
    BY <1>3, DurableIsLogged DEF LogInv, SyncIsDurable
  <2>2. todo'[k] = written
    BY <1>2, <1>5 DEF ReplayReads
  <2>3. QED
    BY <1>1, <2>1, <2>2 DEF Traced
<1>6. ASSUME kpc' = kpc \/ \E j \in Connectors : kpc[j] # "read" /\ \E p : kpc' = [kpc EXCEPT ![j] = p],
             connected' = connected
      PROVE  Traced(e)
  <2>1. \A j \in Connectors : kpc[j] # "read"
    BY <1>2, <1>3, <1>6
  <2>2. QED
    BY <1>1, <1>3, <1>6, <2>1 DEF InStep, AccountedFor
<1>7. CASE ReplayWrites(k)
  <2>1. /\ db' = db \cup Elements(Chunk(todo[k])) /\ todo' = [todo EXCEPT ![k] = AfterChunk(@)]
        /\ kpc' = kpc /\ connected' = connected /\ unread' = unread
    BY <1>7 DEF ReplayWrites
  <2>2. Traced(e)
    BY <1>6, <2>1
  <2>3. todo[k] \in Seq(Events)
    BY <1>2
  <2>4. Elements(todo[k]) \subseteq Elements(Chunk(todo[k])) \cup Elements(AfterChunk(todo[k]))
    BY <2>3, ChunkAndRest
  <2>5. \A j \in Connectors : e \in Elements(todo[j]) => e \in Elements(todo'[j]) \/ e \in db'
    BY <1>2, <2>1, <2>4
  <2>6. QED
    BY <1>1, <2>1, <2>2, <2>5 DEF Traced
<1>8. CASE ReplayFails(k)
  BY <1>3, <1>8 DEF ReplayFails
<1>9. CASE ReplayEnds(k)
  <2>1. kpc[k] # "read" /\ kpc' = [kpc EXCEPT ![k] = "idle"] /\ connected' = connected
        /\ todo' = todo /\ db' = db /\ unread' = unread
    BY <1>9 DEF ReplayEnds
  <2>2. Traced(e)
    BY <1>6, <2>1
  <2>3. QED
    BY <1>1, <2>1, <2>2 DEF Traced
<1>10. CASE LoopRuns
  <2>1. /\ kpc["loop"] \in {"idle", "due"} /\ \E p : kpc' = [kpc EXCEPT !["loop"] = p]
        /\ connected' = connected /\ todo' = todo /\ db' = db /\ unread' = unread
    BY <1>10 DEF LoopRuns, LoopWakes, LoopDials, LoopDialFails, LoopStops, ConnectDials, ConnectFails
  <2>2. Traced(e)
    BY <1>2, <1>6, <2>1
  <2>3. QED
    BY <1>1, <2>1, <2>2 DEF Traced
<1>11. CASE ReplayMisses(k)
  <2>0. acked \subseteq Elements(written)
    BY <1>3, DurableIsLogged DEF LogInv, SyncIsDurable
  <2>1. e \in Elements(written) /\ written \in Seq(Events)
    BY <1>1, <2>0, LogTypes DEF LogInv
  <2>2. PICK i \in 0 .. Len(written), j \in 0 .. Len(written) :
          /\ i < j
          /\ todo' = [todo EXCEPT ![k] = SubSeq(written, 1, i) \o SubSeq(written, j + 1, Len(written))]
          /\ unread' = Elements(SubSeq(written, i + 1, j))
    BY <1>11 DEF ReplayMisses
  <2>3. todo'[k] = SubSeq(written, 1, i) \o SubSeq(written, j + 1, Len(written)) /\ k \in Connectors
    BY <1>2, <2>2
  <2>4. Elements(written) \subseteq Elements(todo'[k]) \cup unread'
    BY <2>1, <2>2, <2>3, PassedOver
  <2>5. QED
    BY <1>1, <2>1, <2>4 DEF Traced
<1>12. QED
  BY <1>4, <1>5, <1>7, <1>8, <1>9, <1>10, <1>11 DEF Connector, ConnectRuns

LEMMA MainKeepsAccount ==
  ASSUME LogInv, WriterShape, AccountedFor, MainRuns \/ StopBegins
  PROVE  AccountedFor'
<1> USE DEF writerVars, handlerVars, flushVars, connectVars, errVars, procVars, walVars
<1> SUFFICES ASSUME InStep', NEW e \in acked' PROVE Traced(e)'
  BY DEF AccountedFor
<1>1. ~WriterStops
  BY DEF InStep, WriterStops
<1>2. /\ mode' = mode /\ acked' = acked /\ hev' = hev /\ batch' = batch /\ toWrite' = toWrite
      /\ todo' = todo /\ db' = db /\ connected' = connected /\ scriptErr' = scriptErr
      /\ unread' = unread
      /\ kpc' = kpc \/ (kpc["main"] = "idle" /\ \E p : kpc' = [kpc EXCEPT !["main"] = p])
  <2>1. CASE MainConnects
    BY <2>1 DEF MainConnects, ConnectDials, WriterShape, MainHasNotDialled
  <2>2. CASE MainGivesUp
    BY <2>2 DEF MainGivesUp, ConnectFails, WriterShape, MainHasNotDialled
  <2>3. CASE MainListens \/ StopBegins
    BY <2>3 DEF MainListens, StopBegins
  <2>4. CASE LogStops
    BY <2>4 DEF LogStops, WalStop
  <2>5. QED
    BY <1>1, <2>1, <2>2, <2>3, <2>4 DEF MainRuns
<1>3. "main" \in Connectors /\ kpc \in [Connectors -> {"idle", "due", "mark", "read", "replay", "exit"}]
  BY DEF WriterShape, WriterTypeOK, Connectors
<1>4. InStep
  BY <1>2, <1>3 DEF InStep
<1>5. QED
  BY <1>2, <1>4 DEF AccountedFor, Traced

LEMMA AccountStep ==
  ASSUME LogInv, WriterShape, AccountedFor, [StorageNext]_storageVars
  PROVE  AccountedFor'
<1>1. ASSUME UNCHANGED <<mode, acked, writerVars>> PROVE AccountedFor'
  BY <1>1 DEF AccountedFor, InStep, Traced, writerVars, handlerVars, flushVars, connectVars, errVars
<1>2. CASE MainRuns \/ StopBegins
  BY <1>2, MainKeepsAccount
<1>3. ASSUME NEW h \in Handlers, Up, Handler(h) PROVE AccountedFor'
  BY <1>3, HandlerKeepsAccount
<1>4. ASSUME NEW f \in Flushers, Flusher(f) PROVE AccountedFor'
  BY <1>4, FlusherKeepsAccount
<1>5. ASSUME NEW k \in Connectors, Connector(k) PROVE AccountedFor'
  BY <1>5, ConnectorKeepsAccount
<1>6. CASE LoopRuns
  BY <1>6, ConnectorKeepsAccount DEF Connectors
<1>7. CASE LogFlushes \/ LogRotates
  <2>1. (Flush \/ RotationTick) /\ UNCHANGED writerVars
    BY <1>7 DEF LogFlushes, LogRotates
  <2>2. mode' = mode /\ acked' = acked
    BY <2>1 DEF Flush, RotationTick
  <2>3. QED
    BY <1>1, <2>1, <2>2
<1>8. CASE StorageOver \/ UNCHANGED storageVars
  BY <1>1, <1>8 DEF StorageOver, storageVars, walVars
<1>9. CASE Restart \/ ProcessCrash \/ MachineCrash
  BY <1>9 DEF Restart, ProcessCrash, MachineCrash, StartsWith, AccountedFor, InStep
<1>10. QED
  BY <1>2, <1>3, <1>4, <1>5, <1>6, <1>7, <1>8, <1>9 DEF StorageNext

(* dolphindb.go: with a synchronous log, a connected writer whose scripts  *)
(* succeed has every accepted event in DolphinDB or on its way, however    *)
(* Write, the flushes and Connect with its replay interleave; a replay that*)
(* cannot read a file, or the log, leaves out the records of it and no     *)
(* others.                                                                 *)
THEOREM WriterAccountsForTheLog == StorageSpec => []SyncAccountedFor
<1>1. StorageInit => AccountedFor
  BY DEF StorageInit, WriterInit, AccountedFor, InStep
<1>2. LogInv /\ WriterShape /\ AccountedFor /\ [StorageNext]_storageVars => AccountedFor'
  BY AccountStep
<1>3. AccountedFor => SyncAccountedFor
  BY AccountedForMeans
<1>4. QED
  BY <1>1, <1>2, <1>3, StorageShape, PTL DEF StorageSpec

-----------------------------------------------------------------------------
(***************************************************************************)
(* Refinement: the log of the storage process, with its buffer, its files, *)
(* their rotations and the restarts, is a DurableLog.                      *)
(***************************************************************************)

LEMMA PrefixIsSubSeq ==
  ASSUME NEW S, NEW s \in Seq(S), NEW t \in Seq(S), Prefix(s, t)
  PROVE  /\ s = SubSeq(t, 1, Len(s))
         /\ Len(s) \in 0 .. Len(t)
<1>1. Len(s) \in Nat /\ Len(t) \in Nat /\ Len(s) <= Len(t)
  BY LenProperties DEF Prefix
<1>2. Len(s) \in 0 .. Len(t)
  BY <1>1
<1> DEFINE u == SubSeq(t, 1, Len(s))
<1>3. u \in Seq(S) /\ Len(u) = Len(s) /\ Prefix(u, t)
  BY <1>2, SubSeqIsPrefix
<1> HIDE DEF u
<1>4. \A i \in 1 .. Len(s) : s[i] = u[i]
  BY <1>3 DEF Prefix
<1>5. s = [i \in 1 .. Len(s) |-> s[i]] /\ u = [i \in 1 .. Len(u) |-> u[i]]
  BY <1>3, LenProperties
<1>6. s = u
  BY <1>3, <1>4, <1>5
<1>7. QED
  BY <1>2, <1>6 DEF u

(* Nothing is accepted before it arrives.                                  *)
AcceptedHaveArrived == \A q \in acked : q <= arrived

LogImplInv == LogInv /\ AcceptedHaveArrived

(* The events the log writes to.                                           *)
LEMMA WritesNext ==
  ASSUME LogInv, WritesLog
  PROVE  arrived + 1 \in Events /\ arrived \in Nat /\ WritesTo(arrived + 1)
<1>1. arrived \in 0 .. MaxEvents /\ arrived < MaxEvents
  BY DEF LogInv, WritesLog
<1>2. arrived + 1 \in Events /\ arrived \in Nat
  BY <1>1, MaxEventsAssumption DEF Events
<1>3. QED
  BY <1>2, WriteWrites DEF LogInv, WritesLog

LEMMA ArrivedStep == LogImplInv /\ LogMoves => AcceptedHaveArrived'
<1> SUFFICES ASSUME LogImplInv, LogMoves PROVE AcceptedHaveArrived'
  OBVIOUS
<1>1. LogTypeOK /\ SyncUnbuffered /\ AcceptedHaveArrived /\ LogInv
  BY DEF LogImplInv, LogInv
<1>2. CASE WritesLog
  <2>1. acked' \subseteq acked \cup {arrived + 1} /\ arrived' = arrived + 1 /\ arrived \in Nat
    BY <1>1, <1>2, WritesNext DEF WritesTo, WritesLog
  <2>2. \A q \in acked : q \in Nat /\ q <= arrived
    BY <1>1, LogTypes DEF AcceptedHaveArrived, Events
  <2>3. QED
    BY <2>1, <2>2 DEF AcceptedHaveArrived
<1>3. CASE TicksLog \/ StopsLog
  BY <1>1, <1>3, TicksMove, StopMoves DEF TicksLog, StopsLog, AcceptedHaveArrived
<1>4. CASE LeavesLog
  BY <1>1, <1>4 DEF LeavesLog, AcceptedHaveArrived
<1>5. ASSUME NEW n \in synced .. Len(written), NEW m \in synced .. n, RestartsLog(n, m)
      PROVE  AcceptedHaveArrived'
  BY <1>1, <1>5 DEF RestartsLog, WalRestart, AcceptedHaveArrived
<1>6. QED
  BY <1>2, <1>3, <1>4, <1>5 DEF LogMoves

(* The next event comes after all the log has seen.                        *)
LEMMA NextArrives ==
  ASSUME LogImplInv, WritesLog
  PROVE  AbstractLog!Arrives(arrived + 1)
<1>1. LogInv /\ LogTypeOK /\ AcceptedHaveArrived /\ Sorted(Log, arrived) /\ arrived \in Nat
  BY WritesNext DEF LogImplInv, LogInv, AppendedInOrder
<1>2. \A q \in acked : q < arrived + 1
  BY <1>1, LogTypes DEF AcceptedHaveArrived, Events
<1>3. \A i \in DOMAIN Log : Log[i] \in 1 .. arrived
  BY <1>1, LenProperties, ElementOfSeq DEF Sorted
<1>4. \A i \in DOMAIN Log : Log[i] < arrived + 1
  BY <1>1, <1>3
<1>5. QED
  BY <1>2, <1>4 DEF AbstractLog!Arrives, Log

(* What Moves says is what the abstract log may lose.                      *)
LEMMA MovesLoseAnEnd ==
  ASSUME LogTypeOK, NEW l \in Seq(Events), Moves(l)
  PROVE  AbstractLog!LosesAnEnd(l)
<1>1. /\ LogTypeOK' /\ Prefix(Log', l) /\ synced \in 0 .. Len(written)
      /\ synced' \in synced .. Len(written')
  BY LogTypes DEF Moves
<1>2. written' \in Seq(Events) /\ buf' \in Seq(Events) /\ Len(written') \in Nat /\ Len(buf') \in Nat
  BY <1>1, LenProperties DEF LogTypeOK, WalTypeOK
<1>3. Log' \in Seq(Events) /\ Len(Log') = Len(written') + Len(buf')
  BY <1>2, ConcatProperties DEF Log
<1>4. Log' = SubSeq(l, 1, Len(Log')) /\ Len(Log') \in 0 .. Len(l)
  BY <1>1, <1>3, PrefixIsSubSeq
<1>5. synced \in Nat /\ synced' \in synced .. Len(Log') /\ Len(l) \in Nat
  BY <1>1, <1>2, <1>3, LogTypes, LenProperties
<1>6. Len(Log') \in synced .. Len(l)
  BY <1>4, <1>5
<1>7. QED
  BY <1>4, <1>5, <1>6 DEF AbstractLog!LosesAnEnd, Log

LEMMA MovesBecome ==
  ASSUME LogTypeOK, NEW l \in Seq(Events), Moves(l), starts' = starts,
         (Writable /\ faults' = faults) => Writable'
  PROVE  AbstractLog!Becomes(l)
<1>1. AbstractLog!LosesAnEnd(l)
  BY MovesLoseAnEnd
<1>2. faults' \in faults .. faults + 1
  BY LogTypes DEF Moves
<1>3. QED
  BY <1>1, <1>2 DEF AbstractLog!Becomes, AbstractLog!Sound, Moves, Log

(* A step that leaves the records where they are.                          *)
LEMMA StillMaintains ==
  ASSUME LogTypeOK, written' = written, buf' = buf, synced' = synced,
         acked' = acked, mode' = mode, starts' = starts, faults' \in {faults, faults + 1},
         (Writable /\ faults' = faults) => Writable'
  PROVE  AbstractLog!Maintain
<1>1. Log' = Log /\ Log \in Seq(Events) /\ SubSeq(Log, 1, Len(Log)) = Log /\ Len(Log) \in Nat
  BY LogTypes, LenProperties, SubSeqFull DEF Log
<1>2. Len(Log) = Len(written) + Len(buf) /\ Len(buf) \in Nat /\ synced \in 0 .. Len(written)
      /\ Len(written) \in Nat
  BY LogTypes, ConcatProperties DEF Log
<1>3. Len(Log) \in synced .. Len(Log) /\ synced' \in synced .. Len(Log')
  BY <1>1, <1>2
<1>4. faults' \in faults .. faults + 1
  BY LogTypes
<1>5. AbstractLog!LosesAnEnd(Log)
  BY <1>1, <1>3 DEF AbstractLog!LosesAnEnd, Log
<1>6. QED
  BY <1>1, <1>4, <1>5 DEF AbstractLog!Maintain, AbstractLog!Becomes, AbstractLog!Sound, Log

LEMMA WriteAccepts ==
  ASSUME LogImplInv, WritesLog, WalWrite(arrived + 1)
  PROVE  AbstractLog!Accept(arrived + 1)
<1> DEFINE e == arrived + 1
<1>1. /\ LogTypeOK /\ SyncUnbuffered /\ e \in Events /\ WritesTo(e) /\ AbstractLog!Arrives(e)
      /\ WalWrite(e)
  BY WritesNext, NextArrives DEF LogImplInv, LogInv
<1>2. starts' = starts
  BY DEF WritesLog, procVars
<1> HIDE DEF e
<1>3. acked' = acked \cup {e}
  BY <1>1 DEF WalWrite, SyncWrite, BatchedWrite, BatchedWriteRotates
<1>4. AbstractLog!Becomes(Append(Log, e))
  <2>1. Append(Log, e) \in Seq(Events)
    BY <1>1, LogTypes, AppendProperties
  <2>2. QED
    BY <1>1, <1>2, <2>1, MovesBecome DEF WritesTo
<1>5. mode = "sync" => Log' = Append(Log, e) /\ synced' = Len(Log')
  <2> SUFFICES ASSUME mode = "sync" PROVE Log' = Append(Log, e) /\ synced' = Len(Log')
    OBVIOUS
  <2>1. written' = Append(written, e) /\ synced' = Len(written') /\ buf = <<>> /\ buf' = <<>>
    BY <1>1 DEF WalWrite, SyncWrite, BatchedWrite, BatchedWriteRotates, SyncUnbuffered
  <2>2. written' \in Seq(Events) /\ written \in Seq(Events)
    BY <1>1, <2>1, LogTypes, AppendProperties
  <2>3. Log' = written' /\ Log = written
    BY <2>1, <2>2, ConcatEmptySeq DEF Log
  <2>4. QED
    BY <2>1, <2>3
<1>6. QED
  BY <1>1, <1>3, <1>4, <1>5 DEF AbstractLog!Accept, Log, e

LEMMA WriteRejects ==
  ASSUME LogImplInv, WritesLog, WalWriteFails(arrived + 1)
  PROVE  AbstractLog!Reject(arrived + 1) \/ AbstractLog!Maintain
<1> DEFINE e == arrived + 1
<1>1. /\ LogTypeOK /\ SyncUnbuffered /\ e \in Events /\ WritesTo(e) /\ AbstractLog!Arrives(e)
      /\ SyncWriteFails(e) \/ BatchedWriteFails
  BY WritesNext, NextArrives DEF LogImplInv, LogInv, WalWriteFails
<1>2. starts' = starts /\ mode' = mode /\ faults' \in {faults, faults + 1}
      /\ ((Writable /\ faults' = faults) => Writable')
  BY <1>1 DEF WritesLog, procVars, WritesTo, Moves
<1> HIDE DEF e
<1>3. buf' = buf /\ synced' = synced /\ acked' = acked /\ file' = file
  BY <1>1 DEF SyncWriteFails, BatchedWriteFails
<1>4. CASE written' = written
  BY <1>1, <1>2, <1>3, <1>4, StillMaintains
<1>5. CASE written' # written
  <2>1. /\ mode = "sync" /\ Writable /\ Fault /\ written' = Append(written, e) /\ sticky' = sticky
    BY <1>1, <1>5 DEF SyncWriteFails, BatchedWriteFails
  <2>2. buf = <<>> /\ written \in Seq(Events) /\ written' \in Seq(Events)
    BY <1>1, <2>1, LogTypes, AppendProperties DEF SyncUnbuffered
  <2>3. Log' = Append(Log, e)
    BY <1>3, <2>1, <2>2, ConcatEmptySeq DEF Log
  <2>4. faults' = faults + 1 /\ Writable' = Writable
    BY <1>3, <2>1 DEF Fault, Writable
  <2>5. QED
    BY <1>1, <1>2, <1>3, <2>3, <2>4 DEF AbstractLog!Reject, Log, e
<1>6. QED
  BY <1>4, <1>5

(* The log is closed when all it holds that it accepted is on the disk, or *)
(* when something has gone wrong.                                          *)
LEMMA StopCloses ==
  ASSUME LogImplInv, StopsLog
  PROVE  AbstractLog!Close \/ AbstractLog!Maintain
<1>1. /\ LogTypeOK /\ SyncUnbuffered /\ SyncIsDurable /\ Sorted(Log, arrived)
      /\ WalStop /\ starts' = starts
  BY DEF LogImplInv, LogInv, AppendedInOrder, StopsLog
<1>2. Moves(Log) /\ acked' = acked /\ file' = "closed" /\ mode' = mode
  BY <1>1, StopMoves DEF Moves
<1>3. CASE ~(Writable /\ faults' = faults)
  BY <1>1, <1>2, <1>3, LogTypes, MovesBecome DEF AbstractLog!Maintain, Log
<1>4. CASE Writable /\ faults' = faults
  <2>1. Log' = Log /\ ~Writable'
    BY <1>2, <1>4 DEF Moves, Writable
  <2>2. \A i \in DOMAIN Log : Log[i] \in acked => i <= synced'
    <3>1. CASE mode = "batched"
      <4>1. FlushLocked /\ ~Fault
        BY <1>1, <1>4, <3>1, LogTypes DEF WalStop, Fault
      <4>2. written' = Log /\ synced' = Len(written')
        BY <1>4, <4>1 DEF FlushLocked, Log
      <4>3. QED
        BY <1>1, <4>2, LogTypes, LenProperties
    <3>2. CASE mode = "sync"
      <4>1. synced' = synced /\ buf = <<>> /\ acked \subseteq Durable
        BY <1>1, <3>2 DEF WalStop, SyncUnbuffered, SyncIsDurable
      <4>2. Log = written /\ synced \in 0 .. Len(Log) /\ Len(Log) \in Nat /\ Log \in Seq(Events)
            /\ DOMAIN Log = 1 .. Len(Log)
        BY <1>1, <4>1, LogTypes, ConcatEmptySeq, LenProperties DEF Log
      <4> DEFINE u == SubSeq(Log, 1, synced)
      <4>3. u \in Seq(Events) /\ Len(u) = synced /\ Prefix(u, Log) /\ acked \subseteq Elements(u)
        BY <4>1, <4>2, SubSeqIsPrefix DEF Durable
      <4> HIDE DEF u
      <4>4. ASSUME NEW i \in DOMAIN Log, Log[i] \in acked PROVE i <= synced
        <5>1. PICK j \in 1 .. Len(u) : Log[i] = u[j]
          BY <4>3, <4>4, ElementsByIndex
        <5>2. j \in 1 .. Len(Log) /\ j <= synced /\ Log[j] = Log[i] /\ i \in 1 .. Len(Log)
          BY <4>2, <4>3, <5>1 DEF Prefix
        <5>3. /\ i < j => Log[i] < Log[j]
              /\ j < i => Log[j] < Log[i]
          BY <1>1, <5>2 DEF Sorted
        <5>4. Log[i] \in 1 .. MaxEvents
          BY <4>2, <5>2, ElementOfSeq DEF Events
        <5>5. QED
          BY <4>2, <5>2, <5>3, <5>4
      <4>5. QED
        BY <4>1, <4>4
    <3>3. mode \in {"sync", "batched"}
      BY <1>1, ModesAssumption DEF LogTypeOK, WalTypeOK
    <3>4. QED
      BY <3>1, <3>2, <3>3
  <2>3. AbstractLog!LosesAnEnd(Log)
    BY <1>1, <1>2, LogTypes, MovesLoseAnEnd
  <2>4. synced' \in synced .. Len(Log)
    BY <2>1, <2>3 DEF AbstractLog!LosesAnEnd, Log
  <2>5. QED
    BY <1>1, <1>2, <1>4, <2>1, <2>2, <2>4 DEF AbstractLog!Close, AbstractLog!Sound, Log
<1>5. QED
  BY <1>3, <1>4

(* A crash, or a start after a shutdown, takes at most an end that is not  *)
(* on the disk.                                                            *)
LEMMA RestartStarts ==
  ASSUME LogInv, NEW n \in synced .. Len(written), NEW m \in synced .. n, RestartsLog(n, m)
  PROVE  AbstractLog!Start
<1>1. /\ LogTypeOK
      /\ file' = "open" /\ sticky' = FALSE /\ buf' = <<>>
      /\ written' = SubSeq(written, 1, n) /\ synced' = m
      /\ mode' = mode /\ faults' = faults /\ acked' = acked /\ starts' = starts + 1
  BY DEF LogInv, RestartsLog, WalRestart, NextFileOpens
<1>2. /\ n \in 0 .. Len(written) /\ synced \in Nat /\ Len(written) \in Nat /\ Len(buf) \in Nat
      /\ written \in Seq(Events) /\ buf \in Seq(Events) /\ Log \in Seq(Events)
  BY <1>1, LogTypes
<1>3. /\ written' \in Seq(Events) /\ Len(written') = n /\ Prefix(written', written)
      /\ Log' = written'
  BY <1>1, <1>2, SubSeqIsPrefix, ConcatEmptySeq DEF Log
<1>4. Prefix(written, Log) /\ Len(Log) = Len(written) + Len(buf)
  BY <1>2, PrefixOfConcat, ConcatProperties DEF Log
<1>5. Prefix(Log', Log)
  BY <1>2, <1>3, <1>4, PrefixTransitive
<1>6. Log' = SubSeq(Log, 1, n)
  BY <1>2, <1>3, <1>5, PrefixIsSubSeq
<1>7. n \in synced .. Len(Log) /\ synced' \in synced .. Len(Log')
  BY <1>1, <1>2, <1>3, <1>4
<1>8. AbstractLog!LosesAnEnd(Log)
  BY <1>6, <1>7 DEF AbstractLog!LosesAnEnd, Log
<1>9. Writable' = TRUE
  BY <1>1 DEF Writable
<1>10. QED
  BY <1>1, <1>8, <1>9 DEF AbstractLog!Start, Log

LEMMA AbstractStep ==
  ASSUME LogImplInv, [StorageNext]_storageVars
  PROVE  AbstractLog!LogNext
<1>1. LogMoves /\ LogInv /\ LogTypeOK /\ SyncUnbuffered
  BY LogView DEF LogImplInv, LogInv
<1>2. CASE WritesLog
  BY <1>1, <1>2, WritesNext, WriteAccepts, WriteRejects DEF WritesLog, AbstractLog!LogNext
<1>3. CASE TicksLog
  <2>1. /\ Moves(Log) /\ acked' = acked /\ starts' = starts
        /\ (Writable /\ faults' = faults) => Writable'
    BY <1>1, <1>3, TicksMove DEF TicksLog, procVars
  <2>2. AbstractLog!Becomes(Log)
    BY <1>1, <2>1, LogTypes, MovesBecome
  <2>3. QED
    BY <2>1, <2>2 DEF AbstractLog!Maintain, AbstractLog!LogNext, Log
<1>4. CASE StopsLog
  BY <1>4, StopCloses DEF AbstractLog!LogNext
<1>5. CASE LeavesLog
  <2>1. /\ written' = written /\ buf' = buf /\ synced' = synced /\ acked' = acked
        /\ mode' = mode /\ starts' = starts /\ faults' \in {faults, faults + 1}
        /\ (Writable => Writable')
    BY <1>5 DEF LeavesLog, Fault, Writable
  <2>2. QED
    BY <1>1, <2>1, StillMaintains DEF AbstractLog!LogNext
<1>6. ASSUME NEW n \in synced .. Len(written), NEW m \in synced .. n, RestartsLog(n, m)
      PROVE  AbstractLog!LogNext
  BY <1>1, <1>6, RestartStarts DEF AbstractLog!LogNext
<1>7. QED
  BY <1>1, <1>2, <1>3, <1>4, <1>5, <1>6 DEF LogMoves

LEMMA LogImplInvariant ==
  /\ StorageSpec => []LogImplInv
  /\ StorageInit => AbstractLog!LogInit
<1>1. StorageInit => AbstractLog!LogInit /\ LogImplInv
  <2> SUFFICES ASSUME StorageInit PROVE AbstractLog!LogInit /\ LogImplInv
    OBVIOUS
  <2>1. LogInv
    BY LogInit
  <2>2. /\ buf = <<>> /\ written = <<>> /\ synced = 0 /\ faults = 0 /\ acked = {}
        /\ file = "open" /\ sticky = FALSE /\ starts = 0 /\ arrived = 0
    BY DEF StorageInit, WalInit, WriterInit
  <2>3. <<>> \o <<>> = <<>>
    BY EmptySeq, ConcatEmptySeq
  <2>4. QED
    BY <2>1, <2>2, <2>3 DEF AbstractLog!LogInit, LogImplInv, AcceptedHaveArrived, Writable
<1>2. LogImplInv /\ [StorageNext]_storageVars => LogImplInv'
  BY LogStep, LogView, ArrivedStep DEF LogImplInv, LogInv
<1>3. QED
  BY <1>1, <1>2, PTL DEF StorageSpec

(* wal.go and wal_batched.go behind their handlers, tickers, rotations and *)
(* restarts are the abstract log: its records stay in the order they came, *)
(* each once; what is on the disk stays; and of the rest only a crash, an  *)
(* I/O error or a log that cannot be written any more takes an end.        *)
THEOREM StorageImplementsLog == StorageSpec => IsDurableLog
<1>1. LogImplInv /\ [StorageNext]_storageVars
        => [AbstractLog!LogNext]_(AbstractLog!logVars)
  BY AbstractStep
<1>2. QED
  BY <1>1, LogImplInvariant, PTL DEF StorageSpec, IsDurableLog, AbstractLog!LogSpec

(* What the refinement says from one state to the next, in both modes: a   *)
(* record that is on stable storage stays where it is in the log, and on   *)
(* stable storage.                                                         *)
StableStay ==
  /\ synced' >= synced
  /\ \A i \in 1 .. synced : i \in DOMAIN (written \o buf)' /\ (written \o buf)'[i] = (written \o buf)[i]

LEMMA LosingAnEndKeeps ==
  ASSUME Log \in Seq(Events), synced \in 0 .. Len(Log),
         NEW l \in Seq(Events), Prefix(Log, l), NEW n \in synced .. Len(l),
         Log' = SubSeq(l, 1, n), synced' \in synced .. Len(Log')
  PROVE  StableStay
<1>1. Len(Log) \in Nat /\ Len(l) \in Nat /\ Len(Log) <= Len(l)
  BY LenProperties DEF Prefix
<1>2. n \in 0 .. Len(l) /\ synced <= n
  BY <1>1
<1>3. Log' \in Seq(Events) /\ Len(Log') = n /\ Prefix(Log', l)
  BY <1>2, SubSeqIsPrefix
<1>4. DOMAIN Log' = 1 .. n
  BY <1>3
<1>5. ASSUME NEW i \in 1 .. synced PROVE i \in DOMAIN Log' /\ Log'[i] = Log[i]
  <2>1. i \in 1 .. n /\ i \in 1 .. Len(Log)
    BY <1>1, <1>2
  <2>2. Log'[i] = l[i] /\ Log[i] = l[i]
    BY <1>3, <2>1 DEF Prefix
  <2>3. QED
    BY <1>4, <2>1, <2>2
<1>6. QED
  BY <1>1, <1>2, <1>3, <1>5 DEF StableStay, Log

(* A failed write, flush or rotation, a crash and a restart may each take  *)
(* an end of the log: never one that an fsync has covered.                 *)
THEOREM StableRecordsStay == StorageSpec => [][StableStay]_storageVars
<1>1. LogImplInv /\ [StorageNext]_storageVars => [StableStay]_storageVars
  <2> SUFFICES ASSUME LogImplInv, [StorageNext]_storageVars PROVE StableStay
    OBVIOUS
  <2>1. Log \in Seq(Events) /\ synced \in 0 .. Len(Log) /\ synced \in Nat
    BY LogTypes, ConcatProperties, LenProperties DEF LogImplInv, LogInv, Log
  <2>2. AbstractLog!LogNext
    BY AbstractStep
  <2>3. Prefix(Log, Log)
    BY <2>1, PrefixOfItself
  <2>4. ASSUME NEW r \in Events PROVE Append(Log, r) \in Seq(Events) /\ Prefix(Log, Append(Log, r))
    BY <2>1, PrefixOfAppend, AppendProperties
  <2>5. CASE Log' = Log /\ synced' \in synced .. Len(Log)
    BY <2>1, <2>5, LenProperties DEF StableStay, Log
  <2>6. ASSUME NEW r \in Events, AbstractLog!Accept(r) PROVE StableStay
    <3>1. /\ \E n \in synced .. Len(Append(Log, r)) : Log' = SubSeq(Append(Log, r), 1, n)
          /\ synced' \in synced .. Len(Log')
      BY <2>6 DEF AbstractLog!Accept, AbstractLog!Becomes, AbstractLog!LosesAnEnd, Log
    <3>2. QED
      BY <2>1, <2>4, <3>1, LosingAnEndKeeps
  <2>7. ASSUME NEW r \in Events, AbstractLog!Reject(r) PROVE StableStay
    <3>1. Log' = Append(Log, r) /\ synced' = synced
      BY <2>7 DEF AbstractLog!Reject, Log
    <3>2. /\ Len(Append(Log, r)) = Len(Log) + 1 /\ Len(Log) \in Nat
          /\ DOMAIN Append(Log, r) = 1 .. Len(Log) + 1
          /\ \A i \in 1 .. Len(Log) : Append(Log, r)[i] = Log[i]
      BY <2>1, AppendProperties, LenProperties
    <3>3. QED
      BY <2>1, <3>1, <3>2 DEF StableStay, Log
  <2>8. CASE AbstractLog!Maintain \/ AbstractLog!Start
    <3>1. /\ \E n \in synced .. Len(Log) : Log' = SubSeq(Log, 1, n)
          /\ synced' \in synced .. Len(Log')
      BY <2>8 DEF AbstractLog!Maintain, AbstractLog!Start, AbstractLog!Becomes, AbstractLog!LosesAnEnd, Log
    <3>2. QED
      BY <2>1, <2>3, <3>1, LosingAnEndKeeps
  <2>9. CASE AbstractLog!Close
    <3>1. Log' = Log /\ synced' \in synced .. Len(Log)
      BY <2>9 DEF AbstractLog!Close, Log
    <3>2. QED
      BY <2>5, <3>1
  <2>10. QED
    BY <2>2, <2>6, <2>7, <2>8, <2>9 DEF AbstractLog!LogNext
<1>2. QED
  BY <1>1, LogImplInvariant, PTL DEF StorageSpec
===========================================================================
