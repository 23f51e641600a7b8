---------------------------- MODULE SpoolFile ----------------------------
(***************************************************************************)
(* The bytes of src/pkg/ipc/spool.go.  A record is a header, the length of *)
(* its body, and the body, written in two writes.  append and drain hold   *)
(* the mutex from their first to their last step, so what interleaves with *)
(* them is only the death of the process, and writes and sends that fail.  *)
(* The file is a sequence of numbers: a header is one, and so is each unit *)
(* of a body, so that a body read at the wrong place is a header.          *)
(***************************************************************************)
EXTENDS Naturals, Sequences

CONSTANTS
  Bodies,      \* the bodies Send may append: sequences of numbers
  MaxFrame,    \* maxFrameSize
  MaxBytes,    \* maxBytes, the cap of the file
  MaxRecords,  \* bound: appends
  MaxTears     \* bound: crashes and failed writes inside an append, and crashes

ASSUME SpoolAssumption ==
  /\ \A b \in Bodies : b \in Seq(Nat) /\ b # <<>>
  /\ MaxFrame \in Nat \ {0} /\ MaxBytes \in Nat /\ MaxRecords \in Nat /\ MaxTears \in Nat

VARIABLES
  file,        \* the contents of the file
  curBytes,    \* what append and the client think its size is
  op,          \* who holds the mutex: "none", "append", "drain"
  body,        \* the body append is to write
  recs, at,    \* the records drain has read, and the next one to send
  appends, tears,
  accepted,    \* history: the records append returned nil for
  handedOver,  \* history: how many of them were sent at least once
  forgotten,   \* history: how many of them a truncation removed
  ragged,      \* history: the last record of the file is incomplete
  oversize,    \* history: a header above MaxFrame was written
  misframed    \* history: something was appended behind an incomplete record

fileVars == <<file, curBytes>>
opVars == <<op, body, recs, at>>
boundVars == <<appends, tears>>
histVars == <<accepted, handedOver, forgotten, ragged, oversize, misframed>>
spoolVars == <<fileVars, opVars, boundVars, histVars>>

SpoolInit ==
  /\ file = <<>> /\ curBytes = 0
  /\ op = "none" /\ body = <<>> /\ recs = <<>> /\ at = 0
  /\ appends = 0 /\ tears = 0
  /\ accepted = <<>> /\ handedOver = 0 /\ forgotten = 0
  /\ ragged = FALSE /\ oversize = FALSE /\ misframed = FALSE

SpoolTypeOK ==
  /\ file \in Seq(Nat) /\ curBytes \in 0 .. Len(file)
  /\ op \in {"none", "append", "drain"}
  /\ body \in Bodies \cup {<<>>}
  /\ recs \in Seq(Seq(Nat)) /\ at \in 0 .. Len(recs) + 1
  /\ appends \in 0 .. MaxRecords /\ tears \in 0 .. MaxTears
  /\ accepted \in Seq(Bodies)
  /\ handedOver \in 0 .. Len(accepted) /\ forgotten \in 0 .. Len(accepted)
  /\ {ragged, oversize, misframed} \subseteq BOOLEAN

-----------------------------------------------------------------------------
(* append                                                                  *)

(* ErrSpoolFull, which changes nothing, is the negation of the last guard. *)
AppendHeader(b) ==
  /\ op = "none" /\ appends < MaxRecords
  /\ curBytes + 1 + Len(b) <= MaxBytes
  /\ file' = Append(file, Len(b))
  /\ op' = "append" /\ body' = b /\ appends' = appends + 1
  /\ misframed' = (misframed \/ ragged)
  /\ oversize' = (oversize \/ Len(b) > MaxFrame)
  /\ UNCHANGED <<curBytes, recs, at, tears, accepted, handedOver, forgotten, ragged>>

(* The first write fails and leaves the fragment of a header, of which     *)
(* drain makes a length once more bytes follow: a number that nothing      *)
(* follows yet.  A write that leaves nothing changes nothing.              *)
AppendHeaderFails(b) ==
  /\ op = "none" /\ appends < MaxRecords /\ tears < MaxTears
  /\ curBytes + 1 + Len(b) <= MaxBytes
  /\ \E n \in 1 .. MaxFrame : file' = Append(file, n)
  /\ appends' = appends + 1 /\ tears' = tears + 1
  /\ misframed' = (misframed \/ ragged) /\ ragged' = TRUE
  /\ UNCHANGED <<curBytes, opVars, accepted, handedOver, forgotten, oversize>>

AppendBody ==
  /\ op = "append"
  /\ file' = file \o body
  /\ curBytes' = curBytes + 1 + Len(body)
  /\ op' = "none" /\ body' = <<>>
  /\ accepted' = IF misframed THEN accepted ELSE Append(accepted, body)
  /\ UNCHANGED <<recs, at, boundVars, handedOver, forgotten, ragged, oversize, misframed>>

(* The second write fails: what it wrote stays in the file, uncounted.     *)
AppendBodyFails ==
  /\ op = "append" /\ tears < MaxTears
  /\ \E k \in 0 .. Len(body) - 1 : file' = file \o SubSeq(body, 1, k)
  /\ op' = "none" /\ body' = <<>>
  /\ tears' = tears + 1 /\ ragged' = TRUE
  /\ UNCHANGED <<curBytes, recs, at, appends, accepted, handedOver, forgotten, oversize, misframed>>

-----------------------------------------------------------------------------
(* drain                                                                   *)

Failed == [ok |-> FALSE, recs |-> <<>>]
Before(b, rest) == IF rest.ok THEN [rest EXCEPT !.recs = <<b>> \o @] ELSE Failed

(* Mistake: a record that ends with the file counts as incomplete.         *)
DecodeShort(f) ==
  LET from[i \in 1 .. Len(f) + 1] ==
        IF i > Len(f) THEN [ok |-> TRUE, recs |-> <<>>]
        ELSE IF f[i] > MaxFrame THEN Failed
        ELSE IF i + f[i] >= Len(f) THEN [ok |-> TRUE, recs |-> <<>>]
        ELSE Before(SubSeq(f, i + 1, i + f[i]), from[i + f[i] + 1])
  IN from[1]

(* What drain reads: complete records up to the end or an incomplete one,  *)
(* nothing of an empty one, and an error, whatever came before, if a length*)
(* is above MaxFrame.                                                      *)
Decode(f) ==
  LET from[i \in 1 .. Len(f) + 1] ==
        IF i > Len(f) THEN [ok |-> TRUE, recs |-> <<>>]
        ELSE IF f[i] = 0 THEN from[i + 1]
        ELSE IF f[i] > MaxFrame THEN Failed
        ELSE IF i + f[i] > Len(f) THEN [ok |-> TRUE, recs |-> <<>>]
        ELSE Before(SubSeq(f, i + 1, i + f[i]), from[i + f[i] + 1])
  IN from[1]

(* drainLoop calls drain if the size it is told is not zero.               *)
DrainReads ==
  /\ op = "none" /\ curBytes > 0 /\ Decode(file).ok
  /\ op' = "drain" /\ recs' = Decode(file).recs /\ at' = 1
  /\ UNCHANGED <<fileVars, body, boundVars, histVars>>

(* The record handed over is the oldest that never was.                    *)
HandsOverNext ==
  /\ ~misframed
  /\ forgotten + at = handedOver + 1 /\ handedOver < Len(accepted)
  /\ recs[at] = accepted[handedOver + 1]

DrainSends ==
  /\ op = "drain" /\ at <= Len(recs)
  /\ at' = at + 1
  /\ handedOver' = IF HandsOverNext THEN handedOver + 1 ELSE handedOver
  /\ UNCHANGED <<fileVars, op, body, recs, boundVars, accepted, forgotten, ragged, oversize, misframed>>

DrainEnds == op' = "none" /\ recs' = <<>> /\ at' = 0 /\ UNCHANGED body

(* Mistake: the size is not reset.                                         *)
TruncateKeepsSize ==
  /\ file' = <<>> /\ UNCHANGED curBytes
  /\ ragged' = FALSE /\ forgotten' = Len(accepted)

Truncate ==
  /\ file' = <<>> /\ curBytes' = 0
  /\ ragged' = FALSE /\ forgotten' = Len(accepted)

(* Mistake: what was sent before the error is dropped with the rest.       *)
DrainSendFailsTruncates ==
  /\ op = "drain" /\ at <= Len(recs)
  /\ DrainEnds /\ Truncate
  /\ UNCHANGED <<boundVars, accepted, handedOver, oversize, misframed>>

DrainSendFails ==
  /\ op = "drain" /\ at <= Len(recs)
  /\ DrainEnds
  /\ UNCHANGED <<fileVars, boundVars, histVars>>

DrainTruncates ==
  /\ op = "drain" /\ at > Len(recs)
  /\ DrainEnds /\ Truncate
  /\ UNCHANGED <<boundVars, accepted, handedOver, oversize, misframed>>

-----------------------------------------------------------------------------
(* The process dies anywhere and newSpool opens the file as it is.         *)
Reopen ==
  /\ tears < MaxTears /\ tears' = tears + 1
  /\ file' = file /\ curBytes' = Len(file)
  /\ op' = "none" /\ body' = <<>> /\ recs' = <<>> /\ at' = 0
  /\ ragged' = (ragged \/ op = "append")
  /\ UNCHANGED <<appends, accepted, handedOver, forgotten, oversize, misframed>>

SpoolNext ==
  \/ \E b \in Bodies : AppendHeader(b) \/ AppendHeaderFails(b)
  \/ AppendBody \/ AppendBodyFails
  \/ DrainReads \/ DrainSends \/ DrainSendFails \/ DrainTruncates
  \/ Reopen

SpoolSpec == SpoolInit /\ [][SpoolNext]_spoolVars

-----------------------------------------------------------------------------
(* The acknowledged records that were not truncated.                       *)
Kept == SubSeq(accepted, forgotten + 1, Len(accepted))

BeginsWith(t, s) == Len(s) <= Len(t) /\ \A k \in 1 .. Len(s) : t[k] = s[k]

(***************************************************************************)
(* At any moment, between the two writes too and with an incomplete record *)
(* at the end, the file decodes to the acknowledged records that were not  *)
(* truncated, and one header above maxFrameSize makes all of it unreadable.*)
(* Whatever was appended behind an incomplete record, a drain that reads   *)
(* anything reads the records acknowledged before it, first and in order.  *)
(***************************************************************************)
FileIsAccepted ==
  LET d == Decode(file) IN
  /\ ~misframed => d = IF oversize THEN Failed ELSE [ok |-> TRUE, recs |-> Kept]
  /\ d.ok => BeginsWith(d.recs, Kept)

(* Until an append falls behind an incomplete record the file is what the  *)
(* comments of spool.go promise and what IpcClient takes it for: records   *)
(* are sent in order and none is truncated that was not sent.  From then on*)
(* nothing is promised, as if the client had been stopped.                 *)
Promise == INSTANCE Outbox WITH
  Record <- Bodies,
  forgotten <- IF misframed THEN Len(accepted) ELSE forgotten,
  stopped <- misframed

SpoolIsOutbox == Promise!OutboxSpec
==========================================================================
