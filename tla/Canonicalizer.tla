--------------------------- MODULE Canonicalizer ---------------------------
(***************************************************************************)
(* src/pkg/canonicalizer as the processor of the pool: Process fills an    *)
(* event from a raw message.  Events are recycled: Process acquires one    *)
(* from allocator.Pool, whoever has encoded it releases it.                *)
(*                                                                         *)
(* Of an event counts whose values it has: main is the message its scalar  *)
(* fields and its payload are from, rest are the messages its levels and   *)
(* metadata are from, which not every parser writes.                       *)
(***************************************************************************)
EXTENDS WorkerPool

CONSTANT Inputs   \* the assignments of kinds to messages that are looked at

Kinds == {"BINANCE", "IB", "L1_TICK", "L2_DEPTH", "malformed"}

ASSUME InputsAssumption == Inputs \subseteq [Msgs -> Kinds]

VARIABLES
  kind,     \* what the message is: of which source, or not parsable
  free,     \* the events in the sync.Pool
  content,  \* content[e]: what the fields of an event have
  canon     \* canon[m]: the event in the ProcessedMessage of m

eventVars == <<kind, free, content, canon>>

(* A message has at most one event at a time that anybody can reach.       *)
Events == 1 .. MaxMsgs + 1
NoEvent == 0
(* What parsers, fillUnknown and the output loop set; no input has type     *)
(* BOOK_UPDATE, which the encoding knows too.                              *)
EventTypes == {"TRADE", "QUOTE", "BOOK_SNAPSHOT", "UNKNOWN"}
Contents == [main : Msgs \cup {NoMsg}, type : EventTypes \cup {""}, rest : SUBSET Msgs]

Blank == [main |-> NoMsg, type |-> "", rest |-> {}]

EventsInit ==
  /\ kind \in Inputs
  /\ free = {} /\ content = [e \in Events |-> Blank]
  /\ canon = [m \in Msgs |-> NoEvent]

EventsTypeOK ==
  /\ kind \in Inputs
  /\ free \in SUBSET Events /\ content \in [Events -> Contents]
  /\ canon \in [Msgs -> Events \cup {NoEvent}]

-----------------------------------------------------------------------------
(* The pool of events.                                                     *)

InUse == {canon[m] : m \in Msgs} \ {NoEvent}
Allocated == CHOOSE e \in Events : e \notin free \cup InUse

(* Any event of the pool, or a new one, also when the pool is not empty.   *)
Acquirable == free \cup {Allocated}
Found(e) == IF e \in free THEN content[e] ELSE Blank

(* Mistake: the event is put back without a Reset.                         *)
ReleaseUnreset(e) ==
  /\ free' = free \cup {e}
  /\ UNCHANGED content

Release(e) ==
  /\ free' = free \cup {e}
  /\ content' = [content EXCEPT ![e] = Blank]

(* Nobody releases the event: it is garbage.                               *)
Forget(m) ==
  /\ content' = [e \in Events |-> IF e = canon[m] THEN Blank ELSE content[e]]
  /\ canon' = [canon EXCEPT ![m] = NoEvent]
  /\ UNCHANGED <<kind, free>>

-----------------------------------------------------------------------------
(* The parsers, on an event that has c.                                    *)

TypeOf == [BINANCE |-> "TRADE", IB |-> "TRADE", L1_TICK |-> "QUOTE", L2_DEPTH |-> "BOOK_SNAPSHOT"]

Parsed(c, m) ==
  [main |-> m, type |-> TypeOf[kind[m]],
   rest |-> IF kind[m] = "BINANCE" THEN c.rest ELSE c.rest \cup {m}]

(* With an error the pool drops the result, and fillUnknown was in vain.   *)
Process(m) ==
  \E e \in Acquirable :
    /\ free' = free \ {e}
    /\ IF kind[m] = "malformed"
         THEN UNCHANGED <<content, canon>>
         ELSE /\ content' = [content EXCEPT ![e] = Parsed(Found(e), m)]
              /\ canon' = [canon EXCEPT ![m] = e]
    /\ UNCHANGED kind

(* ToProto copies; an EventType it does not know becomes UNKNOWN.          *)
Encoded(c) == IF c.type = "" THEN [c EXCEPT !.type = "UNKNOWN"] ELSE c
===========================================================================
