------------------------------ MODULE HecProofs ------------------------------
(***************************************************************************)
(* The invariants of MySplunkHEC with a memory queue, and that it          *)
(* implements AtLeastOnce, for every set of events, all sizes and all      *)
(* bounds on the faults of the collector and the process.                  *)
(***************************************************************************)
EXTENDS Hec, MemQueueProofs

HecTypeOK ==
  /\ MemStateOK
  /\ pc \in {"ready", "flush", "getz", "held", "dead"}
  /\ accepted \in Seq(Event)
  /\ receipts \in [Event -> Nat] /\ unsure \in [Event -> Nat]
  /\ dropped \subseteq Event /\ lost \subseteq Event

(* A flush has a payload in its hand only from getz to the answer. *)
HandInFlush == HandFits /\ (pc \in {"flush", "dead"} => hand = NoBytes)

Pending == EventsOf(mq) \cup EventsIn(hand)

Received == {e \in Event : receipts[e] > 0}

Gone == dropped \cup lost

(* Where an event can be: what is pending was accepted, what was accepted is *)
(* pending or settled, and nothing happens to an event before it is seen.    *)
Accounted ==
  /\ Pending \subseteq Range(accepted)
  /\ Range(accepted) \subseteq Pending \cup Received \cup Gone
  /\ Range(accepted) \cup Received \cup Gone \subseteq seen

(* DuplicatesExplained speaks of all events.  One that is still pending must *)
(* have a timeout for every copy, as a copy more will follow.                *)
Copies ==
  \A e \in Event : receipts[e] <= unsure[e] + (IF e \in Pending THEN 0 ELSE 1)

(* InOrder rests on the batches being in the order of acceptance, which      *)
(* nothing but a whole batch ever leaves.  Events of one batch have no order *)
(* among them: the collector gets all of them or none.                       *)
OlderThan ==
  {x \in Event \X Event :
     \E k, m \in DOMAIN accepted : k < m /\ x = <<accepted[k], accepted[m]>>}

AcceptedOnce == \A k, m \in DOMAIN accepted : accepted[k] = accepted[m] => k = m

InLine == Across(mq, OlderThan) /\ EventsIn(hand) \X EventsOf(mq) \subseteq OlderThan

QueuePart ==
  /\ mq \in Seq(Good) /\ HandInFlush
  /\ MemBounded /\ RoomAfterTake /\ GetzProgress

HecIInv ==
  /\ HecTypeOK /\ QueuePart
  /\ Accounted /\ Copies
  /\ AcceptedOnce /\ InLine /\ InOrder

------------------------------------------------------------------------------
(* The queue and the hand.  With the invariant of MemQueue comes what each   *)
(* action does to the pending events and to the line they stand in.          *)

QueueActions ==
  StartFlush \/ FlushGetz \/ FlushGetzStep \/ FlushEndGetz \/ EndFlush \/ Restarted

LEMMA QuietKeeps ==
  ASSUME HecTypeOK, QueuePart, QueueActions
  PROVE  /\ QueuePart' /\ MemStateOK' /\ pc' \in {"ready", "flush", "getz", "held", "dead"}
         /\ Pending' = Pending
         /\ \A R : Across(mq, R) /\ EventsIn(hand) \X EventsOf(mq) \subseteq R =>
               Across(mq', R) /\ EventsIn(hand') \X EventsOf(mq') \subseteq R
         /\ UNCHANGED <<seen, out, refused, accepted, receipts, unsure, dropped, lost>>
<1>a. /\ Good \in SUBSET Sound /\ mq \in Seq(Good) /\ hand \in Sound /\ MemBounded
      /\ RoomAfterTake
  BY SoundProperties DEF QueuePart, HandInFlush, HandFits
<1>b. \A q \in Seq(Good) : q \in Seq(Item)
  BY SoundProperties, SoundSeq
<1>1. CASE StartFlush \/ FlushGetz \/ EndFlush \/ Restarted
  \* The hand is empty before and after, but for its length.
  <2>1. /\ UNCHANGED <<mq, seen, out, refused, accepted, receipts, unsure, dropped, lost>>
        /\ pc' \in {"ready", "flush", "getz"}
    BY <1>1 DEF StartFlush, FlushGetz, EndFlush, Restarted, queueState, collectorState
  <2>2. hand' = NoBytes /\ EventsIn(hand) = {}
    <3>1. CASE pc \in {"ready", "flush", "dead"}
      BY <1>1, <3>1, SoundProperties DEF StartFlush, FlushGetz, EndFlush, Restarted,
         queueState, QueuePart, HandInFlush, HandFits
    <3>2. CASE pc = "held" /\ hand.len = 0 /\ EndFlush
      <4>1. hand.evs = <<>> /\ hand = [evs |-> hand.evs, len |-> hand.len]
        BY <1>a, <3>2 DEF Sound, Item, WellFormed
      <4>2. hand = NoBytes /\ hand' = hand
        BY <3>2, <4>1 DEF NoBytes, EndFlush, queueState
      <4> QED
        BY <4>2, SoundProperties
    <3> QED
      BY <1>1, <3>1, <3>2 DEF StartFlush, FlushGetz, EndFlush, Restarted
  <2>3. QueuePart'
    BY <1>a, <2>1, <2>2, SoundProperties, SzAssumption DEF QueuePart, HandInFlush, HandFits, MemBounded,
       RoomAfterTake, GetzProgress
  <2>4. MemStateOK'
    BY <2>1, <2>2, SoundProperties DEF HecTypeOK, MemStateOK
  <2> QED
    BY <2>1, <2>2, <2>3, <2>4, SoundProperties DEF Pending
<1>2. CASE FlushGetzStep
  <2>1. /\ pc = "getz" /\ GetzTurn
        /\ UNCHANGED <<pc, seen, out, refused, accepted, receipts, unsure, dropped, lost>>
    BY <1>2 DEF FlushGetzStep, GetzStep, collectorState
  <2>2. /\ mq' \in Seq(Good) /\ Bytes(mq') <= MemSize /\ MemBounded'
        /\ hand' \in Sound /\ hand'.len < Sz
        /\ EventsOf(mq) = EventsIn(Head(mq)) \cup EventsOf(mq')
        /\ EventsIn(hand') = EventsIn(hand) \cup EventsIn(Head(mq))
        /\ \A R : Across(mq, R) /\ EventsIn(hand) \X EventsOf(mq) \subseteq R =>
              Across(mq', R) /\ EventsIn(hand') \X EventsOf(mq') \subseteq R
    BY <1>a, <2>1, TurnKeeps
  <2>3. HandInFlush'
    BY <2>1, <2>2, SoundProperties, SzAssumption DEF HandInFlush, HandFits, Single
  <2>4. QueuePart' /\ MemStateOK'
    BY <1>b, <2>1, <2>2, <2>3, SoundProperties DEF QueuePart, RoomAfterTake, GetzProgress,
       HecTypeOK, MemStateOK
  <2> QED
    BY <2>1, <2>2, <2>4 DEF Pending
<1>3. CASE FlushEndGetz
  <2>1. /\ pc = "getz" /\ GetzReturn /\ pc' = "held"
        /\ UNCHANGED <<seen, out, refused, accepted, receipts, unsure, dropped, lost>>
    BY <1>3 DEF FlushEndGetz, EndGetz, collectorState
  <2>2. /\ mq' \in Seq(Good) /\ MemBounded' /\ RoomAfterTake'
        /\ hand' \in Good \cup {hand}
        /\ hand'.len = 0 /\ hand' \notin Good => mq' = <<>>
        /\ EventsIn(hand') \cup EventsOf(mq') = EventsIn(hand) \cup EventsOf(mq)
        /\ \A R : Across(mq, R) /\ EventsIn(hand) \X EventsOf(mq) \subseteq R =>
              Across(mq', R) /\ EventsIn(hand') \X EventsOf(mq') \subseteq R
    BY <1>a, <2>1, ReturnKeeps
  <2>3. hand' \in Sound /\ Single(hand') /\ (hand'.len = 0 => mq' = <<>>)
    BY <1>a, <2>2, SoundProperties DEF QueuePart, HandInFlush, HandFits
  <2>4. QueuePart' /\ MemStateOK'
    BY <1>b, <2>1, <2>2, <2>3, SoundProperties DEF QueuePart, HandInFlush, HandFits, GetzProgress,
       HecTypeOK, MemStateOK
  <2> QED
    BY <2>1, <2>2, <2>4 DEF Pending
<1> QED
  BY <1>1, <1>2, <1>3 DEF QueueActions

(* What the answers do with the batch: it is forgotten or it comes back. *)
LEMMA ForgetKeeps ==
  ASSUME HecTypeOK, QueuePart, Sending, Forget, UNCHANGED <<seen, refused>>
  PROVE  /\ QueuePart' /\ MemStateOK' /\ pc' = "flush"
         /\ mq' = mq /\ EventsIn(hand') = {}
<1>1. /\ mq' = mq /\ hand' = NoBytes /\ pc' = "flush" /\ out' = out \o hand.evs
  BY DEF Forget
<1>2. out' \in Seq(Event)
  BY <1>1, ConcatProperties DEF HecTypeOK, MemStateOK, Item
<1>3. QueuePart' /\ MemStateOK'
  BY <1>1, <1>2, SoundProperties DEF QueuePart, HandInFlush, HandFits, MemBounded, RoomAfterTake,
     GetzProgress, HecTypeOK, MemStateOK
<1> QED
  BY <1>1, <1>3, SoundProperties

LEMMA RequeueKeeps ==
  ASSUME HecTypeOK, QueuePart, Sending, Requeue, UNCHANGED <<seen, refused>>
  PROVE  /\ QueuePart' /\ MemStateOK' /\ pc' = "ready"
         /\ EventsOf(mq') = EventsIn(hand) \cup EventsOf(mq) /\ EventsIn(hand') = {}
         /\ \A R : Across(mq, R) /\ EventsIn(hand) \X EventsOf(mq) \subseteq R => Across(mq', R)
<1>1. /\ MemUnget(hand) /\ hand' = NoBytes /\ pc' = "ready" /\ out' = out
      /\ hand \in Good /\ Bytes(mq) <= MemSize
      /\ Good \in SUBSET Sound /\ mq \in Seq(Good)
  BY SoundProperties DEF Sending, Requeue, QueuePart, HandInFlush, HandFits, Good, RoomAfterTake
<1>2. /\ mq' \in Seq(Good) /\ MemBounded' /\ EventsOf(mq') = EventsIn(hand) \cup EventsOf(mq)
      /\ \A R : Across(mq, R) /\ EventsIn(hand) \X EventsOf(mq) \subseteq R => Across(mq', R)
  BY <1>1, UngetKeeps
<1>3. QueuePart' /\ MemStateOK'
  BY <1>1, <1>2, SoundProperties, SoundSeq DEF QueuePart, HandInFlush, HandFits, RoomAfterTake,
     GetzProgress, HecTypeOK, MemStateOK
<1> QED
  BY <1>1, <1>2, <1>3, SoundProperties

(* A process that died starts with an empty queue. *)
LEMMA DeathKeeps ==
  ASSUME HecTypeOK, Dies
  PROVE  /\ QueuePart' /\ MemStateOK' /\ pc' = "dead" /\ Pending' = {}
         /\ \A R : Across(mq', R) /\ EventsIn(hand') \X EventsOf(mq') \subseteq R
         /\ lost' = lost \cup Pending
<1>1. /\ mq' = <<>> /\ hand' = NoBytes /\ pc' = "dead" /\ UNCHANGED <<seen, out, refused>>
      /\ lost' = lost \cup EventsOf(mq) \cup EventsIn(hand)
  BY DEF Dies
<1>2. QueuePart' /\ MemStateOK'
  BY <1>1, SoundProperties DEF QueuePart, HandInFlush, HandFits, MemBounded, RoomAfterTake,
     GetzProgress, HecTypeOK, MemStateOK
<1> QED
  BY <1>1, <1>2, AcrossEmpty, EventsEmpty, SoundProperties DEF Pending

------------------------------------------------------------------------------
(* The order of acceptance. *)

LEMMA OlderProperties ==
  ASSUME HecTypeOK, AcceptedOnce
  PROVE  /\ DOMAIN accepted = 1 .. Len(accepted) /\ Len(accepted) \in Nat
         /\ OlderThan \subseteq Range(accepted) \X Range(accepted)
         /\ \A d, e : <<d, e>> \in OlderThan => d # e /\ <<e, d>> \notin OlderThan
<1>1. DOMAIN accepted = 1 .. Len(accepted) /\ Len(accepted) \in Nat
  BY LenProperties DEF HecTypeOK
<1>2. OlderThan \subseteq Range(accepted) \X Range(accepted)
  BY DEF OlderThan, Range
<1>3. ASSUME NEW d, NEW e, <<d, e>> \in OlderThan PROVE d # e /\ <<e, d>> \notin OlderThan
  <2>1. PICK k, m \in DOMAIN accepted : k < m /\ d = accepted[k] /\ e = accepted[m]
    BY <1>3 DEF OlderThan
  <2>2. ASSUME NEW l \in DOMAIN accepted, NEW n \in DOMAIN accepted, l < n,
               e = accepted[l], d = accepted[n]
        PROVE  FALSE
    <3>1. l = m /\ n = k
      BY <2>1, <2>2 DEF AcceptedOnce
    <3> QED
      BY <1>1, <2>1, <2>2, <3>1
  <2>3. d # e
    BY <1>1, <2>1 DEF AcceptedOnce
  <2> QED
    BY <2>2, <2>3 DEF OlderThan
<1> QED
  BY <1>1, <1>2, <1>3

PairsInOrder ==
  \A d, e : <<d, e>> \in OlderThan /\ e \in Received => d \in Received \cup Gone

(* InOrder, said of pairs of events. *)
LEMMA InOrderOfPairs == HecTypeOK => (InOrder <=> PairsInOrder)
<1> SUFFICES ASSUME HecTypeOK PROVE InOrder <=> PairsInOrder
  OBVIOUS
<1>1. \A k \in DOMAIN accepted : accepted[k] \in Event
  BY ElementOfSeq, LenProperties DEF HecTypeOK
<1>2. ASSUME InOrder, NEW d, NEW e, <<d, e>> \in OlderThan, e \in Received
      PROVE  d \in Received \cup Gone
  <2>1. PICK k, m \in DOMAIN accepted : k < m /\ d = accepted[k] /\ e = accepted[m]
    BY <1>2 DEF OlderThan
  <2> QED
    BY <1>1, <1>2, <2>1 DEF InOrder, Received, Gone
<1>3. ASSUME PairsInOrder PROVE InOrder
  <2> SUFFICES ASSUME NEW k \in DOMAIN accepted, NEW m \in DOMAIN accepted, k < m,
                      receipts[accepted[m]] > 0
               PROVE  receipts[accepted[k]] > 0 \/ accepted[k] \in dropped \cup lost
    BY DEF InOrder
  <2>1. <<accepted[k], accepted[m]>> \in OlderThan /\ accepted[m] \in Received
    BY <1>1 DEF OlderThan, Received
  <2> QED
    BY <1>3, <2>1 DEF PairsInOrder, Received, Gone
<1> QED
  BY <1>2, <1>3 DEF PairsInOrder

LEMMA InOrderOfPairsNext == HecTypeOK' => (InOrder' <=> PairsInOrder')
BY InOrderOfPairs, PTL

LEMMA HandApart ==
  ASSUME HecIInv
  PROVE  EventsIn(hand) \cap EventsOf(mq) = {}
BY OlderProperties DEF HecIInv, InLine

(* The collector gets the batch in hand, or nothing: nobody is overtaken.    *)
LEMMA OrderKept ==
  ASSUME HecIInv, HecTypeOK', accepted' = accepted,
         Received \subseteq Received', Gone \subseteq Gone',
         Received' \subseteq Received \cup EventsIn(hand),
         EventsIn(hand) \subseteq Received' \cup Gone' \/ Received' = Received
  PROVE  InOrder'
<1>1. HecTypeOK /\ AcceptedOnce /\ InOrder /\ Accounted /\ InLine /\ OlderThan' = OlderThan
  BY DEF HecIInv, OlderThan
<1>2. ASSUME NEW d, NEW e, <<d, e>> \in OlderThan, e \in Received'
      PROVE  d \in Received' \cup Gone'
  <2>1. CASE e \in Received
    BY <1>1, <1>2, <2>1, InOrderOfPairs DEF PairsInOrder
  <2>2. CASE e \in EventsIn(hand) /\ e \notin Received
    <3>1. d \in Pending \cup Received \cup Gone
      BY <1>1, <1>2, OlderProperties DEF Accounted
    <3>2. d \notin EventsOf(mq)
      BY <1>1, <1>2, <2>2, OlderProperties DEF InLine
    <3>3. EventsIn(hand) \subseteq Received' \cup Gone'
      BY <1>2, <2>2
    <3> QED
      BY <3>1, <3>2, <3>3 DEF Pending
  <2> QED
    BY <1>2, <2>1, <2>2
<1> QED
  BY <1>1, <1>2, InOrderOfPairsNext DEF PairsInOrder

------------------------------------------------------------------------------
(* One lemma for each kind of step: that the invariant holds after it, and   *)
(* what it is to AtLeastOnce.                                                 *)

LEMMA AcceptStep ==
  ASSUME HecIInv, NEW e \in Event, QueueTrue(e)
  PROVE  /\ HecIInv'
         /\ e \notin Pending \cup Received \cup Gone /\ Pending' = Pending \cup {e}
         /\ Received' = Received /\ UNCHANGED <<dropped, lost>>
<1>1. /\ HecTypeOK /\ QueuePart /\ Accounted /\ Copies /\ AcceptedOnce /\ InLine /\ InOrder
  BY DEF HecIInv
<1>2. /\ MemAppend(Encoded(e)) /\ e \notin seen /\ seen' = seen \cup {e} /\ pc = "ready"
      /\ accepted' = Append(accepted, e)
      /\ UNCHANGED <<hand, pc, out, refused, receipts, unsure, dropped, lost>>
  BY DEF QueueTrue, Put, collectorState
<1>3. /\ Good \in SUBSET Sound /\ mq \in Seq(Good) /\ hand = NoBytes
      /\ Encoded(e) \in Good /\ EventsIn(Encoded(e)) = {e}
  BY <1>1, <1>2, SoundProperties, GoodEncoded DEF QueuePart, HandInFlush, HandFits
<1>4. /\ mq' \in Seq(Good) /\ MemBounded'
      /\ EventsOf(mq') = EventsOf(mq) \cup {e}
      /\ \A R : Across(mq, R) /\ EventsOf(mq) \X {e} \subseteq R => Across(mq', R)
  BY <1>2, <1>3, AppendKeeps
<1>5. /\ accepted' \in Seq(Event) /\ Len(accepted') = Len(accepted) + 1
      /\ accepted'[Len(accepted) + 1] = e
      /\ \A k \in 1 .. Len(accepted) : accepted'[k] = accepted[k]
      /\ Len(accepted) \in Nat /\ DOMAIN accepted = 1 .. Len(accepted)
      /\ DOMAIN accepted' = 1 .. Len(accepted) + 1
  BY <1>1, <1>2, AppendProperties, LenProperties DEF HecTypeOK
<1>6. Range(accepted') = Range(accepted) \cup {e}
  <2>1. \A k \in DOMAIN accepted' : k \in DOMAIN accepted \/ k = Len(accepted) + 1
    BY <1>5
  <2> QED
    BY <1>5, <2>1 DEF Range
<1>7. e \notin Pending \cup Received \cup Gone \cup Range(accepted)
  BY <1>1, <1>2 DEF Accounted
<1>8. HecTypeOK'
  BY <1>1, <1>2, <1>4, <1>5, SoundProperties, SoundSeq DEF HecTypeOK, MemStateOK
<1>9. QueuePart'
  BY <1>1, <1>2, <1>3, <1>4, SoundProperties DEF QueuePart, HandInFlush, HandFits, RoomAfterTake,
     GetzProgress
<1>10. /\ Pending' = Pending \cup {e} /\ Received' = Received /\ Gone' = Gone
  BY <1>2, <1>4 DEF Pending, Received, Gone
<1>11. Accounted'
  BY <1>1, <1>2, <1>6, <1>10 DEF Accounted
<1>12. Copies'
  <2> SUFFICES ASSUME NEW d \in Event
               PROVE  receipts[d] <= unsure[d] + (IF d \in Pending' THEN 0 ELSE 1)
    BY <1>2 DEF Copies
  <2>1. receipts[d] \in Nat /\ unsure[d] \in Nat
    BY <1>1 DEF HecTypeOK
  <2>2. CASE d = e
    BY <1>7, <2>1, <2>2 DEF Received
  <2>3. CASE d # e
    BY <1>1, <1>10, <2>1, <2>3 DEF Copies
  <2> QED
    BY <2>2, <2>3
<1>13. AcceptedOnce'
  <2>1. \A k \in DOMAIN accepted : accepted[k] \in Range(accepted)
    BY DEF Range
  <2>2. ASSUME NEW k \in DOMAIN accepted', NEW m \in DOMAIN accepted',
               accepted'[k] = accepted'[m]
        PROVE  k = m
    <3>1. /\ k \in DOMAIN accepted \/ k = Len(accepted) + 1
          /\ m \in DOMAIN accepted \/ m = Len(accepted) + 1
      BY <1>5
    <3> QED
      BY <1>1, <1>5, <1>7, <2>1, <2>2, <3>1 DEF AcceptedOnce
  <2> QED
    BY <2>2 DEF AcceptedOnce
<1>14. OlderThan' = OlderThan \cup (Range(accepted) \X {e})
  <2>1. ASSUME NEW x \in OlderThan' PROVE x \in OlderThan \cup (Range(accepted) \X {e})
    <3>1. PICK k, m \in DOMAIN accepted' : k < m /\ x = <<accepted'[k], accepted'[m]>>
      BY DEF OlderThan
    <3>2. k \in DOMAIN accepted /\ accepted'[k] = accepted[k]
      BY <1>5, <3>1
    <3>3. CASE m \in DOMAIN accepted
      <4>1. x = <<accepted[k], accepted[m]>> /\ x \in Event \X Event
        BY <1>5, <3>1, <3>2, <3>3 DEF OlderThan
      <4> QED
        BY <3>1, <3>2, <3>3, <4>1 DEF OlderThan
    <3>4. CASE m = Len(accepted) + 1
      BY <1>5, <3>1, <3>2, <3>4 DEF Range
    <3> QED
      BY <1>5, <3>3, <3>4
  <2>2. ASSUME NEW x \in OlderThan PROVE x \in OlderThan'
    <3>1. PICK k, m \in DOMAIN accepted : k < m /\ x = <<accepted[k], accepted[m]>>
      BY DEF OlderThan
    <3>2. /\ k \in DOMAIN accepted' /\ m \in DOMAIN accepted' /\ x \in Event \X Event
          /\ x = <<accepted'[k], accepted'[m]>>
      BY <1>5, <3>1 DEF OlderThan
    <3> QED
      BY <3>1, <3>2 DEF OlderThan
  <2>3. ASSUME NEW d \in Range(accepted) PROVE <<d, e>> \in OlderThan'
    <3>1. PICK k \in DOMAIN accepted : d = accepted[k]
      BY DEF Range
    <3>2. /\ k \in DOMAIN accepted' /\ Len(accepted) + 1 \in DOMAIN accepted'
          /\ k < Len(accepted) + 1 /\ <<d, e>> = <<accepted'[k], accepted'[Len(accepted) + 1]>>
      BY <1>5, <3>1
    <3>3. <<d, e>> \in Event \X Event
      BY <1>1, <3>1, ElementOfSeq, <1>5 DEF HecTypeOK
    <3> QED
      BY <3>2, <3>3 DEF OlderThan
  <2> QED
    BY <2>1, <2>2, <2>3
<1>15. InLine'
  <2>1. EventsOf(mq) \subseteq Range(accepted) /\ EventsIn(hand') = {}
    BY <1>1, <1>2, <1>3, SoundProperties DEF Accounted, Pending
  <2>2. Across(mq, OlderThan') /\ EventsOf(mq) \X {e} \subseteq OlderThan'
    BY <1>1, <1>14, <2>1 DEF InLine, Across
  <2> QED
    BY <1>4, <2>1, <2>2 DEF InLine
<1>16. InOrder'
  BY <1>1, <1>7, <1>8, <1>10, <1>14, InOrderOfPairs, InOrderOfPairsNext DEF PairsInOrder
<1> QED
  BY <1>2, <1>7, <1>8, <1>9, <1>10, <1>11, <1>12, <1>13, <1>15, <1>16 DEF HecIInv

(* Filtered and refused events are seen and no more. *)
LEMMA TurnedAwayStep ==
  ASSUME HecIInv, NEW e \in Event, QueueFalse(e) \/ QueueNone(e)
  PROVE  HecIInv' /\ Pending' = Pending /\ Received' = Received /\ UNCHANGED <<dropped, lost>>
<1>1. /\ seen' = seen \cup {e} /\ refused' \in {refused, refused \cup {e}}
      /\ UNCHANGED <<mq, hand, pc, out, accepted, receipts, unsure, dropped, lost>>
  BY DEF QueueFalse, QueueNone, PutRefused, collectorState
<1> USE <1>1 DEF HecIInv
<1>2. HecTypeOK' /\ QueuePart'
  BY DEF HecTypeOK, MemStateOK, QueuePart, HandInFlush, HandFits, MemBounded, RoomAfterTake,
     GetzProgress
<1>3. Pending' = Pending /\ Received' = Received /\ Gone' = Gone /\ OlderThan' = OlderThan
  BY DEF Pending, Received, Gone, OlderThan
<1>4. Accounted' /\ Copies' /\ AcceptedOnce' /\ InLine' /\ InOrder'
  BY <1>3 DEF Accounted, Copies, AcceptedOnce, InLine, InOrder
<1> QED
  BY <1>2, <1>3, <1>4

LEMMA UnchangedStep ==
  ASSUME HecIInv, UNCHANGED hecVars
  PROVE  HecIInv' /\ Pending' = Pending /\ Received' = Received /\ UNCHANGED <<dropped, lost>>
<1> USE DEF hecVars, HecIInv
<1>1. HecTypeOK' /\ QueuePart'
  BY DEF HecTypeOK, MemStateOK, QueuePart, HandInFlush, HandFits, MemBounded, RoomAfterTake,
     GetzProgress
<1>2. Pending' = Pending /\ Received' = Received /\ Gone' = Gone /\ OlderThan' = OlderThan
  BY DEF Pending, Received, Gone, OlderThan
<1>3. Accounted' /\ Copies' /\ AcceptedOnce' /\ InLine' /\ InOrder'
  BY <1>2 DEF Accounted, Copies, AcceptedOnce, InLine, InOrder
<1> QED
  BY <1>1, <1>2, <1>3

LEMMA QuietStep ==
  ASSUME HecIInv, QueueActions
  PROVE  HecIInv' /\ Pending' = Pending /\ Received' = Received /\ UNCHANGED <<dropped, lost>>
<1>1. /\ QueuePart' /\ MemStateOK' /\ pc' \in {"ready", "flush", "getz", "held", "dead"}
      /\ Pending' = Pending
      /\ \A R : Across(mq, R) /\ EventsIn(hand) \X EventsOf(mq) \subseteq R =>
            Across(mq', R) /\ EventsIn(hand') \X EventsOf(mq') \subseteq R
      /\ UNCHANGED <<seen, out, refused, accepted, receipts, unsure, dropped, lost>>
  BY QuietKeeps DEF HecIInv
<1>2. HecTypeOK'
  BY <1>1 DEF HecIInv, HecTypeOK
<1>3. Received' = Received /\ Gone' = Gone /\ OlderThan' = OlderThan
  BY <1>1 DEF Received, Gone, OlderThan
<1>4. InLine'
  BY <1>1, <1>3 DEF HecIInv, InLine
<1>5. Accounted' /\ Copies' /\ AcceptedOnce' /\ InOrder'
  BY <1>1, <1>3 DEF HecIInv, Accounted, Copies, AcceptedOnce, InOrder
<1> QED
  BY <1>1, <1>2, <1>3, <1>4, <1>5 DEF HecIInv

(* What the collector has got once a batch reached it. *)
LEMMA CountedProperties ==
  ASSUME NEW S \in SUBSET Event
  PROVE  /\ \A f \in [Event -> Nat] : Counted(f, S) \in [Event -> Nat]
         /\ receipts \in [Event -> Nat] /\ receipts' = Counted(receipts, S)
              => Received' = Received \cup S
         /\ receipts' = receipts => Received' = Received
<1>1. ASSUME NEW f \in [Event -> Nat] PROVE Counted(f, S) \in [Event -> Nat]
  BY DEF Counted
<1>2. ASSUME receipts \in [Event -> Nat], receipts' = Counted(receipts, S)
      PROVE  Received' = Received \cup S
  <2>1. ASSUME NEW e \in Event PROVE receipts'[e] > 0 <=> receipts[e] > 0 \/ e \in S
    <3>1. receipts'[e] = IF e \in S THEN receipts[e] + 1 ELSE receipts[e]
      BY <1>2 DEF Counted
    <3> QED
      BY <1>2, <3>1
  <2> QED
    BY <2>1 DEF Received
<1> QED
  BY <1>1, <1>2 DEF Received

(* A copy more is a timeout more, or the last copy of an event that is       *)
(* pending no longer.                                                        *)
LEMMA CopiesKept ==
  ASSUME HecTypeOK, Copies, EventsIn(hand) \subseteq Event, Pending' \subseteq Pending,
         \/ UNCHANGED <<receipts, unsure>>
         \/ /\ receipts' = Counted(receipts, EventsIn(hand))
            /\ unsure' = Counted(unsure, EventsIn(hand))
         \/ /\ receipts' = Counted(receipts, EventsIn(hand))
            /\ unsure' = unsure /\ Pending' \cap EventsIn(hand) = {}
  PROVE  Copies'
<1> SUFFICES ASSUME NEW e \in Event
             PROVE  receipts'[e] <= unsure'[e] + (IF e \in Pending' THEN 0 ELSE 1)
  BY DEF Copies
<1>1. /\ receipts[e] \in Nat /\ unsure[e] \in Nat
      /\ receipts[e] <= unsure[e] + (IF e \in Pending THEN 0 ELSE 1)
  BY DEF HecTypeOK, Copies
<1>2. \A f : Counted(f, EventsIn(hand))[e] = IF e \in EventsIn(hand) THEN f[e] + 1 ELSE f[e]
  BY DEF Counted
<1>3. e \in EventsIn(hand) => e \in Pending
  BY DEF Pending
<1> QED
  BY <1>1, <1>2, <1>3

(* The invariant after an answer, from what differs between the answers.     *)
LEMMA AnswerKeeps ==
  ASSUME HecIInv, HecTypeOK', QueuePart', InLine', Copies', UNCHANGED <<accepted, seen>>,
         Pending' \subseteq Pending, Pending \subseteq Pending' \cup Received' \cup Gone',
         Received \subseteq Received', Received' \subseteq Received \cup EventsIn(hand),
         Gone \subseteq Gone', Gone' \subseteq Gone \cup Pending,
         EventsIn(hand) \subseteq Received' \cup Gone' \/ Received' = Received
  PROVE  HecIInv'
<1>1. AcceptedOnce'
  BY DEF HecIInv, AcceptedOnce
<1>2. Accounted'
  BY DEF HecIInv, Accounted, Pending
<1>3. InOrder'
  BY OrderKept
<1> QED
  BY <1>1, <1>2, <1>3 DEF HecIInv

LEMMA SentStep ==
  ASSUME HecIInv, Sent
  PROVE  /\ HecIInv' /\ EventsIn(hand) \subseteq Pending
         /\ Received' = Received \cup EventsIn(hand) /\ UNCHANGED <<dropped, lost>>
         /\ Pending' = Pending \ EventsIn(hand)
<1>1. /\ HecTypeOK /\ QueuePart /\ Copies /\ InLine /\ EventsIn(hand) \subseteq Event
  BY SoundProperties DEF HecIInv, QueuePart, HandInFlush, HandFits
<1>2. /\ Sending /\ Forget /\ receipts' = Counted(receipts, EventsIn(hand))
      /\ UNCHANGED <<seen, refused, accepted, unsure, dropped, lost>>
  BY DEF Sent
<1>3. /\ QueuePart' /\ MemStateOK' /\ pc' = "flush" /\ mq' = mq /\ EventsIn(hand') = {}
  BY <1>1, <1>2, ForgetKeeps
<1>4. receipts' \in [Event -> Nat] /\ Received' = Received \cup EventsIn(hand)
  BY <1>1, <1>2, CountedProperties DEF HecTypeOK, Received
<1>5. HecTypeOK' /\ Gone' = Gone /\ OlderThan' = OlderThan
  BY <1>1, <1>2, <1>3, <1>4 DEF HecTypeOK, Gone, OlderThan
<1>6. Pending' = Pending \ EventsIn(hand)
  BY <1>3, HandApart DEF Pending
<1>7. Copies' /\ InLine'
  BY <1>1, <1>2, <1>3, <1>5, <1>6, CopiesKept DEF InLine
<1>8. EventsIn(hand) \subseteq Pending
  BY DEF Pending
<1> QED
  BY <1>2, <1>3, <1>4, <1>5, <1>6, <1>7, <1>8, AnswerKeeps

LEMMA RefusedStep ==
  ASSUME HecIInv, Refused400
  PROVE  /\ HecIInv' /\ EventsIn(hand) \subseteq Pending
         /\ dropped' = dropped \cup EventsIn(hand) /\ Received' = Received /\ lost' = lost
         /\ Pending' = Pending \ EventsIn(hand)
<1>1. /\ HecTypeOK /\ QueuePart /\ Copies /\ InLine /\ EventsIn(hand) \subseteq Event
  BY SoundProperties DEF HecIInv, QueuePart, HandInFlush, HandFits
<1>2. /\ Sending /\ Forget /\ dropped' = dropped \cup EventsIn(hand)
      /\ UNCHANGED <<seen, refused, accepted, receipts, unsure, lost>>
  BY DEF Refused400
<1>3. /\ QueuePart' /\ MemStateOK' /\ pc' = "flush" /\ mq' = mq /\ EventsIn(hand') = {}
  BY <1>1, <1>2, ForgetKeeps
<1>4. Gone' = Gone \cup EventsIn(hand) /\ Received' = Received /\ OlderThan' = OlderThan
  BY <1>2 DEF Gone, Received, OlderThan
<1>5. HecTypeOK'
  BY <1>1, <1>2, <1>3 DEF HecTypeOK
<1>6. Pending' = Pending \ EventsIn(hand)
  BY <1>3, HandApart DEF Pending
<1>7. Copies' /\ InLine'
  BY <1>1, <1>2, <1>3, <1>4, <1>6, CopiesKept DEF InLine
<1>8. EventsIn(hand) \subseteq Pending
  BY DEF Pending
<1> QED
  BY <1>2, <1>3, <1>4, <1>5, <1>6, <1>7, <1>8, AnswerKeeps

LEMMA DeclinedStep ==
  ASSUME HecIInv, Declined
  PROVE  /\ HecIInv' /\ EventsIn(hand) \subseteq Pending
         /\ Received' \in {Received, Received \cup EventsIn(hand)}
         /\ dropped' = dropped \cup EventsIn(hand) /\ lost' = lost
         /\ Pending' = Pending \ EventsIn(hand)
<1>1. /\ HecTypeOK /\ QueuePart /\ Copies /\ InLine /\ EventsIn(hand) \subseteq Event
  BY SoundProperties DEF HecIInv, QueuePart, HandInFlush, HandFits
<1>2. /\ Sending /\ Forget /\ dropped' = dropped \cup EventsIn(hand)
      /\ receipts' \in {receipts, Counted(receipts, EventsIn(hand))}
      /\ UNCHANGED <<seen, refused, accepted, unsure, lost>>
  BY DEF Declined
<1>3. /\ QueuePart' /\ MemStateOK' /\ pc' = "flush" /\ mq' = mq /\ EventsIn(hand') = {}
  BY <1>1, <1>2, ForgetKeeps
<1>4. /\ receipts' \in [Event -> Nat]
      /\ Received' \in {Received, Received \cup EventsIn(hand)}
  BY <1>1, <1>2, CountedProperties DEF HecTypeOK, Received
<1>5. /\ HecTypeOK' /\ Gone' = Gone \cup EventsIn(hand) /\ OlderThan' = OlderThan
  BY <1>1, <1>2, <1>3, <1>4 DEF HecTypeOK, Gone, OlderThan
<1>6. Pending' = Pending \ EventsIn(hand)
  BY <1>3, HandApart DEF Pending
<1>7. Copies' /\ InLine'
  <2>1. Pending' \cap EventsIn(hand) = {} /\ Pending' \subseteq Pending
    BY <1>6
  <2>2. Copies'
    BY <1>1, <1>2, <2>1, CopiesKept
  <2> QED
    BY <1>1, <1>3, <1>5, <2>2 DEF InLine
<1>8. EventsIn(hand) \subseteq Pending
  BY DEF Pending
<1>9. HecIInv'
  BY <1>2, <1>3, <1>4, <1>5, <1>6, <1>7, <1>8, AnswerKeeps
<1> QED
  BY <1>2, <1>4, <1>6, <1>8, <1>9

LEMMA RequeueStep ==
  ASSUME HecIInv, Failed \/ Unanswered
  PROVE  /\ HecIInv' /\ EventsIn(hand) \subseteq Pending
         /\ Received' \in {Received, Received \cup EventsIn(hand)}
         /\ UNCHANGED <<dropped, lost>> /\ Pending' = Pending
<1>1. /\ HecTypeOK /\ QueuePart /\ Copies /\ InLine /\ EventsIn(hand) \subseteq Event
  BY SoundProperties DEF HecIInv, QueuePart, HandInFlush, HandFits
<1>2. /\ Sending /\ Requeue /\ UNCHANGED <<seen, refused, accepted, dropped, lost>>
      /\ \/ UNCHANGED <<receipts, unsure>>
         \/ /\ receipts' = Counted(receipts, EventsIn(hand))
            /\ unsure' = Counted(unsure, EventsIn(hand))
  BY DEF Failed, Unanswered, collectorState
<1>3. /\ QueuePart' /\ MemStateOK' /\ pc' = "ready"
      /\ EventsOf(mq') = EventsIn(hand) \cup EventsOf(mq) /\ EventsIn(hand') = {}
      /\ \A R : Across(mq, R) /\ EventsIn(hand) \X EventsOf(mq) \subseteq R => Across(mq', R)
  BY <1>1, <1>2, RequeueKeeps
<1>4. /\ receipts' \in [Event -> Nat] /\ unsure' \in [Event -> Nat]
      /\ Received' \in {Received, Received \cup EventsIn(hand)}
  BY <1>1, <1>2, CountedProperties DEF HecTypeOK, Received
<1>5. HecTypeOK' /\ Gone' = Gone /\ OlderThan' = OlderThan
  BY <1>1, <1>2, <1>3, <1>4 DEF HecTypeOK, Gone, OlderThan
<1>6. Pending' = Pending /\ EventsIn(hand) \subseteq Pending
  BY <1>3 DEF Pending
<1>7. Copies'
  BY <1>1, <1>2, <1>6, CopiesKept
<1>8. InLine'
  BY <1>1, <1>3, <1>5 DEF InLine
<1> QED
  BY <1>2, <1>3, <1>4, <1>5, <1>6, <1>7, <1>8, AnswerKeeps

LEMMA DeathStep ==
  ASSUME HecIInv, Uncaught \/ Killed
  PROVE  /\ HecIInv' /\ EventsIn(hand) \subseteq Pending
         /\ Received' \in {Received, Received \cup EventsIn(hand)}
         /\ dropped' = dropped /\ lost' = lost \cup Pending /\ Pending' = {}
<1>1. /\ HecTypeOK /\ QueuePart /\ Copies /\ InLine /\ EventsIn(hand) \subseteq Event
  BY SoundProperties DEF HecIInv, QueuePart, HandInFlush, HandFits
<1>2. /\ Dies /\ receipts' \in {receipts, Counted(receipts, EventsIn(hand))}
      /\ UNCHANGED <<seen, refused, accepted, unsure, dropped>>
  BY DEF Uncaught, Killed, Dies
<1>3. /\ QueuePart' /\ MemStateOK' /\ pc' = "dead" /\ Pending' = {}
      /\ \A R : Across(mq', R) /\ EventsIn(hand') \X EventsOf(mq') \subseteq R
      /\ lost' = lost \cup Pending
  BY <1>1, <1>2, DeathKeeps
<1>4. /\ receipts' \in [Event -> Nat]
      /\ Received' \in {Received, Received \cup EventsIn(hand)}
  BY <1>1, <1>2, CountedProperties DEF HecTypeOK, Received
<1>5. /\ Gone' = Gone \cup Pending /\ EventsIn(hand) \subseteq Pending
      /\ OlderThan' = OlderThan
  BY <1>2, <1>3 DEF Gone, Pending, OlderThan
<1>6. HecTypeOK'
  <2>1. Pending \subseteq Event
    BY <1>1, RangeOfSeq DEF HecIInv, Accounted, HecTypeOK
  <2> QED
    BY <1>1, <1>2, <1>3, <1>4, <2>1 DEF HecTypeOK
<1>7. Copies'
  BY <1>1, <1>2, <1>3, CopiesKept
<1>8. InLine'
  BY <1>3 DEF InLine
<1> QED
  BY <1>2, <1>3, <1>4, <1>5, <1>6, <1>7, <1>8, AnswerKeeps

------------------------------------------------------------------------------
LEMMA HecInitHolds ==
  HecInit => HecIInv /\ Pending = {} /\ Received = {} /\ dropped = {} /\ lost = {}
<1> SUFFICES ASSUME HecInit
             PROVE  HecIInv /\ Pending = {} /\ Received = {} /\ dropped = {} /\ lost = {}
  OBVIOUS
<1> USE DEF HecInit, MemInit
<1>1. HecTypeOK
  BY SoundProperties DEF HecTypeOK, MemStateOK
<1>2. QueuePart
  BY SoundProperties DEF QueuePart, HandInFlush, HandFits, MemBounded, RoomAfterTake,
     GetzProgress
<1>3. Pending = {} /\ Received = {} /\ Gone = {}
  BY EventsEmpty DEF Pending, Received, Gone
<1>4. Accounted /\ Copies /\ AcceptedOnce /\ InLine /\ InOrder
  BY <1>3, EventsEmpty, AcrossEmpty DEF Accounted, Copies, AcceptedOnce, InLine, InOrder, Range
<1> QED
  BY <1>1, <1>2, <1>3, <1>4 DEF HecIInv

LEMMA HecStepHolds == HecIInv /\ [HecNext]_hecVars => HecIInv'
<1> SUFFICES ASSUME HecIInv, [HecNext]_hecVars PROVE HecIInv'
  OBVIOUS
<1>1. ASSUME NEW e \in Event, QueueTrue(e) PROVE HecIInv'
  BY <1>1, AcceptStep
<1>2. ASSUME NEW e \in Event, QueueFalse(e) \/ QueueNone(e) PROVE HecIInv'
  BY <1>2, TurnedAwayStep
<1>3. CASE QueueActions
  BY <1>3, QuietStep
<1>4. CASE Sent
  BY <1>4, SentStep
<1>5. CASE Refused400
  BY <1>5, RefusedStep
<1>6. CASE Failed \/ Unanswered
  BY <1>6, RequeueStep
<1>7. CASE Uncaught \/ Killed
  BY <1>7, DeathStep
<1>8. CASE UNCHANGED hecVars
  BY <1>8, UnchangedStep
<1>9. CASE Declined
  BY <1>9, DeclinedStep
<1> QED
  BY <1>1, <1>2, <1>3, <1>4, <1>5, <1>6, <1>7, <1>8, <1>9 DEF HecNext, QueueActions

LEMMA HecInductive == HecSpec => []HecIInv
BY HecInitHolds, HecStepHolds, PTL DEF HecSpec

(* The state of the returner is well typed. *)
THEOREM HecTypeCorrect == HecSpec => []HecTypeOK
<1>1. HecIInv => HecTypeOK
  BY DEF HecIInv
<1> QED
  BY <1>1, HecInductive, PTL

(* Whatever the collector and the process do, an event arrives more than     *)
(* once only for a timeout each time (hec.py:242-247, 302-309).              *)
THEOREM DuplicatesExplainedAlways == HecSpec => []DuplicatesExplained
<1>1. HecIInv => DuplicatesExplained
  <2> SUFFICES ASSUME HecIInv, NEW e \in Event PROVE receipts[e] <= 1 + unsure[e]
    BY DEF DuplicatesExplained
  <2>1. /\ receipts[e] \in Nat /\ unsure[e] \in Nat
        /\ receipts[e] <= unsure[e] + (IF e \in Pending THEN 0 ELSE 1)
    BY DEF HecIInv, HecTypeOK, Copies
  <2> QED
    BY <2>1
<1> QED
  BY <1>1, HecInductive, PTL

(* The collector gets the accepted events in the order of acceptance, but    *)
(* for those it refused or that a death took (hec.py:303-309, dq.py:68-96).  *)
THEOREM InOrderAlways == HecSpec => []InOrder
<1>1. HecIInv => InOrder
  BY DEF HecIInv
<1> QED
  BY <1>1, HecInductive, PTL

(* A flush that ends well leaves an empty queue (hec.py:290-321). *)
THEOREM FlushOkDrainsAlways == HecSpec => FlushOkDrains
<1>1. HecIInv /\ HecIInv' /\ [HecNext]_hecVars
        => [(pc \in {"flush", "held"} /\ pc' = "ready" /\ ok') => (mq' = <<>>)]_hecVars
  <2> SUFFICES ASSUME HecIInv, HecNext, pc \in {"flush", "held"}, pc' = "ready", ok'
               PROVE  mq' = <<>>
    OBVIOUS
  <2>1. EndFlush
    BY DEF HecNext, QueueTrue, QueueFalse, QueueNone, Put, PutRefused, StartFlush, FlushGetz,
       FlushGetzStep, GetzStep, FlushEndGetz, EndGetz, Sent, Refused400, Declined, Forget, Failed,
       Unanswered, Requeue, Uncaught, Killed, Dies, Restarted
  <2> QED
    BY <2>1 DEF EndFlush, queueState, HecIInv, QueuePart, GetzProgress
<1> QED
  BY <1>1, HecInductive, PTL DEF HecSpec, FlushOkDrains

(* What is accepted is pending until the collector has confirmed it, has     *)
(* answered the batch with 400 or with an error in a 2xx, or the process has *)
(* died: no other answer, and none that is missing, takes an event from the  *)
(* queue of HEC (hec.py:223-262, 289-321).                                   *)
THEOREM AtLeastOnceImplemented == HecSpec => ImplementsAtLeastOnce
<1>1. HecInit => Alo!Init
  BY HecInitHolds DEF Alo!Init, Pending, Received
<1>2. HecIInv /\ [HecNext]_hecVars => [Alo!Next]_(Alo!vars)
  <2> SUFFICES ASSUME HecIInv, [HecNext]_hecVars
               PROVE  Alo!Next \/ UNCHANGED <<Pending, Received, dropped, lost>>
    BY DEF Alo!vars, Pending, Received
  <2> USE DEF Alo!Next, Pending, Received
  <2>1. ASSUME NEW e \in Event, QueueTrue(e) PROVE Alo!Accept(e)
    BY <2>1, AcceptStep DEF Alo!Accept, Gone
  <2>2. ASSUME NEW e \in Event, QueueFalse(e) \/ QueueNone(e)
        PROVE  UNCHANGED <<Pending, Received, dropped, lost>>
    BY <2>2, TurnedAwayStep
  <2>3. CASE QueueActions
    BY <2>3, QuietStep
  <2>4. CASE Sent
    BY <2>4, SentStep DEF Alo!Deliver
  <2>5. CASE Refused400
    BY <2>5, RefusedStep DEF Alo!Decline
  <2>6. CASE Failed \/ Unanswered
    BY <2>6, RequeueStep DEF Alo!Receive
  <2>7. CASE Uncaught \/ Killed
    BY <2>7, DeathStep DEF Alo!Crash
  <2>8. CASE UNCHANGED hecVars
    BY <2>8, UnchangedStep
  <2>9. CASE Declined
    BY <2>9, DeclinedStep DEF Alo!Decline
  <2> QED
    BY <2>1, <2>2, <2>3, <2>4, <2>5, <2>6, <2>7, <2>8, <2>9 DEF HecNext, QueueActions
<1> QED
  BY <1>1, <1>2, HecInductive, PTL DEF HecSpec, ImplementsAtLeastOnce, Alo!Spec
==============================================================================
