--------------------------- MODULE MemQueueProofs ----------------------------
(***************************************************************************)
(* The invariants of MemQueue for every set of events, all sizes, and all  *)
(* limits.                                                                 *)
(***************************************************************************)
EXTENDS MemQueue, PayloadLemmas

(* What a queue may contain, and what this one does: encoded events, and     *)
(* batches that came back.  A payload at or beyond the batch limit is one    *)
(* event.                                                                    *)
Sound == {p \in Item : WellFormed(p)}

Single(p) == p.len >= Sz => Len(p.evs) = 1

Good == {p \in Sound : p.len > 0 /\ Single(p)}

(* MemBounded is not inductive: unget needs that what is left in the queue  *)
(* after a take fits in MemSize.  GetzProgress and BatchLimit need that no   *)
(* payload in the queue is empty and that the loop of getz stays below Sz.   *)
RoomAfterTake == hand.len > 0 => Bytes(mq) <= MemSize

HandFits ==
  /\ hand \in Sound /\ Single(hand)
  /\ pc = "getz" => hand.len < Sz
  /\ pc = "ready" => hand = NoBytes

MemIInv ==
  /\ MemTypeOK
  /\ mq \in Seq(Good)
  /\ HandFits
  /\ MemBounded /\ RoomAfterTake
  /\ Conserved
  /\ GetzProgress

------------------------------------------------------------------------------
(* What each method does to a queue of payloads of any sound kind G; R is a  *)
(* relation that holds from the events of each payload to those behind it.   *)

LEMMA SoundProperties ==
  /\ Good \subseteq Sound /\ Sound \subseteq Item
  /\ \A p \in Sound : WellFormed(p) /\ p.len \in Nat /\ EventsIn(p) \subseteq Event
  /\ \A p \in Good : p.len # 0 /\ Single(p)
  /\ NoBytes \in Sound /\ NoBytes.len = 0 /\ Single(NoBytes) /\ EventsIn(NoBytes) = {}
<1>1. NoBytes \in Sound /\ NoBytes.len = 0 /\ Single(NoBytes)
  BY SzAssumption DEF NoBytes, Sound, Item, WellFormed, Single
<1>2. \A p \in Sound : EventsIn(p) \subseteq Event
  BY RangeOfSeq DEF Sound, Item, EventsIn
<1> QED
  BY <1>1, <1>2, EventsEmpty DEF Good, Sound, Item

LEMMA SoundSeq ==
  ASSUME NEW G \in SUBSET Sound, NEW q \in Seq(G)
  PROVE  q \in Seq(Sound) /\ q \in Seq(Item) /\ Bytes(q) \in Nat
<1>1. q \in Seq(Sound) /\ q \in Seq(Item)
  BY SoundProperties, SeqMonotonic
<1> QED
  BY <1>1, SeqPayloads

LEMMA GoodEncoded == \A e \in Event : Encoded(e) \in Good /\ EventsIn(Encoded(e)) = {e}
<1> SUFFICES ASSUME NEW e \in Event PROVE Encoded(e) \in Good /\ EventsIn(Encoded(e)) = {e}
  OBVIOUS
<1>1. Len(Encoded(e).evs) = 1
  BY DEF Encoded
<1> QED
  BY <1>1, EncodedProperties DEF Good, Sound, Single

(* A queue that fits as a whole fits behind its first payload. *)
LEMMA WholeFits ==
  ASSUME NEW q \in Seq(Item), Bytes(q) <= MemSize, q # <<>>
  PROVE  Bytes(Tail(q)) <= MemSize
<1>1. Tail(q) \in Seq(Item) /\ Bytes(Tail(q)) <= Bytes(q)
  BY BytesTail
<1>2. Bytes(Tail(q)) \in Nat /\ Bytes(q) \in Nat
  BY <1>1, SeqPayloads
<1> QED
  BY <1>1, <1>2, MemAssumption

LEMMA AppendKeeps ==
  ASSUME NEW G \in SUBSET Sound, mq \in Seq(G), NEW p \in G, MemAppend(p)
  PROVE  /\ mq' \in Seq(G) /\ mq' # <<>> /\ Bytes(mq') <= MemSize /\ MemBounded'
         /\ EventsOf(mq') = EventsOf(mq) \cup EventsIn(p)
         /\ \A R : Across(mq, R) /\ EventsOf(mq) \X EventsIn(p) \subseteq R => Across(mq', R)
<1>1. mq' = Append(mq, p) /\ p.len + Bytes(mq) <= MemSize
  BY DEF MemAppend, MemAccepts
<1>2. mq \in Seq(Item) /\ p \in Item /\ Bytes(mq) \in Nat /\ p.len \in Nat
  BY SoundSeq, SoundProperties
<1>3. mq' \in Seq(G) /\ mq' # <<>> /\ mq' \in Seq(Item) /\ Bytes(mq') \in Nat
  <2>1. mq' \in Seq(G) /\ mq' # <<>>
    BY <1>1, AppendProperties
  <2> QED
    BY <2>1, SoundSeq
<1>4. Bytes(mq') <= MemSize
  <2>1. Bytes(mq') = Bytes(mq) + p.len
    BY <1>1, <1>2, BytesAppend
  <2> QED
    BY <1>1, <1>2, <2>1
<1>5. MemBounded'
  BY <1>3, <1>4, WholeFits DEF MemBounded
<1> QED
  BY <1>1, <1>2, <1>3, <1>4, <1>5, EventsAppend, AcrossAppend

LEMMA TakeKeeps ==
  ASSUME NEW G \in SUBSET Sound, mq \in Seq(G), MemBounded, MemPopLeft
  PROVE  /\ Head(mq) \in G /\ mq' \in Seq(G) /\ Bytes(mq') <= MemSize /\ MemBounded'
         /\ EventsOf(mq) = EventsIn(Head(mq)) \cup EventsOf(mq')
         /\ \A R : Across(mq, R) =>
               Across(mq', R) /\ EventsIn(Head(mq)) \X EventsOf(mq') \subseteq R
<1>1. mq # <<>> /\ mq' = Tail(mq) /\ mq \in Seq(Item)
  BY SoundSeq DEF MemPopLeft
<1>2. Head(mq) \in G /\ mq' \in Seq(G) /\ mq' \in Seq(Item)
  BY <1>1, HeadTailProperties, SoundSeq
<1>3. Bytes(mq') <= MemSize
  BY <1>1 DEF MemBounded
<1>4. MemBounded'
  BY <1>2, <1>3, WholeFits DEF MemBounded
<1> QED
  BY <1>1, <1>2, <1>3, <1>4, EventsTail, AcrossTail

LEMMA UngetKeeps ==
  ASSUME NEW G \in SUBSET Sound, mq \in Seq(G), NEW p \in G, MemUnget(p), Bytes(mq) <= MemSize
  PROVE  /\ mq' \in Seq(G) /\ MemBounded'
         /\ EventsOf(mq') = EventsIn(p) \cup EventsOf(mq)
         /\ \A R : Across(mq, R) /\ EventsIn(p) \X EventsOf(mq) \subseteq R => Across(mq', R)
<1>1. mq' \in Seq(G) /\ mq' # <<>> /\ Head(mq') = p /\ Tail(mq') = mq
  BY ConsProperties DEF MemUnget
<1>2. mq' \in Seq(Item)
  BY <1>1, SoundSeq
<1>3. MemBounded'
  BY <1>1 DEF MemBounded
<1> QED
  BY <1>1, <1>2, <1>3, EventsTail, AcrossTail

(* A turn of the loop of getz. *)
LEMMA TurnKeeps ==
  ASSUME NEW G \in SUBSET Sound, mq \in Seq(G), hand \in Sound, MemBounded, GetzTurn
  PROVE  /\ mq' \in Seq(G) /\ Bytes(mq') <= MemSize /\ MemBounded'
         /\ hand' \in Sound /\ hand'.len < Sz
         /\ EventsOf(mq) = EventsIn(Head(mq)) \cup EventsOf(mq')
         /\ EventsIn(hand') = EventsIn(hand) \cup EventsIn(Head(mq))
         /\ \A R : Across(mq, R) /\ EventsIn(hand) \X EventsOf(mq) \subseteq R =>
               Across(mq', R) /\ EventsIn(hand') \X EventsOf(mq') \subseteq R
<1>1. /\ MemPopLeft /\ hand' = Join(hand, Head(mq))
      /\ hand.len + SepLen + Head(mq).len < Sz
  BY DEF GetzTurn, GetzFits
<1>2. /\ Head(mq) \in G /\ mq' \in Seq(G) /\ Bytes(mq') <= MemSize /\ MemBounded'
      /\ EventsOf(mq) = EventsIn(Head(mq)) \cup EventsOf(mq')
      /\ \A R : Across(mq, R) =>
            Across(mq', R) /\ EventsIn(Head(mq)) \X EventsOf(mq') \subseteq R
  BY <1>1, TakeKeeps
<1>3. Head(mq) \in Item /\ WellFormed(Head(mq)) /\ hand \in Item /\ WellFormed(hand)
  BY <1>2, SoundProperties
<1>4. /\ hand' \in Sound /\ EventsIn(hand') = EventsIn(hand) \cup EventsIn(Head(mq))
  BY <1>1, <1>3, JoinProperties DEF Sound
<1>5. hand'.len < Sz
  BY <1>1, <1>3, SzAssumption DEF Join, SepLen, Item
<1> QED
  BY <1>2, <1>4, <1>5

(* The end of getz, with or without a payload taken as it is. *)
LEMMA ReturnKeeps ==
  ASSUME NEW G \in SUBSET Sound, mq \in Seq(G), hand \in Sound, MemBounded, RoomAfterTake,
         GetzReturn
  PROVE  /\ mq' \in Seq(G) /\ MemBounded' /\ RoomAfterTake'
         /\ hand' \in G \cup {hand}
         /\ hand'.len = 0 /\ hand' \notin G => mq' = <<>>
         /\ EventsIn(hand') \cup EventsOf(mq') = EventsIn(hand) \cup EventsOf(mq)
         /\ \A R : Across(mq, R) /\ EventsIn(hand) \X EventsOf(mq) \subseteq R =>
               Across(mq', R) /\ EventsIn(hand') \X EventsOf(mq') \subseteq R
<1>1. CASE hand.len = 0 /\ hand' = Head(mq) /\ MemPopLeft
  <2>1. /\ Head(mq) \in G /\ mq' \in Seq(G) /\ Bytes(mq') <= MemSize /\ MemBounded'
        /\ EventsOf(mq) = EventsIn(Head(mq)) \cup EventsOf(mq')
        /\ \A R : Across(mq, R) =>
              Across(mq', R) /\ EventsIn(Head(mq)) \X EventsOf(mq') \subseteq R
    BY <1>1, TakeKeeps
  <2>2. EventsIn(hand) = {}
    BY <1>1, SoundProperties DEF WellFormed, EventsIn, Range
  <2> QED
    BY <1>1, <2>1, <2>2 DEF RoomAfterTake
<1>2. CASE (hand.len > 0 \/ mq = <<>>) /\ UNCHANGED <<hand, mq>>
  <2>1. hand.len # 0 \/ mq = <<>>
    BY <1>2
  <2> QED
    BY <1>2, <2>1 DEF MemBounded, RoomAfterTake
<1> QED
  BY <1>1, <1>2 DEF GetzReturn

------------------------------------------------------------------------------
LEMMA MemInitHolds == MemInit => MemIInv
<1> SUFFICES ASSUME MemInit PROVE MemIInv
  OBVIOUS
<1> USE DEF MemInit
<1>1. MemTypeOK
  BY DEF MemTypeOK, MemStateOK, Item, NoBytes
<1>2. mq \in Seq(Good) /\ HandFits
  BY SoundProperties DEF HandFits
<1>3. MemBounded /\ RoomAfterTake /\ GetzProgress
  BY DEF MemBounded, RoomAfterTake, GetzProgress, NoBytes
<1>4. Conserved
  BY EventsEmpty DEF Conserved, Range
<1> QED
  BY <1>1, <1>2, <1>3, <1>4 DEF MemIInv

(* One step per action; what an action leaves alone is not mentioned. *)
LEMMA MemStepHolds == MemIInv /\ [MemNext]_memVars => MemIInv'
<1> SUFFICES ASSUME MemIInv, [MemNext]_memVars PROVE MemIInv'
  OBVIOUS
<1>a. Good \in SUBSET Sound /\ mq \in Seq(Good) /\ hand \in Sound
  BY SoundProperties DEF MemIInv, HandFits
<1>b. \A q \in Seq(Good) : q \in Seq(Item)
  BY SoundProperties, SoundSeq
<1> USE DEF MemIInv
<1>1. ASSUME NEW e \in Event, Put(e) PROVE MemIInv'
  <2>1. /\ Encoded(e) \in Good /\ EventsIn(Encoded(e)) = {e} /\ MemAppend(Encoded(e))
        /\ pc = "ready" /\ hand = NoBytes /\ seen' = seen \cup {e}
        /\ UNCHANGED <<hand, pc, out, refused>>
    BY <1>1, GoodEncoded DEF Put, HandFits
  <2>2. /\ mq' \in Seq(Good) /\ MemBounded'
        /\ EventsOf(mq') = EventsOf(mq) \cup EventsIn(Encoded(e))
    BY <1>a, <2>1, AppendKeeps
  <2>3. MemTypeOK' /\ Conserved'
    BY <1>b, <2>1, <2>2 DEF MemTypeOK, MemStateOK, Conserved
  <2> QED
    BY <2>1, <2>2, <2>3, SoundProperties DEF HandFits, RoomAfterTake, GetzProgress
<1>2. ASSUME NEW e \in Event, PutRefused(e) PROVE MemIInv'
  BY <1>2 DEF PutRefused, MemTypeOK, MemStateOK, HandFits, MemBounded, RoomAfterTake,
     Conserved, GetzProgress
<1>3. CASE StartGetz
  <2>1. pc = "ready" /\ hand = NoBytes /\ hand' = NoBytes /\ pc' = "getz"
        /\ UNCHANGED <<mq, seen, out, refused>>
    BY <1>3 DEF StartGetz, HandFits
  <2> QED
    BY <2>1, SzAssumption, SoundProperties DEF MemTypeOK, MemStateOK, HandFits, MemBounded,
       RoomAfterTake, Conserved, GetzProgress
<1>4. CASE GetzStep
  <2>1. pc = "getz" /\ GetzTurn /\ UNCHANGED <<pc, seen, out, refused>>
    BY <1>4 DEF GetzStep
  <2>2. /\ mq' \in Seq(Good) /\ Bytes(mq') <= MemSize /\ MemBounded'
        /\ hand' \in Sound /\ hand'.len < Sz
        /\ EventsOf(mq) = EventsIn(Head(mq)) \cup EventsOf(mq')
        /\ EventsIn(hand') = EventsIn(hand) \cup EventsIn(Head(mq))
    BY <1>a, <2>1, TurnKeeps
  <2>3. HandFits'
    BY <2>1, <2>2, SoundProperties, SzAssumption DEF HandFits, Single
  <2>4. MemTypeOK' /\ Conserved'
    BY <1>b, <2>1, <2>2, SoundProperties DEF MemTypeOK, MemStateOK, Conserved
  <2> QED
    BY <2>1, <2>2, <2>3, <2>4 DEF RoomAfterTake, GetzProgress
<1>5. CASE EndGetz
  <2>1. pc = "getz" /\ GetzReturn /\ pc' = "held" /\ UNCHANGED <<seen, out, refused>>
    BY <1>5 DEF EndGetz
  <2>2. /\ mq' \in Seq(Good) /\ MemBounded' /\ RoomAfterTake'
        /\ hand' \in Good \cup {hand}
        /\ hand'.len = 0 /\ hand' \notin Good => mq' = <<>>
        /\ EventsIn(hand') \cup EventsOf(mq') = EventsIn(hand) \cup EventsOf(mq)
    BY <1>a, <2>1, ReturnKeeps
  <2>3. hand' \in Sound /\ Single(hand') /\ (hand'.len = 0 => mq' = <<>>)
    BY <1>a, <2>2, SoundProperties DEF HandFits
  <2>4. MemTypeOK' /\ Conserved'
    BY <1>b, <2>1, <2>2, <2>3, SoundProperties DEF MemTypeOK, MemStateOK, Conserved
  <2> QED
    BY <2>1, <2>2, <2>3, <2>4 DEF HandFits, GetzProgress
<1>6. CASE Get
  <2>1. /\ pc = "ready" /\ pc' = "held" /\ MemPopLeft /\ hand' = Head(mq)
        /\ hand = NoBytes /\ UNCHANGED <<seen, out, refused>>
    BY <1>6 DEF Get, HandFits
  <2>2. /\ Head(mq) \in Good /\ mq' \in Seq(Good) /\ Bytes(mq') <= MemSize /\ MemBounded'
        /\ EventsOf(mq) = EventsIn(Head(mq)) \cup EventsOf(mq')
    BY <1>a, <2>1, TakeKeeps
  <2>3. MemTypeOK' /\ Conserved'
    BY <1>b, <2>1, <2>2, SoundProperties DEF MemTypeOK, MemStateOK, Conserved
  <2> QED
    BY <2>1, <2>2, <2>3, SoundProperties DEF HandFits, RoomAfterTake, GetzProgress
<1>7. CASE Pop
  <2>1. /\ pc = "ready" /\ MemPopLeft /\ out' = out \o Head(mq).evs /\ hand = NoBytes
        /\ UNCHANGED <<hand, pc, seen, refused>>
    BY <1>7 DEF Pop, HandFits
  <2>2. /\ Head(mq) \in Good /\ mq' \in Seq(Good) /\ MemBounded'
        /\ EventsOf(mq) = EventsIn(Head(mq)) \cup EventsOf(mq')
    BY <1>a, <2>1, TakeKeeps
  <2>3. out' \in Seq(Event) /\ Range(out') = Range(out) \cup EventsIn(Head(mq))
    BY <2>1, <2>2, ConcatProperties, RangeConcatenation, SoundProperties
       DEF MemTypeOK, MemStateOK, Item, EventsIn
  <2>4. MemTypeOK' /\ Conserved'
    BY <1>b, <2>1, <2>2, <2>3 DEF MemTypeOK, MemStateOK, Conserved
  <2> QED
    BY <2>1, <2>2, <2>4, SoundProperties DEF HandFits, RoomAfterTake, GetzProgress
<1>8. CASE Release
  <2>1. /\ pc = "held" /\ pc' = "ready" /\ out' = out \o hand.evs /\ hand' = NoBytes
        /\ UNCHANGED <<mq, seen, refused>>
    BY <1>8 DEF Release
  <2>2. out' \in Seq(Event) /\ Range(out') = Range(out) \cup EventsIn(hand)
    BY <1>a, <2>1, ConcatProperties, RangeConcatenation, SoundProperties
       DEF MemTypeOK, MemStateOK, Item, EventsIn
  <2>3. MemTypeOK' /\ Conserved'
    BY <2>1, <2>2, SoundProperties DEF MemTypeOK, MemStateOK, Conserved
  <2> QED
    BY <2>1, <2>3, SoundProperties DEF HandFits, MemBounded, RoomAfterTake, GetzProgress
<1>9. CASE Unget
  <2>1. /\ pc = "held" /\ pc' = "ready" /\ hand.len > 0 /\ hand \in Good
        /\ MemUnget(hand) /\ hand' = NoBytes /\ UNCHANGED <<seen, out, refused>>
    BY <1>9, <1>a DEF Unget, HandFits, Good
  <2>2. /\ mq' \in Seq(Good) /\ MemBounded' /\ EventsOf(mq') = EventsIn(hand) \cup EventsOf(mq)
    BY <1>a, <2>1, UngetKeeps DEF RoomAfterTake
  <2>3. MemTypeOK' /\ Conserved'
    BY <1>b, <2>1, <2>2, SoundProperties DEF MemTypeOK, MemStateOK, Conserved
  <2> QED
    BY <2>1, <2>2, <2>3, SoundProperties DEF HandFits, RoomAfterTake, GetzProgress
<1>10. CASE UNCHANGED memVars
  BY <1>10 DEF memVars, MemTypeOK, MemStateOK, HandFits, MemBounded, RoomAfterTake, Conserved,
     GetzProgress
<1> QED
  BY <1>1, <1>2, <1>3, <1>4, <1>5, <1>6, <1>7, <1>8, <1>9, <1>10 DEF MemNext

LEMMA MemInductive == MemSpec => []MemIInv
BY MemInitHolds, MemStepHolds, PTL DEF MemSpec

(* The state of the queue and of its caller is well typed. *)
THEOREM MemTypeCorrect == MemSpec => []MemTypeOK
<1>1. MemIInv => MemTypeOK
  BY DEF MemIInv
<1> QED
  BY <1>1, MemInductive, PTL

(* For every limit the queue holds at most MemSize bytes behind its first   *)
(* payload (dq.py:55-71).                                                    *)
THEOREM MemBoundedAlways == MemSpec => []MemBounded
<1>1. MemIInv => MemBounded
  BY DEF MemIInv
<1> QED
  BY <1>1, MemInductive, PTL

(* No event offered to put() is ever nowhere (dq.py:61-96). *)
THEOREM ConservedAlways == MemSpec => []Conserved
<1>1. MemIInv => Conserved
  BY DEF MemIInv
<1> QED
  BY <1>1, MemInductive, PTL

(* A batch of several events stays below the limit (dq.py:82-96). *)
THEOREM BatchLimitAlways == MemSpec => []BatchLimit
<1>1. MemIInv => BatchLimit
  BY DEF MemIInv, HandFits, Single, BatchLimit
<1> QED
  BY <1>1, MemInductive, PTL

(* getz() comes back empty-handed only from an empty queue (dq.py:86-95). *)
THEOREM GetzProgressAlways == MemSpec => []GetzProgress
<1>1. MemIInv => GetzProgress
  BY DEF MemIInv
<1> QED
  BY <1>1, MemInductive, PTL
==============================================================================
