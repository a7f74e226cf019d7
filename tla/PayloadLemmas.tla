---------------------------- MODULE PayloadLemmas ----------------------------
(***************************************************************************)
(* What appending, taking and returning payloads does to the bytes and the *)
(* events of a queue.                                                      *)
(***************************************************************************)
EXTENDS Payload, FiniteSetTheorems, SequenceTheorems, TLAPS

(* A queue, or a directory: finitely many payloads under some index. *)
Payloads(q) == IsFiniteSet(DOMAIN q) /\ \A i \in DOMAIN q : q[i].len \in Nat

(* The bytes of finitely many payloads are finitely many. *)
LEMMA BytesType ==
  ASSUME NEW q, Payloads(q)
  PROVE  IsFiniteSet(BytesOf(q)) /\ Bytes(q) \in Nat
<1> DEFINE T == {{i} \X (1 .. q[i].len) : i \in DOMAIN q}
           g == [i \in DOMAIN q |-> {i} \X (1 .. q[i].len)]
<1>1. g \in Surjection(DOMAIN q, T)
  BY DEF Surjection
<1>2. IsFiniteSet(T)
  BY <1>1, FS_Surjection DEF Payloads
<1>3. \A t \in T : IsFiniteSet(t)
  <2> SUFFICES ASSUME NEW i \in DOMAIN q PROVE IsFiniteSet({i} \X (1 .. q[i].len))
    OBVIOUS
  <2>1. IsFiniteSet({i})
    BY FS_Singleton
  <2>2. IsFiniteSet(1 .. q[i].len)
    BY FS_Interval DEF Payloads
  <2> QED
    BY <2>1, <2>2, FS_Product
<1>4. IsFiniteSet(UNION T)
  BY <1>2, <1>3, FS_UNION
<1> QED
  BY <1>4, FS_CardinalityType DEF BytesOf, Bytes

(* Leaving out one payload takes exactly its length off. *)
LEMMA BytesSplit ==
  ASSUME NEW q, Payloads(q), NEW f \in DOMAIN q
  PROVE  LET r == [g \in DOMAIN q \ {f} |-> q[g]]
         IN  Payloads(r) /\ Bytes(q) = Bytes(r) + q[f].len
<1> DEFINE r == [g \in DOMAIN q \ {f} |-> q[g]]
           own == {f} \X (1 .. q[f].len)
<1>1. Payloads(r)
  BY FS_Difference DEF Payloads
<1>2. BytesOf(q) = BytesOf(r) \cup own
  BY DEF BytesOf
<1>3. BytesOf(r) \cap own = {}
  BY DEF BytesOf
<1>4. IsFiniteSet({f}) /\ Cardinality({f}) = 1
  BY FS_Singleton
<1>5. IsFiniteSet(1 .. q[f].len) /\ Cardinality(1 .. q[f].len) = q[f].len
  <2> DEFINE n == q[f].len
  <2>1. n \in Nat
    BY DEF Payloads
  <2> HIDE DEF n
  <2>2. 1 \in Int /\ n \in Int
    BY <2>1
  <2>3. IsFiniteSet(1 .. n) /\ Cardinality(1 .. n) = IF 1 > n THEN 0 ELSE n - 1 + 1
    BY <2>2, FS_Interval
  <2>4. Cardinality(1 .. n) = n
    BY <2>1, <2>3
  <2> QED
    BY <2>3, <2>4 DEF n
<1>6. IsFiniteSet(own) /\ Cardinality(own) = q[f].len
  <2>1. q[f].len \in Nat
    BY DEF Payloads
  <2> HIDE DEF own
  <2>2. IsFiniteSet(own) /\ Cardinality(own) = 1 * Cardinality(1 .. q[f].len)
    BY <1>4, <1>5, FS_Product DEF own
  <2> QED
    BY <2>1, <2>2, <1>5
<1>7. IsFiniteSet(BytesOf(r)) /\ Bytes(r) \in Nat
  BY <1>1, BytesType
<1>8. Cardinality(BytesOf(q)) = Cardinality(BytesOf(r)) + Cardinality(own) - 0
  <2> HIDE DEF own, r
  <2>1. Cardinality(BytesOf(r) \cup own)
          = Cardinality(BytesOf(r)) + Cardinality(own) - Cardinality(BytesOf(r) \cap own)
    BY <1>6, <1>7, FS_Union
  <2> QED
    BY <1>2, <1>3, <2>1, FS_EmptySet
<1> QED
  BY <1>1, <1>6, <1>7, <1>8 DEF Bytes, Payloads

LEMMA SeqPayloads ==
  ASSUME NEW q \in Seq(Item)
  PROVE  Payloads(q) /\ IsFiniteSet(BytesOf(q)) /\ Bytes(q) \in Nat
<1>1. DOMAIN q = 1 .. Len(q) /\ Len(q) \in Nat
  BY LenProperties
<1>2. IsFiniteSet(DOMAIN q)
  BY <1>1, FS_Interval
<1>3. \A i \in DOMAIN q : q[i].len \in Nat
  <2> SUFFICES ASSUME NEW i \in 1 .. Len(q) PROVE q[i].len \in Nat
    BY <1>1
  <2>1. q[i] \in Item
    BY ElementOfSeq
  <2> QED
    BY <2>1 DEF Item
<1> QED
  BY <1>2, <1>3, BytesType DEF Payloads

LEMMA BytesEmpty == Bytes(<<>>) = 0
BY FS_EmptySet DEF Bytes, BytesOf

LEMMA BytesAppend ==
  ASSUME NEW q \in Seq(Item), NEW p \in Item
  PROVE  Bytes(Append(q, p)) = Bytes(q) + p.len
<1> DEFINE a == Append(q, p)  n == Len(q) + 1
<1>1. a \in Seq(Item) /\ Len(a) = n /\ a[n] = p /\ (\A i \in 1 .. Len(q) : a[i] = q[i])
  BY AppendProperties
<1>2. DOMAIN a = 1 .. n /\ n \in Nat /\ n \in DOMAIN a
  BY <1>1, LenProperties
<1>3. q = [i \in DOMAIN a \ {n} |-> a[i]]
  <2>1. DOMAIN a \ {n} = 1 .. Len(q)
    BY <1>2, LenProperties
  <2>2. q = [i \in 1 .. Len(q) |-> q[i]]
    BY LenProperties
  <2> HIDE DEF a, n
  <2> QED
    BY <2>1, <2>2, <1>1
<1>4. Payloads(a)
  BY <1>1, SeqPayloads
<1>5. Bytes(a) = Bytes([i \in DOMAIN a \ {n} |-> a[i]]) + a[n].len
  <2> HIDE DEF a, n
  <2> QED
    BY <1>2, <1>4, BytesSplit
<1>6. Bytes(a) = Bytes(q) + a[n].len
  BY <1>3, <1>5, Zenon
<1> QED
  BY <1>1, <1>6

(* Taking the first payload away shifts the others and adds no byte. *)
LEMMA BytesTail ==
  ASSUME NEW q \in Seq(Item), q # <<>>
  PROVE  Tail(q) \in Seq(Item) /\ Bytes(Tail(q)) <= Bytes(q)
<1> DEFINE t == Tail(q)
           shift == [b \in BytesOf(t) |-> <<b[1] + 1, b[2]>>]
<1>1. t \in Seq(Item) /\ Len(t) = Len(q) - 1 /\ \A i \in 1 .. Len(t) : t[i] = q[i + 1]
  BY HeadTailProperties
<1>2. DOMAIN t = 1 .. Len(t) /\ DOMAIN q = 1 .. Len(q) /\ Len(q) \in Nat /\ Len(t) \in Nat
  BY <1>1, LenProperties
<1>3. \A b \in BytesOf(t) :
        b[1] \in DOMAIN t /\ b[2] \in 1 .. t[b[1]].len /\ b = <<b[1], b[2]>>
  BY DEF BytesOf
<1>4. \A b \in BytesOf(t) : shift[b] \in BytesOf(q)
  <2> SUFFICES ASSUME NEW b \in BytesOf(t) PROVE <<b[1] + 1, b[2]>> \in BytesOf(q)
    OBVIOUS
  <2>1. b[1] + 1 \in DOMAIN q /\ q[b[1] + 1] = t[b[1]]
    BY <1>1, <1>2, <1>3
  <2>2. <<b[1] + 1, b[2]>> \in {b[1] + 1} \X (1 .. q[b[1] + 1].len)
    BY <2>1, <1>3
  <2> QED
    BY <2>1, <2>2 DEF BytesOf
<1>5. \A b, c \in BytesOf(t) : shift[b] = shift[c] => b = c
  BY <1>2, <1>3
<1>6. shift \in Injection(BytesOf(t), BytesOf(q))
  <2> HIDE DEF shift
  <2>1. shift \in [BytesOf(t) -> BytesOf(q)]
    BY <1>4 DEF shift
  <2> QED
    BY <2>1, <1>5 DEF Injection, IsInjective
<1>7. IsFiniteSet(BytesOf(q))
  BY SeqPayloads
<1> HIDE DEF shift
<1> QED
  BY <1>1, <1>6, <1>7, FS_Injection DEF Bytes

(* A payload put back in front is the new head, and the rest is as before. *)
LEMMA ConsProperties ==
  ASSUME NEW S, NEW q \in Seq(S), NEW p \in S
  PROVE  LET c == <<p>> \o q
         IN  /\ c \in Seq(S) /\ c # <<>>
             /\ Head(c) = p /\ Tail(c) = q
<1> DEFINE c == <<p>> \o q
<1>1. <<p>> \in Seq(S) /\ Len(<<p>>) = 1 /\ <<p>>[1] = p
  OBVIOUS
<1>2. /\ c \in Seq(S) /\ Len(c) = 1 + Len(q)
      /\ c[1] = p /\ \A i \in 1 .. Len(q) : c[i + 1] = q[i]
  <2> HIDE DEF c
  <2>1. /\ c \in Seq(S) /\ Len(c) = Len(<<p>>) + Len(q)
        /\ \A i \in 1 .. Len(<<p>>) + Len(q) :
             c[i] = IF i <= Len(<<p>>) THEN <<p>>[i] ELSE q[i - Len(<<p>>)]
    BY <1>1, ConcatProperties DEF c
  <2>2. Len(q) \in Nat
    BY LenProperties
  <2> QED
    BY <1>1, <2>1, <2>2
<1>3. c # <<>>
  <2> HIDE DEF c
  <2> QED
    BY <1>2, LenProperties
<1>4. Head(c) = p
  <2> HIDE DEF c
  <2> QED
    BY <1>2, <1>3
<1>5. Tail(c) \in Seq(S) /\ Len(Tail(c)) = Len(q) /\ \A i \in 1 .. Len(q) : Tail(c)[i] = q[i]
  <2> HIDE DEF c
  <2>1. Len(q) \in Nat
    BY LenProperties
  <2> QED
    BY <1>2, <1>3, <2>1, HeadTailProperties
<1>6. Tail(c) = q
  <2> HIDE DEF c
  <2> QED
    BY <1>5, SeqEqual
<1> QED
  BY <1>2, <1>3, <1>4, <1>6

LEMMA EventsEmpty == EventsOf(<<>>) = {} /\ EventsIn(NoBytes) = {}
BY DEF EventsOf, EventsIn, NoBytes, Range

LEMMA EventsAppend ==
  ASSUME NEW q \in Seq(Item), NEW p \in Item
  PROVE  EventsOf(Append(q, p)) = EventsOf(q) \cup EventsIn(p)
<1> DEFINE a == Append(q, p)
<1>1. /\ a \in Seq(Item) /\ Len(a) = Len(q) + 1
      /\ a[Len(q) + 1] = p /\ \A i \in 1 .. Len(q) : a[i] = q[i]
  BY AppendProperties
<1>2. DOMAIN a = 1 .. Len(q) + 1 /\ DOMAIN q = 1 .. Len(q) /\ Len(q) \in Nat
  BY <1>1, LenProperties
<1> HIDE DEF a
<1>3. \A i \in DOMAIN a : i \in DOMAIN q \/ i = Len(q) + 1
  BY <1>2
<1> QED
  BY <1>1, <1>2, <1>3 DEF a, EventsOf

LEMMA EventsTail ==
  ASSUME NEW q \in Seq(Item), q # <<>>
  PROVE  Head(q) \in Item /\ EventsOf(q) = EventsIn(Head(q)) \cup EventsOf(Tail(q))
<1> DEFINE t == Tail(q)
<1>1. /\ Head(q) \in Item /\ t \in Seq(Item) /\ Len(t) = Len(q) - 1
      /\ \A i \in 1 .. Len(t) : t[i] = q[i + 1]
  BY HeadTailProperties
<1>2. Head(q) = q[1]
  OBVIOUS
<1>3. DOMAIN t = 1 .. Len(t) /\ DOMAIN q = 1 .. Len(q) /\ Len(q) \in Nat /\ Len(q) # 0
  BY <1>1, LenProperties, EmptySeq
<1> HIDE DEF t
<1>4. \A i \in DOMAIN t : i + 1 \in DOMAIN q /\ t[i] = q[i + 1]
  BY <1>1, <1>3
<1>5. \A i \in DOMAIN q : i = 1 \/ (i - 1 \in DOMAIN t /\ q[i] = t[i - 1])
  BY <1>1, <1>3
<1>6. 1 \in DOMAIN q
  BY <1>3
<1>7. EventsOf(q) \subseteq EventsIn(q[1]) \cup EventsOf(t)
  BY <1>5 DEF EventsOf
<1>8. EventsIn(q[1]) \cup EventsOf(t) \subseteq EventsOf(q)
  BY <1>4, <1>6 DEF EventsOf
<1> QED
  BY <1>1, <1>2, <1>7, <1>8 DEF t

(* A payload without bytes has no events: the queue never holds another. *)
WellFormed(p) == p.len = 0 => p.evs = <<>>

LEMMA JoinProperties ==
  ASSUME NEW r \in Item, NEW p \in Item, WellFormed(r), WellFormed(p)
  PROVE  /\ Join(r, p) \in Item /\ WellFormed(Join(r, p))
         /\ EventsIn(Join(r, p)) = EventsIn(r) \cup EventsIn(p)
<1>1. CASE r.len = 0
  BY <1>1 DEF Join, WellFormed, EventsIn, Range
<1>2. CASE r.len # 0
  <2>1. r.evs \o p.evs \in Seq(Event)
    BY ConcatProperties DEF Item
  <2>2. Join(r, p) = [evs |-> r.evs \o p.evs, len |-> r.len + SepLen + p.len]
    BY <1>2 DEF Join
  <2>3. r.len + SepLen + p.len \in Nat \ {0}
    BY <1>2 DEF Item, SepLen
  <2>4. Range(r.evs \o p.evs) = Range(r.evs) \cup Range(p.evs)
    BY RangeConcatenation DEF Item
  <2> QED
    BY <2>1, <2>2, <2>3, <2>4 DEF Item, WellFormed, EventsIn
<1> QED
  BY <1>1, <1>2

LEMMA EncodedProperties ==
  ASSUME NEW e \in Event
  PROVE  /\ Encoded(e) \in Item /\ WellFormed(Encoded(e))
         /\ Encoded(e).len > 0 /\ EventsIn(Encoded(e)) = {e}
<1>1. Size[e] \in Nat \ {0}
  BY SizeAssumption
<1>2. <<e>> \in Seq(Event) /\ Range(<<e>>) = {e}
  BY DEF Range
<1> QED
  BY <1>1, <1>2 DEF Encoded, Item, WellFormed, EventsIn

------------------------------------------------------------------------------
(* A relation between the events of each payload and those of the later ones, *)
(* such as being another event, or being older.                               *)
Across(q, R) == \A i, j \in DOMAIN q : i < j => EventsIn(q[i]) \X EventsIn(q[j]) \subseteq R

LEMMA AcrossEmpty == \A R : Across(<<>>, R)
BY DEF Across

LEMMA AcrossAppend ==
  ASSUME NEW q \in Seq(Item), NEW p \in Item, NEW R,
         Across(q, R), EventsOf(q) \X EventsIn(p) \subseteq R
  PROVE  Across(Append(q, p), R)
<1> DEFINE a == Append(q, p)
<1>1. /\ a \in Seq(Item) /\ Len(a) = Len(q) + 1
      /\ a[Len(q) + 1] = p /\ \A i \in 1 .. Len(q) : a[i] = q[i]
  BY AppendProperties
<1>2. DOMAIN a = 1 .. Len(q) + 1 /\ DOMAIN q = 1 .. Len(q) /\ Len(q) \in Nat
  BY <1>1, LenProperties
<1> HIDE DEF a
<1>3. ASSUME NEW i \in DOMAIN a, NEW j \in DOMAIN a, i < j
      PROVE  EventsIn(a[i]) \X EventsIn(a[j]) \subseteq R
  <2>1. i \in DOMAIN q /\ a[i] = q[i]
    BY <1>1, <1>2, <1>3
  <2>2. CASE j \in DOMAIN q
    BY <1>1, <1>2, <1>3, <2>1, <2>2 DEF Across
  <2>3. CASE j = Len(q) + 1
    <3>1. EventsIn(q[i]) \subseteq EventsOf(q)
      BY <2>1 DEF EventsOf
    <3> QED
      BY <1>1, <2>1, <2>3, <3>1
  <2> QED
    BY <1>2, <2>2, <2>3
<1> QED
  BY <1>3 DEF Across, a

LEMMA AcrossTail ==
  ASSUME NEW q \in Seq(Item), q # <<>>, NEW R
  PROVE  Across(q, R) <=>
           Across(Tail(q), R) /\ EventsIn(Head(q)) \X EventsOf(Tail(q)) \subseteq R
<1> DEFINE t == Tail(q)
<1>1. /\ Head(q) \in Item /\ t \in Seq(Item) /\ Len(t) = Len(q) - 1
      /\ \A i \in 1 .. Len(t) : t[i] = q[i + 1]
  BY HeadTailProperties
<1>2. Head(q) = q[1]
  OBVIOUS
<1>3. DOMAIN t = 1 .. Len(t) /\ DOMAIN q = 1 .. Len(q) /\ Len(q) \in Nat /\ Len(q) # 0
  BY <1>1, LenProperties, EmptySeq
<1> HIDE DEF t
<1>4. \A i \in DOMAIN t : i \in Nat /\ i + 1 \in DOMAIN q /\ t[i] = q[i + 1]
  BY <1>1, <1>3
<1>5. \A i \in DOMAIN q : i \in Nat /\ (i = 1 \/ (i - 1 \in DOMAIN t /\ q[i] = t[i - 1]))
  BY <1>1, <1>3
<1>6. 1 \in DOMAIN q
  BY <1>3
<1>7. ASSUME Across(q, R) PROVE Across(t, R)
  <2> SUFFICES ASSUME NEW i \in DOMAIN t, NEW j \in DOMAIN t, i < j
               PROVE  EventsIn(t[i]) \X EventsIn(t[j]) \subseteq R
    BY DEF Across
  <2>1. i + 1 < j + 1
    BY <1>4
  <2> QED
    BY <1>4, <1>7, <2>1 DEF Across
<1>8. ASSUME Across(q, R), NEW e \in EventsOf(t) PROVE EventsIn(q[1]) \X {e} \subseteq R
  <2>1. PICK i \in DOMAIN t : e \in EventsIn(t[i])
    BY <1>8 DEF EventsOf
  <2>2. 1 < i + 1 /\ i + 1 \in DOMAIN q /\ e \in EventsIn(q[i + 1])
    BY <1>3, <1>4, <2>1
  <2> QED
    BY <1>6, <1>8, <2>2 DEF Across
<1>9. ASSUME Across(t, R), EventsIn(q[1]) \X EventsOf(t) \subseteq R PROVE Across(q, R)
  <2> SUFFICES ASSUME NEW i \in DOMAIN q, NEW j \in DOMAIN q, i < j
               PROVE  EventsIn(q[i]) \X EventsIn(q[j]) \subseteq R
    BY DEF Across
  <2>1. j - 1 \in DOMAIN t /\ q[j] = t[j - 1] /\ j \in Nat /\ i \in Nat
    BY <1>3, <1>5
  <2>2. EventsIn(q[j]) \subseteq EventsOf(t)
    BY <2>1 DEF EventsOf
  <2>3. CASE i = 1
    BY <1>9, <2>2, <2>3
  <2>4. CASE i # 1
    <3>1. i - 1 \in DOMAIN t /\ q[i] = t[i - 1] /\ i - 1 < j - 1
      BY <1>5, <2>1, <2>4
    <3> QED
      BY <1>9, <2>1, <3>1 DEF Across
  <2> QED
    BY <2>3, <2>4
<1>10. ASSUME Across(q, R) PROVE EventsIn(q[1]) \X EventsOf(t) \subseteq R
  BY <1>8, <1>10
<1> QED
  BY <1>2, <1>7, <1>9, <1>10 DEF t
==============================================================================
