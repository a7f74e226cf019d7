------------------------------ MODULE DbqProofs ------------------------------
(***************************************************************************)
(* The invariants of DiskQueue and of DiskBackedQueue for every set of     *)
(* events, all sizes and all bounds on the clock, the failed writes and    *)
(* the kills.  The lemmas about a DiskQueue on its own come first; with    *)
(* them comes the variable got of DiskQueueUse, which the proofs about     *)
(* DiskBackedQueue never mention.                                          *)
(***************************************************************************)
EXTENDS DiskBackedQueue, DiskQueueUse, MemQueueProofs, WellFoundedInduction

(* A DiskQueue on its own. *)
DiskIInv == DiskTypeOK /\ NeverUndercounts /\ DiskBounded

------------------------------------------------------------------------------
(* Oldest is defined by CHOOSE: that there is such a file rests on the order *)
(* of names being total and on the directory being finite.                   *)

LEMMA BeforeTotal ==
  /\ \A f, g \in Name : f # g => Before(f, g) \/ Before(g, f)
  /\ \A f \in Name : ~Before(f, f)
  /\ \A f, g, h \in Name : Before(f, g) /\ Before(g, h) => Before(f, h)
BY DiskAssumption DEF Name, Before

LEMMA OldestExists ==
  ASSUME DOMAIN files \subseteq Name, IsFiniteSet(DOMAIN files), ~NoFiles
  PROVE  /\ Oldest \in DOMAIN files
         /\ \A g \in DOMAIN files \ {Oldest} : Before(Oldest, g)
<1> DEFINE D == DOMAIN files
           Older(f) == {g \in D : Before(g, f)}
           T == {Older(f) : f \in D}
           R == StrictSubsetOrdering(D)
<1>1. T \subseteq FiniteSubsetsOf(D)
  <2> SUFFICES ASSUME NEW f \in D PROVE Older(f) \in FiniteSubsetsOf(D)
    OBVIOUS
  <2>1. Older(f) \in SUBSET D
    OBVIOUS
  <2>2. IsFiniteSet(Older(f))
    BY <2>1, FS_Subset
  <2> QED
    BY <2>1, <2>2 DEF FiniteSubsetsOf
<1>2. T # {}
  BY DEF NoFiles
<1>3. IsWellFoundedOn(R, FiniteSubsetsOf(D))
  BY FS_StrictSubsetOrderingWellFounded
<1>4. \E x \in T : \A y \in T : ~(<<y, x>> \in R)
  <2> HIDE DEF T, R
  <2> QED
    BY <1>1, <1>2, <1>3, WFMin
<1>5. PICK f \in D : \A g \in D : ~(<<Older(g), Older(f)>> \in R)
  BY <1>4
<1>6. Older(f) = {}
  <2> SUFFICES ASSUME NEW g \in Older(f) PROVE FALSE
    OBVIOUS
  <2>1. g \in D /\ Before(g, f) /\ f \in Name /\ g \in Name
    OBVIOUS
  <2>2. Older(g) \subseteq Older(f)
    BY <2>1, BeforeTotal
  <2>3. g \in Older(f) /\ g \notin Older(g)
    BY <2>1, BeforeTotal
  <2>4. <<Older(g), Older(f)>> \in R
    BY <2>2, <2>3 DEF StrictSubsetOrdering
  <2> QED
    BY <1>5, <2>1, <2>4
<1>7. \A g \in D \ {f} : Before(f, g)
  BY <1>6, BeforeTotal
<1> QED
  BY <1>7 DEF Oldest

------------------------------------------------------------------------------
(* One lemma for each thing the methods do to the directory. *)

LEMMA FilesArePayloads == ASSUME DiskTypeOK PROVE Payloads(files) /\ Bytes(files) \in Nat
<1>1. Payloads(files)
  BY DEF DiskTypeOK, Payloads, Item
<1> QED
  BY <1>1, BytesType

(* A file more, or one written over: at most one name and p's bytes more. *)
LEMMA StoredAdds ==
  ASSUME DiskTypeOK, NEW p \in Item
  PROVE  /\ DOMAIN Stored(p) \subseteq Name /\ IsFiniteSet(DOMAIN Stored(p))
         /\ Stored(p) \in [DOMAIN Stored(p) -> Item]
         /\ Cardinality(DOMAIN Stored(p)) <= Cardinality(DOMAIN files) + 1
         /\ Bytes(Stored(p)) <= Bytes(files) + p.len
<1> DEFINE s == Stored(p)  n == NextName
           r == [g \in DOMAIN s \ {n} |-> s[g]]
           rest == [g \in DOMAIN files \ {n} |-> files[g]]
<1>1. DOMAIN s = DOMAIN files \cup {n} /\ n \in DOMAIN s /\ s[n] = p
  BY DEF Stored
<1>2. n \in Name
  BY DEF NextName, Name, DiskTypeOK
<1>3. DOMAIN s \subseteq Name
  BY <1>1, <1>2 DEF DiskTypeOK
<1>4. /\ IsFiniteSet(DOMAIN s)
      /\ Cardinality(DOMAIN s) <= Cardinality(DOMAIN files) + 1
  <2>1. IsFiniteSet(DOMAIN files) /\ Cardinality(DOMAIN files) \in Nat
    BY FS_CardinalityType DEF DiskTypeOK
  <2>2. /\ IsFiniteSet(DOMAIN files \cup {n})
        /\ Cardinality(DOMAIN files \cup {n})
             = IF n \in DOMAIN files THEN Cardinality(DOMAIN files)
               ELSE Cardinality(DOMAIN files) + 1
    BY <2>1, FS_AddElement
  <2> HIDE DEF s, n
  <2> QED
    BY <1>1, <2>1, <2>2
<1>5. s \in [DOMAIN s -> Item]
  BY DEF Stored, DiskTypeOK
<1>6. Payloads(s)
  BY <1>4, <1>5 DEF Payloads, Item
<1>7. Payloads(r) /\ Bytes(s) = Bytes(r) + p.len
  <2> HIDE DEF s, n
  <2> QED
    BY <1>1, <1>6, BytesSplit
<1>8. r = rest
  BY DEF Stored
<1>9. Bytes(rest) <= Bytes(files)
  <2>1. Payloads(files) /\ Bytes(files) \in Nat
    BY FilesArePayloads
  <2>2. CASE n \in DOMAIN files
    <3>1. Payloads(rest) /\ Bytes(files) = Bytes(rest) + files[n].len
      <4> HIDE DEF n
      <4> QED
        BY <2>1, <2>2, BytesSplit
    <3>2. files[n].len \in Nat
      BY <2>1, <2>2 DEF Payloads
    <3>3. Bytes(rest) \in Nat
      BY <3>1, BytesType
    <3> HIDE DEF rest
    <3> QED
      BY <2>1, <3>1, <3>2, <3>3
  <2>3. CASE n \notin DOMAIN files
    <3>1. rest = files
      BY <2>3 DEF DiskTypeOK
    <3> HIDE DEF rest
    <3> QED
      BY <2>1, <3>1
  <2> QED
    BY <2>2, <2>3
<1>10. Bytes(rest) \in Nat /\ Bytes(files) \in Nat /\ p.len \in Nat
  <2>1. Bytes(rest) \in Nat
    BY <1>7, <1>8, BytesType
  <2> QED
    BY <2>1, FilesArePayloads DEF Item
<1>11. Bytes(s) <= Bytes(files) + p.len
  <2> HIDE DEF s, r, rest
  <2> QED
    BY <1>7, <1>8, <1>9, <1>10
<1> QED
  BY <1>3, <1>4, <1>5, <1>11

LEMMA WriteHolds ==
  ASSUME DiskIInv, NEW p \in Item, DiskWrite(p)
  PROVE  DiskIInv'
<1>1. DiskTypeOK /\ NeverUndercounts /\ DiskBounded
  BY DEF DiskIInv
<1>2. /\ files' = Stored(p) /\ dcn' = dcn + 1 /\ dsz' = dsz + p.len
      /\ fails' = fails /\ now' = now /\ p.len + dsz <= DiskSize
  BY DEF DiskWrite, DiskAccepts
<1>3. /\ Bytes(files) \in Nat /\ p.len \in Nat /\ dcn \in Int /\ dsz \in Int /\ fails \in Nat
      /\ Cardinality(DOMAIN files) \in Nat
  BY <1>1, FilesArePayloads, FS_CardinalityType DEF DiskTypeOK, Item
<1>4. DOMAIN files' \subseteq Name /\ IsFiniteSet(DOMAIN files')
      /\ files' \in [DOMAIN files' -> Item]
  BY <1>1, <1>2, StoredAdds
<1>5. Cardinality(DOMAIN files') \in Nat /\ Bytes(files') \in Nat
  <2>1. Payloads(files')
    BY <1>4 DEF Payloads, Item
  <2> QED
    BY <1>4, <2>1, BytesType, FS_CardinalityType
<1>6. overwritten' \subseteq Event
  BY <1>1 DEF DiskWrite, Clobbers, DiskTypeOK, EventsIn, Item, Range
<1>7. DiskTypeOK'
  BY <1>1, <1>2, <1>3, <1>4, <1>6 DEF DiskTypeOK
<1>8. Cardinality(DOMAIN files') <= Cardinality(DOMAIN files) + 1
  BY <1>1, <1>2, StoredAdds
<1>9. NeverUndercounts'
  BY <1>1, <1>2, <1>3, <1>5, <1>8 DEF NeverUndercounts
<1>10. Bytes(files') <= Bytes(files) + p.len
  BY <1>1, <1>2, StoredAdds
<1>11. DiskBounded'
  BY <1>1, <1>2, <1>3, <1>5, <1>10, DiskAssumption DEF DiskBounded
<1> QED
  BY <1>7, <1>9, <1>11 DEF DiskIInv

(* A write that is cut short uses up one of the failures. *)
LEMMA WriteCutHolds ==
  ASSUME DiskIInv, NEW p \in Item, DiskWriteCut(p)
  PROVE  DiskIInv'
<1>1. DiskTypeOK /\ NeverUndercounts
  BY DEF DiskIInv
<1>2. PICK c \in CutShort(p) : files' = Stored(c)
  BY DEF DiskWriteCut
<1>3. c \in Item
  <2>1. p.len \in Nat /\ <<>> \in Seq(Event)
    BY DEF Item
  <2>2. \A n \in 0 .. p.len - 1 : [evs |-> <<>>, len |-> n] \in Item
    BY <2>1 DEF Item
  <2> QED
    BY <1>2, <2>2 DEF CutShort
<1>4. /\ dcn' = dcn /\ dsz' = dsz /\ fails' = fails + 1 /\ now' = now
      /\ fails < MaxFails
  BY DEF DiskWriteCut
<1>5. DOMAIN files' \subseteq Name /\ IsFiniteSet(DOMAIN files')
      /\ files' \in [DOMAIN files' -> Item]
      /\ Cardinality(DOMAIN files') <= Cardinality(DOMAIN files) + 1
  BY <1>1, <1>2, <1>3, StoredAdds
<1>6. /\ dcn \in Int /\ fails \in Nat /\ Cardinality(DOMAIN files) \in Nat
      /\ Cardinality(DOMAIN files') \in Nat
  BY <1>1, <1>5, FS_CardinalityType DEF DiskTypeOK
<1>7. overwritten' \subseteq Event
  BY <1>1 DEF DiskWriteCut, Clobbers, DiskTypeOK, EventsIn, Item, Range
<1>8. fails' \in 0 .. MaxFails /\ fails' # 0
  BY <1>4, <1>6, DiskAssumption
<1>9. DiskTypeOK'
  BY <1>1, <1>4, <1>5, <1>7, <1>8 DEF DiskTypeOK
<1>10. NeverUndercounts'
  BY <1>1, <1>4, <1>5, <1>6 DEF NeverUndercounts
<1> QED
  BY <1>8, <1>9, <1>10 DEF DiskIInv, DiskBounded

LEMMA UnlinkHolds ==
  ASSUME DiskIInv, NEW f \in DOMAIN files, CountingUnlink(f)
  PROVE  DiskIInv'
<1> DEFINE r == [g \in DOMAIN files \ {f} |-> files[g]]
<1>1. DiskTypeOK /\ NeverUndercounts /\ DiskBounded
  BY DEF DiskIInv
<1>2. /\ files' = r /\ dcn' = dcn - 1 /\ dsz' = dsz - files[f].len
      /\ UNCHANGED <<now, fails, overwritten>>
  BY DEF CountingUnlink
<1>3. Payloads(files) /\ Bytes(files) \in Nat
  BY <1>1, FilesArePayloads
<1>4. Payloads(files') /\ Bytes(files) = Bytes(files') + files[f].len
  BY <1>2, <1>3, BytesSplit
<1>5. Bytes(files') \in Nat /\ files[f].len \in Nat
  BY <1>3, <1>4, BytesType DEF Payloads
<1>6. DOMAIN files' = DOMAIN files \ {f}
  BY <1>2
<1>7. /\ IsFiniteSet(DOMAIN files')
      /\ Cardinality(DOMAIN files') = Cardinality(DOMAIN files) - 1
  <2>1. IsFiniteSet(DOMAIN files)
    BY <1>1 DEF DiskTypeOK
  <2> QED
    BY <1>6, <2>1, FS_RemoveElement
<1>8. files' \in [DOMAIN files' -> Item]
  BY <1>1, <1>2 DEF DiskTypeOK
<1>9. dcn \in Int /\ dsz \in Int /\ fails \in Nat /\ Cardinality(DOMAIN files) \in Nat
  BY <1>1, FS_CardinalityType DEF DiskTypeOK
<1> HIDE DEF r
<1>10. DiskTypeOK'
  BY <1>1, <1>2, <1>5, <1>6, <1>7, <1>8, <1>9 DEF DiskTypeOK
<1>11. NeverUndercounts'
  BY <1>1, <1>2, <1>7, <1>9 DEF NeverUndercounts
<1>12. DiskBounded'
  BY <1>1, <1>2, <1>4, <1>5, <1>9, DiskAssumption DEF DiskBounded
<1> QED
  BY <1>10, <1>11, <1>12 DEF DiskIInv

(* _count() looks at the files, all of them or none after clear(). *)
LEMMA RecountHolds ==
  ASSUME DiskIInv, files' \in {files, <<>>}, Recount, UNCHANGED <<now, fails, overwritten>>
  PROVE  DiskIInv'
<1>1. DiskTypeOK /\ NeverUndercounts /\ DiskBounded
  BY DEF DiskIInv
<1>2. DOMAIN <<>> = {} /\ Bytes(<<>>) = 0
  BY BytesEmpty
<1>3. /\ DOMAIN files' \subseteq Name /\ IsFiniteSet(DOMAIN files')
      /\ files' \in [DOMAIN files' -> Item]
  <2>1. CASE files' = files
    BY <1>1, <2>1 DEF DiskTypeOK
  <2>2. CASE files' = <<>>
    <3>1. <<>> \in Seq(Item) /\ Len(<<>>) = 0
      OBVIOUS
    <3>2. <<>> \in [1 .. 0 -> Item]
      BY <3>1, LenProperties
    <3> QED
      BY <1>2, <2>2, <3>2, FS_EmptySet
  <2> QED
    BY <2>1, <2>2
<1>4. Cardinality(DOMAIN files') \in Nat /\ Bytes(files') \in Nat /\ Bytes(files) \in Nat
  <2>1. Payloads(files')
    BY <1>3 DEF Payloads, Item
  <2> QED
    BY <1>1, <1>3, <2>1, BytesType, FilesArePayloads, FS_CardinalityType
<1>5. DiskTypeOK'
  BY <1>1, <1>3, <1>4 DEF DiskTypeOK, Recount
<1>6. fails \in Nat /\ dsz \in Int
  BY <1>1 DEF DiskTypeOK
<1>7. NeverUndercounts'
  BY <1>4, <1>6 DEF NeverUndercounts, Recount
<1>8. Bytes(files') <= Bytes(files)
  BY <1>2, <1>4
<1>9. DiskBounded'
  BY <1>1, <1>4, <1>6, <1>8, DiskAssumption DEF DiskBounded, Recount
<1> QED
  BY <1>5, <1>7, <1>9 DEF DiskIInv

(* Nothing but the clock has moved. *)
LEMMA TickHolds ==
  ASSUME DiskIInv, now' \in 0 .. MaxTime, UNCHANGED <<files, dcn, dsz, fails, overwritten>>
  PROVE  DiskIInv'
BY DEF DiskIInv, DiskTypeOK, NeverUndercounts, DiskBounded, Bytes, BytesOf

------------------------------------------------------------------------------
LEMMA DiskInitHolds == DiskInit => DiskIInv
<1> SUFFICES ASSUME DiskInit PROVE DiskIInv
  OBVIOUS
<1>1. /\ files = <<>> /\ dcn = 0 /\ dsz = 0 /\ now = 0 /\ fails = 0 /\ overwritten = {}
      /\ DOMAIN files = {}
  BY DEF DiskInit
<1>2. <<>> \in Seq(Item) /\ Len(<<>>) = 0
  OBVIOUS
<1>3. <<>> \in [1 .. 0 -> Item]
  BY <1>2, LenProperties
<1>4. DiskTypeOK
  BY <1>1, <1>3, FS_EmptySet, DiskAssumption DEF DiskTypeOK
<1>5. NeverUndercounts
  BY <1>1, FS_EmptySet DEF NeverUndercounts
<1>6. DiskBounded
  BY <1>1, BytesEmpty, DiskAssumption DEF DiskBounded
<1> QED
  BY <1>4, <1>5, <1>6 DEF DiskIInv

LEMMA DiskNextHolds == DiskIInv /\ [DqNext]_dqVars => DiskIInv'
<1> SUFFICES ASSUME DiskIInv, [DqNext]_dqVars PROVE DiskIInv'
  OBVIOUS
<1>1. ASSUME NEW e \in Event, DqPut(e) PROVE DiskIInv'
  BY <1>1, WriteHolds, EncodedProperties DEF DqPut
<1>2. ASSUME NEW e \in Event, DqPutFails(e) PROVE DiskIInv'
  BY <1>2, WriteCutHolds, EncodedProperties DEF DqPutFails
<1>3. ASSUME UNCHANGED diskVars PROVE DiskIInv'
  BY <1>3, TickHolds DEF diskVars, DiskIInv, DiskTypeOK
<1>4. ASSUME ~NoFiles, CountingUnlink(Oldest) PROVE DiskIInv'
  BY <1>4, OldestExists, UnlinkHolds DEF DiskIInv, DiskTypeOK
<1>5. CASE DqOpen
  BY <1>5, RecountHolds DEF DqOpen
<1>6. CASE DqTick
  <2>1. now \in 0 .. MaxTime /\ now < MaxTime /\ now' = now + 1
    BY <1>6 DEF DqTick, Tick, DiskIInv, DiskTypeOK
  <2>2. now' \in 0 .. MaxTime
    BY <2>1, DiskAssumption
  <2> QED
    BY <1>6, <2>2, TickHolds DEF DqTick
<1>7. CASE UNCHANGED dqVars
  BY <1>3, <1>7 DEF dqVars, diskVars
<1> QED
  BY <1>1, <1>2, <1>3, <1>4, <1>5, <1>6, <1>7
     DEF DqNext, DqPutRefused, DqGet, DqPop, DqGetz

LEMMA DiskInvariant == DqSpec => []DiskIInv
BY DiskInitHolds, DiskNextHolds, PTL DEF DqSpec, DqInit

(* The directory holds payloads under names, the counters are integers. *)
THEOREM DiskTypeCorrect == DqSpec => []DiskTypeOK
<1>1. DiskIInv => DiskTypeOK
  BY DEF DiskIInv
<1> QED
  BY <1>1, DiskInvariant, PTL

(* Apart from writes that failed, cn covers every file (dq.py:163-174,       *)
(* 224-238), so that the callers that look at cn find all of them.           *)
THEOREM NeverUndercountsAlways == DqSpec => []NeverUndercounts
<1>1. DiskIInv => NeverUndercounts
  BY DEF DiskIInv
<1> QED
  BY <1>1, DiskInvariant, PTL

(* The directory never holds more bytes than size unless a write failed      *)
(* (dq.py:158-161).                                                          *)
THEOREM DiskBoundedAlways == DqSpec => []DiskBounded
<1>1. DiskIInv => DiskBounded
  BY DEF DiskIInv
<1> QED
  BY <1>1, DiskInvariant, PTL

------------------------------------------------------------------------------
(* Both queues together. *)

FilesSound == \A f \in DOMAIN files : files[f] \in Sound

(* No event is in two files. *)
FilesApart ==
  \A f, g \in DOMAIN files : f # g => EventsIn(files[f]) \cap EventsIn(files[g]) = {}

DiskPart == DiskIInv /\ FilesSound /\ FilesApart

(* Memory holds sound payloads and a kill leaves none.  Unlike in MemQueue a *)
(* payload can be empty here: the file of a write that was cut short.        *)
MemPart ==
  /\ MemStateOK /\ mq \in Seq(Sound) /\ hand \in Sound
  /\ MemBounded /\ RoomAfterTake

CallPart ==
  /\ pc \in Points /\ kills \in 0 .. MaxKills /\ lost \subseteq Event
  /\ pc \in {"ready", "down"} => hand = NoBytes
  /\ pc = "down" => mq = <<>>

(* Between the put and the unlink of _disk_to_mem the oldest file is the one *)
(* whose events memory has already.                                          *)
Placed == pc = "unlink" => ~NoFiles /\ EventsIn(files[Oldest]) \subseteq EventsOf(mq)

(* NoSecondCopy, with its last conjuncts as a relation that the lemmas about *)
(* MemQueue carry through every method.                                      *)
Distinct == {x \in Event \X Event : x[1] # x[2]}

NoneTwice ==
  /\ OnDiskOnly \cap (Volatile \cup Range(out)) = {}
  /\ Volatile \cap Range(out) = {}
  /\ Across(mq, Distinct) /\ EventsIn(hand) \X EventsOf(mq) \subseteq Distinct

DbqIInv ==
  /\ MemPart /\ DiskPart /\ CallPart
  /\ DbqConserved /\ Placed /\ NoneTwice

------------------------------------------------------------------------------
(* The directory and the events in it. *)

LEMMA DiskUnchanged ==
  ASSUME DiskPart, UNCHANGED files
  PROVE  /\ FilesSound' /\ FilesApart'
         /\ EventsOf(files') = EventsOf(files) /\ Oldest' = Oldest /\ NoFiles' = NoFiles
         /\ EventsOf([f \in DOMAIN files' \ {Oldest'} |-> files'[f]])
              = EventsOf([f \in DOMAIN files \ {Oldest} |-> files[f]])
<1>1. Oldest' = Oldest /\ NoFiles' = NoFiles
  BY DEF Oldest, NoFiles
<1>2. FilesSound' /\ FilesApart'
  BY DEF DiskPart, FilesSound, FilesApart
<1> QED
  BY <1>1, <1>2

LEMMA StoredEvents ==
  ASSUME DiskPart, NEW c \in Sound, files' = Stored(c), Clobbers,
         EventsIn(c) \cap EventsOf(files) = {}
  PROVE  /\ FilesSound' /\ FilesApart'
         /\ EventsIn(c) \subseteq EventsOf(files')
         /\ EventsOf(files') \subseteq EventsOf(files) \cup EventsIn(c)
         /\ EventsOf(files') \cup overwritten'
              = EventsOf(files) \cup overwritten \cup EventsIn(c)
<1>1. /\ DOMAIN files' = DOMAIN files \cup {NextName}
      /\ \A f \in DOMAIN files' : files'[f] = IF f = NextName THEN c ELSE files[f]
  BY DEF Stored
<1>2. FilesSound'
  BY <1>1 DEF DiskPart, FilesSound
<1>3. \A f \in DOMAIN files : EventsIn(files[f]) \subseteq EventsOf(files)
  BY DEF EventsOf
<1>4. FilesApart'
  <2> SUFFICES ASSUME NEW f \in DOMAIN files', NEW g \in DOMAIN files', f # g
               PROVE  EventsIn(files'[f]) \cap EventsIn(files'[g]) = {}
    BY DEF FilesApart
  <2>1. CASE f = NextName
    BY <1>1, <1>3, <2>1
  <2>2. CASE g = NextName
    BY <1>1, <1>3, <2>2
  <2>3. CASE f # NextName /\ g # NextName
    BY <1>1, <2>3 DEF DiskPart, FilesApart
  <2> QED
    BY <2>1, <2>2, <2>3
<1>5. /\ EventsIn(c) \subseteq EventsOf(files')
      /\ EventsOf(files') \subseteq EventsOf(files) \cup EventsIn(c)
  BY <1>1 DEF EventsOf
<1>6. EventsOf(files) \subseteq EventsOf(files') \cup overwritten'
  <2> SUFFICES ASSUME NEW f \in DOMAIN files
               PROVE  EventsIn(files[f]) \subseteq EventsOf(files') \cup overwritten'
    BY DEF EventsOf
  <2>1. CASE f = NextName
    BY <2>1 DEF Clobbers
  <2>2. CASE f # NextName
    BY <1>1, <2>2 DEF EventsOf
  <2> QED
    BY <2>1, <2>2
<1>7. /\ overwritten \subseteq overwritten'
      /\ overwritten' \subseteq overwritten \cup EventsOf(files)
  BY <1>3 DEF Clobbers
<1> QED
  BY <1>2, <1>4, <1>5, <1>6, <1>7

(* A write, whole or cut short, of an event that is new. *)
LEMMA WriteKeeps ==
  ASSUME DiskPart, NEW e \in Event, e \notin EventsOf(files),
         DiskWrite(Encoded(e)) \/ DiskWriteCut(Encoded(e))
  PROVE  /\ DiskPart'
         /\ EventsOf(files') \subseteq EventsOf(files) \cup {e}
         /\ EventsOf(files) \cup overwritten \subseteq EventsOf(files') \cup overwritten'
         /\ overwritten' \subseteq EventsOf(files) \cup overwritten \cup {e}
         /\ DiskWrite(Encoded(e)) => e \in EventsOf(files')
<1>1. /\ Encoded(e) \in Sound /\ Encoded(e) \in Item /\ EventsIn(Encoded(e)) = {e}
      /\ Encoded(e).len \in Nat
  BY GoodEncoded, SoundProperties
<1>2. DiskIInv'
  BY <1>1, WriteHolds, WriteCutHolds DEF DiskPart
<1>3. PICK c : /\ c \in CutShort(Encoded(e)) /\ files' = Stored(c) /\ Clobbers
               /\ DiskWrite(Encoded(e)) => c = Encoded(e)
  <2>1. CASE DiskWrite(Encoded(e))
    BY <2>1 DEF DiskWrite, CutShort
  <2>2. CASE DiskWriteCut(Encoded(e)) /\ ~DiskWrite(Encoded(e))
    BY <2>2 DEF DiskWriteCut
  <2> QED
    BY <2>1, <2>2
<1>4. c \in Sound /\ EventsIn(c) \subseteq {e}
  <2>1. CASE c = Encoded(e)
    BY <1>1, <2>1
  <2>2. CASE \E n \in 0 .. Encoded(e).len - 1 : c = [evs |-> <<>>, len |-> n]
    <3>1. c.evs = <<>> /\ c \in Item
      BY <1>1, <2>2 DEF Item
    <3> QED
      BY <3>1 DEF Sound, WellFormed, EventsIn, Range
  <2> QED
    BY <1>3, <2>1, <2>2 DEF CutShort
<1>5. EventsIn(c) \cap EventsOf(files) = {}
  BY <1>4
<1>6. /\ FilesSound' /\ FilesApart'
      /\ EventsIn(c) \subseteq EventsOf(files')
      /\ EventsOf(files') \subseteq EventsOf(files) \cup EventsIn(c)
      /\ EventsOf(files') \cup overwritten' = EventsOf(files) \cup overwritten \cup EventsIn(c)
  BY <1>3, <1>4, <1>5, StoredEvents
<1> QED
  BY <1>1, <1>2, <1>3, <1>4, <1>6 DEF DiskPart

LEMMA OldestFile ==
  ASSUME DiskPart, ~NoFiles
  PROVE  /\ Oldest \in DOMAIN files /\ files[Oldest] \in Sound
         /\ EventsOf(files) = EventsIn(files[Oldest])
                                \cup EventsOf([f \in DOMAIN files \ {Oldest} |-> files[f]])
         /\ EventsIn(files[Oldest])
              \cap EventsOf([f \in DOMAIN files \ {Oldest} |-> files[f]]) = {}
<1>1. Oldest \in DOMAIN files /\ files[Oldest] \in Sound
  BY OldestExists DEF DiskPart, DiskIInv, DiskTypeOK, FilesSound
<1>2. EventsOf(files) = EventsIn(files[Oldest])
                          \cup EventsOf([f \in DOMAIN files \ {Oldest} |-> files[f]])
  BY <1>1 DEF EventsOf
<1>3. EventsIn(files[Oldest])
        \cap EventsOf([f \in DOMAIN files \ {Oldest} |-> files[f]]) = {}
  BY <1>1 DEF EventsOf, DiskPart, FilesApart
<1> QED
  BY <1>1, <1>2, <1>3

LEMMA UnlinkKeeps ==
  ASSUME DiskPart, ~NoFiles, CountingUnlink(Oldest)
  PROVE  /\ DiskPart' /\ files[Oldest] \in Sound /\ UNCHANGED overwritten
         /\ EventsOf(files') = EventsOf([f \in DOMAIN files \ {Oldest} |-> files[f]])
         /\ EventsOf(files) = EventsIn(files[Oldest]) \cup EventsOf(files')
         /\ EventsIn(files[Oldest]) \cap EventsOf(files') = {}
<1>1. Oldest \in DOMAIN files
  BY OldestFile
<1>2. /\ files' = [f \in DOMAIN files \ {Oldest} |-> files[f]] /\ UNCHANGED overwritten
  BY DEF CountingUnlink
<1>3. DiskIInv'
  BY <1>1, UnlinkHolds DEF DiskPart
<1>4. FilesSound' /\ FilesApart'
  BY <1>2 DEF DiskPart, FilesSound, FilesApart
<1> QED
  BY <1>2, <1>3, <1>4, OldestFile DEF DiskPart

LEMMA DiskIdle ==
  ASSUME DiskPart, UNCHANGED diskState
  PROVE  DiskPart' /\ UNCHANGED <<files, overwritten>>
<1>1. DiskIInv'
  BY TickHolds DEF diskState, DiskPart, DiskIInv, DiskTypeOK
<1> QED
  BY <1>1, DiskUnchanged DEF diskState, DiskPart

------------------------------------------------------------------------------
(* Steps after which the same events are in memory or given away, in a new   *)
(* arrangement perhaps, and the directory has the same files.                *)

LEMMA Rearranged ==
  ASSUME DbqIInv, pc # "unlink", pc' # "unlink",
         MemPart', CallPart', DiskPart', UNCHANGED <<files, overwritten, seen, refused, lost>>,
         Volatile' \cup Range(out') = Volatile \cup Range(out),
         Volatile' \cap Range(out') = {},
         Across(mq', Distinct), EventsIn(hand') \X EventsOf(mq') \subseteq Distinct
  PROVE  DbqIInv'
<1>1. EventsOf(files') = EventsOf(files)
  BY DiskUnchanged DEF DbqIInv
<1>2. OnDiskOnly' = OnDiskOnly
  BY <1>1 DEF OnDiskOnly
<1>3. Placed'
  BY DEF Placed
<1>4. NoneTwice'
  <2>1. Distinct' = Distinct
    BY DEF Distinct
  <2> QED
    BY <1>2, <2>1 DEF DbqIInv, NoneTwice
<1>5. DbqConserved'
  BY <1>1 DEF DbqIInv, DbqConserved, Volatile
<1> QED
  BY <1>3, <1>4, <1>5 DEF DbqIInv

(* Steps of a call that only move its point of control, and the clock.       *)
LEMMA ControlStep ==
  ASSUME DbqIInv,
         SpillRaises \/ SpillNothing \/ FillRaises \/ FillEnd \/ Restart \/ DbqTick
  PROVE  DbqIInv'
<1>1. /\ pc # "unlink" /\ pc' # "unlink" /\ pc' \in Points
      /\ pc' \in {"ready", "down"} => pc \in {"ready", "down"}
      /\ pc' = "down" => pc = "down"
      /\ UNCHANGED <<mq, hand, seen, out, refused, files, fails, overwritten, kills, lost>>
  BY DEF SpillRaises, SpillNothing, FillRaises, FillEnd, Restart, DbqTick, memState, diskState,
     processState, Points
<1>2. DiskPart'
  <2>1. CASE SpillRaises \/ SpillNothing \/ FillRaises \/ FillEnd
    BY <2>1, DiskIdle DEF SpillRaises, SpillNothing, FillRaises, FillEnd, DbqIInv
  <2>2. CASE Restart
    <3>1. DiskIInv'
      BY <2>2, RecountHolds DEF Restart, DbqIInv, DiskPart
    <3> QED
      BY <1>1, <3>1, DiskUnchanged DEF DbqIInv, DiskPart
  <2>3. CASE DbqTick
    <3>1. now \in 0 .. MaxTime /\ now < MaxTime /\ now' = now + 1
      BY <2>3 DEF DbqTick, Tick, DbqIInv, DiskPart, DiskIInv, DiskTypeOK
    <3>2. now' \in 0 .. MaxTime
      BY <3>1, DiskAssumption
    <3>3. DiskIInv'
      BY <2>3, <3>2, TickHolds DEF DbqTick, DbqIInv, DiskPart
    <3> QED
      BY <1>1, <3>3, DiskUnchanged DEF DbqIInv, DiskPart
  <2> QED
    BY <2>1, <2>2, <2>3
<1>3. MemPart' /\ CallPart'
  BY <1>1 DEF DbqIInv, MemPart, MemStateOK, MemBounded, RoomAfterTake, CallPart
<1>4. Volatile' = Volatile
  BY <1>1 DEF Volatile
<1> QED
  BY <1>1, <1>2, <1>3, <1>4, Rearranged DEF DbqIInv, NoneTwice

(* getz() on the memory half. *)
LEMMA GetzStepKeeps ==
  ASSUME DbqIInv, DbqStartGetz \/ DbqGetzStep \/ DbqEndMemGetz
  PROVE  DbqIInv'
<1>1. /\ Sound \in SUBSET Sound /\ mq \in Seq(Sound) /\ hand \in Sound
      /\ MemBounded /\ RoomAfterTake /\ MemStateOK
      /\ Across(mq, Distinct) /\ EventsIn(hand) \X EventsOf(mq) \subseteq Distinct
  BY DEF DbqIInv, MemPart, NoneTwice
<1>2. /\ pc \in {"ready", "getz"} /\ pc' \in {"getz", "spill"}
      /\ UNCHANGED <<seen, out, refused, diskState, processState>>
  BY DEF DbqStartGetz, StartGetz, DbqGetzStep, GetzStep, DbqEndMemGetz
<1>3. /\ mq' \in Seq(Sound) /\ hand' \in Sound /\ MemBounded' /\ RoomAfterTake'
      /\ EventsOf(mq') \cup EventsIn(hand') = EventsOf(mq) \cup EventsIn(hand)
      /\ Across(mq', Distinct) /\ EventsIn(hand') \X EventsOf(mq') \subseteq Distinct
  <2>1. CASE DbqStartGetz
    <3>1. pc = "ready" /\ hand' = NoBytes /\ mq' = mq
      BY <2>1 DEF DbqStartGetz, StartGetz
    <3>2. hand' = hand
      BY <3>1 DEF DbqIInv, CallPart
    <3> QED
      BY <1>1, <3>1, <3>2 DEF MemBounded, RoomAfterTake
  <2>2. CASE DbqGetzStep
    <3>1. GetzTurn
      BY <2>2 DEF DbqGetzStep, GetzStep
    <3>2. /\ mq' \in Seq(Sound) /\ Bytes(mq') <= MemSize /\ MemBounded'
          /\ hand' \in Sound
          /\ EventsOf(mq) = EventsIn(Head(mq)) \cup EventsOf(mq')
          /\ EventsIn(hand') = EventsIn(hand) \cup EventsIn(Head(mq))
          /\ Across(mq', Distinct) /\ EventsIn(hand') \X EventsOf(mq') \subseteq Distinct
      BY <1>1, <3>1, TurnKeeps
    <3> QED
      BY <3>2 DEF RoomAfterTake
  <2>3. CASE DbqEndMemGetz
    <3>1. GetzReturn
      BY <2>3 DEF DbqEndMemGetz
    <3>2. /\ mq' \in Seq(Sound) /\ MemBounded' /\ RoomAfterTake'
          /\ hand' \in Sound \cup {hand}
          /\ EventsIn(hand') \cup EventsOf(mq') = EventsIn(hand) \cup EventsOf(mq)
          /\ Across(mq', Distinct) /\ EventsIn(hand') \X EventsOf(mq') \subseteq Distinct
      BY <1>1, <3>1, ReturnKeeps
    <3> QED
      BY <1>1, <3>2
  <2> QED
    BY <2>1, <2>2, <2>3
<1>4. MemPart'
  BY <1>1, <1>2, <1>3, SoundSeq, SoundProperties DEF MemPart, MemStateOK
<1>5. CallPart'
  BY <1>2 DEF DbqIInv, CallPart, Points, processState
<1>6. Volatile' = Volatile
  BY <1>3 DEF Volatile
<1>7. DiskPart' /\ UNCHANGED <<files, overwritten>>
  BY <1>2, DiskIdle DEF DbqIInv
<1> QED
  BY <1>2, <1>3, <1>4, <1>5, <1>6, <1>7, Rearranged DEF DbqIInv, NoneTwice, processState

LEMMA Apart ==
  ASSUME NEW S \in SUBSET Event, NEW T \in SUBSET Event
  PROVE  S \X T \subseteq Distinct <=> S \cap T = {}
<1>1. ASSUME S \X T \subseteq Distinct, NEW e \in S \cap T PROVE FALSE
  <2>1. <<e, e>> \in Distinct
    BY <1>1
  <2> QED
    BY <2>1 DEF Distinct
<1>2. ASSUME S \cap T = {} PROVE S \X T \subseteq Distinct
  BY <1>2 DEF Distinct
<1> QED
  BY <1>1, <1>2

LEMMA EventsAreEvents ==
  ASSUME NEW q \in Seq(Sound)
  PROVE  EventsOf(q) \subseteq Event
<1> SUFFICES ASSUME NEW i \in DOMAIN q PROVE EventsIn(q[i]) \subseteq Event
  BY DEF EventsOf
<1>1. q[i] \in Sound
  BY ElementOfSeq, LenProperties
<1> QED
  BY <1>1, SoundProperties

(* get() and pop() on the memory half, and what the caller does with what it *)
(* was given.                                                                *)
LEMMA TakenStep ==
  ASSUME DbqIInv, MemPopLeft, pc = "ready",
         \/ DbqGet /\ hand' = Head(mq) /\ UNCHANGED diskState
         \/ DbqPop /\ out' = out \o Head(mq).evs /\ UNCHANGED diskState
  PROVE  DbqIInv'
<1>1. /\ Sound \in SUBSET Sound /\ mq \in Seq(Sound) /\ hand = NoBytes
      /\ MemBounded /\ MemStateOK /\ Across(mq, Distinct) /\ out \in Seq(Event)
  BY DEF DbqIInv, MemPart, MemStateOK, NoneTwice, CallPart
<1>2. /\ Head(mq) \in Sound /\ mq' \in Seq(Sound) /\ Bytes(mq') <= MemSize /\ MemBounded'
      /\ EventsOf(mq) = EventsIn(Head(mq)) \cup EventsOf(mq')
      /\ Across(mq', Distinct) /\ EventsIn(Head(mq)) \X EventsOf(mq') \subseteq Distinct
  BY <1>1, TakeKeeps
<1>3. Head(mq) \in Item /\ EventsIn(Head(mq)) \cap EventsOf(mq') = {} /\ EventsIn(hand) = {}
  <2>1. EventsOf(mq') \in SUBSET Event
    BY <1>2, EventsAreEvents
  <2>2. Head(mq) \in Item /\ EventsIn(Head(mq)) \in SUBSET Event /\ EventsIn(hand) = {}
    BY <1>1, <1>2, SoundProperties
  <2>3. EventsIn(Head(mq)) \cap EventsOf(mq') = {}
    BY <1>2, <2>1, <2>2, Apart, Zenon
  <2> QED
    BY <2>2, <2>3
<1>4. /\ UNCHANGED <<seen, refused, processState, diskState>>
      /\ \/ hand' = Head(mq) /\ out' = out /\ pc' = "fill"
         \/ hand' = hand /\ out' = out \o Head(mq).evs /\ pc' = "ready"
  BY DEF DbqGet, DbqPop
<1>5. hand' \in Sound /\ out' \in Seq(Event)
  <2>1. Head(mq).evs \in Seq(Event)
    BY <1>3 DEF Item
  <2>2. out \o Head(mq).evs \in Seq(Event)
    BY <1>1, <2>1, ConcatProperties
  <2>3. NoBytes \in Sound
    BY SoundProperties
  <2> QED
    BY <1>1, <1>2, <1>4, <2>2, <2>3
<1>6. MemPart' /\ CallPart'
  BY <1>1, <1>2, <1>4, <1>5, SoundSeq, SoundProperties
     DEF DbqIInv, MemPart, MemStateOK, RoomAfterTake, CallPart, Points, processState
<1>7. DiskPart' /\ UNCHANGED <<files, overwritten>>
  BY <1>4, DiskIdle DEF DbqIInv
<1>8. Range(out \o Head(mq).evs) = Range(out) \cup EventsIn(Head(mq))
  BY <1>1, <1>3, RangeConcatenation DEF Item, EventsIn
<1>9. /\ Volatile' \cup Range(out') = Volatile \cup Range(out)
      /\ Volatile' \cap Range(out') = {}
      /\ EventsIn(hand') \X EventsOf(mq') \subseteq Distinct
  BY <1>2, <1>3, <1>4, <1>8 DEF DbqIInv, NoneTwice, Volatile
<1> QED
  BY <1>2, <1>4, <1>6, <1>7, <1>9, Rearranged DEF processState

LEMMA GivenBackStep ==
  ASSUME DbqIInv, DbqRelease \/ DbqUnget \/ (DbqGet /\ hand' = NoBytes /\ UNCHANGED <<mq, diskState>>)
  PROVE  DbqIInv'
<1>1. /\ Sound \in SUBSET Sound /\ mq \in Seq(Sound) /\ hand \in Sound /\ hand \in Item
      /\ MemBounded /\ RoomAfterTake /\ MemStateOK /\ out \in Seq(Event)
      /\ Across(mq, Distinct) /\ EventsIn(hand) \X EventsOf(mq) \subseteq Distinct
  BY SoundProperties DEF DbqIInv, MemPart, MemStateOK, NoneTwice
<1>2. /\ UNCHANGED <<seen, refused, diskState, processState>> /\ hand' = NoBytes
      /\ pc \in {"ready", "held"} /\ pc' \in {"ready", "fill"}
      /\ \/ mq' = mq /\ out' = out \o hand.evs
         \/ MemUnget(hand) /\ hand.len > 0 /\ out' = out
         \/ mq' = mq /\ out' = out /\ hand = NoBytes
  BY DEF DbqRelease, Release, DbqUnget, Unget, DbqGet, DbqIInv, CallPart
<1>3. /\ mq' \in Seq(Sound) /\ MemBounded' /\ Across(mq', Distinct)
      /\ mq' = mq \/ EventsOf(mq') = EventsIn(hand) \cup EventsOf(mq)
  <2>1. CASE mq' = mq
    BY <1>1, <2>1 DEF MemBounded
  <2>2. CASE MemUnget(hand) /\ hand.len > 0
    BY <1>1, <2>2, UngetKeeps DEF RoomAfterTake
  <2> QED
    BY <1>2, <2>1, <2>2
<1>4. hand' \in Sound /\ hand'.len = 0 /\ EventsIn(hand') = {} /\ out' \in Seq(Event)
  <2>1. hand.evs \in Seq(Event)
    BY <1>1 DEF Item
  <2>2. out \o hand.evs \in Seq(Event)
    BY <1>1, <2>1, ConcatProperties
  <2> QED
    BY <1>1, <1>2, <2>2, SoundProperties
<1>5. MemPart' /\ CallPart'
  BY <1>1, <1>2, <1>3, <1>4, SoundSeq, SoundProperties
     DEF DbqIInv, MemPart, MemStateOK, RoomAfterTake, CallPart, Points, processState
<1>6. DiskPart' /\ UNCHANGED <<files, overwritten>>
  BY <1>2, DiskIdle DEF DbqIInv
<1>7. Range(out \o hand.evs) = Range(out) \cup EventsIn(hand)
  BY <1>1, RangeConcatenation DEF Item, EventsIn
<1>8. EventsIn(hand) \cap EventsOf(mq) = {}
  <2>1. EventsIn(hand) \in SUBSET Event /\ EventsOf(mq) \in SUBSET Event
    BY <1>1, EventsAreEvents, SoundProperties
  <2> QED
    BY <1>1, <2>1, Apart
<1>9. /\ Volatile' \cup Range(out') = Volatile \cup Range(out)
      /\ Volatile' \cap Range(out') = {}
      /\ EventsIn(hand') \X EventsOf(mq') \subseteq Distinct
  <2>1. Volatile \cap Range(out) = {}
    BY DEF DbqIInv, NoneTwice
  <2>2. CASE mq' = mq /\ out' = out \o hand.evs
    BY <1>4, <1>7, <1>8, <2>1, <2>2 DEF Volatile
  <2>3. CASE MemUnget(hand) /\ hand.len > 0 /\ out' = out
    <3>1. EventsOf(mq') = EventsIn(hand) \cup EventsOf(mq)
      BY <1>1, <2>3, UngetKeeps DEF RoomAfterTake
    <3> QED
      BY <1>4, <2>1, <2>3, <3>1 DEF Volatile
  <2>4. CASE mq' = mq /\ out' = out /\ hand = NoBytes
    BY <1>2, <1>4, <2>1, <2>4 DEF Volatile
  <2> QED
    BY <1>2, <2>2, <2>3, <2>4
<1> QED
  BY <1>2, <1>3, <1>5, <1>6, <1>9, Rearranged DEF processState

------------------------------------------------------------------------------
(* Steps that change what the directory holds, or what memory holds of it.   *)

(* get() and pop() on the disk half. *)
LEMMA FromDiskStep ==
  ASSUME DbqIInv, mq = <<>>, ~NoFiles, CountingUnlink(Oldest),
         \/ DbqGet /\ hand' = files[Oldest] /\ UNCHANGED mq
         \/ DbqPop /\ out' = out \o files[Oldest].evs /\ UNCHANGED mq
  PROVE  DbqIInv'
<1> DEFINE p == files[Oldest]
<1>1. /\ hand = NoBytes /\ pc = "ready" /\ MemStateOK /\ out \in Seq(Event) /\ mq' = mq
      /\ EventsIn(hand) = {} /\ EventsOf(mq) = {} /\ MemBounded /\ Across(mq, Distinct)
  BY SoundProperties, EventsEmpty
     DEF DbqGet, DbqPop, DbqIInv, MemPart, MemStateOK, CallPart, NoneTwice
<1>2. /\ DiskPart' /\ p \in Sound /\ UNCHANGED overwritten
      /\ EventsOf(files) = EventsIn(p) \cup EventsOf(files')
      /\ EventsIn(p) \cap EventsOf(files') = {}
  BY UnlinkKeeps DEF DbqIInv
<1>3. p \in Item /\ p.evs \in Seq(Event)
  BY <1>2, SoundProperties DEF Item
<1>4. /\ out \o p.evs \in Seq(Event)
      /\ Range(out \o p.evs) = Range(out) \cup EventsIn(p)
  BY <1>1, <1>3, ConcatProperties, RangeConcatenation DEF EventsIn
<1> HIDE DEF p
<1>5. /\ UNCHANGED <<seen, refused, processState>>
      /\ \/ hand' = p /\ out' = out /\ pc' = "fill"
         \/ hand' = hand /\ out' = out \o p.evs /\ pc' = "ready"
  BY DEF DbqGet, DbqPop, p
<1>6. MemPart' /\ CallPart'
  <2>1. hand' \in Sound /\ out' \in Seq(Event) /\ mq' \in Seq(Sound)
    BY <1>1, <1>2, <1>4, <1>5 DEF DbqIInv, MemPart
  <2>2. RoomAfterTake' /\ MemBounded'
    BY <1>1, BytesEmpty, MemAssumption DEF RoomAfterTake, MemBounded
  <2> QED
    BY <1>1, <1>5, <2>1, <2>2, SoundProperties
       DEF DbqIInv, MemPart, MemStateOK, CallPart, Points, processState
<1>7. Placed' /\ OnDiskOnly = EventsOf(files) /\ OnDiskOnly' = EventsOf(files')
  BY <1>1, <1>5 DEF Placed, OnDiskOnly
<1>8. /\ EventsOf(mq') = {} /\ Across(mq', Distinct')
      /\ EventsIn(hand') \X EventsOf(mq') \subseteq Distinct'
  BY <1>1 DEF Distinct
<1>9. NoneTwice'
  <2>1. EventsOf(files) \cap Range(out) = {}
    BY <1>7 DEF DbqIInv, NoneTwice
  <2>2. /\ EventsOf(files') \cap (Volatile' \cup Range(out')) = {}
        /\ Volatile' \cap Range(out') = {}
    BY <1>1, <1>2, <1>4, <1>5, <1>8, <2>1 DEF Volatile
  <2> QED
    BY <1>7, <1>8, <2>2 DEF NoneTwice
<1>10. DbqConserved'
  BY <1>1, <1>2, <1>4, <1>5, <1>8 DEF DbqIInv, DbqConserved, processState
<1> QED
  BY <1>2, <1>6, <1>7, <1>9, <1>10 DEF DbqIInv

(* _disk_to_mem(), first half: the oldest file's events are in memory too.   *)
LEMMA FillPutStep ==
  ASSUME DbqIInv, FillPut
  PROVE  DbqIInv'
<1> DEFINE p == files[Oldest]
           rest == [f \in DOMAIN files \ {Oldest} |-> files[f]]
<1>1. /\ pc = "fill" /\ pc' = "unlink" /\ ~NoFiles /\ MemAppend(p)
      /\ UNCHANGED <<hand, seen, out, refused, diskState, processState>>
  BY DEF FillPut
<1>2. /\ Sound \in SUBSET Sound /\ mq \in Seq(Sound) /\ MemStateOK
      /\ Across(mq, Distinct) /\ EventsIn(hand) \X EventsOf(mq) \subseteq Distinct
      /\ EventsOf(files) \cap (Volatile \cup Range(out)) = {}
      /\ Volatile \cap Range(out) = {} /\ hand \in Sound
  BY <1>1 DEF DbqIInv, MemPart, NoneTwice, OnDiskOnly
<1>3. /\ p \in Sound /\ EventsOf(files) = EventsIn(p) \cup EventsOf(rest)
      /\ EventsIn(p) \cap EventsOf(rest) = {}
  BY <1>1, OldestFile DEF DbqIInv
<1>4. /\ DiskPart' /\ UNCHANGED <<files, overwritten>>
      /\ EventsOf(files') = EventsOf(files) /\ Oldest' = Oldest /\ NoFiles' = NoFiles
      /\ EventsOf([f \in DOMAIN files' \ {Oldest'} |-> files'[f]]) = EventsOf(rest)
  <2>1. DiskPart' /\ UNCHANGED <<files, overwritten>>
    BY <1>1, DiskIdle DEF DbqIInv
  <2> QED
    BY <2>1, DiskUnchanged DEF DbqIInv
<1>5. OnDiskOnly' = EventsOf(rest)
  BY <1>1, <1>4 DEF OnDiskOnly
<1>6. files'[Oldest'] = p
  BY <1>4
<1> HIDE DEF p, rest
<1>7. /\ EventsOf(mq) \in SUBSET Event /\ EventsIn(p) \in SUBSET Event
      /\ EventsIn(hand) \in SUBSET Event
  BY <1>2, <1>3, EventsAreEvents, SoundProperties
<1>8. EventsOf(mq) \X EventsIn(p) \subseteq Distinct
  <2>1. EventsOf(mq) \cap EventsIn(p) = {}
    BY <1>2, <1>3 DEF Volatile
  <2> QED
    BY <1>7, <2>1, Apart
<1>9. /\ mq' \in Seq(Sound) /\ Bytes(mq') <= MemSize /\ MemBounded'
      /\ EventsOf(mq') = EventsOf(mq) \cup EventsIn(p) /\ Across(mq', Distinct)
  BY <1>1, <1>2, <1>3, <1>8, AppendKeeps
<1>10. EventsIn(hand') \X EventsOf(mq') \subseteq Distinct
  <2>1. EventsIn(hand) \cap EventsIn(p) = {}
    BY <1>2, <1>3 DEF Volatile
  <2>2. EventsIn(hand) \X EventsIn(p) \subseteq Distinct
    BY <1>7, <2>1, Apart
  <2> QED
    BY <1>1, <1>2, <1>9, <2>2
<1>11. MemPart'
  BY <1>1, <1>2, <1>9, SoundSeq DEF DbqIInv, MemPart, MemStateOK, RoomAfterTake
<1>12. CallPart'
  BY <1>1 DEF DbqIInv, CallPart, Points, processState
<1>13. Placed'
  BY <1>1, <1>4, <1>6, <1>9 DEF Placed
<1>14. NoneTwice'
  <2>1. Volatile' = Volatile \cup EventsIn(p) /\ Range(out') = Range(out)
    BY <1>1, <1>9 DEF Volatile
  <2>2. /\ EventsOf(rest) \cap (Volatile' \cup Range(out')) = {}
        /\ Volatile' \cap Range(out') = {}
    BY <1>2, <1>3, <2>1
  <2>3. Distinct' = Distinct
    BY DEF Distinct
  <2> QED
    BY <1>5, <1>9, <1>10, <2>2, <2>3 DEF NoneTwice
<1>15. DbqConserved'
  BY <1>1, <1>3, <1>4, <1>9 DEF DbqIInv, DbqConserved, processState
<1> QED
  BY <1>4, <1>11, <1>12, <1>13, <1>14, <1>15 DEF DbqIInv

(* _disk_to_mem(), second half. *)
LEMMA FillPopStep ==
  ASSUME DbqIInv, FillPop
  PROVE  DbqIInv'
<1>1. /\ pc = "unlink" /\ pc' = "fill" /\ CountingUnlink(Oldest)
      /\ UNCHANGED <<mq, hand, seen, out, refused, processState>>
  BY DEF FillPop, memState
<1>2. ~NoFiles /\ EventsIn(files[Oldest]) \subseteq EventsOf(mq)
  BY <1>1 DEF DbqIInv, Placed
<1>3. /\ DiskPart' /\ UNCHANGED overwritten
      /\ EventsOf(files') = EventsOf([f \in DOMAIN files \ {Oldest} |-> files[f]])
      /\ EventsOf(files) = EventsIn(files[Oldest]) \cup EventsOf(files')
  BY <1>1, <1>2, UnlinkKeeps DEF DbqIInv
<1>4. OnDiskOnly' = OnDiskOnly
  BY <1>1, <1>3 DEF OnDiskOnly
<1>5. MemPart' /\ CallPart' /\ Placed'
  BY <1>1 DEF DbqIInv, MemPart, MemStateOK, MemBounded, RoomAfterTake, CallPart, Points, Placed,
     processState
<1>6. NoneTwice'
  BY <1>1, <1>4 DEF DbqIInv, NoneTwice, Volatile, Distinct
<1>7. DbqConserved'
  BY <1>1, <1>2, <1>3 DEF DbqIInv, DbqConserved, processState
<1> QED
  BY <1>3, <1>5, <1>6, <1>7 DEF DbqIInv

------------------------------------------------------------------------------
(* put().  An event that was never offered is nowhere yet. *)

LEMMA NewEvent ==
  ASSUME DbqIInv, NEW e \in Event, e \notin seen
  PROVE  e \notin Volatile \cup EventsOf(files) \cup Range(out)
BY DEF DbqIInv, DbqConserved, Volatile

LEMMA PutMemStep ==
  ASSUME DbqIInv, NEW e \in Event, PutMem(e)
  PROVE  DbqIInv'
<1>1. /\ pc = "ready" /\ e \notin seen /\ seen' = seen \cup {e} /\ MemAppend(Encoded(e))
      /\ UNCHANGED <<hand, pc, out, refused, diskState, processState>>
  BY DEF PutMem, Offer
<1>2. /\ Sound \in SUBSET Sound /\ mq \in Seq(Sound) /\ MemStateOK /\ hand \in Sound
      /\ Across(mq, Distinct) /\ EventsIn(hand) = {}
  BY <1>1, SoundProperties DEF DbqIInv, MemPart, NoneTwice, CallPart
<1>3. e \notin Volatile \cup EventsOf(files) \cup Range(out)
  BY <1>1, NewEvent
<1>4. Encoded(e) \in Sound /\ EventsIn(Encoded(e)) = {e}
  BY GoodEncoded, SoundProperties
<1>5. EventsOf(mq) \X {e} \subseteq Distinct
  <2>1. EventsOf(mq) \in SUBSET Event /\ {e} \in SUBSET Event
    BY <1>2, EventsAreEvents
  <2>2. EventsOf(mq) \cap {e} = {}
    BY <1>3 DEF Volatile
  <2> QED
    BY <2>1, <2>2, Apart
<1>6. /\ mq' \in Seq(Sound) /\ Bytes(mq') <= MemSize /\ MemBounded'
      /\ EventsOf(mq') = EventsOf(mq) \cup {e} /\ Across(mq', Distinct)
  BY <1>1, <1>2, <1>4, <1>5, AppendKeeps
<1>7. DiskPart' /\ UNCHANGED <<files, overwritten>> /\ EventsOf(files') = EventsOf(files)
  BY <1>1, DiskIdle, DiskUnchanged DEF DbqIInv
<1>8. MemPart'
  BY <1>1, <1>2, <1>6, SoundSeq DEF MemPart, MemStateOK, RoomAfterTake
<1>9. CallPart' /\ Placed' /\ OnDiskOnly = EventsOf(files) /\ OnDiskOnly' = EventsOf(files)
  BY <1>1, <1>7 DEF DbqIInv, CallPart, Placed, OnDiskOnly, processState
<1>10. NoneTwice'
  <2>1. /\ Volatile' = Volatile \cup {e} /\ Range(out') = Range(out) /\ Distinct' = Distinct
        /\ EventsIn(hand') = {}
    BY <1>1, <1>2, <1>6 DEF Volatile, Distinct
  <2> QED
    BY <1>3, <1>6, <1>9, <2>1 DEF DbqIInv, NoneTwice
<1>11. DbqConserved'
  BY <1>1, <1>6, <1>7 DEF DbqIInv, DbqConserved, processState
<1> QED
  BY <1>7, <1>8, <1>9, <1>10, <1>11 DEF DbqIInv

(* Refused, written to disk, or written in part. *)
LEMMA PutStep ==
  ASSUME DbqIInv, NEW e \in Event, PutDisk(e) \/ PutFails(e) \/ PutNowhere(e)
  PROVE  DbqIInv'
<1>1. /\ pc = "ready" /\ e \notin seen /\ seen' = seen \cup {e}
      /\ UNCHANGED <<mq, hand, pc, out, processState>>
  BY DEF PutDisk, PutFails, PutNowhere, Offer
<1>2. e \notin Volatile \cup EventsOf(files) \cup Range(out)
  BY <1>1, NewEvent
<1>3. /\ DiskPart'
      /\ EventsOf(files') \subseteq EventsOf(files) \cup {e}
      /\ EventsOf(files) \cup overwritten \subseteq EventsOf(files') \cup overwritten'
      /\ overwritten' \subseteq EventsOf(files) \cup overwritten \cup {e}
      /\ \/ e \in EventsOf(files') /\ refused' = refused
         \/ refused' = refused \cup {e}
  <2>1. CASE PutDisk(e)
    BY <1>2, <2>1, WriteKeeps DEF PutDisk, DbqIInv
  <2>2. CASE PutFails(e)
    BY <1>2, <2>2, WriteKeeps DEF PutFails, DbqIInv
  <2>3. CASE PutNowhere(e)
    <3>1. refused' = refused \cup {e} /\ UNCHANGED diskState
      BY <2>3 DEF PutNowhere
    <3>2. DiskPart' /\ UNCHANGED <<files, overwritten>>
      BY <3>1, DiskIdle DEF DbqIInv
    <3> QED
      BY <3>1, <3>2
  <2> QED
    BY <2>1, <2>2, <2>3
<1>4. MemPart' /\ CallPart' /\ Placed' /\ OnDiskOnly = EventsOf(files)
      /\ OnDiskOnly' = EventsOf(files')
  BY <1>1, <1>3 DEF DbqIInv, MemPart, MemStateOK, MemBounded, RoomAfterTake, CallPart, Placed,
     OnDiskOnly, processState
<1>5. NoneTwice'
  BY <1>1, <1>2, <1>3, <1>4 DEF DbqIInv, NoneTwice, Volatile, Distinct
<1>6. DbqConserved'
  BY <1>1, <1>3 DEF DbqIInv, DbqConserved, processState
<1> QED
  BY <1>3, <1>4, <1>5, <1>6 DEF DbqIInv

------------------------------------------------------------------------------
(* The death of the process takes the memory half and leaves the directory,  *)
(* in which put() may have been writing.                                     *)
LEMMA DeathStep ==
  ASSUME DbqIInv, Collapse \/ Kill \/ \E e \in Event : KillInPut(e)
  PROVE  DbqIInv'
<1>1. Dies /\ kills' \in 0 .. MaxKills
  <2>1. kills \in Nat /\ kills <= MaxKills /\ (kills' = kills \/ (kills < MaxKills /\ kills' = kills + 1))
    BY DEF Collapse, Kill, KillInPut, Killed, DbqIInv, CallPart
  <2> QED
    BY <2>1, KillsAssumption DEF Collapse, Kill, KillInPut, Killed
<1>2. /\ pc' = "down" /\ mq' = <<>> /\ hand' = NoBytes /\ UNCHANGED <<out, refused>>
      /\ EventsOf(mq') = {} /\ EventsIn(hand') = {}
  BY <1>1, EventsEmpty DEF Dies
<1>3. PICK S \in SUBSET Event :
        /\ seen' = seen \cup S /\ S \cap Range(out) = {} /\ DiskPart'
        /\ EventsOf(files') \subseteq EventsOf(files) \cup S
        /\ EventsOf(files) \cup overwritten \subseteq EventsOf(files') \cup overwritten'
        /\ overwritten' \subseteq EventsOf(files) \cup overwritten \cup S
        /\ lost' = lost \cup ((Volatile \cup S) \ EventsOf(files'))
  <2>1. CASE Collapse \/ Kill
    <3>1. /\ UNCHANGED <<seen, diskState>>
          /\ lost' = lost \cup (Volatile \ EventsOf(files))
      BY <2>1 DEF Collapse, Kill
    <3>2. DiskPart' /\ UNCHANGED <<files, overwritten>>
      BY <3>1, DiskIdle DEF DbqIInv
    <3>3. EventsOf(files') = EventsOf(files)
      BY <3>2, DiskUnchanged DEF DbqIInv
    <3> WITNESS {} \in SUBSET Event
    <3> QED
      BY <3>1, <3>2, <3>3
  <2>2. ASSUME NEW e \in Event, KillInPut(e)
        PROVE  \E S \in SUBSET Event :
          /\ seen' = seen \cup S /\ S \cap Range(out) = {} /\ DiskPart'
          /\ EventsOf(files') \subseteq EventsOf(files) \cup S
          /\ EventsOf(files) \cup overwritten \subseteq EventsOf(files') \cup overwritten'
          /\ overwritten' \subseteq EventsOf(files) \cup overwritten \cup S
          /\ lost' = lost \cup ((Volatile \cup S) \ EventsOf(files'))
    <3>1. /\ e \notin seen /\ seen' = seen \cup {e} /\ DiskWriteCut(Encoded(e))
          /\ lost' = lost \cup ((Volatile \cup {e}) \ EventsOf(files'))
      BY <2>2 DEF KillInPut, Offer
    <3>2. e \notin Volatile \cup EventsOf(files) \cup Range(out)
      BY <3>1, NewEvent
    <3>3. /\ DiskPart' /\ EventsOf(files') \subseteq EventsOf(files) \cup {e}
          /\ EventsOf(files) \cup overwritten \subseteq EventsOf(files') \cup overwritten'
          /\ overwritten' \subseteq EventsOf(files) \cup overwritten \cup {e}
      BY <3>1, <3>2, WriteKeeps DEF DbqIInv
    <3> WITNESS {e} \in SUBSET Event
    <3> QED
      BY <3>1, <3>2, <3>3
  <2> QED
    BY <2>1, <2>2
<1>4. MemPart'
  BY <1>2, <1>3, SoundProperties
     DEF DbqIInv, MemPart, MemStateOK, MemBounded, RoomAfterTake
<1>5. CallPart' /\ Placed' /\ OnDiskOnly' = EventsOf(files')
  <2>1. Volatile \subseteq Event
    <3>1. EventsOf(mq) \subseteq Event
      BY EventsAreEvents DEF DbqIInv, MemPart
    <3> QED
      BY <3>1, SoundProperties DEF DbqIInv, MemPart, Volatile
  <2> QED
    BY <1>1, <1>2, <1>3, <2>1 DEF DbqIInv, CallPart, Placed, OnDiskOnly, Points
<1>6. NoneTwice'
  <2>1. EventsOf(files) \cap Range(out) = {}
    \* At "unlink" too: there the oldest file's events are in memory.
    <3>1. CASE pc = "unlink"
      BY <3>1, OldestFile DEF DbqIInv, NoneTwice, OnDiskOnly, Placed, Volatile
    <3>2. CASE pc # "unlink"
      BY <3>2 DEF DbqIInv, NoneTwice, OnDiskOnly
    <3> QED
      BY <3>1, <3>2
  <2>2. Across(mq', Distinct')
    BY <1>2, AcrossEmpty
  <2> QED
    BY <1>2, <1>3, <1>5, <2>1, <2>2 DEF NoneTwice, Volatile
<1>7. DbqConserved'
  BY <1>2, <1>3 DEF DbqIInv, DbqConserved, Volatile
<1> QED
  BY <1>3, <1>4, <1>5, <1>6, <1>7 DEF DbqIInv

------------------------------------------------------------------------------
LEMMA DbqInitHolds == DbqInit => DbqIInv
<1> SUFFICES ASSUME DbqInit PROVE DbqIInv
  OBVIOUS
<1>1. /\ mq = <<>> /\ hand = NoBytes /\ pc = "ready" /\ seen = {} /\ out = <<>>
      /\ refused = {} /\ DiskInit /\ files = <<>> /\ overwritten = {} /\ kills = 0 /\ lost = {}
      /\ EventsOf(mq) = {} /\ EventsIn(hand) = {} /\ EventsOf(files) = {} /\ Range(out) = {}
  BY EventsEmpty DEF DbqInit, MemInit, DiskInit, Range
<1>2. DiskPart
  <2>1. DiskIInv
    BY <1>1, DiskInitHolds
  <2>2. DOMAIN files = {}
    BY <1>1
  <2> QED
    BY <2>1, <2>2 DEF DiskPart, FilesSound, FilesApart
<1>3. MemPart /\ CallPart /\ Placed
  BY <1>1, SoundProperties, KillsAssumption
     DEF MemPart, MemStateOK, MemBounded, RoomAfterTake, CallPart, Points, Placed
<1>4. DbqConserved
  BY <1>1 DEF DbqConserved
<1>5. NoneTwice
  BY <1>1, AcrossEmpty DEF NoneTwice, OnDiskOnly, Volatile
<1> QED
  BY <1>2, <1>3, <1>4, <1>5 DEF DbqIInv

LEMMA DbqStepHolds == DbqIInv /\ [DbqNext]_dbqVars => DbqIInv'
<1> SUFFICES ASSUME DbqIInv, [DbqNext]_dbqVars PROVE DbqIInv'
  OBVIOUS
<1>1. ASSUME NEW e \in Event, PutMem(e) PROVE DbqIInv'
  BY <1>1, PutMemStep
<1>2. ASSUME NEW e \in Event, PutDisk(e) \/ PutFails(e) \/ PutNowhere(e) PROVE DbqIInv'
  BY <1>2, PutStep
<1>3. CASE DbqStartGetz \/ DbqGetzStep \/ DbqEndMemGetz
  BY <1>3, GetzStepKeeps
<1>4. CASE SpillRaises \/ SpillNothing \/ FillRaises \/ FillEnd \/ Restart \/ DbqTick
  BY <1>4, ControlStep
<1>5. CASE DbqGet
  <2>1. CASE MemPopLeft /\ hand' = Head(mq) /\ UNCHANGED diskState
    BY <1>5, <2>1, TakenStep DEF DbqGet
  <2>2. CASE mq = <<>> /\ ~NoFiles /\ hand' = files[Oldest] /\ CountingUnlink(Oldest)
             /\ UNCHANGED mq
    BY <1>5, <2>2, FromDiskStep
  <2>3. CASE hand' = NoBytes /\ UNCHANGED <<mq, diskState>>
    BY <1>5, <2>3, GivenBackStep
  <2> QED
    BY <1>5, <2>1, <2>2, <2>3 DEF DbqGet
<1>6. CASE DbqPop
  <2>1. CASE MemPopLeft /\ out' = out \o Head(mq).evs /\ UNCHANGED diskState
    BY <1>6, <2>1, TakenStep DEF DbqPop
  <2>2. CASE mq = <<>> /\ ~NoFiles /\ CountingUnlink(Oldest)
             /\ out' = out \o files[Oldest].evs /\ UNCHANGED mq
    BY <1>6, <2>2, FromDiskStep
  <2> QED
    BY <1>6, <2>1, <2>2 DEF DbqPop
<1>7. CASE FillPut
  BY <1>7, FillPutStep
<1>8. CASE FillPop
  BY <1>8, FillPopStep
<1>9. CASE DbqRelease \/ DbqUnget
  BY <1>9, GivenBackStep
<1>10. CASE Collapse \/ Kill \/ \E e \in Event : KillInPut(e)
  BY <1>10, DeathStep
<1>11. CASE UNCHANGED dbqVars
  <2>1. /\ UNCHANGED <<mq, hand, pc, seen, out, refused, diskState, files, overwritten, kills, lost>>
        /\ Volatile' = Volatile /\ Distinct' = Distinct
    BY <1>11 DEF dbqVars, diskState, Volatile, Distinct
  <2>2. /\ DiskPart' /\ EventsOf(files') = EventsOf(files) /\ Oldest' = Oldest
        /\ NoFiles' = NoFiles /\ OnDiskOnly' = OnDiskOnly
    BY <2>1, DiskIdle, DiskUnchanged DEF DbqIInv, OnDiskOnly
  <2>3. MemPart' /\ CallPart' /\ Placed'
    BY <2>1, <2>2
       DEF DbqIInv, MemPart, MemStateOK, MemBounded, RoomAfterTake, CallPart, Placed
  <2>4. NoneTwice' /\ DbqConserved'
    BY <2>1, <2>2 DEF DbqIInv, NoneTwice, DbqConserved
  <2> QED
    BY <2>2, <2>3, <2>4 DEF DbqIInv
<1> QED
  BY <1>1, <1>2, <1>3, <1>4, <1>5, <1>6, <1>7, <1>8, <1>9, <1>10, <1>11 DEF DbqNext

LEMMA DbqInductive == DbqSpec => []DbqIInv
BY DbqInitHolds, DbqStepHolds, PTL DEF DbqSpec

(* Together, too, the two halves keep to their types and their bounds, and   *)
(* cn never hides a file but for a write that failed (dq.py:254-308).        *)
THEOREM HalvesKeptAlways == DbqSpec => []HalvesKept
<1>1. DbqIInv => HalvesKept
  BY DEF DbqIInv, MemPart, DiskPart, DiskIInv, CallPart, HalvesKept, DbqTypeOK
<1> QED
  BY <1>1, DbqInductive, PTL

(* Kills, restarts, failed writes and reused file names included, an event   *)
(* is lost in no way but the three that DbqConserved names (dq.py:247-308).  *)
THEOREM DbqConservedAlways == DbqSpec => []DbqConserved
<1>1. DbqIInv => DbqConserved
  BY DEF DbqIInv
<1> QED
  BY <1>1, DbqInductive, PTL

(* No event is ever in two places, but for the oldest file in the middle of  *)
(* _disk_to_mem (dq.py:275-287).                                             *)
THEOREM NoSecondCopyAlways == DbqSpec => []NoSecondCopy
<1>1. DbqIInv => NoSecondCopy
  <2> SUFFICES ASSUME DbqIInv PROVE NoSecondCopy
    OBVIOUS
  <2>1. /\ mq \in Seq(Sound) /\ EventsOf(mq) \in SUBSET Event
        /\ EventsIn(hand) \in SUBSET Event
        /\ \A i \in DOMAIN mq : EventsIn(mq[i]) \in SUBSET Event
    <3>1. mq \in Seq(Sound) /\ hand \in Sound
      BY DEF DbqIInv, MemPart
    <3>2. EventsOf(mq) \in SUBSET Event
      BY <3>1, EventsAreEvents
    <3> QED
      BY <3>1, <3>2, SoundProperties DEF EventsOf
  <2>2. EventsIn(hand) \cap EventsOf(mq) = {}
    BY <2>1, Apart DEF DbqIInv, NoneTwice
  <2>3. ASSUME NEW i \in DOMAIN mq, NEW j \in DOMAIN mq, i < j
        PROVE  EventsIn(mq[i]) \cap EventsIn(mq[j]) = {}
    <3>1. EventsIn(mq[i]) \X EventsIn(mq[j]) \subseteq Distinct
      BY <2>3 DEF DbqIInv, NoneTwice, Across
    <3> QED
      BY <2>1, <3>1, Apart
  <2>4. \A i, j \in DOMAIN mq : i # j => i < j \/ j < i
    BY <2>1, LenProperties
  <2>5. \A i, j \in DOMAIN mq : i # j => EventsIn(mq[i]) \cap EventsIn(mq[j]) = {}
    BY <2>3, <2>4
  <2> QED
    BY <2>2, <2>5 DEF DbqIInv, NoneTwice, NoSecondCopy, Volatile
<1> QED
  BY <1>1, DbqInductive, PTL
==============================================================================
