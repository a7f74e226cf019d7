--------------------------- MODULE FileLinesProofs ---------------------------
(***************************************************************************)
(* That the file reader skips nothing, and repeats nothing but after a     *)
(* kill, for every file, every signature length and all bounds, as long as *)
(* the file is not replaced while it is read.                              *)
(***************************************************************************)
EXTENDS FileLines, SequenceTheorems, WellFoundedInduction, TLAPS

------------------------------------------------------------------------------
(* What TypeOK needs to be inductive: a file is never longer than what was   *)
(* ever written.                                                              *)
TypeIInv == TypeOK /\ Len(file) <= written /\ Len(old) <= written

(* The pieces written before the ones in the file: they are numbered in the  *)
(* order they are written, so two versions of the file with a piece in them  *)
(* have different bases.                                                      *)
Base == written - Len(file)

FileKept ==
  /\ Base \in Nat
  /\ \A k \in 1 .. Len(file) : file[k] = Base + k
  /\ ~exists => file = <<>>
  /\ \A l \in Line : emitted[l] > 0 => l <= written

Quiet == pc \in {"idle", "down"}

OpenKept ==
  /\ fd # "old"
  /\ Quiet \/ pc = "open" => fd = "none"
  /\ pc = "down" => pos = Start

(* The base of the version that a position is in: its signature tells it.    *)
SigBase(p) == p.sig[1] - 1

(* What lies before a place has been read, but for what was taken for read.   *)
ReadUpTo(b, n) == \A l \in Line : b + taken < l /\ l <= b + n => emitted[l] > 0

(* A place that the version at the path has, or had when it was mistaken for  *)
(* another.                                                                    *)
Reached(n) == n <= Len(file) \/ n <= taken

(* A position that was saved: without a signature it is the beginning; with   *)
(* one it is a place in a version that was there, and if that version still   *)
(* is, what lies before it has been read.                                      *)
Signed(p) ==
  \/ p.sig = <<>> /\ p.tell = 0 /\ p.size = 0
  \/ /\ p.sig # <<>>
     /\ \A k \in 1 .. Len(p.sig) : p.sig[k] = SigBase(p) + k
     /\ SigBase(p) + Len(p.sig) <= written
     /\ SigBase(p) = Base => Reached(p.tell) /\ ReadUpTo(Base, p.tell)

(* While the file is open the position is one in the version that is there.  *)
InThisFile ==
  /\ exists
  /\ Reached(pos.tell) /\ Len(pos.sig) <= Len(file)
  /\ pos.sig = <<>> => pos.tell <= Len(file)
  /\ \A k \in 1 .. Len(pos.sig) : pos.sig[k] = Base + k
  /\ ReadUpTo(Base, pos.tell)

PlacesKept == Signed(meta) /\ (Quiet => Signed(pos)) /\ (~Quiet => InThisFile)

(* What has been read more often than there were deaths is behind the place  *)
(* from which the reader goes on, and that place will not be reset.           *)
Behind(p, l) ==
  \/ l <= Base
  \/ p.sig # <<>> /\ Base = SigBase(p) /\ p.size <= Len(file) /\ l <= Base + p.tell

OnceBehind ==
  \A l \in Line : emitted[l] > kills =>
    IF Quiet THEN Behind(IF pc = "idle" THEN pos ELSE meta, l) ELSE l <= Base + pos.tell

PlaceIInv == FileKept /\ OpenKept /\ PlacesKept /\ OnceBehind /\ NoRepeat

------------------------------------------------------------------------------
LEMMA LineEndExists ==
  ASSUME NEW s, Len(s) \in Nat, NEW t \in Nat, t < Len(s)
  PROVE  LineEnd(s, t) \in t + 1 .. Len(s)
<1> DEFINE n == Len(s)  T == {m \in t + 1 .. n : m = n \/ Text[s[m]] \notin Half}
<1>1. n \in T /\ T \subseteq Nat
  OBVIOUS
<1>2. PICK m \in T : \A k \in T : ~(k < m)
  <2>1. \E m \in T : \A k \in T : ~(<<k, m>> \in OpToRel(<, Nat))
    BY <1>1, NatLessThanWellFounded, WFMin
  <2> QED
    BY <1>1, <2>1 DEF OpToRel
<1>3. \A k \in t + 1 .. m - 1 : Text[s[k]] \in Half
  <2> SUFFICES ASSUME NEW k \in t + 1 .. m - 1, Text[s[k]] \notin Half PROVE FALSE
    OBVIOUS
  <2>1. m \in Nat /\ m <= n /\ k \in Nat
    OBVIOUS
  <2>2. k \in T /\ k < m
    BY <2>1
  <2> QED
    BY <1>2, <2>2
<1>4. m \in t + 1 .. n /\ (m = n \/ Text[s[m]] \notin Half)
  OBVIOUS
<1> QED
  BY <1>3, <1>4 DEF LineEnd

LEMMA PrefixProperties ==
  ASSUME NEW s \in Seq(Line), NEW n \in Nat
  PROVE  /\ Prefix(s, n) \in Seq(Line)
         /\ Len(Prefix(s, n)) = IF n < Len(s) THEN n ELSE Len(s)
         /\ \A k \in 1 .. Len(Prefix(s, n)) : Prefix(s, n)[k] = s[k]
<1> DEFINE m == Smaller(n, Len(s))
<1>1. m \in Nat /\ m <= Len(s) /\ m = IF n < Len(s) THEN n ELSE Len(s)
  BY LenProperties DEF Smaller
<1> HIDE DEF m
<1>2. \A k \in 1 .. m : s[k] \in Line
  BY <1>1, ElementOfSeq, LenProperties
<1>3. /\ SubSeq(s, 1, m) \in Seq(Line) /\ Len(SubSeq(s, 1, m)) = m
      /\ \A k \in 1 .. m : SubSeq(s, 1, m)[k] = s[k]
  BY <1>1, <1>2, SubSeqProperties
<1>4. Prefix(s, n) = SubSeq(s, 1, m)
  BY DEF Prefix, m
<1> QED
  BY <1>1, <1>3, <1>4

LEMMA PrefixIs ==
  ASSUME NEW s \in Seq(Line), NEW p \in Seq(Line)
  PROVE  Prefix(s, Len(p)) = p <=>
           Len(p) <= Len(s) /\ \A k \in 1 .. Len(p) : s[k] = p[k]
<1> DEFINE f == Prefix(s, Len(p))
<1>1. Len(p) \in Nat /\ Len(s) \in Nat
  BY LenProperties
<1>2. /\ f \in Seq(Line) /\ Len(f) = IF Len(p) < Len(s) THEN Len(p) ELSE Len(s)
      /\ \A k \in 1 .. Len(f) : f[k] = s[k]
  BY <1>1, PrefixProperties
<1> HIDE DEF f
<1>3. ASSUME f = p PROVE Len(p) <= Len(s) /\ \A k \in 1 .. Len(p) : s[k] = p[k]
  BY <1>1, <1>2, <1>3
<1>4. ASSUME Len(p) <= Len(s), \A k \in 1 .. Len(p) : s[k] = p[k] PROVE f = p
  <2>1. Len(f) = Len(p)
    BY <1>1, <1>2, <1>4
  <2>2. \A k \in 1 .. Len(f) : f[k] = p[k]
    BY <1>2, <1>4, <2>1
  <2> QED
    BY <1>2, <2>1, <2>2, SeqEqual
<1> QED
  BY <1>3, <1>4 DEF f

------------------------------------------------------------------------------
(* Types. *)

LEMMA StartIsPosition == Start \in Position
BY FileLinesAssumption DEF Start, Position

LEMMA PositionFields ==
  ASSUME NEW p \in Position
  PROVE  /\ p.tell \in 0 .. MaxLines /\ p.size \in 0 .. MaxLines
         /\ p.mtime \in 0 .. MaxTime /\ p.sig \in Seq(Line)
         /\ p.tell \in Nat /\ p.size \in Nat
BY FileLinesAssumption DEF Position

LEMMA CheckedType ==
  ASSUME TypeIInv, NEW p \in Position
  PROVE  /\ Checked(p) \in Position
         /\ Taken(p) \in 0 .. MaxLines /\ taken \in 0 .. MaxLines /\ Taken(p) >= taken
<1>1. file \in Seq(Line) /\ p.sig \in Seq(Line) /\ Len(p.sig) \in Nat
  BY PositionFields, LenProperties DEF TypeIInv, TypeOK
<1>2. Prefix(file, Len(p.sig)) \in Seq(Line)
  BY <1>1, PrefixProperties
<1>3. Resumed(p) \in Position
  BY <1>2 DEF Resumed, Position
<1>4. Checked(p) \in Position
  BY <1>3, StartIsPosition DEF Checked
<1>5. p.tell \in 0 .. MaxLines /\ taken \in 0 .. MaxLines /\ MaxLines \in Nat
  BY PositionFields, FileLinesAssumption DEF TypeIInv, TypeOK
<1> QED
  BY <1>4, <1>5 DEF Taken

LEMMA SavedType ==
  ASSUME TypeIInv, NEW p \in Position
  PROVE  Saved(p) \in Position
<1> DEFINE q == [p EXCEPT !.mtime = IF reachedEnd THEN mt ELSE 0,
                          !.size = IF reachedEnd THEN Len(file) ELSE 0]
<1>1. Len(file) \in 0 .. MaxLines /\ mt \in 0 .. MaxTime /\ file \in Seq(Line) /\ SBytes \in Nat
  BY LenProperties, FileLinesAssumption DEF TypeIInv, TypeOK
<1>2. q \in Position
  <2> DEFINE m == IF reachedEnd THEN mt ELSE 0
             n == IF reachedEnd THEN Len(file) ELSE 0
  <2>1. m \in 0 .. MaxTime /\ n \in 0 .. MaxLines
    BY <1>1, FileLinesAssumption
  <2> HIDE DEF m, n
  <2>2. [p EXCEPT !.mtime = m] \in Position
    BY <2>1 DEF Position
  <2>3. [[p EXCEPT !.mtime = m] EXCEPT !.size = n] \in Position
    BY <2>1, <2>2 DEF Position
  <2>4. [p EXCEPT !.mtime = m, !.size = n] \in Position
    BY <2>3
  <2> QED
    BY <2>4 DEF m, n
<1>3. Prefix(file, SBytes) \in Seq(Line)
  BY <1>1, PrefixProperties
<1> HIDE DEF q
<1>4. [q EXCEPT !.sig = Prefix(file, SBytes)] \in Position
  BY <1>2, <1>3 DEF Position
<1> QED
  BY <1>2, <1>4, StartIsPosition DEF Saved, Resigned, q

LEMMA WriterTypes ==
  ASSUME TypeIInv, Write \/ Truncate \/ Remove \/ Create
  PROVE  TypeIInv'
<1>1. TypeOK /\ Len(file) <= written /\ Len(old) <= written
      /\ Len(file) \in Nat /\ Len(old) \in Nat /\ written \in Nat /\ MaxLines \in Nat
      /\ mt \in 1 .. MaxTime /\ MaxTime \in Nat /\ replaced \in Nat /\ MaxReplaced \in Nat
  BY LenProperties, FileLinesAssumption DEF TypeIInv, TypeOK
<1>2. Touched => mt' \in 1 .. MaxTime
  BY <1>1 DEF Touched, Smaller
<1>3. <<>> \in Seq(Line) /\ Len(<<>>) = 0
  OBVIOUS
<1>4. CASE Write
  <2>1. written + 1 \in Line /\ written' = written + 1 /\ written' \in 0 .. MaxLines
    BY <1>1, <1>4 DEF Write, Line
  <2>2. file' \in Seq(Line) /\ Len(file') = Len(file) + 1
    BY <1>1, <1>4, <2>1, AppendProperties DEF Write, TypeOK
  <2>3. Len(file') <= written' /\ Len(old') <= written'
    BY <1>1, <1>4, <2>1, <2>2 DEF Write, opened
  <2> QED
    BY <1>1, <1>2, <1>4, <2>1, <2>2, <2>3 DEF Write, TypeIInv, TypeOK, opened, history
<1>5. CASE Truncate \/ Remove \/ Create
  <2>1. /\ file' \in Seq(Line) /\ Len(file') <= written
        /\ old' \in Seq(Line) /\ Len(old') <= written
        /\ fd' \in {"none", "path", "old"} /\ exists' \in BOOLEAN /\ mt' \in 1 .. MaxTime
    <3>1. CASE Truncate
      BY <1>1, <1>2, <1>3, <3>1 DEF Truncate, TypeOK, opened
    <3>2. CASE Remove
      <4>1. /\ file' = <<>> /\ exists' = FALSE /\ mt' = mt
            /\ fd' = (IF fd = "path" THEN "old" ELSE fd)
            /\ old' = (IF fd = "path" THEN file ELSE old)
        BY <3>2 DEF Remove
      <4>2. file \in Seq(Line) /\ old \in Seq(Line) /\ fd \in {"none", "path", "old"}
        BY <1>1 DEF TypeOK
      <4>3. old' \in Seq(Line) /\ Len(old') <= written
        BY <1>1, <4>1, <4>2
      <4>4. file' \in Seq(Line) /\ Len(file') <= written
        BY <1>1, <1>3, <4>1
      <4> QED
        BY <1>1, <4>1, <4>2, <4>3, <4>4
    <3>3. CASE Create
      BY <1>1, <1>2, <3>3 DEF Create, TypeOK, opened
    <3> QED
      BY <1>5, <3>1, <3>2, <3>3
  <2>2. /\ UNCHANGED <<written, pos, pc, reachedEnd, meta, kills, emitted>>
        /\ replaced' \in 0 .. MaxReplaced /\ taken' \in 0 .. MaxLines
    BY <1>1, <1>5 DEF Truncate, Remove, Create, Replace
  <2> QED
    BY <1>1, <2>1, <2>2 DEF TypeIInv, TypeOK
<1> QED
  BY <1>4, <1>5

LEMMA ReadLineTypes ==
  ASSUME TypeIInv, ReadLine
  PROVE  TypeIInv'
<1>1. /\ Content \in Seq(Line) /\ Len(Content) \in Nat /\ Len(Content) <= MaxLines
      /\ pos \in Position /\ pos.tell \in Nat
  BY LenProperties, PositionFields, FileLinesAssumption DEF TypeIInv, TypeOK, Content
<1>2. LineEnd(Content, pos.tell) \in pos.tell + 1 .. Len(Content)
  BY <1>1, LineEndExists DEF ReadLine
<1>3. LineEnd(Content, pos.tell) \in 0 .. MaxLines
  BY <1>1, <1>2, FileLinesAssumption
<1>4. pos' \in Position
  BY <1>1, <1>3 DEF ReadLine, Position
<1>5. emitted' \in [Line -> Nat] /\ pc' \in {"reading", "closing", "raising"}
  BY DEF ReadLine, TypeIInv, TypeOK
<1> QED
  BY <1>4, <1>5 DEF ReadLine, TypeIInv, TypeOK, writer, opened

LEMMA ReaderTypes ==
  ASSUME TypeIInv, Ready \/ Open \/ ReadEnd \/ Save \/ Restart \/ Kill \/ KillInSave
  PROVE  TypeIInv'
<1>1. /\ TypeOK /\ pos \in Position /\ meta \in Position /\ Start \in Position
      /\ Checked(pos) \in Position /\ Checked(meta) \in Position /\ Saved(pos) \in Position
      /\ Taken(pos) \in 0 .. MaxLines /\ Taken(meta) \in 0 .. MaxLines /\ taken \in 0 .. MaxLines
      /\ <<>> \in Seq(Line) /\ Len(<<>>) = 0 /\ written \in Nat /\ kills \in Nat
  BY StartIsPosition, CheckedType, SavedType DEF TypeIInv, TypeOK
<1>2. /\ UNCHANGED <<writer, emitted>> /\ taken' \in 0 .. MaxLines
      /\ pos' \in Position /\ meta' \in Position
      /\ old' = old \/ old' = <<>>
      /\ pc' \in {"idle", "open", "reading", "closing", "raising", "down"}
      /\ fd' \in {"none", "path", "old"} /\ reachedEnd' \in BOOLEAN
  BY <1>1 DEF Ready, Open, ReadEnd, Save, Restart, Kill, KillInSave, Dies, Close, opened,
              history, TypeOK
<1>3. kills' \in 0 .. MaxKills
  BY <1>1, FileLinesAssumption
     DEF Ready, Open, ReadEnd, Save, Restart, Kill, KillInSave, Dies, TypeOK
<1>4. old' \in Seq(Line) /\ Len(old') <= written'
  <2>1. old \in Seq(Line) /\ Len(old) <= written /\ written' = written
    BY <1>2 DEF TypeIInv, TypeOK, writer
  <2>2. Len(<<>>) <= written
    BY <1>1
  <2>3. CASE old' = old
    BY <2>1, <2>3
  <2>4. CASE old' = <<>>
    BY <1>1, <2>1, <2>2, <2>4
  <2> QED
    BY <1>2, <2>3, <2>4
<1>5. Len(file') <= written'
  BY <1>2 DEF TypeIInv, writer
<1>6. /\ UNCHANGED <<file, exists, mt, written, replaced, emitted>>
      /\ pos' \in Position /\ meta' \in Position
  BY <1>2 DEF writer
<1>7. TypeOK'
  BY <1>1, <1>2, <1>3, <1>4, <1>6 DEF TypeOK
<1> QED
  BY <1>4, <1>5, <1>7 DEF TypeIInv

LEMMA TypesInductive == Spec => []TypeIInv
<1>1. Init => TypeIInv
  <2> SUFFICES ASSUME Init PROVE TypeIInv
    OBVIOUS
  <2>1. <<>> \in Seq(Line) /\ Len(<<>>) = 0
    OBVIOUS
  <2> QED
    <3>1. Len(file) <= written /\ Len(old) <= written
      BY <2>1 DEF Init
    <3>2. emitted \in [Line -> Nat] /\ taken = 0
      BY DEF Init
    <3>3. 1 \in 1 .. MaxTime /\ 0 \in 0 .. MaxLines /\ 0 \in 0 .. MaxReplaced /\ 0 \in 0 .. MaxKills
      BY FileLinesAssumption
    <3>4. TypeOK
      BY <2>1, <3>2, <3>3, StartIsPosition DEF Init, TypeOK
    <3> QED
      BY <3>1, <3>4 DEF TypeIInv
<1>2. TypeIInv /\ [Next]_vars => TypeIInv'
  <2>1. TypeIInv /\ UNCHANGED vars => TypeIInv'
    BY DEF vars, TypeIInv, TypeOK
  <2> QED
    BY <2>1, WriterTypes, ReadLineTypes, ReaderTypes DEF Next, Reader
<1> QED
  BY <1>1, <1>2, PTL DEF Spec

(* Type correctness of the reader, its meta file and what it follows: also   *)
(* when the file is replaced while it is read (filelines.py:20-159).          *)
THEOREM FileTypeCorrect == Spec => []TypeOK
<1>1. TypeIInv => TypeOK
  BY DEF TypeIInv
<1> QED
  BY <1>1, TypesInductive, PTL

------------------------------------------------------------------------------
(* The places. *)

LEMMA FileFacts ==
  ASSUME TypeIInv, FileKept
  PROVE  /\ file \in Seq(Line) /\ Len(file) \in Nat /\ Len(file) <= written
         /\ written \in Nat /\ Base \in Nat /\ Base + Len(file) = written
         /\ pos \in Position /\ meta \in Position /\ kills \in Nat
         /\ emitted \in [Line -> Nat] /\ taken \in Nat
BY LenProperties, FileLinesAssumption DEF TypeIInv, TypeOK, FileKept, Base

LEMMA SigFacts ==
  ASSUME NEW p \in Position
  PROVE  /\ p.sig \in Seq(Line) /\ Len(p.sig) \in Nat
         /\ p.tell \in Nat /\ p.size \in Nat
         /\ p.sig # <<>> => Len(p.sig) > 0 /\ p.sig[1] \in Nat /\ SigBase(p) \in Nat
<1>1. p.sig \in Seq(Line) /\ Len(p.sig) \in Nat /\ p.tell \in Nat /\ p.size \in Nat
  BY PositionFields, LenProperties
<1>2. ASSUME p.sig # <<>>
      PROVE  Len(p.sig) > 0 /\ p.sig[1] \in Nat /\ SigBase(p) \in Nat
  <2>1. Len(p.sig) > 0
    BY <1>1, <1>2, EmptySeq
  <2>2. p.sig[1] \in Line
    BY <1>1, <2>1, ElementOfSeq
  <2> QED
    BY <2>1, <2>2, FileLinesAssumption DEF SigBase, Line
<1> QED
  BY <1>1, <1>2

LEMMA StartIsSigned == Signed(Start) /\ Start.sig = <<>> /\ Start.tell = 0 /\ Start.size = 0
BY DEF Signed, Start

LEMMA TextsProperties ==
  ASSUME NEW s \in Seq(Line), NEW t \in Seq(Line), Texts(s) = Texts(t)
  PROVE  Len(s) = Len(t)
<1>1. DOMAIN s = 1 .. Len(s) /\ DOMAIN t = 1 .. Len(t) /\ Len(s) \in Nat /\ Len(t) \in Nat
  BY LenProperties
<1>2. DOMAIN Texts(s) = DOMAIN s /\ DOMAIN Texts(t) = DOMAIN t
  BY DEF Texts
<1>3. DOMAIN s = DOMAIN t
  BY <1>2
<1>4. \A m, n \in Nat : 1 .. m = 1 .. n => ~(n < m)
  <2> SUFFICES ASSUME NEW m \in Nat, NEW n \in Nat, 1 .. m = 1 .. n, n < m PROVE FALSE
    OBVIOUS
  <2>1. m \in 1 .. m /\ m \notin 1 .. n
    OBVIOUS
  <2> QED
    BY <2>1
<1>5. 1 .. Len(s) = 1 .. Len(t) /\ 1 .. Len(t) = 1 .. Len(s)
  BY <1>1, <1>3
<1>6. ~(Len(s) < Len(t)) /\ ~(Len(t) < Len(s))
  BY <1>1, <1>4, <1>5
<1>7. Len(s) \in Nat /\ Len(t) \in Nat
  BY <1>1
<1> QED
  BY <1>6, <1>7

(* A place in the version that is there is not reset. *)
LEMMA NotReset ==
  ASSUME TypeIInv, FileKept, NEW p \in Position, Signed(p),
         p.sig # <<>>, SigBase(p) = Base, p.size <= Len(file), Len(file) > 0
  PROVE  Checked(p) = p
<1>1. file \in Seq(Line) /\ Len(file) \in Nat /\ Base \in Nat /\ Base + Len(file) = written
  BY FileFacts
<1>2. p.sig \in Seq(Line) /\ Len(p.sig) \in Nat /\ p.size \in Nat
  BY SigFacts
<1>3. /\ \A k \in 1 .. Len(p.sig) : p.sig[k] = Base + k
      /\ Base + Len(p.sig) <= written
  BY DEF Signed
<1>4. exists
  BY <1>1, EmptySeq DEF FileKept
<1>5. Len(p.sig) <= Len(file)
  BY <1>1, <1>2, <1>3
<1>6. ~Shrunk(p)
  BY <1>1, <1>2 DEF Shrunk
<1>7. \A k \in 1 .. Len(p.sig) : file[k] = p.sig[k]
  BY <1>1, <1>2, <1>3, <1>5 DEF FileKept
<1>8. Prefix(file, Len(p.sig)) = p.sig
  BY <1>1, <1>2, <1>5, <1>7, PrefixIs
<1>9. ~Changed(p) /\ Resumed(p) = p
  BY <1>8 DEF Changed, Resumed, Position
<1> QED
  BY <1>4, <1>6, <1>9 DEF Checked

(* What trunc_check leaves is a place in the version that is there, and what *)
(* lies before it has been read or is now taken for read.                     *)
LEMMA CheckedPlace ==
  ASSUME TypeIInv, FileKept, NEW p \in Position, Signed(p)
  PROVE  /\ Len(Checked(p).sig) <= Len(file)
         /\ \A k \in 1 .. Len(Checked(p).sig) : Checked(p).sig[k] = Base + k
         /\ Checked(p).sig # <<>> => SigBase(Checked(p)) = Base
         /\ Checked(p).sig = <<>> => Checked(p).tell = 0 /\ Checked(p).size = 0
         /\ Checked(p).tell <= Len(file) \/ Checked(p).tell <= Taken(p)
         /\ \A l \in Line : Base + Taken(p) < l /\ l <= Base + Checked(p).tell => emitted[l] > 0
<1> DEFINE q == Checked(p)  f == Prefix(file, Len(p.sig))
<1>1. /\ file \in Seq(Line) /\ Len(file) \in Nat /\ Base \in Nat /\ Base + Len(file) = written
      /\ taken \in Nat
  BY FileFacts
<1>2. q \in Position /\ Taken(p) \in Nat /\ Taken(p) >= taken
  BY CheckedType
<1>3. p.sig \in Seq(Line) /\ Len(p.sig) \in Nat /\ p.tell \in Nat
  BY SigFacts
<1>4. /\ f \in Seq(Line) /\ Len(f) \in Nat /\ Len(f) <= Len(file)
      /\ \A k \in 1 .. Len(f) : f[k] = Base + k
  <2>1. /\ f \in Seq(Line) /\ Len(f) = (IF Len(p.sig) < Len(file) THEN Len(p.sig) ELSE Len(file))
        /\ \A k \in 1 .. Len(f) : f[k] = file[k]
    BY <1>1, <1>3, PrefixProperties
  <2> HIDE DEF f
  <2>2. Len(f) <= Len(file) /\ Len(f) \in Nat
    BY <1>1, <1>3, <2>1
  <2> QED
    BY <1>1, <2>1, <2>2 DEF FileKept
<1>5. CASE q = Start
  <2>1. q.tell = 0 /\ q.size = 0 /\ q.sig = <<>> /\ Len(q.sig) = 0
    BY <1>5, StartIsSigned
  <2>2. \A l \in Line : ~(Base + Taken(p) < l /\ l <= Base + 0)
    BY <1>1, <1>2, FileLinesAssumption DEF Line
  <2> HIDE DEF q
  <2>3. q.tell <= Len(file) /\ Len(q.sig) <= Len(file)
    BY <1>1, <2>1
  <2> QED
    BY <2>1, <2>2, <2>3 DEF q
<1>6. CASE q # Start
  <2>1. exists /\ ~Shrunk(p) /\ ~Changed(p) /\ q = Resumed(p)
    BY <1>6 DEF Checked
  <2>2. q.sig = f /\ q.tell = p.tell /\ q.size = p.size
    BY <2>1 DEF Resumed, Position
  <2>3. Len(f) = Len(p.sig)
    BY <1>3, <1>4, <2>1, TextsProperties DEF Changed
  <2> HIDE DEF q
  <2>4. CASE f = <<>>
    <3>1. Len(p.sig) = 0
      BY <1>4, <2>3, <2>4, EmptySeq
    <3>2. p.sig = <<>>
      BY <1>3, <3>1, EmptySeq
    <3>3. p.tell = 0 /\ p.size = 0
      BY <3>2 DEF Signed
    <3>4. \A l \in Line : ~(Base + Taken(p) < l /\ l <= Base + 0)
      BY <1>1, <1>2, FileLinesAssumption DEF Line
    <3>5. q.tell = 0 /\ q.size = 0 /\ q.tell <= Len(file)
      BY <1>1, <2>2, <3>3
    <3> HIDE DEF f
    <3> QED
      BY <1>4, <2>2, <2>4, <3>4, <3>5 DEF q
  <2>5. CASE f # <<>>
    <3>1. Len(f) > 0
      BY <1>4, <2>5, EmptySeq
    <3>2. SigBase(q) = Base
      <4> HIDE DEF f
      <4>1. q.sig[1] = Base + 1
        BY <1>4, <2>2, <3>1
      <4> QED
        BY <1>1, <4>1 DEF SigBase
    <3>3. CASE f = p.sig
      <4>1. p.sig # <<>> /\ p.sig[1] = Base + 1
        <5> HIDE DEF f
        <5> QED
          BY <1>4, <2>5, <3>1, <3>3
      <4>2. SigBase(p) = Base
        BY <1>1, <4>1 DEF SigBase
      <4>3. Reached(p.tell) /\ ReadUpTo(Base, p.tell)
        BY <4>1, <4>2 DEF Signed
      <4>4. p.tell <= Len(file) \/ p.tell <= Taken(p)
        BY <1>1, <1>2, <1>3, <4>3 DEF Reached
      <4>5. \A l \in Line : Base + Taken(p) < l /\ l <= Base + p.tell => emitted[l] > 0
        <5>1. \A l \in Line : Base + Taken(p) < l => Base + taken < l
          BY <1>1, <1>2, FileLinesAssumption DEF Line
        <5> QED
          BY <4>3, <5>1 DEF ReadUpTo
      <4> HIDE DEF f
      <4> QED
        BY <1>4, <2>2, <2>5, <3>2, <4>4, <4>5 DEF q
    <3>4. CASE f # p.sig
      <4>1. Mistaken(p)
        BY <2>1, <3>4 DEF Mistaken
      <4>2. p.tell <= Taken(p)
        BY <1>1, <1>3, <4>1 DEF Taken
      <4>3. \A l \in Line : ~(Base + Taken(p) < l /\ l <= Base + p.tell)
        BY <1>1, <1>2, <1>3, <4>2, FileLinesAssumption DEF Line
      <4> HIDE DEF f
      <4> QED
        BY <1>4, <2>2, <2>5, <3>2, <4>2, <4>3 DEF q
    <3> QED
      BY <3>3, <3>4
  <2> QED
    BY <2>4, <2>5
<1> QED
  BY <1>5, <1>6

(* A reset, or none, moves the place before nothing that has been read. *)
LEMMA CheckedBehind ==
  ASSUME TypeIInv, FileKept, NEW p \in Position, Signed(p),
         NEW l \in Line, emitted[l] > 0, Behind(p, l)
  PROVE  Behind(Checked(p), l) /\ l <= Base + Checked(p).tell
<1>1. /\ Len(file) \in Nat /\ Base \in Nat /\ Base + Len(file) = written
      /\ l \in Nat /\ l <= written /\ p.tell \in Nat
  BY FileFacts, SigFacts, FileLinesAssumption DEF FileKept, Line
<1>2. Checked(p).tell \in Nat
  BY CheckedType, SigFacts
<1>3. CASE l <= Base
  BY <1>1, <1>2, <1>3 DEF Behind
<1>4. CASE ~(l <= Base)
  <2>1. p.sig # <<>> /\ SigBase(p) = Base /\ p.size <= Len(file) /\ l <= Base + p.tell
    BY <1>4 DEF Behind
  <2>2. Len(file) > 0
    BY <1>1, <1>4
  <2>3. Checked(p) = p
    BY <2>1, <2>2, NotReset
  <2> QED
    BY <2>1, <2>3 DEF Behind
<1> QED
  BY <1>3, <1>4

(* What save() writes is the place reached, and has a signature if there is   *)
(* anything to sign.                                                          *)
LEMMA SavedPlace ==
  ASSUME TypeIInv, FileKept, InThisFile
  PROVE  LET q == Saved(pos)
         IN  /\ Signed(q) /\ q.tell = pos.tell /\ q.size <= Len(file)
             /\ q.sig # <<>> => SigBase(q) = Base
             /\ q.sig = <<>> => q.tell = 0
<1> DEFINE q == Saved(pos)  m == IF reachedEnd THEN mt ELSE 0
           n == IF reachedEnd THEN Len(file) ELSE 0  p == [pos EXCEPT !.mtime = m, !.size = n]
<1>1. /\ file \in Seq(Line) /\ Len(file) \in Nat /\ Base \in Nat /\ Base + Len(file) = written
      /\ pos \in Position /\ SBytes \in Nat /\ SBytes > 0
  BY FileFacts, FileLinesAssumption
<1>2. /\ exists /\ Reached(pos.tell) /\ Len(pos.sig) <= Len(file)
      /\ pos.sig = <<>> => pos.tell <= Len(file)
      /\ \A k \in 1 .. Len(pos.sig) : pos.sig[k] = Base + k
      /\ ReadUpTo(Base, pos.tell)
      /\ pos.tell \in Nat /\ Len(pos.sig) \in Nat /\ pos.sig \in Seq(Line)
  BY <1>1, SigFacts DEF InThisFile
<1>3. n \in Nat /\ n <= Len(file) /\ (Len(file) = 0 => n = 0)
  BY <1>1
<1>4. p.tell = pos.tell /\ p.size = n /\ p.sig = pos.sig
  BY <1>1 DEF Position
<1>5. q = IF Len(file) > Len(p.sig) /\ Len(p.sig) < SBytes
          THEN [p EXCEPT !.sig = Prefix(file, SBytes)] ELSE p
  BY <1>2 DEF Saved, Resigned
<1>6. q.tell = pos.tell /\ q.size = n
  <2>1. [p EXCEPT !.sig = Prefix(file, SBytes)].tell = p.tell
        /\ [p EXCEPT !.sig = Prefix(file, SBytes)].size = p.size
    BY <1>1 DEF Position
  <2> HIDE DEF p, q
  <2> QED
    BY <1>4, <1>5, <2>1
<1>7. q.sig \in Seq(Line) /\ Len(q.sig) \in Nat /\ Len(q.sig) <= Len(file)
      /\ (\A k \in 1 .. Len(q.sig) : q.sig[k] = Base + k)
      /\ (Len(file) > 0 => Len(q.sig) > 0)
      /\ (Len(file) = 0 => pos.sig = <<>>)
  <2>0. Len(file) = 0 => pos.sig = <<>>
    BY <1>1, <1>2, EmptySeq
  <2>1. CASE Len(file) > Len(p.sig) /\ Len(p.sig) < SBytes
    <3> DEFINE s == Prefix(file, SBytes)
    <3>1. s \in Seq(Line) /\ Len(s) = (IF SBytes < Len(file) THEN SBytes ELSE Len(file))
          /\ \A k \in 1 .. Len(s) : s[k] = file[k]
      BY <1>1, PrefixProperties
    <3>2. q.sig = s
      <4>1. [p EXCEPT !.sig = s].sig = s
        BY <1>1 DEF Position
      <4> HIDE DEF p, q, s
      <4> QED
        BY <1>5, <2>1, <4>1 DEF s
    <3> HIDE DEF s, q
    <3>3. Len(s) \in Nat /\ Len(s) <= Len(file) /\ (Len(file) > 0 => Len(s) > 0)
      BY <1>1, <3>1
    <3>4. \A k \in 1 .. Len(s) : s[k] = Base + k
      BY <1>1, <3>1, <3>3 DEF FileKept
    <3> QED
      BY <2>0, <3>1, <3>2, <3>3, <3>4
  <2>2. CASE ~(Len(file) > Len(p.sig) /\ Len(p.sig) < SBytes)
    <3>1. q.sig = pos.sig
      BY <1>4, <1>5, <2>2
    <3>2. Len(file) > 0 => Len(pos.sig) > 0
      <4>1. ~(Len(file) > Len(pos.sig) /\ Len(pos.sig) < SBytes)
        BY <1>4, <2>2
      <4> QED
        BY <1>1, <1>2, <4>1
    <3> HIDE DEF q
    <3> QED
      BY <1>2, <2>0, <3>1, <3>2
  <2> QED
    BY <2>1, <2>2
<1> HIDE DEF q, n, p
<1>8. CASE q.sig = <<>>
  <2>1. Len(q.sig) = 0
    BY <1>8
  <2>2. Len(file) = 0
    BY <1>1, <1>7, <2>1
  <2>3. q.tell = 0 /\ q.size = 0
    BY <1>1, <1>2, <1>3, <1>6, <1>7, <2>2
  <2> QED
    BY <1>3, <1>6, <1>8, <2>3 DEF Signed, q
<1>9. CASE q.sig # <<>>
  <2>1. Len(q.sig) > 0
    BY <1>7, <1>9, EmptySeq
  <2>2. SigBase(q) = Base
    <3>1. q.sig[1] = Base + 1
      BY <1>7, <2>1
    <3> QED
      BY <1>1, <3>1 DEF SigBase
  <2>3. Base + Len(q.sig) <= written /\ q.size <= Len(file)
    BY <1>1, <1>3, <1>6, <1>7
  <2> QED
    BY <1>2, <1>6, <1>7, <1>9, <2>2, <2>3 DEF Signed, q
<1> QED
  BY <1>8, <1>9 DEF q

------------------------------------------------------------------------------
(* What the steps keep.  Types are known, before and after. *)

LEMMA WriteStep ==
  ASSUME TypeIInv, PlaceIInv, Write
  PROVE  PlaceIInv'
<1>1. /\ file \in Seq(Line) /\ Len(file) \in Nat /\ Base \in Nat /\ Base + Len(file) = written
      /\ written \in Nat /\ pos \in Position /\ meta \in Position /\ kills \in Nat
      /\ emitted \in [Line -> Nat] /\ taken \in Nat
  BY FileFacts DEF PlaceIInv
<1>2. /\ exists /\ written' = written + 1 /\ file' = Append(file, written + 1)
      /\ UNCHANGED <<exists, pos, pc, fd, meta, kills, emitted, taken>> /\ written < MaxLines
  BY DEF Write, opened, history
<1>3. written + 1 \in Line
  BY <1>1, <1>2, FileLinesAssumption DEF Line
<1>4. /\ Len(file') = Len(file) + 1 /\ file'[Len(file) + 1] = written + 1
      /\ \A k \in 1 .. Len(file) : file'[k] = file[k]
  BY <1>1, <1>2, <1>3, AppendProperties
<1>5. Base' = Base
  BY <1>1, <1>2, <1>4 DEF Base
<1>6. FileKept'
  <2>1. ASSUME NEW k \in 1 .. Len(file') PROVE file'[k] = Base + k
    <3>1. CASE k \in 1 .. Len(file)
      BY <1>4, <3>1 DEF PlaceIInv, FileKept
    <3>2. CASE k = Len(file) + 1
      BY <1>1, <1>4, <3>2
    <3> QED
      BY <1>1, <1>4, <3>1, <3>2
  <2>2. \A l \in Line : emitted[l] > 0 => l <= written + 1
    BY <1>1, FileLinesAssumption DEF PlaceIInv, FileKept, Line
  <2> QED
    BY <1>1, <1>2, <1>5, <2>1, <2>2 DEF FileKept
<1>7. \A n \in Nat : Reached(n) => n <= Len(file') \/ n <= taken
  BY <1>1, <1>4 DEF Reached
<1>8. Signed(meta)' /\ (Quiet' => Signed(pos)')
  <2>1. ASSUME NEW p \in Position, Signed(p)
        PROVE  \/ p.sig = <<>> /\ p.tell = 0 /\ p.size = 0
               \/ /\ p.sig # <<>>
                  /\ \A k \in 1 .. Len(p.sig) : p.sig[k] = SigBase(p) + k
                  /\ SigBase(p) + Len(p.sig) <= written + 1
                  /\ SigBase(p) = Base => /\ p.tell <= Len(file') \/ p.tell <= taken
                                          /\ ReadUpTo(Base, p.tell)
    <3>1. /\ p.sig # <<>> => SigBase(p) \in Nat
          /\ Len(p.sig) \in Nat /\ p.tell \in Nat /\ p.size \in Nat
      BY SigFacts
    <3> QED
      BY <1>1, <1>7, <2>1, <3>1 DEF Signed
  <2>2. Signed(meta) /\ (Quiet => Signed(pos)) /\ (Quiet' <=> Quiet)
    BY <1>2 DEF PlaceIInv, PlacesKept, Quiet
  <2>3. Signed(meta)'
    BY <1>1, <1>2, <1>5, <2>1, <2>2 DEF Signed, SigBase, ReadUpTo, Reached
  <2>4. Signed(pos) => Signed(pos)'
    BY <1>1, <1>2, <1>5, <2>1 DEF Signed, SigBase, ReadUpTo, Reached
  <2> QED
    BY <2>2, <2>3, <2>4
<1>9. ~Quiet' => InThisFile'
  <2>1. ASSUME ~Quiet' PROVE InThisFile'
    <3>1. InThisFile /\ pos.tell \in Nat /\ Len(pos.sig) \in Nat
      BY <1>1, <1>2, <2>1, SigFacts DEF PlaceIInv, PlacesKept, Quiet
    <3>2. /\ pos.tell <= Len(file') \/ pos.tell <= taken
          /\ Len(pos.sig) <= Len(file') /\ (pos.sig = <<>> => pos.tell <= Len(file'))
      BY <1>1, <1>4, <1>7, <3>1 DEF InThisFile
    <3> QED
      BY <1>2, <1>5, <3>1, <3>2 DEF InThisFile, ReadUpTo, Reached
  <2> QED
    BY <2>1
<1>10. OpenKept' /\ NoRepeat'
  BY <1>2 DEF PlaceIInv, OpenKept, NoRepeat, Quiet
<1>11. OnceBehind'
  <2>1. \A n \in Nat : n <= Len(file) => n <= Len(file')
    BY <1>1, <1>4
  <2>2. pos.size \in Nat /\ meta.size \in Nat
    BY <1>1, SigFacts
  <2> QED
    BY <1>2, <1>5, <2>1, <2>2 DEF PlaceIInv, OnceBehind, Behind, Quiet, SigBase
<1> QED
  BY <1>6, <1>8, <1>9, <1>10, <1>11 DEF PlaceIInv, PlacesKept

(* The reader is at rest while the file is replaced, and all that was read   *)
(* is behind the new one.                                                     *)
LEMMA ReplaceStep ==
  ASSUME ~Racing, TypeIInv, PlaceIInv, Truncate \/ Remove \/ Create
  PROVE  PlaceIInv'
<1>1. /\ Len(file) \in Nat /\ Base \in Nat /\ Base + Len(file) = written
      /\ written \in Nat /\ pos \in Position /\ meta \in Position /\ kills \in Nat /\ emitted \in [Line -> Nat]
  BY FileFacts DEF PlaceIInv
<1>2. /\ Quiet /\ fd = "none"
      /\ UNCHANGED <<written, pos, pc, meta, kills, emitted>> /\ taken' = 0
  BY DEF Truncate, Remove, Create, Replace, Quiet, PlaceIInv, OpenKept
<1>3. /\ fd' = "none"
      /\ file' = <<>> \/ (file' = file /\ file = <<>>)
  BY <1>2 DEF Truncate, Remove, Create, opened, PlaceIInv, FileKept
<1>4. file' = <<>> /\ Base' = written
  <2>1. file' = <<>>
    BY <1>3
  <2> QED
    BY <1>1, <1>2, <2>1 DEF Base
<1>5. FileKept'
  BY <1>1, <1>2, <1>4 DEF FileKept, PlaceIInv
<1>6. OpenKept' /\ NoRepeat'
  BY <1>2, <1>3 DEF PlaceIInv, OpenKept, NoRepeat, Quiet
<1>7. PlacesKept'
  <2>1. \A p \in Position : Signed(p) /\ p.sig # <<>> => SigBase(p) # written
    BY <1>1, SigFacts DEF Signed
  <2>2. Signed(meta) /\ Signed(pos)
    BY <1>2 DEF PlaceIInv, PlacesKept
  <2>3. Signed(meta)'
    BY <1>1, <1>2, <1>4, <2>1, <2>2 DEF Signed, SigBase
  <2>4. Signed(pos)'
    BY <1>1, <1>2, <1>4, <2>1, <2>2 DEF Signed, SigBase
  <2> QED
    BY <1>2, <2>3, <2>4 DEF PlacesKept, Quiet
<1>8. OnceBehind'
  <2> SUFFICES ASSUME NEW l \in Line, emitted[l] > kills PROVE l <= written
    BY <1>2, <1>4 DEF OnceBehind, Behind, Quiet
  <2>1. emitted[l] > 0
    BY <1>1
  <2> QED
    BY <2>1 DEF PlaceIInv, FileKept
<1> QED
  BY <1>5, <1>6, <1>7, <1>8 DEF PlaceIInv

LEMMA ReadyStep ==
  ASSUME TypeIInv, PlaceIInv, Ready \/ Restart
  PROVE  PlaceIInv'
<1> DEFINE p == IF pc = "idle" THEN pos ELSE meta
<1>1. /\ Len(file) \in Nat /\ kills \in Nat /\ emitted \in [Line -> Nat]
      /\ pos \in Position /\ meta \in Position /\ taken \in Nat /\ Base \in Nat
  BY FileFacts DEF PlaceIInv
<1>2. /\ Quiet /\ pos' = Checked(p) /\ taken' = Taken(p) /\ pc' \in {"idle", "open"}
      /\ UNCHANGED <<file, exists, mt, written, fd, meta, kills, emitted>>
      /\ pc' = "open" => Grown(Checked(p))
      /\ fd = "none" /\ fd # "old"
  BY DEF Ready, Restart, Quiet, writer, opened, PlaceIInv, OpenKept
<1>3. p \in Position /\ Signed(p)
  BY <1>1, <1>2 DEF PlaceIInv, PlacesKept
<1>4. Base' = Base /\ FileKept'
  BY <1>2 DEF Base, PlaceIInv, FileKept
<1>5. /\ Len(Checked(p).sig) <= Len(file)
      /\ \A k \in 1 .. Len(Checked(p).sig) : Checked(p).sig[k] = Base + k
      /\ Checked(p).sig # <<>> => SigBase(Checked(p)) = Base
      /\ Checked(p).sig = <<>> => Checked(p).tell = 0 /\ Checked(p).size = 0
      /\ Checked(p).tell <= Len(file) \/ Checked(p).tell <= Taken(p)
      /\ \A l \in Line : Base + Taken(p) < l /\ l <= Base + Checked(p).tell => emitted[l] > 0
      /\ Taken(p) \in Nat /\ Taken(p) >= taken
  BY <1>3, CheckedPlace, CheckedType DEF PlaceIInv
<1>6. \A l \in Line : emitted[l] > kills =>
        Behind(Checked(p), l) /\ l <= Base + Checked(p).tell
  <2> SUFFICES ASSUME NEW l \in Line, emitted[l] > kills
               PROVE  Behind(Checked(p), l) /\ l <= Base + Checked(p).tell
    OBVIOUS
  <2>1. emitted[l] > 0
    BY <1>1
  <2>2. Behind(p, l)
    BY <1>2 DEF PlaceIInv, OnceBehind
  <2> QED
    BY <1>3, <2>1, <2>2, CheckedBehind DEF PlaceIInv
<1> HIDE DEF p
<1>7. PlacesKept'
  <2>1. Signed(meta)'
    <3>1. Signed(meta) /\ meta.tell \in Nat
      BY <1>1, SigFacts DEF PlaceIInv, PlacesKept
    <3>2. Reached(meta.tell) => Reached(meta.tell)'
      BY <1>1, <1>2, <1>5, <3>1 DEF Reached
    <3>3. \A l \in Line : Base + taken' < l => Base + taken < l
      BY <1>1, <1>2, <1>5, FileLinesAssumption DEF Line
    <3>4. ReadUpTo(Base, meta.tell) => ReadUpTo(Base, meta.tell)'
      BY <1>2, <1>4, <3>3 DEF ReadUpTo
    <3> QED
      BY <1>2, <1>4, <3>1, <3>2, <3>4 DEF Signed, SigBase
  <2>2. Signed(pos)'
    <3> DEFINE q == Checked(p)
    <3>1. CASE q.sig = <<>>
      BY <1>2, <1>5, <3>1 DEF Signed
    <3>2. CASE q.sig # <<>>
      <4>1. ReadUpTo(Base, pos.tell)' /\ Reached(pos.tell)'
        BY <1>2, <1>4, <1>5 DEF ReadUpTo, Reached
      <4>2. Base + Len(q.sig) <= written
        <5>1. Base + Len(file) = written /\ q \in Position
          BY <1>3, FileFacts, CheckedType DEF PlaceIInv
        <5>2. Len(q.sig) \in Nat
          BY <5>1, SigFacts
        <5> QED
          BY <1>1, <1>5, <5>1, <5>2
      <4> QED
        BY <1>2, <1>4, <1>5, <3>2, <4>1, <4>2 DEF Signed, SigBase
    <3> QED
      BY <3>1, <3>2
  <2>3. pc' = "open" => exists
    <3>1. pc' = "open" => file # <<>>
      BY <1>2 DEF Grown
    <3> QED
      BY <3>1 DEF PlaceIInv, FileKept
  <2>4. pc' = "open" => InThisFile'
    BY <1>1, <1>2, <1>4, <1>5, <2>3 DEF InThisFile, ReadUpTo, Reached
  <2> QED
    BY <1>2, <2>1, <2>2, <2>4 DEF PlacesKept, Quiet
<1>8. OpenKept' /\ NoRepeat'
  BY <1>2 DEF PlaceIInv, OpenKept, NoRepeat, Quiet
<1>9. OnceBehind'
  <2> SUFFICES ASSUME NEW l \in Line, emitted[l] > kills
               PROVE  IF Quiet' THEN Behind(pos, l)' ELSE l <= Base + pos'.tell
    BY <1>2, <1>4 DEF OnceBehind, Quiet
  <2>1. Behind(Checked(p), l) /\ l <= Base + Checked(p).tell
    BY <1>6
  <2> QED
    BY <1>2, <1>4, <2>1 DEF Behind, SigBase
<1> QED
  BY <1>4, <1>7, <1>8, <1>9 DEF PlaceIInv

LEMMA OpenStep ==
  ASSUME TypeIInv, PlaceIInv, Open \/ ReadEnd
  PROVE  PlaceIInv'
<1>1. /\ ~Quiet /\ ~Quiet' /\ pc' # "open" /\ pc' # "down" /\ pc' # "idle" /\ fd' # "old"
      /\ UNCHANGED <<file, exists, mt, written, pos, meta, kills, emitted, taken>>
  BY DEF Open, ReadEnd, Quiet, writer, opened, history, PlaceIInv, OpenKept
<1>2. Base' = Base /\ FileKept'
  BY <1>1 DEF Base, PlaceIInv, FileKept
<1>3. PlacesKept'
  BY <1>1, <1>2 DEF PlaceIInv, PlacesKept, Signed, SigBase, ReadUpTo, InThisFile,
              Reached
<1>4. OpenKept' /\ NoRepeat' /\ OnceBehind'
  BY <1>1, <1>2 DEF PlaceIInv, OpenKept, NoRepeat, OnceBehind
<1> QED
  BY <1>2, <1>3, <1>4 DEF PlaceIInv

LEMMA ReadLineStep ==
  ASSUME TypeIInv, PlaceIInv, ReadLine
  PROVE  PlaceIInv'
<1> DEFINE t == pos.tell  n == LineEnd(file, t)  line == {file[k] : k \in t + 1 .. n}
<1>1. /\ file \in Seq(Line) /\ Len(file) \in Nat /\ Base \in Nat /\ Base + Len(file) = written
      /\ written \in Nat /\ kills \in Nat /\ emitted \in [Line -> Nat]
      /\ pos \in Position /\ t \in Nat /\ taken \in Nat
  BY FileFacts, SigFacts DEF PlaceIInv
<1>2. /\ pc = "reading" /\ t < Len(file) /\ pos' = [pos EXCEPT !.tell = n]
      /\ UNCHANGED <<file, exists, mt, written, fd, old, meta, kills, taken>>
      /\ pc' \in {"reading", "closing", "raising"} /\ fd # "old"
      /\ emitted' = [l \in Line |-> emitted[l] + IF l \in {file[k] : k \in t + 1 .. pos'.tell} THEN 1 ELSE 0]
  BY DEF ReadLine, Content, writer, opened, PlaceIInv, OpenKept
<1>3. n \in t + 1 .. Len(file)
  BY <1>1, <1>2, LineEndExists
<1> HIDE DEF n
<1>4. pos'.tell = n /\ pos'.sig = pos.sig
  BY <1>1, <1>2 DEF Position
<1>5. \A l \in Line : l \in line <=> Base + t < l /\ l <= Base + n
  <2> SUFFICES ASSUME NEW l \in Line PROVE l \in line <=> Base + t < l /\ l <= Base + n
    OBVIOUS
  <2>1. \A k \in t + 1 .. n : file[k] = Base + k /\ k \in Nat
    BY <1>1, <1>3 DEF PlaceIInv, FileKept
  <2>2. l \in Nat
    BY FileLinesAssumption DEF Line
  <2>3. ASSUME l \in line PROVE Base + t < l /\ l <= Base + n
    <3>1. PICK k \in t + 1 .. n : l = file[k]
      BY <2>3
    <3>2. l = Base + k
      BY <2>1, <3>1
    <3> HIDE DEF t
    <3> QED
      BY <1>1, <1>3, <3>2
  <2>4. ASSUME Base + t < l, l <= Base + n PROVE l \in line
    <3>1. l - Base \in t + 1 .. n /\ Base + (l - Base) = l
      BY <1>1, <1>3, <2>2, <2>4
    <3> QED
      BY <2>1, <3>1
  <2> QED
    BY <2>3, <2>4
<1>6. \A l \in Line : emitted'[l] = IF l \in line THEN emitted[l] + 1 ELSE emitted[l]
  BY <1>1, <1>2, <1>4
<1> HIDE DEF line
<1>7. Base' = Base /\ ~Quiet /\ ~Quiet' /\ pc' # "open"
  BY <1>2 DEF Base, Quiet
<1>8. \A l \in Line : emitted[l] > 0 => emitted'[l] > 0
  BY <1>1, <1>6
<1>9. FileKept'
  <2>1. \A l \in Line : emitted'[l] > 0 => l <= written
    <3> SUFFICES ASSUME NEW l \in Line, emitted'[l] > 0 PROVE l <= written
      OBVIOUS
    <3>1. CASE l \in line
      <4>1. l <= Base + n /\ l \in Nat
        BY <1>5, <3>1, FileLinesAssumption DEF Line
      <4> QED
        BY <1>1, <1>3, <4>1
    <3>2. CASE l \notin line
      BY <1>6, <3>2 DEF PlaceIInv, FileKept
    <3> QED
      BY <3>1, <3>2
  <2> QED
    BY <1>2, <1>7, <2>1 DEF PlaceIInv, FileKept
<1>10. InThisFile'
  <2>1. ASSUME NEW l \in Line, Base + taken < l, l <= Base + n PROVE emitted'[l] > 0
    <3>1. CASE l \in line
      BY <1>1, <1>6, <2>1, <3>1
    <3>2. CASE l \notin line
      <4>1. l \in Nat /\ ~(Base + t < l)
        BY <1>5, <2>1, <3>2, FileLinesAssumption DEF Line
      <4>2. l <= Base + t
        BY <1>1, <4>1
      <4>3. ReadUpTo(Base, t)
        BY <1>7 DEF PlaceIInv, PlacesKept, InThisFile
      <4> QED
        BY <1>8, <2>1, <4>2, <4>3 DEF ReadUpTo
    <3> QED
      BY <3>1, <3>2
  <2>2. pos'.tell = n /\ pos'.sig = pos.sig
    BY <1>2, <1>4
  <2>3. n <= Len(file) /\ UNCHANGED <<file, exists>>
    BY <1>2, <1>3
  <2>4. ReadUpTo(Base, pos.tell)'
    <3> HIDE DEF n
    <3> QED
      BY <1>2, <1>7, <2>1, <2>2 DEF ReadUpTo
  <2>5. /\ exists' /\ Reached(pos.tell)' /\ Len(pos'.sig) <= Len(file')
        /\ pos'.sig = <<>> => pos'.tell <= Len(file')
        /\ \A k \in 1 .. Len(pos'.sig) : pos'.sig[k] = Base' + k
    <3> HIDE DEF n
    <3> QED
      BY <1>7, <2>2, <2>3 DEF PlaceIInv, PlacesKept, InThisFile, Reached
  <2> QED
    BY <2>4, <2>5 DEF InThisFile
<1>11. PlacesKept'
  <2>1. Signed(meta)'
    BY <1>2, <1>7, <1>8 DEF PlaceIInv, PlacesKept, Signed, SigBase, ReadUpTo, Reached
  <2> QED
    BY <1>7, <1>10, <2>1 DEF PlacesKept
<1>12. OpenKept'
  BY <1>2, <1>7 DEF PlaceIInv, OpenKept
<1>13. ASSUME NEW l \in Line
       PROVE  (emitted'[l] > kills => l <= Base + n) /\ emitted'[l] <= 1 + kills
  <2>1. l \in Nat /\ emitted[l] \in Nat
    BY <1>1, FileLinesAssumption DEF Line
  <2>2. (emitted[l] > kills => l <= Base + t) /\ emitted[l] <= 1 + kills
    BY <1>7 DEF PlaceIInv, OnceBehind, NoRepeat
  <2>3. CASE l \in line
    <3>1. Base + t < l /\ l <= Base + n /\ emitted'[l] = emitted[l] + 1
      BY <1>5, <1>6, <2>3
    <3> HIDE DEF t
    <3>2. ~(emitted[l] > kills)
      BY <1>1, <2>1, <2>2, <3>1
    <3> QED
      BY <1>1, <2>1, <3>1, <3>2
  <2>4. CASE l \notin line
    <3>1. emitted'[l] = emitted[l]
      BY <1>6, <2>4
    <3> HIDE DEF t
    <3> QED
      BY <1>1, <1>3, <2>1, <2>2, <3>1
  <2> QED
    BY <2>3, <2>4
<1>14. OnceBehind' /\ NoRepeat'
  BY <1>2, <1>4, <1>7, <1>13 DEF OnceBehind, NoRepeat
<1> QED
  BY <1>9, <1>11, <1>12, <1>14 DEF PlaceIInv

LEMMA SaveStep ==
  ASSUME TypeIInv, PlaceIInv, Save
  PROVE  PlaceIInv'
<1> DEFINE q == Saved(pos)
<1>1. /\ ~Quiet /\ Quiet' /\ meta' = q /\ fd' = "none"
      /\ \/ pc' = "idle" /\ pos' = q
         \/ pc' = "down" /\ pos' = Start
      /\ UNCHANGED <<file, exists, mt, written, kills, emitted, taken>>
  <2>1. meta' = q /\ fd' = "none" /\ UNCHANGED <<file, exists, mt, written, kills, emitted, taken>>
    BY DEF Save, Close, writer, history
  <2>2. CASE pc = "closing"
    BY <2>1, <2>2 DEF Save, Quiet
  <2>3. CASE pc = "raising"
    BY <2>1, <2>3 DEF Save, Quiet
  <2> QED
    BY <2>2, <2>3 DEF Save
<1>2. InThisFile /\ pos \in Position
  BY <1>1, FileFacts DEF PlaceIInv, PlacesKept
<1>3. /\ Signed(q) /\ q.tell = pos.tell /\ q.size <= Len(file)
      /\ q.sig # <<>> => SigBase(q) = Base
      /\ q.sig = <<>> => q.tell = 0
  BY <1>2, SavedPlace DEF PlaceIInv
<1> HIDE DEF q
<1>4. Base' = Base /\ FileKept'
  BY <1>1 DEF Base, PlaceIInv, FileKept
<1>5. OpenKept' /\ NoRepeat'
  BY <1>1 DEF PlaceIInv, OpenKept, NoRepeat
<1>6. PlacesKept'
  <2>1. Signed(meta)'
    BY <1>1, <1>3, <1>4 DEF Signed, SigBase, ReadUpTo, Reached
  <2>2. Signed(pos)'
    <3>1. CASE pos' = q
      BY <1>1, <1>3, <1>4, <3>1 DEF Signed, SigBase, ReadUpTo, Reached
    <3>2. CASE pos' = Start
      BY <3>2, StartIsSigned DEF Signed
    <3> QED
      BY <1>1, <3>1, <3>2
  <2> QED
    BY <1>1, <2>1, <2>2 DEF PlacesKept
<1>7. OnceBehind'
  <2> SUFFICES ASSUME NEW l \in Line, emitted[l] > kills
               PROVE  \/ l <= Base
                      \/ /\ q.sig # <<>> /\ Base = SigBase(q) /\ q.size <= Len(file)
                         /\ l <= Base + q.tell
    BY <1>1, <1>4 DEF OnceBehind, Behind, SigBase
  <2>1. l <= Base + pos.tell
    BY <1>1 DEF PlaceIInv, OnceBehind
  <2>2. Base \in Nat
    BY DEF PlaceIInv, FileKept
  <2> QED
    BY <1>3, <2>1, <2>2
<1> QED
  BY <1>4, <1>5, <1>6, <1>7 DEF PlaceIInv

(* After a kill every piece may be read once more. *)
LEMMA KillStep ==
  ASSUME TypeIInv, PlaceIInv, Kill \/ KillInSave
  PROVE  PlaceIInv'
<1>1. /\ pc' = "down" /\ pos' = Start /\ fd' = "none" /\ kills' = kills + 1
      /\ UNCHANGED <<file, exists, mt, written, emitted, taken>>
      /\ meta' = meta \/ meta' = Start
  BY DEF Kill, KillInSave, Dies, Close, writer, history
<1>2. kills \in Nat /\ emitted \in [Line -> Nat]
  BY FileFacts DEF PlaceIInv
<1>3. FileKept' /\ OpenKept'
  BY <1>1 DEF PlaceIInv, FileKept, Base, OpenKept
<1>4. PlacesKept'
  <2>1. Signed(pos)'
    BY <1>1, StartIsSigned DEF Signed
  <2>2. Signed(meta)'
    <3>1. CASE meta' = meta
      BY <1>1, <3>1 DEF PlaceIInv, PlacesKept, Signed, SigBase, ReadUpTo, Reached, Base
    <3>2. CASE meta' = Start
      BY <3>2, StartIsSigned DEF Signed
    <3> QED
      BY <1>1, <3>1, <3>2
  <2> QED
    BY <1>1, <2>1, <2>2 DEF PlacesKept, Quiet
<1>5. \A l \in Line : emitted[l] <= kills + 1 /\ ~(emitted[l] > kills + 1)
  BY <1>2 DEF PlaceIInv, NoRepeat
<1>6. OnceBehind' /\ NoRepeat'
  <2>1. \A l \in Line : emitted[l] <= 1 + (kills + 1)
    BY <1>2, <1>5
  <2> QED
    BY <1>1, <1>5, <2>1 DEF OnceBehind, NoRepeat
<1> QED
  BY <1>3, <1>4, <1>6 DEF PlaceIInv

LEMMA PlaceInductive ==
  ASSUME ~Racing
  PROVE  Spec => []PlaceIInv
<1>1. Init => PlaceIInv
  <2> SUFFICES ASSUME Init PROVE PlaceIInv
    OBVIOUS
  <2>1. Base = 0 /\ file = <<>> /\ emitted = [l \in Line |-> 0] /\ written = 0
    <3>1. file = <<>> /\ written = 0 /\ emitted = [l \in Line |-> 0]
      BY Zenon DEF Init
    <3>2. Len(file) = 0 /\ written = 0
      BY <3>1
    <3>3. Base = 0
      BY <3>2 DEF Base
    <3> QED
      BY <3>1, <3>3, Zenon
  <2>2. FileKept
    BY <2>1 DEF Init, FileKept
  <2>3. \A l \in Line : emitted[l] = 0 /\ kills = 0
    BY <2>1 DEF Init
  <2>4. OpenKept /\ PlacesKept /\ OnceBehind /\ NoRepeat
    BY <2>3, StartIsSigned DEF Init, OpenKept, PlacesKept, OnceBehind, NoRepeat, Quiet
  <2> QED
    BY <2>2, <2>4 DEF PlaceIInv
<1>2. TypeIInv /\ PlaceIInv /\ [Next]_vars => PlaceIInv'
  <2>1. PlaceIInv /\ UNCHANGED vars => PlaceIInv'
    BY DEF vars, opened, PlaceIInv, FileKept, Base, OpenKept, PlacesKept, OnceBehind, NoRepeat,
           Quiet, Behind, Signed, SigBase, ReadUpTo, Reached, InThisFile
  <2> QED
    BY <2>1, WriteStep, ReplaceStep, ReadyStep, OpenStep, ReadLineStep, SaveStep, KillStep
       DEF Next, Reader
<1> QED
  BY <1>1, <1>2, TypesInductive, PTL DEF Spec

(* Truncations, new files, early stops, deaths and restarts from an older or *)
(* unreadable meta file never make the reader skip a line, whatever texts,   *)
(* mtimes and sizes coincide and however short the signature, but for what a *)
(* file has before the old position when it is taken for the one that was    *)
(* signed, and provided that the file is not replaced in the middle of a     *)
(* read (filelines.py:57-159).                                                *)
THEOREM NoSkipAlways ==
  ASSUME ~Racing
  PROVE  Spec => []NoSkip
<1>1. TypeIInv /\ PlaceIInv => NoSkip
  <2> SUFFICES ASSUME TypeIInv, PlaceIInv, pc = "idle",
                      NEW k \in Taken(pos) + 1 .. Smaller(Checked(pos).tell, Len(file))
               PROVE  emitted[file[k]] > 0
    BY DEF NoSkip
  <2>1. pos \in Position /\ Signed(pos) /\ Len(file) \in Nat /\ Base \in Nat /\ file \in Seq(Line)
    BY FileFacts DEF PlaceIInv, PlacesKept, Quiet
  <2>2. /\ \A l \in Line : Base + Taken(pos) < l /\ l <= Base + Checked(pos).tell => emitted[l] > 0
        /\ Checked(pos).tell \in Nat /\ Taken(pos) \in Nat
    BY <2>1, CheckedPlace, CheckedType, SigFacts DEF PlaceIInv
  <2>3. k \in 1 .. Len(file) /\ k <= Checked(pos).tell /\ Taken(pos) < k
    BY <2>1, <2>2 DEF Smaller
  <2>4. file[k] = Base + k /\ file[k] \in Line
    BY <2>1, <2>3, ElementOfSeq DEF PlaceIInv, FileKept
  <2>5. Base + Taken(pos) < Base + k /\ Base + k <= Base + Checked(pos).tell
    BY <2>1, <2>2, <2>3
  <2> QED
    BY <2>2, <2>4, <2>5
<1> QED
  BY <1>1, TypesInductive, PlaceInductive, PTL

(* Only a kill makes the reader read a piece again (filelines.py:79-159).    *)
THEOREM NoRepeatAlways ==
  ASSUME ~Racing
  PROVE  Spec => []NoRepeat
<1>1. PlaceIInv => NoRepeat
  BY DEF PlaceIInv
<1> QED
  BY <1>1, PlaceInductive, PTL
==============================================================================
