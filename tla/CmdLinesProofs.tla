---------------------------- MODULE CmdLinesProofs ----------------------------
(***************************************************************************)
(* The safety properties of CmdLines for any number of readers, any        *)
(* sharing of commands among them, and all limits.                         *)
(***************************************************************************)
EXTENDS CmdLines, SequenceTheorems, TLAPS

(* The pieces a child has written, and how many of them are neither in the   *)
(* pipe nor in the buffer.                                                    *)
Written(r) == 2 * lines[r] - (IF half[r] THEN 1 ELSE 0)
Behind(r) == Written(r) - Len(pipe[r]) - Len(buf[r])

(* Buffer and pipe hold the last pieces written, in their order and without  *)
(* a gap, and begin with a whole line: only a pipe that nobody will write to *)
(* again is emptied in the middle of one.                                    *)
StreamOK(r) ==
  /\ Behind(r) \in Nat
  /\ open[r] \/ pipe[r] # <<>> \/ buf[r] # <<>> => Behind(r) % 2 = 0
  /\ \A k \in 1 .. Len(buf[r]) : buf[r][k] = Behind(r) + k
  /\ \A k \in 1 .. Len(pipe[r]) : pipe[r][k] = Behind(r) + Len(buf[r]) + k

(* What was returned is behind what is to come. *)
OutOK(r) == \A i \in DOMAIN out[r] : \A a \in ToSet(out[r][i]) : a <= Behind(r)

Streams == \A r \in Readers : StreamOK(r) /\ OutOK(r)

(* The child that is replaced has been seen dead, and the limit observed.    *)
LimitPassed == prlimit[cur] # Text /\ DtOk(cur)

Points ==
  /\ pc = "starting" => Died(cur)
  /\ pc = "popen" => child[cur] = "none" /\ LimitPassed

(* The limit counts from the last start of each command: from the moment     *)
(* that Leave has passed.                                                     *)
StartsCounted ==
  \A c \in Readers :
    /\ started[c] <= now /\ limits[c] <= now
    /\ started[c] <= limits[c] \/ (pc = "leaving" /\ c = Cmd[cur] /\ LimitPassed)

CmdIInv == TypeOK /\ Streams /\ OneLineEach /\ BlockedByHalfLine /\ Points /\ StartsCounted

------------------------------------------------------------------------------
(* Where the first line in the buffer ends, and what it is. *)

LEMMA FirstLineEnds ==
  ASSUME TypeOK, NEW r \in Readers, StreamOK(r), buf[r] # <<>>
  PROVE  /\ FirstLine(r) \in 1 .. Len(buf[r]) /\ FirstLine(r) \in {1, 2}
         /\ HasLine(r) <=> FirstLine(r) = 2
         /\ ~HasLine(r) => FirstLine(r) = Len(buf[r])
<1> DEFINE b == buf[r]  n == Len(b)  m == Behind(r)
<1>1. b \in Seq(Piece) /\ n \in Nat /\ n > 0 /\ DOMAIN b = 1 .. n
  BY LenProperties, EmptySeq DEF TypeOK
<1>2. m \in Nat /\ m % 2 = 0 /\ \A k \in 1 .. n : b[k] = m + k
  BY DEF StreamOK
<1> DEFINE I == {k \in 1 .. n : Newline(b[k])}
<1> HIDE DEF m, n
<1>3. 1 \notin I
  BY <1>1, <1>2 DEF Newline
<1>4. n > 1 => 2 \in I
  BY <1>1, <1>2 DEF Newline
<1>5. HasLine(r) <=> I # {}
  BY <1>1 DEF HasLine
<1>6. I \subseteq 1 .. n
  OBVIOUS
<1>7. SelectInSeq(b, Newline) = IF I # {} THEN Min(I) ELSE 0
  BY DEF SelectInSeq, n
<1> HIDE DEF I
<1>8. I # {} <=> n > 1
  <2>1. ASSUME NEW k \in I PROVE n > 1
    <3>1. k \in 1 .. n /\ k # 1
      BY <1>3, <1>6
    <3> QED
      BY <1>1, <3>1
  <2> QED
    BY <1>4, <2>1
<1>9. I # {} => Min(I) = 2
  <2> SUFFICES ASSUME I # {} PROVE Min(I) = 2
    OBVIOUS
  <2>1. 2 \in I /\ \A k \in I : k \in Int /\ 2 <= k
    BY <1>1, <1>3, <1>4, <1>6, <1>8
  <2> QED
    BY <2>1 DEF Min
<1>10. FirstLine(r) = IF n > 1 THEN 2 ELSE n
  BY <1>5, <1>7, <1>8, <1>9 DEF FirstLine, n
<1>11. n = Len(buf[r]) /\ (HasLine(r) <=> n > 1)
  BY <1>5, <1>8 DEF n
<1>12. CASE n > 1
  <2>1. FirstLine(r) = 2 /\ 2 \in 1 .. n
    BY <1>1, <1>10, <1>12
  <2> QED
    BY <1>11, <1>12, <2>1
<1>13. CASE n = 1
  <2>1. FirstLine(r) = 1 /\ 1 \in 1 .. n /\ ~(n > 1)
    BY <1>10, <1>13
  <2> QED
    BY <1>11, <1>13, <2>1
<1> QED
  BY <1>1, <1>12, <1>13

LEMMA StreamTypes ==
  ASSUME TypeOK, NEW r \in Readers
  PROVE  /\ pipe[r] \in Seq(Piece) /\ Len(pipe[r]) \in Nat
         /\ buf[r] \in Seq(Piece) /\ Len(buf[r]) \in Nat
         /\ lines[r] \in Nat /\ lines[r] <= MaxLines /\ Written(r) \in Int
<1>1. pipe[r] \in Seq(Piece) /\ buf[r] \in Seq(Piece)
  BY DEF TypeOK
<1>2. lines[r] \in Nat /\ lines[r] <= MaxLines
  BY CmdLinesAssumption DEF TypeOK
<1>3. Written(r) \in Int
  BY <1>2 DEF Written
<1> QED
  BY <1>1, <1>2, <1>3, LenProperties

(* A reader whose pipe and buffer an action does not touch. *)
LEMMA Untouched ==
  ASSUME NEW r \in Readers, StreamOK(r), OutOK(r), open'[r] => open[r],
         half'[r] = half[r], pipe'[r] = pipe[r], buf'[r] = buf[r], lines'[r] = lines[r],
         out'[r] = out[r]
  PROVE  StreamOK(r)' /\ OutOK(r)'
<1>1. Behind(r)' = Behind(r)
  BY DEF Behind, Written
<1> QED
  BY <1>1 DEF StreamOK, OutOK

(* A reader whose pipe and buffer are dropped: all that was written is behind. *)
LEMMA Dropped ==
  ASSUME TypeOK, NEW r \in Readers, StreamOK(r), OutOK(r), half'[r] = FALSE,
         pipe'[r] = <<>>, buf'[r] = <<>>, lines'[r] = lines[r], out'[r] = out[r]
  PROVE  StreamOK(r)' /\ OutOK(r)'
<1>1. lines[r] \in Nat /\ Len(pipe[r]) \in Nat /\ Len(buf[r]) \in Nat
  BY LenProperties DEF TypeOK
<1>2. Behind(r)' = 2 * lines[r] /\ Behind(r) \in Nat /\ Behind(r) <= 2 * lines[r]
      /\ (2 * lines[r]) % 2 = 0
  <2>1. Len(<<>>) = 0 /\ \A k \in Nat : (2 * k) % 2 = 0
    OBVIOUS
  <2>2. Behind(r)' = 2 * lines[r]
    BY <1>1, <2>1 DEF Behind, Written
  <2>3. Behind(r) \in Nat
    BY DEF StreamOK
  <2>4. Written(r) <= 2 * lines[r] /\ Written(r) \in Int
    BY <1>1 DEF Written
  <2>5. Behind(r) <= 2 * lines[r]
    BY <1>1, <2>4 DEF Behind
  <2> QED
    BY <1>1, <2>1, <2>2, <2>3, <2>5
<1>3. StreamOK(r)'
  BY <1>1, <1>2 DEF StreamOK
<1>4. OutOK(r)'
  <2> SUFFICES ASSUME NEW i \in DOMAIN out[r], NEW a \in ToSet(out[r][i])
               PROVE  a <= 2 * lines[r]
    BY <1>2 DEF OutOK
  <2>1. a <= Behind(r)
    BY DEF OutOK
  <2>2. a \in Int
    <3>1. out[r] \in Seq(Seq(Piece))
      BY DEF TypeOK
    <3>2. out[r][i] \in Seq(Piece)
      BY <3>1, ElementOfSeq, LenProperties
    <3>3. \A k \in DOMAIN out[r][i] : out[r][i][k] \in Piece
      BY <3>2, ElementOfSeq, LenProperties
    <3> QED
      BY <3>3 DEF ToSet, Piece
  <2> QED
    BY <1>1, <1>2, <2>1, <2>2
<1> QED
  BY <1>3, <1>4

------------------------------------------------------------------------------
(* The daemon turns to a reader, asks it, or leaves it. *)

LEMMA NextIsReader == \A r \in Readers : (r % N) + 1 \in Readers
BY CmdLinesAssumption DEF Readers

LEMMA StreamsUntouched ==
  ASSUME Streams, UNCHANGED <<stream, out>>
  PROVE  Streams'
BY Untouched DEF Streams, stream

LEMMA ControlStep ==
  ASSUME CmdIInv, Ready \/ AskDied \/ AskAgain \/ GoOn \/ Leave
  PROVE  CmdIInv'
<1>1. /\ UNCHANGED <<child, stream, prlimit, now, out, started>>
      /\ pc \in {"asking", "polled", "started", "yielded", "leaving"}
      /\ pc' \in {"asking", "polled", "starting", "started", "reading"}
      /\ cur' = cur \/ cur' = (cur % N) + 1
      /\ pc' = "starting" => Died(cur) /\ cur' = cur
      /\ pc' = "reading" => Spoll(cur) /\ cur' = cur
      /\ wasOpen' = wasOpen \/ wasOpen' = open[cur]
  BY DEF Ready, AskDied, AskAgain, GoOn, Leave, NextReader
<1>2. /\ TypeOK /\ Streams /\ OneLineEach /\ BlockedByHalfLine /\ Points /\ StartsCounted
      /\ cur \in Readers
  BY DEF CmdIInv, TypeOK
<1>3. cur' \in Readers /\ wasOpen' \in BOOLEAN
  BY <1>1, <1>2, NextIsReader DEF TypeOK
<1>4. limits' \in [Readers -> 0 .. StartTime + MaxTime]
  <2>1. CASE Leave
    BY <1>2, <2>1, CmdLinesAssumption DEF Leave, TypeOK, Tag
  <2>2. CASE Ready \/ AskDied \/ AskAgain \/ GoOn
    BY <1>2, <2>2 DEF Ready, AskDied, AskAgain, GoOn, TypeOK
  <2> QED
    BY <2>1, <2>2
<1>5. TypeOK'
  BY <1>1, <1>2, <1>3, <1>4 DEF TypeOK, stream
<1>6. Streams' /\ OneLineEach'
  BY <1>1, <1>2, StreamsUntouched DEF OneLineEach
<1>7. BlockedByHalfLine' /\ Points'
  BY <1>1 DEF BlockedByHalfLine, Points, Spoll, Died, stream
<1>8. StartsCounted'
  <2>1. CASE Leave
    <3>1. /\ pc = "leaving" /\ pc' = "started" /\ UNCHANGED <<cur, prlimit, now, started>>
          /\ limits' = IF DtOk(cur) THEN [limits EXCEPT ![Cmd[cur]] = now] ELSE limits
      BY <2>1 DEF Leave, Tag
    <3>2. SUFFICES ASSUME NEW c \in Readers
                   PROVE  started[c] <= now /\ limits'[c] <= now /\ started[c] <= limits'[c]
      BY <3>1 DEF StartsCounted
    <3>3. /\ started[c] <= now /\ limits[c] <= now /\ limits \in [Readers -> 0 .. StartTime + MaxTime]
          /\ started[c] <= limits[c] \/ (c = Cmd[cur] /\ DtOk(cur))
          /\ now <= now
      <4>1. now \in Nat /\ now <= now
        BY <1>2, CmdLinesAssumption DEF TypeOK
      <4>2. limits \in [Readers -> 0 .. StartTime + MaxTime]
        BY <1>2 DEF TypeOK
      <4> QED
        BY <1>2, <4>1, <4>2 DEF StartsCounted, LimitPassed
    <3>4. CASE DtOk(cur) /\ c = Cmd[cur]
      BY <3>1, <3>3, <3>4
    <3>5. CASE ~(DtOk(cur) /\ c = Cmd[cur])
      BY <3>1, <3>3, <3>5
    <3> QED
      BY <3>4, <3>5
  <2>2. CASE Ready \/ AskDied \/ AskAgain \/ GoOn
    <3>1. limits' = limits /\ now' = now /\ started' = started /\ pc # "leaving"
      BY <2>2 DEF Ready, AskDied, AskAgain, GoOn
    <3> QED
      BY <1>2, <3>1 DEF StartsCounted
  <2> QED
    BY <2>1, <2>2
<1> QED
  BY <1>5, <1>6, <1>7, <1>8 DEF CmdIInv

------------------------------------------------------------------------------
(* The children and the clock go on while the daemon is anywhere. *)

(* A piece more at the end of the pipe. *)
LEMMA PieceWritten ==
  ASSUME TypeOK, NEW r \in Readers, StreamOK(r), OutOK(r), open[r], NEW c \in Piece,
         pipe'[r] = Append(pipe[r], c), c = Written(r)', c = Written(r) + 1,
         buf'[r] = buf[r], out'[r] = out[r]
  PROVE  StreamOK(r)' /\ OutOK(r)'
<1>1. /\ pipe[r] \in Seq(Piece) /\ Len(pipe[r]) \in Nat /\ Len(buf[r]) \in Nat
      /\ Written(r) \in Int /\ Behind(r) = Written(r) - Len(pipe[r]) - Len(buf[r])
  BY StreamTypes DEF Behind
<1>2. Behind(r) \in Nat
  BY DEF StreamOK
<1>3. /\ Len(pipe'[r]) = Len(pipe[r]) + 1
      /\ pipe'[r][Len(pipe[r]) + 1] = c
      /\ \A k \in 1 .. Len(pipe[r]) : pipe'[r][k] = pipe[r][k]
  BY <1>1, AppendProperties
<1>4. Behind(r)' = Behind(r)
  <2> DEFINE w == Written(r)  x == Len(pipe[r])  y == Len(buf[r])
  <2>1. Behind(r)' = (w + 1) - (x + 1) - y
    BY <1>3 DEF Behind
  <2>2. w \in Int /\ x \in Int /\ y \in Int /\ Behind(r) = w - x - y
    BY <1>1
  <2> HIDE DEF w, x, y
  <2> QED
    BY <2>1, <2>2
<1>5. Behind(r) + Len(buf[r]) + Len(pipe[r]) + 1 = c
  BY <1>1
<1>6. ASSUME NEW k \in 1 .. Len(pipe'[r])
      PROVE  pipe'[r][k] = Behind(r) + Len(buf[r]) + k
  <2>1. CASE k = Len(pipe[r]) + 1
    <3> DEFINE x == Behind(r)  y == Len(buf[r])  z == Len(pipe[r])
    <3>1. x \in Nat /\ y \in Nat /\ z \in Nat /\ x + y + z + 1 = c /\ k = z + 1
      BY <1>1, <1>2, <1>5, <2>1
    <3> HIDE DEF x, y, z
    <3>2. x + y + k = c
      BY <3>1
    <3>3. pipe'[r][k] = c
      BY <1>3, <2>1
    <3> QED
      BY <3>2, <3>3 DEF x, y
  <2>2. CASE k \in 1 .. Len(pipe[r])
    BY <1>3, <2>2 DEF StreamOK
  <2> QED
    BY <1>1, <1>3, <2>1, <2>2
<1> QED
  BY <1>4, <1>6 DEF StreamOK, OutOK

LEMMA ChildStep ==
  ASSUME CmdIInv, NEW r \in Readers, Begin(r) \/ Finish(r) \/ CloseOut(r) \/ Exit(r)
  PROVE  CmdIInv'
<1>1. /\ TypeOK /\ Streams /\ OneLineEach /\ BlockedByHalfLine /\ Points /\ StartsCounted
      /\ cur \in Readers /\ StreamOK(r) /\ OutOK(r)
  BY DEF CmdIInv, TypeOK, Streams
<1>2. UNCHANGED <<pc, cur, prlimit, limits, out, wasOpen, started, now, buf>>
  BY DEF Begin, Finish, CloseOut, Exit, daemon, stream
<1>3. \A q \in Readers \ {r} :
        /\ child'[q] = child[q] /\ open'[q] = open[q] /\ half'[q] = half[q]
        /\ pipe'[q] = pipe[q] /\ lines'[q] = lines[q]
  BY <1>1 DEF Begin, Finish, CloseOut, Exit, stream, TypeOK
<1>4. OneLineEach' /\ StartsCounted'
  BY <1>1, <1>2 DEF OneLineEach, StartsCounted, LimitPassed, DtOk, Tag
<1>5. /\ StreamOK(r)' /\ OutOK(r)' /\ TypeOK' /\ (child[r] # "running" => child'[r] = child[r])
      /\ (pipe'[r] = <<>> => pipe[r] = <<>>) /\ (open'[r] => open[r])
  <2>1. CASE Begin(r)
    <3> DEFINE c == 2 * lines[r] + 1
    <3>1. /\ open[r] /\ ~half[r] /\ lines[r] < MaxLines /\ lines[r] \in Nat
          /\ lines' = [lines EXCEPT ![r] = lines[r] + 1]
          /\ pipe' = [pipe EXCEPT ![r] = Append(pipe[r], c)]
          /\ half' = [half EXCEPT ![r] = TRUE]
          /\ UNCHANGED <<child, open>>
      BY <1>1, <2>1 DEF Begin, TypeOK
    <3>2. c \in Piece /\ c = Written(r) + 1
      BY <3>1, CmdLinesAssumption DEF Piece, Written
    <3>3. lines'[r] = lines[r] + 1 /\ half'[r] = TRUE /\ pipe'[r] = Append(pipe[r], c)
      BY <1>1, <3>1 DEF TypeOK
    <3>4. c = Written(r)'
      BY <3>1, <3>3 DEF Written
    <3> HIDE DEF c
    <3>5. StreamOK(r)' /\ OutOK(r)'
      BY <1>1, <1>2, <3>1, <3>2, <3>3, <3>4, PieceWritten
    <3>6. pipe'[r] \in Seq(Piece) /\ pipe'[r] # <<>>
      <4>1. pipe[r] \in Seq(Piece)
        BY <1>1 DEF TypeOK
      <4> QED
        BY <3>2, <3>3, <4>1, AppendProperties
    <3>7. child[r] # "none" /\ pipe' \in [Readers -> Seq(Piece)]
      BY <1>1, <3>1, <3>3, <3>6 DEF TypeOK
    <3>8. TypeOK'
      <4>1. lines' \in [Readers -> 0 .. MaxLines] /\ half' \in [Readers -> BOOLEAN]
        <5>1. lines[r] + 1 \in 0 .. MaxLines
          BY <3>1, CmdLinesAssumption
        <5> QED
          BY <1>1, <3>1, <5>1 DEF TypeOK
      <4> QED
        BY <1>1, <1>2, <1>3, <3>1, <3>7, <4>1 DEF TypeOK
    <3> QED
      BY <3>1, <3>5, <3>6, <3>8
  <2>2. CASE Finish(r)
    <3> DEFINE c == 2 * lines[r]
    <3>1. /\ open[r] /\ half[r] /\ lines[r] \in Nat /\ lines[r] <= MaxLines
          /\ pipe' = [pipe EXCEPT ![r] = Append(pipe[r], c)]
          /\ half' = [half EXCEPT ![r] = FALSE]
          /\ UNCHANGED <<child, open, lines>>
      BY <1>1, <2>2 DEF Finish, TypeOK
    <3>2. lines[r] # 0
      <4>1. Len(pipe[r]) \in Nat /\ Len(buf[r]) \in Nat /\ Behind(r) \in Nat
        BY <1>1, StreamTypes DEF StreamOK
      <4>2. Written(r) \in Int /\ Written(r) >= 0
        BY <1>1, <4>1, StreamTypes DEF Behind
      <4> QED
        BY <3>1, <4>2 DEF Written
    <3>3. c \in Piece /\ c = Written(r) + 1
      BY <3>1, <3>2, CmdLinesAssumption DEF Piece, Written
    <3>4. half'[r] = FALSE /\ pipe'[r] = Append(pipe[r], c)
      BY <1>1, <3>1 DEF TypeOK
    <3>5. c = Written(r)'
      BY <3>1, <3>4 DEF Written
    <3> HIDE DEF c
    <3>6. StreamOK(r)' /\ OutOK(r)'
      BY <1>1, <1>2, <3>1, <3>3, <3>4, <3>5, PieceWritten
    <3>7. pipe'[r] \in Seq(Piece) /\ pipe'[r] # <<>>
      <4>1. pipe[r] \in Seq(Piece)
        BY <1>1 DEF TypeOK
      <4> QED
        BY <3>3, <3>4, <4>1, AppendProperties
    <3>8. child[r] # "none" /\ pipe' \in [Readers -> Seq(Piece)]
      BY <1>1, <3>1, <3>4, <3>7 DEF TypeOK
    <3>9. TypeOK'
      BY <1>1, <1>2, <1>3, <3>1, <3>4, <3>8 DEF TypeOK
    <3> QED
      BY <3>1, <3>6, <3>7, <3>9
  <2>3. CASE CloseOut(r)
    <3>1. /\ open[r] /\ open' = [open EXCEPT ![r] = FALSE] /\ open'[r] = FALSE
          /\ UNCHANGED <<child, half, pipe, lines>>
      BY <1>1, <2>3 DEF CloseOut, TypeOK
    <3>2. TypeOK'
      BY <1>1, <1>2, <3>1 DEF TypeOK
    <3> QED
      BY <1>1, <1>2, <3>1, <3>2, Untouched
  <2>4. CASE Exit(r)
    <3>1. /\ child[r] = "running" /\ child' = [child EXCEPT ![r] = "ended"]
          /\ UNCHANGED <<open, half, pipe, lines>>
      BY <2>4 DEF Exit, stream
    <3>2. TypeOK'
      BY <1>1, <1>2, <3>1 DEF TypeOK
    <3> QED
      BY <1>1, <1>2, <3>1, <3>2, Untouched
  <2> QED
    BY <2>1, <2>2, <2>3, <2>4
<1>6. Streams'
  <2> SUFFICES ASSUME NEW q \in Readers PROVE StreamOK(q)' /\ OutOK(q)'
    BY DEF Streams
  <2>1. CASE q = r
    BY <1>5, <2>1
  <2>2. CASE q # r
    BY <1>1, <1>2, <1>3, <2>2, Untouched DEF Streams
  <2> QED
    BY <2>1, <2>2
<1>7. BlockedByHalfLine'
  <2>1. (pipe'[cur] = <<>> => pipe[cur] = <<>>) /\ (open'[cur] => open[cur])
    BY <1>1, <1>3, <1>5
  <2> QED
    BY <1>1, <1>2, <2>1 DEF BlockedByHalfLine
<1>8. Points'
  <2>1. child[cur] # "running" => child'[cur] = child[cur]
    BY <1>1, <1>3, <1>5
  <2> QED
    BY <1>1, <1>2, <2>1 DEF Points, Died, LimitPassed, DtOk, Tag
<1> QED
  BY <1>4, <1>5, <1>6, <1>7, <1>8 DEF CmdIInv

LEMMA TextLimitStep ==
  ASSUME CmdIInv, TextLimit
  PROVE  CmdIInv'
<1>1. /\ TypeOK /\ Streams /\ OneLineEach /\ StartsCounted /\ pc = "starting" /\ pc' = "raised"
      /\ UNCHANGED <<child, stream, cur, prlimit, limits, now, out, wasOpen, started>>
  BY DEF CmdIInv, TextLimit
<1>2. TypeOK'
  BY <1>1 DEF TypeOK, stream
<1>3. Streams' /\ OneLineEach'
  BY <1>1, StreamsUntouched DEF OneLineEach
<1>4. BlockedByHalfLine' /\ Points' /\ StartsCounted'
  BY <1>1 DEF BlockedByHalfLine, Points, StartsCounted
<1> QED
  BY <1>2, <1>3, <1>4 DEF CmdIInv

LEMMA TickStep ==
  ASSUME CmdIInv, Tick
  PROVE  CmdIInv'
<1>1. /\ TypeOK /\ Streams /\ OneLineEach /\ BlockedByHalfLine /\ Points /\ StartsCounted
      /\ now < StartTime + MaxTime /\ now' = now + 1
      /\ UNCHANGED <<child, stream, open, half, pipe, buf, lines, pc, cur, prlimit, limits, out,
                     wasOpen, started>>
      /\ now \in Nat /\ prlimit \in [Readers -> Nat \cup {Text}] /\ limits \in [Readers -> Nat] /\ started \in [Readers -> Nat]
      /\ cur \in Readers
  BY CmdLinesAssumption DEF CmdIInv, Tick, TypeOK, daemon, stream
<1>2. TypeOK'
  BY <1>1, CmdLinesAssumption DEF TypeOK
<1>3. Streams' /\ OneLineEach' /\ BlockedByHalfLine'
  BY <1>1, StreamsUntouched DEF OneLineEach, BlockedByHalfLine
<1>4. LimitPassed => LimitPassed'
  <2> SUFFICES ASSUME LimitPassed PROVE prlimit[cur] # Text /\ (now + 1) - limits[Cmd[cur]] >= prlimit[cur]
    BY <1>1 DEF LimitPassed, DtOk, Tag
  <2>1. Cmd[cur] \in Readers
    BY <1>1, CmdLinesAssumption
  <2>2. prlimit[cur] \in Nat /\ prlimit[cur] # Text /\ now - limits[Cmd[cur]] >= prlimit[cur]
    BY <1>1 DEF LimitPassed, DtOk, Tag
  <2>3. limits[Cmd[cur]] \in Nat
    BY <1>1, <2>1
  <2> QED
    BY <1>1, <2>2, <2>3
<1>5. Points'
  BY <1>1, <1>4 DEF Points, Died
<1>6. StartsCounted'
  <2> SUFFICES ASSUME NEW c \in Readers
               PROVE  /\ started[c] <= now + 1 /\ limits[c] <= now + 1
                      /\ \/ started[c] <= limits[c]
                         \/ pc = "leaving" /\ c = Cmd[cur] /\ LimitPassed'
    BY <1>1 DEF StartsCounted
  <2> QED
    BY <1>1, <1>4 DEF StartsCounted
<1> QED
  BY <1>2, <1>3, <1>5, <1>6 DEF CmdIInv

------------------------------------------------------------------------------
(* A dead child is waited for and replaced. *)

LEMMA Replaced ==
  ASSUME CmdIInv, Reap(cur) \/ UNCHANGED <<child, open, half, pipe, buf>>, UNCHANGED <<lines, out>>
  PROVE  /\ Streams' /\ OneLineEach'
         /\ child' \in [Readers -> {"none", "running", "ended"}]
         /\ open' \in [Readers -> BOOLEAN] /\ half' \in [Readers -> BOOLEAN]
         /\ pipe' \in [Readers -> Seq(Piece)] /\ buf' \in [Readers -> Seq(Piece)]
         /\ \A r \in Readers :
              child'[r] = "none" => ~open'[r] /\ ~half'[r] /\ pipe'[r] = <<>> /\ buf'[r] = <<>>
<1>1. TypeOK /\ Streams /\ OneLineEach /\ cur \in Readers /\ <<>> \in Seq(Piece)
  BY DEF CmdIInv, TypeOK
<1>2. OneLineEach'
  BY <1>1 DEF OneLineEach
<1>3. CASE Reap(cur)
  <2>1. /\ child'[cur] = "none" /\ open'[cur] = FALSE /\ half'[cur] = FALSE
        /\ pipe'[cur] = <<>> /\ buf'[cur] = <<>>
        /\ \A r \in Readers \ {cur} :
             /\ child'[r] = child[r] /\ open'[r] = open[r] /\ half'[r] = half[r]
             /\ pipe'[r] = pipe[r] /\ buf'[r] = buf[r]
    BY <1>1, <1>3 DEF Reap, TypeOK
  <2>2. ASSUME NEW r \in Readers PROVE StreamOK(r)' /\ OutOK(r)'
    <3>1. CASE r = cur
      BY <1>1, <2>1, <3>1, Dropped DEF Streams
    <3>2. CASE r # cur
      BY <1>1, <2>1, <3>2, Untouched DEF Streams
    <3> QED
      BY <3>1, <3>2
  <2>3. /\ child' \in [Readers -> {"none", "running", "ended"}]
        /\ open' \in [Readers -> BOOLEAN] /\ half' \in [Readers -> BOOLEAN]
    BY <1>1, <1>3 DEF Reap, TypeOK
  <2>4. pipe' \in [Readers -> Seq(Piece)] /\ buf' \in [Readers -> Seq(Piece)]
    BY <1>1, <1>3 DEF Reap, TypeOK
  <2>5. ASSUME NEW r \in Readers, child'[r] = "none"
        PROVE  ~open'[r] /\ ~half'[r] /\ pipe'[r] = <<>> /\ buf'[r] = <<>>
    BY <1>1, <2>1, <2>5 DEF TypeOK
  <2> QED
    BY <1>2, <2>2, <2>3, <2>4, <2>5 DEF Streams
<1>4. CASE UNCHANGED <<child, open, half, pipe, buf>>
  BY <1>1, <1>2, <1>4, StreamsUntouched DEF TypeOK, stream
<1> QED
  BY <1>3, <1>4

LEMMA StopStep ==
  ASSUME CmdIInv, Stop
  PROVE  CmdIInv'
<1>1. /\ pc = "starting" /\ pc' \in {"popen", "leaving"} /\ Died(cur)
      /\ UNCHANGED <<lines, cur, prlimit, limits, now, out, wasOpen, started>>
      /\ Reap(cur) \/ UNCHANGED <<child, open, half, pipe, buf>>
      /\ pc' = "popen" => LimitPassed /\ ((child[cur] = "none" /\ child' = child) \/ Reap(cur))
  BY DEF Stop, LimitPassed, CmdIInv, Points, stream
<1>2. TypeOK /\ Streams /\ OneLineEach /\ StartsCounted /\ cur \in Readers
  BY DEF CmdIInv, TypeOK
<1>3. TypeOK' /\ Streams' /\ OneLineEach'
  BY <1>1, <1>2, Replaced DEF TypeOK
<1>4. BlockedByHalfLine'
  BY <1>1 DEF BlockedByHalfLine
<1>5. Points'
  <2>1. Reap(cur) => child'[cur] = "none"
    BY <1>2 DEF Reap, TypeOK
  <2> QED
    BY <1>1, <2>1 DEF Points, LimitPassed, DtOk, Tag
<1>6. StartsCounted'
  BY <1>1, <1>2 DEF StartsCounted, LimitPassed, DtOk, Tag
<1> QED
  BY <1>3, <1>4, <1>5, <1>6 DEF CmdIInv

LEMMA ReadNothingStep ==
  ASSUME CmdIInv, ReadNothing
  PROVE  CmdIInv'
<1>1. /\ pc = "reading" /\ pc' = "asking" /\ cur' = (cur % N) + 1
      /\ UNCHANGED <<lines, prlimit, limits, now, out, wasOpen, started>>
      /\ Reap(cur) \/ UNCHANGED <<child, open, half, pipe, buf>>
  BY DEF ReadNothing, NextReader
<1>2. TypeOK /\ Streams /\ OneLineEach /\ StartsCounted /\ cur \in Readers
  BY DEF CmdIInv, TypeOK
<1>3. cur' \in Readers
  BY <1>1, <1>2, NextIsReader
<1>4. TypeOK' /\ Streams' /\ OneLineEach'
  BY <1>1, <1>2, <1>3, Replaced DEF TypeOK
<1>5. BlockedByHalfLine' /\ Points' /\ StartsCounted'
  BY <1>1, <1>2 DEF BlockedByHalfLine, Points, StartsCounted
<1> QED
  BY <1>4, <1>5 DEF CmdIInv

LEMMA PopenStep ==
  ASSUME CmdIInv, Popen
  PROVE  CmdIInv'
<1>1. /\ TypeOK /\ Streams /\ OneLineEach /\ StartsCounted /\ Points /\ cur \in Readers
      /\ pc = "popen" /\ LimitPassed /\ child[cur] = "none" /\ <<>> \in Seq(Piece)
      /\ UNCHANGED <<lines, cur, prlimit, limits, now, out, wasOpen>>
  BY DEF CmdIInv, TypeOK, Popen, Points
<1>2. CASE pc' = "raised" /\ UNCHANGED <<child, open, half, pipe, buf, started>>
  BY <1>1, <1>2, StreamsUntouched
     DEF TypeOK, OneLineEach, BlockedByHalfLine, Points, StartsCounted, stream, CmdIInv
<1>3. CASE /\ pc' = "leaving"
           /\ child' = [child EXCEPT ![cur] = "running"]
           /\ open' = [open EXCEPT ![cur] = TRUE] /\ half' = [half EXCEPT ![cur] = FALSE]
           /\ pipe' = [pipe EXCEPT ![cur] = <<>>] /\ buf' = [buf EXCEPT ![cur] = <<>>]
           /\ started' = [started EXCEPT ![Cmd[cur]] = now]
  <2>1. /\ child'[cur] = "running" /\ half'[cur] = FALSE
        /\ pipe'[cur] = <<>> /\ buf'[cur] = <<>>
        /\ \A r \in Readers \ {cur} :
             /\ child'[r] = child[r] /\ open'[r] = open[r] /\ half'[r] = half[r]
             /\ pipe'[r] = pipe[r] /\ buf'[r] = buf[r]
    BY <1>1, <1>3 DEF TypeOK
  <2>2. ASSUME NEW r \in Readers PROVE StreamOK(r)' /\ OutOK(r)'
    <3>1. CASE r = cur
      BY <1>1, <2>1, <3>1, Dropped DEF Streams
    <3>2. CASE r # cur
      BY <1>1, <2>1, <3>2, Untouched DEF Streams
    <3> QED
      BY <3>1, <3>2
  <2>3. Cmd[cur] \in Readers /\ now \in 0 .. StartTime + MaxTime /\ now \in Nat
    BY <1>1, CmdLinesAssumption DEF TypeOK
  <2>4. /\ child' \in [Readers -> {"none", "running", "ended"}]
        /\ open' \in [Readers -> BOOLEAN] /\ half' \in [Readers -> BOOLEAN]
        /\ started' \in [Readers -> 0 .. StartTime + MaxTime]
    BY <1>1, <1>3, <2>3 DEF TypeOK
  <2>5. pipe' \in [Readers -> Seq(Piece)] /\ buf' \in [Readers -> Seq(Piece)]
    BY <1>1, <1>3 DEF TypeOK
  <2>6. ASSUME NEW r \in Readers, child'[r] = "none"
        PROVE  ~open'[r] /\ ~half'[r] /\ pipe'[r] = <<>> /\ buf'[r] = <<>>
    BY <1>1, <2>1, <2>6 DEF TypeOK
  <2>7. TypeOK'
    BY <1>1, <1>3, <2>4, <2>5, <2>6 DEF TypeOK
  <2>8. Streams' /\ OneLineEach' /\ BlockedByHalfLine' /\ Points'
    BY <1>1, <1>3, <2>2 DEF Streams, OneLineEach, BlockedByHalfLine, Points
  <2>9. StartsCounted'
    <3> SUFFICES ASSUME NEW c \in Readers
                 PROVE  /\ started'[c] <= now /\ limits[c] <= now
                        /\ started'[c] <= limits[c] \/ (c = Cmd[cur] /\ LimitPassed)
      BY <1>1, <1>3 DEF StartsCounted, LimitPassed, DtOk, Tag
    <3>1. started[c] <= now /\ limits[c] <= now /\ started[c] <= limits[c]
      BY <1>1 DEF StartsCounted
    <3>2. started'[c] = IF c = Cmd[cur] THEN now ELSE started[c]
      BY <1>1, <1>3 DEF TypeOK
    <3>3. now <= now
      BY <2>3
    <3> QED
      BY <1>1, <3>1, <3>2, <3>3
  <2> QED
    BY <2>7, <2>8, <2>9 DEF CmdIInv
<1> QED
  BY <1>2, <1>3 DEF Popen

------------------------------------------------------------------------------
(* The two halves of a sequence that is cut. *)
LEMMA CutInTwo ==
  ASSUME NEW S, NEW s \in Seq(S), NEW n \in 0 .. Len(s)
  PROVE  /\ SubSeq(s, 1, n) \in Seq(S) /\ Len(SubSeq(s, 1, n)) = n
         /\ \A k \in 1 .. n : SubSeq(s, 1, n)[k] = s[k]
         /\ SubSeq(s, n + 1, Len(s)) \in Seq(S) /\ Len(SubSeq(s, n + 1, Len(s))) = Len(s) - n
         /\ \A k \in 1 .. Len(s) - n : SubSeq(s, n + 1, Len(s))[k] = s[n + k]
<1>1. Len(s) \in Nat /\ n \in Nat /\ \A k \in 1 .. Len(s) : s[k] \in S
  BY LenProperties, ElementOfSeq
<1>2. /\ SubSeq(s, 1, n) \in Seq(S) /\ Len(SubSeq(s, 1, n)) = n
      /\ \A k \in 1 .. n : SubSeq(s, 1, n)[k] = s[k]
  <2>1. \A k \in 1 .. n : s[k] \in S
    BY <1>1
  <2> QED
    BY <1>1, <2>1, SubSeqProperties
<1>3. /\ SubSeq(s, n + 1, Len(s)) \in Seq(S) /\ Len(SubSeq(s, n + 1, Len(s))) = Len(s) - n
      /\ \A k \in 1 .. Len(s) - n : SubSeq(s, n + 1, Len(s))[k] = s[n + k]
  <2>1. \A k \in n + 1 .. Len(s) : s[k] \in S
    BY <1>1
  <2> QED
    BY <1>1, <2>1, SubSeqProperties
<1> QED
  BY <1>2, <1>3

LEMMA FillStep ==
  ASSUME CmdIInv, Fill
  PROVE  CmdIInv'
<1>1. /\ TypeOK /\ Streams /\ OneLineEach /\ Points /\ StartsCounted /\ cur \in Readers
      /\ StreamOK(cur) /\ OutOK(cur)
  BY DEF CmdIInv, TypeOK, Streams
<1>2. PICK n \in 1 .. Len(pipe[cur]) :
        /\ buf' = [buf EXCEPT ![cur] = buf[cur] \o SubSeq(pipe[cur], 1, n)]
        /\ pipe' = [pipe EXCEPT ![cur] = SubSeq(pipe[cur], n + 1, Len(pipe[cur]))]
        /\ pc = "reading"
        /\ UNCHANGED <<child, open, half, lines, now, pc, cur, prlimit, limits, out, wasOpen, started>>
  BY DEF Fill, daemon
<1> DEFINE p == pipe[cur]  b == buf[cur]  B == Behind(cur)
           moved == SubSeq(p, 1, n)  rest == SubSeq(p, n + 1, Len(p))
<1>3. /\ p \in Seq(Piece) /\ b \in Seq(Piece) /\ n \in 0 .. Len(p) /\ n \in Nat /\ n > 0
      /\ Len(p) \in Nat /\ Len(b) \in Nat
  BY <1>1, <1>2, StreamTypes
<1>4. /\ buf'[cur] = b \o moved /\ pipe'[cur] = rest
      /\ \A q \in Readers \ {cur} : buf'[q] = buf[q] /\ pipe'[q] = pipe[q]
  BY <1>1, <1>2 DEF TypeOK
<1> HIDE DEF p, b
<1>5. /\ moved \in Seq(Piece) /\ Len(moved) = n /\ \A k \in 1 .. n : moved[k] = p[k]
      /\ rest \in Seq(Piece) /\ Len(rest) = Len(p) - n
      /\ \A k \in 1 .. Len(p) - n : rest[k] = p[n + k]
  BY <1>3, CutInTwo, SMTT(20)
<1> HIDE DEF moved, rest
<1>6. /\ b \o moved \in Seq(Piece) /\ Len(b \o moved) = Len(b) + n
      /\ \A k \in 1 .. Len(b) + n :
           (b \o moved)[k] = IF k <= Len(b) THEN b[k] ELSE moved[k - Len(b)]
  BY <1>3, <1>5, ConcatProperties
<1>7. StreamOK(cur)' /\ OutOK(cur)'
  <2>1. Behind(cur)' = B
    <3>1. Written(cur)' = Written(cur) /\ Written(cur) \in Int
      BY <1>1, <1>2, StreamTypes DEF Written
    <3>2. B = Written(cur) - Len(p) - Len(b)
      BY DEF Behind, p, b
    <3>3. Behind(cur)' = Written(cur) - (Len(p) - n) - (Len(b) + n)
      BY <1>2, <1>4, <1>5, <1>6, <3>1 DEF Behind
    <3> HIDE DEF B
    <3> QED
      BY <1>3, <3>1, <3>2, <3>3
  <2>2. /\ B \in Nat /\ B % 2 = 0
        /\ \A k \in 1 .. Len(b) : b[k] = B + k
        /\ \A k \in 1 .. Len(p) : p[k] = B + Len(b) + k
    <3>1. p # <<>>
      BY <1>3, EmptySeq
    <3> QED
      BY <1>1, <3>1 DEF StreamOK, p, b
  <2>3. OutOK(cur)'
    BY <1>1, <1>2, <2>1 DEF OutOK
  <2> HIDE DEF B
  <2>4. \A k \in 1 .. Len(b) + n : (b \o moved)[k] = B + k
    <3> SUFFICES ASSUME NEW k \in 1 .. Len(b) + n PROVE (b \o moved)[k] = B + k
      OBVIOUS
    <3>1. CASE k <= Len(b)
      BY <1>3, <1>6, <2>2, <3>1
    <3>2. CASE ~(k <= Len(b))
      <4>1. k - Len(b) \in 1 .. n /\ k - Len(b) \in 1 .. Len(p)
        BY <1>3, <3>2
      <4>2. moved[k - Len(b)] = B + Len(b) + (k - Len(b))
        BY <1>5, <2>2, <4>1
      <4>3. (b \o moved)[k] = moved[k - Len(b)]
        BY <1>3, <1>6, <3>2
      <4>4. B + Len(b) + (k - Len(b)) = B + k
        BY <1>3, <2>2
      <4> QED
        BY <4>2, <4>3, <4>4
    <3> QED
      BY <3>1, <3>2
  <2>5. \A k \in 1 .. Len(rest) : rest[k] = B + Len(b \o moved) + k
    <3> SUFFICES ASSUME NEW k \in 1 .. Len(rest) PROVE rest[k] = B + Len(b \o moved) + k
      OBVIOUS
    <3>1. k \in 1 .. Len(p) - n /\ n + k \in 1 .. Len(p)
      BY <1>3, <1>5
    <3>2. rest[k] = p[n + k] /\ p[n + k] = B + Len(b) + (n + k)
      BY <1>5, <2>2, <3>1
    <3>3. B + Len(b) + (n + k) = B + (Len(b) + n) + k
      BY <1>3, <2>2
    <3> QED
      BY <1>6, <3>2, <3>3
  <2>6. StreamOK(cur)'
    <3>1. cur' = cur
      BY <1>2
    <3> QED
      BY <1>4, <1>6, <2>1, <2>2, <2>4, <2>5, <3>1 DEF StreamOK
  <2> QED
    BY <2>3, <2>6
<1>8. Streams'
  <2> SUFFICES ASSUME NEW q \in Readers PROVE StreamOK(q)' /\ OutOK(q)'
    BY DEF Streams
  <2>1. CASE q = cur
    BY <1>2, <1>7, <2>1 DEF StreamOK, OutOK, Behind, Written
  <2>2. CASE q # cur
    BY <1>1, <1>2, <1>4, <2>2, Untouched DEF Streams
  <2> QED
    BY <2>1, <2>2
<1>9. child[cur] # "none"
  BY <1>1, <1>3, EmptySeq DEF TypeOK, p
<1>10. buf'[cur] # <<>>
  BY <1>3, <1>4, <1>6, EmptySeq
<1>11. TypeOK'
  <2>1. pipe' \in [Readers -> Seq(Piece)] /\ buf' \in [Readers -> Seq(Piece)]
    BY <1>1, <1>2, <1>3, <1>5, <1>6 DEF TypeOK, moved, rest, p, b
  <2>2. \A r \in Readers :
          child'[r] = "none" => ~open'[r] /\ ~half'[r] /\ pipe'[r] = <<>> /\ buf'[r] = <<>>
    BY <1>1, <1>2, <1>4, <1>9 DEF TypeOK
  <2> QED
    BY <1>1, <1>2, <2>1, <2>2 DEF TypeOK
<1>12. OneLineEach' /\ BlockedByHalfLine' /\ Points' /\ StartsCounted'
  <2>1. OneLineEach' /\ Points'
    BY <1>1, <1>2 DEF OneLineEach, Points
  <2>2. BlockedByHalfLine'
    BY <1>2, <1>10 DEF BlockedByHalfLine
  <2>3. StartsCounted'
    BY <1>1, <1>2 DEF StartsCounted
  <2> QED
    BY <2>1, <2>2, <2>3
<1> QED
  BY <1>8, <1>11, <1>12 DEF CmdIInv

(* The lines of pieces, when all up to an even one are behind. *)
LEMMA SameLine ==
  \A m \in Nat : m % 2 = 0 =>
    \A a, b \in Int : m + 1 <= a /\ a <= m + 2 /\ m + 1 <= b /\ b <= m + 2 => LineOf(a) = LineOf(b)
<1> SUFFICES ASSUME NEW m \in Nat, m % 2 = 0 PROVE
      \A a \in Int : m + 1 <= a /\ a <= m + 2 => LineOf(a) = (m + 2) \div 2
  OBVIOUS
<1>1. LineOf(m + 1) = (m + 2) \div 2 /\ LineOf(m + 2) = (m + 2) \div 2
  BY DEF LineOf
<1> QED
  BY <1>1

LEMMA LaterLine ==
  \A m \in Nat : m % 2 = 0 => \A a, b \in Int : a <= m /\ m + 1 <= b => LineOf(a) < LineOf(b)
BY DEF LineOf

(* The line that is returned is the next one, and only one. *)
LEMMA LineReturned ==
  ASSUME TypeOK, NEW r \in Readers, StreamOK(r), OutOK(r), buf[r] # <<>>,
         HasLine(r) \/ AtEnd(r),
         out'[r] = Append(out[r], SubSeq(buf[r], 1, FirstLine(r))),
         buf'[r] = SubSeq(buf[r], FirstLine(r) + 1, Len(buf[r])),
         pipe'[r] = pipe[r], open'[r] = open[r], half'[r] = half[r], lines'[r] = lines[r],
         \A i, j \in DOMAIN out[r] : \A a \in ToSet(out[r][i]), b \in ToSet(out[r][j]) :
           (i = j => LineOf(a) = LineOf(b)) /\ (i < j => LineOf(a) < LineOf(b))
  PROVE  /\ StreamOK(r)' /\ OutOK(r)' /\ buf'[r] \in Seq(Piece) /\ out'[r] \in Seq(Seq(Piece))
         /\ \A i, j \in DOMAIN out'[r] : \A a \in ToSet(out'[r][i]), b \in ToSet(out'[r][j]) :
              (i = j => LineOf(a) = LineOf(b)) /\ (i < j => LineOf(a) < LineOf(b))
<1> DEFINE s == buf[r]  f == FirstLine(r)  B == Behind(r)  o == out[r]  m == Len(o)
           line == SubSeq(s, 1, f)  rest == SubSeq(s, f + 1, Len(s))
<1>1. /\ s \in Seq(Piece) /\ Len(s) \in Nat /\ o \in Seq(Seq(Piece)) /\ m \in Nat
      /\ DOMAIN o = 1 .. m
  BY LenProperties DEF TypeOK
<1>2. /\ f \in 1 .. Len(s) /\ f \in {1, 2} /\ f \in 0 .. Len(s)
      /\ (HasLine(r) => f = 2) /\ (~HasLine(r) => f = Len(s))
  BY <1>1, FirstLineEnds
<1>3. /\ B \in Nat /\ B % 2 = 0 /\ \A k \in 1 .. Len(s) : s[k] = B + k
      /\ \A k \in 1 .. Len(pipe[r]) : pipe[r][k] = B + Len(s) + k
  BY DEF StreamOK
<1> HIDE DEF f
<1>4. /\ line \in Seq(Piece) /\ Len(line) = f /\ \A k \in 1 .. f : line[k] = s[k]
      /\ rest \in Seq(Piece) /\ Len(rest) = Len(s) - f
      /\ \A k \in 1 .. Len(s) - f : rest[k] = s[f + k]
  BY <1>1, <1>2, CutInTwo
<1>5. buf'[r] = rest /\ out'[r] = Append(o, line)
  BY DEF f
<1> HIDE DEF line, rest
<1>6. /\ out'[r] \in Seq(Seq(Piece)) /\ DOMAIN out'[r] = 1 .. m + 1
      /\ out'[r][m + 1] = line /\ \A i \in 1 .. m : out'[r][i] = o[i]
  <2>1. Append(o, line) \in Seq(Seq(Piece)) /\ Len(Append(o, line)) = m + 1
    BY <1>1, <1>4, AppendProperties
  <2>2. Append(o, line)[m + 1] = line /\ \A i \in 1 .. m : Append(o, line)[i] = o[i]
    BY <1>1, <1>4, AppendProperties
  <2>3. DOMAIN Append(o, line) = 1 .. m + 1
    BY <2>1, LenProperties
  <2> QED
    BY <1>5, <2>1, <2>2, <2>3
<1>7. Behind(r)' = B + f
  <2>1. Written(r)' = Written(r) /\ Written(r) \in Int /\ Len(pipe[r]) \in Nat
    <3>1. Written(r)' = Written(r)
      BY DEF Written
    <3> QED
      BY <3>1, StreamTypes
  <2>2. B = Written(r) - Len(pipe[r]) - Len(s)
    BY DEF Behind
  <2>3. Behind(r)' = Written(r) - Len(pipe[r]) - Len(rest)
    BY <1>5, <2>1 DEF Behind
  <2> HIDE DEF B, s
  <2> QED
    BY <1>1, <1>2, <1>4, <2>1, <2>2, <2>3
<1>8. StreamOK(r)'
  <2>1. B + f \in Nat
    BY <1>2, <1>3
  <2>2. open[r] \/ pipe[r] # <<>> \/ rest # <<>> => (B + f) % 2 = 0
    <3>1. CASE HasLine(r)
      <4> HIDE DEF B
      <4> QED
        BY <1>2, <1>3, <3>1
    <3>2. CASE ~HasLine(r)
      <4>1. ~open[r] /\ pipe[r] = <<>>
        BY <3>2 DEF AtEnd
      <4>2. Len(rest) = 0
        BY <1>1, <1>2, <1>4, <3>2
      <4> QED
        BY <1>4, <4>1, <4>2, EmptySeq
    <3> QED
      BY <3>1, <3>2
  <2> HIDE DEF B, s
  <2>3. \A k \in 1 .. Len(rest) : rest[k] = B + f + k
    <3> SUFFICES ASSUME NEW k \in 1 .. Len(rest) PROVE rest[k] = B + f + k
      OBVIOUS
    <3>1. k \in 1 .. Len(s) - f /\ f + k \in 1 .. Len(s)
      BY <1>1, <1>2, <1>4
    <3>2. rest[k] = s[f + k] /\ s[f + k] = B + (f + k)
      BY <1>3, <1>4, <3>1
    <3>3. B + (f + k) = B + f + k
      BY <1>2, <1>3
    <3> QED
      BY <3>2, <3>3
  <2>4. \A k \in 1 .. Len(pipe[r]) : pipe[r][k] = B + f + Len(rest) + k
    <3> SUFFICES ASSUME NEW k \in 1 .. Len(pipe[r])
                 PROVE  pipe[r][k] = B + f + Len(rest) + k
      OBVIOUS
    <3> QED
      BY <1>1, <1>2, <1>3, <1>4
  <2> QED
    BY <1>5, <1>7, <2>1, <2>2, <2>3, <2>4 DEF StreamOK
<1>9. \A a \in ToSet(line) : a \in Int /\ B + 1 <= a /\ a <= B + f
  <2> HIDE DEF B
  <2>1. \A k \in 1 .. f : line[k] = B + k
    <3> SUFFICES ASSUME NEW k \in 1 .. f PROVE line[k] = B + k
      OBVIOUS
    <3>1. k \in 1 .. Len(s)
      BY <1>1, <1>2
    <3> QED
      BY <1>3, <1>4, <3>1
  <2>2. \A a \in ToSet(line) : \E k \in 1 .. f : a = line[k]
    BY <1>4, LenProperties DEF ToSet
  <2> QED
    BY <1>2, <1>3, <2>1, <2>2
<1>10. \A i \in 1 .. m : \A a \in ToSet(o[i]) : a \in Nat /\ a > 0 /\ a <= B
  <2> SUFFICES ASSUME NEW i \in 1 .. m, NEW a \in ToSet(o[i])
               PROVE  a \in Nat /\ a > 0 /\ a <= B
    OBVIOUS
  <2>1. o[i] \in Seq(Piece)
    BY <1>1, ElementOfSeq
  <2>2. PICK k \in DOMAIN o[i] : a = o[i][k]
    BY DEF ToSet
  <2>3. DOMAIN o[i] = 1 .. Len(o[i])
    BY <2>1, LenProperties
  <2>4. a \in Piece
    BY <2>1, <2>2, <2>3, ElementOfSeq
  <2>5. a \in Nat /\ a > 0
    BY <2>4, CmdLinesAssumption DEF Piece
  <2>6. a <= B
    BY <1>1 DEF OutOK
  <2> QED
    BY <2>5, <2>6
<1>11. OutOK(r)'
  <2> SUFFICES ASSUME NEW i \in 1 .. m + 1, NEW a \in ToSet(out'[r][i])
               PROVE  a <= B + f
    BY <1>6, <1>7 DEF OutOK
  <2> HIDE DEF B, o, m
  <2>1. CASE i = m + 1
    BY <1>6, <1>9, <2>1
  <2>2. CASE i \in 1 .. m
    <3>1. a \in Nat /\ a <= B
      BY <1>6, <1>10, <2>2
    <3> QED
      BY <1>2, <1>3, <3>1
  <2> QED
    BY <1>1, <2>1, <2>2
<1>12. ASSUME NEW i \in 1 .. m + 1, NEW j \in 1 .. m + 1,
              NEW a \in ToSet(out'[r][i]), NEW b \in ToSet(out'[r][j])
       PROVE  (i = j => LineOf(a) = LineOf(b)) /\ (i < j => LineOf(a) < LineOf(b))
  <2>1. CASE i \in 1 .. m /\ j \in 1 .. m
    BY <1>1, <1>6, <2>1
  <2> HIDE DEF B, o, m
  <2>2. CASE i = m + 1 /\ j = m + 1
    <3>1. a \in ToSet(line) /\ b \in ToSet(line)
      BY <1>6, <2>2
    <3>2. /\ a \in Int /\ B + 1 <= a /\ a <= B + 2
          /\ b \in Int /\ B + 1 <= b /\ b <= B + 2
      BY <1>2, <1>3, <1>9, <3>1
    <3>3. LineOf(a) = LineOf(b)
      BY <1>3, <3>2, SameLine
    <3> QED
      BY <1>1, <2>2, <3>3
  <2>3. CASE i \in 1 .. m /\ j = m + 1
    <3>1. a \in Nat /\ a <= B
      BY <1>6, <1>10, <2>3
    <3>2. b \in Int /\ B + 1 <= b
      BY <1>6, <1>9, <2>3
    <3>3. a \in Int /\ B \in Nat /\ B % 2 = 0
      BY <1>3, <3>1
    <3>4. LineOf(a) < LineOf(b)
      BY <3>1, <3>2, <3>3, LaterLine
    <3>5. i # j
      BY <1>1, <2>3
    <3> QED
      BY <3>4, <3>5
  <2>4. CASE i = m + 1 /\ j \in 1 .. m
    BY <1>1, <2>4
  <2> QED
    BY <1>1, <2>1, <2>2, <2>3, <2>4
<1>13. \A i, j \in DOMAIN out'[r] : \A a \in ToSet(out'[r][i]), b \in ToSet(out'[r][j]) :
         (i = j => LineOf(a) = LineOf(b)) /\ (i < j => LineOf(a) < LineOf(b))
  BY <1>6, <1>12
<1> QED
  BY <1>4, <1>5, <1>6, <1>8, <1>11, <1>13

LEMMA ReadLineStep ==
  ASSUME CmdIInv, ReadLine
  PROVE  CmdIInv'
<1>1. /\ TypeOK /\ Streams /\ OneLineEach /\ Points /\ StartsCounted /\ cur \in Readers
      /\ StreamOK(cur) /\ OutOK(cur)
  BY DEF CmdIInv, TypeOK, Streams
<1>2. /\ pc = "reading" /\ pc' \in {"yielded", "raised"} /\ buf[cur] # <<>>
      /\ HasLine(cur) \/ AtEnd(cur)
      /\ out' = [out EXCEPT ![cur] = Append(out[cur], SubSeq(buf[cur], 1, FirstLine(cur)))]
      /\ buf' = [buf EXCEPT ![cur] = SubSeq(buf[cur], FirstLine(cur) + 1, Len(buf[cur]))]
      /\ UNCHANGED <<child, open, half, pipe, lines, cur, prlimit, limits, now, wasOpen, started>>
  BY DEF ReadLine
<1>3. /\ out'[cur] = Append(out[cur], SubSeq(buf[cur], 1, FirstLine(cur)))
      /\ buf'[cur] = SubSeq(buf[cur], FirstLine(cur) + 1, Len(buf[cur]))
      /\ \A q \in Readers \ {cur} : out'[q] = out[q] /\ buf'[q] = buf[q]
  BY <1>1, <1>2 DEF TypeOK
<1>4. /\ StreamOK(cur)' /\ OutOK(cur)'
      /\ buf'[cur] \in Seq(Piece) /\ out'[cur] \in Seq(Seq(Piece))
      /\ \A i, j \in DOMAIN out'[cur] :
           \A a \in ToSet(out'[cur][i]), b \in ToSet(out'[cur][j]) :
             (i = j => LineOf(a) = LineOf(b)) /\ (i < j => LineOf(a) < LineOf(b))
  <2>1. \A i, j \in DOMAIN out[cur] :
          \A a \in ToSet(out[cur][i]), b \in ToSet(out[cur][j]) :
            (i = j => LineOf(a) = LineOf(b)) /\ (i < j => LineOf(a) < LineOf(b))
    BY <1>1 DEF OneLineEach
  <2> DEFINE r == cur
  <2>2. /\ StreamOK(r) /\ OutOK(r) /\ r \in Readers
        /\ pipe'[r] = pipe[r] /\ open'[r] = open[r] /\ half'[r] = half[r] /\ lines'[r] = lines[r]
    BY <1>1, <1>2
  <2> QED
    BY <1>1, <1>2, <1>3, <2>1, <2>2, LineReturned
<1>5. Streams'
  <2> SUFFICES ASSUME NEW q \in Readers PROVE StreamOK(q)' /\ OutOK(q)'
    BY DEF Streams
  <2>1. CASE q = cur
    <3>1. cur' = cur
      BY <1>2
    <3> QED
      BY <1>4, <2>1, <3>1 DEF StreamOK, OutOK, Behind, Written
  <2>2. CASE q # cur
    BY <1>1, <1>2, <1>3, <2>2, Untouched DEF Streams
  <2> QED
    BY <2>1, <2>2
<1>6. OneLineEach'
  <2> SUFFICES ASSUME NEW q \in Readers
               PROVE  \A i, j \in DOMAIN out'[q] :
                        \A a \in ToSet(out'[q][i]), b \in ToSet(out'[q][j]) :
                          (i = j => LineOf(a) = LineOf(b)) /\ (i < j => LineOf(a) < LineOf(b))
    BY DEF OneLineEach
  <2>1. CASE q = cur
    BY <1>4, <2>1
  <2>2. CASE q # cur
    BY <1>1, <1>3, <2>2 DEF OneLineEach
  <2> QED
    BY <2>1, <2>2
<1>7. child[cur] # "none"
  BY <1>1, <1>2 DEF TypeOK
<1>8. TypeOK'
  <2>1. buf' \in [Readers -> Seq(Piece)] /\ out' \in [Readers -> Seq(Seq(Piece))]
    BY <1>1, <1>2, <1>3, <1>4 DEF TypeOK
  <2>2. \A r \in Readers :
          child'[r] = "none" => ~open'[r] /\ ~half'[r] /\ pipe'[r] = <<>> /\ buf'[r] = <<>>
    BY <1>1, <1>2, <1>3, <1>7 DEF TypeOK
  <2> QED
    BY <1>1, <1>2, <2>1, <2>2 DEF TypeOK
<1>9. BlockedByHalfLine' /\ Points' /\ StartsCounted'
  BY <1>1, <1>2 DEF BlockedByHalfLine, Points, StartsCounted
<1> QED
  BY <1>5, <1>6, <1>8, <1>9 DEF CmdIInv

------------------------------------------------------------------------------
LEMMA CmdInitHolds == Init => CmdIInv
<1> SUFFICES ASSUME Init PROVE CmdIInv
  OBVIOUS
<1>1. TypeOK
  <2>1. 1 \in Readers /\ StartTime \in Nat /\ MaxTime \in Nat /\ MaxLines \in Nat
    BY CmdLinesAssumption DEF Readers
  <2>2. <<>> \in Seq(Piece) /\ <<>> \in Seq(Seq(Piece))
    OBVIOUS
  <2>3. /\ child = [r \in Readers |-> "none"]
        /\ open = [r \in Readers |-> FALSE] /\ half = [r \in Readers |-> FALSE]
        /\ pipe = [r \in Readers |-> <<>>] /\ buf = [r \in Readers |-> <<>>]
        /\ lines = [r \in Readers |-> 0] /\ limits = [r \in Readers |-> 0]
        /\ started = [r \in Readers |-> 0] /\ out = [r \in Readers |-> <<>>]
        /\ pc = "asking" /\ cur = 1 /\ now = StartTime /\ wasOpen = FALSE
    BY DEF Init
  <2>4. /\ child \in [Readers -> {"none", "running", "ended"}]
        /\ open \in [Readers -> BOOLEAN] /\ half \in [Readers -> BOOLEAN]
    BY <2>3
  <2>5. /\ pipe \in [Readers -> Seq(Piece)] /\ buf \in [Readers -> Seq(Piece)]
        /\ out \in [Readers -> Seq(Seq(Piece))]
    BY <2>2, <2>3
  <2>6. /\ lines \in [Readers -> 0 .. MaxLines]
        /\ limits \in [Readers -> 0 .. StartTime + MaxTime]
        /\ started \in [Readers -> 0 .. StartTime + MaxTime]
        /\ now \in StartTime .. StartTime + MaxTime
    BY <2>1, <2>3
  <2>7. prlimit \in [Readers -> Nat \cup {Text}]
    BY CmdLinesAssumption DEF Init
  <2> QED
    BY <2>1, <2>3, <2>4, <2>5, <2>6, <2>7 DEF TypeOK
<1>2. \A r \in Readers :
        /\ open[r] = FALSE /\ half[r] = FALSE /\ lines[r] = 0
        /\ pipe[r] = <<>> /\ buf[r] = <<>> /\ out[r] = <<>>
  BY DEF Init
<1>3. \A r \in Readers : Behind(r) = 0
  BY <1>2 DEF Behind, Written
<1>4. Streams /\ OneLineEach
  BY <1>2, <1>3 DEF Streams, StreamOK, OutOK, OneLineEach
<1>5. BlockedByHalfLine /\ Points /\ StartsCounted
  BY CmdLinesAssumption DEF Init, BlockedByHalfLine, Points, StartsCounted
<1> QED
  BY <1>1, <1>4, <1>5 DEF CmdIInv

LEMMA CmdStepHolds == CmdIInv /\ [Next]_vars => CmdIInv'
<1> SUFFICES ASSUME CmdIInv, [Next]_vars PROVE CmdIInv'
  OBVIOUS
<1>1. CASE Daemon
  BY <1>1, ControlStep, TextLimitStep, StopStep, PopenStep, FillStep, ReadLineStep, ReadNothingStep DEF Daemon
<1>2. CASE Tick
  BY <1>2, TickStep
<1>3. CASE \E r \in Readers : Begin(r) \/ Finish(r) \/ CloseOut(r) \/ Exit(r)
  BY <1>3, ChildStep
<1>4. CASE UNCHANGED vars
  BY <1>4 DEF vars, CmdIInv, TypeOK, Streams, StreamOK, OutOK, Behind, Written, OneLineEach,
              BlockedByHalfLine, Points, Died, LimitPassed, DtOk, Tag, StartsCounted
<1> QED
  BY <1>1, <1>2, <1>3, <1>4 DEF Next

LEMMA CmdInductive == Spec => []CmdIInv
BY CmdInitHolds, CmdStepHolds, PTL DEF Spec

(* Type correctness of the readers, their children and the daemon; and a     *)
(* reader without a child has nothing left of one (cmdlines.py:44-142).       *)
THEOREM CmdTypeCorrect == Spec => []TypeOK
<1>1. CmdIInv => TypeOK
  BY DEF CmdIInv
<1> QED
  BY CmdInductive, <1>1, PTL

(* Every event of a reader is one line, and the lines come in the order in   *)
(* which they were written, however the pieces reach the pipe and the buffer, *)
(* whatever is dropped with a child and however often it is replaced          *)
(* (cmdlines.py:133-142).                                                     *)
THEOREM OneLineEachAlways == Spec => []OneLineEach
<1>1. CmdIInv => OneLineEach
  BY DEF CmdIInv
<1> QED
  BY CmdInductive, <1>1, PTL

(* readline() waits for a child that is in the middle of a line, and for     *)
(* nothing else: never with nothing at all to read (cmdlines.py:135-136).     *)
THEOREM BlockedByHalfLineAlways == Spec => []BlockedByHalfLine
<1>1. CmdIInv => BlockedByHalfLine
  BY DEF CmdIInv
<1> QED
  BY CmdInductive, <1>1, PTL

(* No child is dropped while it runs, and each is waited for before the next *)
(* of its reader is started (cmdlines.py:98-123).                             *)
THEOREM NoOrphanNoZombieAlways == Spec => NoOrphanNoZombie
<1> DEFINE A == \A r \in Readers :
                  /\ child[r] = "running" => child'[r] # "none"
                  /\ child[r] = "ended" => child'[r] # "running"
<1>1. CmdIInv /\ [Next]_vars => [A]_vars
  <2> SUFFICES ASSUME CmdIInv, [Next]_vars PROVE A \/ UNCHANGED vars
    BY DEF vars
  <2>1. child \in [Readers -> {"none", "running", "ended"}] /\ cur \in Readers
        /\ (pc = "starting" => Died(cur)) /\ (pc = "popen" => child[cur] = "none")
    BY DEF CmdIInv, TypeOK, Points
  <2>2. CASE UNCHANGED child
    BY <2>1, <2>2
  <2>3. CASE Stop \/ ReadNothing
    <3>1. CASE Stop
      BY <2>1, <2>3, <3>1 DEF Stop, Reap, Died
    <3>2. CASE ReadNothing
      BY <2>1, <2>3, <3>2 DEF ReadNothing, Reap, Died
    <3> QED
      BY <2>3, <3>1, <3>2
  <2>4. CASE Popen
    <3>1. child[cur] = "none"
          /\ (child' = child \/ child' = [child EXCEPT ![cur] = "running"])
      BY <2>1, <2>4 DEF Popen
    <3> QED
      BY <2>1, <3>1
  <2>5. CASE \E r \in Readers : Exit(r)
    <3>1. PICK r \in Readers : child' = [child EXCEPT ![r] = "ended"] /\ child[r] = "running"
      BY <2>5 DEF Exit
    <3> QED
      BY <2>1, <3>1
  <2>6. \/ UNCHANGED child \/ UNCHANGED vars
        \/ Stop \/ ReadNothing \/ Popen \/ \E r \in Readers : Exit(r)
    BY DEF Next, Daemon, Ready, AskDied, TextLimit, Leave, AskAgain, Fill, ReadLine, GoOn, Tick,
           Begin, Finish, CloseOut
  <2> QED
    BY <2>2, <2>3, <2>4, <2>5, <2>6
<1> QED
  BY CmdInductive, <1>1, PTL DEF Spec, NoOrphanNoZombie

(* A reader starts a command only when its own limit has passed since it was  *)
(* last started by whichever of the readers that have it, although their      *)
(* limits differ, refused attempts count and RateLimit looks at the clock     *)
(* twice; one whose limit is text starts nothing (cmdlines.py:25, 98-106,     *)
(* misc.py:59-76).                                                            *)
THEOREM RateRespectedAlways == Spec => RateRespected
<1> DEFINE A == \A r \in Readers :
                  child[r] # "running" /\ child'[r] = "running" =>
                    prlimit[r] # Text /\ now - started[Cmd[r]] >= prlimit[r]
<1>1. CmdIInv /\ [Next]_vars => [A]_vars
  <2> SUFFICES ASSUME CmdIInv, [Next]_vars PROVE A \/ UNCHANGED vars
    BY DEF vars
  <2>1. /\ child \in [Readers -> {"none", "running", "ended"}] /\ cur \in Readers
        /\ Cmd[cur] \in Readers /\ now \in Nat /\ prlimit \in [Readers -> Nat \cup {Text}]
        /\ limits \in [Readers -> 0 .. StartTime + MaxTime]
        /\ started \in [Readers -> 0 .. StartTime + MaxTime]
    BY CmdLinesAssumption DEF CmdIInv, TypeOK
  <2>2. CASE Popen
    <3>1. /\ prlimit[cur] # Text /\ now - limits[Cmd[cur]] >= prlimit[cur]
          /\ started[Cmd[cur]] <= limits[Cmd[cur]]
      BY <2>1, <2>2 DEF Popen, CmdIInv, Points, StartsCounted, LimitPassed, DtOk, Tag
    <3>2. prlimit[cur] \in Nat /\ limits[Cmd[cur]] \in Nat /\ started[Cmd[cur]] \in Nat
      BY <2>1, <3>1, CmdLinesAssumption
    <3>3. now - started[Cmd[cur]] >= prlimit[cur]
      BY <2>1, <3>1, <3>2
    <3>4. child' = child \/ child' = [child EXCEPT ![cur] = "running"]
      BY <2>2 DEF Popen
    <3> QED
      BY <2>1, <3>1, <3>3, <3>4
  <2>3. CASE \/ UNCHANGED child \/ Stop \/ ReadNothing \/ \E r \in Readers : Exit(r)
    <3>1. \A r \in Readers : child'[r] = "running" => child[r] = "running"
      BY <2>1, <2>3 DEF Stop, ReadNothing, Reap, Exit
    <3> QED
      BY <3>1
  <2>4. \/ UNCHANGED child \/ UNCHANGED vars
        \/ Stop \/ ReadNothing \/ Popen \/ \E r \in Readers : Exit(r)
    BY DEF Next, Daemon, Ready, AskDied, TextLimit, Leave, AskAgain, Fill, ReadLine, GoOn, Tick,
           Begin, Finish, CloseOut
  <2> QED
    BY <2>2, <2>3, <2>4
<1> QED
  BY CmdInductive, <1>1, PTL DEF Spec, RateRespected
==============================================================================
