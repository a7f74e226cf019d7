------------------------------ MODULE FileLines ------------------------------
(***************************************************************************)
(* sslf/reader/filelines.py and sslf/meta.py: a reader that follows a file *)
(* by path, next to the program that writes, truncates and replaces the    *)
(* file.  It writes a line at once or in pieces, numbered in the order they *)
(* are written, and any two may have the same text.  A size, a position    *)
(* and a signature count pieces.                                           *)
(***************************************************************************)
EXTENDS Integers, Sequences, FiniteSets

CONSTANTS Text,        \* the text of each piece
          SBytes,      \* signature_bytes
          Racing,      \* TRUE if the file may be replaced while it is read
          Half,        \* texts without a newline: the next one goes on with the line
          Undated,     \* texts for which rlep_line raises: a time that is no date
          MaxLines,    \* bound: pieces that are ever written
          MaxReplaced, \* bound: truncations, removals and new files
          MaxTime,     \* bound: different mtimes
          MaxKills     \* bound: deaths of the process

ASSUME FileLinesAssumption ==
  /\ DOMAIN Text = 1 .. MaxLines /\ SBytes \in Nat \ {0} /\ Racing \in BOOLEAN
  /\ MaxLines \in Nat /\ MaxReplaced \in Nat /\ MaxTime \in Nat \ {0} /\ MaxKills \in Nat

VARIABLES file, exists, mt,    \* what is at the path: lines, whether it is there, st_mtime
          written, replaced,   \* counters of the bounds
          pos,                 \* self.tell, self.size, self.mtime, self.sig
          pc,                  \* "idle", "open", "reading", "closing" (the finally), "raising"
                             \* (the finally of an exception), "down"
          fd, old,             \* the open file: "none", what is at the path, or an older one
          reachedEnd,          \* reached_end
          meta,                \* what load() makes of the file MetaData.save wrote
          kills

(* For the properties only *)
VARIABLES emitted,             \* how often each piece was read; an undated one is not
                               \* yielded
          taken                \* first pieces of the file that a check took for read ones

vars == <<file, exists, mt, written, replaced, pos, pc, fd, old, reachedEnd,
          meta, kills, emitted, taken>>

writer == <<file, exists, mt, written, replaced>>
opened == <<fd, old>>
history == <<emitted, taken>>

Line == 1 .. MaxLines

(* _reset(); also what load() leaves if there is no meta file or it is not  *)
(* JSON.                                                                    *)
Start == [tell |-> 0, size |-> 0, mtime |-> 0, sig |-> <<>>]

Content == IF fd = "old" THEN old ELSE file

Smaller(a, b) == IF a < b THEN a ELSE b

(* gen_sig: the first n pieces, of which the program keeps an md5 of their   *)
(* text and its length.                                                      *)
Prefix(s, n) == SubSeq(s, 1, Smaller(n, Len(s)))
Texts(s) == [k \in DOMAIN s |-> Text[s[k]]]

Init ==
  /\ file = <<>> /\ exists = TRUE /\ mt = 1 /\ written = 0 /\ replaced = 0
  /\ pos = Start /\ pc = "idle" /\ fd = "none" /\ old = <<>> /\ reachedEnd = FALSE
  /\ meta = Start /\ kills = 0
  /\ emitted = [l \in Line |-> 0] /\ taken = 0

------------------------------------------------------------------------------
(* The program that writes the file; two changes may share an mtime. *)

Touched == mt' \in mt .. Smaller(mt + 1, MaxTime)

Write ==
  /\ exists /\ written < MaxLines
  /\ written' = written + 1
  /\ file' = Append(file, written + 1)
  /\ Touched
  /\ UNCHANGED <<exists, replaced, pos, pc, opened, reachedEnd, meta, kills, history>>

Replace ==
  /\ replaced < MaxReplaced /\ replaced' = replaced + 1 /\ taken' = 0
  /\ Racing \/ pc \in {"idle", "down"}
  /\ UNCHANGED <<written, pos, pc, reachedEnd, meta, kills, emitted>>

Truncate == Replace /\ exists /\ file' = <<>> /\ Touched /\ UNCHANGED <<exists, opened>>

(* rename or unlink: who has it open goes on reading the old one. *)
Remove ==
  /\ Replace
  /\ exists /\ exists' = FALSE
  /\ file' = <<>>
  /\ fd' = IF fd = "path" THEN "old" ELSE fd
  /\ old' = IF fd = "path" THEN file ELSE old
  /\ UNCHANGED mt

Create == Replace /\ ~exists /\ exists' = TRUE /\ Touched /\ UNCHANGED <<file, opened>>

------------------------------------------------------------------------------
(* trunc_check(): stat() resets when there is no file. *)

Shrunk(p) == mt > p.mtime /\ Len(file) < p.size
Changed(p) == Texts(Prefix(file, Len(p.sig))) # Texts(p.sig)

(* Mutant: no signature. *)
CheckedBySize(p) == IF ~exists \/ Shrunk(p) THEN Start ELSE p

(* The signature stays, whichever pieces its text is now that of. *)
Resumed(p) == [p EXCEPT !.sig = Prefix(file, Len(p.sig))]
Checked(p) == IF ~exists \/ Shrunk(p) \/ Changed(p) THEN Start ELSE Resumed(p)

(* For the properties: the file is not the one that was signed, but begins   *)
(* with the same text, and what it has before the old position counts as     *)
(* read.                                                                     *)
Mistaken(p) ==
  exists /\ ~Shrunk(p) /\ ~Changed(p) /\ Prefix(file, Len(p.sig)) # p.sig
Taken(p) == IF Mistaken(p) /\ p.tell > taken THEN p.tell ELSE taken

Grown(p) == Len(file) > 0 /\ Len(file) > p.size /\ mt >= p.mtime

(* ready, and the daemon reads at once if it is. *)
Ready ==
  /\ pc = "idle"
  /\ pos' = Checked(pos) /\ taken' = Taken(pos)
  /\ pc' = IF Grown(pos') THEN "open" ELSE "idle"
  /\ UNCHANGED <<writer, opened, reachedEnd, meta, kills, emitted>>

Open ==
  /\ pc = "open"
  /\ IF exists THEN fd' = "path" /\ pc' = "reading" ELSE fd' = "none" /\ pc' = "closing"
  /\ reachedEnd' = FALSE
  /\ UNCHANGED <<writer, pos, old, meta, kills, history>>

(* readline() gives what is there of the last line. *)
LineEnd(s, t) ==
  CHOOSE n \in t + 1 .. Len(s) :
    /\ n = Len(s) \/ Text[s[n]] \notin Half
    /\ \A k \in t + 1 .. n - 1 : Text[s[k]] \in Half

(* A line is yielded; the daemon goes on or closes the generator.  Nothing *)
(* catches what rlep_line raises.                                          *)
ReadLine ==
  /\ pc = "reading"
  /\ pos.tell < Len(Content)
  /\ pos' = [pos EXCEPT !.tell = LineEnd(Content, @)]
  /\ LET line == {Content[k] : k \in pos.tell + 1 .. pos'.tell}
     IN /\ emitted' = [l \in Line |-> emitted[l] + IF l \in line THEN 1 ELSE 0]
        /\ pc' \in IF \E l \in line : Text[l] \in Undated THEN {"raising"}
                  ELSE {"reading", "closing"}
  /\ UNCHANGED <<writer, opened, reachedEnd, meta, kills, taken>>

ReadEnd ==
  /\ pc = "reading"
  /\ pos.tell >= Len(Content)
  /\ reachedEnd' = TRUE
  /\ pc' = "closing"
  /\ UNCHANGED <<writer, pos, opened, meta, kills, history>>

(* _save_stat() looks at the path again, not at the file that was read. *)
Resigned(p) ==
  IF Len(file) > Len(p.sig) /\ Len(p.sig) < SBytes
  THEN [p EXCEPT !.sig = Prefix(file, SBytes)] ELSE p

(* Mutants: pretend_new is -1; there is none; it also forgets the position. *)
SavedAsUnknown(p) ==
  IF ~exists THEN Start
  ELSE Resigned([p EXCEPT !.mtime = IF reachedEnd THEN mt ELSE -1,
                          !.size = IF reachedEnd THEN Len(file) ELSE -1])

SavedAsRead(p) ==
  IF ~exists THEN Start ELSE Resigned([p EXCEPT !.mtime = mt, !.size = Len(file)])

SavedAsNew(p) ==
  IF ~exists THEN Start
  ELSE IF reachedEnd THEN Resigned([p EXCEPT !.mtime = mt, !.size = Len(file)])
  ELSE Resigned(Start)

Saved(p) ==
  IF ~exists THEN Start
  ELSE Resigned([p EXCEPT !.mtime = IF reachedEnd THEN mt ELSE 0,
                          !.size = IF reachedEnd THEN Len(file) ELSE 0])

Close == fd' = "none" /\ old' = <<>>

Save ==
  /\ pc \in {"closing", "raising"}
  /\ meta' = Saved(pos)
  /\ IF pc = "closing" THEN pos' = meta' /\ pc' = "idle" ELSE pos' = Start /\ pc' = "down"
  /\ Close
  /\ UNCHANGED <<writer, reachedEnd, kills, history>>

------------------------------------------------------------------------------
(* The process: open(..., 'w') empties the meta file before it is written. *)

Dies ==
  /\ kills < MaxKills /\ kills' = kills + 1
  /\ pc' = "down" /\ pos' = Start /\ reachedEnd' = FALSE
  /\ Close
  /\ UNCHANGED <<writer, history>>

Kill == pc # "down" /\ Dies /\ UNCHANGED meta

KillInSave == pc \in {"closing", "raising"} /\ Dies /\ meta' = Start

(* __init__: load() and trunc_check(). *)
Restart ==
  /\ pc = "down"
  /\ pos' = Checked(meta) /\ taken' = Taken(meta)
  /\ pc' = "idle"
  /\ UNCHANGED <<writer, opened, reachedEnd, meta, kills, emitted>>

Reader == Ready \/ Open \/ ReadLine \/ ReadEnd \/ Save \/ Restart

Next == Reader \/ Write \/ Truncate \/ Remove \/ Create \/ Kill \/ KillInSave

Spec == Init /\ [][Next]_vars

(* The daemon asks every reader in every step and reads those that are ready. *)
LiveSpec == Spec /\ WF_vars(Reader)

------------------------------------------------------------------------------
Position == [tell : 0 .. MaxLines, size : 0 .. MaxLines, mtime : 0 .. MaxTime, sig : Seq(Line)]

(* Type correctness of the reader, its meta file and what it follows. *)
TypeOK ==
  /\ file \in Seq(Line) /\ old \in Seq(Line) /\ exists \in BOOLEAN
  /\ mt \in 1 .. MaxTime /\ written \in 0 .. MaxLines /\ replaced \in 0 .. MaxReplaced
  /\ pos \in Position /\ meta \in Position
  /\ pc \in {"idle", "open", "reading", "closing", "raising", "down"}
  /\ fd \in {"none", "path", "old"} /\ reachedEnd \in BOOLEAN
  /\ kills \in 0 .. MaxKills /\ emitted \in [Line -> Nat] /\ taken \in 0 .. MaxLines

(* Wherever the reader is about to go on, the lines before that place have   *)
(* been read: truncations, new files, early stops and restarts from an older *)
(* or unreadable meta file make it skip a line in one case only.  A file     *)
(* that was replaced, begins with the text of the one before as far as that  *)
(* was signed, and is not seen to be smaller, is taken for it, and what      *)
(* comes before the old position is not read; nothing else is skipped, then  *)
(* or later (filelines.py:57-87, 112-159).  t/test_file_lines.py:23-26 is a  *)
(* case that is recognised: the line written after a truncation is read.     *)
(* One that is read while it is half written becomes two events, and nothing *)
(* of it is missing in them.                                                 *)
NoSkip ==
  pc = "idle" =>
    \A k \in Taken(pos) + 1 .. Smaller(Checked(pos).tell, Len(file)) : emitted[file[k]] > 0

(* A piece is read again only because the process was killed: neither a       *)
(* reset, nor an early stop that pretends the file is new                    *)
(* (filelines.py:116-118), nor two changes with one mtime repeats it, nor    *)
(* does a line that ends the process end it again after the restart.         *)
NoRepeat == \A l \in Line : emitted[l] <= 1 + kills

Unread(l) == \E k \in DOMAIN file : file[k] = l /\ k > taken /\ emitted[l] = 0

(* Liveness: a line that is there unread when the reader says it is ready is *)
(* read, or its file is replaced, however often the daemon stops the read    *)
(* early or is killed in it (filelines.py:116-118, 130-159), but for those   *)
(* that NoSkip speaks of.  It may be unread and the reader not ready: save() *)
(* counts what was written after the end was found as read, until the next   *)
(* line comes.                                                               *)
UnreadIsRead ==
  \A l \in Line :
    (pc = "idle" /\ Grown(Checked(pos)) /\ Unread(l)) ~> ~Unread(l)
==============================================================================
