------------------------------- MODULE Daemon --------------------------------
(***************************************************************************)
(* sslf/daemon.py: step() and loop(), one thread that flushes the queue of *)
(* every path and then lets every reader put events into the queues.       *)
(* Paths whose HEC has the same URL, token and sizes share a queue object  *)
(* (hec.py:42-64).  A queue is its number of events, and flush() what the  *)
(* modules Hec and DiskBackedQueue show of it: ok means that a queue in    *)
(* memory is empty, but of one with a disk behind it only that getz() gave *)
(* nothing, which it also does for an item that fits no batch.             *)
(***************************************************************************)
EXTENDS Integers, Sequences, FiniteSets

CONSTANTS Paths,        \* the configured paths, in the order of the dict
          Queue,
          QueueOf,      \* QueueOf[p]: pv.hec.q
          DiskBacked,   \* the queues with a disk_queue: DiskBackedQueue, not MemQueue
          Capacity,     \* events a queue takes before put() raises
          OneStep,      \* one_step
          MaxInput,     \* bound: MaxInput[p] lines are ever written for path p
          MaxFlushFails,\* bound: failed flushes per queue
          MaxRaises     \* bound: exceptions out of a flush or a reader

Path == {Paths[i] : i \in DOMAIN Paths}

ASSUME DaemonAssumption ==
  /\ Paths \in Seq(Path)
  /\ \A i, j \in DOMAIN Paths : Paths[i] = Paths[j] => i = j
  /\ QueueOf \in [Path -> Queue] /\ DiskBacked \subseteq {QueueOf[p] : p \in Path}
  /\ Capacity \in Nat \ {0} /\ OneStep \in BOOLEAN
  /\ MaxInput \in [Path -> Nat] /\ MaxFlushFails \in Nat /\ MaxRaises \in Nat

VARIABLES pc,          \* "top" of step, "flush" and "read" loops, "reading", "sleep", "exit", "dead"
          i,           \* position of the for loop over paths
          done,        \* queues step has looked after already
          unfinished,  \* step_unfinished
          late,        \* run_too_long
          rb,          \* pv['retry_backoff'] of each path: n, c
          cn,          \* events in each queue
          ready,       \* pv.reader.ready
          input,       \* lines the reader of each path has not read
          rejected     \* rejected_count of the running read

(* For the properties only, and the counters of the bounds *)
VARIABLES fed,         \* lines written so far to each path
          flushFails,  \* failed flushes of each queue
          raises,
          streak,      \* failed flushes of each queue since the last good one
          passed,      \* steps since then or the last attempt that found it not empty
          served       \* readers that gave at least one event in this step, or were empty

vars == <<pc, i, done, unfinished, late, rb, cn, ready, input, rejected, fed,
          flushFails, raises, streak, passed, served>>

readers == <<ready, input, fed>>
backoff == <<rb, streak, passed, flushFails>>
stepState == <<done, unfinished, late, rejected, served>>

Init ==
  /\ pc = "top" /\ i = 1 /\ done = {} /\ unfinished = FALSE /\ late = FALSE
  /\ rb = [p \in Path |-> [n |-> 0, c |-> 0]]
  \* Files of an earlier process are counted when the queue is made.
  /\ cn \in [Queue -> 0 .. Capacity] /\ \A q \in Queue \ DiskBacked : cn[q] = 0
  /\ ready = [p \in Path |-> FALSE] /\ input = [p \in Path |-> 0] /\ rejected = 0
  /\ fed = [p \in Path |-> 0] /\ flushFails = [q \in Queue |-> 0] /\ raises = 0
  /\ streak = [q \in Queue |-> 0] /\ passed = [q \in Queue |-> 0] /\ served = {}

P == Paths[i]
Q == QueueOf[P]

------------------------------------------------------------------------------
(* Outside: something is written that the reader of p can read. *)
Write(p) ==
  /\ fed[p] < MaxInput[p]
  /\ fed' = [fed EXCEPT ![p] = @ + 1]
  /\ input' = [input EXCEPT ![p] = @ + 1]
  /\ ready' = [ready EXCEPT ![p] = TRUE]
  /\ UNCHANGED <<pc, i, stepState, backoff, cn, raises>>

------------------------------------------------------------------------------
(* step(): the first loop. *)

(* Mutant: step_unfinished keeps its value from the last step. *)
StartStepStale ==
  /\ pc = "top"
  /\ pc' = "flush" /\ i' = 1
  /\ done' = {} /\ late' = FALSE /\ served' = {}
  /\ UNCHANGED <<unfinished, rejected, readers, backoff, cn, raises>>

StartStep ==
  /\ pc = "top"
  /\ pc' = "flush" /\ i' = 1
  /\ done' = {} /\ unfinished' = FALSE /\ late' = FALSE /\ served' = {}
  /\ UNCHANGED <<rejected, readers, backoff, cn, raises>>

InFlush == pc = "flush" /\ i <= Len(Paths)

NextPath == i' = i + 1 /\ UNCHANGED <<pc, late, rejected, served, readers, raises>>

NothingToFlush ==
  /\ InFlush
  /\ cn[Q] < 1 \/ Q \in done
  /\ NextPath
  /\ UNCHANGED <<done, unfinished, backoff, cn>>

LookAfter == InFlush /\ cn[Q] >= 1 /\ Q \notin done /\ done' = done \cup {Q} /\ unfinished' = TRUE

(* Mutant: skipped steps are not counted. *)
SkipFlushUncounted ==
  /\ LookAfter
  /\ rb[P].c < rb[P].n
  /\ NextPath
  /\ UNCHANGED <<backoff, cn>>

SkipFlush ==
  /\ LookAfter
  /\ rb[P].c < rb[P].n
  /\ rb' = [rb EXCEPT ![P].c = @ + 1]
  /\ passed' = [passed EXCEPT ![Q] = @ + 1]
  /\ NextPath
  /\ UNCHANGED <<cn, streak, flushFails>>

FlushDue == LookAfter /\ rb[P].c >= rb[P].n

(* What a good flush may leave: "if not payloadz: break". *)
MayStay(q) == IF q \in DiskBacked THEN 0 .. cn[q] ELSE {0}

FlushOk ==
  /\ FlushDue
  /\ \E left \in MayStay(Q) : cn' = [cn EXCEPT ![Q] = left]
  /\ rb' = [rb EXCEPT ![P] = [n |-> 0, c |-> 0]]
  /\ streak' = [streak EXCEPT ![Q] = 0] /\ passed' = [passed EXCEPT ![Q] = 0]
  /\ NextPath
  /\ UNCHANGED flushFails

(* Mutant: rb['c'] is not set back. *)
DoubledOnly(b) == [n |-> IF b.n > 0 THEN b.n * 2 ELSE 2, c |-> b.c]

Doubled(b) == [n |-> IF b.n > 0 THEN b.n * 2 ELSE 2, c |-> 0]

FlushFails ==
  /\ FlushDue
  /\ flushFails[Q] < MaxFlushFails
  /\ \E left \in 1 .. cn[Q] : cn' = [cn EXCEPT ![Q] = left]
  /\ rb' = [rb EXCEPT ![P] = Doubled(@)]
  /\ flushFails' = [flushFails EXCEPT ![Q] = @ + 1]
  /\ streak' = [streak EXCEPT ![Q] = @ + 1] /\ passed' = [passed EXCEPT ![Q] = 0]
  /\ NextPath

Dies == raises < MaxRaises /\ raises' = raises + 1 /\ pc' = "dead"

FlushRaises ==
  /\ FlushDue
  /\ Dies
  /\ UNCHANGED <<i, late, rejected, served, readers, backoff, cn>>

EndFlushes ==
  /\ pc = "flush" /\ i > Len(Paths)
  /\ pc' = "read" /\ i' = 1
  /\ UNCHANGED <<stepState, readers, backoff, cn, raises>>

------------------------------------------------------------------------------
(* step(): the second loop. *)

InRead == pc = "read" /\ i <= Len(Paths)

NotReady ==
  /\ InRead /\ ~ready[P]
  /\ i' = i + 1
  /\ served' = served \cup {P}
  /\ UNCHANGED <<pc, done, unfinished, late, rejected, readers, backoff, cn, raises>>

StartRead ==
  /\ InRead /\ ready[P]
  /\ pc' = "reading"
  /\ unfinished' = TRUE /\ rejected' = 0
  /\ UNCHANGED <<i, done, late, served, readers, backoff, cn, raises>>

(* Mutant: a queue that takes everything. *)
QueuedAlways == cn' = [cn EXCEPT ![Q] = @ + 1] /\ UNCHANGED rejected

(* What queue_event() makes of the event: queued, filtered (or an exception *)
(* that is logged), or rejected because the queue is full.                  *)
Queued == cn[Q] < Capacity /\ cn' = [cn EXCEPT ![Q] = @ + 1] /\ UNCHANGED rejected
Filtered == UNCHANGED <<cn, rejected>>
Rejected == cn[Q] >= Capacity /\ rejected' = rejected + 1 /\ UNCHANGED cn

(* Mutant: the break leaves both loops. *)
ReadOneAndOut ==
  /\ pc = "reading" /\ input[P] > 0
  /\ input' = [input EXCEPT ![P] = @ - 1]
  /\ served' = served \cup {P}
  /\ Queued \/ Filtered \/ Rejected
  /\ late' \in {late, TRUE}
  /\ IF late' \/ rejected' > 1
     THEN pc' = "read" /\ i' = Len(Paths) + 1 /\ UNCHANGED ready
     ELSE UNCHANGED <<pc, i, ready>>
  /\ UNCHANGED <<done, unfinished, fed, backoff, raises>>

(* The timer of the step may run out at any event, and stays run out. *)
ReadOne ==
  /\ pc = "reading" /\ input[P] > 0
  /\ input' = [input EXCEPT ![P] = @ - 1]
  /\ served' = served \cup {P}
  /\ Queued \/ Filtered \/ Rejected
  /\ late' \in {late, TRUE}
  /\ IF late' \/ rejected' > 1
     THEN /\ pc' = "read" /\ i' = i + 1
          \* A reader stopped before the end may say it is ready with nothing left.
          /\ \E r \in BOOLEAN : ready' = [ready EXCEPT ![P] = r \/ input'[P] > 0]
     ELSE UNCHANGED <<pc, i, ready>>
  /\ UNCHANGED <<done, unfinished, fed, backoff, raises>>

ReadEnd ==
  /\ pc = "reading" /\ input[P] = 0
  /\ pc' = "read" /\ i' = i + 1
  /\ ready' = [ready EXCEPT ![P] = FALSE]
  /\ served' = served \cup {P}
  /\ UNCHANGED <<done, unfinished, late, rejected, input, fed, backoff, cn, raises>>

(* A UnicodeDecodeError of a line, for instance: step() catches only what   *)
(* queue_event() raises.                                                    *)
ReadRaises ==
  /\ pc = "reading"
  /\ Dies
  /\ UNCHANGED <<i, stepState, readers, backoff, cn>>

------------------------------------------------------------------------------
(* loop(): "if not self.step(): if self.one_step: return", then sleep. *)

(* Mutant: one_step means one step. *)
EndStepAtOnce ==
  /\ pc = "read" /\ i > Len(Paths)
  /\ pc' = IF OneStep THEN "exit" ELSE "sleep"
  /\ UNCHANGED <<i, stepState, readers, backoff, cn, raises>>

EndStep ==
  /\ pc = "read" /\ i > Len(Paths)
  /\ pc' = IF ~unfinished /\ OneStep THEN "exit" ELSE "sleep"
  /\ UNCHANGED <<i, stepState, readers, backoff, cn, raises>>

WakeUp ==
  /\ pc = "sleep"
  /\ pc' = "top"
  /\ UNCHANGED <<i, stepState, readers, backoff, cn, raises>>

Step ==
  \/ StartStep \/ NothingToFlush \/ SkipFlush \/ FlushOk \/ FlushFails \/ FlushRaises
  \/ EndFlushes \/ NotReady \/ StartRead \/ ReadOne \/ ReadEnd \/ ReadRaises
  \/ EndStep \/ WakeUp

Next == Step \/ \E p \in Path : Write(p)

Spec == Init /\ [][Next]_vars

(* The thread runs while it has something to do. *)
LiveSpec == Spec /\ WF_vars(Step)

------------------------------------------------------------------------------
LoopOK ==
  /\ pc \in {"top", "flush", "read", "reading", "sleep", "exit", "dead"}
  /\ i \in 1 .. Len(Paths) + 1
  /\ done \subseteq Queue /\ served \subseteq Path
  /\ rejected \in 0 .. 2 /\ raises \in 0 .. MaxRaises

FlagsOK ==
  unfinished \in BOOLEAN /\ late \in BOOLEAN /\ ready \in [Path -> BOOLEAN]

ReadersOK ==
  /\ input \in [Path -> Nat] /\ fed \in [Path -> Nat]
  /\ \A p \in Path : input[p] <= fed[p] /\ fed[p] <= MaxInput[p]

QueuesOK ==
  /\ cn \in [Queue -> 0 .. Capacity]
  /\ rb \in [Path -> [n : Nat, c : Nat]]
  /\ flushFails \in [Queue -> 0 .. MaxFlushFails] /\ streak \in [Queue -> 0 .. MaxFlushFails]
  /\ passed \in [Queue -> Nat]

(* Type correctness of the loop's variables, of the readers and the queues. *)
TypeOK == LoopOK /\ FlagsOK /\ ReadersOK /\ QueuesOK

(* one_step returns only when every queue is empty, although the two loops   *)
(* look at queues and readers at different moments (daemon.py:364-437).      *)
ExitDrained == pc = "exit" => \A q \in Queue : cn[q] = 0

(* "each reader can emit at least one item per loop" (daemon.py:418-419):    *)
(* neither the step timer nor a full queue, set off by one reader, keeps     *)
(* another reader from its turn.                                             *)
EveryReaderServed == pc \in {"sleep", "exit"} => served = Path

TriedInTime ==
  (pc = "flush" /\ pc' = "flush" /\ i <= Len(Paths) /\ Q \in done' \ done /\ passed'[Q] = 0)
  => passed[Q] = (IF streak[Q] = 0 THEN 0 ELSE 2 ^ streak[Q])

(* "rb.n is the number of steps we should skip flush for this queue"         *)
(* (daemon.py:383-384): after the k-th failure in a row the queue is passed  *)
(* over exactly 2^k times before it is tried again, whichever paths share it *)
(* and although the counters belong to a path.                               *)
BackoffExact == [][TriedInTime]_vars

(* Liveness: events in a queue in memory are sent when the collector stops   *)
(* failing, at the latest when the last backoff is over, also next to a      *)
(* queue whose disk never empties (daemon.py:371-398).                       *)
QueuesDrain == \A q \in Queue \ DiskBacked : cn[q] > 0 ~> (cn[q] = 0 \/ pc = "dead")

(* Liveness: with one_step the daemon ends once nothing more is written and  *)
(* flushes succeed, or else because of an event that stays in a queue with a *)
(* disk, which flush() is content with and step() is not (daemon.py:371-378, *)
(* 431-437, hec.py:296-297).                                                 *)
OneStepEnds ==
  OneStep => \/ <>(pc \in {"exit", "dead"})
             \/ \E q \in DiskBacked : <>[](cn[q] > 0)
==============================================================================
