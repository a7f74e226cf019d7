----------------------------- MODULE DaemonProofs -----------------------------
(***************************************************************************)
(* The invariants of step() and loop() for every number of paths, every    *)
(* sharing of queues among them, and all bounds.                           *)
(***************************************************************************)
EXTENDS Daemon, FiniteSetTheorems, TLAPS

------------------------------------------------------------------------------
(* What TypeOK needs to be inductive: the loop that reads is at a path, its *)
(* counter of rejects has not ended it, and a streak of failures is made of *)
(* failures.                                                                *)
ReadingOne == pc = "reading" => i <= Len(Paths) /\ rejected <= 1

StreaksCounted == \A q \in Queue : streak[q] <= flushFails[q]

(* What EveryReaderServed needs: the second loop has served every path it   *)
(* has passed.                                                               *)
ServedSoFar ==
  /\ pc \in {"read", "reading"} => \A k \in 1 .. i - 1 : Paths[k] \in served
  /\ EveryReaderServed

(* What ExitDrained needs.  A queue that no path has stays empty; as long as *)
(* unfinished is FALSE, the first loop has found every queue it passed empty *)
(* and has looked after none, and the second loop has put nothing in.        *)
Drained(n) == \A k \in 1 .. n : cn[QueueOf[Paths[k]]] = 0

DrainedSoFar ==
  /\ \A q \in Queue : (\A p \in Path : QueueOf[p] # q) => cn[q] = 0
  /\ pc = "flush" /\ ~unfinished => done = {} /\ Drained(i - 1)
  /\ pc \in {"read", "sleep", "exit"} /\ ~unfinished => Drained(Len(Paths))
  /\ pc = "reading" => unfinished
  /\ pc = "exit" => ~unfinished

DaemonIInv ==
  /\ TypeOK /\ ReadingOne /\ StreaksCounted
  /\ ServedSoFar
  /\ DrainedSoFar

(* What BackoffExact needs.  The first loop has looked after each queue it   *)
(* passed, or found it empty.  So it only ever looks after a queue at the    *)
(* first of the paths that share it, and the backoff counters of that path   *)
(* are those of the queue.                                                   *)
LookedAfter ==
  pc = "flush" =>
    \A k \in 1 .. i - 1 : cn[QueueOf[Paths[k]]] = 0 \/ QueueOf[Paths[k]] \in done

FirstOf(k) == \A m \in 1 .. k - 1 : QueueOf[Paths[m]] # QueueOf[Paths[k]]

ToSkip(q) == IF streak[q] = 0 THEN 0 ELSE 2 ^ streak[q]

BackoffOfFirst ==
  \A k \in 1 .. Len(Paths) :
    FirstOf(k) =>
      /\ rb[Paths[k]].n = ToSkip(QueueOf[Paths[k]])
      /\ rb[Paths[k]].c = passed[QueueOf[Paths[k]]]
      /\ passed[QueueOf[Paths[k]]] <= ToSkip(QueueOf[Paths[k]])

BackoffIInv == LookedAfter /\ BackoffOfFirst

------------------------------------------------------------------------------
LEMMA PathFacts ==
  /\ Len(Paths) \in Nat /\ DOMAIN Paths = 1 .. Len(Paths)
  /\ \A k \in 1 .. Len(Paths) : Paths[k] \in Path /\ QueueOf[Paths[k]] \in Queue
  /\ \A p \in Path : QueueOf[p] \in Queue /\ \E k \in 1 .. Len(Paths) : p = Paths[k]
BY DaemonAssumption DEF Path

LEMMA AtAPath ==
  ASSUME TypeOK, i <= Len(Paths)
  PROVE  P \in Path /\ Q \in Queue /\ i + 1 \in 1 .. Len(Paths) + 1
BY PathFacts DEF TypeOK, LoopOK, P, Q

(* Type correctness, a part at a time. *)
LEMMA FlagsStep == TypeOK /\ [Next]_vars => FlagsOK'
<1> SUFFICES ASSUME FlagsOK, [Next]_vars PROVE FlagsOK'
  BY DEF TypeOK
<1> USE DEF FlagsOK
<1>1. ASSUME NEW p \in Path, Write(p) PROVE FlagsOK'
  BY <1>1, Zenon DEF Write, stepState
<1>2. CASE UNCHANGED vars
  BY <1>2, Zenon DEF vars
<1>3. CASE StartStep \/ NothingToFlush \/ SkipFlush \/ FlushOk \/ FlushFails \/ FlushRaises
  BY <1>3, Zenon DEF StartStep, NothingToFlush, SkipFlush, FlushOk, FlushFails, FlushRaises,
     FlushDue, LookAfter, NextPath, readers
<1>4. CASE EndFlushes \/ NotReady \/ StartRead \/ ReadRaises \/ EndStep \/ WakeUp
  BY <1>4, Zenon DEF EndFlushes, NotReady, StartRead, ReadRaises, EndStep, WakeUp, stepState,
     readers
<1>5. CASE ReadOne \/ ReadEnd
  BY <1>5, Zenon DEF ReadOne, ReadEnd
<1> QED
  BY <1>1, <1>2, <1>3, <1>4, <1>5, Zenon DEF Next, Step

LEMMA LoopStep == TypeOK /\ ReadingOne /\ [Next]_vars => LoopOK' /\ ReadingOne'
<1> SUFFICES ASSUME TypeOK, ReadingOne, [Next]_vars PROVE LoopOK' /\ ReadingOne'
  OBVIOUS
<1>a. LoopOK /\ Len(Paths) \in Nat /\ MaxRaises \in Nat
  BY PathFacts, DaemonAssumption DEF TypeOK
<1> USE DEF LoopOK, ReadingOne
<1>1. ASSUME NEW p \in Path, Write(p) PROVE LoopOK' /\ ReadingOne'
  BY <1>a, <1>1 DEF Write, stepState
<1>2. CASE UNCHANGED vars
  BY <1>a, <1>2 DEF vars
<1>3. CASE StartStep \/ EndFlushes \/ EndStep \/ WakeUp
  BY <1>a, <1>3 DEF StartStep, EndFlushes, EndStep, WakeUp, stepState
<1>4. CASE NothingToFlush
  BY <1>a, <1>4 DEF NothingToFlush, InFlush, NextPath
<1>5. CASE SkipFlush \/ FlushOk \/ FlushFails
  <2>1. /\ InFlush /\ NextPath /\ done' = done \cup {Q}
    BY <1>5 DEF SkipFlush, FlushOk, FlushFails, FlushDue, LookAfter
  <2> QED
    BY <1>a, <2>1, AtAPath DEF InFlush, NextPath
<1>6. CASE FlushRaises
  BY <1>a, <1>6, AtAPath DEF FlushRaises, FlushDue, LookAfter, InFlush, Dies
<1>7. CASE NotReady \/ StartRead
  BY <1>a, <1>7, AtAPath DEF NotReady, StartRead, InRead
<1>8. CASE ReadOne
  BY <1>a, <1>8, AtAPath DEF ReadOne, Queued, Filtered, Rejected
<1>9. CASE ReadEnd
  BY <1>a, <1>9, AtAPath DEF ReadEnd
<1>10. CASE ReadRaises
  BY <1>a, <1>10 DEF ReadRaises, Dies, stepState
<1> QED
  BY <1>1, <1>2, <1>3, <1>4, <1>5, <1>6, <1>7, <1>8, <1>9, <1>10 DEF Next, Step

LEMMA ReadersStep == TypeOK /\ ReadingOne /\ [Next]_vars => ReadersOK'
<1> SUFFICES ASSUME TypeOK, ReadingOne, [Next]_vars PROVE ReadersOK'
  OBVIOUS
<1>a. ReadersOK /\ MaxInput \in [Path -> Nat]
  BY DaemonAssumption DEF TypeOK
<1> USE DEF ReadersOK
<1>1. ASSUME NEW p \in Path, Write(p) PROVE ReadersOK'
  <2>1. input' \in [Path -> Nat] /\ fed' \in [Path -> Nat]
    BY <1>a, <1>1 DEF Write
  <2>2. ASSUME NEW r \in Path PROVE input'[r] <= fed'[r] /\ fed'[r] <= MaxInput[r]
    BY <1>a, <1>1 DEF Write
  <2> QED
    BY <2>1, <2>2
<1>2. CASE UNCHANGED <<input, fed>>
  BY <1>a, <1>2
<1>3. CASE ReadOne
  <2>1. P \in Path /\ input[P] \in Nat \ {0} /\ fed' = fed /\ input' = [input EXCEPT ![P] = @ - 1]
    BY <1>a, <1>3, AtAPath DEF ReadOne, ReadingOne
  <2>2. input' \in [Path -> Nat]
    BY <1>a, <2>1
  <2>3. ASSUME NEW r \in Path PROVE input'[r] <= fed'[r] /\ fed'[r] <= MaxInput[r]
    BY <1>a, <2>1
  <2> QED
    BY <1>a, <2>1, <2>2, <2>3
<1>4. \/ UNCHANGED <<input, fed>> \/ ReadOne \/ \E p \in Path : Write(p)
  BY DEF Next, Step, vars, readers, NextPath, StartStep, NothingToFlush, SkipFlush, FlushOk,
     FlushFails, FlushRaises, EndFlushes, NotReady, StartRead, ReadEnd, ReadRaises, EndStep, WakeUp
<1> QED
  BY <1>1, <1>2, <1>3, <1>4

LEMMA QueuesStep ==
  TypeOK /\ StreaksCounted /\ [Next]_vars => QueuesOK' /\ StreaksCounted'
<1> SUFFICES ASSUME TypeOK, StreaksCounted, [Next]_vars PROVE QueuesOK' /\ StreaksCounted'
  OBVIOUS
<1>a. QueuesOK /\ Capacity \in Nat /\ MaxFlushFails \in Nat
  BY DaemonAssumption DEF TypeOK
<1> USE DEF QueuesOK, StreaksCounted
<1>1. CASE UNCHANGED <<cn, backoff>>
  BY <1>a, <1>1 DEF backoff
<1>2. CASE SkipFlush
  <2>1. P \in Path /\ Q \in Queue /\ UNCHANGED <<cn, streak, flushFails>>
    BY <1>2, AtAPath DEF SkipFlush, LookAfter, InFlush
  <2>2. [rb[P] EXCEPT !.c = @ + 1] \in [n : Nat, c : Nat]
    BY <1>a, <2>1
  <2>3. rb' \in [Path -> [n : Nat, c : Nat]] /\ passed' \in [Queue -> Nat]
    BY <1>a, <1>2, <2>1, <2>2 DEF SkipFlush
  <2> QED
    BY <1>a, <2>1, <2>3
<1>3. CASE FlushOk
  <2>1. P \in Path /\ Q \in Queue
    BY <1>3, AtAPath DEF FlushOk, FlushDue, LookAfter, InFlush
  <2>2. PICK left \in 0 .. cn[Q] : cn' = [cn EXCEPT ![Q] = left]
    <3>1. cn[Q] \in Nat
      BY <1>a, <2>1
    <3>2. MayStay(Q) \subseteq 0 .. cn[Q]
      BY <3>1 DEF MayStay
    <3>3. \E left \in MayStay(Q) : cn' = [cn EXCEPT ![Q] = left]
      BY <1>3 DEF FlushOk
    <3> QED
      BY <3>2, <3>3
  <2>3. cn' \in [Queue -> 0 .. Capacity]
    BY <1>a, <2>1, <2>2
  <2>4. /\ rb' = [rb EXCEPT ![P] = [n |-> 0, c |-> 0]] /\ flushFails' = flushFails
        /\ streak' = [streak EXCEPT ![Q] = 0] /\ passed' = [passed EXCEPT ![Q] = 0]
    BY <1>3 DEF FlushOk
  <2>5. rb' \in [Path -> [n : Nat, c : Nat]]
    BY <1>a, <2>1, <2>4
  <2>6. streak' \in [Queue -> 0 .. MaxFlushFails] /\ passed' \in [Queue -> Nat]
    BY <1>a, <2>1, <2>4
  <2>7. \A q \in Queue : streak'[q] <= flushFails'[q]
    BY <1>a, <2>1, <2>4
  <2> QED
    BY <1>a, <2>3, <2>4, <2>5, <2>6, <2>7
<1>4. CASE FlushFails
  <2>1. P \in Path /\ Q \in Queue
    BY <1>4, AtAPath DEF FlushFails, FlushDue, LookAfter, InFlush
  <2>2. PICK left \in 1 .. cn[Q] : cn' = [cn EXCEPT ![Q] = left]
    BY <1>4 DEF FlushFails
  <2>3. cn' \in [Queue -> 0 .. Capacity] /\ passed' \in [Queue -> Nat]
    BY <1>a, <1>4, <2>1, <2>2 DEF FlushFails
  <2>4. rb' \in [Path -> [n : Nat, c : Nat]]
    <3>1. Doubled(rb[P]) \in [n : Nat, c : Nat]
      BY <1>a, <2>1 DEF Doubled
    <3> QED
      BY <1>a, <1>4, <2>1, <3>1 DEF FlushFails
  <2>5. /\ flushFails' \in [Queue -> 0 .. MaxFlushFails]
        /\ streak' \in [Queue -> Nat] /\ \A q \in Queue : streak'[q] <= flushFails'[q]
    BY <1>a, <1>4, <2>1 DEF FlushFails
  <2>6. streak' \in [Queue -> 0 .. MaxFlushFails]
    BY <1>a, <2>5
  <2> QED
    BY <2>3, <2>4, <2>5, <2>6
<1>5. CASE ReadOne
  <2>1. UNCHANGED <<rb, flushFails, streak, passed>> /\ (Queued \/ UNCHANGED cn)
    BY <1>5 DEF ReadOne, Filtered, Rejected, backoff
  <2> QED
    BY <1>a, <2>1 DEF Queued
<1>6. \/ UNCHANGED <<cn, backoff>> \/ SkipFlush \/ FlushOk \/ FlushFails \/ ReadOne
  BY DEF Next, Step, vars, backoff, Write, StartStep, NothingToFlush, FlushRaises, EndFlushes,
     NotReady, StartRead, ReadEnd, ReadRaises, EndStep, WakeUp
<1> QED
  BY <1>1, <1>2, <1>3, <1>4, <1>5, <1>6

------------------------------------------------------------------------------
LEMMA ServedStep == TypeOK /\ ReadingOne /\ ServedSoFar /\ [Next]_vars => ServedSoFar'
<1> SUFFICES ASSUME TypeOK, ReadingOne, ServedSoFar, [Next]_vars PROVE ServedSoFar'
  OBVIOUS
<1>a. LoopOK /\ Len(Paths) \in Nat
  BY PathFacts DEF TypeOK
<1> USE DEF ServedSoFar, EveryReaderServed
<1>1. CASE UNCHANGED <<pc, i, served>>
  BY <1>1
<1>2. CASE StartStep \/ EndFlushes
  BY <1>2 DEF StartStep, EndFlushes, stepState
<1>3. CASE NothingToFlush \/ SkipFlush \/ FlushOk \/ FlushFails \/ FlushRaises
  <2>1. pc' \in {"flush", "dead"}
    BY <1>3 DEF NothingToFlush, SkipFlush, FlushOk, FlushFails, FlushRaises, FlushDue,
       LookAfter, InFlush, NextPath, Dies
  <2> QED
    BY <2>1
<1>4. CASE NotReady \/ ReadEnd \/ ReadOne
  \* The loop stays where it is, or goes one path further; the path is served.
  <2>1. /\ pc \in {"read", "reading"} /\ i \in Nat /\ served' = served \cup {P}
        /\ (i' = i \/ i' = i + 1) /\ pc' \in {"read", "reading"}
    <3>1. i \in Nat
      BY <1>a DEF LoopOK
    <3>2. CASE NotReady \/ ReadEnd
      BY <3>1, <3>2 DEF NotReady, ReadEnd, InRead
    <3>3. CASE ReadOne
      <4>1. (pc' = "read" /\ i' = i + 1) \/ UNCHANGED <<pc, i>>
        BY <3>3, Zenon DEF ReadOne
      <4> QED
        BY <3>1, <3>3, <4>1 DEF ReadOne
    <3> QED
      BY <1>4, <3>2, <3>3
  <2>2. ASSUME NEW k \in 1 .. i' - 1 PROVE Paths[k] \in served'
    <3>1. k \in 1 .. i - 1 \/ k = i
      BY <2>1
    <3> QED
      BY <2>1, <3>1 DEF P
  <2> QED
    BY <2>1, <2>2
<1>5. CASE StartRead
  BY <1>5 DEF StartRead, InRead
<1>6. CASE EndStep
  <2>1. \A k \in 1 .. Len(Paths) : Paths[k] \in served
    BY <1>a, <1>6 DEF EndStep, LoopOK
  <2>2. served = Path
    BY <1>a, <2>1, PathFacts DEF LoopOK
  <2> QED
    BY <1>6, <2>2 DEF EndStep, stepState
<1>7. CASE WakeUp \/ ReadRaises
  BY <1>7 DEF WakeUp, ReadRaises, Dies
<1>8. ASSUME NEW p \in Path, Write(p) PROVE ServedSoFar'
  BY <1>8 DEF Write, stepState
<1> QED
  BY <1>1, <1>2, <1>3, <1>4, <1>5, <1>6, <1>7, <1>8 DEF Next, Step, vars

LEMMA DrainedStep == TypeOK /\ ReadingOne /\ DrainedSoFar /\ [Next]_vars => DrainedSoFar'
<1> SUFFICES ASSUME TypeOK, ReadingOne, DrainedSoFar, [Next]_vars PROVE DrainedSoFar'
  OBVIOUS
<1>a. LoopOK /\ QueuesOK /\ Len(Paths) \in Nat
  BY PathFacts DEF TypeOK
<1> USE DEF DrainedSoFar, Drained
<1>1. CASE UNCHANGED <<pc, i, done, unfinished, cn>>
  BY <1>1
<1>2. CASE StartStep
  BY <1>2 DEF StartStep, backoff
<1>3. CASE NothingToFlush
  <2>1. InFlush /\ i' = i + 1 /\ i \in Nat /\ UNCHANGED <<pc, done, unfinished, cn>>
    BY <1>a, <1>3 DEF NothingToFlush, NextPath, LoopOK
  <2>2. ~unfinished => cn[Q] = 0
    BY <1>a, <1>3, <2>1, AtAPath DEF NothingToFlush, InFlush, QueuesOK
  <2> QED
    BY <2>1, <2>2 DEF Q, P, InFlush
<1>4. CASE SkipFlush \/ FlushOk \/ FlushFails \/ FlushRaises
  <2>1. unfinished' = TRUE /\ pc' \in {"flush", "dead"} /\ P \in Path
    BY <1>4, AtAPath DEF SkipFlush, FlushOk, FlushFails, FlushRaises, FlushDue, LookAfter, InFlush,
       NextPath, Dies
  <2>2. \A q \in Queue \ {Q} : cn'[q] = cn[q]
    BY <1>a, <1>4 DEF SkipFlush, FlushOk, FlushFails, FlushRaises, QueuesOK
  <2> QED
    BY <2>1, <2>2 DEF Q
<1>5. CASE EndFlushes
  BY <1>a, <1>5 DEF EndFlushes, stepState, LoopOK
<1>6. CASE NotReady \/ ReadEnd \/ WakeUp \/ ReadRaises
  BY <1>6 DEF NotReady, ReadEnd, WakeUp, ReadRaises, InRead, stepState, Dies
<1>7. CASE StartRead
  BY <1>7 DEF StartRead
<1>8. CASE ReadOne
  <2>1. unfinished /\ UNCHANGED unfinished /\ P \in Path /\ pc' \in {"read", "reading"}
    BY <1>8, AtAPath DEF ReadOne, ReadingOne
  <2>2. \A q \in Queue \ {Q} : cn'[q] = cn[q]
    BY <1>a, <1>8 DEF ReadOne, Queued, Filtered, Rejected, QueuesOK
  <2> QED
    BY <2>1, <2>2 DEF Q
<1>9. CASE EndStep
  BY <1>9 DEF EndStep, stepState
<1>10. ASSUME NEW p \in Path, Write(p) PROVE DrainedSoFar'
  BY <1>10 DEF Write, stepState
<1> QED
  BY <1>1, <1>2, <1>3, <1>4, <1>5, <1>6, <1>7, <1>8, <1>9, <1>10 DEF Next, Step, vars

------------------------------------------------------------------------------
LEMMA DaemonInit == Init => DaemonIInv
<1> SUFFICES ASSUME Init PROVE DaemonIInv
  OBVIOUS
<1>a. Len(Paths) \in Nat /\ MaxRaises \in Nat /\ MaxFlushFails \in Nat /\ Capacity \in Nat
  BY PathFacts, DaemonAssumption
<1>b. \A p \in Path : MaxInput[p] \in Nat
  BY DaemonAssumption
<1>1. LoopOK /\ FlagsOK
  <2>1. LoopOK
    BY <1>a DEF Init, LoopOK
  <2> QED
    BY <2>1, Zenon DEF Init, FlagsOK
<1>2. ReadersOK
  BY <1>b DEF Init, ReadersOK
<1>3. QueuesOK /\ StreaksCounted
  BY <1>a DEF Init, QueuesOK, StreaksCounted
<1>4. ReadingOne /\ ServedSoFar /\ DrainedSoFar
  BY DaemonAssumption DEF Init, ReadingOne, ServedSoFar, EveryReaderServed, DrainedSoFar
<1> QED
  BY <1>1, <1>2, <1>3, <1>4 DEF DaemonIInv, TypeOK

LEMMA DaemonStep == DaemonIInv /\ [Next]_vars => DaemonIInv'
BY FlagsStep, LoopStep, ReadersStep, QueuesStep, ServedStep, DrainedStep DEF DaemonIInv, TypeOK

LEMMA DaemonInductive == Spec => []DaemonIInv
BY DaemonInit, DaemonStep, PTL DEF Spec

------------------------------------------------------------------------------
(* The library has powers of two as the number of subsets. *)
LEMMA NextPower == \A k \in Nat : 2 ^ k \in Nat \ {0} /\ 2 ^ (k + 1) = 2 * 2 ^ k
<1> SUFFICES ASSUME NEW k \in Nat PROVE 2 ^ k \in Nat \ {0} /\ 2 ^ (k + 1) = 2 * 2 ^ k
  OBVIOUS
<1> DEFINE Without == SUBSET (1 .. k)
           With == {U \in SUBSET (1 .. k + 1) : k + 1 \in U}
           f == [U \in Without |-> U \cup {k + 1}]
<1>1. /\ IsFiniteSet(1 .. k) /\ Cardinality(1 .. k) = k
      /\ IsFiniteSet(1 .. k + 1) /\ Cardinality(1 .. k + 1) = k + 1
  BY FS_Interval
<1>2. /\ IsFiniteSet(Without) /\ Cardinality(Without) = 2 ^ k
      /\ Cardinality(SUBSET (1 .. k + 1)) = 2 ^ (k + 1)
  BY <1>1, FS_SUBSET
<1>3. f \in Bijection(Without, With)
  <2>1. f \in [Without -> With]
    OBVIOUS
  <2>2. ASSUME NEW U \in Without, NEW V \in Without, f[U] = f[V] PROVE U = V
    BY <2>2
  <2>3. ASSUME NEW V \in With PROVE \E U \in Without : f[U] = V
    <3>1. V \ {k + 1} \in Without /\ f[V \ {k + 1}] = V
      OBVIOUS
    <3> QED
      BY <3>1
  <2> QED
    BY <2>1, <2>2, <2>3 DEF Bijection, Injection, Surjection, IsInjective
<1>4. IsFiniteSet(With) /\ Cardinality(With) = Cardinality(Without)
  BY <1>2, <1>3, FS_Bijection DEF ExistsBijection
<1>5. SUBSET (1 .. k + 1) = Without \cup With /\ Without \cap With = {}
  <2>1. ASSUME NEW U \in SUBSET (1 .. k + 1), k + 1 \notin U PROVE U \in Without
    BY <2>1
  <2> QED
    BY <2>1
<1> HIDE DEF Without, With, f
<1>6. Cardinality(Without) \in Nat \ {0}
  <2>1. {} \in Without
    BY DEF Without
  <2>2. Cardinality(Without) # 0
    BY <1>2, <2>1, FS_EmptySet
  <2> QED
    BY <1>2, <2>2, FS_CardinalityType
<1>7. Cardinality(Without \cap With) = 0
  BY <1>5, FS_EmptySet
<1>8. Cardinality(Without \cup With)
        = Cardinality(Without) + Cardinality(With) - Cardinality(Without \cap With)
  BY <1>2, <1>4, FS_Union
<1>9. Cardinality(SUBSET (1 .. k + 1)) = Cardinality(Without \cup With)
  BY <1>5, Zenon
<1> QED
  BY <1>2, <1>4, <1>6, <1>7, <1>8, <1>9

(* The loop's variables, the readers and the queues are well typed. *)
THEOREM DaemonTypeCorrect == Spec => []TypeOK
<1>1. DaemonIInv => TypeOK
  BY DEF DaemonIInv
<1> QED
  BY <1>1, DaemonInductive, PTL

(* Every reader has its turn in every step, however many there are, and     *)
(* whichever of them find their queue full or the step timer run out         *)
(* (daemon.py:401-429).                                                      *)
THEOREM EveryReaderServedAlways == Spec => []EveryReaderServed
<1>1. DaemonIInv => EveryReaderServed
  BY DEF DaemonIInv, ServedSoFar
<1> QED
  BY <1>1, DaemonInductive, PTL

(* one_step only ever returns with every queue empty (daemon.py:364-437). *)
THEOREM ExitDrainedAlways == Spec => []ExitDrained
<1>1. ASSUME DaemonIInv PROVE ExitDrained
  <2> SUFFICES ASSUME pc = "exit", NEW q \in Queue PROVE cn[q] = 0
    BY DEF ExitDrained
  <2>1. CASE \A p \in Path : QueueOf[p] # q
    BY <1>1, <2>1 DEF DaemonIInv, DrainedSoFar
  <2>2. CASE \E p \in Path : QueueOf[p] = q
    <3>1. PICK k \in 1 .. Len(Paths) : QueueOf[Paths[k]] = q
      BY <2>2, PathFacts
    <3> QED
      BY <1>1, <3>1 DEF DaemonIInv, DrainedSoFar, Drained
  <2> QED
    BY <2>1, <2>2
<1> QED
  BY <1>1, DaemonInductive, PTL

------------------------------------------------------------------------------
(* The path at which a queue is looked after is the first with that queue. *)
LEMMA LooksAtFirst ==
  ASSUME TypeOK, BackoffIInv, LookAfter
  PROVE  /\ i \in 1 .. Len(Paths) /\ P = Paths[i] /\ P \in Path /\ Q \in Queue
         /\ FirstOf(i)
         /\ rb[P].n = ToSkip(Q) /\ rb[P].c = passed[Q] /\ passed[Q] <= ToSkip(Q)
         /\ \A k \in 1 .. Len(Paths) :
               k # i /\ FirstOf(k) => Paths[k] # P /\ QueueOf[Paths[k]] # Q
<1>1. /\ i \in 1 .. Len(Paths) /\ P = Paths[i] /\ P \in Path /\ Q \in Queue
      /\ pc = "flush" /\ cn[Q] >= 1 /\ Q \notin done
  BY AtAPath, PathFacts DEF TypeOK, LoopOK, LookAfter, InFlush, P
<1>2. FirstOf(i)
  BY <1>1 DEF BackoffIInv, LookedAfter, FirstOf, Q
<1>3. ASSUME NEW k \in 1 .. Len(Paths), k # i, FirstOf(k)
      PROVE  Paths[k] # P /\ QueueOf[Paths[k]] # Q
  <2>1. QueueOf[Paths[k]] # Q
    BY <1>1, <1>2, <1>3, PathFacts DEF FirstOf, Q
  <2> QED
    BY <2>1 DEF Q
<1> QED
  BY <1>1, <1>2, <1>3 DEF BackoffIInv, BackoffOfFirst, Q

LEMMA BackoffStep == TypeOK /\ BackoffIInv /\ [Next]_vars => BackoffIInv'
<1> SUFFICES ASSUME TypeOK, BackoffIInv, [Next]_vars PROVE BackoffIInv'
  OBVIOUS
<1>a. LoopOK /\ QueuesOK /\ Len(Paths) \in Nat
  BY PathFacts DEF TypeOK
<1>b. LookedAfter /\ BackoffOfFirst
  BY DEF BackoffIInv
<1>1. CASE LookAfter /\ (SkipFlush \/ FlushOk \/ FlushFails)
  <2>1. /\ i \in 1 .. Len(Paths) /\ P = Paths[i] /\ P \in Path /\ Q \in Queue
        /\ FirstOf(i)
        /\ rb[P].n = ToSkip(Q) /\ rb[P].c = passed[Q] /\ passed[Q] <= ToSkip(Q)
        /\ \A k \in 1 .. Len(Paths) :
              k # i /\ FirstOf(k) => Paths[k] # P /\ QueueOf[Paths[k]] # Q
    BY <1>1, LooksAtFirst
  <2>2. LookedAfter'
    <3>1. done' = done \cup {Q} /\ i' = i + 1 /\ pc = "flush" /\ pc' = "flush"
      BY <1>1 DEF LookAfter, SkipFlush, FlushOk, FlushFails, NextPath, InFlush
    <3>2. \A q \in Queue \ {Q} : cn'[q] = cn[q]
      BY <1>a, <1>1 DEF SkipFlush, FlushOk, FlushFails, QueuesOK
    <3>3. ASSUME NEW k \in 1 .. i' - 1
          PROVE  cn'[QueueOf[Paths[k]]] = 0 \/ QueueOf[Paths[k]] \in done'
      <4>1. QueueOf[Paths[k]] \in Queue /\ (k = i \/ k \in 1 .. i - 1)
        BY <2>1, <3>1, PathFacts
      <4> QED
        BY <1>b, <2>1, <3>1, <3>2, <4>1 DEF LookedAfter, Q
    <3> QED
      BY <3>3 DEF LookedAfter
  <2> PICK q \in Queue : q = Q
    BY <2>1
  <2>3. rb'[P].n = ToSkip(q)' /\ rb'[P].c = passed'[q] /\ passed'[q] <= ToSkip(q)'
    <3>1. /\ streak[q] \in Nat /\ passed[q] \in Nat
          /\ rb[P].n \in Nat /\ rb[P].c \in Nat /\ ToSkip(q) \in Nat
      BY <1>a, <2>1 DEF QueuesOK
    <3>2. CASE SkipFlush
      <4>1. rb'[P].n = rb[P].n /\ rb'[P].c = rb[P].c + 1 /\ rb[P].c < rb[P].n
        BY <1>a, <2>1, <3>2 DEF SkipFlush, QueuesOK
      <4>2. passed'[q] = passed[q] + 1 /\ streak' = streak
        BY <1>a, <2>1, <3>2 DEF SkipFlush, QueuesOK
      <4> QED
        BY <2>1, <3>1, <4>1, <4>2 DEF ToSkip
    <3>3. CASE FlushOk
      BY <1>a, <2>1, <3>1, <3>3 DEF FlushOk, QueuesOK, ToSkip
    <3>4. CASE FlushFails
      <4>1. /\ rb'[P] = Doubled(rb[P]) /\ streak'[q] = streak[q] + 1 /\ passed'[q] = 0
        BY <1>a, <2>1, <3>4 DEF FlushFails, QueuesOK
      <4>2. ToSkip(q)' = IF ToSkip(q) > 0 THEN ToSkip(q) * 2 ELSE 2
        <5>1. CASE streak[q] = 0
          BY <4>1, <5>1 DEF ToSkip
        <5>2. CASE streak[q] # 0
          <6>1. 2 ^ streak[q] \in Nat \ {0} /\ 2 ^ (streak[q] + 1) = 2 * 2 ^ streak[q]
            BY <3>1, NextPower
          <6> QED
            BY <3>1, <4>1, <5>2, <6>1 DEF ToSkip
        <5> QED
          BY <5>1, <5>2
      <4>3. ToSkip(q)' \in Nat
        BY <3>1, <4>2
      <4> QED
        BY <2>1, <3>1, <4>1, <4>2, <4>3 DEF Doubled
    <3> QED
      BY <1>1, <3>2, <3>3, <3>4
  <2>4. ASSUME NEW k \in 1 .. Len(Paths), FirstOf(k)
        PROVE  /\ rb'[Paths[k]].n = ToSkip(QueueOf[Paths[k]])'
               /\ rb'[Paths[k]].c = passed'[QueueOf[Paths[k]]]
               /\ passed'[QueueOf[Paths[k]]] <= ToSkip(QueueOf[Paths[k]])'
    <3>1. CASE k = i
      BY <2>1, <2>3, <3>1 DEF Q
    <3>2. CASE k # i
      <4>1. /\ Paths[k] \in Path \ {P} /\ QueueOf[Paths[k]] \in Queue \ {Q}
        BY <2>1, <2>4, <3>2, PathFacts
      <4>2. /\ rb'[Paths[k]] = rb[Paths[k]]
            /\ streak'[QueueOf[Paths[k]]] = streak[QueueOf[Paths[k]]]
            /\ passed'[QueueOf[Paths[k]]] = passed[QueueOf[Paths[k]]]
        BY <1>a, <1>1, <4>1 DEF SkipFlush, FlushOk, FlushFails, QueuesOK
      <4> QED
        BY <1>b, <2>4, <4>2 DEF BackoffOfFirst, ToSkip
    <3> QED
      BY <3>1, <3>2
  <2>5. BackoffOfFirst'
    BY <2>4 DEF BackoffOfFirst, FirstOf
  <2> QED
    BY <2>2, <2>5 DEF BackoffIInv
<1>2. CASE UNCHANGED backoff /\ NothingToFlush
  <2>1. i \in 1 .. Len(Paths) /\ pc = "flush" /\ i' = i + 1 /\ UNCHANGED <<done, cn>>
    BY <1>a, <1>2 DEF NothingToFlush, InFlush, NextPath, LoopOK
  <2>2. cn[Q] = 0 \/ Q \in done
    BY <1>a, <1>2, AtAPath DEF NothingToFlush, InFlush, QueuesOK
  <2>3. LookedAfter'
    BY <1>b, <2>1, <2>2 DEF LookedAfter, P, Q
  <2> QED
    BY <1>b, <1>2, <2>3 DEF BackoffIInv, BackoffOfFirst, FirstOf, ToSkip, backoff
<1>3. CASE UNCHANGED backoff /\ (pc' # "flush" \/ i' = 1 \/ UNCHANGED <<pc, i, done, cn>>)
  <2>1. LookedAfter'
    BY <1>b, <1>3 DEF LookedAfter
  <2> QED
    BY <1>b, <1>3, <2>1 DEF BackoffIInv, BackoffOfFirst, FirstOf, ToSkip, backoff
<1>4. \/ LookAfter /\ (SkipFlush \/ FlushOk \/ FlushFails)
      \/ UNCHANGED backoff /\ NothingToFlush
      \/ UNCHANGED backoff /\ (pc' # "flush" \/ i' = 1 \/ UNCHANGED <<pc, i, done, cn>>)
  <2>1. CASE SkipFlush \/ FlushOk \/ FlushFails \/ NothingToFlush
    BY <2>1 DEF SkipFlush, FlushOk, FlushFails, FlushDue, NothingToFlush
  <2>2. CASE StartStep \/ EndFlushes \/ FlushRaises \/ ReadRaises \/ EndStep \/ WakeUp
    BY <2>2 DEF StartStep, EndFlushes, FlushRaises, ReadRaises, EndStep, WakeUp, Dies
  <2>3. CASE NotReady \/ StartRead \/ ReadOne \/ ReadEnd
    BY <2>3 DEF NotReady, StartRead, ReadOne, ReadEnd, InRead
  <2>4. CASE (\E p \in Path : Write(p)) \/ UNCHANGED vars
    BY <2>4 DEF Write, vars, backoff, stepState
  <2> QED
    BY <2>1, <2>2, <2>3, <2>4 DEF Next, Step
<1> QED
  BY <1>1, <1>2, <1>3, <1>4

LEMMA BackoffInductive == Spec => []BackoffIInv
<1>1. Init => BackoffIInv
  <2> SUFFICES ASSUME Init PROVE LookedAfter /\ BackoffOfFirst
    BY DEF BackoffIInv
  <2> QED
    BY PathFacts DEF Init, LookedAfter, BackoffOfFirst, ToSkip
<1> QED
  BY <1>1, BackoffStep, DaemonTypeCorrect, PTL DEF Spec

(* After k failures in a row a queue is passed over exactly 2^k times,      *)
(* whichever paths share it (daemon.py:371-398).                             *)
THEOREM BackoffExactAlways == Spec => BackoffExact
<1>1. TypeOK /\ BackoffIInv /\ [Next]_vars => [TriedInTime]_vars
  <2> SUFFICES ASSUME TypeOK, BackoffIInv, Next,
                      pc = "flush", pc' = "flush", i <= Len(Paths),
                      Q \in done' \ done, passed'[Q] = 0
               PROVE  passed[Q] = ToSkip(Q)
    BY DEF TriedInTime, ToSkip
  <2>1. QueuesOK /\ Q \in Queue
    BY AtAPath DEF TypeOK
  <2>2. CASE SkipFlush
    BY <2>1, <2>2 DEF SkipFlush, QueuesOK
  <2>3. CASE FlushOk \/ FlushFails
    <3>1. rb[P].c >= rb[P].n /\ LookAfter
      BY <2>3 DEF FlushOk, FlushFails, FlushDue
    <3>2. P \in Path /\ rb[P].n = ToSkip(Q) /\ rb[P].c = passed[Q] /\ passed[Q] <= ToSkip(Q)
      BY <3>1, LooksAtFirst
    <3> QED
      BY <2>1, <3>1, <3>2 DEF QueuesOK
  <2>4. SkipFlush \/ FlushOk \/ FlushFails
    <3>1. ~ FlushRaises
      BY DEF FlushRaises, Dies
    <3>2. done' # done
      OBVIOUS
    <3> QED
      BY <3>1, <3>2 DEF Next, Step, Write, stepState, StartStep, NothingToFlush, EndFlushes,
         NotReady, StartRead, ReadOne, ReadEnd, ReadRaises, EndStep, WakeUp
  <2> QED
    BY <2>2, <2>3, <2>4
<1> QED
  BY <1>1, DaemonTypeCorrect, BackoffInductive, PTL DEF Spec, BackoffExact
==============================================================================
