--------------------------- MODULE DiskBackedQueue ---------------------------
(***************************************************************************)
(* sslf/util/dq.py: DiskBackedQueue, a MemQueue that overflows into a      *)
(* DiskQueue, in a process that may be killed at any step and started      *)
(* again on the same directory.  getz() and _disk_to_mem() are loops over  *)
(* files, so they are sequences of steps here: pc says where the call is.  *)
(***************************************************************************)
EXTENDS MemQueue, DiskQueue

CONSTANT MaxKills     \* bound: signals that stop the process, in one behaviour

ASSUME KillsAssumption == MaxKills \in Nat

VARIABLES kills,      \* processes killed so far
          lost        \* events whose last copy was in memory when the process died

dbqVars == <<mq, hand, pc, seen, out, refused, files, dcn, dsz, now, fails,
             overwritten, kills, lost>>

memState == <<mq, hand, seen, out, refused>>
diskState == <<files, dcn, dsz, now, fails, overwritten>>
processState == <<kills, lost>>

(* pc: "ready" between calls; "getz", "spill", "fill", "unlink" in a call;  *)
(* "held" after it; "raised" with an exception nobody catches; "down".      *)
Points == {"ready", "getz", "spill", "fill", "unlink", "held", "raised", "down"}

DbqInit == MemInit /\ DiskInit /\ kills = 0 /\ lost = {}

------------------------------------------------------------------------------
(* put(): memory first, the disk when memory raises SSLFQueueCapacityError. *)

Offer(e) == pc = "ready" /\ e \notin seen /\ seen' = seen \cup {e}

PutMem(e) ==
  /\ Offer(e)
  /\ MemAppend(Encoded(e))
  /\ UNCHANGED <<hand, pc, out, refused, diskState, processState>>

PutDisk(e) ==
  /\ Offer(e)
  /\ ~MemAccepts(Encoded(e))
  /\ DiskWrite(Encoded(e))
  /\ UNCHANGED <<mq, hand, pc, out, refused, processState>>

PutNowhere(e) ==
  /\ Offer(e)
  /\ ~MemAccepts(Encoded(e))
  /\ ~DiskAccepts(Encoded(e))
  /\ refused' = refused \cup {e}
  /\ UNCHANGED <<mq, hand, pc, out, diskState, processState>>

(* An OSError from the file system: the daemon logs it and goes on. *)
PutFails(e) ==
  /\ Offer(e)
  /\ ~MemAccepts(Encoded(e))
  /\ DiskWriteCut(Encoded(e))
  /\ refused' = refused \cup {e}
  /\ UNCHANGED <<mq, hand, pc, out, processState>>

------------------------------------------------------------------------------
(* getz(): the memory queue's batch, ... *)

DbqStartGetz == StartGetz /\ UNCHANGED <<diskState, processState>>

DbqGetzStep == GetzStep /\ UNCHANGED <<diskState, processState>>

DbqEndMemGetz ==
  /\ pc = "getz"
  /\ GetzReturn
  /\ pc' = "spill"
  /\ UNCHANGED <<seen, out, refused, diskState, processState>>

(* ... then what the disk can add to it, which is nothing or an exception. *)
Room ==
  IF hand.len = 0 THEN Sz
  ELSE IF hand.len < Sz - 1 THEN Sz - (hand.len + SepLen) ELSE 0

SpillRaises ==
  /\ pc = "spill"
  /\ DiskGetzRaises(Room)
  /\ pc' = "raised"
  /\ UNCHANGED <<memState, diskState, processState>>

SpillNothing ==
  /\ pc = "spill"
  /\ ~DiskGetzRaises(Room)
  /\ pc' = "fill"
  /\ UNCHANGED <<memState, diskState, processState>>

(* get(): memory, else the oldest file. *)
DbqGet ==
  /\ pc = "ready"
  /\ \/ MemPopLeft /\ hand' = Head(mq) /\ UNCHANGED diskState
     \/ mq = <<>> /\ ~NoFiles /\ hand' = files[Oldest] /\ CountingUnlink(Oldest)
        /\ UNCHANGED mq
     \/ mq = <<>> /\ NoFiles /\ hand' = NoBytes /\ UNCHANGED <<mq, diskState>>
  /\ pc' = "fill"
  /\ UNCHANGED <<seen, out, refused, processState>>

(* Mutant: put() swallows that it was refused. *)
FillPutSwallowed ==
  /\ pc = "fill"
  /\ dcn > 0 /\ ~NoFiles
  /\ mq' = IF MemAccepts(files[Oldest]) THEN Append(mq, files[Oldest]) ELSE mq
  /\ pc' = "unlink"
  /\ UNCHANGED <<hand, seen, out, refused, diskState, processState>>

(* Mutant: the file stays after its payload was put into memory. *)
FillPopForgotten ==
  /\ pc = "unlink"
  /\ pc' = "fill"
  /\ UNCHANGED <<memState, diskState, processState>>

(* _disk_to_mem(): put into memory, then unlink. *)
FillPut ==
  /\ pc = "fill"
  /\ dcn > 0 /\ ~NoFiles
  /\ MemAppend(files[Oldest])
  /\ pc' = "unlink"
  /\ UNCHANGED <<hand, seen, out, refused, diskState, processState>>

FillPop ==
  /\ pc = "unlink"
  /\ CountingUnlink(Oldest)
  /\ pc' = "fill"
  /\ UNCHANGED <<memState, processState>>

(* peek() finds no file and returns None, and accept(None) is a TypeError. *)
FillRaises ==
  /\ pc = "fill"
  /\ dcn > 0 /\ NoFiles
  /\ pc' = "raised"
  /\ UNCHANGED <<memState, diskState, processState>>

FillEnd ==
  /\ pc = "fill"
  /\ dcn > 0 => ~NoFiles /\ ~MemAccepts(files[Oldest])
  /\ pc' = "held"
  /\ UNCHANGED <<memState, diskState, processState>>

------------------------------------------------------------------------------
(* pop(), and what the caller does with the payload it was given. *)

DbqPop ==
  /\ pc = "ready"
  /\ \/ MemPopLeft /\ out' = out \o Head(mq).evs /\ UNCHANGED diskState
     \/ mq = <<>> /\ dcn # 0 /\ ~NoFiles /\ CountingUnlink(Oldest)
        /\ out' = out \o files[Oldest].evs /\ UNCHANGED mq
  /\ UNCHANGED <<hand, pc, seen, refused, processState>>

DbqRelease == Release /\ UNCHANGED <<diskState, processState>>

DbqUnget == Unget /\ UNCHANGED <<diskState, processState>>

------------------------------------------------------------------------------
(* The process. *)

Volatile == EventsOf(mq) \cup EventsIn(hand)

Dies ==
  /\ pc' = "down"
  /\ mq' = <<>> /\ hand' = NoBytes
  /\ UNCHANGED <<out, refused>>

(* Nothing between getz() and the top of the daemon catches the exception. *)
Collapse ==
  /\ pc = "raised"
  /\ Dies
  /\ lost' = lost \cup (Volatile \ EventsOf(files))
  /\ UNCHANGED <<seen, kills, diskState>>

Killed == kills < MaxKills /\ kills' = kills + 1 /\ Dies

Kill ==
  /\ pc # "down"
  /\ Killed
  /\ lost' = lost \cup (Volatile \ EventsOf(files))
  /\ UNCHANGED <<seen, diskState>>

(* The same while DiskQueue.put is writing its file. *)
KillInPut(e) ==
  /\ Offer(e)
  /\ ~MemAccepts(Encoded(e))
  /\ DiskWriteCut(Encoded(e))
  /\ Killed
  /\ lost' = lost \cup ((Volatile \cup {e}) \ EventsOf(files'))

(* Mutant: _count() is left out. *)
RestartUncounted ==
  /\ pc = "down"
  /\ pc' = "ready"
  /\ dcn' = 0 /\ dsz' = 0
  /\ UNCHANGED <<files, memState, now, fails, overwritten, processState>>

(* DiskBackedQueue(directory): an empty memory queue, and _count(). *)
Restart ==
  /\ pc = "down"
  /\ pc' = "ready"
  /\ UNCHANGED files /\ Recount
  /\ UNCHANGED <<memState, now, fails, overwritten, processState>>

(* The clock is read by put() only. *)
DbqTick ==
  /\ pc = "ready"
  /\ Tick
  /\ UNCHANGED <<memState, pc, files, dcn, dsz, fails, overwritten, processState>>

DbqNext ==
  \/ \E e \in Event : PutMem(e) \/ PutDisk(e) \/ PutNowhere(e) \/ PutFails(e)
  \/ DbqStartGetz \/ DbqGetzStep \/ DbqEndMemGetz \/ SpillRaises \/ SpillNothing
  \/ DbqGet \/ DbqPop
  \/ FillPut \/ FillPop \/ FillRaises \/ FillEnd
  \/ DbqRelease \/ DbqUnget
  \/ Collapse \/ Kill \/ Restart \/ DbqTick
  \/ \E e \in Event : KillInPut(e)

DbqSpec == DbqInit /\ [][DbqNext]_dbqVars

(* The daemon calls flush on every queue whose cn is not zero, again and     *)
(* again (daemon.py:371-390, 433-438), the interpreter does not stop inside  *)
(* a call, the server accepts batches again and again, and a process that    *)
(* died is started again.                                                    *)
DbqFairness ==
  /\ WF_dbqVars(DbqStartGetz) /\ WF_dbqVars(DbqGetzStep) /\ WF_dbqVars(DbqEndMemGetz)
  /\ WF_dbqVars(SpillRaises) /\ WF_dbqVars(SpillNothing)
  /\ WF_dbqVars(FillPut) /\ WF_dbqVars(FillPop)
  /\ WF_dbqVars(FillRaises) /\ WF_dbqVars(FillEnd)
  /\ SF_dbqVars(DbqRelease)
  /\ WF_dbqVars(Collapse) /\ WF_dbqVars(Restart)

DbqLiveSpec == DbqSpec /\ DbqFairness

------------------------------------------------------------------------------
(* Type correctness of both halves and of the process around them. *)
DbqTypeOK ==
  /\ MemStateOK /\ DiskTypeOK
  /\ pc \in Points
  /\ kills \in 0 .. MaxKills /\ lost \subseteq Event

(* What holds of each queue on its own holds of both together: they are      *)
(* well-typed, what comes back with unget() stays in its bounds although     *)
(* _disk_to_mem fills the memory behind it, and restarts, kills and failed   *)
(* writes do not hide a file (dq.py:254-308, 231-238).                       *)
HalvesKept == DbqTypeOK /\ MemBounded /\ NeverUndercounts /\ DiskBounded

(* Every event that was offered to put() is in memory, in the caller's hand, *)
(* on disk or given away, or it was lost in one of three ways: put() raised, *)
(* its file was opened again for another event, or the process died when     *)
(* only memory held it: the death in the middle of _disk_to_mem, say, takes  *)
(* nothing from the disk.  No interleaving of getz, _disk_to_mem, unget,     *)
(* kills and restarts loses one in any other way (dq.py:247-308).            *)
DbqConserved ==
  seen = EventsOf(mq) \cup EventsIn(hand) \cup EventsOf(files) \cup Range(out)
           \cup refused \cup overwritten \cup lost

(* The events the disk alone is responsible for: not the file whose payload *)
(* _disk_to_mem has just put into memory.                                   *)
OnDiskOnly ==
  IF pc = "unlink" THEN EventsOf([f \in DOMAIN files \ {Oldest} |-> files[f]])
  ELSE EventsOf(files)

(* No event is held twice, so none is sent twice by the queue's own doing,   *)
(* although _disk_to_mem puts before it unlinks and can be killed between    *)
(* (dq.py:275-287).                                                          *)
NoSecondCopy ==
  /\ OnDiskOnly \cap (EventsOf(mq) \cup EventsIn(hand) \cup Range(out)) = {}
  /\ EventsIn(hand) \cap (EventsOf(mq) \cup Range(out)) = {}
  /\ EventsOf(mq) \cap Range(out) = {}
  /\ \A i, j \in DOMAIN mq : i # j => EventsIn(mq[i]) \cap EventsIn(mq[j]) = {}

(* "return it anyway to prevent getting stuck" (dq.py:86-87): a payload that *)
(* went to the disk comes out of it if the caller keeps asking.              *)
DiskDrains == \A e \in Event : (e \in EventsOf(files)) ~> (e \notin EventsOf(files))
==============================================================================
