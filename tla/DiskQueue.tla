------------------------------ MODULE DiskQueue ------------------------------
(***************************************************************************)
(* sslf/util/dq.py: DiskQueue, one file per payload in a spool directory.  *)
(* The object keeps two counters, cn and sz, and never reads the directory *)
(* to check them: only _count(), in the constructor, does.                 *)
(***************************************************************************)
EXTENDS Payload

CONSTANTS DiskSize,  \* DiskQueue(size=...)
          MaxTime,   \* bound: the clock stops after this many seconds
          MaxFails   \* bound: writes that fail, in one behaviour

ASSUME DiskAssumption == DiskSize \in Nat /\ MaxTime \in Nat /\ MaxFails \in Nat

VARIABLES files,     \* the directory: file name -> payload
          dcn, dsz,  \* self.cn and self.sz
          now        \* int(time.time())

(* For the properties only *)
VARIABLES fails,       \* writes that stopped half way and left their file
          overwritten  \* events whose file was opened 'wb' a second time

diskVars == <<files, dcn, dsz, now, fails, overwritten>>

------------------------------------------------------------------------------
(* A name is int(time.time()) and cn, split over a directory of four digits *)
(* and a file; the files are listed in this order.                          *)
Name == (0 .. MaxTime) \X Int

Before(f, g) == f[1] < g[1] \/ (f[1] = g[1] /\ f[2] < g[2])

Oldest == CHOOSE f \in DOMAIN files : \A g \in DOMAIN files \ {f} : Before(f, g)

NoFiles == DOMAIN files = {}

(* Mutant: the size of what is there already is forgotten. *)
DiskAcceptsAlone(p) == p.len <= DiskSize

DiskAccepts(p) == p.len + dsz <= DiskSize

(* Mutant: the time is rounded up. *)
NextNameRounded == <<now + 1, dcn>>

NextName == <<now, dcn>>

Stored(p) ==
  [f \in DOMAIN files \cup {NextName} |-> IF f = NextName THEN p ELSE files[f]]

Clobbers ==
  overwritten' = overwritten \cup
    (IF NextName \in DOMAIN files THEN EventsIn(files[NextName]) ELSE {})

DiskWrite(p) ==
  /\ DiskAccepts(p)
  /\ files' = Stored(p)
  /\ dcn' = dcn + 1
  /\ dsz' = dsz + p.len
  /\ Clobbers
  /\ UNCHANGED <<now, fails>>

(* put() cut short by an OSError or by the death of the process: the file   *)
(* has some or all of the bytes of p, and the counters are not reached.     *)
CutShort(p) == {p} \cup {[evs |-> <<>>, len |-> n] : n \in 0 .. p.len - 1}

DiskWriteCut(p) ==
  /\ fails < MaxFails
  /\ DiskAccepts(p)
  /\ \E c \in CutShort(p) : files' = Stored(c)
  /\ fails' = fails + 1
  /\ Clobbers
  /\ UNCHANGED <<dcn, dsz, now>>

(* Mutant: skip_unlink set where it should not be. *)
CountingNoUnlink(f) ==
  /\ dcn' = dcn - 1
  /\ dsz' = dsz - files[f].len
  /\ UNCHANGED <<files, now, fails, overwritten>>

(* _counting_unlink *)
CountingUnlink(f) ==
  /\ files' = [g \in DOMAIN files \ {f} |-> files[g]]
  /\ dcn' = dcn - 1
  /\ dsz' = dsz - files[f].len
  /\ UNCHANGED <<now, fails, overwritten>>

Recount ==
  /\ dcn' = Cardinality(DOMAIN files')
  /\ dsz' = Bytes(files')

(* getz reaches "os._counting_unlink", which the os module does not have, as *)
(* soon as the first file fits in what is left of the batch.                 *)
DiskGetzRaises(room) == ~NoFiles /\ SepLen + files[Oldest].len <= room

Tick == now < MaxTime /\ now' = now + 1

DiskInit ==
  /\ files = <<>> /\ dcn = 0 /\ dsz = 0 /\ now = 0
  /\ fails = 0 /\ overwritten = {}

------------------------------------------------------------------------------
(* Type correctness of the directory and of the object's counters. *)
DiskTypeOK ==
  /\ DOMAIN files \subseteq Name /\ IsFiniteSet(DOMAIN files)
  /\ files \in [DOMAIN files -> Item]
  /\ dcn \in Int /\ dsz \in Int
  /\ now \in 0 .. MaxTime
  /\ fails \in 0 .. MaxFails
  /\ overwritten \subseteq Event

(* MySplunkHEC.flush and the daemon's step only look for files while cn > 0 *)
(* (hec.py:293, daemon.py:372): a file that cn does not cover would stay on *)
(* disk until a restart.  Each write that failed can hide one file, nothing *)
(* else can, whatever names collide (dq.py:163-174, 224-238).                *)
NeverUndercounts == Cardinality(DOMAIN files) <= dcn + fails

(* The bytes on disk stay within the configured size although accept() only *)
(* consults a counter (dq.py:158-161), as long as no write has failed.       *)
DiskBounded == fails = 0 => Bytes(files) <= dsz /\ dsz <= DiskSize
==============================================================================
