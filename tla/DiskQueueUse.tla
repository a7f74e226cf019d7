---------------------------- MODULE DiskQueueUse -----------------------------
(***************************************************************************)
(* A DiskQueue on its own, called the way t/test_dq.py calls it, in any    *)
(* order, and opened again on the same directory.                          *)
(***************************************************************************)
EXTENDS DiskQueue

VARIABLE got         \* what the last call gave back: "none", "payload", "raised"

dqVars == <<files, dcn, dsz, now, fails, overwritten, got>>

DqInit == DiskInit /\ got = "none"

NotStored(e) == e \notin EventsOf(files)

DqPut(e) == NotStored(e) /\ DiskWrite(Encoded(e)) /\ got' = "none"

DqPutFails(e) == NotStored(e) /\ DiskWriteCut(Encoded(e)) /\ got' = "raised"

DqPutRefused(e) ==
  /\ NotStored(e)
  /\ ~DiskAccepts(Encoded(e))
  /\ got' = "none"
  /\ UNCHANGED diskVars

DqGet == ~NoFiles /\ CountingUnlink(Oldest) /\ got' = "payload"

DqPop == ~NoFiles /\ CountingUnlink(Oldest) /\ got' = "none"

DqGetz ==
  /\ got' = IF DiskGetzRaises(Sz) THEN "raised" ELSE "none"
  /\ UNCHANGED diskVars

(* A new DiskQueue on the same directory, emptied first if fresh is given. *)
DqOpen ==
  /\ files' \in {files, <<>>}
  /\ Recount
  /\ got' = "none"
  /\ UNCHANGED <<now, fails, overwritten>>

DqTick == Tick /\ got' = "none" /\ UNCHANGED <<files, dcn, dsz, fails, overwritten>>

DqNext ==
  \/ \E e \in Event : DqPut(e) \/ DqPutFails(e) \/ DqPutRefused(e)
  \/ DqGet \/ DqPop \/ DqGetz
  \/ DqOpen \/ DqTick

DqSpec == DqInit /\ [][DqNext]_dqVars

------------------------------------------------------------------------------
(* "assert q.cn == item_count" and "assert q.sz == byte_count" after puts    *)
(* and gets (t/test_dq.py:33-34, 39-40): the counters agree with the files.  *)
CountersExact == fails = 0 => dcn = Cardinality(DOMAIN files) /\ dsz = Bytes(files)
==============================================================================
