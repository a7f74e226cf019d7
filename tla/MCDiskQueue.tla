----------------------------- MODULE MCDiskQueue -----------------------------
EXTENDS DiskQueueUse, TLC

CONSTANTS e1, e2, e3

MCEvent == {e1, e2, e3}
MCSize == (e1 :> 1) @@ (e2 :> 2) @@ (e3 :> 3)
==============================================================================
