-------------------------- MODULE MCDiskBackedQueue --------------------------
EXTENDS DiskBackedQueue, TLC

CONSTANTS e1, e2, e3, e4

MCEvent == {e1, e2, e3, e4}
MCSize == (e1 :> 1) @@ (e2 :> 1) @@ (e3 :> 3) @@ (e4 :> 3)

\* For the run about payloads larger than the batch and the memory limit.
BigEvent == {e1, e2}
BigSize == (e1 :> 4) @@ (e2 :> 5)
==============================================================================
