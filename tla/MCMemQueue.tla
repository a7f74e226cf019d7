------------------------------ MODULE MCMemQueue -----------------------------
EXTENDS MemQueueFifo

CONSTANTS e1, e2, e3, e4, e5

MCEvent == {e1, e2, e3, e4, e5}
\* e5 alone is beyond the batch limit of the configuration.
MCSize == (e1 :> 1) @@ (e2 :> 1) @@ (e3 :> 2) @@ (e4 :> 3) @@ (e5 :> 5)
==============================================================================
