-------------------------------- MODULE MCHec --------------------------------
EXTENDS Hec, TLC

CONSTANTS e1, e2, e3, e4

MCEvent == {e1, e2, e3, e4}
\* e3 is filtered; e4 alone is beyond the batch limit of the configuration.
MCFiltered == {e3}
MCSize == (e1 :> 1) @@ (e2 :> 2) @@ (e3 :> 1) @@ (e4 :> 5)
==============================================================================
