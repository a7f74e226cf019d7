----------------------------- MODULE MemQueueFifo ----------------------------
(***************************************************************************)
(* MemQueue implements EventFifo: payloads, batches and separators are     *)
(* invisible to a caller that only looks at the events.                    *)
(***************************************************************************)
EXTENDS MemQueue, SequencesExt

Flat(q) == FlattenSeq([i \in DOMAIN q |-> q[i].evs])

Fifo == INSTANCE EventFifo WITH fifo <- Flat(mq), held <- hand.evs, done <- out

(* Refinement: first in, first out, also across batches and returned        *)
(* batches (dq.py:61-96).                                                    *)
ImplementsFifo == Fifo!Spec
==============================================================================
