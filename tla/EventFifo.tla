------------------------------ MODULE EventFifo ------------------------------
(***************************************************************************)
(* What a queue of events promises its caller: events come out in the      *)
(* order they went in; a block taken from the front is in the caller's     *)
(* hand until the caller settles it (delivered, or given up) or returns    *)
(* it, and a returned block is in front of everything else again.          *)
(***************************************************************************)
EXTENDS Naturals, Sequences

CONSTANT Event

VARIABLES fifo,    \* events waiting, oldest first
          held,    \* events the caller has taken and not yet settled
          done     \* events settled, in the order they were

vars == <<fifo, held, done>>

Init == fifo = <<>> /\ held = <<>> /\ done = <<>>

Accept(e) == fifo' = Append(fifo, e) /\ UNCHANGED <<held, done>>

Take(n) ==
  /\ held' = held \o SubSeq(fifo, 1, n)
  /\ fifo' = SubSeq(fifo, n + 1, Len(fifo))
  /\ UNCHANGED done

Settle == done' = done \o held /\ held' = <<>> /\ UNCHANGED fifo

Return == fifo' = held \o fifo /\ held' = <<>> /\ UNCHANGED done

(* The oldest events are dropped without being handed out. *)
Skip(n) ==
  /\ held = <<>>
  /\ done' = done \o SubSeq(fifo, 1, n)
  /\ fifo' = SubSeq(fifo, n + 1, Len(fifo))
  /\ UNCHANGED held

Next ==
  \/ \E e \in Event : Accept(e)
  \/ \E n \in 1 .. Len(fifo) : Take(n) \/ Skip(n)
  \/ Settle
  \/ Return

Spec == Init /\ [][Next]_vars
==============================================================================
