---------------------------- MODULE AtLeastOnce ------------------------------
(***************************************************************************)
(* What forwarding through an HTTP event collector promises: an accepted   *)
(* event stays pending until the collector has it, so it arrives at least  *)
(* once, unless the collector answers that it is not to be sent again, or  *)
(* the process dies.                                                       *)
(***************************************************************************)
CONSTANT Event

VARIABLES pending,    \* events the forwarder is responsible for
          received,   \* events the collector has got, once or more
          dropped,    \* events given up because of an answer
          lost        \* events that were pending when the process died

vars == <<pending, received, dropped, lost>>

Init == pending = {} /\ received = {} /\ dropped = {} /\ lost = {}

Accept(e) ==
  /\ e \notin pending \cup received \cup dropped \cup lost
  /\ pending' = pending \cup {e}
  /\ UNCHANGED <<received, dropped, lost>>

(* The collector gets the events and the forwarder does not learn of it. *)
Receive(S) == received' = received \cup S /\ UNCHANGED <<pending, dropped, lost>>

Deliver(S) ==
  /\ received' = received \cup S
  /\ pending' = pending \ S
  /\ UNCHANGED <<dropped, lost>>

(* An answer for good that confirms nothing; the collector may have them. *)
Decline(S) ==
  /\ received' \in {received, received \cup S}
  /\ dropped' = dropped \cup S
  /\ pending' = pending \ S
  /\ UNCHANGED lost

(* Everything pending goes with the process, whatever was being sent. *)
Crash(S) ==
  /\ received' = received \cup S
  /\ lost' = lost \cup pending
  /\ pending' = {}
  /\ UNCHANGED dropped

Next ==
  \/ \E e \in Event : Accept(e)
  \/ \E S \in SUBSET pending : Receive(S) \/ Deliver(S) \/ Decline(S) \/ Crash(S)

Spec == Init /\ [][Next]_vars

EventuallySettled ==
  \A e \in Event : e \in pending ~> e \in received \cup dropped \cup lost
==============================================================================
