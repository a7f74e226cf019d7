--------------------------------- MODULE Hec ---------------------------------
(***************************************************************************)
(* sslf/returner/hec.py: MySplunkHEC with a memory queue (no disk_queue    *)
(* configured): queue_event(), flush() and _send_event(), against an HTTP  *)
(* event collector that may accept, refuse, fail or not answer.            *)
(***************************************************************************)
EXTENDS MemQueue

CONSTANTS Filtered,   \* events encode_event raises for: empty, or too old
          MaxUnsure,  \* bound: times an event arrives without an answer
          MaxDeaths   \* bound: deaths of the process

ASSUME HecAssumption ==
  Filtered \subseteq Event /\ MaxUnsure \in Nat /\ MaxDeaths \in Nat

VARIABLES ok,         \* flush_result.ok of the flush that runs, or ran last
          deaths

(* For the properties only *)
VARIABLES accepted,   \* events queue_event() returned True for, in order
          receipts,   \* how often the collector got each event
          unsure,     \* how often without sslf learning of it, and still alive
          dropped,    \* events of batches answered with 400, or 2xx and an error
          lost        \* events in memory when the process died

hecVars == <<mq, hand, pc, seen, out, refused, ok, deaths, accepted, receipts,
             unsure, dropped, lost>>

queueState == <<mq, hand, seen, out, refused>>
collectorState == <<receipts, unsure, dropped, lost>>

(* pc: "ready", "flush" at the head of flush's loop, "getz" and "held" as   *)
(* in MemQueue, "dead".                                                     *)
HecInit ==
  /\ MemInit
  /\ ok = TRUE /\ deaths = 0 /\ accepted = <<>>
  /\ receipts = [e \in Event |-> 0] /\ unsure = [e \in Event |-> 0]
  /\ dropped = {} /\ lost = {}

------------------------------------------------------------------------------
(* queue_event() returns True, False or None. *)

QueueTrue(e) ==
  /\ e \notin Filtered
  /\ Put(e)
  /\ accepted' = Append(accepted, e)
  /\ UNCHANGED <<ok, deaths, collectorState>>

QueueFalse(e) ==
  /\ pc = "ready"
  /\ e \in Filtered \ seen
  /\ seen' = seen \cup {e}
  /\ UNCHANGED <<mq, hand, pc, out, refused, ok, deaths, accepted, collectorState>>

QueueNone(e) ==
  /\ e \notin Filtered
  /\ PutRefused(e)
  /\ UNCHANGED <<ok, deaths, accepted, collectorState>>

------------------------------------------------------------------------------
(* flush(): "while self.q.cn > 0", a batch, and what becomes of it. *)

StartFlush ==
  /\ pc = "ready"
  /\ pc' = "flush"
  /\ ok' = TRUE
  /\ UNCHANGED <<queueState, deaths, accepted, collectorState>>

EndFlush ==
  /\ \/ pc = "flush" /\ mq = <<>>
     \/ pc = "held" /\ hand.len = 0       \* "if not payloadz: break"
  /\ pc' = "ready"
  /\ UNCHANGED <<queueState, ok, deaths, accepted, collectorState>>

FlushGetz ==
  /\ pc = "flush"
  /\ mq # <<>>
  /\ pc' = "getz"
  /\ hand' = NoBytes
  /\ UNCHANGED <<mq, seen, out, refused, ok, deaths, accepted, collectorState>>

FlushGetzStep == GetzStep /\ UNCHANGED <<ok, deaths, accepted, collectorState>>

FlushEndGetz == EndGetz /\ UNCHANGED <<ok, deaths, accepted, collectorState>>

Sending == pc = "held" /\ hand.len > 0

Counted(f, S) == [e \in Event |-> IF e \in S THEN f[e] + 1 ELSE f[e]]

Forget == out' = out \o hand.evs /\ hand' = NoBytes /\ pc' = "flush" /\ UNCHANGED mq

(* Mutants: behind the events that came later; without the error. *)
RequeueBehind ==
  mq' = Append(mq, hand) /\ hand' = NoBytes /\ pc' = "ready" /\ ok' = FALSE /\ UNCHANGED out

RequeueSilently ==
  MemUnget(hand) /\ hand' = NoBytes /\ pc' = "ready" /\ UNCHANGED <<ok, out>>

Requeue ==
  MemUnget(hand) /\ hand' = NoBytes /\ pc' = "ready" /\ ok' = FALSE /\ UNCHANGED out

(* Mutant: what was sent comes back. *)
SentRequeued ==
  /\ Sending
  /\ receipts' = Counted(receipts, EventsIn(hand))
  /\ Requeue
  /\ UNCHANGED <<seen, refused, deaths, accepted, unsure, dropped, lost>>

(* A status from 200 to 299 and code 0. *)
Sent ==
  /\ Sending
  /\ receipts' = Counted(receipts, EventsIn(hand))
  /\ Forget
  /\ UNCHANGED <<seen, refused, ok, deaths, accepted, unsure, dropped, lost>>

(* 400 counts as success: "splunk didn't accept it and we're not going to   *)
(* re-queue it anyway".                                                      *)
Refused400 ==
  /\ Sending
  /\ dropped' = dropped \cup EventsIn(hand)
  /\ Forget
  /\ UNCHANGED <<seen, refused, ok, deaths, accepted, receipts, unsure, lost>>

(* A status from 200 to 299 with another code, or with a body that is no     *)
(* JSON: _decode_res logs an error, and the batch is sent for flush, whether *)
(* the collector has it or not.                                              *)
Declined ==
  /\ Sending
  /\ receipts' \in {receipts, Counted(receipts, EventsIn(hand))}
  /\ dropped' = dropped \cup EventsIn(hand)
  /\ Forget
  /\ UNCHANGED <<seen, refused, ok, deaths, accepted, unsure, lost>>

(* Mutant: a status such as 503 counts as sent. *)
FailedForgotten ==
  /\ Sending
  /\ Forget
  /\ UNCHANGED <<seen, refused, ok, deaths, accepted, collectorState>>

(* Any other status, or MaxRetryError: the collector has not got the batch. *)
Failed ==
  /\ Sending
  /\ Requeue
  /\ UNCHANGED <<seen, refused, deaths, accepted, collectorState>>

(* ReadTimeoutError after the collector got the batch. *)
Unanswered ==
  /\ Sending
  /\ \A e \in EventsIn(hand) : unsure[e] < MaxUnsure
  /\ receipts' = Counted(receipts, EventsIn(hand))
  /\ unsure' = Counted(unsure, EventsIn(hand))
  /\ Requeue
  /\ UNCHANGED <<seen, refused, deaths, accepted, dropped, lost>>

Dies ==
  /\ deaths < MaxDeaths /\ deaths' = deaths + 1
  /\ pc' = "dead"
  /\ mq' = <<>> /\ hand' = NoBytes
  /\ lost' = lost \cup EventsOf(mq) \cup EventsIn(hand)
  /\ UNCHANGED <<seen, out, refused, ok, accepted, unsure, dropped>>

(* Any other exception of the request, before or after the collector got    *)
(* the batch, or of the reply: JSON without 'code', bytes that are no text. *)
(* _send_event, flush, step and loop let it pass.                           *)
Uncaught ==
  /\ Sending
  /\ receipts' \in {receipts, Counted(receipts, EventsIn(hand))}
  /\ Dies

(* SIGTERM, from a second sslf for instance (daemon.py:493-501). *)
Killed == pc # "dead" /\ ~Sending /\ Dies /\ UNCHANGED receipts

Restarted ==
  /\ pc = "dead"
  /\ pc' = "ready"
  /\ ok' = TRUE
  /\ UNCHANGED <<queueState, deaths, accepted, collectorState>>

HecNext ==
  \/ \E e \in Event : QueueTrue(e) \/ QueueFalse(e) \/ QueueNone(e)
  \/ StartFlush \/ FlushGetz \/ FlushGetzStep \/ FlushEndGetz \/ EndFlush
  \/ Sent \/ Refused400 \/ Declined \/ Failed \/ Unanswered
  \/ Uncaught \/ Killed \/ Restarted

HecSpec == HecInit /\ [][HecNext]_hecVars

(* The daemon flushes every queue that is not empty, after a backoff that   *)
(* is finite each time (daemon.py:371-398); within flush the interpreter    *)
(* goes on; a collector that is asked again and again accepts at some time. *)
HecFairness ==
  /\ WF_hecVars(mq # <<>> /\ StartFlush)
  /\ WF_hecVars(FlushGetz) /\ WF_hecVars(FlushGetzStep) /\ WF_hecVars(FlushEndGetz)
  /\ WF_hecVars(EndFlush)
  /\ SF_hecVars(Sent)

HecLiveSpec == HecSpec /\ HecFairness

------------------------------------------------------------------------------
(* Each copy beyond the first is explained by a timeout after the collector  *)
(* had the batch: a batch that was answered is never sent again, however     *)
(* timeouts, requeues and new batches interleave (hec.py:242-247, 302-309).  *)
DuplicatesExplained == \A e \in Event : receipts[e] <= 1 + unsure[e]

(* No event overtakes an older one, although failed batches go back to the   *)
(* queue and are split and joined anew (hec.py:303-309, dq.py:68-96).        *)
InOrder ==
  \A i, j \in DOMAIN accepted :
    i < j /\ receipts[accepted[j]] > 0
      => receipts[accepted[i]] > 0 \/ accepted[i] \in dropped \cup lost

(* When flush reports ok the queue is empty: the daemon then cancels its     *)
(* backoff (hec.py:290-321, daemon.py:390-393).                              *)
FlushOkDrains ==
  [][(pc \in {"flush", "held"} /\ pc' = "ready" /\ ok') => (mq' = <<>>)]_hecVars

(* Refinement: at-least-once forwarding of whatever queue_event() accepted.  *)
(* An event leaves the queue for good only when the collector confirmed it,  *)
(* when it answered the batch with 400 or with an error in a 2xx, or with    *)
(* the process: a status such as 503, a refused connection or a timeout      *)
(* never loses it (hec.py:223-262, 272-321).                                 *)
Alo == INSTANCE AtLeastOnce
  WITH pending <- EventsOf(mq) \cup EventsIn(hand),
       received <- {e \in Event : receipts[e] > 0}

ImplementsAtLeastOnce == Alo!Spec

(* Liveness: an accepted event is not pending for ever; batches that fail    *)
(* and come back do not starve the ones behind them (hec.py:289-321).        *)
EventuallySettled == Alo!EventuallySettled
==============================================================================
