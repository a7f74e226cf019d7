------------------------------ MODULE MemQueue -------------------------------
(***************************************************************************)
(* sslf/util/dq.py: MemQueue, with the one caller it has.  The daemon is   *)
(* single threaded: MySplunkHEC.flush takes a batch with getz(), keeps it  *)
(* in a local variable while it is sent, and then either forgets it or     *)
(* puts it back with unget() before anything else touches the queue.       *)
(***************************************************************************)
EXTENDS Payload

CONSTANT MemSize     \* MemQueue(size=...)

ASSUME MemAssumption == MemSize \in Nat

VARIABLES mq,        \* the deque: a sequence of payloads
          hand,      \* the payload getz() is building, then what its caller holds
          pc         \* "ready", "getz" inside the loop of getz, "held" after a take

(* For the properties only *)
VARIABLES seen,      \* events ever offered to put()
          out,       \* events whose holder has let go of them, in that order
          refused    \* events put() raised SSLFQueueCapacityError for

memVars == <<mq, hand, pc, seen, out, refused>>

------------------------------------------------------------------------------
(* The methods, as formulas on mq and hand, used by the modules that extend *)
(* this one.                                                                 *)

(* Mutant: the size of what is there already is forgotten. *)
MemAcceptsAlone(p) == p.len <= MemSize

MemAccepts(p) == p.len + Bytes(mq) <= MemSize

MemAppend(p) == MemAccepts(p) /\ mq' = Append(mq, p)

(* Mutant: append() in the place of appendleft(). *)
MemUngetBehind(p) == mq' = Append(mq, p)

MemUnget(p) == mq' = <<p>> \o mq

MemPopLeft == mq # <<>> /\ mq' = Tail(mq)

(* Mutant: only the next payload is held against the limit. *)
GetzFitsAlone == mq # <<>> /\ SepLen + Head(mq).len < Sz

(* The condition of getz's while loop, and one turn of it. *)
GetzFits == mq # <<>> /\ hand.len + SepLen + Head(mq).len < Sz

(* Mutant: "r = " in the place of "r += ". *)
GetzTurnOverwrites == GetzFits /\ hand' = Head(mq) /\ MemPopLeft

GetzTurn == GetzFits /\ hand' = Join(hand, Head(mq)) /\ MemPopLeft

(* Mutant: no special case for a first payload beyond the limit. *)
GetzReturnNone == ~GetzFits /\ UNCHANGED <<hand, mq>>

(* After the loop: "if not r: return self.get()". *)
GetzReturn ==
  /\ ~GetzFits
  /\ \/ hand.len = 0 /\ mq # <<>> /\ hand' = Head(mq) /\ MemPopLeft
     \/ (hand.len > 0 \/ mq = <<>>) /\ UNCHANGED <<hand, mq>>

------------------------------------------------------------------------------
MemInit ==
  /\ mq = <<>> /\ hand = NoBytes /\ pc = "ready"
  /\ seen = {} /\ out = <<>> /\ refused = {}

(* Mutant: put() without encode_event() and check_type(). *)
PutUnencoded(e) ==
  /\ pc = "ready"
  /\ e \notin seen
  /\ MemAccepts(Encoded(e)) /\ mq' = Append(mq, e)
  /\ seen' = seen \cup {e}
  /\ UNCHANGED <<hand, pc, out, refused>>

Put(e) ==
  /\ pc = "ready"
  /\ e \notin seen
  /\ MemAppend(Encoded(e))
  /\ seen' = seen \cup {e}
  /\ UNCHANGED <<hand, pc, out, refused>>

PutRefused(e) ==
  /\ pc = "ready"
  /\ e \notin seen
  /\ ~MemAccepts(Encoded(e))
  /\ seen' = seen \cup {e}
  /\ refused' = refused \cup {e}
  /\ UNCHANGED <<mq, hand, pc, out>>

StartGetz ==
  /\ pc = "ready"
  /\ pc' = "getz"
  /\ hand' = NoBytes
  /\ UNCHANGED <<mq, seen, out, refused>>

GetzStep == pc = "getz" /\ GetzTurn /\ UNCHANGED <<pc, seen, out, refused>>

EndGetz ==
  /\ pc = "getz"
  /\ GetzReturn
  /\ pc' = "held"
  /\ UNCHANGED <<seen, out, refused>>

Get ==
  /\ pc = "ready"
  /\ MemPopLeft
  /\ hand' = Head(mq)
  /\ pc' = "held"
  /\ UNCHANGED <<seen, out, refused>>

(* pop() throws the first payload away. *)
Pop ==
  /\ pc = "ready"
  /\ MemPopLeft
  /\ out' = out \o Head(mq).evs
  /\ UNCHANGED <<hand, pc, seen, refused>>

(* The caller has dealt with the payload, or was given none. *)
Release ==
  /\ pc = "held"
  /\ out' = out \o hand.evs
  /\ hand' = NoBytes
  /\ pc' = "ready"
  /\ UNCHANGED <<mq, seen, refused>>

Unget ==
  /\ pc = "held"
  /\ hand.len > 0
  /\ MemUnget(hand)
  /\ hand' = NoBytes
  /\ pc' = "ready"
  /\ UNCHANGED <<seen, out, refused>>

MemNext ==
  \/ \E e \in Event : Put(e) \/ PutRefused(e)
  \/ StartGetz \/ GetzStep \/ EndGetz
  \/ Get \/ Pop
  \/ Release \/ Unget

MemSpec == MemInit /\ [][MemNext]_memVars

------------------------------------------------------------------------------
MemStateOK ==
  /\ mq \in Seq(Item)
  /\ hand \in Item
  /\ seen \subseteq Event
  /\ out \in Seq(Event)
  /\ refused \subseteq Event

(* Type correctness of the queue's and its caller's state. *)
MemTypeOK == MemStateOK /\ pc \in {"ready", "getz", "held"}

(* No event that was offered to put() is ever nowhere, whatever mixture of  *)
(* getz, get, pop and unget follows (dq.py:61-96).                           *)
Conserved ==
  seen = EventsOf(mq) \cup EventsIn(hand) \cup Range(out) \cup refused

(* unget() does not look at the size (dq.py:68-71).  Still the queue never  *)
(* exceeds MemSize by more than the one payload at its front, because what  *)
(* comes back was taken from it and nothing is put in between.               *)
MemBounded == mq # <<>> => Bytes(Tail(mq)) <= MemSize

(* A batch of several events stays below the limit it was asked for; only a *)
(* single event may exceed it (dq.py:83-90).                                 *)
BatchLimit == hand.len >= Sz => Len(hand.evs) = 1

(* "return it anyway to prevent getting stuck" (dq.py:86-87): a caller is   *)
(* given nothing only when the queue is empty, so flush's "if not payloadz: *)
(* break" (hec.py:296) never leaves events behind.                           *)
GetzProgress == pc = "held" /\ hand.len = 0 => mq = <<>>
==============================================================================
