------------------------------- MODULE Payload -------------------------------
(***************************************************************************)
(* What the queues of sslf/util/dq.py hold.  The code stores bytes objects *)
(* and only ever looks at their length and their identity, so a payload is *)
(* the sequence of events encoded in it together with its length in bytes. *)
(* A payload of several events is a batch made by getz().  A payload whose *)
(* evs is empty is what is left of a file whose write did not complete.    *)
(***************************************************************************)
EXTENDS Integers, Sequences, FiniteSets, Functions

CONSTANTS Event,   \* the events that readers may produce
          Size,    \* Size[e]: bytes of the JSON encoding of event e
          Sz       \* the sz of getz(): SPLUNK_MAX_MSG, as hec.py never passes one

\* An encoded event is never empty: encode_event dumps a dict (hec.py:220).
ASSUME SizeAssumption == Size \in [Event -> Nat \ {0}]

ASSUME SzAssumption == Sz \in Nat \ {0, 1}

SepLen == 1                                   \* len(b' ')

Item == [evs : Seq(Event), len : Nat]

NoBytes == [evs |-> <<>>, len |-> 0]          \* b''

Encoded(e) == [evs |-> <<e>>, len |-> Size[e]]

(* "if r: r += sep" followed by "r += p": the separator only goes between. *)
Join(r, p) ==
  IF r.len = 0 THEN p
  ELSE [evs |-> r.evs \o p.evs, len |-> r.len + SepLen + p.len]

(* Total length of a family of payloads (a sequence, or a function from    *)
(* file names): one point per byte, so that no recursion is needed.        *)
BytesOf(q) == UNION {{i} \X (1 .. q[i].len) : i \in DOMAIN q}

Bytes(q) == Cardinality(BytesOf(q))

EventsIn(p) == Range(p.evs)

EventsOf(q) == UNION {EventsIn(q[i]) : i \in DOMAIN q}
==============================================================================
