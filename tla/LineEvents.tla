----------------------------- MODULE LineEvents -----------------------------
(***************************************************************************)
(* sslf/re.py and sslf/transform/rlep.py: from a line, or the dictionary   *)
(* of a line of JSON, to an event with fields and a time.                  *)
(***************************************************************************)
EXTENDS Integers, Sequences, FiniteSets

CONSTANTS Pattern,   \* names of regular expressions
          Searches,  \* [Pattern -> the field after the colon, or ""]
          Found,     \* Found[p][t]: the groups that p finds in t; not there if none
          Text, None,\* values of fields; None is a group that took no part
          ParseTime, \* parse_time
          TimeOf,    \* the time a text means, 0 if it is the epoch, NotADate
          NotADate,
          Inputs,    \* a line, or None for the line and a dictionary
          MaxLines   \* bound: lines

ASSUME LinesAssumption ==
  /\ None \notin Text /\ \A i \in Inputs : i.line \in Text \cup {None}
  /\ \A p \in Pattern : DOMAIN Found[p] \subseteq Text
  /\ \A p \in Pattern : \A t \in DOMAIN Found[p] :
       Found[p][t] \in [DOMAIN Found[p][t] -> Text \cup {None}]
  /\ \A i \in Inputs : i.dict \in [DOMAIN i.dict -> {i.dict[k] : k \in DOMAIN i.dict}]
  /\ TimeOf \in [Text -> Int] /\ NotADate \in Int \ {0} /\ MaxLines \in Nat

VARIABLES patterns,   \* self._re: the patterns in the order of the configuration
          step,       \* "idle", "matching", "raised"
          input, todo, searchable, fields, goOn, \* compute_fields
          lastTime    \* _last_parsed_time, 0 for None

(* For the properties only *)
VARIABLE events       \* for each call of rlep_line: the time in the line, the time given

lineVars == <<patterns, step, input, todo, searchable, fields, goOn, lastTime, events>>

NoFields == [k \in {} |-> None]

(* f.update(g) *)
With(f, g) == [k \in DOMAIN f \cup DOMAIN g |-> IF k \in DOMAIN g THEN g[k] ELSE f[k]]

LinesInit ==
  /\ patterns = <<>> /\ step = "idle"
  /\ input = [line |-> None, dict |-> NoFields]
  /\ todo = <<>> /\ searchable = NoFields /\ fields = NoFields
  /\ goOn = FALSE /\ lastTime = 0 /\ events = <<>>

(* rlep_line calls compute_fields. *)
Line ==
  /\ step = "idle" /\ Len(events) < MaxLines
  /\ input' \in Inputs
  /\ searchable' = input'.dict
  /\ fields' = NoFields
  /\ todo' = patterns /\ goOn' = TRUE
  /\ step' = "matching"
  /\ UNCHANGED <<patterns, lastTime, events>>

(* What pattern p is applied to, for input in and the searchable fields s; a *)
(* dictionary and None are refused.                                          *)
Missing(p, s) == Searches[p] # "" /\ Searches[p] \notin DOMAIN s
Subject(in, p, s) == IF Searches[p] = "" THEN in.line ELSE s[Searches[p]]
Applies(in, p, s) == ~Missing(p, s) /\ Subject(in, p, s) \in DOMAIN Found[p]

Turning == step = "matching" /\ goOn /\ todo # <<>>

(* Mutant: a pattern that waits for its field does not end the search. *)
SkipOnAndOn ==
  /\ Turning /\ Missing(Head(todo), searchable)
  /\ todo' = Append(Tail(todo), Head(todo))
  /\ UNCHANGED <<patterns, step, input, searchable, fields, goOn, lastTime, events>>

(* "skipping (for now)": but goOn is now False. *)
Skip ==
  /\ Turning /\ Missing(Head(todo), searchable)
  /\ todo' = Append(Tail(todo), Head(todo)) /\ goOn' = FALSE
  /\ UNCHANGED <<patterns, step, input, searchable, fields, lastTime, events>>

Groups(in, p, s) == IF Applies(in, p, s) THEN Found[p][Subject(in, p, s)] ELSE NoFields

(* Mutant: a later pattern sees the fields of the dictionary only. *)
SeenLater(p) == searchable

Seen(p) == With(searchable, Groups(input, p, searchable))
On(p) == Applies(input, p, searchable)

(* Mutant: what a pattern finds replaces what was found before. *)
SearchForgets ==
  /\ Turning /\ ~Missing(Head(todo), searchable)
  /\ todo' = Tail(todo)
  /\ fields' = IF On(Head(todo)) THEN Groups(input, Head(todo), searchable) ELSE fields
  /\ searchable' = Seen(Head(todo)) /\ goOn' = On(Head(todo))
  /\ UNCHANGED <<patterns, step, input, lastTime, events>>

Search ==
  /\ Turning /\ ~Missing(Head(todo), searchable)
  /\ todo' = Tail(todo)
  /\ fields' = With(fields, Groups(input, Head(todo), searchable))
  /\ searchable' = Seen(Head(todo)) /\ goOn' = On(Head(todo))
  /\ UNCHANGED <<patterns, step, input, lastTime, events>>

(* The time that a field of the event holds, 0 if there is none. *)
OwnTime ==
  IF ParseTime \in DOMAIN fields /\ fields[ParseTime] \in Text
  THEN TimeOf[fields[ParseTime]] ELSE 0

(* Mutant: the time of a line without one is forgotten with it. *)
StampedOnce(own) == own

Stamped(own) == IF own # 0 THEN own ELSE lastTime

(* The rest of rlep_line; DateParser raises if the text is no date. *)
Emit ==
  /\ step = "matching" /\ ~Turning
  /\ IF OwnTime = NotADate
     THEN step' = "raised" /\ UNCHANGED <<lastTime, events>>
     ELSE /\ lastTime' = Stamped(OwnTime)
          /\ events' = Append(events, [own |-> OwnTime, time |-> Stamped(OwnTime)])
          /\ step' = "idle"
  /\ UNCHANGED <<patterns, input, todo, searchable, fields, goOn>>

Process == Skip \/ Search \/ Emit

Lines == Line \/ Process

------------------------------------------------------------------------------
(* Type correctness of compute_fields and of the time that is kept. *)
LinesTypeOK ==
  /\ \A i \in DOMAIN patterns : patterns[i] \in Pattern
  /\ \A i \in DOMAIN todo : todo[i] \in Pattern
  /\ \A k \in DOMAIN fields : fields[k] \in Text \cup {None}
  /\ \A k \in DOMAIN fields : k \in DOMAIN searchable /\ searchable[k] = fields[k]
  /\ goOn \in BOOLEAN /\ step \in {"idle", "matching", "raised"}
  /\ lastTime \in Int /\ lastTime # NotADate

(* After(in, ps)[n]: the searchable fields after the first n of the patterns. *)
After(in, ps) ==
  LET s[n \in 0 .. Len(ps)] ==
        IF n = 0 THEN in.dict
        ELSE With(s[n - 1], Groups(in, ps[n], s[n - 1]))
  IN s

(* What compute_fields returns if the first n patterns are those that find   *)
(* something: every field that one of them finds, also one that a later one  *)
(* does not, and as the last of them found it; not what the dictionary had.  *)
FoundBy(in, ps, i) == Groups(in, ps[i], After(in, ps)[i - 1])
FieldsOf(in, ps, n) ==
  [k \in UNION {DOMAIN FoundBy(in, ps, i) : i \in 1 .. n} |-> After(in, ps)[n][k]]

(* The fields are those of all patterns before the first one that finds      *)
(* nothing, and no others: none that was found is lost to a later pattern,   *)
(* and the work list of compute_fields never takes up what it put back       *)
(* (re.py:67-76, 84-99).                                                     *)
UpToFirstMiss(ps) ==
  step = "matching" /\ ~Turning =>
    \E n \in 0 .. Len(ps) :
      /\ \A i \in 1 .. n : Applies(input, ps[i], After(input, ps)[i - 1])
      /\ n < Len(ps) => ~Applies(input, ps[n + 1], After(input, ps)[n])
      /\ fields = FieldsOf(input, ps, n)

(* An event has the time in its fields, or else that of the nearest earlier *)
(* event of this process that had one (rlep.py:43-50).                      *)
TimeIsNearest ==
  \A i \in DOMAIN events :
    \/ \E j \in 1 .. i :
         /\ events[j].own # 0 /\ events[i].time = events[j].own
         /\ \A k \in j + 1 .. i : events[k].own = 0
    \/ events[i].time = 0 /\ \A k \in 1 .. i : events[k].own = 0

(* compute_fields takes an input to "apply patterns to it", those of the     *)
(* form name:keyname in the field of that name (re.py:36-38): a pattern that *)
(* would find something in the end has been applied.                         *)
EveryPatternApplied ==
  step = "matching" /\ ~Turning =>
    \A i \in DOMAIN patterns :
      DOMAIN Groups(input, patterns[i], searchable) \subseteq DOMAIN fields

(* Liveness: the search for fields ends, also when patterns wait for a field *)
(* that never comes (re.py:67-76).                                           *)
SearchEnds == step = "matching" ~> step # "matching"
==============================================================================
