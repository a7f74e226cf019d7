----------------------------- MODULE Configured -----------------------------
(***************************************************************************)
(* One process from its configuration to the events of one of its paths:   *)
(* the options of the path that are in force in the end give its reader    *)
(* the patterns, in their order, and whether the path is served at all.    *)
(***************************************************************************)
EXTENDS Config, LineEvents

CONSTANTS Path,  \* the path that is followed
          Rname  \* the name of a pattern, without re_ and without its field

VARIABLE served \* self.paths

vars == <<confVars, lineVars, served>>

Init == ConfInit /\ LinesInit /\ served = {}

Setup == Configure /\ UNCHANGED <<lineVars, served>>

(* AttrProxyList: an option of the path, or else the daemon's setting. *)
Proxied(p, f) ==
  LET own == SelectSeq(paths[p], LAMBDA o : o[1] = f)
  IN IF own # <<>> THEN own[1][2] ELSE settings[f].text

(* setup_rlep and add_re: the options that are patterns, in their order; the *)
(* last of one name takes the place of the first.                            *)
Add(re, p) ==
  IF \E i \in DOMAIN re : Rname[re[i]] = Rname[p]
  THEN [i \in DOMAIN re |-> IF Rname[re[i]] = Rname[p] THEN p ELSE re[i]]
  ELSE Append(re, p)

PatternsOf(d) ==
  LET re[n \in 0 .. Len(d)] ==
        IF n = 0 THEN <<>>
        ELSE IF d[n][2] \in Pattern THEN Add(re[n - 1], d[n][2])
        ELSE re[n - 1]
  IN re[Len(d)]

(* update_path_config; --show-config ends there. *)
UpdatePaths ==
  /\ phase = "paths" /\ phase' = IF given.args.show THEN "shown" ELSE "ready"
  /\ served' = {p \in DOMAIN paths : \A f \in {"hec", "token"} : Proxied(p, f) # ""}
  /\ patterns' = IF Path \in DOMAIN paths THEN PatternsOf(paths[Path]) ELSE <<>>
  /\ UNCHANGED <<given, settings, paths, step, input, todo, searchable, fields, goOn,
                 lastTime, events>>

ReadLines ==
  /\ phase = "ready" /\ Path \in served
  /\ Lines
  /\ UNCHANGED <<confVars, served>>

Next == Setup \/ UpdatePaths \/ ReadLines

Spec == Init /\ [][Next]_vars

(* The interpreter goes on with a call that has begun. *)
LiveSpec == Spec /\ WF_vars(Process /\ UNCHANGED <<confVars, served>>)

------------------------------------------------------------------------------
(* Type correctness of both parts. *)
TypeOK == ConfTypeOK /\ LinesTypeOK /\ served \subseteq DOMAIN paths

(* End to end: the fields of an event are those that the options of this     *)
(* path find, in their order up to the first that finds nothing; the options *)
(* of -p, or those of the file if there is no -p, and never a mixture        *)
(* (daemon.py:257-271, rlep.py:20-26, re.py:60-99).                          *)
FieldsInForce ==
  step = "matching" => Path \in DOMAIN PathsOf /\ UpToFirstMiss(PatternsOf(PathsOf[Path]))
==============================================================================
