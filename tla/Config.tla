------------------------------- MODULE Config -------------------------------
(***************************************************************************)
(* How sslf/daemon.py finds its settings: keyword arguments, then the      *)
(* command line, the config file, and the command line once more.          *)
(*                                                                         *)
(* A value is a type and a text; str() of a bool or a number is its text.  *)
(***************************************************************************)
EXTENDS Naturals, Sequences, FiniteSets

CONSTANTS Word,      \* texts
          Default,   \* the class attributes: a value for each field
          Flag,      \* fields that argparse sets with action='store_true'
          Named,     \* fields with an option of their own; "config_file" is one
          FileNames, \* names of config files
          Numeral,   \* texts that int() and float() understand
          Kws, Args, Files \* what may be given: keywords, command lines, contents

Field == DOMAIN Default
TrueWord == {"true", "yes", "1"}
FalseWord == {"false", "no", "0"}
BoolWord == TrueWord \cup FalseWord

Bool(b) == [type |-> "bool", text |-> IF b THEN "True" ELSE "False"]
Str(t) == [type |-> "str", text |-> t]

Settings == [Field -> [type : {"none", "bool", "num", "str"}, text : Word]]

ASSUME ConfigAssumption ==
  /\ Default \in Settings /\ {"True", "False"} \subseteq Word
  /\ {"config_file"} \subseteq Named /\ Named \cup Flag \subseteq Field
  /\ \A f \in Flag : Default[f].type = "bool"
  /\ \A f \in Named : Default[f].type = "str"
  /\ Default["config_file"].text \in FileNames

(* Keywords have the type of their field; the rest of what is given is text. *)
Typed(kv) == \A f \in DOMAIN kv : kv[f] \in Word
PathsTyped(d) == d \in [DOMAIN d -> Seq(Word \X Word)]

ASSUME GivenAssumption ==
  /\ \A kw \in Kws : \A f \in DOMAIN kw \cap Field :
       kw[f] \in [type : {IF Default[f].type = "none" THEN "str" ELSE Default[f].type},
                  text : Word]
  /\ \A a \in Args : /\ a.flags \subseteq Flag /\ DOMAIN a.named \subseteq Named
                    /\ Typed(a.named) /\ Typed(a.opt)
                    /\ PathsTyped(a.paths)
  /\ \A c \in Files : \A n \in FileNames : Typed(c[n].sslf) /\ PathsTyped(c[n].paths)

VARIABLES given,    \* kw, args, and the files: constant
          settings, \* the attributes of the Daemon
          paths,    \* _path_config: the options of each path, as a dict in its order
          phase

confVars == <<given, settings, paths, phase>>

Empty == [x \in {} |-> <<>>]

(* dict.update: a key that is there keeps its place. *)
Keys(d) == {d[i][1] : i \in DOMAIN d}
Updated(d, e) ==
  LET New(o) == o[1] \notin Keys(d)
      Last(o) == IF o[1] \in Keys(e)
                 THEN CHOOSE n \in {e[i] : i \in DOMAIN e} : n[1] = o[1] ELSE o
  IN [i \in DOMAIN d |-> Last(d[i])] \o SelectSeq(e, New)

------------------------------------------------------------------------------
(* _grok_args converts to the type of the value that is there; a text that *)
(* is no boolean stays a text.                                             *)
Converted(old, new) ==
  CASE old.type = "bool" /\ new.type = "str" ->
         IF new.text \in BoolWord THEN Bool(new.text \in TrueWord) ELSE new
    [] old.type = "none" -> new
    [] OTHER -> [type |-> old.type, text |-> new.text]

Raises(s, kv) ==
  \E f \in DOMAIN kv \cap Field : s[f].type = "num" /\ kv[f].text \notin Numeral

Grok(s, kv) ==
  [f \in Field |-> IF f \in DOMAIN kv THEN Converted(s[f], kv[f]) ELSE s[f]]

(* The default of an option in argparse is the current setting, *)
Unset(s, f) == s[f]

(* that of a flag is False: what parse_args() returns. *)
Namespace(s) ==
  [f \in Named \cup Flag |->
     CASE f \in Flag -> Bool(f \in given.args.flags)
       [] f \in DOMAIN given.args.named -> Str(given.args.named[f])
       [] OTHER -> Unset(s, f)]

Texts(kv) == [f \in DOMAIN kv |-> Str(kv[f])]

(* The config file that a setting names; one that is not there is empty. *)
FileOf(s) ==
  IF s["config_file"].text \in FileNames THEN given.files[s["config_file"].text]
  ELSE [sslf |-> Empty, paths |-> Empty]

(* The four passes over the settings. *)
WithKw(s) == Grok(s, given.kw)
WithNamed(s) == Grok(s, Namespace(s))
WithFile(s) == Grok(s, Texts(FileOf(s).sslf))
WithOpts(s) == Grok(s, Texts(given.args.opt))

ConfInit ==
  /\ given \in [kw : Kws, args : Args, files : Files]
  /\ settings = Default /\ paths = Empty /\ phase = "kw"

Keep == UNCHANGED given

GrokKw ==
  /\ phase = "kw"
  /\ IF DOMAIN given.kw \subseteq Field /\ ~Raises(settings, given.kw)
     THEN settings' = WithKw(settings) /\ phase' = "named"
     ELSE phase' = "failed" /\ UNCHANGED settings
  /\ UNCHANGED paths /\ Keep

(* Mutant: --show-config does not read the file. *)
AfterNamedBlind == IF phase = "named" THEN "opts" ELSE "opts again"

AfterNamed ==
  CASE phase = "named again" -> "opts again"
    [] phase = "named" /\ given.args.show -> "show"
    [] OTHER -> "opts"

(* parse_args up to --show-config. *)
GrokNamed ==
  /\ phase \in {"named", "named again"} /\ phase' = AfterNamed
  /\ settings' = WithNamed(settings)
  /\ UNCHANGED paths /\ Keep

(* add_path_config for each section of the file. *)
AddPaths(d) ==
  [p \in DOMAIN paths \cup DOMAIN d |->
     IF p \notin DOMAIN d THEN paths[p]
     ELSE IF p \in DOMAIN paths THEN Updated(paths[p], d[p]) ELSE d[p]]

(* Mutant: no second parse. *)
AfterFileLast == IF phase = "show" THEN "opts" ELSE "paths"

AfterFile == IF phase = "show" THEN "opts" ELSE "named again"

(* read_config: the second pass, or from inside --show-config. *)
ReadConfig ==
  /\ phase \in {"file", "show"}
  /\ IF Raises(settings, Texts(FileOf(settings).sslf))
     THEN phase' = "failed" /\ UNCHANGED <<settings, paths>>
     ELSE /\ settings' = WithFile(settings)
          /\ paths' = AddPaths(FileOf(settings).paths)
          /\ phase' = AfterFile
  /\ Keep

PathsGiven == IF given.args.paths = Empty THEN paths ELSE given.args.paths

(* The rest of parse_args: -o and -p. *)
GrokOpts ==
  /\ phase \in {"opts", "opts again"}
  /\ LET opt == given.args.opt
     IN IF DOMAIN opt \subseteq Field /\ ~Raises(settings, Texts(opt))
        THEN /\ settings' = WithOpts(settings)
             /\ paths' = PathsGiven
             /\ phase' = IF given.args.show \/ phase = "opts again" THEN "paths" ELSE "file"
        ELSE phase' = "failed" /\ UNCHANGED <<settings, paths>>
  /\ Keep

Configure == GrokKw \/ GrokNamed \/ ReadConfig \/ GrokOpts

------------------------------------------------------------------------------
(* Every word that is given anywhere for a boolean field is a boolean one. *)
Sound(f) ==
  Default[f].type = "bool" =>
    \A kv \in {given.args.opt} \cup {given.files[n].sslf : n \in FileNames} :
      f \in DOMAIN kv => kv[f] \in BoolWord

(* The effect of a text for a field. *)
Means(f, t) ==
  IF Default[f].type = "bool" THEN settings[f] = Bool(t \in TrueWord)
  ELSE settings[f].text = t

Started == phase \in {"paths", "ready"} /\ ~given.args.show

(* Type correctness of the settings: a field keeps its type, except that one *)
(* without a value takes any and a flag may become a text.                   *)
ConfTypeOK ==
  /\ settings \in Settings
  /\ \A f \in Field :
       settings[f].type = Default[f].type
       \/ Default[f].type = "none" \/ ~Sound(f)
  /\ phase \in {"kw", "named", "show", "opts", "file", "named again",
                "opts again", "paths", "ready", "shown", "failed"}

(* "parse args again to make sure they override configs when given"         *)
(* (daemon.py:84): whatever the file says, what the command line gives with  *)
(* -o, and then with the option itself, is in force, provided that booleans  *)
(* are written as such.  A word like "maybe" turns a flag into a text, and a *)
(* later "no" into one that is true.                                         *)
CommandLineWins ==
  Started => \A f \in Field : Sound(f) =>
    LET a == given.args
    IN /\ f \in DOMAIN a.opt => Means(f, a.opt[f])
       /\ f \in a.flags \ DOMAIN a.opt => settings[f] = Bool(TRUE)
       /\ f \in DOMAIN a.named \ DOMAIN a.opt => Means(f, a.named[f])

(* The settings of the file that is read, which -c, -o and keywords choose. *)
FileRead == FileOf(WithOpts(WithNamed(WithKw(Default)))).sslf

OnCommandLine == given.args.flags \cup DOMAIN given.args.named \cup DOMAIN given.args.opt

(* A setting of the file that was read is in force unless the command line   *)
(* has one, in spite of the second parse that sets every field with an       *)
(* option again (daemon.py:220-239).  FileFlagsHeard is about flags.         *)
FileIsHeard ==
  Started => \A f \in (DOMAIN FileRead \cap Field) \ (Flag \cup OnCommandLine) :
    Sound(f) => Means(f, FileRead[f])

(* "parse args again to make sure they override configs when given"         *)
(* (daemon.py:84), of flags: one that the file sets, as example/sslf.conf    *)
(* and t/*.conf do, is in force if the command line does not give it.        *)
FileFlagsHeard ==
  Started => \A f \in (DOMAIN FileRead \cap Flag) \ OnCommandLine :
    Sound(f) => Means(f, FileRead[f])

(* Where neither the command line nor the file has a setting, the keyword    *)
(* that was given is in force, unconverted, or else the class attribute: no  *)
(* pass over other settings, nor the defaults that argparse took from the    *)
(* settings themselves, changes it (daemon.py:79-84, 119-135, 220-225).      *)
(* Flags are left out: whatever a keyword says, parsing turns them off.      *)
KeywordOrDefault ==
  Started => \A f \in Field \ (Flag \cup OnCommandLine \cup DOMAIN FileRead) :
    settings[f] = IF f \in DOMAIN given.kw THEN given.kw[f] ELSE Default[f]

(* The paths in force are those of -p if there are any, although the file is *)
(* merged into them in between, and otherwise those of the file              *)
(* (daemon.py:257-271, 137-142).                                             *)
PathsOf ==
  IF given.args.paths # Empty THEN given.args.paths
  ELSE FileOf(WithOpts(WithNamed(WithKw(Default)))).paths
PathsInForce == Started => paths = PathsOf

(* The daemon starts with what its sources say: the command line before the  *)
(* file, the file before a keyword, and a keyword before the default; of     *)
(* flags it says only that one on the command line is in force.              *)
InForce == CommandLineWins /\ FileIsHeard /\ KeywordOrDefault /\ PathsInForce

(* "show the final daemon config and exit" (daemon.py:226): --show-config     *)
(* reads the file between the options and -o, so what it shows is what a      *)
(* start would use, except for what both the file and the command line say,   *)
(* for flags in the file, and for a config file that is chosen with -o.       *)
ShownIsFinal ==
  phase = "shown" /\ "config_file" \notin DOMAIN given.args.opt =>
    LET final == WithOpts(WithNamed(WithFile(WithOpts(WithNamed(WithKw(Default))))))
        s == FileOf(WithNamed(WithKw(Default))).sslf
    IN \A f \in Field :
         f \notin DOMAIN s \cap (Flag \cup DOMAIN given.args.named) /\ Sound(f) =>
           settings[f] = final[f]
==============================================================================
