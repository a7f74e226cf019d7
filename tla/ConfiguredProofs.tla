-------------------------- MODULE ConfiguredProofs --------------------------
(***************************************************************************)
(* Which source is in force, and what lines become, for all settings and   *)
(* files, all patterns and all lines.                                      *)
(***************************************************************************)
EXTENDS Configured, SequenceTheorems, WellFoundedInduction, TLAPS

------------------------------------------------------------------------------
(* What type a field has after any number of passes: a field without a value *)
(* gets a text, and a flag becomes one only for a word that is no boolean.   *)
TypesOf(f) ==
  CASE Default[f].type = "none" -> {"none", "str"}
    [] Default[f].type = "bool" /\ ~Sound(f) -> {"bool", "str"}
    [] OTHER -> {Default[f].type}

KeepsTypes(s) == s \in Settings /\ \A f \in Field : s[f].type \in TypesOf(f)

(* What a pass is given. *)
Fits(kv) ==
  \A f \in DOMAIN kv \cap Field :
    /\ kv[f] \in [type : {"bool", "num", "str"}, text : Word]
    /\ kv[f].type \in {Default[f].type, "str"}
    /\ Default[f].type = "bool" /\ Sound(f) =>
         kv[f].type = "bool" \/ kv[f].text \in BoolWord

(* The settings between the passes of a start, and what --show-config shows. *)
S1 == WithKw(Default)
S2 == WithNamed(S1)
S3 == WithOpts(S2)
S4 == WithFile(S3)
S5 == WithNamed(S4)
S6 == WithOpts(S5)
Shown1 == WithFile(S2)
Shown2 == WithOpts(Shown1)

Show == given.args.show

Paths == IF given.args.paths = Empty THEN FileOf(S3).paths ELSE given.args.paths
PathsShown == IF given.args.paths = Empty THEN FileOf(S2).paths ELSE given.args.paths

(* The pass each phase has come to.  The options of -p are merged with those *)
(* of the file before they are set again: what the paths are in between does *)
(* not matter.                                                               *)
PassesDone ==
  /\ phase = "kw" => settings = Default /\ paths = Empty
  /\ phase = "named" => settings = S1 /\ paths = Empty
  /\ phase = "show" => Show /\ settings = S2 /\ paths = Empty
  /\ phase = "opts" /\ Show => settings = Shown1 /\ paths = FileOf(S2).paths
  /\ phase = "opts" /\ ~Show => settings = S2 /\ paths = Empty
  /\ phase = "file" =>
       ~Show /\ settings = S3 /\ (given.args.paths = Empty => paths = Empty)
  /\ phase = "named again" =>
       ~Show /\ settings = S4 /\ (given.args.paths = Empty => paths = FileOf(S3).paths)
  /\ phase = "opts again" =>
       ~Show /\ settings = S5 /\ (given.args.paths = Empty => paths = FileOf(S3).paths)
  /\ phase \in {"paths", "shown"} /\ Show => settings = Shown2 /\ paths = PathsShown
  /\ phase \in {"paths", "ready"} /\ ~Show => settings = S6 /\ paths = Paths
  /\ (phase = "ready" => ~Show) /\ (phase = "shown" => Show)

Phase == {"kw", "named", "show", "opts", "file", "named again", "opts again",
          "paths", "ready", "shown", "failed"}

GivenKept == given \in [kw : Kws, args : Args, files : Files]

ConfIInv == GivenKept /\ KeepsTypes(settings) /\ phase \in Phase /\ PassesDone

------------------------------------------------------------------------------
(* One pass. *)

LEMMA DefaultTypes == KeepsTypes(Default)
BY ConfigAssumption DEF KeepsTypes, TypesOf, Settings, Field

LEMMA ConvertedType ==
  ASSUME NEW f \in Field, NEW old \in [type : {"none", "bool", "num", "str"}, text : Word],
         old.type \in TypesOf(f),
         NEW new \in [type : {"bool", "num", "str"}, text : Word],
         new.type \in {Default[f].type, "str"},
         Default[f].type = "bool" /\ Sound(f) => new.type = "bool" \/ new.text \in BoolWord
  PROVE  /\ Converted(old, new) \in [type : {"none", "bool", "num", "str"}, text : Word]
         /\ Converted(old, new).type \in TypesOf(f)
<1>1. {"True", "False"} \subseteq Word
  BY ConfigAssumption
<1>2. CASE old.type = "bool" /\ new.type = "str"
  <2>1. CASE new.text \in BoolWord
    <3>1. Converted(old, new) = Bool(new.text \in TrueWord)
      BY <1>2, <2>1 DEF Converted
    <3>2. Bool(new.text \in TrueWord) = [type |-> "bool", text |-> "True"]
          \/ Bool(new.text \in TrueWord) = [type |-> "bool", text |-> "False"]
      BY DEF Bool
    <3> QED
      BY <1>1, <1>2, <3>1, <3>2
  <2>2. CASE new.text \notin BoolWord
    <3>1. Converted(old, new) = new
      BY <1>2, <2>2 DEF Converted
    <3>2. "str" \in TypesOf(f)
      BY <1>2, <2>2 DEF TypesOf
    <3> QED
      BY <1>2, <3>1, <3>2
  <2> QED
    BY <2>1, <2>2
<1>3. CASE ~(old.type = "bool" /\ new.type = "str") /\ old.type = "none"
  <2>1. Converted(old, new) = new
    BY <1>3 DEF Converted
  <2>2. Default[f].type = "none" /\ new.type = "str"
    BY <1>3 DEF TypesOf
  <2> QED
    BY <2>1, <2>2 DEF TypesOf
<1>4. CASE ~(old.type = "bool" /\ new.type = "str") /\ old.type # "none"
  <2>1. Converted(old, new) = [type |-> old.type, text |-> new.text]
    BY <1>4 DEF Converted
  <2> QED
    BY <2>1
<1> QED
  BY <1>2, <1>3, <1>4

LEMMA GrokTypes ==
  ASSUME NEW s, KeepsTypes(s), NEW kv, Fits(kv)
  PROVE  KeepsTypes(Grok(s, kv))
<1> SUFFICES ASSUME NEW f \in Field
             PROVE  /\ Grok(s, kv)[f] \in [type : {"none", "bool", "num", "str"}, text : Word]
                    /\ Grok(s, kv)[f].type \in TypesOf(f)
  BY DEF KeepsTypes, Settings, Grok
<1>1. /\ s[f] \in [type : {"none", "bool", "num", "str"}, text : Word]
      /\ s[f].type \in TypesOf(f)
  BY DEF KeepsTypes, Settings
<1>2. CASE f \in DOMAIN kv
  <2>1. Grok(s, kv)[f] = Converted(s[f], kv[f])
    BY <1>2 DEF Grok
  <2> QED
    BY <1>1, <1>2, <2>1, ConvertedType DEF Fits
<1>3. CASE f \notin DOMAIN kv
  BY <1>1, <1>3 DEF Grok
<1> QED
  BY <1>2, <1>3

LEMMA TextsFit ==
  ASSUME GivenKept
  PROVE  /\ Fits(given.kw)
         /\ Fits(Texts(given.args.opt))
         /\ \A s : Fits(Texts(FileOf(s).sslf))
<1>1. /\ given.kw \in Kws /\ given.args \in Args /\ given.files \in Files
  BY DEF GivenKept
<1>2. Fits(given.kw)
  <2> SUFFICES ASSUME NEW f \in DOMAIN given.kw \cap Field
               PROVE  /\ given.kw[f] \in [type : {"bool", "num", "str"}, text : Word]
                      /\ given.kw[f].type \in {Default[f].type, "str"}
                      /\ Default[f].type = "bool" => given.kw[f].type = "bool"
    BY DEF Fits
  <2>1. given.kw[f] \in [type : {IF Default[f].type = "none" THEN "str" ELSE Default[f].type},
                         text : Word]
    BY <1>1, GivenAssumption
  <2>2. Default[f].type \in {"none", "bool", "num", "str"}
    BY ConfigAssumption DEF Settings
  <2> QED
    BY <2>1, <2>2
<1>3. ASSUME NEW kv, Typed(kv),
             \A f \in Field : Sound(f) /\ Default[f].type = "bool" /\ f \in DOMAIN kv =>
                kv[f] \in BoolWord
      PROVE  Fits(Texts(kv))
  <2> SUFFICES ASSUME NEW f \in DOMAIN Texts(kv) \cap Field
               PROVE  /\ Texts(kv)[f] \in [type : {"bool", "num", "str"}, text : Word]
                      /\ Texts(kv)[f].type \in {Default[f].type, "str"}
                      /\ Default[f].type = "bool" /\ Sound(f) => Texts(kv)[f].text \in BoolWord
    BY DEF Fits
  <2>1. f \in DOMAIN kv /\ Texts(kv)[f] = [type |-> "str", text |-> kv[f]] /\ kv[f] \in Word
    BY <1>3 DEF Texts, Str, Typed
  <2> QED
    BY <1>3, <2>1
<1>4. Fits(Texts(given.args.opt))
  <2>1. Typed(given.args.opt)
    BY <1>1, GivenAssumption
  <2> QED
    BY <1>3, <2>1 DEF Sound
<1>5. ASSUME NEW s PROVE Fits(Texts(FileOf(s).sslf))
  <2>1. CASE s["config_file"].text \in FileNames
    <3> DEFINE n == s["config_file"].text
    <3>1. FileOf(s).sslf = given.files[n].sslf
      BY <2>1 DEF FileOf
    <3>2. Typed(given.files[n].sslf)
      BY <1>1, <2>1, GivenAssumption
    <3>3. \A f \in Field : Sound(f) /\ Default[f].type = "bool" /\ f \in DOMAIN given.files[n].sslf
             => given.files[n].sslf[f] \in BoolWord
      BY <2>1 DEF Sound
    <3> QED
      BY <1>3, <3>1, <3>2, <3>3
  <2>2. CASE s["config_file"].text \notin FileNames
    <3>1. FileOf(s).sslf = Empty
      BY <2>2 DEF FileOf
    <3>2. DOMAIN Empty = {}
      BY DEF Empty
    <3> QED
      BY <1>3, <3>1, <3>2 DEF Typed
  <2> QED
    BY <2>1, <2>2
<1> QED
  BY <1>2, <1>4, <1>5

LEMMA NamespaceFits ==
  ASSUME GivenKept, NEW s, KeepsTypes(s)
  PROVE  Fits(Namespace(s))
<1> SUFFICES ASSUME NEW f \in DOMAIN Namespace(s) \cap Field
             PROVE  /\ Namespace(s)[f] \in [type : {"bool", "num", "str"}, text : Word]
                    /\ Namespace(s)[f].type = Default[f].type
  BY DEF Fits
<1>1. /\ f \in Named \cup Flag /\ {"True", "False"} \subseteq Word
      /\ f \in Flag => Default[f].type = "bool"
      /\ f \in Named => Default[f].type = "str"
  BY ConfigAssumption DEF Namespace
<1>2. CASE f \in Flag
  <2>1. \/ Namespace(s)[f] = [type |-> "bool", text |-> "True"]
        \/ Namespace(s)[f] = [type |-> "bool", text |-> "False"]
    <3>1. f \notin DOMAIN given.args.named
      BY <1>1, <1>2, GivenAssumption DEF GivenKept
    <3> QED
      BY <1>1, <1>2, <3>1 DEF Namespace, Bool
  <2> QED
    BY <1>1, <1>2, <2>1
<1>3. CASE f \notin Flag /\ f \in DOMAIN given.args.named
  <2>1. Namespace(s)[f] = [type |-> "str", text |-> given.args.named[f]]
    BY <1>1, <1>3 DEF Namespace, Str
  <2>2. given.args.named[f] \in Word
    BY <1>3, GivenAssumption DEF GivenKept, Typed
  <2> QED
    BY <1>1, <1>3, <2>1, <2>2
<1>4. CASE f \notin Flag /\ f \notin DOMAIN given.args.named
  <2>1. Namespace(s)[f] = s[f]
    BY <1>1, <1>4 DEF Namespace, Unset
  <2>2. s[f].type = "str" /\ s[f] \in [type : {"none", "bool", "num", "str"}, text : Word]
    BY <1>1, <1>4 DEF KeepsTypes, TypesOf, Settings
  <2> QED
    BY <1>1, <1>4, <2>1, <2>2
<1> QED
  BY <1>2, <1>3, <1>4

LEMMA PassesKeepTypes ==
  ASSUME GivenKept, NEW s, KeepsTypes(s)
  PROVE  /\ KeepsTypes(WithKw(s)) /\ KeepsTypes(WithNamed(s))
         /\ KeepsTypes(WithFile(s)) /\ KeepsTypes(WithOpts(s))
BY GrokTypes, TextsFit, NamespaceFits DEF WithKw, WithNamed, WithFile, WithOpts

------------------------------------------------------------------------------
(* The passes, one after the other. *)

LEMMA PassesFramed ==
  ASSUME UNCHANGED given
  PROVE  /\ S1' = S1 /\ S2' = S2 /\ S3' = S3 /\ S4' = S4 /\ S5' = S5 /\ S6' = S6
         /\ Shown1' = Shown1 /\ Shown2' = Shown2 /\ Paths' = Paths
         /\ PathsShown' = PathsShown /\ FileOf(S2)' = FileOf(S2) /\ FileOf(S3)' = FileOf(S3)
<1>1. S1' = S1
  BY DEF S1, WithKw
<1>2. S2' = S2
  BY <1>1 DEF S2, WithNamed, Namespace, Unset
<1>3. S3' = S3
  BY <1>2 DEF S3, WithOpts
<1>4. S4' = S4
  BY <1>3 DEF S4, WithFile, FileOf
<1>5. S5' = S5
  BY <1>4 DEF S5, WithNamed, Namespace, Unset
<1>6. S6' = S6
  BY <1>5 DEF S6, WithOpts
<1>7. Shown1' = Shown1
  BY <1>2 DEF Shown1, WithFile, FileOf
<1>8. Shown2' = Shown2
  BY <1>7 DEF Shown2, WithOpts
<1>9. FileOf(S2)' = FileOf(S2) /\ FileOf(S3)' = FileOf(S3)
  BY <1>2, <1>3 DEF FileOf
<1>10. Paths' = Paths /\ PathsShown' = PathsShown
  BY <1>9 DEF Paths, PathsShown
<1> QED
  BY <1>1, <1>2, <1>3, <1>4, <1>5, <1>6, <1>7, <1>8, <1>9, <1>10

LEMMA TypesFramed ==
  ASSUME UNCHANGED given, GivenKept, KeepsTypes(settings')
  PROVE  GivenKept' /\ KeepsTypes(settings)'
<1>1. GivenKept'
  BY DEF GivenKept
<1>2. \A f \in Field : Sound(f)' <=> Sound(f)
  BY DEF Sound
<1>3. \A f \in Field : TypesOf(f)' = TypesOf(f)
  BY <1>2 DEF TypesOf
<1> QED
  BY <1>1, <1>3 DEF KeepsTypes

(* The first file that is merged into no options at all. *)
LEMMA AddedToNone ==
  ASSUME GivenKept, NEW s, paths = Empty
  PROVE  AddPaths(FileOf(s).paths) = FileOf(s).paths
<1> DEFINE d == FileOf(s).paths
<1>1. DOMAIN paths = {}
  BY DEF Empty
<1>2. AddPaths(d) = [p \in DOMAIN d |-> d[p]]
  BY <1>1 DEF AddPaths
<1>3. d = [p \in DOMAIN d |-> d[p]]
  <2>1. CASE s["config_file"].text \in FileNames
    <3>1. d \in [DOMAIN d -> Seq(Word \X Word)]
      BY <2>1, GivenAssumption DEF FileOf, GivenKept, PathsTyped
    <3> QED
      BY <3>1
  <2>2. CASE s["config_file"].text \notin FileNames
    <3>1. d = Empty
      BY <2>2 DEF FileOf
    <3> QED
      BY <3>1 DEF Empty
  <2> QED
    BY <2>1, <2>2
<1> QED
  BY <1>2, <1>3

LEMMA ConfiguredStep ==
  ASSUME ConfIInv, Configure
  PROVE  ConfIInv'
<1>1. GivenKept /\ KeepsTypes(settings) /\ PassesDone /\ UNCHANGED given
  BY DEF ConfIInv, Configure, GrokKw, GrokNamed, ReadConfig, GrokOpts, Keep
<1>2. CASE GrokKw
  <2>1. phase = "kw" /\ settings = Default /\ paths = Empty /\ UNCHANGED paths
    BY <1>1, <1>2 DEF GrokKw, PassesDone
  <2>2. \/ phase' = "failed" /\ settings' = settings
        \/ phase' = "named" /\ settings' = S1
    BY <1>2, <2>1 DEF GrokKw, S1
  <2>3. KeepsTypes(settings')
    BY <1>1, <2>1, <2>2, PassesKeepTypes DEF S1
  <2>4. PassesDone'
    BY <1>1, <2>1, <2>2, PassesFramed DEF PassesDone
  <2> QED
    BY <1>1, <2>2, <2>3, <2>4, TypesFramed DEF ConfIInv, Phase
<1>3. CASE GrokNamed
  <2>1. /\ settings' = WithNamed(settings) /\ UNCHANGED paths
        /\ \/ phase = "named again" /\ phase' = "opts again"
           \/ phase = "named" /\ phase' = IF Show THEN "show" ELSE "opts"
    <3>1. CASE phase = "named"
      BY <1>3, <3>1 DEF GrokNamed, AfterNamed, Show
    <3>2. CASE phase = "named again"
      BY <1>3, <3>2 DEF GrokNamed, AfterNamed
    <3> QED
      BY <1>3, <3>1, <3>2 DEF GrokNamed
  <2>2. KeepsTypes(settings')
    BY <1>1, <2>1, PassesKeepTypes
  <2>3. PassesDone'
    <3>1. CASE phase = "named"
      <4>1. settings' = S2 /\ paths' = Empty
        BY <1>1, <2>1, <3>1 DEF PassesDone, S2
      <4> QED
        BY <1>1, <2>1, <3>1, <4>1, PassesFramed DEF PassesDone, Show
    <3>2. CASE phase = "named again"
      <4>1. settings' = S5 /\ ~Show /\ (given.args.paths = Empty => paths' = FileOf(S3).paths)
        BY <1>1, <2>1, <3>2 DEF PassesDone, S5
      <4> QED
        BY <1>1, <2>1, <3>2, <4>1, PassesFramed DEF PassesDone, Show
    <3> QED
      BY <2>1, <3>1, <3>2
  <2> QED
    BY <1>1, <2>1, <2>2, <2>3, TypesFramed DEF ConfIInv, Phase
<1>4. CASE ReadConfig
  <2>1. \/ phase' = "failed" /\ UNCHANGED <<settings, paths>>
        \/ /\ settings' = WithFile(settings) /\ paths' = AddPaths(FileOf(settings).paths)
           /\ \/ phase = "show" /\ phase' = "opts"
              \/ phase = "file" /\ phase' = "named again"
    BY <1>4 DEF ReadConfig, AfterFile
  <2>2. KeepsTypes(settings')
    BY <1>1, <2>1, PassesKeepTypes
  <2>3. PassesDone'
    <3>1. CASE phase' = "failed"
      BY <3>1 DEF PassesDone
    <3>2. CASE phase' = "opts"
      <4>1. settings' = Shown1 /\ Show /\ paths' = FileOf(S2).paths
        BY <1>1, <2>1, <3>2, AddedToNone DEF PassesDone, Shown1
      <4> QED
        BY <1>1, <3>2, <4>1, PassesFramed DEF PassesDone, Show
    <3>3. CASE phase' = "named again"
      <4>1. settings' = S4 /\ ~Show /\ (given.args.paths = Empty => paths' = FileOf(S3).paths)
        BY <1>1, <2>1, <3>3, AddedToNone DEF PassesDone, S4
      <4> QED
        BY <1>1, <3>3, <4>1, PassesFramed DEF PassesDone, Show
    <3> QED
      BY <2>1, <3>1, <3>2, <3>3
  <2> QED
    BY <1>1, <2>1, <2>2, <2>3, TypesFramed DEF ConfIInv, Phase
<1>5. CASE GrokOpts
  <2>1. \/ phase' = "failed" /\ UNCHANGED <<settings, paths>>
        \/ /\ settings' = WithOpts(settings) /\ paths' = PathsGiven
           /\ phase' = IF Show \/ phase = "opts again" THEN "paths" ELSE "file"
    BY <1>5 DEF GrokOpts, Show
  <2>2. KeepsTypes(settings')
    BY <1>1, <2>1, PassesKeepTypes
  <2>3. PassesDone'
    <3>1. CASE phase' = "failed"
      BY <3>1 DEF PassesDone
    <3>2. CASE phase' # "failed" /\ phase = "opts" /\ Show
      <4>1. settings' = Shown2 /\ paths' = PathsShown /\ phase' = "paths"
        BY <1>1, <2>1, <3>2 DEF PassesDone, Shown2, PathsGiven, PathsShown
      <4> QED
        BY <1>1, <3>2, <4>1, PassesFramed DEF PassesDone, Show
    <3>3. CASE phase' # "failed" /\ phase = "opts" /\ ~Show
      <4>1. settings' = S3 /\ phase' = "file" /\ (given.args.paths = Empty => paths' = Empty)
        BY <1>1, <2>1, <3>3 DEF PassesDone, S3, PathsGiven
      <4> QED
        BY <1>1, <3>3, <4>1, PassesFramed DEF PassesDone, Show
    <3>4. CASE phase' # "failed" /\ phase = "opts again"
      <4>1. settings' = S6 /\ phase' = "paths" /\ ~Show /\ paths' = Paths
        BY <1>1, <2>1, <3>4 DEF PassesDone, S6, PathsGiven, Paths
      <4> QED
        BY <1>1, <3>4, <4>1, PassesFramed DEF PassesDone, Show
    <3> QED
      BY <1>5, <3>1, <3>2, <3>3, <3>4 DEF GrokOpts
  <2>4. phase' \in Phase
    BY <2>1 DEF Phase
  <2> QED
    BY <1>1, <2>2, <2>3, <2>4, TypesFramed DEF ConfIInv
<1> QED
  BY <1>2, <1>3, <1>4, <1>5 DEF Configure

LEMMA ConfInductive == Spec => []ConfIInv
<1>1. Init => ConfIInv
  BY DefaultTypes DEF Init, ConfInit, ConfIInv, GivenKept, PassesDone, Phase
<1>2. ConfIInv /\ [Next]_vars => ConfIInv'
  <2> SUFFICES ASSUME ConfIInv, [Next]_vars PROVE ConfIInv'
    OBVIOUS
  <2>1. CASE Setup
    BY <2>1, ConfiguredStep DEF Setup
  <2>2. CASE UNCHANGED confVars
    BY <2>2, PassesFramed, TypesFramed DEF confVars, ConfIInv, PassesDone, Show
  <2>3. CASE UpdatePaths
    <3>1. /\ phase = "paths" /\ phase' = IF Show THEN "shown" ELSE "ready"
          /\ UNCHANGED <<given, settings, paths>>
      BY <2>3 DEF UpdatePaths, Show
    <3>2. PassesDone'
      BY <3>1, PassesFramed DEF ConfIInv, PassesDone, Show
    <3> QED
      BY <3>1, <3>2, TypesFramed DEF ConfIInv, Phase
  <2> QED
    BY <2>1, <2>2, <2>3 DEF Next, ReadLines, vars
<1> QED
  BY <1>1, <1>2, PTL DEF Spec

------------------------------------------------------------------------------
(* What one pass does to one field, under the types of the settings. *)

ValueOf(f, t) ==
  IF Default[f].type = "bool" THEN Bool(t \in TrueWord)
  ELSE [type |-> IF Default[f].type = "none" THEN "str" ELSE Default[f].type, text |-> t]

LEMMA TextIsValue ==
  ASSUME NEW s, KeepsTypes(s), NEW f \in Field, Sound(f),
         NEW t, Default[f].type = "bool" => t \in BoolWord
  PROVE  Converted(s[f], Str(t)) = ValueOf(f, t)
<1>1. s[f].type \in TypesOf(f) /\ Default[f].type \in {"none", "bool", "num", "str"}
  BY ConfigAssumption DEF KeepsTypes, Settings
<1>2. Str(t).type = "str" /\ Str(t).text = t /\ Str(t) = [type |-> "str", text |-> t]
  BY DEF Str
<1>3. CASE Default[f].type = "bool"
  <2>1. s[f].type = "bool"
    BY <1>1, <1>3 DEF TypesOf
  <2> QED
    BY <1>2, <1>3, <2>1, Zenon DEF Converted, ValueOf
<1>4. CASE Default[f].type = "none"
  <2>1. s[f].type \in {"none", "str"}
    BY <1>1, <1>4 DEF TypesOf
  <2> QED
    BY <1>2, <1>4, <2>1 DEF Converted, ValueOf
<1>5. CASE Default[f].type \in {"num", "str"}
  <2>1. s[f].type = Default[f].type
    BY <1>1, <1>5 DEF TypesOf
  <2> QED
    BY <1>2, <1>5, <2>1 DEF Converted, ValueOf
<1> QED
  BY <1>1, <1>3, <1>4, <1>5

LEMMA AfterOpts ==
  ASSUME NEW s, KeepsTypes(s), NEW f \in Field, Sound(f)
  PROVE  WithOpts(s)[f] =
           IF f \in DOMAIN given.args.opt THEN ValueOf(f, given.args.opt[f]) ELSE s[f]
<1>1. CASE f \in DOMAIN given.args.opt
  <2>1. WithOpts(s)[f] = Converted(s[f], Str(given.args.opt[f]))
    BY <1>1 DEF WithOpts, Grok, Texts
  <2>2. Default[f].type = "bool" => given.args.opt[f] \in BoolWord
    BY <1>1 DEF Sound
  <2> QED
    BY <1>1, <2>1, <2>2, TextIsValue
<1>2. CASE f \notin DOMAIN given.args.opt
  BY <1>2 DEF WithOpts, Grok, Texts
<1> QED
  BY <1>1, <1>2

LEMMA AfterReading ==
  ASSUME NEW s, KeepsTypes(s), NEW f \in Field, Sound(f)
  PROVE  WithFile(s)[f] =
           IF f \in DOMAIN FileOf(s).sslf THEN ValueOf(f, FileOf(s).sslf[f]) ELSE s[f]
<1> DEFINE kv == FileOf(s).sslf
<1>1. CASE f \in DOMAIN kv
  <2>1. WithFile(s)[f] = Converted(s[f], Str(kv[f]))
    BY <1>1 DEF WithFile, Grok, Texts
  <2>2. s["config_file"].text \in FileNames
    <3>1. DOMAIN Empty = {}
      BY DEF Empty
    <3> QED
      BY <1>1, <3>1 DEF FileOf
  <2>3. Default[f].type = "bool" => kv[f] \in BoolWord
    BY <1>1, <2>2 DEF Sound, FileOf
  <2> QED
    BY <1>1, <2>1, <2>3, TextIsValue
<1>2. CASE f \notin DOMAIN kv
  BY <1>2 DEF WithFile, Grok, Texts
<1> QED
  BY <1>1, <1>2

(* Options of their own are set again to what they are. *)
LEMMA AfterParsing ==
  ASSUME GivenKept, NEW s, KeepsTypes(s), NEW f \in Field, Sound(f)
  PROVE  WithNamed(s)[f] =
           IF f \in Flag THEN Bool(f \in given.args.flags)
           ELSE IF f \in DOMAIN given.args.named THEN ValueOf(f, given.args.named[f])
           ELSE s[f]
<1>1. /\ f \in Flag => Default[f].type = "bool" /\ f \notin Named
      /\ f \in Named => Default[f].type = "str"
      /\ DOMAIN given.args.named \subseteq Named
  BY ConfigAssumption, GivenAssumption DEF GivenKept
<1>2. WithNamed(s)[f] =
        IF f \in Named \cup Flag THEN Converted(s[f], Namespace(s)[f]) ELSE s[f]
  BY DEF WithNamed, Grok, Namespace
<1>3. CASE f \in Flag
  <2>1. Namespace(s)[f] = Bool(f \in given.args.flags)
    BY <1>1, <1>3, Zenon DEF Namespace
  <2>2. s[f].type = "bool"
    BY <1>1, <1>3 DEF KeepsTypes, TypesOf
  <2>3. ASSUME NEW b PROVE Bool(b).type = "bool" /\ Bool(b) = [type |-> "bool", text |-> Bool(b).text]
    BY DEF Bool
  <2>4. ASSUME NEW v, v.type = "bool" PROVE Converted(s[f], v) = [type |-> "bool", text |-> v.text]
    BY <2>2, <2>4 DEF Converted
  <2> QED
    BY <1>2, <1>3, <2>1, <2>3, <2>4, Zenon
<1>4. CASE f \notin Flag /\ f \in DOMAIN given.args.named
  <2>1. Namespace(s)[f] = Str(given.args.named[f])
    BY <1>1, <1>4 DEF Namespace
  <2> QED
    BY <1>1, <1>2, <1>4, <2>1, TextIsValue
<1>5. CASE f \in Named /\ f \notin Flag /\ f \notin DOMAIN given.args.named
  <2>1. Namespace(s)[f] = s[f]
    BY <1>5 DEF Namespace, Unset
  <2>2. s[f].type = "str" /\ s[f] \in [type : {"none", "bool", "num", "str"}, text : Word]
    BY <1>1, <1>5 DEF KeepsTypes, TypesOf, Settings
  <2>3. Converted(s[f], s[f]) = s[f]
    BY <2>2 DEF Converted
  <2> QED
    BY <1>2, <1>5, <2>1, <2>3
<1> QED
  BY <1>1, <1>2, <1>3, <1>4, <1>5

(* Whatever their words, options that were not given stay what they are. *)
LEMMA UnsetKept ==
  ASSUME NEW s, KeepsTypes(s), NEW f \in Field, f \notin Flag, f \notin DOMAIN given.args.named
  PROVE  WithNamed(s)[f] = s[f]
<1>1. WithNamed(s)[f] =
        IF f \in Named \cup Flag THEN Converted(s[f], Namespace(s)[f]) ELSE s[f]
  BY DEF WithNamed, Grok, Namespace
<1>2. CASE f \in Named
  <2>1. Namespace(s)[f] = s[f]
    BY <1>2 DEF Namespace, Unset
  <2>2. s[f].type = "str" /\ s[f] \in [type : {"none", "bool", "num", "str"}, text : Word]
    BY <1>2, ConfigAssumption DEF KeepsTypes, TypesOf, Settings
  <2>3. Converted(s[f], s[f]) = s[f]
    BY <2>2 DEF Converted
  <2> QED
    BY <1>1, <2>1, <2>3
<1> QED
  BY <1>1, <1>2

(* A keyword has the type of its field, so nothing is converted. *)
LEMMA AfterKeywords ==
  ASSUME GivenKept, NEW f \in Field
  PROVE  S1[f] = IF f \in DOMAIN given.kw THEN given.kw[f] ELSE Default[f]
<1>1. CASE f \in DOMAIN given.kw
  <2>1. given.kw[f] \in [type : {IF Default[f].type = "none" THEN "str" ELSE Default[f].type},
                         text : Word]
    BY <1>1, GivenAssumption DEF GivenKept
  <2>2. Default[f].type \in {"none", "bool", "num", "str"}
    BY ConfigAssumption DEF Settings
  <2>3. Converted(Default[f], given.kw[f]) = given.kw[f]
    <3>1. CASE Default[f].type = "none"
      BY <3>1 DEF Converted
    <3>2. CASE Default[f].type # "none"
      <4>1. given.kw[f].type = Default[f].type
        BY <2>1, <3>2
      <4>2. Converted(Default[f], given.kw[f]) = [type |-> Default[f].type, text |-> given.kw[f].text]
        BY <3>2, <4>1 DEF Converted
      <4> QED
        BY <2>1, <4>1, <4>2
    <3> QED
      BY <3>1, <3>2
  <2> QED
    BY <1>1, <2>3 DEF S1, WithKw, Grok
<1>2. CASE f \notin DOMAIN given.kw
  BY <1>2 DEF S1, WithKw, Grok
<1> QED
  BY <1>1, <1>2

LEMMA AllKeepTypes ==
  ASSUME GivenKept
  PROVE  /\ KeepsTypes(S1) /\ KeepsTypes(S2) /\ KeepsTypes(S3) /\ KeepsTypes(S4)
         /\ KeepsTypes(S5) /\ KeepsTypes(Shown1)
<1>1. KeepsTypes(S1)
  BY DefaultTypes, PassesKeepTypes DEF S1
<1>2. KeepsTypes(S2)
  BY <1>1, PassesKeepTypes DEF S2
<1>3. KeepsTypes(S3) /\ KeepsTypes(Shown1)
  BY <1>2, PassesKeepTypes DEF S3, Shown1
<1>4. KeepsTypes(S4)
  BY <1>3, PassesKeepTypes DEF S4
<1> QED
  BY <1>1, <1>2, <1>3, <1>4, PassesKeepTypes DEF S5

LEMMA ValueMeans ==
  ASSUME NEW f, NEW t, settings[f] = ValueOf(f, t)
  PROVE  Means(f, t)
BY DEF Means, ValueOf

------------------------------------------------------------------------------
(* The daemon starts with what -o says, or else the option itself, or else   *)
(* the file that is in force when it is read, or else the keyword, or else   *)
(* the class attribute, where a flag counts only if it is on the command     *)
(* line; and with the paths of -p, or else those of that file                *)
(* (daemon.py:77-142, 215-271).                                              *)
THEOREM InForceAlways == Spec => []InForce
<1>1. ConfIInv => InForce
  <2> SUFFICES ASSUME ConfIInv, Started PROVE InForce
    BY DEF InForce, CommandLineWins, FileIsHeard, KeywordOrDefault, PathsInForce
  <2>1. GivenKept /\ settings = S6 /\ paths = Paths
    BY DEF ConfIInv, PassesDone, Started, Show
  <2>2. ASSUME NEW f \in Field, Sound(f), f \in DOMAIN given.args.opt
        PROVE  Means(f, given.args.opt[f])
    BY <2>1, <2>2, AllKeepTypes, AfterOpts, ValueMeans DEF S6
  <2>3. ASSUME NEW f \in Field, Sound(f), f \notin DOMAIN given.args.opt
        PROVE  settings[f] = S5[f]
    BY <2>1, <2>3, AllKeepTypes, AfterOpts DEF S6
  <2>4. CommandLineWins
    <3>1. ASSUME NEW f \in Field, Sound(f), f \in given.args.flags \ DOMAIN given.args.opt
          PROVE  settings[f] = Bool(TRUE)
      <4>1. f \in Flag
        BY <2>1, <3>1, GivenAssumption DEF GivenKept
      <4>2. Bool(f \in given.args.flags) = Bool(TRUE)
        BY <3>1 DEF Bool
      <4> QED
        BY <2>1, <2>3, <3>1, <4>1, <4>2, AllKeepTypes, AfterParsing, Zenon DEF S5
    <3>2. ASSUME NEW f \in Field, Sound(f), f \in DOMAIN given.args.named \ DOMAIN given.args.opt
          PROVE  Means(f, given.args.named[f])
      <4>1. f \notin Flag
        BY <2>1, <3>2, ConfigAssumption, GivenAssumption DEF GivenKept
      <4> QED
        BY <2>1, <2>3, <3>2, <4>1, AllKeepTypes, AfterParsing, ValueMeans DEF S5
    <3> QED
      BY <2>2, <3>1, <3>2 DEF CommandLineWins
  <2>5. FileIsHeard
    <3> SUFFICES ASSUME NEW f \in Field, Sound(f), f \in DOMAIN FileOf(S3).sslf, f \notin Flag,
                        f \notin DOMAIN given.args.named, f \notin DOMAIN given.args.opt
                 PROVE  Means(f, FileOf(S3).sslf[f])
      BY DEF FileIsHeard, FileRead, OnCommandLine, S1, S2, S3
    <3>1. settings[f] = S4[f]
      BY <2>1, <2>3, AllKeepTypes, AfterParsing DEF S5
    <3>2. S4[f] = ValueOf(f, FileOf(S3).sslf[f])
      BY <2>1, AllKeepTypes, AfterReading DEF S4
    <3> QED
      BY <3>1, <3>2, ValueMeans
  <2>6. KeywordOrDefault
    <3> SUFFICES ASSUME NEW f \in Field, f \notin DOMAIN FileOf(S3).sslf, f \notin Flag,
                        f \notin DOMAIN given.args.named, f \notin DOMAIN given.args.opt
                 PROVE  settings[f] = IF f \in DOMAIN given.kw THEN given.kw[f] ELSE Default[f]
      BY DEF KeywordOrDefault, FileRead, OnCommandLine, S1, S2, S3
    <3>1. S6[f] = S5[f] /\ S4[f] = S3[f] /\ S3[f] = S2[f]
      BY DEF S6, S4, S3, WithOpts, WithFile, Grok, Texts
    <3>2. \A s : KeepsTypes(s) => WithNamed(s)[f] = s[f]
      BY UnsetKept
    <3>3. S5[f] = S1[f]
      BY <2>1, <3>1, <3>2, AllKeepTypes DEF S5, S2
    <3> QED
      BY <2>1, <3>1, <3>3, AfterKeywords
  <2>7. PathsInForce
    BY <2>1 DEF PathsInForce, PathsOf, Paths, S1, S2, S3
  <2> QED
    BY <2>4, <2>5, <2>6, <2>7 DEF InForce
<1> QED
  BY <1>1, ConfInductive, PTL

(* What --show-config shows is what a start would use, field by field, but   *)
(* for those that both the file and the command line set, and unless -o      *)
(* chooses the file (daemon.py:215-255, 323-338).                            *)
THEOREM ShownIsFinalAlways == Spec => []ShownIsFinal
<1>1. ConfIInv => ShownIsFinal
  <2> SUFFICES ASSUME ConfIInv, phase = "shown", "config_file" \notin DOMAIN given.args.opt,
                      NEW f \in Field, Sound(f),
                      f \notin DOMAIN FileOf(S2).sslf \cap (Flag \cup DOMAIN given.args.named)
               PROVE  settings[f] = S6[f]
    BY DEF ShownIsFinal, S1, S2, S3, S4, S5, S6
  <2>1. GivenKept /\ settings = Shown2
    BY DEF ConfIInv, PassesDone
  <2>2. FileOf(S3) = FileOf(S2)
    <3>1. S3["config_file"] = S2["config_file"]
      BY ConfigAssumption DEF S3, WithOpts, Grok, Texts
    <3> QED
      BY <3>1 DEF FileOf
  <2>3. CASE f \in DOMAIN given.args.opt
    BY <2>1, <2>3, AllKeepTypes, AfterOpts DEF S6, Shown2
  <2>4. CASE f \notin DOMAIN given.args.opt
    <3>1. settings[f] = Shown1[f] /\ S6[f] = S5[f] /\ S3[f] = S2[f]
      BY <2>1, <2>4, AllKeepTypes, AfterOpts DEF S6, S3, Shown2
    <3>2. Shown1[f] = IF f \in DOMAIN FileOf(S2).sslf THEN ValueOf(f, FileOf(S2).sslf[f]) ELSE S2[f]
      BY <2>1, AllKeepTypes, AfterReading DEF Shown1
    <3>3. S4[f] = IF f \in DOMAIN FileOf(S2).sslf THEN ValueOf(f, FileOf(S2).sslf[f]) ELSE S2[f]
      BY <2>1, <2>2, <3>1, AllKeepTypes, AfterReading DEF S4
    <3>4. CASE f \in Flag \cup DOMAIN given.args.named
      <4>1. settings[f] = S2[f]
        BY <3>1, <3>2, <3>4
      <4>2. S5[f] = S2[f]
        BY <2>1, <3>4, AllKeepTypes, AfterParsing, Zenon DEF S5, S2
      <4> QED
        BY <3>1, <4>1, <4>2
    <3>5. CASE f \notin Flag \cup DOMAIN given.args.named
      <4>1. S5[f] = S4[f]
        BY <2>1, <3>5, AllKeepTypes, AfterParsing DEF S5
      <4> QED
        BY <3>1, <3>2, <3>3, <4>1
    <3> QED
      BY <3>4, <3>5
  <2> QED
    BY <2>3, <2>4
<1> QED
  BY <1>1, ConfInductive, PTL

------------------------------------------------------------------------------
(* The two functions that are defined by recursion are what their equations  *)
(* say.  A least length for which there is none has a predecessor with one,  *)
(* and one step more makes it one for that length.                           *)

LEMMA LeastOf ==
  ASSUME NEW S, S \subseteq Nat, S # {}
  PROVE  \E m \in S : \A k \in S : ~(k < m)
<1>1. \E m \in S : \A k \in S : ~(<<k, m>> \in OpToRel(<, Nat))
  BY NatLessThanWellFounded, WFMin
<1> QED
  BY <1>1 DEF OpToRel

LEMMA AddType ==
  ASSUME NEW re \in Seq(Pattern), NEW p \in Pattern
  PROVE  Add(re, p) \in Seq(Pattern)
<1>1. CASE \E i \in DOMAIN re : Rname[re[i]] = Rname[p]
  <2> DEFINE r == [i \in DOMAIN re |-> IF Rname[re[i]] = Rname[p] THEN p ELSE re[i]]
  <2>1. Add(re, p) = r
    BY <1>1 DEF Add
  <2>2. DOMAIN re = 1 .. Len(re) /\ Len(re) \in Nat /\ \A i \in DOMAIN re : re[i] \in Pattern
    BY LenProperties, ElementOfSeq
  <2>3. r \in [1 .. Len(re) -> Pattern]
    BY <2>2
  <2> QED
    BY <2>1, <2>2, <2>3, SeqDef
<1>2. CASE ~\E i \in DOMAIN re : Rname[re[i]] = Rname[p]
  BY <1>2, AppendProperties DEF Add
<1> QED
  BY <1>1, <1>2

LEMMA PatternsTyped ==
  ASSUME NEW d, Len(d) \in Nat
  PROVE  PatternsOf(d) \in Seq(Pattern)
<1> DEFINE N == Len(d)
           Turn(g, n) == IF n = 0 THEN <<>>
                         ELSE IF d[n][2] \in Pattern THEN Add(g[n - 1], d[n][2])
                         ELSE g[n - 1]
           Solves(g, m) == g = [n \in 0 .. m |-> Turn(g, n)]
           Bad == {m \in Nat : ~\E g : Solves(g, m)}
           re == CHOOSE g : Solves(g, N)
<1>1. \E g : Solves(g, N)
  <2> SUFFICES ASSUME Bad # {} PROVE FALSE
    OBVIOUS
  <2>1. PICK m \in Bad : \A k \in Bad : ~(k < m)
    BY LeastOf
  <2>2. CASE m = 0
    <3> DEFINE g == [n \in 0 .. 0 |-> <<>>]
    <3>1. \A n \in 0 .. 0 : Turn(g, n) = <<>>
      OBVIOUS
    <3>2. Solves(g, 0)
      BY <3>1
    <3> QED
      BY <2>2, <3>2
  <2>3. CASE m # 0
    <3>1. m - 1 \in Nat /\ m - 1 \notin Bad
      <4>1. m \in Nat
        OBVIOUS
      <4> HIDE DEF Bad
      <4> QED
        BY <2>1, <2>3, <4>1
    <3>2. PICK g : Solves(g, m - 1)
      BY <3>1
    <3> DEFINE h == [n \in 0 .. m |-> IF n = m THEN Turn(g, m) ELSE g[n]]
    <3>3. ASSUME NEW n \in 0 .. m PROVE h[n] = Turn(h, n)
      <4>1. CASE n = 0
        <5>1. g[0] = Turn(g, 0) /\ n # m
          BY <2>3, <3>1, <3>2, <4>1
        <5> QED
          BY <4>1, <5>1
      <4>2. CASE n # 0
        <5>1. n - 1 \in 0 .. m - 1 /\ n - 1 # m /\ n - 1 \in 0 .. m
          BY <4>2
        <5>2. h[n - 1] = g[n - 1]
          BY <5>1
        <5>3. Turn(h, n) = Turn(g, n)
          BY <5>2
        <5>4. h[n] = Turn(g, n)
          <6>1. CASE n = m
            BY <6>1
          <6>2. CASE n # m
            <7>1. n \in 0 .. m - 1
              BY <6>2
            <7>2. g[n] = Turn(g, n)
              BY <3>2, <7>1
            <7> QED
              BY <6>2, <7>2
          <6> QED
            BY <6>1, <6>2
        <5> QED
          BY <5>3, <5>4
      <4> QED
        BY <4>1, <4>2
    <3>4. Solves(h, m)
      <4> HIDE DEF Turn
      <4> QED
        BY <3>3
    <3> QED
      BY <3>4
  <2> QED
    BY <2>2, <2>3
<1>2. Solves(re, N)
  <2> HIDE DEF Solves
  <2> QED
    BY <1>1
<1>3. \A n \in 0 .. N : re[n] = Turn(re, n)
  <2> HIDE DEF Turn, re
  <2> QED
    BY <1>2
<1>4. PatternsOf(d) = re[N]
  BY DEF PatternsOf
<1> HIDE DEF re
<1> DEFINE Untyped == {n \in 0 .. N : re[n] \notin Seq(Pattern)}
<1>5. Untyped = {}
  <2> SUFFICES ASSUME Untyped # {} PROVE FALSE
    OBVIOUS
  <2>1. PICK n \in Untyped : \A k \in Untyped : ~(k < n)
    <3>1. Untyped \subseteq Nat
      OBVIOUS
    <3> HIDE DEF Untyped
    <3> QED
      BY <3>1, LeastOf
  <2>2. n # 0
    <3>1. re[0] = <<>> /\ <<>> \in Seq(Pattern)
      BY <1>3
    <3>2. re[n] \notin Seq(Pattern)
      OBVIOUS
    <3> QED
      BY <3>1, <3>2
  <2>3. n - 1 \in 0 .. N /\ re[n - 1] \in Seq(Pattern)
    BY <2>1, <2>2
  <2>4. re[n] \in Seq(Pattern)
    BY <1>3, <2>2, <2>3, AddType
  <2> QED
    BY <2>4
<1> QED
  BY <1>4, <1>5

LEMMA AfterSolves ==
  ASSUME NEW in, NEW ps, Len(ps) \in Nat
  PROVE  /\ After(in, ps)[0] = in.dict
         /\ \A n \in 1 .. Len(ps) :
              After(in, ps)[n] =
                With(After(in, ps)[n - 1], Groups(in, ps[n], After(in, ps)[n - 1]))
<1> DEFINE N == Len(ps)
           Turn(g, n) == IF n = 0 THEN in.dict
                         ELSE With(g[n - 1], Groups(in, ps[n], g[n - 1]))
           Solves(g, m) == g = [n \in 0 .. m |-> Turn(g, n)]
           Bad == {m \in Nat : ~\E g : Solves(g, m)}
           s == CHOOSE g : Solves(g, N)
<1>1. \E g : Solves(g, N)
  <2> SUFFICES ASSUME Bad # {} PROVE FALSE
    OBVIOUS
  <2>1. PICK m \in Bad : \A k \in Bad : ~(k < m)
    BY LeastOf
  <2>2. CASE m = 0
    <3> DEFINE g == [n \in 0 .. 0 |-> in.dict]
    <3>1. \A n \in 0 .. 0 : Turn(g, n) = in.dict
      OBVIOUS
    <3>2. Solves(g, 0)
      BY <3>1
    <3> QED
      BY <2>2, <3>2
  <2>3. CASE m # 0
    <3>1. m - 1 \in Nat /\ m - 1 \notin Bad
      <4>1. m \in Nat
        OBVIOUS
      <4> HIDE DEF Bad
      <4> QED
        BY <2>1, <2>3, <4>1
    <3>2. PICK g : Solves(g, m - 1)
      BY <3>1
    <3> DEFINE h == [n \in 0 .. m |-> IF n = m THEN Turn(g, m) ELSE g[n]]
    <3>3. ASSUME NEW n \in 0 .. m PROVE h[n] = Turn(h, n)
      <4>1. CASE n = 0
        <5>1. g[0] = Turn(g, 0) /\ n # m
          BY <2>3, <3>1, <3>2, <4>1
        <5> QED
          BY <4>1, <5>1
      <4>2. CASE n # 0
        <5>1. n - 1 \in 0 .. m - 1 /\ n - 1 # m /\ n - 1 \in 0 .. m
          BY <4>2
        <5>2. h[n - 1] = g[n - 1]
          BY <5>1
        <5>3. Turn(h, n) = Turn(g, n)
          BY <5>2
        <5>4. h[n] = Turn(g, n)
          <6>1. CASE n = m
            BY <6>1
          <6>2. CASE n # m
            <7>1. n \in 0 .. m - 1
              BY <6>2
            <7>2. g[n] = Turn(g, n)
              BY <3>2, <7>1
            <7> QED
              BY <6>2, <7>2
          <6> QED
            BY <6>1, <6>2
        <5> QED
          BY <5>3, <5>4
      <4> QED
        BY <4>1, <4>2
    <3>4. Solves(h, m)
      <4> HIDE DEF Turn
      <4> QED
        BY <3>3
    <3> QED
      BY <3>4
  <2> QED
    BY <2>2, <2>3
<1>2. Solves(s, N)
  <2> HIDE DEF Solves
  <2> QED
    BY <1>1
<1>3. \A n \in 0 .. N : s[n] = Turn(s, n)
  <2> HIDE DEF Turn, s
  <2> QED
    BY <1>2
<1>4. After(in, ps) = s
  BY DEF After
<1> HIDE DEF s
<1>5. s[0] = in.dict
  BY <1>3
<1>6. \A n \in 1 .. N : s[n] = With(s[n - 1], Groups(in, ps[n], s[n - 1]))
  BY <1>3
<1> QED
  BY <1>4, <1>5, <1>6

------------------------------------------------------------------------------
(* One line after the other.  The time that is kept is what TimeIsNearest    *)
(* says of the last event.                                                   *)

Values == Text \cup {None}

LinesTyped ==
  /\ patterns \in Seq(Pattern) /\ todo \in Seq(Pattern) /\ goOn \in BOOLEAN
  /\ step \in {"idle", "matching", "raised"}
  /\ \A k \in DOMAIN fields :
       fields[k] \in Values /\ k \in DOMAIN searchable /\ searchable[k] = fields[k]
  /\ searchable = [k \in DOMAIN searchable |-> searchable[k]]
  /\ lastTime \in Int \ {NotADate}
  /\ events \in Seq([own : Int, time : Int])

LastIsNearest ==
  \/ \E j \in 1 .. Len(events) :
       /\ events[j].own # 0 /\ lastTime = events[j].own
       /\ \A k \in j + 1 .. Len(events) : events[k].own = 0
  \/ lastTime = 0 /\ \A k \in 1 .. Len(events) : events[k].own = 0

(* A path is served, and lines are read, only with the patterns of the       *)
(* options in force.                                                         *)
Serving ==
  /\ served \subseteq DOMAIN paths
  /\ phase \notin {"ready", "shown"} => served = {}
  /\ step # "idle" => phase = "ready" /\ Path \in served
  /\ phase = "ready" /\ Path \in served => patterns = PatternsOf(paths[Path])

(* The first n patterns have found something and are done; the search goes   *)
(* on with the rest of them, or the next one has found nothing.               *)
SearchSoFar ==
  step = "matching" =>
    \E n \in 0 .. Len(patterns) :
      /\ \A i \in 1 .. n : Applies(input, patterns[i], After(input, patterns)[i - 1])
      /\ searchable = After(input, patterns)[n]
      /\ fields = FieldsOf(input, patterns, n)
      /\ IF goOn THEN todo = SubSeq(patterns, n + 1, Len(patterns))
         ELSE n < Len(patterns) /\ ~Applies(input, patterns[n + 1], After(input, patterns)[n])

LinesIInv == LinesTyped /\ LastIsNearest /\ TimeIsNearest /\ Serving /\ SearchSoFar

LEMMA GroupsType ==
  ASSUME NEW in, NEW p \in Pattern, NEW s
  PROVE  \A k \in DOMAIN Groups(in, p, s) : Groups(in, p, s)[k] \in Values
<1>1. CASE Applies(in, p, s)
  <2> DEFINE t == Subject(in, p, s)
  <2>1. t \in DOMAIN Found[p] /\ Groups(in, p, s) = Found[p][t]
    BY <1>1 DEF Groups, Applies
  <2>2. Found[p][t] \in [DOMAIN Found[p][t] -> Values]
    BY <2>1, LinesAssumption DEF Values
  <2> QED
    BY <2>1, <2>2
<1>2. CASE ~Applies(in, p, s)
  BY <1>2 DEF Groups, NoFields
<1> QED
  BY <1>1, <1>2

(* The fields that were found before the first pattern, and one pattern more. *)
LEMMA FieldsOfNone ==
  ASSUME NEW in, NEW ps
  PROVE  FieldsOf(in, ps, 0) = NoFields
<1>1. UNION {DOMAIN FoundBy(in, ps, i) : i \in 1 .. 0} = {}
  <2>1. \A i \in 1 .. 0 : FALSE
    OBVIOUS
  <2> QED
    BY <2>1
<1>2. DOMAIN FieldsOf(in, ps, 0) = {} /\ FieldsOf(in, ps, 0) = [k \in {} |-> None]
  BY <1>1 DEF FieldsOf
<1> QED
  BY <1>2 DEF NoFields

LEMMA FieldsOfNext ==
  ASSUME NEW in, NEW ps, Len(ps) \in Nat, NEW n \in Nat, n + 1 \in 1 .. Len(ps),
         NEW f, f = FieldsOf(in, ps, n), DOMAIN f \subseteq DOMAIN After(in, ps)[n]
  PROVE  With(f, FoundBy(in, ps, n + 1)) = FieldsOf(in, ps, n + 1)
<1> DEFINE A == After(in, ps)
           g == FoundBy(in, ps, n + 1)
           D(m) == UNION {DOMAIN FoundBy(in, ps, i) : i \in 1 .. m}
<1>1. A[n + 1] = With(A[n], g)
  <2>1. n + 1 - 1 = n
    OBVIOUS
  <2> QED
    BY <2>1, AfterSolves DEF FoundBy
<1>2. D(n + 1) = D(n) \cup DOMAIN g
  <2>1. \A i : i \in 1 .. n + 1 <=> i \in 1 .. n \/ i = n + 1
    OBVIOUS
  <2> HIDE DEF g
  <2>2. g = FoundBy(in, ps, n + 1)
    BY DEF g
  <2> QED
    BY <2>1, <2>2
<1> HIDE DEF A, g
<1>3. f = [k \in D(n) |-> A[n][k]] /\ DOMAIN f = D(n)
  BY DEF FieldsOf, A
<1>4. FieldsOf(in, ps, n + 1) = [k \in D(n + 1) |-> A[n + 1][k]]
  BY DEF FieldsOf, A
<1> HIDE DEF D
<1>5. With(f, g) = [k \in D(n) \cup DOMAIN g |-> IF k \in DOMAIN g THEN g[k] ELSE A[n][k]]
  BY <1>3 DEF With
<1>6. \A k \in D(n) \cup DOMAIN g :
        A[n + 1][k] = IF k \in DOMAIN g THEN g[k] ELSE A[n][k]
  BY <1>1, <1>3 DEF With, A
<1> QED
  BY <1>2, <1>4, <1>5, <1>6 DEF g

LEMMA LineStep ==
  ASSUME LinesIInv, Line, phase = "ready", Path \in served, UNCHANGED <<confVars, served>>
  PROVE  LinesIInv'
<1>1. /\ step' = "matching" /\ input' \in Inputs /\ searchable' = input'.dict
      /\ fields' = NoFields /\ todo' = patterns /\ goOn' = TRUE
      /\ UNCHANGED <<patterns, lastTime, events, phase, paths, served>>
  BY DEF Line, confVars
<1>2. LinesTyped'
  <2>1. searchable' = [k \in DOMAIN searchable' |-> searchable'[k]]
    BY <1>1, LinesAssumption
  <2>2. DOMAIN fields' = {}
    BY <1>1 DEF NoFields
  <2> QED
    BY <1>1, <2>1, <2>2 DEF LinesIInv, LinesTyped
<1>3. LastIsNearest' /\ TimeIsNearest' /\ Serving'
  BY <1>1 DEF LinesIInv, LastIsNearest, TimeIsNearest, Serving
<1>4. SearchSoFar'
  <2>1. Len(patterns) \in Nat /\ patterns = SubSeq(patterns, 1, Len(patterns))
    <3>1. patterns \in Seq(Pattern)
      BY DEF LinesIInv, LinesTyped
    <3> QED
      BY <3>1, LenProperties, SubSeqFull
  <2>2. After(input', patterns)[0] = input'.dict
    BY <2>1, AfterSolves
  <2>3. 0 \in 0 .. Len(patterns) /\ 0 + 1 = 1 /\ \A i \in 1 .. 0 : FALSE
    BY <2>1
  <2>4. fields' = FieldsOf(input', patterns, 0)
    BY <1>1, FieldsOfNone
  <2> QED
    BY <1>1, <2>1, <2>2, <2>3, <2>4 DEF SearchSoFar
<1> QED
  BY <1>2, <1>3, <1>4 DEF LinesIInv

(* While patterns are left, the next one is the one behind those that are    *)
(* done.                                                                      *)
LEMMA NextPattern ==
  ASSUME LinesIInv, Turning
  PROVE  \E n \in 0 .. Len(patterns) - 1 :
           /\ \A i \in 1 .. n : Applies(input, patterns[i], After(input, patterns)[i - 1])
           /\ searchable = After(input, patterns)[n]
           /\ fields = FieldsOf(input, patterns, n)
           /\ n \in Nat /\ n + 1 \in 1 .. Len(patterns) /\ Len(patterns) \in Nat
           /\ Head(todo) = patterns[n + 1] /\ Head(todo) \in Pattern
           /\ Tail(todo) = SubSeq(patterns, n + 2, Len(patterns))
<1>1. patterns \in Seq(Pattern) /\ Len(patterns) \in Nat
  BY LenProperties DEF LinesIInv, LinesTyped
<1>2. PICK n \in 0 .. Len(patterns) :
        /\ \A i \in 1 .. n : Applies(input, patterns[i], After(input, patterns)[i - 1])
        /\ searchable = After(input, patterns)[n]
        /\ fields = FieldsOf(input, patterns, n)
        /\ todo = SubSeq(patterns, n + 1, Len(patterns))
  BY DEF LinesIInv, SearchSoFar, Turning
<1>3. n # Len(patterns)
  <2> SUFFICES ASSUME n = Len(patterns) PROVE FALSE
    OBVIOUS
  <2>1. todo = <<>>
    BY <1>1, <1>2, SubSeqEmpty
  <2> QED
    BY <2>1 DEF Turning
<1>4. n \in Nat /\ n \in 0 .. Len(patterns) - 1 /\ n + 1 \in 1 .. Len(patterns) /\ n + 1 + 1 = n + 2
      /\ Len(patterns) \in n + 1 .. Len(patterns)
  BY <1>1, <1>3
<1>5. Head(todo) = patterns[n + 1] /\ Tail(todo) = SubSeq(patterns, n + 2, Len(patterns))
  BY <1>1, <1>2, <1>4, HeadTailOfSubSeq
<1>6. patterns[n + 1] \in Pattern
  BY <1>1, <1>4, ElementOfSeq
<1> QED
  BY <1>1, <1>2, <1>4, <1>5, <1>6

LEMMA SkipStep ==
  ASSUME LinesIInv, Skip, UNCHANGED <<confVars, served>>
  PROVE  LinesIInv'
<1>1. /\ Turning /\ Missing(Head(todo), searchable) /\ goOn' = FALSE
      /\ todo' = Append(Tail(todo), Head(todo))
      /\ UNCHANGED <<patterns, step, input, searchable, fields, lastTime, events,
                     phase, paths, served>>
  BY DEF Skip, confVars
<1>2. LinesTyped'
  <2>1. todo \in Seq(Pattern) /\ todo # <<>>
    BY <1>1 DEF LinesIInv, LinesTyped, Turning
  <2>2. todo' \in Seq(Pattern)
    BY <1>1, <2>1, HeadTailProperties, AppendProperties
  <2> QED
    BY <1>1, <2>2 DEF LinesIInv, LinesTyped
<1>3. LastIsNearest' /\ TimeIsNearest' /\ Serving'
  BY <1>1 DEF LinesIInv, LastIsNearest, TimeIsNearest, Serving
<1>4. SearchSoFar'
  <2>1. PICK n \in 0 .. Len(patterns) - 1 :
          /\ \A i \in 1 .. n : Applies(input, patterns[i], After(input, patterns)[i - 1])
          /\ searchable = After(input, patterns)[n] /\ n \in Nat /\ Len(patterns) \in Nat
          /\ fields = FieldsOf(input, patterns, n)
          /\ Head(todo) = patterns[n + 1]
    BY <1>1, NextPattern
  <2>2. ~Applies(input, patterns[n + 1], After(input, patterns)[n])
    BY <1>1, <2>1 DEF Applies
  <2>3. n \in 0 .. Len(patterns) /\ n < Len(patterns)
    BY <2>1
  <2> QED
    BY <1>1, <2>1, <2>2, <2>3 DEF SearchSoFar
<1> QED
  BY <1>2, <1>3, <1>4 DEF LinesIInv

LEMMA SearchStep ==
  ASSUME LinesIInv, Search, UNCHANGED <<confVars, served>>
  PROVE  LinesIInv'
<1> DEFINE p == Head(todo)
           g == Groups(input, p, searchable)
<1>1. /\ Turning /\ step = "matching" /\ todo' = Tail(todo)
      /\ fields' = With(fields, g) /\ searchable' = With(searchable, g)
      /\ goOn' = Applies(input, p, searchable)
      /\ UNCHANGED <<patterns, step, input, lastTime, events, phase, paths, served>>
  BY DEF Search, Seen, On, confVars, Turning
<1>2. todo \in Seq(Pattern) /\ todo # <<>> /\ p \in Pattern
  BY <1>1, HeadTailProperties DEF LinesIInv, LinesTyped, Turning
<1>3. \A k \in DOMAIN g : g[k] \in Values
  BY <1>2, GroupsType
<1>4. goOn' \in BOOLEAN
  BY <1>1 DEF Applies
<1> HIDE DEF g
<1>5. LinesTyped'
  <2>1. \A k \in DOMAIN fields' :
          fields'[k] \in Values /\ k \in DOMAIN searchable' /\ searchable'[k] = fields'[k]
    BY <1>1, <1>3 DEF With, LinesIInv, LinesTyped
  <2>2. searchable' = [k \in DOMAIN searchable' |-> searchable'[k]]
    BY <1>1 DEF With
  <2>3. todo' \in Seq(Pattern)
    BY <1>1, <1>2, HeadTailProperties
  <2> QED
    BY <1>1, <1>4, <2>1, <2>2, <2>3 DEF LinesIInv, LinesTyped
<1>6. LastIsNearest' /\ TimeIsNearest' /\ Serving'
  BY <1>1 DEF LinesIInv, LastIsNearest, TimeIsNearest, Serving
<1>7. SearchSoFar'
  <2> DEFINE A == After(input, patterns)  N == Len(patterns)
  <2>1. PICK n \in 0 .. N - 1 :
          /\ \A i \in 1 .. n : Applies(input, patterns[i], A[i - 1])
          /\ searchable = A[n]
          /\ fields = FieldsOf(input, patterns, n)
          /\ n \in Nat /\ n + 1 \in 1 .. N /\ N \in Nat
          /\ p = patterns[n + 1] /\ Tail(todo) = SubSeq(patterns, n + 2, N)
    BY <1>1, NextPattern
  <2>2. A[n + 1] = With(A[n], Groups(input, patterns[n + 1], A[n]))
    <3>1. n + 1 - 1 = n
      BY <2>1
    <3> QED
      BY <2>1, <3>1, AfterSolves
  <2>3. CASE Applies(input, p, searchable)
    <3>1. \A i \in 1 .. n + 1 : Applies(input, patterns[i], A[i - 1])
      <4> SUFFICES ASSUME NEW i \in 1 .. n + 1 PROVE Applies(input, patterns[i], A[i - 1])
        OBVIOUS
      <4>1. i \in 1 .. n \/ (i = n + 1 /\ i - 1 = n)
        BY <2>1
      <4> QED
        BY <2>1, <2>3, <4>1
    <3>2. n + 1 \in 0 .. N /\ n + 1 + 1 = n + 2
      BY <2>1
    <3>3. searchable' = A[n + 1]
      BY <1>1, <2>1, <2>2 DEF g
    <3>4. fields' = FieldsOf(input, patterns, n + 1)
      <4>1. DOMAIN fields \subseteq DOMAIN searchable
        BY DEF LinesIInv, LinesTyped
      <4>2. g = FoundBy(input, patterns, n + 1)
        <5>1. n + 1 - 1 = n
          BY <2>1
        <5> QED
          BY <2>1, <5>1 DEF FoundBy, g
      <4> QED
        BY <1>1, <2>1, <4>1, <4>2, FieldsOfNext
    <3> QED
      BY <1>1, <2>1, <2>3, <3>1, <3>2, <3>3, <3>4 DEF SearchSoFar
  <2>4. CASE ~Applies(input, p, searchable)
    <3>1. DOMAIN g = {}
      BY <2>4 DEF g, Groups, NoFields
    <3>2. searchable' = searchable
      BY <1>1, <3>1 DEF With, LinesIInv, LinesTyped
    <3>3. n \in 0 .. N /\ n < N
      BY <2>1
    <3>4. fields' = fields
      <4>1. fields = [k \in DOMAIN fields |-> fields[k]]
        BY <2>1 DEF FieldsOf
      <4> QED
        BY <1>1, <3>1, <4>1 DEF With
    <3> QED
      BY <1>1, <2>1, <2>4, <3>2, <3>3, <3>4 DEF SearchSoFar
  <2> QED
    BY <2>3, <2>4
<1> QED
  BY <1>5, <1>6, <1>7 DEF LinesIInv

LEMMA EmitStep ==
  ASSUME LinesIInv, Emit, UNCHANGED <<confVars, served>>
  PROVE  LinesIInv'
<1>1. UNCHANGED <<patterns, input, todo, searchable, fields, goOn, phase, paths, served>>
      /\ step = "matching" /\ step' \in {"idle", "raised"}
  BY DEF Emit, confVars
<1>2. SearchSoFar' /\ Serving'
  BY <1>1 DEF LinesIInv, SearchSoFar, Serving
<1>3. OwnTime \in Int
  BY LinesAssumption DEF OwnTime
<1>4. CASE OwnTime = NotADate
  <2>1. UNCHANGED <<lastTime, events>>
    BY <1>4 DEF Emit
  <2> QED
    BY <1>1, <1>2, <2>1 DEF LinesIInv, LinesTyped, LastIsNearest, TimeIsNearest
<1>5. CASE OwnTime # NotADate
  <2> DEFINE own == OwnTime
             e == [own |-> own, time |-> Stamped(own)]
             N == Len(events)
  <2>1. lastTime' = Stamped(own) /\ events' = Append(events, e)
    BY <1>5 DEF Emit
  <2>2. Stamped(own) = IF own # 0 THEN own ELSE lastTime
    BY DEF Stamped
  <2>3. Stamped(own) \in Int \ {NotADate}
    BY <1>3, <1>5, <2>2 DEF LinesIInv, LinesTyped
  <2> HIDE DEF own
  <2>4. e \in [own : Int, time : Int] /\ events \in Seq([own : Int, time : Int]) /\ N \in Nat
    BY <1>3, <2>3, LenProperties DEF LinesIInv, LinesTyped, own
  <2>5. e.own = own /\ e.time = Stamped(own)
    OBVIOUS
  <2> HIDE DEF e
  <2>6. /\ events' \in Seq([own : Int, time : Int]) /\ Len(events') = N + 1
        /\ events'[N + 1] = e /\ \A k \in 1 .. N : events'[k] = events[k]
    BY <2>1, <2>4, AppendProperties
  <2>7. LinesTyped'
    BY <1>1, <2>1, <2>3, <2>6 DEF LinesIInv, LinesTyped
  <2> HIDE DEF N
  <2>8. LastIsNearest'
    <3>1. CASE own # 0
      <4>1. N + 1 \in 1 .. N + 1 /\ \A k \in N + 1 + 1 .. N + 1 : FALSE
        BY <2>4
      <4> QED
        BY <2>1, <2>2, <2>5, <2>6, <3>1, <4>1 DEF LastIsNearest
    <3>2. CASE own = 0
      <4>1. ASSUME NEW j \in 1 .. N, events[j].own # 0, lastTime = events[j].own,
                   \A k \in j + 1 .. N : events[k].own = 0
            PROVE  LastIsNearest'
        <5>1. j \in 1 .. N + 1
          BY <2>4
        <5>2. ASSUME NEW k \in j + 1 .. N + 1 PROVE events'[k].own = 0
          <6>1. k \in j + 1 .. N \/ k = N + 1
            BY <2>4
          <6>2. k \in 1 .. N \/ k = N + 1
            BY <2>4
          <6> QED
            BY <2>5, <2>6, <3>2, <4>1, <6>1, <6>2
        <5> QED
          BY <2>1, <2>2, <2>6, <3>2, <4>1, <5>1, <5>2 DEF LastIsNearest
      <4>2. ASSUME lastTime = 0, \A k \in 1 .. N : events[k].own = 0
            PROVE  LastIsNearest'
        <5>1. \A k \in 1 .. N + 1 : k \in 1 .. N \/ k = N + 1
          BY <2>4
        <5>2. \A k \in 1 .. N + 1 : events'[k].own = 0
          BY <2>5, <2>6, <3>2, <4>2, <5>1
        <5> QED
          BY <2>1, <2>2, <2>6, <3>2, <4>2, <5>2 DEF LastIsNearest
      <4> QED
        BY <4>1, <4>2 DEF LinesIInv, LastIsNearest, N
    <3> QED
      BY <3>1, <3>2
  <2>9. TimeIsNearest'
    <3>1. DOMAIN events' = 1 .. N + 1 /\ DOMAIN events = 1 .. N
      BY <2>4, <2>6, LenProperties DEF N
    <3> SUFFICES ASSUME NEW i \in 1 .. N + 1
                 PROVE  \/ \E j \in 1 .. i :
                             /\ events'[j].own # 0 /\ events'[i].time = events'[j].own
                             /\ \A k \in j + 1 .. i : events'[k].own = 0
                        \/ events'[i].time = 0 /\ \A k \in 1 .. i : events'[k].own = 0
      BY <3>1 DEF TimeIsNearest
    <3>2. CASE i = N + 1
      <4>1. events'[i].time = lastTime'
        BY <2>1, <2>5, <2>6, <3>2
      <4> QED
        BY <2>6, <2>8, <3>2, <4>1 DEF LastIsNearest
    <3>3. CASE i \in 1 .. N
      <4>1. i \in Nat /\ \A k \in 1 .. i : k \in 1 .. N
        BY <2>4, <3>3
      <4>2. \A k \in 1 .. i : events'[k] = events[k]
        BY <2>6, <4>1
      <4>3. events'[i] = events[i]
        BY <2>6, <3>3
      <4>4. \A j \in 1 .. i : \A k \in j + 1 .. i : k \in 1 .. i
        BY <4>1
      <4>5. \/ \E j \in 1 .. i :
                 /\ events[j].own # 0 /\ events[i].time = events[j].own
                 /\ \A k \in j + 1 .. i : events[k].own = 0
            \/ events[i].time = 0 /\ \A k \in 1 .. i : events[k].own = 0
        BY <3>1, <3>3 DEF LinesIInv, TimeIsNearest
      <4> QED
        BY <4>2, <4>3, <4>4, <4>5
    <3> QED
      BY <2>4, <3>2, <3>3
  <2> QED
    BY <1>2, <2>7, <2>8, <2>9 DEF LinesIInv
<1> QED
  BY <1>4, <1>5

LEMMA ServeStep ==
  ASSUME ConfIInv, LinesIInv, UpdatePaths
  PROVE  LinesIInv'
<1>1. /\ phase = "paths" /\ phase' \in {"shown", "ready"}
      /\ served' = {p \in DOMAIN paths : \A f \in {"hec", "token"} : Proxied(p, f) # ""}
      /\ patterns' = IF Path \in DOMAIN paths THEN PatternsOf(paths[Path]) ELSE <<>>
      /\ UNCHANGED <<paths, step, input, todo, searchable, fields, goOn, lastTime, events>>
  BY DEF UpdatePaths
<1>2. step = "idle"
  BY <1>1 DEF LinesIInv, Serving
<1>3. \A p \in DOMAIN paths : paths[p] \in Seq(Word \X Word)
  <2>1. given.args \in Args /\ given.files \in Files
    BY DEF ConfIInv, GivenKept
  <2>2. paths \in {given.args.paths, FileOf(S2).paths, FileOf(S3).paths}
    BY <1>1 DEF ConfIInv, PassesDone, Paths, PathsShown
  <2>3. ASSUME NEW s PROVE \A p \in DOMAIN FileOf(s).paths : FileOf(s).paths[p] \in Seq(Word \X Word)
    <3>1. CASE s["config_file"].text \in FileNames
      <4> DEFINE d == given.files[s["config_file"].text].paths
      <4>1. d \in [DOMAIN d -> Seq(Word \X Word)]
        BY <2>1, <3>1, GivenAssumption DEF PathsTyped
      <4>2. FileOf(s).paths = d
        BY <3>1 DEF FileOf
      <4> QED
        BY <4>1, <4>2
    <3>2. CASE s["config_file"].text \notin FileNames
      BY <3>2 DEF FileOf, Empty
    <3> QED
      BY <3>1, <3>2
  <2>4. \A p \in DOMAIN given.args.paths : given.args.paths[p] \in Seq(Word \X Word)
    <3> DEFINE d == given.args.paths
    <3>1. d \in [DOMAIN d -> Seq(Word \X Word)]
      BY <2>1, GivenAssumption DEF PathsTyped
    <3> QED
      BY <3>1
  <2> QED
    BY <2>2, <2>3, <2>4
<1>4. patterns' \in Seq(Pattern)
  <2>1. CASE Path \in DOMAIN paths
    <3>1. Len(paths[Path]) \in Nat
      BY <1>3, <2>1, LenProperties
    <3> QED
      BY <1>1, <2>1, <3>1, PatternsTyped
  <2>2. CASE Path \notin DOMAIN paths
    <3>1. patterns' = <<>>
      BY <1>1, <2>2
    <3> QED
      BY <3>1
  <2> QED
    BY <2>1, <2>2
<1>5. UNCHANGED <<step, todo, searchable, fields, goOn, lastTime, events>>
  BY <1>1
<1>6. Serving' /\ SearchSoFar'
  BY <1>1, <1>2 DEF Serving, SearchSoFar
<1>7. LinesTyped'
  BY <1>4, <1>5 DEF LinesIInv, LinesTyped
<1>8. LastIsNearest' /\ TimeIsNearest'
  BY <1>5 DEF LinesIInv, LastIsNearest, TimeIsNearest
<1> QED
  BY <1>6, <1>7, <1>8 DEF LinesIInv

LEMMA SetupStep ==
  ASSUME LinesIInv, Setup
  PROVE  LinesIInv'
<1>1. /\ phase \in {"kw", "named", "named again", "file", "show", "opts", "opts again"}
      /\ phase' \notin {"ready", "shown"}
      /\ UNCHANGED <<lineVars, served>>
  <2>1. UNCHANGED <<lineVars, served>>
    BY DEF Setup
  <2>2. CASE GrokKw
    BY <2>1, <2>2 DEF GrokKw
  <2>3. CASE GrokNamed
    <3>1. AfterNamed \in {"show", "opts", "opts again"}
      BY DEF AfterNamed
    <3> QED
      BY <2>1, <2>3, <3>1 DEF GrokNamed
  <2>4. CASE ReadConfig
    BY <2>1, <2>4 DEF ReadConfig, AfterFile
  <2>5. CASE GrokOpts
    BY <2>1, <2>5 DEF GrokOpts
  <2> QED
    BY <2>2, <2>3, <2>4, <2>5 DEF Setup, Configure
<1>2. step = "idle" /\ served = {}
  BY <1>1 DEF LinesIInv, Serving
<1>3. Serving'
  BY <1>1, <1>2 DEF Serving, lineVars
<1>4. UNCHANGED <<patterns, step, input, todo, searchable, fields, goOn, lastTime, events>>
  BY <1>1 DEF lineVars
<1>5. LinesTyped'
  BY <1>4 DEF LinesIInv, LinesTyped
<1>6. LastIsNearest' /\ TimeIsNearest'
  BY <1>4 DEF LinesIInv, LastIsNearest, TimeIsNearest
<1>7. SearchSoFar'
  BY <1>4 DEF LinesIInv, SearchSoFar
<1> QED
  BY <1>3, <1>5, <1>6, <1>7 DEF LinesIInv

LEMMA LinesInductive == Spec => []LinesIInv
<1>1. Init => LinesIInv
  <2> SUFFICES ASSUME Init PROVE LinesIInv
    OBVIOUS
  <2>1. /\ patterns = <<>> /\ todo = <<>> /\ events = <<>> /\ fields = NoFields
        /\ searchable = NoFields /\ goOn = FALSE /\ step = "idle" /\ lastTime = 0
        /\ served = {} /\ phase = "kw"
    BY DEF Init, ConfInit, LinesInit
  <2>2. DOMAIN NoFields = {} /\ NoFields = [k \in DOMAIN NoFields |-> NoFields[k]]
    BY DEF NoFields
  <2>3. LinesTyped
    <3>1. /\ patterns \in Seq(Pattern) /\ todo \in Seq(Pattern)
          /\ events \in Seq([own : Int, time : Int])
      BY <2>1
    <3>2. DOMAIN fields = {} /\ searchable = [k \in DOMAIN searchable |-> searchable[k]]
      BY <2>1, <2>2, Zenon
    <3>3. 0 \in Int \ {NotADate}
      BY LinesAssumption
    <3> QED
      BY <2>1, <3>1, <3>2, <3>3 DEF LinesTyped
  <2>4. LastIsNearest
    <3>1. Len(events) = 0
      BY <2>1
    <3> QED
      BY <2>1, <3>1 DEF LastIsNearest
  <2>5. TimeIsNearest
    <3>1. DOMAIN events = {}
      BY <2>1
    <3> QED
      BY <3>1 DEF TimeIsNearest
  <2> QED
    BY <2>1, <2>3, <2>4, <2>5 DEF LinesIInv, Serving, SearchSoFar
<1>2. ConfIInv /\ LinesIInv /\ [Next]_vars => LinesIInv'
  <2> SUFFICES ASSUME ConfIInv, LinesIInv, [Next]_vars PROVE LinesIInv'
    OBVIOUS
  <2>1. CASE UNCHANGED vars
    <3>1. UNCHANGED <<phase, paths, patterns, step, input, todo, searchable, fields, goOn,
                      lastTime, events, served>>
      BY <2>1 DEF vars, confVars, lineVars
    <3>2. LinesTyped' /\ Serving'
      BY <3>1 DEF LinesIInv, LinesTyped, Serving
    <3>3. LastIsNearest' /\ TimeIsNearest'
      BY <3>1 DEF LinesIInv, LastIsNearest, TimeIsNearest
    <3>4. SearchSoFar'
      BY <3>1 DEF LinesIInv, SearchSoFar
    <3> QED
      BY <3>2, <3>3, <3>4 DEF LinesIInv
  <2>2. CASE ReadLines
    BY <2>2, LineStep, SkipStep, SearchStep, EmitStep DEF ReadLines, Lines, Process
  <2> QED
    BY <2>1, <2>2, SetupStep, ServeStep DEF Next
<1> QED
  BY <1>1, <1>2, ConfInductive, PTL DEF Spec

(* Settings, lines and paths are well-typed: a field keeps its type but for  *)
(* what a word that is no boolean does to a flag, and no time that was never *)
(* a date is kept.                                                           *)
THEOREM ConfiguredTypes == Spec => []TypeOK
<1>1. ConfIInv /\ LinesIInv => TypeOK
  <2> SUFFICES ASSUME ConfIInv, LinesIInv PROVE TypeOK
    OBVIOUS
  <2>1. ConfTypeOK
    <3>1. \A f \in Field : settings[f].type = Default[f].type
                            \/ Default[f].type = "none" \/ ~Sound(f)
      BY DEF ConfIInv, KeepsTypes, TypesOf
    <3> QED
      BY <3>1 DEF ConfTypeOK, ConfIInv, KeepsTypes, Phase
  <2>2. LinesTypeOK
    BY ElementOfSeq, LenProperties DEF LinesTypeOK, LinesIInv, LinesTyped, Values
  <2> QED
    BY <2>1, <2>2 DEF TypeOK, LinesIInv, Serving
<1> QED
  BY <1>1, ConfInductive, LinesInductive, PTL

(* The time of an event is its own or that of the nearest earlier event of   *)
(* this process that had one, for all patterns, times and lines              *)
(* (rlep.py:43-50).                                                          *)
THEOREM TimeIsNearestAlways == Spec => []TimeIsNearest
BY LinesInductive, PTL DEF LinesIInv

(* What compute_fields returns is every field that the options in force for  *)
(* the path find, in their order and up to the first that finds nothing, as  *)
(* the last of them found it (daemon.py:257-271, rlep.py:20-26,              *)
(* re.py:60-99).                                                             *)
THEOREM FieldsInForceAlways == Spec => []FieldsInForce
<1>1. ConfIInv /\ LinesIInv => FieldsInForce
  <2> SUFFICES ASSUME ConfIInv, LinesIInv, step = "matching"
               PROVE  Path \in DOMAIN PathsOf /\ UpToFirstMiss(PatternsOf(PathsOf[Path]))
    BY DEF FieldsInForce
  <2>1. phase = "ready" /\ Path \in DOMAIN paths /\ patterns = PatternsOf(paths[Path])
    BY DEF LinesIInv, Serving
  <2>2. paths = PathsOf
    BY <2>1 DEF ConfIInv, PassesDone, Paths, PathsOf, S1, S2, S3
  <2>3. ASSUME ~Turning
        PROVE  \E n \in 0 .. Len(patterns) :
                 /\ \A i \in 1 .. n : Applies(input, patterns[i], After(input, patterns)[i - 1])
                 /\ n < Len(patterns) => ~Applies(input, patterns[n + 1], After(input, patterns)[n])
                 /\ fields = FieldsOf(input, patterns, n)
    <3>1. patterns \in Seq(Pattern) /\ Len(patterns) \in Nat
      BY LenProperties DEF LinesIInv, LinesTyped
    <3>2. PICK n \in 0 .. Len(patterns) :
            /\ \A i \in 1 .. n : Applies(input, patterns[i], After(input, patterns)[i - 1])
            /\ fields = FieldsOf(input, patterns, n)
            /\ IF goOn THEN todo = SubSeq(patterns, n + 1, Len(patterns))
               ELSE n < Len(patterns) /\ ~Applies(input, patterns[n + 1], After(input, patterns)[n])
      BY DEF LinesIInv, SearchSoFar
    <3>3. ASSUME goOn, n < Len(patterns) PROVE FALSE
      <4>1. \A k \in n + 1 .. Len(patterns) : patterns[k] \in Pattern
        BY <3>1, ElementOfSeq
      <4>2. n + 1 \in Int /\ Len(patterns) \in Int /\ n + 1 <= Len(patterns)
            /\ Len(patterns) - (n + 1) + 1 # 0
        BY <3>1, <3>3
      <4>3. Len(SubSeq(patterns, n + 1, Len(patterns))) # 0
        BY <4>1, <4>2, SubSeqProperties
      <4>4. Len(todo) # 0
        BY <3>2, <3>3, <4>3
      <4>5. todo = <<>>
        BY <2>3, <3>3 DEF Turning
      <4> QED
        BY <4>4, <4>5
    <3> QED
      BY <3>2, <3>3
  <2> QED
    BY <2>1, <2>2, <2>3 DEF UpToFirstMiss
<1> QED
  BY <1>1, ConfInductive, LinesInductive, PTL

==============================================================================
