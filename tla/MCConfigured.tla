---------------------------- MODULE MCConfigured ----------------------------
(***************************************************************************)
(* A small configuration for TLC: a flag, an option of its own, a number   *)
(* and a setting without a default; two config files; one path with up to  *)
(* three patterns, of which "b" searches in the field "k" that "a" finds;  *)
(* "d" does too, and has the name of "a".                                  *)
(***************************************************************************)
EXTENDS Configured, TLC

MCWord == STRING

MCDefault ==
  [verbose |-> Bool(FALSE), log_level |-> Str("info"), config_file |-> Str("f1"),
   step_interval |-> [type |-> "num", text |-> "0.5"],
   hec |-> [type |-> "none", text |-> ""], token |-> [type |-> "none", text |-> ""]]

MCKws == {Empty, "verbose" :> Bool(TRUE), "log_level" :> Str("debug"), "bogus" :> Str("1")}

MCFlags == {{}, {"verbose"}}
MCNamed == {Empty, "log_level" :> "error", "config_file" :> "f2"}
MCOpts == {Empty, "step_interval" :> "1", "step_interval" :> "soon",
           "verbose" :> "no", "config_file" :> "f2", "bogus" :> "1"}

Re(ps) == [i \in DOMAIN ps |-> <<"re_" \o ps[i], ps[i]>>]
NoHec == <<<<"hec", "">>>>

MCGivenPaths == {Empty, "/p" :> Re(<<"c">>), "/q" :> <<>>}
MCArgs == [flags : MCFlags, named : MCNamed, opt : MCOpts, paths : MCGivenPaths, show : BOOLEAN]

Token == "token" :> "x"
Sections == {[hec |-> "h"] @@ Token, Token @@ [hec |-> "h", verbose |-> "yes", log_level |-> "warn"],
             Token @@ [hec |-> "h", verbose |-> "maybe", step_interval |-> "2"],
             [step_interval |-> "soon"], [hec |-> "h"]}
Orders == {Re(<<"a", "b", "c">>), Re(<<"b", "a">>), NoHec \o Re(<<"a">>), Re(<<"a", "d">>)}
Second == [sslf |-> Token @@ [hec |-> "h", step_interval |-> "3", config_file |-> "f1"],
           paths |-> "/p" :> Re(<<"c", "b">>)]
MCFiles ==
  {[f1 |-> [sslf |-> s, paths |-> "/p" :> o], f2 |-> Second] : s \in Sections, o \in Orders}

MCTimeOf == [t \in {"l1", "l2", "l3", "v", "10", "20", "junk"} |->
               CASE t = "10" -> 10 [] t = "20" -> 20 [] OTHER -> 99]
MCFound ==
  [a |-> "l1" :> [k |-> "v", t |-> "10"] @@ "l2" :> [k |-> "none"],
   b |-> "v" :> [t |-> "20"],
   d |-> "v" :> [t |-> "10"],
   c |-> "l1" :> [t |-> "20"] @@ "l3" :> [t |-> "junk"]]
MCSearches == [a |-> "", b |-> "k", c |-> "", d |-> "k"]
MCRname == [a |-> "a", b |-> "b", c |-> "c", d |-> "a"] \* re_a and re_a:k
MCInputs == {[line |-> l, dict |-> NoFields] : l \in {"l1", "l2", "l3"}}
            \cup {[line |-> "none", dict |-> "k" :> "v"]}
==============================================================================
