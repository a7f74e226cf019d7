----------------------------- MODULE MCCmdLines -----------------------------
(* Two readers with one command, as two paths with the same cmd have, and    *)
(* limits of their own.                                                      *)
EXTENDS CmdLines

MCCmd == <<1, 1>>
MCPrlimits == {<<1, 0>>, <<0, Text>>}
==============================================================================
