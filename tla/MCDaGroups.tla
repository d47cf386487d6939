------------------------------- MODULE MCDaGroups -------------------------------
(***************************************************************************)
(* Two scripts on two servers of one group and two items; the second       *)
(* server lacks an item of the first.  A script makes the group twice by a *)
(* String, and once by a GString.                                          *)
(***************************************************************************)
EXTENDS DaGroups, TLC

CONSTANTS g, p, q

MCObjects == {<<g, "String", 1>>, <<g, "String", 2>>, <<g, "GString", 1>>}
MCItemKeys == {<<p, "String">>, <<p, "GString">>, <<q, "String">>}
MCSpace == <<{p, q}, {q}>>
================================================================================
