---------------------------- MODULE MCDaTransactions ----------------------------
(***************************************************************************)
(* Two scripts, one group of one item, which a script may make twice, a    *)
(* read and a write of it.                                                 *)
(***************************************************************************)
EXTENDS DaTransactions, TLC

CONSTANTS g, p

MCObjects == {<<g, "String", 1>>, <<g, "String", 2>>}
MCItemKeys == {<<p, "String">>}
MCSpace == <<{p}, {p}>>
MCRequests == {[id |-> 1, group |-> g, path |-> p, write |-> FALSE],
               [id |-> 2, group |-> g, path |-> p, write |-> TRUE]}
================================================================================
