---------------------------- MODULE MCUpdateDelivery ----------------------------
(***************************************************************************)
(* Two groups, whose callbacks run at the same time.  Item "own" is in one *)
(* of them, item "shared" in both, so that its updates race.               *)
(***************************************************************************)
EXTENDS UpdateDelivery

CONSTANTS fast, slow, own, shared

MCGroups == {fast, slow}
MCItems == {own, shared}
MCGroupItems == [g \in MCGroups |-> IF g = fast THEN {own, shared} ELSE {shared}]
================================================================================
