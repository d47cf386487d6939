--------------------------- MODULE MCAsyncConditions ---------------------------
(***************************************************************************)
(* One assertion of each kind and one on an empty path.  The timeouts are  *)
(* 1 and 2, so that one tick expires some conditions and not others, and 0 *)
(* (less than one tick) for the assertion that has an item of its own.     *)
(* Contents has one expected member and one other: an update either is or  *)
(* is not what an assertion is about.                                      *)
(***************************************************************************)
EXTENDS AsyncConditions

CONSTANTS equals1, notEquals1, quality2, refused, p1, p2, on, off

MCConditions == {equals1, notEquals1, quality2, refused}
MCFewConditions == {equals1, notEquals1}
MCPaths == {p1, p2}
MCOnePath == {p1}
MCContents == {on, off}

MCKind ==
  [c \in Conditions |->
     CASE c = notEquals1 -> "NotEquals"
       [] c = quality2   -> "Quality"
       [] OTHER          -> "Equals"]

MCItemPath ==
  [c \in Conditions |->
     CASE c = refused -> NoPath [] c = quality2 -> p2 [] OTHER -> p1]

MCExpected == [c \in Conditions |-> on]

MCTimeout ==
  [c \in Conditions |->
     CASE c = notEquals1 -> 2 [] c = quality2 -> 0 [] OTHER -> 1]
================================================================================
