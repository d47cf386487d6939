----------------------------- MODULE MCDaNamespace ------------------------------
(***************************************************************************)
(* A root with branches a and b; below a are c and d, which has the name   *)
(* of b, so that going down to b at the wrong position finds it, and going *)
(* down to c at the wrong position finds nothing.  The root and a have no  *)
(* items, c has two.                                                       *)
(***************************************************************************)
EXTENDS DaNamespace, TLC

MCBranches == {"root", "a", "b", "c", "d"}
MCParent == "root" :> "root" @@ "a" :> "root" @@ "b" :> "root" @@ "c" :> "a" @@ "d" :> "a"
MCLabel == "root" :> "" @@ "a" :> "a" @@ "b" :> "b" @@ "c" :> "c" @@ "d" :> "b"
MCDepth == "root" :> 0 @@ "a" :> 1 @@ "b" :> 1 @@ "c" :> 2 @@ "d" :> 2
MCItems == 1..4
MCIn == <<"b", "c", "c", "d">>
================================================================================
