--------------------------- MODULE MCUaSubscriptions ---------------------------
(***************************************************************************)
(* Two names, so that one subscription can be deleted while another is     *)
(* active, and two threads, so that a second one may be started too early. *)
(* Neither names nor threads are told apart by the specification: safety   *)
(* is checked up to their permutation.                                     *)
(***************************************************************************)
EXTENDS UaSubscriptions, TLC

MCSymmetry == Permutations(Names) \cup Permutations(Threads)
================================================================================
