----------------------------- MODULE MCOwnership -----------------------------
(* A small instance of Ownership for TLC. *)
EXTENDS Ownership, TLC

AllOps == Operation

\* Requests differ in nothing but their names.
RequestSymmetry == Permutations(Req)
=============================================================================
