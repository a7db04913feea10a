-------------------------- MODULE MCIdempotentApi --------------------------
(* Small instances of IdempotentApi for TLC. *)
EXTENDS IdempotentApi, TLC

Posts == {"create", "confirm"}

\* Requests differ in nothing but their names, and races in nothing but theirs.
RequestSymmetry == Permutations(Req)
BodySymmetry == Permutations(Req) \cup Permutations(Race)
=============================================================================
