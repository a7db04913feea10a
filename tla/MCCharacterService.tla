------------------------- MODULE MCCharacterService -------------------------
(* Small instances of CharacterService for TLC. *)
EXTENDS CharacterService, TLC

ReservationOps == {"create", "confirm", "delete"}
AllOps == Operation
UpdateOps == {"put", "patch", "delete"}

\* Requests differ in nothing but their names.
RequestSymmetry == Permutations(Req)

\* Nor do races: rows begin with any of them.
RequestAndRaceSymmetry == RequestSymmetry \cup Permutations(Race)
=============================================================================
