---------------------------- MODULE MCRaceCatalog ----------------------------
(* A small instance of RaceCatalog for TLC. *)
EXTENDS RaceCatalog, TLC

AllOps == RaceOps \cup CharacterOps

\* Requests differ in nothing but their names, and so do the names of races.
CatalogSymmetry == Permutations(Req) \cup Permutations(Name)
=============================================================================
