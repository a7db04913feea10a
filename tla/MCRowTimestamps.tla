--------------------------- MODULE MCRowTimestamps ---------------------------
(* A small instance of RowTimestamps for TLC. *)
EXTENDS RowTimestamps, TLC

\* Negative, below a second, with half a second left over, above the largest int.
SomeTTLs == {-3, 1, 3, 10}

WriterSymmetry == Permutations(Writer)
=============================================================================
