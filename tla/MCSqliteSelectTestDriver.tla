----------------------- MODULE MCSqliteSelectTestDriver ------------------------
(* A driver and those that may be derived from it or from each other. *)
EXTENDS SqliteSelectTestDriver, TLC

CONSTANTS d1, d2, d3, d4

DerivedSymmetry == Permutations({d2, d3, d4})
================================================================================
