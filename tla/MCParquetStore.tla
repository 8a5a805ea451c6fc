--------------------------- MODULE MCParquetStore ---------------------------
(* The instance of ParquetStore that the run checks.                         *)
EXTENDS ParquetStore, TLC

Symmetry == Permutations(Procs)
=============================================================================
