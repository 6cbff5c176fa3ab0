----------------------------- MODULE MCDBWrites -----------------------------
(***************************************************************************)
(* The write path for TLC: two tables, batches smaller than the queue can  *)
(* get, rows DuckDB refuses, and every failure the code can meet.          *)
(***************************************************************************)
EXTENDS DBWrites, TLC

AllFaults == WriteFaultKinds
TableSymmetry == Permutations(Tables)
=============================================================================
