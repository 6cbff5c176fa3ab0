----------------------------- MODULE MCDBReads -----------------------------
(***************************************************************************)
(* The read path for TLC.  The clients are interchangeable, so the safety  *)
(* run takes the states up to a permutation of them.                       *)
(***************************************************************************)
EXTENDS DBReads, TLC

\* Every failure the code can meet.
AllFaults == FaultKinds

\* Every failure but the death of the handler and the loss of an Expire.
HandlerSurvives == FaultKinds \ {"handler", "expire"}

\* The death of the handler alone.
HandlerDies == {"handler"}

ClientSymmetry == Permutations(Clients)
=============================================================================
