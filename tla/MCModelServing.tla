--------------------------- MODULE MCModelServing ---------------------------
(***************************************************************************)
(* The model registry for TLC: House_Price is registered and trained;      *)
(* Coffee_Pref is only trained, as Random_Generated_Models.py has it; in   *)
(* ModelServing_names.cfg Coffee_Recommender is only registered, as        *)
(* System_Startup_Checks.go has it.  A model that is only trained has no   *)
(* artifact at the beginning (TrainedAreNew); a registered one may.        *)
(***************************************************************************)
EXTENDS ModelServing

AllRegistryFaults == RegistryFaultKinds
AllGatewayFaults  == GatewayFaultKinds
NoFaults          == {}

TrainedAreNew == \A m \in Trained \ Registered : 1 \notin deployed[m]
=============================================================================
