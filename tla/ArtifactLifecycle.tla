------------------------- MODULE ArtifactLifecycle -------------------------
(***************************************************************************)
(* What service D promises about the artifacts of the models, without      *)
(* startups, loops, directories and calls: an artifact leaves production   *)
(* only when it is kept, a newer one takes its place, nothing that is kept *)
(* is forgotten, and what is served was taken from production.  Whoever    *)
(* keeps artifacts carelessly may forget some; publishing and serving      *)
(* obey their rules all the same.                                          *)
(***************************************************************************)
EXTENDS Integers

CONSTANT Models

VARIABLES newest,      \* the newest artifact made; artifacts are numbered
          production,  \* the artifact of each model in production, or 0
          kept,        \* the artifacts of each model that are put aside
          served,      \* the artifact of each model that is served, or 0
          careless     \* whether keeping has ever gone wrong

avars == <<newest, production, kept, served, careless>>

Init == /\ newest = 1
        /\ \E S \in SUBSET Models :
              production = [m \in Models |-> IF m \in S THEN 1 ELSE 0]
        /\ kept = [m \in Models |-> {}]
        /\ served = [m \in Models |-> 0]
        /\ careless = FALSE

\* The next artifacts are made, one of each model and all with one number.
Make == /\ newest' = newest + 1
        /\ UNCHANGED <<production, kept, served, careless>>

Keep(m) == /\ production[m] # 0
           /\ kept' = [kept EXCEPT ![m] = @ \cup {production[m]}]
           /\ UNCHANGED <<newest, production, served, careless>>

\* Keeping goes wrong: nothing is put aside, or something else is forgotten.
KeepCarelessly(m) ==
    /\ \E S \in SUBSET (kept[m] \cup ({production[m]} \ {0})) :
          kept' = [kept EXCEPT ![m] = S]
    /\ careless' = TRUE
    /\ UNCHANGED <<newest, production, served>>

\* What is taken out of production is kept, careless or not.
Withdraw(m) == /\ production[m] \in kept[m]
               /\ production' = [production EXCEPT ![m] = 0]
               /\ UNCHANGED <<newest, kept, served, careless>>

Publish(m) == /\ production[m] < newest
              /\ production[m] \in kept[m] \cup {0} \/ careless
              /\ production' = [production EXCEPT ![m] = newest]
              /\ UNCHANGED <<newest, kept, served, careless>>

Serve(m) == /\ production[m] # 0
            /\ served' = [served EXCEPT ![m] = production[m]]
            /\ UNCHANGED <<newest, production, kept, careless>>

Next == \/ Make
        \/ \E m \in Models : \/ Keep(m) \/ KeepCarelessly(m)
                             \/ Withdraw(m) \/ Publish(m) \/ Serve(m)

Spec == Init /\ [][Next]_avars
=============================================================================
