------------------------- MODULE ModelServingProofs -------------------------
(***************************************************************************)
(* Proofs about the model registry and service B, for all sets of models,  *)
(* any number of trainings and every set of failures.  No step of the      *)
(* gateway changes the registry, so an invariant of RegistryNext is one of *)
(* ServingSpec; RegistryInv is inductive for the registry, GatewayInv for  *)
(* the two together.                                                       *)
(***************************************************************************)
EXTENDS ModelServing, TLAPS

\* What ManageAzureArtifacts knows of the model it works on; its training is not
\* what was there at the beginning.
Work ==
    /\ dpc \in Retraining => trained > 1
    /\ dpc \in {"archive", "delete"} =>
          current \in Trained /\ old = blob[current] /\ old # 0
    /\ dpc = "delete" => old \in archive[current]
    /\ dpc = "upload" => current \in Trained

\* What the upload is about to overwrite has an archive.
Replaceable ==
    dpc = "upload" /\ "unarchived" \notin seen =>
       blob[current] \in archive[current] \cup {0}

\* Redis is never ahead of Azure, and nothing is ahead of the training.
Ages == \A m \in Models : /\ blob[m] <= trained
                          /\ cache[m] <= trained
                          /\ blob[m] # 0 => cache[m] <= blob[m]

\* A registered model that was in production at the beginning is in Redis if it
\* has left production since, or if its turn at startup is over.
Loaded ==
    "unloaded" \notin seen =>
       \A m \in FoundInProduction :
          \/ blob[m] = 0
          \/ dpc \in {"idle", "drift"} \cup Retraining
          \/ dpc = "artifacts" /\ m \notin todo
          => cache[m] # 0

RegistryInv == /\ RegistryTypeOK
               /\ Work
               /\ Replaceable
               /\ ArtifactsKept
               /\ NoGap
               /\ Ages
               /\ Loaded

-----------------------------------------------------------------------------
(* The failures that seen remembers *)

\* What each failure leaves in seen, and that it is a mark.
LEMMA MarkOf ==
    /\ \A f \in RegistryFaultKinds : Mark(f) \subseteq Marks
    /\ Mark("list") = {"unarchived"}
    /\ Mark("archive") = {"unarchived"}
    /\ Mark("collide") = {"unarchived"}
    /\ Mark("disk") = {"unpublished"}
    /\ Mark("upload") = {"unpublished"}
    /\ Mark("load") = {"unloaded"}
    /\ Mark("query") = {"died"}
    /\ Mark("crash") = {"died"}
    /\ Mark("redis") = {}
    /\ Mark("delete") = {}
BY DEF Mark, Marks, RegistryFaultKinds

\* A failure keeps what seen remembers and adds its mark.
LEMMA FaultMarks ==
    ASSUME NEW f \in RegistryFaultKinds, Fault(f), seen \subseteq Marks
    PROVE  /\ seen' = seen \cup Mark(f)
           /\ seen' \subseteq Marks
BY MarkOf DEF Fault

-----------------------------------------------------------------------------
(* The registry: one lemma per group of actions *)

\* The invariant holds before the first start.
LEMMA RegistryInitInv == RegistryInit => RegistryInv
<1> SUFFICES ASSUME RegistryInit PROVE RegistryInv
  OBVIOUS
<1> USE RegistryAssumption DEF RegistryInit, Models
<1>1. RegistryTypeOK
  BY DEF RegistryTypeOK, Artifacts, Starting, Marks
<1>2. Work /\ Replaceable
  BY DEF Work, Replaceable, Retraining
<1>3. \A m \in Models : /\ blob[m] \in {0, 1} /\ cache[m] = 0
                        /\ deployed[m] = {blob[m]} \ {0}
  OBVIOUS
<1>4. Ages
  <2> SUFFICES ASSUME NEW m \in Models
               PROVE  /\ blob[m] <= trained
                      /\ cache[m] <= trained
                      /\ blob[m] # 0 => cache[m] <= blob[m]
    BY DEF Ages
  <2>1. blob[m] \in {0, 1} /\ cache[m] = 0 /\ trained = 1
    BY <1>3
  <2> HIDE DEF RegistryInit
  <2> QED BY <2>1
<1>5. Loaded
  BY <1>3 DEF Loaded, FoundInProduction, Retraining
<1>6. ArtifactsKept
  BY <1>3 DEF ArtifactsKept
<1>7. NoGap
  BY <1>3 DEF NoGap
<1> QED BY <1>1, <1>2, <1>4, <1>5, <1>6, <1>7 DEF RegistryInv

\* The steps of the startup that read and write Redis keep the invariant.
LEMMA StartKeeps ==
    ASSUME RegistryInv, StartStep PROVE RegistryInv'
<1> USE RegistryAssumption DEF RegistryInv, workVars, azureVars, redisVars
<1>t. RegistryTypeOK
  OBVIOUS
<1>s. /\ seen \subseteq seen'
      /\ seen' \subseteq Marks
  BY MarkOf DEF StartStep, Boot, StartFails, SaveMetadata, ClearNames, AddNames,
        LoadArtifact, Fault, NoFault, RegistryTypeOK, RegistryFaultKinds
<1>a. UNCHANGED <<trained, azureVars>> /\ UNCHANGED <<current, old>>
  BY DEF StartStep, Boot, StartFails, SaveMetadata, ClearNames, AddNames, LoadArtifact
<1>d. /\ dpc \in Starting
      /\ dpc' \in Starting \cup {"idle"}
  BY DEF StartStep, Boot, StartFails, SaveMetadata, ClearNames, AddNames, LoadArtifact,
         Starting
<1>1. RegistryTypeOK'
  <2>1. described' \subseteq Registered /\ named' \subseteq Registered /\ todo' \subseteq Models
    BY DEF StartStep, Boot, StartFails, SaveMetadata, ClearNames, AddNames, LoadArtifact,
           RegistryTypeOK, Models
  <2>2. cache' \in [Models -> Artifacts \cup {0}]
    BY DEF StartStep, Boot, StartFails, SaveMetadata, ClearNames, AddNames, LoadArtifact,
           Loadable, RegistryTypeOK, Models
  <2> QED BY <1>s, <1>a, <1>d, <2>1, <2>2 DEF RegistryTypeOK
<1>2. Work' /\ Replaceable' /\ ArtifactsKept' /\ NoGap'
  BY <1>s, <1>a, <1>d
     DEF Work, Replaceable, ArtifactsKept, NoGap, Starting, Retraining
<1>3. \A m \in Models : cache'[m] = cache[m] \/ (blob[m] # 0 /\ cache'[m] = blob[m])
  BY DEF StartStep, Boot, StartFails, SaveMetadata, ClearNames, AddNames, LoadArtifact,
         Loadable, RegistryTypeOK, Models
<1>4. Ages'
  BY <1>a, <1>3 DEF Ages, RegistryTypeOK, Artifacts
<1>5. Loaded'
  <2> SUFFICES ASSUME "unloaded" \notin seen', NEW m \in FoundInProduction,
                      \/ blob[m] = 0
                      \/ dpc' = "idle"
                      \/ dpc' = "artifacts" /\ m \notin todo'
               PROVE  cache'[m] # 0
    BY <1>a, <1>d DEF Loaded, FoundInProduction, Starting, Retraining
  <2>1. m \in Models /\ "unloaded" \notin seen
    BY <1>s DEF Models, FoundInProduction
  <2>2. CASE blob[m] = 0
    BY <2>1, <2>2, <1>3 DEF Loaded
  <2>3. CASE blob[m] # 0
    <3>1. PICK k \in Registered : LoadArtifact(k) \/ AddNames
      BY <2>1, <2>3 DEF FoundInProduction, StartStep, Boot, StartFails, SaveMetadata,
                        ClearNames, AddNames
    <3>2. CASE AddNames
      BY <2>3, <3>2 DEF AddNames, FoundInProduction
    <3>3. CASE LoadArtifact(k)
      <4>1. ~Fault("load")
        BY <2>1, MarkOf DEF Fault
      <4>2. CASE k = m
        BY <2>1, <2>3, <3>3, <4>1, <4>2 DEF LoadArtifact, Loadable, RegistryTypeOK
      <4>3. CASE k # m
        BY <2>1, <2>3, <3>3, <4>3, <1>3 DEF LoadArtifact, Loaded
      <4> QED BY <4>2, <4>3
    <3> QED BY <3>1, <3>2, <3>3
  <2> QED BY <2>2, <2>3
<1> QED BY <1>1, <1>2, <1>4, <1>5

\* A training and the backup keep the invariant.
LEMMA TrainKeeps ==
    ASSUME RegistryInv, Train \/ Backup PROVE RegistryInv'
<1> USE RegistryAssumption DEF RegistryInv, workVars, azureVars, redisVars
<1>s. seen \subseteq seen' /\ seen' \subseteq Marks
  BY MarkOf DEF Train, Backup, Fault, NoFault, RegistryTypeOK, RegistryFaultKinds
<1>a. UNCHANGED <<azureVars, redisVars, current, old>>
  BY DEF Train, Backup
<1>d. /\ dpc \in {"idle", "backup"}
      /\ dpc' \in {"idle", "backup", "azure"}
  BY DEF Train, Backup
<1>n. trained' \in Artifacts /\ trained <= trained'
  BY DEF Train, Backup, RegistryTypeOK, Artifacts
<1>m. dpc' \in Retraining => trained' > 1
  BY DEF Train, Backup, Work, Retraining, RegistryTypeOK, Artifacts
<1>1. RegistryTypeOK'
  <2>1. todo' \subseteq Models
    BY DEF Train, Backup, RegistryTypeOK, Models
  <2> QED BY <1>s, <1>a, <1>d, <1>n, <2>1 DEF RegistryTypeOK, Retraining
<1>2. Work' /\ Replaceable' /\ ArtifactsKept' /\ NoGap'
  BY <1>s, <1>a, <1>d, <1>m DEF Work, Replaceable, ArtifactsKept, NoGap
<1>3. Ages'
  BY <1>a, <1>n DEF Ages, RegistryTypeOK, Artifacts
<1>4. Loaded'
  BY <1>s, <1>a, <1>d DEF Loaded, FoundInProduction, Retraining
<1> QED BY <1>1, <1>2, <1>3, <1>4

\* The choice of the next model and the archiving of its old artifact.
LEMMA ArchiveKeeps ==
    ASSUME RegistryInv, NEW m \in Trained, Scan(m) \/ Archive PROVE RegistryInv'
<1> USE RegistryAssumption DEF RegistryInv, workVars, azureVars, redisVars
<1>s. seen \subseteq seen' /\ seen' \subseteq Marks
  BY MarkOf DEF Scan, Archive, Fault, NoFault, RegistryTypeOK, RegistryFaultKinds
<1>a. UNCHANGED <<blob, deployed, redisVars, trained, todo>>
  BY DEF Scan, Archive
<1>d. /\ dpc \in {"azure", "archive"}
      /\ dpc' \in {"archive", "delete", "upload"}
  BY DEF Scan, Archive
<1>1. RegistryTypeOK'
  <2>1. CASE Scan(m)
    BY <1>s, <1>a, <1>d, <2>1 DEF Scan, RegistryTypeOK, Retraining, Models
  <2>2. CASE Archive
    <3>1. old \in Artifacts /\ current \in Models
      BY <2>2 DEF Archive, Work, RegistryTypeOK, Models
    <3>2. archive' \in [Models -> SUBSET Artifacts]
      BY <2>2, <3>1 DEF Archive, Archived, RegistryTypeOK
    <3> QED BY <1>s, <1>a, <1>d, <2>2, <3>2 DEF Archive, RegistryTypeOK, Retraining
  <2> QED BY <2>1, <2>2
<1>2. Work' /\ Replaceable'
  <2>1. CASE Scan(m)
    BY <2>1, <1>a, <1>d, MarkOf DEF Scan, Fault, Work, Replaceable, Retraining
  <2>2. CASE Archive
    <3>1. current \in Models
      BY <2>2 DEF Archive, Work, Models
    <3> QED BY <2>2, <3>1, <1>a, MarkOf
            DEF Archive, Archived, Fault, Work, Replaceable, RegistryTypeOK, Retraining
  <2> QED BY <2>1, <2>2
<1>3. ArtifactsKept'
  <2> SUFFICES ASSUME "unarchived" \notin seen', NEW k \in Models
               PROVE  deployed[k] \subseteq archive'[k] \cup {blob[k]}
    BY <1>a DEF ArtifactsKept
  <2>1. archive[k] \subseteq archive'[k]
    BY MarkOf DEF Scan, Archive, Archived, Fault, RegistryTypeOK
  <2> QED BY <1>s, <2>1 DEF ArtifactsKept
<1>4. NoGap' /\ Ages' /\ Loaded'
  BY <1>s, <1>a, <1>d DEF NoGap, Ages, Loaded, FoundInProduction, Retraining
<1> QED BY <1>1, <1>2, <1>3, <1>4

\* The delete of the archived artifact.
LEMMA DeleteKeeps ==
    ASSUME RegistryInv, Delete PROVE RegistryInv'
<1> USE RegistryAssumption DEF RegistryInv, workVars, azureVars, redisVars
<1>s. seen \subseteq seen' /\ seen' \subseteq Marks
  BY MarkOf DEF Delete, Fault, NoFault, RegistryTypeOK, RegistryFaultKinds
<1>a. UNCHANGED <<workVars, trained, archive, deployed, redisVars>>
  BY DEF Delete
<1>b. /\ current \in Models
      /\ blob' \in {blob, [blob EXCEPT ![current] = 0]}
      /\ dpc = "delete" /\ dpc' = "upload"
      /\ blob[current] \in archive[current]
  BY DEF Delete, Work, Models
<1>1. RegistryTypeOK'
  BY <1>s, <1>a, <1>b DEF RegistryTypeOK, Retraining
<1>2. Work' /\ Replaceable'
  BY <1>a, <1>b DEF Work, Replaceable, RegistryTypeOK, Retraining
<1>3. ArtifactsKept'
  BY <1>s, <1>a, <1>b DEF ArtifactsKept, RegistryTypeOK
<1>4. NoGap' /\ Ages' /\ Loaded'
  BY <1>s, <1>a, <1>b DEF NoGap, Ages, Loaded, FoundInProduction, Retraining, RegistryTypeOK,
                           Artifacts, Models
<1> QED BY <1>1, <1>2, <1>3, <1>4

\* The upload of the new artifact.
LEMMA UploadKeeps ==
    ASSUME RegistryInv, Upload PROVE RegistryInv'
<1> USE RegistryAssumption DEF RegistryInv, workVars, azureVars, redisVars
<1>s. seen \subseteq seen' /\ seen' \subseteq Marks
  BY MarkOf DEF Upload, Fault, NoFault, RegistryTypeOK, RegistryFaultKinds
<1>a. UNCHANGED <<trained, archive, redisVars>>
  BY DEF Upload
<1>d. /\ current \in Models
      /\ dpc = "upload" /\ dpc' \in {"idle", "azure"}
      /\ todo' \subseteq todo /\ current' = NoModel /\ old' = 0
  BY DEF Upload, NextModel, Work, Models
<1>b. \/ PutInProduction
      \/ UNCHANGED <<blob, deployed>> /\ seen' \cap {"unpublished", "died"} # {}
  BY MarkOf DEF Upload, Fault, NoFault
<1>t. trained \in Artifacts /\ trained # 0 /\ trained > 1
  BY <1>d DEF RegistryTypeOK, Artifacts, Work, Retraining
<1>1. RegistryTypeOK'
  BY <1>s, <1>a, <1>b, <1>d, <1>t DEF RegistryTypeOK, Retraining, PutInProduction
<1>2. Work' /\ Replaceable'
  BY <1>a, <1>d, <1>t DEF Work, Replaceable
<1>3. ArtifactsKept'
  <2> SUFFICES ASSUME "unarchived" \notin seen', NEW k \in Models
               PROVE  deployed'[k] \subseteq archive[k] \cup {blob'[k]}
    BY <1>a DEF ArtifactsKept
  <2>1. deployed[k] \subseteq archive[k] \cup {blob[k]} /\ 0 \notin deployed[k]
    BY <1>s DEF ArtifactsKept, RegistryTypeOK, Artifacts
  <2>2. CASE UNCHANGED <<blob, deployed>>
    BY <2>1, <2>2
  <2>3. CASE PutInProduction
    <3>1. CASE k = current
      BY <1>s, <1>d, <2>1, <2>3, <3>1 DEF PutInProduction, Replaceable, RegistryTypeOK
    <3>2. CASE k # current
      BY <2>1, <2>3, <3>2 DEF PutInProduction, RegistryTypeOK
    <3> QED BY <3>1, <3>2
  <2> QED BY <1>b, <2>2, <2>3
<1>4. NoGap'
  BY <1>s, <1>b, <1>d, <1>t DEF NoGap, PutInProduction, RegistryTypeOK, Models
<1>5. Ages'
  BY <1>a, <1>b, <1>t DEF Ages, PutInProduction, RegistryTypeOK, Artifacts
<1>6. Loaded'
  <2>1. FoundInProduction' \subseteq FoundInProduction
    BY <1>b, <1>t DEF FoundInProduction, PutInProduction, RegistryTypeOK, Models, Artifacts
  <2>2. \A m \in FoundInProduction : "unloaded" \notin seen => cache[m] # 0
    BY <1>d DEF Loaded, Retraining
  <2> QED BY <1>s, <1>a, <2>1, <2>2 DEF Loaded
<1> QED BY <1>1, <1>2, <1>3, <1>4, <1>5, <1>6

\* The death of the process.
LEMMA CrashKeeps ==
    ASSUME RegistryInv, Crash PROVE RegistryInv'
<1> USE RegistryAssumption DEF RegistryInv, workVars, azureVars, redisVars
<1>s. seen' = seen \cup {"died"} /\ seen' \subseteq Marks
  BY MarkOf DEF Crash, Fault, RegistryTypeOK, Marks
<1>1. RegistryTypeOK'
  BY <1>s DEF Crash, RegistryTypeOK, Starting
<1>2. Work' /\ Replaceable' /\ ArtifactsKept' /\ NoGap'
  BY <1>s DEF Crash, Work, Replaceable, ArtifactsKept, NoGap, Retraining
<1>3. Ages' /\ Loaded'
  BY <1>s DEF Crash, Ages, Loaded, FoundInProduction, Retraining
<1> QED BY <1>1, <1>2, <1>3

\* The call of the drift worker and its end.
LEMMA DriftKeeps ==
    ASSUME RegistryInv, DriftStep PROVE RegistryInv'
<1>1. /\ dpc \in {"idle", "drift"} /\ dpc' \in {"idle", "drift"}
      /\ UNCHANGED <<workVars, trained, azureVars, redisVars, seen>>
  BY DEF DriftStep, CallDrift, DriftReturns, DriftTimesOut, NoFault
<1>2. RegistryTypeOK' /\ Work' /\ Replaceable' /\ ArtifactsKept'
  BY <1>1 DEF RegistryInv, RegistryTypeOK, Work, Replaceable, ArtifactsKept, workVars, azureVars,
              redisVars, Retraining
<1>3. NoGap' /\ Ages' /\ Loaded'
  BY <1>1 DEF RegistryInv, NoGap, Ages, Loaded, FoundInProduction, Retraining, workVars,
              azureVars, redisVars
<1> QED BY <1>2, <1>3 DEF RegistryInv

\* RegistryInv is inductive for the steps of service D.
LEMMA RegistryInductive == RegistryInv /\ [RegistryNext]_registryVars => RegistryInv'
<1> SUFFICES ASSUME RegistryInv, [RegistryNext]_registryVars PROVE RegistryInv'
  OBVIOUS
<1>1. CASE StartStep
  BY <1>1, StartKeeps
<1>2. CASE Train \/ Backup
  BY <1>2, TrainKeeps
<1>3. CASE (\E m \in Trained : Scan(m)) \/ Archive
  <2>1. CASE \E m \in Trained : Scan(m)
    BY <2>1, ArchiveKeeps
  <2>2. CASE Archive
    <3>1. current \in Trained
      BY <2>2 DEF RegistryInv, Work, Archive
    <3> QED BY <2>2, <3>1, ArchiveKeeps
  <2> QED BY <1>3, <2>1, <2>2
<1>4. CASE Delete
  BY <1>4, DeleteKeeps
<1>5. CASE Upload
  BY <1>5, UploadKeeps
<1>6. CASE Crash
  BY <1>6, CrashKeeps
<1>7. CASE UNCHANGED registryVars
  BY <1>7 DEF registryVars, workVars, azureVars, redisVars, RegistryInv, RegistryTypeOK,
              Work, Replaceable, ArtifactsKept, NoGap, Ages, Loaded, FoundInProduction
<1>8. CASE DriftStep
  BY <1>8, DriftKeeps
<1> QED BY <1>1, <1>2, <1>3, <1>4, <1>5, <1>6, <1>7, <1>8 DEF RegistryNext, RetrainStep

-----------------------------------------------------------------------------
(* Services D and B together *)

\* The gateway runs only after the startup, and what it picked and used is a
\* registered model and the artifact Redis has of it.
Running ==
    /\ bpc # "off" => dpc \notin Starting
    /\ bpc \in {"features", "inputs", "log"} => picked \in Registered

\* Only of a model without an artifact at the beginning was one used or logged
\* as "not found".
Servable ==
    "unloaded" \notin seen =>
       /\ bpc = "log" /\ used = 0 => picked \notin FoundInProduction
       /\ \A p \in logged : p.artifact = 0 => p.model \notin FoundInProduction

\* In the first life of the process whatever was used is what Redis has, and
\* nothing was used before the startup was over.
FirstLife ==
    "died" \notin seen =>
       /\ dpc \in Starting => logged = {}
       /\ bpc = "log" => used = cache[picked]
       /\ \A p \in logged : p.artifact = cache[p.model]

GatewayInv == /\ RegistryInv
              /\ ServingTypeOK
              /\ Running
              /\ Servable
              /\ FirstLife

\* The invariant holds before the first start.
LEMMA GatewayInitInv == ServingInit => GatewayInv
BY RegistryInitInv
   DEF ServingInit, GatewayOff, GatewayInv, ServingTypeOK, RegistryInv, RegistryInit, Running,
       Servable, FirstLife

\* What a step of service D does to the part of the state that both share.
LEMMA SharedState ==
    ASSUME RegistryInv, RegistryNext
    PROVE  /\ seen \subseteq seen'
           /\ dpc \notin Starting => (dpc' \notin Starting /\ cache' = cache) \/ Crash
           /\ dpc' \in Starting => dpc \in Starting \/ "died" \in seen'
<1> USE MarkOf DEF RegistryNext, Fault, NoFault, redisVars
<1>1. CASE StartStep
  BY <1>1 DEF StartStep, Boot, StartFails, SaveMetadata, ClearNames, AddNames, LoadArtifact,
              Starting
<1>2. CASE Train \/ Backup
  BY <1>2 DEF Train, Backup, Starting
<1>3. CASE (\E m \in Trained : Scan(m)) \/ Archive \/ Delete
  BY <1>3 DEF Scan, Archive, Delete, Starting
<1>4. CASE Upload
  BY <1>4 DEF Upload, NextModel, Starting
<1>5. CASE Crash
  BY <1>5 DEF Crash
<1>6. CASE DriftStep
  BY <1>6 DEF DriftStep, CallDrift, DriftReturns, DriftTimesOut, Starting
<1> QED BY <1>1, <1>2, <1>3, <1>4, <1>5, <1>6 DEF RetrainStep

\* No model gets into FoundInProduction later: what is uploaded is newer.
LEMMA FoundStays ==
    ASSUME RegistryInv, RegistryNext
    PROVE  FoundInProduction' \subseteq FoundInProduction
<1>1. CASE Upload
  <2>1. trained \in Nat /\ trained > 1
    BY <1>1 DEF Upload, RegistryInv, RegistryTypeOK, Work, Retraining, Artifacts
  <2>2. \A m \in Registered : 1 \in deployed'[m] => 1 \in deployed[m]
    BY <1>1, <2>1 DEF Upload, PutInProduction, RegistryInv, RegistryTypeOK, Models
  <2> QED BY <2>2 DEF FoundInProduction
<1>2. CASE ~Upload
  <2>1. UNCHANGED deployed
    BY <1>2 DEF RegistryNext, StartStep, Boot, StartFails, SaveMetadata, ClearNames, AddNames,
           LoadArtifact, DriftStep, CallDrift, DriftReturns, DriftTimesOut, Train, RetrainStep,
           Backup, Scan, Archive, Delete, Crash, azureVars
  <2> QED BY <2>1 DEF FoundInProduction
<1> QED BY <1>1, <1>2

\* The steps of service D keep the invariant while the gateway goes on.
LEMMA ServiceDKeeps ==
    ASSUME GatewayInv, ServiceDStep \/ DriftAnswered PROVE GatewayInv'
<1> USE DEF GatewayInv, gatewayVars
<1>0. RegistryNext /\ ~Crash /\ UNCHANGED gatewayVars
  <2>1. RegistryNext /\ UNCHANGED gatewayVars
    BY DEF ServiceDStep, DriftAnswered, RegistryNext, StartStep, DriftStep
  <2>2. ~Crash
    BY DEF ServiceDStep, DriftAnswered, CallDrift, DriftReturns, DriftTimesOut, Crash, Boot,
           SaveMetadata, ClearNames, AddNames, LoadArtifact, Train,
           RetrainStep, Backup, Scan, Archive, Delete, Upload, NextModel
  <2> QED BY <2>1, <2>2
<1>1. RegistryInv'
  BY <1>0, RegistryInductive
<1>2. ServingTypeOK'
  BY <1>0, <1>1 DEF ServingTypeOK, RegistryInv
<1>3. /\ seen \subseteq seen'
      /\ dpc \notin Starting => dpc' \notin Starting /\ cache' = cache
      /\ dpc' \in Starting => dpc \in Starting \/ "died" \in seen'
      /\ FoundInProduction' \subseteq FoundInProduction
  BY <1>0, SharedState, FoundStays
<1>4. Running' /\ Servable'
  BY <1>0, <1>3 DEF Running, Servable
<1>5. FirstLife'
  BY <1>0, <1>3 DEF FirstLife, Running
<1> QED BY <1>1, <1>2, <1>4, <1>5

\* The steps of the gateway keep the invariant.
LEMMA GatewayKeeps == ASSUME GatewayInv, GatewayStep PROVE GatewayInv'
<1> USE DEF GatewayInv, GatewayStep, StartGateway, Select, GetFeatures, FeaturesMissing,
            BackToPick, Infer, InferFails, LogPrediction
<1>0. UNCHANGED registryVars
  OBVIOUS
<1>1. RegistryInv'
  BY <1>0, RegistryInductive
<1>2. UNCHANGED <<dpc, seen, cache>>
  BY <1>0 DEF registryVars, redisVars
<1>3. dpc \notin Starting
  BY DEF Running
<1>4. ServingTypeOK'
  <2>1. \A m \in Registered : cache[m] \in Artifacts \cup {0}
    BY DEF RegistryInv, RegistryTypeOK, Models
  <2> QED BY <1>1, <2>1
          DEF ServingTypeOK, RegistryInv, Running
<1>5. Running'
  BY <1>2, <1>3 DEF Running
<1>6. Servable'
  <2>1. "unloaded" \notin seen => \A m \in FoundInProduction : cache[m] # 0
    BY <1>3 DEF RegistryInv, Loaded, RegistryTypeOK, Starting
  <2>2. FoundInProduction' = FoundInProduction
    BY <1>0 DEF FoundInProduction, registryVars, azureVars
  <2> QED BY <1>2, <2>1, <2>2 DEF Servable, Running
<1>7. FirstLife'
  BY <1>2, <1>3 DEF FirstLife, Running
<1> QED BY <1>1, <1>4, <1>5, <1>6, <1>7

\* The death of the process keeps the invariant.
LEMMA ProcessDiesKeeps == ASSUME GatewayInv, ProcessDies PROVE GatewayInv'
<1> USE DEF GatewayInv, ProcessDies
<1>0. RegistryNext
  BY DEF RegistryNext, StartStep
<1>1. RegistryInv'
  BY <1>0, RegistryInductive
<1>2. seen' = seen \cup {"died"}
  BY MarkOf DEF Crash, StartFails, Fault
<1>3. ServingTypeOK'
  BY <1>1 DEF ServingTypeOK, RegistryInv
<1>3a. FoundInProduction' \subseteq FoundInProduction
  BY <1>0, FoundStays
<1>4. Running' /\ Servable' /\ FirstLife'
  BY <1>2, <1>3a DEF Running, Servable, FirstLife
<1> QED BY <1>1, <1>3, <1>4

\* GatewayInv is inductive for services D and B.
LEMMA Inductive == GatewayInv /\ [ServingNext]_servingVars => GatewayInv'
<1> SUFFICES ASSUME GatewayInv, [ServingNext]_servingVars PROVE GatewayInv'
  OBVIOUS
<1>1. CASE ServingNext
  BY <1>1, ServiceDKeeps, GatewayKeeps, ProcessDiesKeeps DEF ServingNext
<1>2. CASE UNCHANGED servingVars
  <2>1. UNCHANGED registryVars /\ UNCHANGED gatewayVars
    BY <1>2 DEF servingVars
  <2>2. RegistryInv'
    BY <2>1, RegistryInductive DEF GatewayInv
  <2> QED BY <2>1, <2>2
          DEF GatewayInv, ServingTypeOK, RegistryInv, Running, Servable, FirstLife, registryVars,
              redisVars, azureVars, gatewayVars, FoundInProduction
<1> QED BY <1>1, <1>2

\* The invariant holds in every state of services D and B.
LEMMA Invariance == ServingSpec => []GatewayInv
<1>1. ServingInit => GatewayInv
  BY GatewayInitInv
<1>2. GatewayInv /\ [ServingNext]_servingVars => GatewayInv'
  BY Inductive
<1> QED BY <1>1, <1>2, PTL DEF ServingSpec

-----------------------------------------------------------------------------
(* The lifecycle of the artifacts *)

\* While the loop of ManageAzureArtifacts goes on, the training is newer than
\* what is in production of the models it has not come to yet.
Newer ==
    /\ dpc = "backup" => \A m \in Models : blob[m] < trained
    /\ dpc \in Retraining => \A m \in todo : blob[m] < trained \/ dpc = "backup"
    /\ dpc \in {"archive", "delete", "upload"} => current \in todo

\* Newer holds before the first start.
LEMMA NewerInit == RegistryInit => Newer
BY DEF RegistryInit, Newer, Retraining

\* Newer is kept: only Train makes a number and only Upload uses it up.
LEMMA NewerKeeps ==
    ASSUME RegistryInv, Newer, [RegistryNext]_registryVars PROVE Newer'
<1> USE DEF RegistryInv, workVars, azureVars, redisVars
<1>1. CASE StartStep
  BY <1>1 DEF StartStep, Boot, StartFails, SaveMetadata, ClearNames, AddNames, LoadArtifact,
              Newer, Retraining
<1>2. CASE DriftStep
  BY <1>2 DEF DriftStep, CallDrift, DriftReturns, DriftTimesOut, Newer, Retraining
<1>3. CASE Crash
  BY <1>3 DEF Crash, Newer, Retraining
<1>4. CASE Train
  <2>1. trained \in Int /\ \A m \in Models : blob[m] \in Int /\ blob[m] <= trained
    BY DEF Ages, RegistryTypeOK, Artifacts
  <2>2. trained' = trained + 1 /\ blob' = blob /\ dpc' = "backup"
    BY <1>4 DEF Train
  <2>3. \A m \in Models : blob'[m] < trained'
    BY <2>1, <2>2
  <2> QED
    BY <2>2, <2>3 DEF Newer
<1>5. CASE Backup
  <2>1. /\ dpc = "backup" /\ UNCHANGED <<blob, trained>>
        /\ dpc' \in {"azure", "idle"}
        /\ dpc' = "azure" => todo' = Trained
    BY <1>5 DEF Backup
  <2> QED
    BY <2>1 DEF Newer, Retraining, Models
<1>6. CASE \E m \in Trained : Scan(m)
  <2>1. /\ dpc = "azure" /\ UNCHANGED <<blob, trained, todo>>
        /\ dpc' \in {"archive", "upload"} /\ current' \in todo
    BY <1>6 DEF Scan
  <2> QED
    BY <2>1 DEF Newer, Retraining
<1>7. CASE Archive \/ Delete
  <2>1. /\ dpc \in {"archive", "delete"} /\ dpc' \in {"delete", "upload"}
        /\ UNCHANGED <<trained, todo, current>>
        /\ \A m \in Models : blob'[m] \in {blob[m], 0}
    BY <1>7 DEF Archive, Delete, RegistryTypeOK
  <2>2. trained \in Int /\ 0 < trained /\ todo \subseteq Models
    BY DEF RegistryTypeOK, Artifacts
  <2>3. \A m \in todo : blob[m] < trained
    BY <2>1 DEF Newer, Retraining
  <2>4. \A m \in todo : blob'[m] < trained
    BY <2>1, <2>2, <2>3
  <2> QED
    BY <2>1, <2>4 DEF Newer
<1>8. CASE Upload
  <2>1. /\ dpc = "upload" /\ dpc' \in {"azure", "idle"} /\ trained' = trained
        /\ todo' = todo \ {current}
        /\ blob' = blob \/ blob' = [blob EXCEPT ![current] = trained]
    BY <1>8 DEF Upload, NextModel, PutInProduction
  <2>2. todo \subseteq Models
    BY DEF RegistryTypeOK
  <2>3. \A m \in todo : blob[m] < trained
    BY <2>1 DEF Newer, Retraining
  <2>4. \A m \in todo' : blob'[m] < trained
    BY <2>1, <2>2, <2>3 DEF RegistryTypeOK
  <2> QED
    BY <2>1, <2>4 DEF Newer
<1>9. CASE UNCHANGED registryVars
  BY <1>9 DEF registryVars, Newer
<1> QED
  BY <1>1, <1>2, <1>3, <1>4, <1>5, <1>6, <1>7, <1>8, <1>9 DEF RegistryNext, RetrainStep

\* The failures that make the keeping of artifacts careless.
LEMMA Careless ==
    ASSUME NEW f \in RegistryFaultKinds, Fault(f)
    PROVE  /\ f \in {"list", "archive", "collide"} => "unarchived" \in seen'
           /\ f \notin {"list", "archive", "collide"} =>
                ("unarchived" \in seen' <=> "unarchived" \in seen)
BY DEF Fault, Mark, Marks

\* The first state is one of the lifecycle.
LEMMA LifecycleStarts == RegistryInit => Lifecycle!Init
<1> SUFFICES ASSUME RegistryInit PROVE Lifecycle!Init
  OBVIOUS
<1> DEFINE inProduction == {m \in Models : blob[m] = 1}
<1>1. inProduction \in SUBSET Models
  OBVIOUS
<1>2. blob = [m \in Models |-> IF m \in inProduction THEN 1 ELSE 0]
  BY DEF RegistryInit
<1> HIDE DEF inProduction
<1> QED
  BY <1>1, <1>2 DEF RegistryInit, Lifecycle!Init

\* Every step of service D is one of the lifecycle or changes nothing there.
LEMMA LifecycleStep ==
    ASSUME RegistryInv, Newer, [RegistryNext]_registryVars
    PROVE  [Lifecycle!Next]_(Lifecycle!avars)
<1> USE DEF RegistryInv, workVars, azureVars, redisVars, Lifecycle!avars
<1>f. /\ \A f \in RegistryFaultKinds \ {"list", "archive", "collide"} :
            Fault(f) => (("unarchived" \in seen') = ("unarchived" \in seen))
      /\ \A f \in {"list", "archive", "collide"} : Fault(f) => "unarchived" \in seen'
      /\ NoFault => (("unarchived" \in seen') = ("unarchived" \in seen))
  BY Careless DEF NoFault, RegistryFaultKinds
<1>s. ASSUME UNCHANGED <<trained, blob, archive, cache>>,
             ("unarchived" \in seen') = ("unarchived" \in seen)
      PROVE  UNCHANGED Lifecycle!avars
  BY <1>s
<1>1. CASE StartStep
  <2>1. CASE \E m \in Registered : LoadArtifact(m)
    <3>1. PICK m \in Registered : LoadArtifact(m)
      BY <2>1
    <3>2. /\ UNCHANGED <<trained, blob, archive>>
          /\ ("unarchived" \in seen') = ("unarchived" \in seen)
          /\ \/ cache' = cache
             \/ blob[m] # 0 /\ cache' = [cache EXCEPT ![m] = blob[m]]
      BY <1>f, <3>1 DEF LoadArtifact, Loadable, RegistryFaultKinds
    <3>3. m \in Models
      BY DEF Models
    <3>4. CASE cache' = cache
      BY <1>s, <3>2, <3>4
    <3>5. CASE blob[m] # 0 /\ cache' = [cache EXCEPT ![m] = blob[m]]
      <4>1. Lifecycle!Serve(m)
        BY <3>2, <3>5 DEF Lifecycle!Serve
      <4> QED
        BY <3>3, <4>1 DEF Lifecycle!Next
    <3> QED
      BY <3>2, <3>4, <3>5
  <2>2. CASE Boot \/ StartFails \/ SaveMetadata \/ ClearNames \/ AddNames
    <3>1. /\ UNCHANGED <<trained, blob, archive, cache>>
          /\ ("unarchived" \in seen') = ("unarchived" \in seen)
      BY <1>f, <2>2 DEF Boot, StartFails, SaveMetadata, ClearNames, AddNames, RegistryFaultKinds
    <3> QED
      BY <1>s, <3>1
  <2> QED
    BY <1>1, <2>1, <2>2 DEF StartStep
<1>2. CASE DriftStep \/ Crash \/ Backup
  <2>1. /\ UNCHANGED <<trained, blob, archive, cache>>
        /\ ("unarchived" \in seen') = ("unarchived" \in seen)
    BY <1>f, <1>2 DEF DriftStep, CallDrift, DriftReturns, DriftTimesOut, Crash, Backup,
                      RegistryFaultKinds
  <2> QED
    BY <1>s, <2>1
<1>3. CASE Train
  <2>1. /\ trained' = trained + 1 /\ UNCHANGED <<blob, archive, cache>>
        /\ ("unarchived" \in seen') = ("unarchived" \in seen)
    BY <1>f, <1>3 DEF Train
  <2>2. Lifecycle!Make
    BY <2>1 DEF Lifecycle!Make
  <2> QED
    BY <2>2 DEF Lifecycle!Next
<1>4. CASE \E m \in Trained : Scan(m)
  <2>1. PICK m \in Trained : Scan(m)
    BY <1>4
  <2>2. UNCHANGED <<trained, blob, archive, cache>> /\ m \in Models
    BY <2>1 DEF Scan, Models
  <2>3. CASE ("unarchived" \in seen') = ("unarchived" \in seen)
    BY <1>s, <2>2, <2>3
  <2>4. CASE Fault("list")
    <3>1. "unarchived" \in seen'
      BY <1>f, <2>4
    <3>2. archive' = [archive EXCEPT ![m] = archive[m]]
      BY <2>2 DEF RegistryTypeOK
    <3>3. Lifecycle!KeepCarelessly(m)
      <4>1. archive[m] \in SUBSET (archive[m] \cup ({blob[m]} \ {0}))
        OBVIOUS
      <4> QED
        BY <2>2, <3>1, <3>2, <4>1 DEF Lifecycle!KeepCarelessly
    <3> QED
      BY <2>2, <3>3 DEF Lifecycle!Next
  <2> QED
    BY <1>f, <2>1, <2>3, <2>4 DEF Scan
<1>5. CASE Archive
  <2>1. /\ current \in Models /\ old = blob[current] /\ old # 0
        /\ UNCHANGED <<trained, blob, cache>>
    BY <1>5 DEF Archive, Work, Models
  <2>2. CASE archive' = Archived(current, old) /\ NoFault
    <3>1. Lifecycle!Keep(current)
      BY <1>f, <2>1, <2>2 DEF Archived, Lifecycle!Keep
    <3> QED
      BY <2>1, <3>1 DEF Lifecycle!Next
  <2>3. CASE Fault("collide") \/ Fault("archive")
    <3>1. "unarchived" \in seen'
      BY <1>f, <2>3
    <3>2. \E S \in SUBSET (archive[current] \cup ({blob[current]} \ {0})) :
             archive' = [archive EXCEPT ![current] = S]
      <4>1. CASE archive' = archive
        <5>1. archive' = [archive EXCEPT ![current] = archive[current]]
          BY <2>1, <4>1 DEF RegistryTypeOK
        <5> QED
          BY <5>1
      <4>2. CASE archive' = Archived(current, old)
        <5>1. archive' = [archive EXCEPT ![current] = archive[current] \cup {old}]
          BY <4>2 DEF Archived
        <5> QED
          BY <2>1, <5>1
      <4>3. CASE \E a \in archive[current] :
                    archive' = [archive EXCEPT ![current] = (@ \ {a}) \cup {old}]
        <5>1. PICK a \in archive[current] :
                    archive' = [archive EXCEPT ![current] = (archive[current] \ {a}) \cup {old}]
          BY <4>3
        <5> QED
          BY <2>1, <5>1
      <4> QED
        BY <1>5, <2>3, <4>1, <4>2, <4>3 DEF Archive
    <3>3. Lifecycle!KeepCarelessly(current)
      BY <2>1, <3>1, <3>2 DEF Lifecycle!KeepCarelessly
    <3> QED
      BY <2>1, <3>3 DEF Lifecycle!Next
  <2> QED
    BY <1>5, <2>2, <2>3 DEF Archive
<1>6. CASE Delete
  <2>1. /\ current \in Models /\ blob[current] \in archive[current]
        /\ UNCHANGED <<trained, archive, cache>>
        /\ blob' = blob \/ blob' = [blob EXCEPT ![current] = 0]
        /\ ("unarchived" \in seen') = ("unarchived" \in seen)
    BY <1>f, <1>6 DEF Delete, Work, Models, RegistryFaultKinds
  <2>2. CASE blob' = blob
    BY <1>s, <2>1, <2>2
  <2>3. CASE blob' = [blob EXCEPT ![current] = 0]
    <3>1. Lifecycle!Withdraw(current)
      BY <2>1, <2>3 DEF Lifecycle!Withdraw
    <3> QED
      BY <2>1, <3>1 DEF Lifecycle!Next
  <2> QED
    BY <2>1, <2>2, <2>3
<1>7. CASE Upload
  <2>1. /\ current \in Models /\ current \in todo /\ dpc = "upload"
        /\ UNCHANGED <<trained, archive, cache>>
        /\ blob' = blob \/ blob' = [blob EXCEPT ![current] = trained]
        /\ ("unarchived" \in seen') = ("unarchived" \in seen)
    BY <1>f, <1>7 DEF Upload, PutInProduction, Newer, Work, Models, RegistryFaultKinds
  <2>2. CASE blob' = blob
    BY <1>s, <2>1, <2>2
  <2>3. CASE blob' = [blob EXCEPT ![current] = trained]
    <3>1. /\ blob[current] < trained
          /\ blob[current] \in archive[current] \cup {0} \/ "unarchived" \in seen
      BY <2>1 DEF Newer, Replaceable, Retraining
    <3>2. Lifecycle!Publish(current)
      BY <2>1, <2>3, <3>1 DEF Lifecycle!Publish
    <3> QED
      BY <2>1, <3>2 DEF Lifecycle!Next
  <2> QED
    BY <2>1, <2>2, <2>3
<1>8. CASE UNCHANGED registryVars
  <2>1. UNCHANGED <<trained, blob, archive, cache, seen>>
    BY <1>8 DEF registryVars
  <2> QED
    BY <1>s, <2>1
<1> QED
  BY <1>1, <1>2, <1>3, <1>4, <1>5, <1>6, <1>7, <1>8 DEF RegistryNext, RetrainStep

\* What services D and B do together is a step of the registry or none.
LEMMA RegistryOrNone ==
    ASSUME [ServingNext]_servingVars PROVE [RegistryNext]_registryVars
<1>1. CASE ServiceDStep \/ DriftAnswered
  BY <1>1 DEF ServiceDStep, DriftAnswered, RegistryNext, StartStep, DriftStep
<1>2. CASE GatewayStep
  BY <1>2 DEF GatewayStep, StartGateway, Select, GetFeatures, FeaturesMissing, BackToPick,
              Infer, InferFails, LogPrediction
<1>3. CASE ProcessDies
  BY <1>3 DEF ProcessDies, RegistryNext, StartStep
<1>4. CASE UNCHANGED servingVars
  BY <1>4 DEF servingVars
<1> QED
  BY <1>1, <1>2, <1>3, <1>4 DEF ServingNext

-----------------------------------------------------------------------------
(* The theorems *)

\* Services D and B implement the lifecycle of the artifacts, whatever fails and
\* wherever the process dies (ManageAzureArtifacts, LoadAzureArtifactsToRedis).
THEOREM ImplementsLifecycle == ServingSpec => LifecycleSpec
<1>1. ServingInit => Newer /\ Lifecycle!Init
  BY NewerInit, LifecycleStarts DEF ServingInit
<1>2. GatewayInv /\ Newer /\ [ServingNext]_servingVars =>
         Newer' /\ [Lifecycle!Next]_(Lifecycle!avars)
  BY RegistryOrNone, NewerKeeps, LifecycleStep DEF GatewayInv
<1> QED
  BY <1>1, <1>2, Invariance, PTL DEF ServingSpec, LifecycleSpec, Lifecycle!Spec

\* The registry and the gateway are well typed (Service_D_Start,
\* RetrainAndUploadModels, Service_B_Start).
THEOREM TypeCorrect == ServingSpec => []ServingTypeOK
<1>1. GatewayInv => ServingTypeOK
  BY DEF GatewayInv
<1> QED BY <1>1, Invariance, PTL

\* No artifact that was in production is lost, wherever the process dies and
\* whichever delete or upload fails, if the archiving succeeds
\* (ManageAzureArtifacts).
THEOREM KeepsArtifacts == ServingSpec => []ArtifactsKept
<1>1. GatewayInv => ArtifactsKept
  BY DEF GatewayInv, RegistryInv
<1> QED BY <1>1, Invariance, PTL

\* A model that was ever in production is out of it only while its new artifact
\* is uploaded, unless an upload failed or the process died (ManageAzureArtifacts).
THEOREM LeavesNoGap == ServingSpec => []NoGap
<1>1. GatewayInv => NoGap
  BY DEF GatewayInv, RegistryInv
<1> QED BY <1>1, Invariance, PTL

\* If no artifact ever failed to load, a model that is offered and cannot be
\* served, or that was asked for and not found, had no artifact in Azure when
\* service D first started; no later failure and no number of restarts makes
\* another model so (LoadAzureArtifactsToRedis, RunInference).
THEOREM ServesWhatItOffers == ServingSpec => []OfferedIsServable
<1>1. GatewayInv => OfferedIsServable
  BY DEF GatewayInv, RegistryInv, RegistryTypeOK, Running, Servable, Loaded, OfferedIsServable,
         Starting
<1> QED BY <1>1, Invariance, PTL

\* In one life of the process the predictions logged for a model come from one
\* artifact (logModelPrediction, RunInference).
THEOREM OneArtifactPerVersion == ServingSpec => []OneVersionOneArtifact
<1>1. GatewayInv => OneVersionOneArtifact
  BY DEF GatewayInv, FirstLife, OneVersionOneArtifact
<1> QED BY <1>1, Invariance, PTL

\* Redis never goes back to an older artifact (LoadAzureArtifactsToRedis).
THEOREM CacheOnlyAdvances == ServingSpec => CacheNeverOlder
<1>1. GatewayInv /\ [ServingNext]_servingVars =>
         [\A m \in Models : cache'[m] >= cache[m]]_registryVars
  <2> SUFFICES ASSUME GatewayInv, [ServingNext]_servingVars, NEW m \in Models
               PROVE  cache'[m] >= cache[m] \/ UNCHANGED registryVars
    OBVIOUS
  <2>1. cache[m] \in Int /\ (blob[m] # 0 => cache[m] <= blob[m]) /\ blob[m] \in Int
    BY DEF GatewayInv, RegistryInv, RegistryTypeOK, Ages, Artifacts
  <2>2. CASE UNCHANGED cache
    BY <2>1, <2>2
  <2>3. CASE \E k \in Registered : LoadArtifact(k)
    <3>1. cache'[m] = cache[m] \/ (blob[m] # 0 /\ cache'[m] = blob[m])
      BY <2>3 DEF LoadArtifact, Loadable, GatewayInv, RegistryInv, RegistryTypeOK
    <3> QED BY <2>1, <3>1
  <2>4. CASE UNCHANGED registryVars
    BY <2>4
  <2>5. \/ UNCHANGED cache
        \/ \E k \in Registered : LoadArtifact(k)
        \/ UNCHANGED registryVars
    BY DEF ServingNext, ServiceDStep, DriftAnswered, CallDrift, DriftReturns, DriftTimesOut,
           GatewayStep, ProcessDies, Boot, StartFails, SaveMetadata,
           ClearNames, AddNames, Train, RetrainStep, Backup, Scan, Archive, Delete, Upload, Crash,
           StartGateway, Select, GetFeatures, FeaturesMissing, BackToPick, Infer, InferFails,
           LogPrediction, servingVars, redisVars
  <2> QED BY <2>2, <2>3, <2>4, <2>5
<1> QED BY <1>1, Invariance, PTL DEF ServingSpec, CacheNeverOlder
=============================================================================
