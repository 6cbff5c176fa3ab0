--------------------------- MODULE ModelRegistry ---------------------------
(***************************************************************************)
(* Service D (Services/Service_D/Service_D.go): at startup it copies the   *)
(* production models from DuckDB (metadata) and Azure (artifacts) to       *)
(* Redis, where service B looks for them; then its scheduler asks for a    *)
(* drift analysis or retrains the models, archives the old artifacts in    *)
(* Azure and uploads the new ones, one thing at a time.                    *)
(*                                                                         *)
(* An artifact is the number of the training that made it: 1 for what is   *)
(* in production at the beginning, 0 where there is none: also a           *)
(* registered model may have none.  A model has one blob whose name ends   *)
(* in Production, as the upload names it.                                  *)
(***************************************************************************)
EXTENDS Integers

CONSTANTS
    Registered,      \* the models with status production in DuckDB
    Trained,         \* the models the training script makes
    NoModel,         \* stands for no model at work
    MaxTrainings,    \* bound on the number of trainings
    RegistryFaults   \* the failures that may happen, see RegistryFaultKinds

\* query    a connection, the metadata query or the SAdd fails, which ends the
\*          process
\* redis    Set of metadata or Del of the names fails
\* load     an artifact is not listed, not downloaded or not stored in Redis
\* disk     the backup directory cannot be read
\* list     the old artifact is not listed or not downloaded
\* archive  the upload of the archive blob returns an error, applied or not
\* collide  the random archive name is taken: that archive is overwritten
\* delete   the delete of the old blob returns an error, applied or not
\* upload   the upload of the new blob returns an error, applied or not
\* crash    the process dies and is started again
RegistryFaultKinds == {"query", "redis", "load", "disk", "list", "archive",
                       "collide", "delete", "upload", "crash"}

ASSUME RegistryAssumption ==
    /\ NoModel \notin Registered \cup Trained
    /\ MaxTrainings \in Nat
    /\ RegistryFaults \subseteq RegistryFaultKinds

VARIABLES
    dpc,        \* what service D does next
    todo,       \* the models its loop has not come to yet
    current,    \* the model ManageAzureArtifacts works on
    old,        \* the artifact it downloaded in order to archive it
    trained,    \* the number of the last training
    blob,       \* the Production artifact of each model in Azure
    archive,    \* the archived artifacts of each model in Azure
    described,  \* the models with metadata in Redis
    named,      \* the set prod_models in Redis
    cache,      \* the artifact of each model in Redis
    deployed,   \* the artifacts that were ever in production (history)
    seen        \* what has gone wrong, see Marks (history)

azureVars   == <<blob, archive, deployed>>
redisVars   == <<described, named, cache>>
workVars    == <<todo, current, old>>
registryVars == <<dpc, workVars, trained, azureVars, redisVars, seen>>

Models    == Registered \cup Trained
Artifacts == 1..(MaxTrainings + 1)

Starting   == {"down", "metadata", "clear", "names", "artifacts"}
Retraining == {"backup", "azure", "archive", "delete", "upload"}

\* The failures that seen remembers, by what they lead to.
Marks == {"unarchived", "unpublished", "unloaded", "died"}
Mark(f) == {k \in Marks :
              \/ k = "unarchived" /\ f \in {"list", "archive", "collide"}
              \/ k = "unpublished" /\ f \in {"disk", "upload"}
              \/ k = "unloaded" /\ f = "load"
              \/ k = "died" /\ f \in {"query", "crash"}}

RegistryTypeOK ==
    /\ dpc \in Starting \cup {"idle", "drift"} \cup Retraining
    /\ todo \subseteq Models
    /\ current \in Models \cup {NoModel}
    /\ old \in Artifacts \cup {0}
    /\ trained \in Artifacts
    /\ blob \in [Models -> Artifacts \cup {0}]
    /\ archive \in [Models -> SUBSET Artifacts]
    /\ described \subseteq Registered
    /\ named \subseteq Registered
    /\ cache \in [Models -> Artifacts \cup {0}]
    /\ deployed \in [Models -> SUBSET Artifacts]
    /\ seen \subseteq Marks

\* What Azure holds at the beginning is known to nobody: CheckDuckDB looks only
\* at the rows of model_metadata.
RegistryInit ==
    /\ dpc = "down"
    /\ todo = {} /\ current = NoModel /\ old = 0
    /\ trained = 1
    /\ blob \in [Models -> {0, 1}]
    /\ archive = [m \in Models |-> {}]
    /\ described = {} /\ named = {}
    /\ cache = [m \in Models |-> 0]
    /\ deployed = [m \in Models |-> {blob[m]} \ {0}]
    /\ seen = {}

\* The failure f happens.
Fault(f) == f \in RegistryFaults /\ seen' = seen \cup Mark(f)
NoFault  == UNCHANGED seen

-----------------------------------------------------------------------------
(* Startup: Service_D_Start *)

\* main.go starts the process, and service D makes its connections
\* (EstablishDBConnections).
Boot ==
    /\ dpc = "down"
    /\ dpc' = "metadata"
    /\ NoFault
    /\ UNCHANGED <<workVars, trained, azureVars, redisVars>>

\* The error goes up to main.go, which ends the process.
StartFails ==
    /\ dpc \in {"metadata", "names"}
    /\ Fault("query")
    /\ dpc' = "down"
    /\ UNCHANGED <<workVars, trained, azureVars, redisVars>>

\* GetProductionModelMetadata, whose query succeeds, and SaveModelMetadataToRedis:
\* a Set that fails is logged.
SaveMetadata ==
    /\ dpc = "metadata"
    /\ \/ described' = described \cup Registered /\ NoFault
       \/ /\ Fault("redis")
          /\ \E s \in SUBSET Registered : described' = described \cup s
    /\ dpc' = "clear"
    /\ UNCHANGED <<workVars, trained, azureVars, named, cache>>

\* Mutant: the artifacts are cleared together with the names.
ClearNamesAndArtifacts ==
    /\ dpc = "clear"
    /\ named' = {}
    /\ cache' = [m \in Models |-> 0]
    /\ NoFault
    /\ dpc' = "names"
    /\ UNCHANGED <<workVars, trained, azureVars, described>>

\* SaveModelNamesToRedis, first call: Del, whose failure is logged.
ClearNames ==
    /\ dpc = "clear"
    /\ \/ named' = {} /\ NoFault
       \/ UNCHANGED named /\ Fault("redis")
    /\ dpc' = "names"
    /\ UNCHANGED <<workVars, trained, azureVars, described, cache>>

\* Mutant: the names of the trained models are added.
AddTrainedNames ==
    /\ dpc = "names"
    /\ named' = named \cup Trained
    /\ todo' = Registered
    /\ dpc' = IF Registered = {} THEN "idle" ELSE "artifacts"
    /\ NoFault
    /\ UNCHANGED <<current, old, trained, azureVars, described, cache>>

\* SaveModelNamesToRedis, second call: SAdd.
AddNames ==
    /\ dpc = "names"
    /\ named' = named \cup Registered
    /\ todo' = Registered
    /\ dpc' = IF Registered = {} THEN "idle" ELSE "artifacts"
    /\ NoFault
    /\ UNCHANGED <<current, old, trained, azureVars, described, cache>>

\* Mutant: every blob of the model's folder is taken for a production artifact.
LoadableOfFolder(m) == {blob[m]} \cup archive[m]
\* The blobs whose names end in Production.
Loadable(m) == {blob[m]} \ {0}

\* LoadAzureArtifactsToRedis, for one model; a model without a production
\* artifact, or one that cannot be loaded, keeps what Redis has.
LoadArtifact(m) ==
    /\ dpc = "artifacts"
    /\ m \in todo
    /\ \/ /\ \E a \in Loadable(m) : cache' = [cache EXCEPT ![m] = a]
          /\ NoFault
       \/ Loadable(m) = {} /\ UNCHANGED cache /\ NoFault
       \/ UNCHANGED cache /\ Fault("load")
    /\ todo' = todo \ {m}
    /\ dpc' = IF todo' = {} THEN "idle" ELSE "artifacts"
    /\ UNCHANGED <<current, old, trained, azureVars, described, named>>

-----------------------------------------------------------------------------
(* The drift analysis: StartScheduler and TriggerDriftDetection *)

\* The ticker fires and the scheduler calls the Python worker of service C.
CallDrift ==
    /\ dpc = "idle"
    /\ dpc' = "drift"
    /\ NoFault
    /\ UNCHANGED <<workVars, trained, azureVars, redisVars>>

\* A result or an error; either is logged, whatever the result says.
DriftReturns ==
    /\ dpc = "drift"
    /\ dpc' = "idle"
    /\ NoFault
    /\ UNCHANGED <<workVars, trained, azureVars, redisVars>>

\* Mutant: the call has no time limit.
NoTimeLimit == FALSE /\ DriftReturns
\* The worker need not answer, but after ten minutes the call is cancelled.
DriftTimesOut == DriftReturns

-----------------------------------------------------------------------------
(* Retraining: StartScheduler and RetrainAndUploadModels *)

\* The ticker fires and the training script succeeds; one that fails ends the
\* retraining without a trace.
Train ==
    /\ dpc = "idle"
    /\ trained <= MaxTrainings
    /\ trained' = trained + 1
    /\ dpc' = "backup"
    /\ NoFault
    /\ UNCHANGED <<workVars, azureVars, redisVars>>

\* HandleLocalBackups: the files are written for debugging and nothing reads
\* them; without the directory the retraining ends here.
Backup ==
    /\ dpc = "backup"
    /\ \/ todo' = Trained /\ dpc' = "azure" /\ NoFault
       \/ dpc' = "idle" /\ Fault("disk") /\ UNCHANGED todo
    /\ UNCHANGED <<current, old, trained, azureVars, redisVars>>

\* Mutant: a model whose old artifact cannot be had is skipped.
ScanOrSkip(m) ==
    /\ dpc = "azure"
    /\ m \in todo
    /\ \/ /\ blob[m] # 0
          /\ current' = m /\ old' = blob[m] /\ dpc' = "archive"
          /\ NoFault /\ UNCHANGED todo
       \/ /\ blob[m] = 0
          /\ current' = m /\ dpc' = "upload"
          /\ NoFault /\ UNCHANGED <<todo, old>>
       \/ /\ todo' = todo \ {m}
          /\ dpc' = IF todo' = {} THEN "idle" ELSE "azure"
          /\ Fault("list") /\ UNCHANGED <<current, old>>
    /\ UNCHANGED <<trained, azureVars, redisVars>>

\* ManageAzureArtifacts takes a model, lists its blobs and downloads the old
\* production artifact; what fails is logged, and the upload comes next.
Scan(m) ==
    /\ dpc = "azure"
    /\ m \in todo
    /\ current' = m
    /\ \/ /\ blob[m] # 0
          /\ old' = blob[m] /\ dpc' = "archive"
          /\ NoFault
       \/ blob[m] = 0 /\ dpc' = "upload" /\ NoFault /\ UNCHANGED old
       \/ dpc' = "upload" /\ Fault("list") /\ UNCHANGED old
    /\ UNCHANGED <<todo, trained, azureVars, redisVars>>

\* Mutant: the archive name has no random number.
ArchivedUnderOneName(m, a) == [archive EXCEPT ![m] = {a}]
\* The archive of model m after a blob with artifact a is written to it.
Archived(m, a) == [archive EXCEPT ![m] = @ \cup {a}]

\* Mutant: the old blob is deleted whether or not the archive was written.
ArchiveThenDelete ==
    /\ dpc = "archive"
    /\ \/ archive' = Archived(current, old) /\ NoFault
       \/ /\ archive' \in {archive, Archived(current, old)}
          /\ Fault("archive")
    /\ dpc' = "delete"
    /\ UNCHANGED <<workVars, trained, blob, deployed, redisVars>>

\* Upload to a name with a random number; the old blob is deleted only if it
\* returned no error.
Archive ==
    /\ dpc = "archive"
    /\ \/ archive' = Archived(current, old) /\ dpc' = "delete" /\ NoFault
       \/ /\ \E a \in archive[current] :
               archive' = [archive EXCEPT ![current] = (@ \ {a}) \cup {old}]
          /\ dpc' = "delete"
          /\ Fault("collide")
       \/ /\ archive' \in {archive, Archived(current, old)}
          /\ dpc' = "upload"
          /\ Fault("archive")
    /\ UNCHANGED <<workVars, trained, blob, deployed, redisVars>>

\* The loop over the models goes on; after the last one the metadata that
\* PrepareNewModelMetadata makes is dropped.
NextModel ==
    /\ todo' = todo \ {current}
    /\ dpc' = IF todo' = {} THEN "idle" ELSE "azure"
    /\ current' = NoModel /\ old' = 0

\* Mutant: after a delete that returned an error the loop goes on with the
\* next model.
DeleteOrNextModel ==
    /\ dpc = "delete"
    /\ \/ /\ blob' = [blob EXCEPT ![current] = 0]
          /\ dpc' = "upload"
          /\ NoFault /\ UNCHANGED workVars
       \/ /\ blob' \in {blob, [blob EXCEPT ![current] = 0]}
          /\ Fault("delete")
          /\ NextModel
    /\ UNCHANGED <<trained, archive, deployed, redisVars>>

Delete ==
    /\ dpc = "delete"
    /\ \/ blob' = [blob EXCEPT ![current] = 0] /\ NoFault
       \/ blob' \in {blob, [blob EXCEPT ![current] = 0]} /\ Fault("delete")
    /\ dpc' = "upload"
    /\ UNCHANGED <<workVars, trained, archive, deployed, redisVars>>

\* The new artifact becomes the production artifact of the current model.
PutInProduction ==
    /\ blob' = [blob EXCEPT ![current] = trained]
    /\ deployed' = [deployed EXCEPT ![current] = @ \cup {trained}]

\* Mutant: the new artifact also goes to Redis at once.
UploadAndRefresh ==
    /\ dpc = "upload"
    /\ PutInProduction /\ NoFault
    /\ cache' = [cache EXCEPT ![current] = trained]
    /\ NextModel
    /\ UNCHANGED <<trained, archive, described, named>>

Upload ==
    /\ dpc = "upload"
    /\ \/ PutInProduction /\ NoFault
       \/ /\ Fault("upload")
          /\ PutInProduction \/ UNCHANGED <<blob, deployed>>
    /\ NextModel
    /\ UNCHANGED <<trained, archive, redisVars>>

\* The process dies; Azure, Redis and the disk stay.  The old and the current
\* model are forgotten.
Crash ==
    /\ dpc # "down"
    /\ Fault("crash")
    /\ dpc' = "down"
    /\ todo' = {} /\ current' = NoModel /\ old' = 0
    /\ UNCHANGED <<trained, azureVars, redisVars>>

-----------------------------------------------------------------------------
StartStep == \/ Boot
             \/ StartFails
             \/ SaveMetadata
             \/ ClearNames
             \/ AddNames
             \/ \E m \in Registered : LoadArtifact(m)

RetrainStep == \/ Backup
               \/ \E m \in Trained : Scan(m)
               \/ Archive
               \/ Delete
               \/ Upload

DriftStep == CallDrift \/ DriftReturns \/ DriftTimesOut

RegistryNext == StartStep \/ DriftStep \/ Train \/ RetrainStep \/ Crash

RegistrySpec == RegistryInit /\ [][RegistryNext]_registryVars

-----------------------------------------------------------------------------
(* Properties *)

\* No artifact that was once in production is lost, wherever the process dies
\* and whichever delete or upload fails, as long as the old artifact can be read
\* and its archive written under a new name (ManageAzureArtifacts: "rename ANY
\* file ending in Production.pkl").
ArtifactsKept ==
    "unarchived" \notin seen =>
       \A m \in Models : deployed[m] \subseteq archive[m] \cup {blob[m]}

\* A model that was ever in production is out of it only between the delete and
\* the upload of its own retraining, unless an upload failed or the process died
\* there (ManageAzureArtifacts deletes only what it archived).
NoGap ==
    seen \cap {"unpublished", "died"} = {} =>
       \A m \in Models :
          deployed[m] # {} /\ blob[m] = 0 => dpc = "upload" /\ current = m

\* What Redis holds for a model never becomes older, whatever Azure lost or
\* kept when the process is started again (LoadAzureArtifactsToRedis).
CacheNeverOlder == [][\A m \in Models : cache'[m] >= cache[m]]_registryVars
=============================================================================
