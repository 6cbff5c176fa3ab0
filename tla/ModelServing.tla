---------------------------- MODULE ModelServing ----------------------------
(***************************************************************************)
(* Services D and B over the model registry in Redis: service D (see       *)
(* ModelRegistry) fills it, the prediction gateway of service B            *)
(* (Services/Service_B/Prediction_Gateway.go) shows the names to its user, *)
(* reads the metadata of the model picked, asks the model server           *)
(* (model_server.py) for a prediction and logs it with the version that    *)
(* the metadata names.  main.go starts service B after service D has       *)
(* filled Redis; the two die together.                                     *)
(*                                                                         *)
(* No code changes a row of model_metadata, so a model has one version     *)
(* for ever, and a log entry is the model and the artifact that was used.  *)
(***************************************************************************)
EXTENDS ModelRegistry

CONSTANTS GatewayFaults  \* the failures that may happen, see below

\* get   the metadata cannot be read or parsed
\* grpc  the call of the model server fails, which is not logged in model_logs
\* log   the push of the log entry fails
GatewayFaultKinds == {"get", "grpc", "log"}

ASSUME GatewayAssumption == GatewayFaults \subseteq GatewayFaultKinds

VARIABLES
    bpc,        \* what the gateway does next
    picked,     \* the model its user picked
    used,       \* the artifact the model server used, 0 for "not found"
    logged      \* the entries of model_logs, as [model, artifact]

gatewayVars == <<bpc, picked, used, logged>>
servingVars == <<registryVars, gatewayVars>>

ServingTypeOK ==
    /\ RegistryTypeOK
    /\ bpc \in {"off", "pick", "features", "inputs", "log"}
    /\ picked \in Registered \cup {NoModel}
    /\ used \in Artifacts \cup {0}
    /\ logged \subseteq [model : Registered, artifact : Artifacts \cup {0}]

GatewayOff == bpc = "off" /\ picked = NoModel /\ used = 0

ServingInit == RegistryInit /\ GatewayOff /\ logged = {}

-----------------------------------------------------------------------------
(* Service B: Service_B_Start *)

\* main.go starts the gateway when Service_D_Start has returned, and the gateway
\* its model server.
StartGateway ==
    /\ bpc = "off"
    /\ dpc \notin Starting
    /\ bpc' = "pick"
    /\ UNCHANGED <<registryVars, picked, used, logged>>

\* PromptUserForModelSelection: the user picks one of prod_models; an empty list
\* or a number that is not on it starts the loop anew.
Select(m) ==
    /\ bpc = "pick"
    /\ m \in named
    /\ picked' = m
    /\ bpc' = "features"
    /\ UNCHANGED <<registryVars, used, logged>>

\* GetModelFeatures
GetFeatures ==
    /\ bpc = "features"
    /\ picked \in described
    /\ bpc' = "inputs"
    /\ UNCHANGED <<registryVars, picked, used, logged>>

BackToPick ==
    /\ bpc' = "pick" /\ picked' = NoModel
    /\ UNCHANGED <<registryVars, used, logged>>

FeaturesMissing ==
    /\ bpc = "features"
    /\ picked \notin described \/ "get" \in GatewayFaults
    /\ BackToPick

\* PromptUserForInputs has returned, with a zero for every number it could not
\* read, and the model server reads the artifact.
Infer ==
    /\ bpc = "inputs"
    /\ used' = cache[picked]
    /\ bpc' = "log"
    /\ UNCHANGED <<registryVars, picked, logged>>

InferFails ==
    /\ "grpc" \in GatewayFaults
    /\ bpc = "inputs"
    /\ BackToPick

\* logModelPrediction; an entry that cannot be pushed is lost.
LogPrediction ==
    /\ bpc = "log"
    /\ \/ logged' = logged \cup {[model |-> picked, artifact |-> used]}
       \/ "log" \in GatewayFaults /\ UNCHANGED logged
    /\ bpc' = "pick" /\ picked' = NoModel /\ used' = 0
    /\ UNCHANGED registryVars

-----------------------------------------------------------------------------
GatewayStep == \/ StartGateway
               \/ \E m \in Registered : Select(m)
               \/ GetFeatures
               \/ FeaturesMissing
               \/ Infer
               \/ InferFails
               \/ LogPrediction

\* A crash, or an error that ends the startup, takes the gateway with it.
ProcessDies == /\ Crash \/ StartFails
               /\ bpc' = "off" /\ picked' = NoModel /\ used' = 0
               /\ UNCHANGED logged

ServiceDStep == /\ \/ Boot \/ SaveMetadata \/ ClearNames \/ AddNames
                   \/ \E m \in Registered : LoadArtifact(m)
                   \/ CallDrift \/ DriftTimesOut
                   \/ Train
                   \/ RetrainStep
                /\ UNCHANGED gatewayVars

DriftAnswered == DriftReturns /\ UNCHANGED gatewayVars
Retrain       == Train /\ UNCHANGED gatewayVars

ServingNext == ServiceDStep \/ DriftAnswered \/ GatewayStep \/ ProcessDies

\* The process is started again, the scheduler's tickers fire, the steps of a
\* loop follow each other, and the calls of Redis and Azure return, as does the
\* training script; the drift worker need not answer.  Go's select picks among
\* the tickers that have fired at random, so none waits for ever.  Nothing makes
\* a user pick a model, and no failure has to happen.
ServingFairness == /\ WF_servingVars(ServiceDStep)
                   /\ SF_servingVars(Retrain)
                   /\ WF_servingVars(StartGateway)

ServingSpec == ServingInit /\ [][ServingNext]_servingVars /\ ServingFairness

-----------------------------------------------------------------------------
(* Properties *)

\* As long as the process lives, all predictions logged for a model, and with
\* them all that carry its version, come from one artifact, although retraining
\* puts new ones in production all the time (model_logs: model_version).
OneVersionOneArtifact ==
    "died" \notin seen =>
       \A p, q \in logged : /\ p.model = q.model
                            /\ p.artifact # 0 /\ q.artifact # 0
                            => p.artifact = q.artifact

\* The models with an artifact in production when service D first started.
FoundInProduction == {m \in Registered : 1 \in deployed[m]}

\* If service B offers a model that cannot be served, that model had no artifact
\* in Azure when service D first started, or one failed to load: whatever later
\* happens to the artifacts in Azure and however often the process dies, every
\* other model stays servable.  A model without an artifact is offered all the
\* same, as nothing but its metadata is checked (model_server.py: "not found in
\* Redis").
OfferedIsServable ==
    "unloaded" \notin seen =>
       /\ bpc # "off" => \A m \in named \cap FoundInProduction : cache[m] # 0
       /\ \A p \in logged : p.artifact = 0 => p.model \notin FoundInProduction

\* Whatever fails, dies or hangs, and wherever, services D and B go through the
\* lifecycle of ArtifactLifecycle: only what is archived is deleted, only a newer
\* artifact overwrites another, and that one is archived, unless the archiving
\* failed (ManageAzureArtifacts); Redis gets only what is in production
\* (LoadAzureArtifactsToRedis).
Lifecycle == INSTANCE ArtifactLifecycle
             WITH newest <- trained, production <- blob, kept <- archive,
                  served <- cache, careless <- "unarchived" \in seen

LifecycleSpec == Lifecycle!Spec

\* Every training ends with its artifacts in production, whatever fails on the
\* way in archiving the old ones, unless an upload or the backup directory fails
\* or the process dies (ManageAzureArtifacts only logs the other failures).
TrainedReachesProduction ==
    \A n \in Artifacts : \A m \in Trained :
       trained = n /\ n > 1 ~>
          blob[m] >= n \/ seen \cap {"unpublished", "died"} # {}

\* The models are trained again and again, as often as the drift analysis takes
\* its turn in the same goroutine and even if its worker never answers, unless
\* the process dies (StartScheduler: "if drift detection isn't done by the timer
\* it will error out").
TrainingGoesOn == <>(trained > MaxTrainings \/ "died" \in seen)

\* A new artifact of a registered model comes into use (README.md: "Service B
\* (which checks for model updates on a schedule) will swap out models by
\* itself").
NewModelServed ==
    \A n \in Artifacts : \A m \in Registered : blob[m] = n ~> cache[m] >= n

\* Every registered model is retrained (RetrainAndUploadModels: "retrains
\* models, ... uploads new artifacts to azure").
EveryModelRetrained ==
    \A m \in Registered : trained > 1 ~> blob[m] > 1
=============================================================================
