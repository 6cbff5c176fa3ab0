------------------------------ MODULE ServiceA ------------------------------
(***************************************************************************)
(* Service A as a whole: the Kafka consumer (Ingest) and the file uploads  *)
(* (Uploads) write the same online store and the same write queue, each in *)
(* goroutines of its own (ServiceAStart of data_generation.go).  The       *)
(* alerts of the consumer go to service C (ServiceC).  All of them run in  *)
(* one process and die together.                                           *)
(***************************************************************************)
EXTENDS Uploads, ServiceC

CONSTANTS Messages, BatchSize, MaxLog, MaxCrashes, MaxRebalances, IngestFaults

VARIABLES log, position, committed, pc, batchData, batchMsgs, cooling, alerts,
          queued, crashes, rebalances

Engine == INSTANCE Ingest

\* A call is told from the offset of a message.
ASSUME ServiceAAssumption ==
    Engine!IngestAssumption /\ \A c \in Calls : c \notin Nat

engine == <<log, position, committed, pc, batchData, batchMsgs, cooling, alerts,
            queued, crashes, rebalances>>
vars   == <<engine, uploadVars, serviceCVars>>

Init == Engine!IngestInit /\ CallsInit /\ ServiceCInit

\* What the consumer publishes Redis sends on at once to whoever is subscribed.
Delivery == IF alerts' > alerts THEN Deliver(alerts' - alerts)
                                ELSE UNCHANGED serviceCVars

EngineStep == Engine!EngineNext /\ Delivery /\ UNCHANGED callVars
ServerStep == UploadNext /\ UNCHANGED <<engine, serviceCVars>>
AlarmStep  == ServiceCNext /\ UNCHANGED <<engine, uploadVars>>

\* The process dies and main.go starts the services again, service C last.
ProcessCrash ==
    /\ "crash" \in IngestFaults
    /\ Engine!Restart
    /\ HandlersDie
    /\ ServiceCDies

Next == EngineStep \/ ServerStep \/ AlarmStep \/ ProcessCrash

Spec == Init /\ [][Next]_vars

-----------------------------------------------------------------------------
(* Properties *)

\* While the consumer is not rebalanced, only an upload puts the online store
\* behind the messages that the consumer is past, among them all that are
\* committed.  A consumer that falls back in a crash may write old values again;
\* it is then past the committed messages only (SendBatch_Redis: "FIRST: most
\* recent value of each feature to redis").
BehindOnlyByUpload ==
    rebalances = 0 =>
       /\ committed <= Engine!Passed
       /\ \A k \in FeatureKeys :
             online[k] \in Calls \/ online[k] >= Engine!Latest(k, Engine!Passed)

\* If a reader of the online store sees an upload, all its rows are in the write
\* queue too that can be, or on their way there, unless a pipeline failed or the
\* process died in between (UploadFile calls SendBatch_Redis, then
\* SendBatch_Duckdb_Queue).
OnlineIsQueued ==
    \A k \in FeatureKeys :
       online[k] \in Calls =>
          \/ Encodable(file[online[k]]) \subseteq RowsQueued(online[k])
          \/ \E c \in Calls : parsed[c] = online[k] /\ (stage[c] = "duckdb" \/ c \in failed)
          \/ crashes > 0

\* The alerts that are neither analysed nor on their way to it.
LostAlerts == alerts - (inFlight + waiting + analysed + (IF cpc = "analyse" THEN 1 ELSE 0))

\* An alert is lost only if it is published while service C is not subscribed, if
\* its connection breaks before the alert arrives, if it arrives at a full channel
\* or if the process dies; a failed analysis and a broken connection use up no
\* alert that has arrived, and none is analysed twice (StartServiceC).
AlertsAccounted ==
    [][/\ LostAlerts' >= LostAlerts
       /\ LostAlerts' > LostAlerts =>
             \/ ~subscribed /\ LostAlerts' - LostAlerts = alerts' - alerts
             \/ subscribed /\ ~subscribed' /\ LostAlerts' - LostAlerts <= inFlight
             \/ waiting = ChannelSize /\ LostAlerts' - LostAlerts = 1
             \/ crashes' > crashes]_vars
=============================================================================
