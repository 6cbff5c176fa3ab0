--------------------------- MODULE IngestPipeline ---------------------------
(***************************************************************************)
(* Kafka to DuckDB, end to end: the consumer of service A (Ingest) pushes  *)
(* rows on duckdb_write_queue and the DB handler (DBWrites) pops and       *)
(* stores them.  The two run as goroutines of one process (main.go), so a  *)
(* crash takes both; Redis, Kafka and DuckDB live on.                      *)
(***************************************************************************)
EXTENDS Integers, Sequences, FiniteSets

CONSTANTS Messages, FeatureKeys, BatchSize, FeaturesTable, MaxLog, MaxPushes,
          MaxCrashes, MaxRebalances, IngestFaults, MaxBatch, WriteFaults

VARIABLES log, position, committed, pc, batchData, batchMsgs, cooling, alerts,
          online, queued, crashes, rebalances,                    \* Ingest
          writeQueue, pushed,                                     \* shared
          step, popped, batch, schemaCache, stored, dropped       \* DBWrites

Engine  == INSTANCE Ingest
Handler == INSTANCE DBWrites
           WITH Tables <- {FeaturesTable}, Data <- 1..MaxLog, BadData <- {},
                MaxRows <- MaxPushes

ASSUME PipelineAssumption == Engine!IngestAssumption /\ Handler!WritesAssumption

engine  == <<log, position, committed, pc, batchData, batchMsgs, cooling, alerts,
             online, queued, crashes, rebalances>>
handler == <<step, popped, batch, schemaCache, stored, dropped>>
vars    == <<engine, writeQueue, pushed, handler>>

Init == Engine!IngestInit /\ Handler!HandlerInit

EngineStep  == Engine!EngineNext /\ UNCHANGED handler
HandlerStep == Handler!HandlerNext /\ UNCHANGED engine

\* The process dies and main.go starts both services again.
ProcessCrash ==
    /\ "crash" \in IngestFaults
    /\ Engine!Restart
    /\ Handler!Crash

Next == EngineStep \/ HandlerStep \/ ProcessCrash

\* Goroutines that can run do run, the ticker ticks, FetchMessage returns a
\* message that is there, and the calls to Redis, Kafka and DuckDB return.
\* Nothing makes a producer write, and no failure has to happen.
Fairness ==
    /\ WF_vars(Engine!Fetch /\ UNCHANGED handler)
    /\ WF_vars(Engine!Timeout /\ UNCHANGED handler)
    /\ WF_vars(Engine!Flush /\ UNCHANGED handler)
    /\ WF_vars(Handler!Collect /\ UNCHANGED engine)
    /\ WF_vars(Handler!WriteTable(FeaturesTable) /\ UNCHANGED engine)

Spec == Init /\ [][Next]_vars /\ Fairness

-----------------------------------------------------------------------------
(* Properties *)

Holds(s, o) == \E i \in 1..Len(s) : s[i].data = o

\* The value of message o is on its way to DuckDB or has arrived.
Safe(o) == \/ Holds(writeQueue, o)
           \/ Holds(batch[FeaturesTable], o)
           \/ Holds(stored[FeaturesTable], o)

\* What Kafka will not send again is not lost: every well-formed message the
\* group is past is safe (flushBatch: "We commit after processing so if
\* processing crashes, we re-process (at-least-once)").
CommittedIsSafe == \A o \in 1..committed : log[o].json => Safe(o)

\* While the pipelines of service A return no error, no committed message is
\* lost without a reason: the handler popped its row and could not decode or
\* store it, which it logs, or died with it (handleWriteBatch,
\* processTableBatch).
Traced(d, o) == \E l \in d : l.row.data = o
LossIsTraced == \A o \in 1..committed : log[o].json => Safe(o) \/ Traced(dropped, o)

\* If Redis and DuckDB do their part, the losses are few: none as long as the
\* process lives, and no more than a batch of the handler for every time it
\* died, however often messages were pushed (handleWriteBatch pops up to
\* MaxBatchSize rows before it writes them).
LostForGood   == {o \in 1..committed : log[o].json /\ ~Safe(o)}
LossIsBounded == Cardinality(LostForGood) <= crashes * MaxBatch

\* A crash costs at most the rows of one batch that the handler had popped
\* (handleWriteBatch pops up to MaxBatchSize rows before it writes them).
CrashCostsOneBatch ==
    [][\A o \in 1..committed :
          Safe(o) /\ ~Safe(o)' => Holds(batch[FeaturesTable], o)]_vars

\* Every well-formed message reaches the table, unless the process died
\* (service A and the DB handler, through the queue).
EveryMessageStored ==
    \A o \in 1..MaxLog :
       (o <= Len(log) /\ log[o].json) ~> (Holds(stored[FeaturesTable], o) \/ crashes > 0)

-----------------------------------------------------------------------------
(* The abstract specification *)

\* What DurableLog is about, in terms of this state.
Written == Len(log)
Wanted  == {o \in 1..Len(log) : log[o].json}
Arrived == {o \in 1..MaxLog : Holds(stored[FeaturesTable], o)}
Owed    == {o \in 1..MaxLog : Holds(writeQueue, o) \/ Holds(batch[FeaturesTable], o)}
              \ Arrived

Promise == INSTANCE DurableLog
           WITH written <- Written, wanted <- Wanted, owed <- Owed,
                arrived <- Arrived, MaxLoss <- MaxBatch

\* Service A and the DB handler are a log that stores every well-formed message
\* at least once: nothing is committed before it is accepted, or accepted again
\* after that, and a crash takes at most a batch of the handler's rows, as long
\* as the pipelines, LPop and DuckDB succeed and the group is not rebalanced
\* (StartDataProcessingEngine, processWrites).
LogSpec == Promise!SafeSpec

\* And it is live, crashes or not: what is not committed is accepted in the
\* end, also after a crash took it, and what is accepted is stored or taken
\* (the loop of StartDataProcessingEngine and the ticker of processWrites).
LogProgress == Promise!Fairness
=============================================================================
