------------------------------- MODULE Ingest -------------------------------
(***************************************************************************)
(* The consumer of service A (Services/Service_A/Data_Processing_Engine.go,*)
(* StartDataProcessingEngine): it fetches messages from a Kafka topic with *)
(* one partition, collects them in a batch and, when the batch is full or  *)
(* FetchMessage times out, flushes it: a drift alert if a value is out of  *)
(* range, the online store in Redis, the write queue of the DB handler,    *)
(* and the commit of the offsets.                                          *)
(*                                                                         *)
(* A message is the key it is about (entity and feature), whether its JSON *)
(* is well formed and whether its value is above the alert threshold.  Its *)
(* value is its offset in the log, counted from 1.  What is parsed from    *)
(* JSON can be encoded as JSON again.  An offset "committed" is the number *)
(* of messages the consumer group is past.                                 *)
(***************************************************************************)
EXTENDS Integers, Sequences

CONSTANTS
    Messages,     \* what producers write: [key, json, high] records
    FeatureKeys,  \* the keys entity:feature of the online store
    BatchSize,    \* batchSize (5 in the code)
    FeaturesTable, \* the table the rows are for
    MaxLog,       \* bound on the messages written to the topic
    MaxPushes,    \* bound on the rows pushed
    MaxCrashes,   \* bound on crashes
    MaxRebalances, \* bound on rebalances
    IngestFaults  \* the failures that may happen, see IngestFaultKinds

\* redis      a pipeline returns an error, part of its commands applied
\* retry      go-redis sends a pipeline again after part of it was applied, or
\*            Publish after it was applied
\* publish    Publish returns an error, applied or not
\* commit     CommitMessages returns an error, nothing committed
\* crash      the process dies and is started again
\* rebalance  the group gives the partition to the consumer anew
IngestFaultKinds == {"redis", "retry", "publish", "commit", "crash", "rebalance"}

ASSUME IngestAssumption ==
    /\ Messages \subseteq [key : FeatureKeys, json : BOOLEAN, high : BOOLEAN]
    /\ BatchSize \in Nat \ {0}
    /\ MaxLog \in Nat /\ MaxPushes \in Nat
    /\ MaxCrashes \in Nat /\ MaxRebalances \in Nat
    /\ IngestFaults \subseteq IngestFaultKinds

VARIABLES
    log,          \* the messages in the topic
    position,     \* how far the consumer has fetched
    committed,    \* how far the group has committed
    pc,           \* "fetch", or the step of flushBatch that is next
    batchData,    \* the offsets of the well-formed messages of the batch
    batchMsgs,    \* the offsets of all messages of the batch
    cooling,      \* less than alertCooldown since lastAlertTime
    alerts,       \* number of alerts published on drift_alerts
    online,       \* the offset whose value the online store holds, 0 if none
    writeQueue,   \* the Redis list duckdb_write_queue
    pushed,       \* number of rows pushed on it
    queued,       \* the offsets that were ever pushed (history)
    crashes,      \* number of crashes
    rebalances    \* number of rebalances

restarts   == <<crashes, rebalances>>
queueVars  == <<writeQueue, pushed, queued>>
engineVars == <<log, position, committed, pc, batchData, batchMsgs, cooling,
                alerts, online, queued, restarts>>
ingestVars == <<log, position, committed, pc, batchData, batchMsgs, cooling,
                alerts, online, writeQueue, pushed, queued, restarts>>

Offsets == 1..MaxLog
IngestRows == [n : 1..MaxPushes, table : {FeaturesTable}, data : Offsets]

IngestTypeOK ==
    /\ log \in Seq(Messages) /\ Len(log) <= MaxLog
    /\ position \in 0..Len(log)
    /\ committed \in 0..Len(log)
    /\ pc \in {"fetch", "alert", "redis", "duckdb", "commit"}
    /\ batchData \in Seq(Offsets)
    /\ batchMsgs \in Seq(Offsets)
    /\ cooling \in BOOLEAN
    /\ alerts \in Nat
    /\ online \in [FeatureKeys -> 0..MaxLog]
    /\ writeQueue \in Seq(IngestRows)
    /\ pushed \in 0..MaxPushes
    /\ queued \subseteq Offsets
    /\ crashes \in 0..MaxCrashes
    /\ rebalances \in 0..MaxRebalances

IngestInit ==
    /\ log = <<>>
    /\ position = 0
    /\ committed = 0
    /\ pc = "fetch"
    /\ batchData = <<>>
    /\ batchMsgs = <<>>
    /\ cooling = FALSE
    /\ alerts = 0
    /\ online = [k \in FeatureKeys |-> 0]
    /\ writeQueue = <<>>
    /\ pushed = 0
    /\ queued = {}
    /\ crashes = 0
    /\ rebalances = 0

-----------------------------------------------------------------------------
(* The producer and the fetch loop *)

\* SendToDataProcessor writes a message; one whose write fails is not in the
\* topic and not heard of again.
Produce(m) ==
    /\ Len(log) < MaxLog
    /\ log' = Append(log, m)
    /\ UNCHANGED <<position, committed, pc, batchData, batchMsgs, cooling,
                   alerts, online, queueVars, restarts>>

\* A full batch is flushed at once.
AfterFetch(msgs) == IF Len(msgs) >= BatchSize THEN "alert" ELSE "fetch"

\* Mutant: ReadMessage, which commits what it returns, in place of FetchMessage.
ReadMessage ==
    /\ pc = "fetch"
    /\ position < Len(log)
    /\ position' = position + 1
    /\ committed' = position'
    /\ batchMsgs' = Append(batchMsgs, position')
    /\ batchData' = IF log[position'].json THEN Append(batchData, position')
                                           ELSE batchData
    /\ pc' = AfterFetch(batchMsgs')
    /\ UNCHANGED <<log, cooling, alerts, online, queueVars, restarts>>

\* FetchMessage returns the next message; malformed JSON is kept for the
\* commit only.
Fetch ==
    /\ pc = "fetch"
    /\ position < Len(log)
    /\ position' = position + 1
    /\ batchMsgs' = Append(batchMsgs, position')
    /\ batchData' = IF log[position'].json THEN Append(batchData, position')
                                           ELSE batchData
    /\ pc' = AfterFetch(batchMsgs')
    /\ UNCHANGED <<log, committed, cooling, alerts, online, queueVars, restarts>>

\* Mutant: a batch is flushed only when it is full.
TimeoutKeepsBatch == pc = "fetch" /\ UNCHANGED ingestVars

\* FetchMessage reaches its deadline: flushBatch, which returns at once from
\* an empty batch.
Timeout ==
    /\ pc = "fetch"
    /\ pc' = IF batchMsgs = <<>> THEN "fetch" ELSE "alert"
    /\ UNCHANGED <<log, position, committed, batchData, batchMsgs, cooling,
                   alerts, online, queueVars, restarts>>

-----------------------------------------------------------------------------
(* flushBatch *)

High == \E i \in 1..Len(batchData) : log[batchData[i]].high

\* The alert: only out of the cooldown, which starts if Publish succeeds; one
\* that was applied and returned an error will be followed by another.
Alert ==
    /\ pc = "alert"
    /\ IF High /\ ~cooling
       THEN \/ alerts' = alerts + 1 /\ cooling' = TRUE
            \/ "retry" \in IngestFaults /\ alerts' = alerts + 2 /\ cooling' = TRUE
            \/ /\ "publish" \in IngestFaults
               /\ alerts' \in {alerts, alerts + 1} /\ UNCHANGED cooling
       ELSE UNCHANGED <<alerts, cooling>>
    /\ pc' = "redis"
    /\ UNCHANGED <<log, position, committed, batchData, batchMsgs, online,
                   queueVars, restarts>>

\* Mutant: the first value about a key in the batch wins.
AfterSetsFirstWins(n) ==
    [k \in FeatureKeys |->
       LET sets == {i \in 1..n : log[batchData[i]].key = k} IN
       IF sets = {} THEN online[k]
       ELSE batchData[CHOOSE i \in sets : \A j \in sets : i <= j]]

\* The online store after the first n SET commands of the batch.
AfterSets(n) ==
    [k \in FeatureKeys |->
       LET sets == {i \in 1..n : log[batchData[i]].key = k} IN
       IF sets = {} THEN online[k]
       ELSE batchData[CHOOSE i \in sets : \A j \in sets : j <= i]]

\* How many commands of a pipeline Redis applies: all, or fewer and an error
\* that the code logs.
Applied == {Len(batchData)} \cup
           {n \in 0..Len(batchData) : "redis" \in IngestFaults}

\* SendBatch_Redis
SendRedis ==
    /\ pc = "redis"
    /\ \E n \in Applied : online' = AfterSets(n)
    /\ pc' = "duckdb"
    /\ UNCHANGED <<log, position, committed, batchData, batchMsgs, cooling,
                   alerts, queueVars, restarts>>

\* RPush of the rows of the offsets in s.
PushRows(s) ==
    /\ pushed + Len(s) <= MaxPushes
    /\ pushed' = pushed + Len(s)
    /\ writeQueue' = writeQueue \o
          [i \in 1..Len(s) |-> [n |-> pushed + i, table |-> FeaturesTable, data |-> s[i]]]
    /\ queued' = queued \cup {s[i] : i \in 1..Len(s)}

\* SendBatch_Duckdb_Queue; a pipeline sent again pushes its rows again.
SendDuckdb ==
    /\ pc = "duckdb"
    /\ \/ \E n \in Applied : PushRows(SubSeq(batchData, 1, n))
       \/ /\ "retry" \in IngestFaults
          /\ \E n \in 1..Len(batchData) : PushRows(SubSeq(batchData, 1, n) \o batchData)
    /\ pc' = "commit"
    /\ UNCHANGED <<log, position, committed, batchData, batchMsgs, cooling,
                   alerts, online, restarts>>

\* The batch's highest offset.
LastOfBatch == CHOOSE o \in {batchMsgs[i] : i \in 1..Len(batchMsgs)} :
                  \A i \in 1..Len(batchMsgs) : batchMsgs[i] <= o

\* Mutant: the offset after the next message.
CommitOneTooFar == LastOfBatch + 1
\* CommitMessages puts the group behind the highest offset of the messages.
CommitOffset == LastOfBatch

\* Mutant: batchData is not cleared.
CommitKeepsData ==
    /\ pc = "commit"
    /\ committed' = CommitOffset
    /\ batchMsgs' = <<>>
    /\ pc' = "fetch"
    /\ UNCHANGED <<log, position, batchData, cooling, alerts, online, queueVars,
                   restarts>>

\* CommitMessages succeeds, or fails and is only logged; the buffers are
\* cleared all the same.
Commit ==
    /\ pc = "commit"
    /\ \/ committed' = CommitOffset
       \/ "commit" \in IngestFaults /\ UNCHANGED committed
    /\ batchData' = <<>>
    /\ batchMsgs' = <<>>
    /\ pc' = "fetch"
    /\ UNCHANGED <<log, position, cooling, alerts, online, queueVars, restarts>>

-----------------------------------------------------------------------------
(* Time, crashes and the consumer group *)

CooldownEnds ==
    /\ cooling
    /\ cooling' = FALSE
    /\ UNCHANGED <<log, position, committed, pc, batchData, batchMsgs, alerts,
                   online, queueVars, restarts>>

\* Mutant: the new process starts at the end of the topic.
RestartAtEnd ==
    /\ crashes < MaxCrashes
    /\ crashes' = crashes + 1
    /\ position' = Len(log)
    /\ pc' = "fetch"
    /\ batchData' = <<>>
    /\ batchMsgs' = <<>>
    /\ cooling' = FALSE
    /\ UNCHANGED <<log, committed, alerts, online, queueVars, rebalances>>

\* The process dies with its batch and its lastAlertTime; the new one starts
\* from the group's offset.
Restart ==
    /\ crashes < MaxCrashes
    /\ crashes' = crashes + 1
    /\ position' = committed
    /\ pc' = "fetch"
    /\ batchData' = <<>>
    /\ batchMsgs' = <<>>
    /\ cooling' = FALSE
    /\ UNCHANGED <<log, committed, alerts, online, queueVars, rebalances>>

EngineCrashes == "crash" \in IngestFaults /\ Restart

\* The reader joins the group again and fetches from the group's offset; the
\* messages already in the batch stay there.
Rebalance ==
    /\ "rebalance" \in IngestFaults
    /\ position # committed
    /\ rebalances < MaxRebalances
    /\ rebalances' = rebalances + 1
    /\ position' = committed
    /\ UNCHANGED <<log, committed, pc, batchData, batchMsgs, cooling, alerts,
                   online, queueVars, crashes>>

-----------------------------------------------------------------------------
Flush == Alert \/ SendRedis \/ SendDuckdb \/ Commit

EngineNext == \/ \E m \in Messages : Produce(m)
              \/ Fetch
              \/ Timeout
              \/ Flush
              \/ CooldownEnds
              \/ Rebalance

IngestNext == EngineNext \/ EngineCrashes

IngestSpec == IngestInit /\ [][IngestNext]_ingestVars

-----------------------------------------------------------------------------
(* Properties *)

WellFormed(o) == log[o].json

\* What the group is past can no longer be lost by a crash of the consumer:
\* every well-formed message below the committed offset was pushed on the
\* write queue (flushBatch: "We commit after processing so if processing
\* crashes, we re-process (at-least-once)").
CommittedWasQueued == \A o \in 1..committed : WellFormed(o) => o \in queued

\* The highest well-formed message about k among the first n, 0 if none.
Latest(k, n) ==
    LET about == {o \in 1..n : WellFormed(o) /\ log[o].key = k} IN
    IF about = {} THEN 0 ELSE CHOOSE o \in about : \A p \in about : p <= o

\* How many messages the consumer is past: fetched, flushed, and out of the
\* batch.  A process that starts again is past what is committed, and no more.
Passed == position - Len(batchMsgs)

\* As long as the group is not rebalanced, the online store shows of every key
\* the last value among the messages the consumer is past, or a newer one, and
\* the consumer is past whatever is committed.  So no crash and no failed commit
\* puts the store behind the committed offset; a replay may put it behind what
\* was flushed before the crash, but the consumer is then about to fetch those
\* messages again, and at the end of the log the store shows the last value of
\* every key (SendBatch_Redis: "FIRST: most recent value of each feature to
\* redis").
OnlineIsFresh ==
    rebalances = 0 => /\ committed <= Passed
                      /\ \A k \in FeatureKeys : online[k] >= Latest(k, Passed)

\* The price of at-least-once is bounded: while the group is not rebalanced, a
\* row is pushed again only as long as its message is uncommitted, however the
\* consumer fell back and whatever commit failed (flushBatch clears both
\* buffers even then).  A rebalance between the push and the commit of a batch
\* would have the consumer fetch, and push, what is committed meanwhile.
OnlyUncommittedAgain ==
    [][rebalances = 0 => \A i \in (Len(writeQueue) + 1)..Len(writeQueue') :
                            writeQueue'[i].data > committed]_ingestVars

=============================================================================
