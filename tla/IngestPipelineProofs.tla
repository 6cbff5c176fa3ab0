------------------------ MODULE IngestPipelineProofs ------------------------
(***************************************************************************)
(* What holds of the way from Kafka to DuckDB for every batch size, every  *)
(* log and any number of crashes.  The consumer's half is proved in        *)
(* IngestProofs: Consumer takes its invariants and lemmas over.  The       *)
(* handler's steps leave the consumer's variables but the queue alone.     *)
(* The last part shows that the two halves make the log of DurableLog.     *)
(***************************************************************************)
EXTENDS IngestPipeline, SequenceFacts, FiniteSetTheorems

Consumer == INSTANCE IngestProofs

QueueRows == Consumer!IngestRows

\* The rows under way and stored are rows of the consumer, and no batch is
\* kept from one tick to the next.
HandlerInv ==
    /\ batch \in [{FeaturesTable} -> Seq(QueueRows)]
    /\ stored \in [{FeaturesTable} -> Seq(QueueRows)]
    /\ step = "wait" => batch[FeaturesTable] = <<>>
PipeInv == Consumer!IInv /\ HandlerInv

\* What was pushed is under way, stored, or lost with a trace.
TraceInv == \A o \in queued : Safe(o) \/ Traced(dropped, o)

\* What was pushed and is neither under way nor stored was taken by the crashes.
Missing  == {o \in queued : ~Safe(o)}
CountInv == IsFiniteSet(Missing) /\ Cardinality(Missing) <= crashes * MaxBatch

-----------------------------------------------------------------------------
(* The two halves *)

\* The consumer's assumptions.
LEMMA ConsumerAssumption ==
    /\ Messages \subseteq [key : FeatureKeys, json : BOOLEAN, high : BOOLEAN]
    /\ BatchSize \in Nat \ {0}
    /\ MaxLog \in Nat /\ MaxPushes \in Nat
    /\ MaxCrashes \in Nat /\ MaxRebalances \in Nat
    /\ IngestFaults \subseteq Consumer!IngestFaultKinds
  BY PipelineAssumption DEF Engine!IngestAssumption, Consumer!IngestFaultKinds,
                            Engine!IngestFaultKinds

\* A step of the engine is a step of the consumer.
LEMMA EngineIsConsumer == Engine!EngineNext => Consumer!EngineNext
<1> USE DEF Engine!restarts, Consumer!restarts, Engine!queueVars, Consumer!queueVars
<1>1. ASSUME NEW m \in Messages, Engine!Produce(m) PROVE Consumer!Produce(m)
  BY <1>1 DEF Engine!Produce, Consumer!Produce
<1>2. Engine!Fetch => Consumer!Fetch
  BY DEF Engine!Fetch, Consumer!Fetch, Engine!AfterFetch, Consumer!AfterFetch
<1>3. Engine!Timeout => Consumer!Timeout
  BY DEF Engine!Timeout, Consumer!Timeout
<1>4. Engine!Alert => Consumer!Alert
  BY DEF Engine!Alert, Consumer!Alert, Engine!High, Consumer!High
<1>5. Engine!SendRedis => Consumer!SendRedis
  BY DEF Engine!SendRedis, Consumer!SendRedis, Engine!Applied, Consumer!Applied,
         Engine!AfterSets, Consumer!AfterSets
<1>6. Engine!SendDuckdb => Consumer!SendDuckdb
  BY DEF Engine!SendDuckdb, Consumer!SendDuckdb, Engine!Applied, Consumer!Applied,
         Engine!PushRows, Consumer!PushRows
<1>7. Engine!Commit => Consumer!Commit
  BY DEF Engine!Commit, Consumer!Commit, Engine!CommitOffset, Consumer!CommitOffset,
         Engine!LastOfBatch, Consumer!LastOfBatch
<1>8. Engine!CooldownEnds => Consumer!CooldownEnds
  BY DEF Engine!CooldownEnds, Consumer!CooldownEnds
<1>9. Engine!Rebalance => Consumer!Rebalance
  BY DEF Engine!Rebalance, Consumer!Rebalance
<1> QED
  BY <1>1, <1>2, <1>3, <1>4, <1>5, <1>6, <1>7, <1>8, <1>9
     DEF Engine!EngineNext, Consumer!EngineNext, Engine!Flush, Consumer!Flush

\* The death of the process is the consumer's crash.
LEMMA CrashIsConsumers == ProcessCrash => Consumer!EngineCrashes
  BY DEF ProcessCrash, Engine!Restart, Consumer!EngineCrashes, Consumer!Restart,
         Engine!queueVars, Consumer!queueVars

LEMMA ConsumerSteps ==
    ASSUME EngineStep \/ ProcessCrash
    PROVE  [Consumer!IngestNext]_(Consumer!ingestVars)
  BY EngineIsConsumer, CrashIsConsumers DEF EngineStep, Consumer!IngestNext

-----------------------------------------------------------------------------
(* What the queue, a batch and the table hold *)

LEMMA HoldsAppend ==
    ASSUME NEW S, NEW s \in Seq(S), NEW e \in S
    PROVE  \A o : Holds(Append(s, e), o) <=> Holds(s, o) \/ o = e.data
<1> DEFINE a == Append(s, e)
<1>1. /\ Len(s) \in Nat /\ Len(a) = Len(s) + 1
      /\ \A i \in 1..Len(s) : a[i] = s[i]
      /\ a[Len(s) + 1] = e
  BY AppendElements
<1>2. /\ Len(s) + 1 \in 1..Len(a) /\ \A i \in 1..Len(s) : i \in 1..Len(a)
      /\ \A i \in 1..Len(a) : i = Len(s) + 1 \/ i \in 1..Len(s)
  BY <1>1
<1> HIDE DEF a
<1> QED
  BY <1>1, <1>2 DEF Holds, a

LEMMA HoldsTail ==
    ASSUME NEW S, NEW s \in Seq(S), s # <<>>
    PROVE  \A o : Holds(s, o) <=> o = Head(s).data \/ Holds(Tail(s), o)
<1> DEFINE u == Tail(s)
<1>1. /\ Len(s) \in Nat \ {0} /\ Len(u) = Len(s) - 1 /\ Head(s) = s[1]
      /\ \A i \in 1..Len(u) : u[i] = s[i + 1]
  BY TailElements
<1> HIDE DEF u
<1>2. ASSUME NEW i \in 1..Len(s), i # 1
      PROVE  i - 1 \in 1..Len(u) /\ s[i] = u[i - 1]
  <2>1. i - 1 \in 1..Len(u) /\ (i - 1) + 1 = i
    BY <1>1, <1>2
  <2> QED
    BY <1>1, <2>1
<1>3. 1 \in 1..Len(s) /\ \A i \in 1..Len(u) : i + 1 \in 1..Len(s) /\ s[i + 1] = u[i]
  BY <1>1
<1> QED
  BY <1>1, <1>2, <1>3 DEF Holds, u

LEMMA HoldsConcat ==
    ASSUME NEW S, NEW s \in Seq(S), NEW u \in Seq(S), NEW k \in 0..Len(u)
    PROVE  /\ \A o : Holds(s, o) => Holds(s \o SubSeq(u, 1, k), o)
           /\ k = Len(u) =>
                \A o : Holds(s \o SubSeq(u, 1, k), o) <=> Holds(s, o) \/ Holds(u, o)
<1> DEFINE c == s \o SubSeq(u, 1, k)
<1>1. /\ Len(s) \in Nat /\ Len(u) \in Nat /\ k \in Nat /\ Len(c) = Len(s) + k
      /\ \A i \in 1..Len(s) : c[i] = s[i]
      /\ \A i \in (Len(s) + 1)..(Len(s) + k) : c[i] = u[i - Len(s)]
  BY ConcatElements
<1> HIDE DEF c
<1>2. \A i \in 1..Len(s) : i \in 1..Len(c)
  BY <1>1
<1>3. ASSUME k = Len(u), NEW i \in 1..Len(u)
      PROVE  Len(s) + i \in 1..Len(c) /\ c[Len(s) + i] = u[i]
  <2>1. /\ Len(s) + i \in 1..Len(c) /\ Len(s) + i \in (Len(s) + 1)..(Len(s) + k)
        /\ (Len(s) + i) - Len(s) = i
    BY <1>1, <1>3
  <2> QED
    BY <1>1, <2>1
<1>4. ASSUME k = Len(u), NEW i \in 1..Len(c), i \notin 1..Len(s)
      PROVE  i - Len(s) \in 1..Len(u) /\ c[i] = u[i - Len(s)]
  <2>1. i \in (Len(s) + 1)..(Len(s) + k)
    BY <1>1, <1>4
  <2> QED
    BY <1>1, <1>4, <2>1
<1>5. \A o : Holds(s, o) => Holds(c, o)
  BY <1>1, <1>2 DEF Holds
<1>6. k = Len(u) => \A o : Holds(u, o) => Holds(c, o)
  BY <1>3 DEF Holds
<1>7. k = Len(u) => \A o : Holds(c, o) => Holds(s, o) \/ Holds(u, o)
  BY <1>1, <1>4 DEF Holds
<1> HIDE DEF Holds
<1> QED
  BY <1>5, <1>6, <1>7 DEF c

-----------------------------------------------------------------------------
(* The invariant of the types *)

LEMMA QueueFacts ==
    ASSUME PipeInv
    PROVE  /\ writeQueue \in Seq(QueueRows) /\ crashes \in Nat
           /\ batch[FeaturesTable] \in Seq(QueueRows)
           /\ stored[FeaturesTable] \in Seq(QueueRows)
           /\ \A r \in QueueRows : r.table = FeaturesTable
           /\ writeQueue # <<>> =>
                Tail(writeQueue) \in Seq(QueueRows) /\ Head(writeQueue) \in QueueRows
<1>1. writeQueue \in Seq(QueueRows) /\ crashes \in 0..MaxCrashes
  BY DEF PipeInv, Consumer!IInv, Consumer!IngestTypeOK, QueueRows
<1>2. crashes \in Nat
  BY <1>1, ConsumerAssumption
<1>3. writeQueue # <<>> =>
        Tail(writeQueue) \in Seq(QueueRows) /\ Head(writeQueue) \in QueueRows
  BY <1>1, TailElements
<1>4. \A r \in QueueRows : r.table = FeaturesTable
  BY DEF QueueRows, Consumer!IngestRows
<1> QED
  BY <1>1, <1>2, <1>3, <1>4 DEF PipeInv, HandlerInv

LEMMA InitPipe == Init => PipeInv
<1> SUFFICES ASSUME Init PROVE PipeInv
  OBVIOUS
<1>1. Consumer!IngestInit
  BY DEF Init, Engine!IngestInit, Consumer!IngestInit
<1>2. Consumer!IInv
  BY <1>1, ConsumerAssumption, Consumer!InitIInv
<1>3. HandlerInv
  BY DEF Init, Handler!HandlerInit, Handler!EmptyBatch, HandlerInv
<1> QED
  BY <1>2, <1>3 DEF PipeInv

\* The consumer's invariant asks of the queue only that it holds rows.
LEMMA QueueOnly ==
    ASSUME Consumer!IInv, UNCHANGED engine, pushed' = pushed, writeQueue' \in Seq(QueueRows)
    PROVE  Consumer!IInv'
  BY DEF engine, Consumer!IInv, Consumer!IngestTypeOK, Consumer!BatchInv, Consumer!FreshInv,
         QueueRows

\* The handler's rows are handed on as they are.
LEMMA SettleKeeps ==
    ASSUME PipeInv, NEW k \in 0..Len(batch[FeaturesTable]), NEW cause,
           Handler!Settle(FeaturesTable, k, cause)
    PROVE  HandlerInv' /\ UNCHANGED <<writeQueue, pushed>>
<1> DEFINE c == stored[FeaturesTable] \o SubSeq(batch[FeaturesTable], 1, k)
<1>1. /\ batch' = [batch EXCEPT ![FeaturesTable] = <<>>]
      /\ stored' = [stored EXCEPT ![FeaturesTable] = c]
      /\ UNCHANGED <<writeQueue, pushed>>
  BY DEF Handler!Settle
<1>2. c \in Seq(QueueRows)
  BY QueueFacts, ConcatElements
<1> HIDE DEF c
<1>3. /\ batch' \in [{FeaturesTable} -> Seq(QueueRows)] /\ batch'[FeaturesTable] = <<>>
      /\ stored' \in [{FeaturesTable} -> Seq(QueueRows)]
  BY <1>1, <1>2 DEF PipeInv, HandlerInv
<1> QED
  BY <1>1, <1>3 DEF HandlerInv

\* However a table's batch ends, it is settled, all of it if nothing fails.
LEMMA WriteSettles ==
    ASSUME PipeInv, Handler!WriteTable(FeaturesTable)
    PROVE  \E k \in 0..Len(batch[FeaturesTable]), cause \in {"schema", "append", "reject"} :
             /\ Handler!Settle(FeaturesTable, k, cause)
             /\ WriteFaults = {} => k = Len(batch[FeaturesTable])
<1> DEFINE b == batch[FeaturesTable]
<1>1. Len(b) \in Nat
  BY QueueFacts
<1>2. 0 \in 0..Len(b) /\ Len(b) \in 0..Len(b)
  BY <1>1
<1>3. CASE Handler!SchemaFails(FeaturesTable)
  BY <1>2, <1>3 DEF Handler!SchemaFails
<1>4. CASE Handler!AppendTable(FeaturesTable)
  BY <1>2, <1>4 DEF Handler!AppendTable
<1>5. CASE Handler!AppendRejected(FeaturesTable)
  BY <1>5 DEF Handler!AppendRejected, Handler!Rejected
<1>6. CASE Handler!AppendFails(FeaturesTable)
  BY <1>2, <1>6 DEF Handler!AppendFails
<1> QED
  BY <1>3, <1>4, <1>5, <1>6 DEF Handler!WriteTable

\* A step of the handler.
LEMMA HandlerStepKeeps == PipeInv /\ HandlerStep => PipeInv'
<1> SUFFICES ASSUME PipeInv, HandlerStep PROVE PipeInv'
  OBVIOUS
<1> DEFINE b == batch[FeaturesTable]
<1>1. UNCHANGED engine /\ Handler!HandlerNext
  BY DEF HandlerStep
<1>2. CASE Handler!Tick \/ Handler!Crash
  <2>1. UNCHANGED <<writeQueue, pushed, stored>> /\ batch' = Handler!EmptyBatch
    BY <1>2 DEF Handler!Tick, Handler!Crash
  <2>2. batch' \in [{FeaturesTable} -> Seq(QueueRows)] /\ batch'[FeaturesTable] = <<>>
    BY <2>1 DEF Handler!EmptyBatch
  <2>3. HandlerInv'
    BY <2>1, <2>2 DEF PipeInv, HandlerInv
  <2> QED
    BY <1>1, <2>1, <2>3, QueueOnly, QueueFacts DEF PipeInv
<1>3. CASE Handler!PopRow
  <2>1. /\ writeQueue # <<>> /\ writeQueue' = Tail(writeQueue)
        /\ batch' = [batch EXCEPT ![Head(writeQueue).table] = Append(@, Head(writeQueue))]
        /\ UNCHANGED <<stored, pushed, step>> /\ step = "collect"
    BY <1>3 DEF Handler!PopRow
  <2>2. /\ writeQueue' \in Seq(QueueRows) /\ Head(writeQueue) \in QueueRows
        /\ Head(writeQueue).table = FeaturesTable
    BY <2>1, QueueFacts
  <2>3. Append(b, Head(writeQueue)) \in Seq(QueueRows)
    BY <2>2, QueueFacts, AppendElements
  <2>4. batch' \in [{FeaturesTable} -> Seq(QueueRows)]
    BY <2>1, <2>2, <2>3 DEF PipeInv, HandlerInv
  <2>5. HandlerInv'
    BY <2>1, <2>4 DEF PipeInv, HandlerInv
  <2> QED
    BY <1>1, <2>1, <2>2, <2>5, QueueOnly DEF PipeInv
<1>4. CASE Handler!PopMalformed \/ Handler!PopFails \/ Handler!CollectEnds
  <2>1. /\ writeQueue' = writeQueue \/ (writeQueue # <<>> /\ writeQueue' = Tail(writeQueue))
        /\ UNCHANGED <<batch, stored, pushed>>
        /\ step' = "wait" => batch = Handler!EmptyBatch \/ step = "wait"
    BY <1>4 DEF Handler!PopMalformed, Handler!PopFails, Handler!CollectEnds,
                Handler!AfterCollect
  <2>2. writeQueue' \in Seq(QueueRows)
    BY <2>1, QueueFacts
  <2>3. HandlerInv'
    BY <2>1 DEF PipeInv, HandlerInv, Handler!EmptyBatch
  <2> QED
    BY <1>1, <2>1, <2>2, <2>3, QueueOnly DEF PipeInv
<1>5. CASE Handler!WriteTable(FeaturesTable)
  <2>1. PICK k \in 0..Len(b), cause \in {"schema", "append", "reject"} :
          Handler!Settle(FeaturesTable, k, cause)
    BY <1>5, WriteSettles
  <2>2. HandlerInv' /\ UNCHANGED <<writeQueue, pushed>>
    BY <2>1, SettleKeeps
  <2> QED
    BY <1>1, <2>2, QueueOnly, QueueFacts DEF PipeInv
<1> QED
  BY <1>1, <1>2, <1>3, <1>4, <1>5
     DEF Handler!HandlerNext, Handler!Collect, Handler!HandlerCrashes

LEMMA PipeInductive == PipeInv /\ [Next]_vars => PipeInv'
<1> SUFFICES ASSUME PipeInv, [Next]_vars PROVE PipeInv'
  OBVIOUS
<1>1. CASE EngineStep
  <2>1. Consumer!IInv'
    BY <1>1, ConsumerSteps, ConsumerAssumption, Consumer!Inductive DEF PipeInv
  <2>2. HandlerInv'
    BY <1>1 DEF EngineStep, handler, PipeInv, HandlerInv
  <2> QED
    BY <2>1, <2>2 DEF PipeInv
<1>2. CASE ProcessCrash
  <2>1. Consumer!IInv'
    BY <1>2, ConsumerSteps, ConsumerAssumption, Consumer!Inductive DEF PipeInv
  <2>2. stored' = stored /\ batch' = Handler!EmptyBatch
    BY <1>2 DEF ProcessCrash, Handler!Crash
  <2>3. HandlerInv'
    BY <2>2 DEF PipeInv, HandlerInv, Handler!EmptyBatch
  <2> QED
    BY <2>1, <2>3 DEF PipeInv
<1>3. CASE HandlerStep
  BY <1>3, HandlerStepKeeps
<1>4. CASE UNCHANGED vars
  <2>1. UNCHANGED engine /\ UNCHANGED <<writeQueue, pushed, batch, stored, step>>
    BY <1>4 DEF vars, handler
  <2> QED
    BY <2>1, QueueOnly, QueueFacts DEF PipeInv, HandlerInv
<1> QED
  BY <1>1, <1>2, <1>3, <1>4 DEF Next

LEMMA PipeInvariance == Spec => []PipeInv
  BY InitPipe, PipeInductive, PTL DEF Spec

-----------------------------------------------------------------------------
(* What a step can take away *)

\* A step of the engine takes nothing away, and what it adds to the rows
\* pushed is in the queue.
LEMMA EngineSafe ==
    ASSUME PipeInv, EngineStep
    PROVE  /\ \A o : Safe(o) => Safe(o)'
           /\ \A o \in queued' : o \in queued \/ Safe(o)'
           /\ crashes' = crashes
<1>1. UNCHANGED <<batch, stored>> /\ Consumer!EngineNext
  BY EngineIsConsumer DEF EngineStep, handler
<1>2. crashes' = crashes
  BY <1>1 DEF Consumer!EngineNext, Consumer!Produce, Consumer!Fetch, Consumer!Timeout,
     Consumer!Flush, Consumer!Alert, Consumer!SendRedis, Consumer!SendDuckdb, Consumer!Commit,
     Consumer!CooldownEnds, Consumer!Rebalance, Consumer!restarts
<1>3. CASE Consumer!SendDuckdb
  <2>1. Consumer!IngestTypeOK
    BY DEF PipeInv, Consumer!IInv
  <2>2. PICK s \in Seq(Consumer!Offsets) : Consumer!PushRows(s)
    BY <1>3, <2>1, ConsumerAssumption, Consumer!SendDuckdbPushes
  <2>3. /\ \A i \in 1..Len(writeQueue) :
             i \in 1..Len(writeQueue') /\ writeQueue'[i] = writeQueue[i]
        /\ \A i \in 1..Len(s) : \E j \in 1..Len(writeQueue') : writeQueue'[j].data = s[i]
        /\ \A o \in queued' : o \in queued \/ \E i \in 1..Len(s) : o = s[i]
    BY <2>1, <2>2, ConsumerAssumption, Consumer!PushRowsAdds
  <2>4. \A o : Holds(writeQueue, o) => Holds(writeQueue', o)
    BY <2>3 DEF Holds
  <2>5. \A i \in 1..Len(s) : Holds(writeQueue', s[i])
    BY <2>3 DEF Holds
  <2>6. \A o : Safe(o) => Safe(o)'
    BY <1>1, <2>4 DEF Safe, Holds
  <2>7. \A i \in 1..Len(s) : Safe(s[i])'
    BY <2>5 DEF Safe, Holds
  <2> QED
    BY <1>2, <2>3, <2>6, <2>7
<1>4. CASE ~Consumer!SendDuckdb
  <2>1. UNCHANGED <<writeQueue, queued>>
    BY <1>1, <1>4 DEF Consumer!EngineNext, Consumer!Produce, Consumer!Fetch, Consumer!Timeout,
       Consumer!Flush, Consumer!Alert, Consumer!SendRedis, Consumer!Commit,
       Consumer!CooldownEnds, Consumer!Rebalance, Consumer!queueVars
  <2> QED
    BY <1>1, <1>2, <2>1 DEF Safe, Holds
<1> QED
  BY <1>3, <1>4

\* A pop hands the row to the batch.
LEMMA PopSafe ==
    ASSUME PipeInv, Handler!PopRow
    PROVE  \A o : Safe(o) => Safe(o)'
<1> DEFINE h == Head(writeQueue)
           b == batch[FeaturesTable]
<1>1. /\ writeQueue # <<>> /\ writeQueue' = Tail(writeQueue) /\ stored' = stored
      /\ batch' = [batch EXCEPT ![h.table] = Append(@, h)]
  BY DEF Handler!PopRow
<1>2. h \in QueueRows /\ h.table = FeaturesTable
  BY <1>1, QueueFacts
<1>3. batch'[FeaturesTable] = Append(b, h)
  BY <1>1, <1>2 DEF PipeInv, HandlerInv
<1>4. \A o : Holds(writeQueue, o) => o = h.data \/ Holds(writeQueue', o)
  BY <1>1, QueueFacts, HoldsTail
<1>5. \A o : Holds(b, o) \/ o = h.data => Holds(batch'[FeaturesTable], o)
  BY <1>2, <1>3, QueueFacts, HoldsAppend
<1> HIDE DEF h
<1> QED
  BY <1>1, <1>4, <1>5 DEF Safe, Holds

\* A batch that is done with is stored, or part of it is lost; nothing else is.
LEMMA SettleSafe ==
    ASSUME PipeInv, Handler!WriteTable(FeaturesTable)
    PROVE  /\ \A o : Safe(o) => Safe(o)' \/ Holds(batch[FeaturesTable], o)
           /\ WriteFaults = {} => \A o : Safe(o) => Safe(o)'
<1> DEFINE b == batch[FeaturesTable]
           s == stored[FeaturesTable]
<1>1. PICK k \in 0..Len(b), cause \in {"schema", "append", "reject"} :
             /\ Handler!Settle(FeaturesTable, k, cause)
             /\ WriteFaults = {} => k = Len(b)
  BY WriteSettles
<1>2. writeQueue' = writeQueue /\ stored'[FeaturesTable] = s \o SubSeq(b, 1, k)
  BY <1>1 DEF Handler!Settle, PipeInv, HandlerInv
<1>3. /\ \A o : Holds(s, o) => Holds(s \o SubSeq(b, 1, k), o)
      /\ k = Len(b) => \A o : Holds(b, o) => Holds(s \o SubSeq(b, 1, k), o)
  BY QueueFacts, HoldsConcat
<1>4. /\ \A o : Holds(s, o) => Holds(stored'[FeaturesTable], o)
      /\ WriteFaults = {} => \A o : Holds(b, o) => Holds(stored'[FeaturesTable], o)
  BY <1>1, <1>2, <1>3
<1> HIDE DEF b, s
<1>5. \A o : Safe(o) <=> Holds(writeQueue, o) \/ Holds(b, o) \/ Holds(s, o)
  BY DEF Safe, b, s
<1>6. \A o : Holds(writeQueue, o) \/ Holds(stored'[FeaturesTable], o) => Safe(o)'
  BY <1>2 DEF Safe, Holds
<1> QED
  BY <1>4, <1>5, <1>6 DEF b

\* What a step of the handler takes away was in its batch; with no failure it
\* takes nothing away.
LEMMA HandlerSafe ==
    ASSUME PipeInv, HandlerStep, WriteFaults \cap {"pop", "decode"} = {}
    PROVE  /\ \A o : Safe(o) => Safe(o)' \/ Holds(batch[FeaturesTable], o)
           /\ WriteFaults = {} => \A o : Safe(o) => Safe(o)'
<1>1. Handler!HandlerNext
  BY DEF HandlerStep
<1>2. CASE Handler!Tick
  <2>1. UNCHANGED <<writeQueue, stored>> /\ batch[FeaturesTable] = <<>>
    BY <1>2 DEF Handler!Tick, PipeInv, HandlerInv
  <2> QED
    BY <2>1 DEF Safe, Holds
<1>3. CASE Handler!PopRow
  BY <1>3, PopSafe
<1>4. CASE Handler!CollectEnds
  BY <1>4 DEF Handler!CollectEnds, Safe, Holds
<1>5. CASE Handler!WriteTable(FeaturesTable)
  BY <1>5, SettleSafe
<1>6. CASE Handler!HandlerCrashes
  BY <1>6 DEF Handler!HandlerCrashes, Handler!Crash, Safe, Holds
<1>7. ~Handler!PopMalformed /\ ~Handler!PopFails
  BY DEF Handler!PopMalformed, Handler!PopFails
<1> QED
  BY <1>1, <1>2, <1>3, <1>4, <1>5, <1>6, <1>7 DEF Handler!HandlerNext, Handler!Collect

\* If LPop and the decoding succeed, whatever else fails and whenever the
\* process dies, a value that stops being safe was in the batch of the handler:
\* neither the queue nor the table loses one.
THEOREM OneBatchLost ==
    ASSUME WriteFaults \cap {"pop", "decode"} = {} PROVE Spec => CrashCostsOneBatch
<1>1. PipeInv /\ [Next]_vars =>
        [\A o \in 1..committed : Safe(o) /\ ~Safe(o)' => Holds(batch[FeaturesTable], o)]_vars
  <2> SUFFICES ASSUME PipeInv, Next, NEW o, Safe(o), ~Safe(o)'
               PROVE  Holds(batch[FeaturesTable], o)
    OBVIOUS
  <2>1. ~EngineStep
    BY EngineSafe
  <2>2. CASE HandlerStep
    BY <2>2, HandlerSafe
  <2>3. CASE ProcessCrash
    <3>1. UNCHANGED <<writeQueue, stored>>
      BY <2>3 DEF ProcessCrash, Engine!Restart, Engine!queueVars, Handler!Crash
    <3> QED
      BY <3>1 DEF Safe, Holds
  <2> QED
    BY <2>1, <2>2, <2>3 DEF Next
<1> QED
  BY <1>1, PipeInvariance, PTL DEF Spec, CrashCostsOneBatch

-----------------------------------------------------------------------------
(* What is lost leaves a trace *)

\* Whatever is lost with a batch, or popped and lost, is in dropped.
LEMMA SettleTraces ==
    ASSUME PipeInv, Handler!WriteTable(FeaturesTable)
    PROVE  \A o : Safe(o) => Safe(o)' \/ Traced(dropped', o)
<1> DEFINE b == batch[FeaturesTable]
           s == stored[FeaturesTable]
<1>1. PICK k \in 0..Len(b), cause \in {"schema", "append", "reject"} :
             Handler!Settle(FeaturesTable, k, cause)
  BY WriteSettles
<1> DEFINE c == s \o SubSeq(b, 1, k)
<1>2. /\ writeQueue' = writeQueue /\ stored'[FeaturesTable] = c
      /\ dropped' = dropped \cup {[row |-> b[i], by |-> cause] : i \in (k + 1)..Len(b)}
  BY <1>1 DEF Handler!Settle, PipeInv, HandlerInv
<1>3. /\ Len(s) \in Nat /\ Len(b) \in Nat /\ k \in Nat /\ Len(c) = Len(s) + k
      /\ \A i \in (Len(s) + 1)..(Len(s) + k) : c[i] = b[i - Len(s)]
      /\ \A o : Holds(s, o) => Holds(c, o)
  <2>1. s \in Seq(QueueRows) /\ b \in Seq(QueueRows)
    BY QueueFacts
  <2> HIDE DEF s, b
  <2>2. /\ Len(s) \in Nat /\ Len(b) \in Nat /\ k \in Nat /\ Len(c) = Len(s) + k
        /\ \A i \in (Len(s) + 1)..(Len(s) + k) : c[i] = b[i - Len(s)]
    BY <2>1, ConcatElements
  <2>3. \A o : Holds(s, o) => Holds(c, o)
    BY <2>1, HoldsConcat
  <2> QED
    BY <2>2, <2>3
<1>4. ASSUME NEW i \in 1..Len(b)
      PROVE  Holds(c, b[i].data) \/ Traced(dropped', b[i].data)
  <2>1. CASE i <= k
    <3>1. /\ Len(s) + i \in 1..Len(c) /\ Len(s) + i \in (Len(s) + 1)..(Len(s) + k)
          /\ (Len(s) + i) - Len(s) = i
      <4> HIDE DEF s, b, c
      <4>1. Len(s) \in Nat /\ Len(b) \in Nat /\ k \in Nat /\ Len(c) = Len(s) + k
        BY <1>3
      <4>2. ASSUME NEW n \in Nat, NEW m \in Nat, NEW l, i \in 1..m, i <= k, k \in Nat, l = n + k
            PROVE  n + i \in 1..l /\ n + i \in (n + 1)..(n + k) /\ (n + i) - n = i
        BY <4>2
      <4> QED
        BY <4>1, <4>2, <2>1
    <3>2. c[Len(s) + i] = b[i]
      BY <1>3, <3>1
    <3> HIDE DEF c, b
    <3> QED
      BY <3>1, <3>2 DEF Holds
  <2>2. CASE i > k
    <3>1. i \in (k + 1)..Len(b)
      BY <1>3, <2>2
    <3>2. [row |-> b[i], by |-> cause] \in dropped'
      BY <1>2, <3>1
    <3> QED
      BY <3>2 DEF Traced
  <2> QED
    BY <1>3, <2>1, <2>2
<1> HIDE DEF c
<1>5. \A o : Holds(b, o) => Holds(c, o) \/ Traced(dropped', o)
  <2> SUFFICES ASSUME NEW o, Holds(b, o) PROVE Holds(c, o) \/ Traced(dropped', o)
    OBVIOUS
  <2>1. PICK i \in 1..Len(b) : b[i].data = o
    BY DEF Holds
  <2> QED
    BY <1>4, <2>1
<1> HIDE DEF b, s
<1>6. \A o : Safe(o) <=> Holds(writeQueue, o) \/ Holds(b, o) \/ Holds(s, o)
  BY DEF Safe, b, s
<1>7. \A o : Holds(writeQueue, o) \/ Holds(c, o) => Safe(o)'
  BY <1>2 DEF Safe, Holds
<1> QED
  BY <1>3, <1>5, <1>6, <1>7

\* A crash traces the whole batch.
LEMMA CrashTraces ==
    ASSUME PipeInv, Handler!Crash
    PROVE  \A o : Safe(o) => Safe(o)' \/ Traced(dropped', o)
<1> DEFINE b == batch[FeaturesTable]
<1>1. /\ UNCHANGED <<writeQueue, stored>>
      /\ dropped' = dropped \cup {[row |-> r, by |-> "crash"] :
                                    r \in UNION {Handler!Elems(batch[t]) : t \in {FeaturesTable}}}
  BY DEF Handler!Crash
<1>2. ASSUME NEW i \in 1..Len(b) PROVE Traced(dropped', b[i].data)
  <2>1. b[i] \in Handler!Elems(b)
    BY DEF Handler!Elems
  <2>2. b[i] \in UNION {Handler!Elems(batch[t]) : t \in {FeaturesTable}}
    BY <2>1
  <2>3. [row |-> b[i], by |-> "crash"] \in dropped'
    BY <1>1, <2>2
  <2> QED
    BY <2>3 DEF Traced
<1>3. \A o : Holds(b, o) => Traced(dropped', o)
  BY <1>2 DEF Holds
<1> HIDE DEF b
<1>4. \A o : Safe(o) <=> Holds(writeQueue, o) \/ Holds(b, o) \/ Holds(stored[FeaturesTable], o)
  BY DEF Safe, b
<1>5. \A o : Holds(writeQueue, o) \/ Holds(stored[FeaturesTable], o) => Safe(o)'
  BY <1>1 DEF Safe, Holds
<1> QED
  BY <1>3, <1>4, <1>5

\* A row popped without getting into the batch.
LEMMA PopTraces ==
    ASSUME PipeInv, Handler!PopMalformed \/ Handler!PopFails
    PROVE  \A o : Safe(o) => Safe(o)' \/ Traced(dropped', o)
<1> DEFINE h == Head(writeQueue)
<1>1. CASE UNCHANGED writeQueue
  <2>1. UNCHANGED <<batch, stored>>
    BY DEF Handler!PopMalformed, Handler!PopFails
  <2> QED
    BY <1>1, <2>1 DEF Safe, Holds
<1>2. CASE writeQueue' # writeQueue
  <2>1. PICK cause \in {"decode", "pop"} :
          /\ writeQueue # <<>> /\ writeQueue' = Tail(writeQueue) /\ UNCHANGED <<batch, stored>>
          /\ dropped' = dropped \cup {[row |-> h, by |-> cause]}
    BY <1>2 DEF Handler!PopMalformed, Handler!PopFails
  <2>2. \A o : Holds(writeQueue, o) => o = h.data \/ Holds(writeQueue', o)
    BY <2>1, QueueFacts, HoldsTail
  <2>3. Traced(dropped', h.data)
    <3>1. [row |-> h, by |-> cause] \in dropped'
      BY <2>1
    <3> QED
      BY <3>1 DEF Traced
  <2> HIDE DEF h
  <2>4. \A o : Holds(writeQueue', o) => Safe(o)'
    BY DEF Safe, Holds
  <2>5. \A o : Holds(batch[FeaturesTable], o) \/ Holds(stored[FeaturesTable], o) => Safe(o)'
    BY <2>1 DEF Safe, Holds
  <2> QED
    BY <2>2, <2>3, <2>4, <2>5 DEF Safe
<1> QED
  BY <1>1, <1>2

\* No step takes anything away without a trace, and no trace disappears.
LEMMA StepTraces ==
    ASSUME PipeInv, HandlerStep \/ ProcessCrash
    PROVE  /\ \A o : Safe(o) => Safe(o)' \/ Traced(dropped', o)
           /\ \A o : Traced(dropped, o) => Traced(dropped', o)
<1>1. dropped \subseteq dropped'
  BY DEF HandlerStep, ProcessCrash, Handler!HandlerNext, Handler!Collect, Handler!WriteTable,
     Handler!Tick, Handler!PopRow, Handler!PopMalformed, Handler!PopFails, Handler!CollectEnds,
     Handler!SchemaFails, Handler!AppendTable, Handler!AppendRejected, Handler!AppendFails,
     Handler!Settle, Handler!HandlerCrashes, Handler!Crash
<1>2. \A o : Traced(dropped, o) => Traced(dropped', o)
  BY <1>1 DEF Traced
<1>3. CASE Handler!Crash
  BY <1>2, <1>3, CrashTraces
<1>4. CASE Handler!Tick
  <2>1. UNCHANGED <<writeQueue, stored>> /\ batch[FeaturesTable] = <<>>
    BY <1>4 DEF Handler!Tick, PipeInv, HandlerInv
  <2> QED
    BY <1>2, <2>1 DEF Safe, Holds
<1>5. CASE Handler!PopRow
  BY <1>2, <1>5, PopSafe
<1>6. CASE Handler!PopMalformed \/ Handler!PopFails
  BY <1>2, <1>6, PopTraces
<1>7. CASE Handler!CollectEnds
  BY <1>2, <1>7 DEF Handler!CollectEnds, Safe, Holds
<1>8. CASE Handler!WriteTable(FeaturesTable)
  BY <1>2, <1>8, SettleTraces
<1> QED
  BY SMTT(30), <1>3, <1>4, <1>5, <1>6, <1>7, <1>8
     DEF HandlerStep, ProcessCrash, Handler!HandlerNext, Handler!Collect, Handler!HandlerCrashes

LEMMA TraceInductive == PipeInv /\ TraceInv /\ [Next]_vars => TraceInv'
<1> SUFFICES ASSUME PipeInv, TraceInv, [Next]_vars PROVE TraceInv'
  OBVIOUS
<1>1. CASE EngineStep
  <2>1. dropped' = dropped
    BY <1>1 DEF EngineStep, handler
  <2>2. \A o : Traced(dropped, o) => Traced(dropped', o)
    BY <2>1 DEF Traced
  <2> QED
    BY <1>1, <2>2, EngineSafe DEF TraceInv
<1>2. CASE HandlerStep \/ ProcessCrash
  <2>1. queued' = queued
    BY <1>2 DEF HandlerStep, engine, ProcessCrash, Engine!Restart, Engine!queueVars
  <2> QED
    BY <1>2, <2>1, StepTraces DEF TraceInv
<1>3. CASE UNCHANGED vars
  BY <1>3 DEF vars, engine, handler, TraceInv, Safe, Holds, Traced
<1> QED
  BY <1>1, <1>2, <1>3 DEF Next

\* What the consumer knows of the rows it pushed does not depend on the queue.
LEMMA QueuedInductive ==
    ASSUME "redis" \notin IngestFaults
    PROVE  PipeInv /\ Consumer!QInv /\ [Next]_vars => Consumer!QInv'
<1> SUFFICES ASSUME PipeInv, Consumer!QInv, [Next]_vars PROVE Consumer!QInv'
  OBVIOUS
<1>1. CASE EngineStep \/ ProcessCrash
  <2>1. [Consumer!IngestNext]_(Consumer!ingestVars) /\ Consumer!IInv
    BY <1>1, ConsumerSteps DEF PipeInv
  <2> QED
    BY <2>1, ConsumerAssumption, Consumer!QueuedInductive
<1>2. CASE HandlerStep \/ UNCHANGED vars
  <2>1. UNCHANGED <<log, position, committed, pc, batchData, batchMsgs, queued>>
    BY <1>2 DEF HandlerStep, vars, engine
  <2> QED
    BY <2>1 DEF Consumer!QInv, Consumer!HandledInv, Consumer!Handled, Consumer!WellFormed,
                Consumer!CommittedWasQueued
<1> QED
  BY <1>1, <1>2 DEF Next

LEMMA QueuedInvariance ==
    ASSUME "redis" \notin IngestFaults PROVE Spec => []Consumer!QInv
<1>1. Init => Consumer!QInv
  BY DEF Init, Engine!IngestInit, Consumer!QInv, Consumer!HandledInv,
         Consumer!CommittedWasQueued
<1> QED
  BY <1>1, QueuedInductive, PipeInvariance, PTL DEF Spec

\* If the pipelines to Redis return no error, a message Kafka will not send again
\* is in the queue, in the handler's batch or in DuckDB, or else the handler
\* lost it with a trace: whatever fails in the handler, for every batch size of
\* the two and any number of rebalances and crashes.
THEOREM LossesLeaveATrace ==
    ASSUME "redis" \notin IngestFaults PROVE Spec => []LossIsTraced
<1>1. Init => TraceInv
  BY DEF Init, Engine!IngestInit, TraceInv
<1>2. Spec => []TraceInv
  BY <1>1, TraceInductive, PipeInvariance, PTL DEF Spec
<1>3. TraceInv /\ Consumer!QInv => LossIsTraced
  BY DEF TraceInv, Consumer!QInv, Consumer!CommittedWasQueued, Consumer!WellFormed, LossIsTraced
<1> QED
  BY <1>2, <1>3, QueuedInvariance, PTL

-----------------------------------------------------------------------------
(* The abstract specification: what every step keeps *)

\* What need not be accepted any more.
Kept == {o \in 1..MaxLog : Safe(o) \/ o <= committed}

\* The consumer with Kept for the rows it pushed: unlike them, Kept shrinks when
\* the process dies, but then the consumer falls back as well.
Live == INSTANCE IngestProofs WITH queued <- Kept

\* The batch of a group that is not rebalanced holds uncommitted messages, and
\* for the queue well-formed ones.
WellInv ==
    /\ rebalances = 0
    /\ \A i \in 1..Len(batchData) : log[batchData[i]].json
    /\ \A i \in 1..Len(batchMsgs) : committed < batchMsgs[i]

\* The handler has no more rows than it counted.
BoundInv == popped \in 0..MaxBatch /\ Len(batch[FeaturesTable]) <= popped

LogInv == PipeInv /\ WellInv /\ BoundInv /\ Live!QInv

LEMMA LiveAssumption ==
    /\ Messages \subseteq [key : FeatureKeys, json : BOOLEAN, high : BOOLEAN]
    /\ BatchSize \in Nat \ {0}
    /\ MaxLog \in Nat /\ MaxPushes \in Nat
    /\ MaxCrashes \in Nat /\ MaxRebalances \in Nat
    /\ IngestFaults \subseteq Live!IngestFaultKinds
  BY ConsumerAssumption DEF Live!IngestFaultKinds, Consumer!IngestFaultKinds

\* What is said of the consumer's variables alone is said of Live as well.
LEMMA LiveIInv == PipeInv => Live!IInv
<1> SUFFICES ASSUME PipeInv PROVE Live!IInv
  OBVIOUS
<1>1. Live!IngestTypeOK
  BY DEF PipeInv, Consumer!IInv, Consumer!IngestTypeOK, Live!IngestTypeOK, Kept,
     Consumer!Offsets, Live!Offsets, Consumer!IngestRows, Live!IngestRows
<1>2. Live!BatchInv /\ Live!FreshInv
  BY DEF PipeInv, Consumer!IInv, Consumer!BatchInv, Live!BatchInv, Consumer!FreshInv,
     Live!FreshInv
<1> QED
  BY <1>1, <1>2 DEF Live!IInv

LEMMA InitLog == Init => LogInv
<1> SUFFICES ASSUME Init PROVE LogInv
  OBVIOUS
<1> USE DEF Init, Engine!IngestInit, Handler!HandlerInit
<1>1. WellInv
  BY DEF WellInv
<1>2. BoundInv
  <2>1. MaxBatch \in Nat
    BY PipelineAssumption DEF Handler!WritesAssumption
  <2> QED
    BY <2>1 DEF BoundInv, Handler!EmptyBatch
<1>3. Live!QInv
  BY DEF Live!QInv, Live!HandledInv, Live!CommittedWasQueued
<1> QED
  BY <1>1, <1>2, <1>3, InitPipe DEF LogInv

LEMMA BoundInductive == PipeInv /\ BoundInv /\ [Next]_vars => BoundInv'
<1> SUFFICES ASSUME PipeInv, BoundInv, [Next]_vars PROVE BoundInv'
  OBVIOUS
<1> USE DEF BoundInv
<1>0. /\ MaxBatch \in Nat /\ popped \in Nat /\ Len(batch[FeaturesTable]) \in Nat
      /\ batch[FeaturesTable] \in Seq(QueueRows) /\ Handler!EmptyBatch[FeaturesTable] = <<>>
  BY PipelineAssumption, QueueFacts DEF Handler!WritesAssumption, Handler!EmptyBatch
<1>1. CASE EngineStep \/ UNCHANGED vars
  BY <1>1 DEF EngineStep, vars, handler
<1>2. CASE ProcessCrash
  BY <1>0, <1>2 DEF ProcessCrash, Handler!Crash
<1>3. CASE HandlerStep
  <2>1. Handler!HandlerNext
    BY <1>3 DEF HandlerStep
  <2>2. CASE Handler!Tick \/ Handler!HandlerCrashes
    BY <1>0, <2>2 DEF Handler!Tick, Handler!HandlerCrashes, Handler!Crash
  <2>3. CASE Handler!PopRow
    <3>1. /\ popped' = popped + 1 /\ popped < MaxBatch /\ writeQueue # <<>>
          /\ batch' = [batch EXCEPT ![Head(writeQueue).table] = Append(@, Head(writeQueue))]
      BY <2>3 DEF Handler!PopRow
    <3>2. Head(writeQueue) \in QueueRows /\ Head(writeQueue).table = FeaturesTable
      BY <3>1, QueueFacts
    <3>3. batch'[FeaturesTable] = Append(batch[FeaturesTable], Head(writeQueue))
      BY <3>1, <3>2 DEF PipeInv, HandlerInv
    <3>4. Len(batch'[FeaturesTable]) = Len(batch[FeaturesTable]) + 1
      BY <1>0, <3>2, <3>3, AppendElements
    <3> QED
      BY <1>0, <3>1, <3>4
  <2>4. CASE Handler!PopMalformed
    BY <1>0, <2>4 DEF Handler!PopMalformed
  <2>5. CASE Handler!PopFails \/ Handler!CollectEnds
    BY <2>5 DEF Handler!PopFails, Handler!CollectEnds
  <2>6. CASE Handler!WriteTable(FeaturesTable)
    <3>1. PICK k \in 0..Len(batch[FeaturesTable]), cause \in {"schema", "append", "reject"} :
            Handler!Settle(FeaturesTable, k, cause)
      BY <2>6, WriteSettles
    <3>2. popped' = popped /\ batch'[FeaturesTable] = <<>>
      BY <3>1 DEF Handler!Settle, PipeInv, HandlerInv
    <3> QED
      BY <1>0, <3>2
  <2> QED
    BY <2>1, <2>2, <2>3, <2>4, <2>5, <2>6 DEF Handler!HandlerNext, Handler!Collect
<1> QED
  BY <1>1, <1>2, <1>3 DEF Next


\* The consumer's state is that of numbers and sequences of offsets.
LEMMA ConsumerTypes ==
    ASSUME PipeInv
    PROVE  /\ MaxLog \in Nat /\ log \in Seq(Messages) /\ Len(log) \in Nat /\ Len(log) <= MaxLog
           /\ position \in 0..Len(log) /\ committed \in 0..Len(log)
           /\ batchData \in Seq(1..MaxLog) /\ batchMsgs \in Seq(1..MaxLog)
           /\ \A i \in 1..Len(batchData) : batchData[i] \in 1..Len(log)
           /\ \A i \in 1..Len(batchMsgs) : batchMsgs[i] \in 1..Len(log)
           /\ rebalances = 0 => committed <= position
           /\ rebalances = 0 => \A i \in 1..Len(batchData) : committed < batchData[i]
<1>1. /\ MaxLog \in Nat /\ log \in Seq(Messages) /\ Len(log) <= MaxLog
      /\ position \in 0..Len(log) /\ committed \in 0..Len(log)
      /\ batchData \in Seq(1..MaxLog) /\ batchMsgs \in Seq(1..MaxLog)
  BY ConsumerAssumption DEF PipeInv, Consumer!IInv, Consumer!IngestTypeOK, Consumer!Offsets
<1>2. Len(log) \in Nat
  BY <1>1
<1>3. \A i \in 1..Len(batchData) : batchData[i] \in 1..MaxLog
  BY <1>1
<1>4. \A i \in 1..Len(batchMsgs) : batchMsgs[i] \in 1..MaxLog
  BY <1>1
<1>5. /\ \A i \in 1..Len(batchData) : batchData[i] <= Len(log)
      /\ \A i \in 1..Len(batchMsgs) : batchMsgs[i] <= Len(log)
  BY DEF PipeInv, Consumer!IInv, Consumer!BatchInv
<1>6. rebalances = 0 => /\ committed <= position
                        /\ \A i \in 1..Len(batchData) : committed < batchData[i]
  BY DEF PipeInv, Consumer!IInv, Consumer!FreshInv
<1> QED
  BY <1>1, <1>2, <1>3, <1>4, <1>5, <1>6

\* An element of s with e appended is one of s or e.
LEMMA AppendedElements ==
    ASSUME NEW S, NEW s \in Seq(S), NEW e \in S
    PROVE  \A i \in 1..Len(Append(s, e)) :
             (i \in 1..Len(s) /\ Append(s, e)[i] = s[i]) \/ Append(s, e)[i] = e
<1> DEFINE a == Append(s, e)
<1>1. /\ Len(s) \in Nat /\ Len(a) = Len(s) + 1
      /\ \A i \in 1..Len(s) : a[i] = s[i]
      /\ a[Len(s) + 1] = e
      /\ \A i \in 1..(Len(s) + 1) : i = Len(s) + 1 \/ i \in 1..Len(s)
  BY AppendElements
<1> HIDE DEF a
<1>2. ASSUME NEW i \in 1..Len(a) PROVE (i \in 1..Len(s) /\ a[i] = s[i]) \/ a[i] = e
  BY <1>1
<1> QED
  BY <1>2 DEF a

LEMMA WellInductive ==
    ASSUME "rebalance" \notin IngestFaults
    PROVE  PipeInv /\ WellInv /\ [Next]_vars => WellInv'
<1> SUFFICES ASSUME PipeInv, WellInv, [Next]_vars PROVE WellInv'
  OBVIOUS
<1>0. ~Consumer!Rebalance
  BY DEF Consumer!Rebalance
<1>1. CASE Consumer!Fetch
  <2>0. PICK p \in Nat : p = position + 1
    BY ConsumerTypes
  <2>1. /\ batchMsgs' = Append(batchMsgs, p) /\ p \in 1..MaxLog /\ committed < p
        /\ batchData' = IF log[p].json THEN Append(batchData, p) ELSE batchData
        /\ UNCHANGED <<log, committed, rebalances>>
    BY <1>1, <2>0, ConsumerTypes DEF Consumer!Fetch, Consumer!restarts, WellInv
  <2>2. \A i \in 1..Len(batchMsgs') :
          (i \in 1..Len(batchMsgs) /\ batchMsgs'[i] = batchMsgs[i]) \/ batchMsgs'[i] = p
    BY <2>1, ConsumerTypes, AppendedElements
  <2>3. \A i \in 1..Len(batchMsgs') : committed' < batchMsgs'[i]
    BY <2>1, <2>2 DEF WellInv
  <2>4. \A i \in 1..Len(batchData') : log'[batchData'[i]].json
    <3>1. CASE log[p].json
      <4>1. batchData' = Append(batchData, p) /\ log' = log
        BY <2>1, <3>1
      <4>2. \A i \in 1..Len(batchData') :
              (i \in 1..Len(batchData) /\ batchData'[i] = batchData[i]) \/ batchData'[i] = p
        BY <2>1, <4>1, ConsumerTypes, AppendedElements
      <4> QED
        BY <3>1, <4>1, <4>2 DEF WellInv
    <3>2. CASE ~log[p].json
      <4>1. batchData' = batchData /\ log' = log
        BY <2>1, <3>2
      <4> QED
        BY <4>1 DEF WellInv
    <3> QED
      BY <3>1, <3>2
  <2> QED
    BY <2>1, <2>3, <2>4 DEF WellInv
<1>2. ASSUME NEW m \in Messages, Consumer!Produce(m) PROVE WellInv'
  <2>1. log' = Append(log, m) /\ UNCHANGED <<batchData, batchMsgs, committed, rebalances>>
    BY <1>2 DEF Consumer!Produce, Consumer!restarts
  <2>2. \A o \in 1..Len(log) : log'[o] = log[o]
    BY <2>1, ConsumerTypes
  <2> QED
    BY <2>1, <2>2, ConsumerTypes DEF WellInv
<1>3. CASE Consumer!Commit \/ ProcessCrash
  <2>1. batchData' = <<>> /\ batchMsgs' = <<>> /\ rebalances' = rebalances
    BY <1>3 DEF Consumer!Commit, Consumer!restarts, ProcessCrash, Engine!Restart
  <2> QED
    BY <2>1 DEF WellInv
<1>4. CASE HandlerStep \/ UNCHANGED vars
  BY <1>4 DEF HandlerStep, vars, engine, WellInv
<1>5. CASE Consumer!Timeout \/ Consumer!Alert \/ Consumer!SendRedis \/ Consumer!SendDuckdb
           \/ Consumer!CooldownEnds
  <2>1. UNCHANGED <<log, batchData, batchMsgs, committed, rebalances>>
    BY <1>5 DEF Consumer!Timeout, Consumer!Alert, Consumer!SendRedis, Consumer!SendDuckdb,
                Consumer!CooldownEnds, Consumer!restarts
  <2> QED
    BY <2>1 DEF WellInv
<1>6. EngineStep => Consumer!EngineNext
  BY EngineIsConsumer DEF EngineStep
<1> QED
  BY <1>0, <1>1, <1>2, <1>3, <1>4, <1>5, <1>6 DEF Next, Consumer!EngineNext, Consumer!Flush

\* While nothing fails, Kept only grows but by a crash.
LEMMA KeptGrows ==
    ASSUME PipeInv, UNCHANGED committed, \A o : Safe(o) => Safe(o)'
    PROVE  Kept \subseteq Kept'
  BY DEF Kept

\* What is committed is kept.
LEMMA CommittedIsKept == ASSUME PipeInv, [Next]_vars PROVE Live!CommittedWasQueued'
<1>1. MaxLog \in Nat /\ committed' \in Nat /\ committed' <= MaxLog
  <2>1. PipeInv'
    BY PipeInductive
  <2>2. committed' \in 0..Len(log') /\ Len(log') <= MaxLog /\ log' \in Seq(Messages)
    BY <2>1 DEF PipeInv, Consumer!IInv, Consumer!IngestTypeOK
  <2> QED
    BY <2>2, ConsumerAssumption
<1> QED
  BY <1>1 DEF Live!CommittedWasQueued, Kept

\* A batch that is pushed is kept.
LEMMA PushKeeps ==
    ASSUME PipeInv, EngineStep, Consumer!SendDuckdb, "redis" \notin IngestFaults
    PROVE  \A i \in 1..Len(batchData) : batchData[i] \in Kept'
<1>1. Consumer!IngestTypeOK
  BY DEF PipeInv, Consumer!IInv
<1>2. PICK s \in Seq(Consumer!Offsets) :
        /\ Consumer!PushRows(s)
        /\ \A i \in 1..Len(batchData) : \E j \in 1..Len(s) : s[j] = batchData[i]
  BY <1>1, ConsumerAssumption, Consumer!SendDuckdbPushes
<1>3. \A i \in 1..Len(s) : \E j \in 1..Len(writeQueue') : writeQueue'[j].data = s[i]
  BY <1>1, <1>2, ConsumerAssumption, Consumer!PushRowsAdds
<1>4. \A i \in 1..Len(batchData) : \E j \in 1..Len(writeQueue') : writeQueue'[j].data = batchData[i]
  BY <1>2, <1>3
<1>5. \A i \in 1..Len(batchData) : batchData[i] \in 1..MaxLog
  BY ConsumerTypes
<1> QED
  BY <1>4, <1>5 DEF Kept, Safe, Holds

\* A commit that succeeds moves the group to a later message of the batch.
LEMMA CommitAdvances ==
    ASSUME PipeInv, WellInv, Consumer!Commit
    PROVE  \/ committed' = committed
           \/ /\ committed < committed'
              /\ \E i \in 1..Len(batchMsgs) : committed' = batchMsgs[i]
<1>1. pc = "commit" /\ committed' \in {committed, Consumer!CommitOffset}
  BY DEF Consumer!Commit
<1>2. Consumer!IngestTypeOK /\ Consumer!BatchInv
  BY DEF PipeInv, Consumer!IInv
<1>3. \E i \in 1..Len(batchMsgs) : Consumer!CommitOffset = batchMsgs[i]
  BY <1>1, <1>2, ConsumerAssumption, Consumer!CommitOffsetIsHighest
<1> QED
  BY <1>1, <1>3 DEF WellInv

\* Everything the consumer went past is kept or in its batch, and between the
\* push and the commit its batch is kept.
LEMMA LiveInductive ==
    ASSUME "redis" \notin IngestFaults, WriteFaults = {}
    PROVE  PipeInv /\ WellInv /\ Live!QInv /\ [Next]_vars => Live!QInv'
<1> SUFFICES ASSUME PipeInv, WellInv, Live!QInv, [Next]_vars PROVE Live!QInv'
  OBVIOUS
<1>1. Live!IInv
  BY LiveIInv
<1>2. CASE EngineStep
  <2>1. Consumer!EngineNext /\ \A o : Safe(o) => Safe(o)'
    BY <1>2, EngineIsConsumer, EngineSafe DEF EngineStep
  <2>2. UNCHANGED <<batch, stored>>
    BY <1>2 DEF EngineStep, handler
  <2>3. UNCHANGED <<writeQueue, committed>> => Kept' = Kept
    BY <2>2 DEF Kept, Safe, Holds
  <2>4. ASSUME NEW m \in Messages, Consumer!Produce(m) PROVE Live!QInv'
    <3>1. UNCHANGED <<writeQueue, committed>>
      BY <2>4 DEF Consumer!Produce, Consumer!queueVars
    <3>2. Live!Produce(m)
      BY <2>3, <2>4, <3>1 DEF Consumer!Produce, Live!Produce, Consumer!queueVars,
         Live!queueVars, Consumer!restarts, Live!restarts
    <3> QED
      BY <1>1, <3>2, LiveAssumption, Live!ProduceQueued
  <2>5. CASE Consumer!Fetch
    <3>1. UNCHANGED <<writeQueue, committed>>
      BY <2>5 DEF Consumer!Fetch, Consumer!queueVars
    <3>2. Live!Fetch
      BY <2>3, <2>5, <3>1 DEF Consumer!Fetch, Live!Fetch, Consumer!AfterFetch,
         Live!AfterFetch, Consumer!queueVars, Live!queueVars, Consumer!restarts, Live!restarts
    <3> QED
      BY <1>1, <3>2, LiveAssumption, Live!FetchQueued
  <2>6. CASE Consumer!Commit
    <3>1. /\ pc = "commit" /\ pc' = "fetch" /\ batchMsgs' = <<>> /\ batchData' = <<>>
          /\ UNCHANGED <<log, position>>
      BY <2>6 DEF Consumer!Commit
    <3>2. \A o \in Kept : o \in Kept'
      <4>1. committed' = committed \/ (committed' \in 1..Len(log) /\ committed < committed')
        BY <2>6, CommitAdvances, ConsumerTypes
      <4> QED
        BY <2>1, <4>1, ConsumerTypes DEF Kept
    <3>3. \A o : Live!Handled(o) => Live!Handled(o)'
      BY <3>1, <3>2 DEF Live!QInv, Live!HandledInv, Live!Handled, Live!WellFormed
    <3>4. Live!CommittedWasQueued'
      BY CommittedIsKept
    <3> QED
      BY <3>1, <3>3, <3>4 DEF Live!QInv, Live!HandledInv
  <2>7. CASE Consumer!SendDuckdb
    <3>1. UNCHANGED <<log, position, committed, batchData, batchMsgs>>
      BY <2>7 DEF Consumer!SendDuckdb
    <3>2. Kept \subseteq Kept' /\ \A i \in 1..Len(batchData) : batchData[i] \in Kept'
      BY <1>2, <2>1, <2>7, <3>1, KeptGrows, PushKeeps
    <3> QED
      BY <3>1, <3>2, LiveAssumption, Live!QInvStays
  <2>8. CASE Consumer!Timeout \/ Consumer!Alert \/ Consumer!SendRedis \/ Consumer!CooldownEnds
             \/ Consumer!Rebalance
    <3>1. /\ UNCHANGED <<log, committed, batchData, batchMsgs>>
          /\ position' \in {position, committed} /\ (pc' # "commit" \/ pc' = pc)
      BY <2>8 DEF Consumer!Timeout, Consumer!Alert, Consumer!SendRedis,
                  Consumer!CooldownEnds, Consumer!Rebalance
    <3>2. Kept \subseteq Kept'
      BY <2>1, <3>1, KeptGrows
    <3> QED
      BY <3>1, <3>2, LiveAssumption, Live!QInvStays
  <2> QED
    BY <2>1, <2>4, <2>5, <2>6, <2>7, <2>8 DEF Consumer!EngineNext, Consumer!Flush
<1>3. CASE HandlerStep \/ UNCHANGED vars
  <2>1. UNCHANGED <<log, committed, batchData, batchMsgs, position, pc>>
    BY <1>3 DEF HandlerStep, vars, engine
  <2>2. \A o : Safe(o) => Safe(o)'
    <3>1. CASE HandlerStep
      BY <3>1, HandlerSafe
    <3>2. CASE UNCHANGED vars
      BY <3>2 DEF vars, handler, Safe, Holds
    <3> QED
      BY <1>3, <3>1, <3>2
  <2>3. Kept \subseteq Kept'
    BY <2>1, <2>2, KeptGrows
  <2> QED
    BY <2>1, <2>3, LiveAssumption, Live!QInvStays
<1>4. CASE ProcessCrash
  <2>1. /\ batchData' = <<>> /\ batchMsgs' = <<>> /\ pc' = "fetch" /\ position' = committed
        /\ UNCHANGED committed
    BY <1>4 DEF ProcessCrash, Engine!Restart
  <2>2. Live!CommittedWasQueued'
    BY CommittedIsKept
  <2>3. \A o \in 1..position' : Live!Handled(o)'
    BY <2>1, <2>2 DEF Live!CommittedWasQueued, Live!Handled
  <2> QED
    BY <2>1, <2>2, <2>3 DEF Live!QInv, Live!HandledInv
<1> QED
  BY <1>2, <1>3, <1>4 DEF Next


LEMMA LogInvariance ==
    ASSUME "redis" \notin IngestFaults, "rebalance" \notin IngestFaults, WriteFaults = {}
    PROVE  Spec => []LogInv
<1>1. LogInv /\ [Next]_vars => LogInv'
  BY PipeInductive, WellInductive, BoundInductive, LiveInductive DEF LogInv
<1> QED
  BY <1>1, InitLog, PTL DEF Spec

-----------------------------------------------------------------------------
(* The abstract specification: what every step is *)

\* A step that leaves the log, the committed offset and the rows under way and
\* stored alone is none of the abstract log's.
LEMMA RowsApart ==
    ASSUME UNCHANGED <<log, committed>>,
           \A o : Holds(stored[FeaturesTable], o)' <=> Holds(stored[FeaturesTable], o),
           \A o : (Holds(writeQueue, o) \/ Holds(batch[FeaturesTable], o))' <=>
                  (Holds(writeQueue, o) \/ Holds(batch[FeaturesTable], o))
    PROVE  UNCHANGED Promise!lvars
<1>1. Arrived' = Arrived
  BY DEF Arrived
<1>2. Owed' = Owed
  BY <1>1 DEF Owed, Arrived
<1>3. Written' = Written /\ Wanted' = Wanted
  BY DEF Written, Wanted
<1> QED
  BY <1>1, <1>2, <1>3 DEF Promise!lvars


\* A message is written, wanted if it is well formed.
LEMMA ProduceWrites ==
    ASSUME PipeInv, EngineStep, NEW m \in Messages, Consumer!Produce(m) PROVE Promise!Write
<1>1. /\ Len(log) < MaxLog /\ log' = Append(log, m)
      /\ UNCHANGED <<committed, writeQueue, batch, stored>>
  BY DEF EngineStep, handler, Consumer!Produce, Consumer!queueVars
<1>2. /\ Len(log) \in Nat /\ Len(log') = Len(log) + 1
      /\ \A o \in 1..Len(log) : log'[o] = log[o]
      /\ \A o \in 1..Len(log') : o = Len(log) + 1 \/ o \in 1..Len(log)
  BY <1>1, ConsumerTypes, AppendElements
<1>3. Written < MaxLog /\ Written' = Written + 1
  BY <1>1, <1>2 DEF Written
<1>4. Wanted' = Wanted \/ Wanted' = Wanted \cup {Written'}
  <2>1. CASE log'[Len(log')].json
    BY <1>2, <2>1 DEF Wanted, Written
  <2>2. CASE ~log'[Len(log')].json
    BY <1>2, <2>2 DEF Wanted, Written
  <2> QED
    BY <2>1, <2>2
<1>5. UNCHANGED <<committed, Owed, Arrived>>
  BY <1>1 DEF Owed, Arrived, Holds
<1> QED
  BY <1>3, <1>4, <1>5 DEF Promise!Write

\* A push accepts the messages of the batch, or some of them twice.
LEMMA PushAccepts ==
    ASSUME PipeInv, WellInv, EngineStep, Consumer!SendDuckdb
    PROVE  \E S \in SUBSET (1..MaxLog) : Promise!Accept(S)
<1>1. Consumer!IngestTypeOK /\ UNCHANGED <<log, committed, batch, stored>>
  BY DEF PipeInv, Consumer!IInv, EngineStep, handler, Consumer!SendDuckdb
<1>2. PICK s \in Seq(Consumer!Offsets) :
        /\ Consumer!PushRows(s)
        /\ \A j \in 1..Len(s) : \E i \in 1..Len(batchData) : s[j] = batchData[i]
  BY <1>1, ConsumerAssumption, Consumer!SendDuckdbPushes
<1> DEFINE S == {s[j] : j \in 1..Len(s)}
<1>3. /\ \A i \in 1..Len(writeQueue) :
           i \in 1..Len(writeQueue') /\ writeQueue'[i] = writeQueue[i]
      /\ \A j \in 1..Len(s) : \E i \in 1..Len(writeQueue') : writeQueue'[i].data = s[j]
  BY <1>1, <1>2, ConsumerAssumption, Consumer!PushRowsAdds
<1>4. /\ writeQueue' \in Seq(QueueRows)
      /\ \A i \in (Len(writeQueue) + 1)..Len(writeQueue') :
            \E j \in 1..Len(s) : writeQueue'[i].data = s[j]
  BY <1>1, <1>2, ConsumerAssumption, Consumer!PushRowsEffect DEF QueueRows
<1>5. \A i \in 1..Len(writeQueue') :
         i \in 1..Len(writeQueue) \/ i \in (Len(writeQueue) + 1)..Len(writeQueue')
  BY <1>4, QueueFacts
<1>6. \A o : Holds(writeQueue', o) <=> Holds(writeQueue, o) \/ o \in S
  <2>1. ASSUME NEW i \in 1..Len(writeQueue')
        PROVE  Holds(writeQueue, writeQueue'[i].data) \/ writeQueue'[i].data \in S
    <3>1. CASE i \in 1..Len(writeQueue)
      BY <1>3, <3>1 DEF Holds
    <3>2. CASE i \in (Len(writeQueue) + 1)..Len(writeQueue')
      BY <1>4, <3>2
    <3> QED
      BY <1>5, <3>1, <3>2
  <2>2. \A o : Holds(writeQueue', o) => Holds(writeQueue, o) \/ o \in S
    BY <2>1 DEF Holds
  <2>3. \A o : Holds(writeQueue, o) \/ o \in S => Holds(writeQueue', o)
    BY <1>3 DEF Holds
  <2> QED
    BY <2>2, <2>3
<1>7. \A o \in S : o \in 1..MaxLog /\ o \in Wanted /\ committed < o
  <2> SUFFICES ASSUME NEW j \in 1..Len(s)
               PROVE  s[j] \in 1..MaxLog /\ s[j] \in Wanted /\ committed < s[j]
    OBVIOUS
  <2>1. PICK i \in 1..Len(batchData) : s[j] = batchData[i]
    BY <1>2
  <2>2. batchData[i] \in 1..Len(log) /\ log[batchData[i]].json /\ committed < batchData[i]
    BY ConsumerTypes DEF WellInv
  <2>3. batchData[i] \in 1..MaxLog
    BY <2>2, ConsumerTypes
  <2> QED
    BY <2>1, <2>2, <2>3 DEF Wanted
<1> HIDE DEF S
<1>8. Arrived' = Arrived /\ Written' = Written /\ Wanted' = Wanted
  BY <1>1 DEF Arrived, Written, Wanted, Holds
<1>9. Owed' = Owed \cup (S \ Arrived)
  <2>1. \A o : Holds(batch[FeaturesTable], o)' <=> Holds(batch[FeaturesTable], o)
    BY <1>1 DEF Holds
  <2>2. \A o : (Holds(writeQueue, o))' <=> Holds(writeQueue, o) \/ o \in S
    BY <1>6 DEF Holds
  <2> HIDE DEF Holds
  <2>3. \A o \in 1..MaxLog : o \in Owed' <=> o \in Owed \/ (o \in S /\ o \notin Arrived)
    BY <1>8, <2>1, <2>2 DEF Owed
  <2>4. Owed \subseteq 1..MaxLog /\ Owed' \subseteq 1..MaxLog /\ S \subseteq 1..MaxLog
    BY <1>7 DEF Owed
  <2> QED
    BY <2>3, <2>4
<1> QED
  BY <1>1, <1>7, <1>8, <1>9 DEF Promise!Accept

\* A commit that succeeds commits what is accepted.
LEMMA CommitCommits ==
    ASSUME LogInv, EngineStep, Consumer!Commit
    PROVE  (\E n \in 1..MaxLog : Promise!Commit(n)) \/ UNCHANGED Promise!lvars
<1>1. /\ pc = "commit" /\ UNCHANGED <<log, writeQueue, batch, stored>>
      /\ PipeInv /\ WellInv /\ Live!QInv
  BY DEF EngineStep, handler, Consumer!Commit, Consumer!queueVars, LogInv
<1>2. UNCHANGED <<Written, Wanted, Owed, Arrived>>
  BY <1>1 DEF Written, Wanted, Owed, Arrived, Holds
<1>3. CASE committed' = committed
  BY <1>2, <1>3 DEF Promise!lvars
<1>4. CASE committed' # committed
  <2>1. PICK i \in 1..Len(batchMsgs) : committed' = batchMsgs[i]
    BY <1>1, <1>4, CommitAdvances
  <2>2. committed < committed' /\ committed' \in 1..Len(log) /\ committed' \in 1..MaxLog
    BY <1>1, <1>4, <2>1, CommitAdvances, ConsumerTypes
  <2>3. ASSUME NEW o \in Wanted, committed < o, o <= committed' PROVE o \in Owed \cup Arrived
    <3>1. o \in 1..batchMsgs[i] /\ log[o].json /\ o \in 1..MaxLog
      BY <1>1, <2>1, <2>2, <2>3, ConsumerTypes DEF Wanted
    <3>2. o \in Kept
      BY <1>1, <3>1 DEF Live!QInv, Live!HandledInv, Live!Handled, Live!WellFormed
    <3>3. Safe(o)
      BY <1>1, <2>3, <3>1, <3>2, ConsumerTypes DEF Kept
    <3> QED
      BY <3>1, <3>3 DEF Safe, Owed, Arrived
  <2>4. committed' <= Written
    BY <1>1, <2>2, ConsumerTypes DEF Written
  <2>5. Promise!Commit(committed')
    BY <1>2, <2>2, <2>3, <2>4 DEF Promise!Commit
  <2> QED
    BY <2>2, <2>5
<1> QED
  BY <1>3, <1>4

\* Nothing else the engine does is seen.
LEMMA EngineRefines == LogInv /\ EngineStep => [Promise!Next]_(Promise!lvars)
<1> SUFFICES ASSUME LogInv, EngineStep PROVE [Promise!Next]_(Promise!lvars)
  OBVIOUS
<1>1. PipeInv /\ WellInv /\ Consumer!EngineNext
  BY EngineIsConsumer DEF LogInv, EngineStep
<1>2. CASE \E m \in Messages : Consumer!Produce(m)
  BY <1>1, <1>2, ProduceWrites DEF Promise!Next
<1>3. CASE Consumer!SendDuckdb
  BY <1>1, <1>3, PushAccepts DEF Promise!Next
<1>4. CASE Consumer!Commit
  BY <1>4, CommitCommits DEF Promise!Next
<1>5. CASE Consumer!Fetch \/ Consumer!Timeout \/ Consumer!Alert \/ Consumer!SendRedis
           \/ Consumer!CooldownEnds \/ Consumer!Rebalance
  <2>1. UNCHANGED <<log, committed, writeQueue, batch, stored>>
    BY <1>5 DEF EngineStep, handler, Consumer!Fetch, Consumer!Timeout, Consumer!Alert,
       Consumer!SendRedis, Consumer!CooldownEnds, Consumer!Rebalance, Consumer!queueVars
  <2>2. UNCHANGED Promise!lvars
    BY <2>1, RowsApart DEF Holds
  <2> QED
    BY <2>2
<1> QED
  BY <1>1, <1>2, <1>3, <1>4, <1>5 DEF Consumer!EngineNext, Consumer!Flush


\* The handler stores the rows of its batch; popping them is not seen.
LEMMA HandlerRefines ==
    ASSUME WriteFaults = {}, LogInv, HandlerStep
    PROVE  [Promise!Next]_(Promise!lvars)
<1> DEFINE b == batch[FeaturesTable]
           s == stored[FeaturesTable]
<1>1. /\ PipeInv /\ Handler!HandlerNext /\ UNCHANGED <<log, committed>>
      /\ UNCHANGED <<Written, Wanted>>
  BY DEF LogInv, HandlerStep, engine, Written, Wanted
<1>2. CASE Handler!Tick
  <2>1. UNCHANGED <<writeQueue, stored>> /\ b = <<>> /\ batch'[FeaturesTable] = <<>>
    BY <1>1, <1>2 DEF Handler!Tick, Handler!EmptyBatch, PipeInv, HandlerInv
  <2>2. UNCHANGED Promise!lvars
    BY <1>1, <2>1, RowsApart DEF Holds
  <2> QED
    BY <2>2
<1>3. CASE Handler!PopRow
  <2> DEFINE h == Head(writeQueue)
  <2>1. /\ writeQueue # <<>> /\ writeQueue' = Tail(writeQueue) /\ stored' = stored
        /\ batch' = [batch EXCEPT ![h.table] = Append(@, h)]
    BY <1>3 DEF Handler!PopRow
  <2>2. h \in QueueRows /\ h.table = FeaturesTable
    BY <1>1, <2>1, QueueFacts
  <2>3. batch'[FeaturesTable] = Append(b, h)
    BY <1>1, <2>1, <2>2 DEF PipeInv, HandlerInv
  <2>4. \A o : Holds(writeQueue, o) <=> o = h.data \/ Holds(writeQueue', o)
    BY <1>1, <2>1, QueueFacts, HoldsTail
  <2>5. \A o : Holds(batch'[FeaturesTable], o) <=> Holds(b, o) \/ o = h.data
    BY <1>1, <2>2, <2>3, QueueFacts, HoldsAppend
  <2> HIDE DEF h
  <2>6. UNCHANGED Promise!lvars
    BY <1>1, <2>1, <2>4, <2>5, RowsApart DEF Holds
  <2> QED
    BY <2>6
<1>4. CASE Handler!CollectEnds
  <2>1. UNCHANGED <<writeQueue, batch, stored>>
    BY <1>4 DEF Handler!CollectEnds
  <2>2. UNCHANGED Promise!lvars
    BY <1>1, <2>1, RowsApart DEF Holds
  <2> QED
    BY <2>2
<1>5. CASE Handler!WriteTable(FeaturesTable)
  <2> DEFINE S == {o \in Owed : Holds(b, o)}
  <2>1. PICK cause \in {"schema", "append", "reject"} :
          Handler!Settle(FeaturesTable, Len(b), cause)
    BY <1>1, <1>5, WriteSettles
  <2>2. /\ writeQueue' = writeQueue /\ batch'[FeaturesTable] = <<>>
        /\ stored'[FeaturesTable] = s \o SubSeq(b, 1, Len(b))
    BY <1>1, <2>1 DEF Handler!Settle, PipeInv, HandlerInv
  <2>3. Len(b) \in 0..Len(b)
    BY <1>1, QueueFacts
  <2>4. \A o : Holds(stored'[FeaturesTable], o) <=> Holds(s, o) \/ Holds(b, o)
    BY <1>1, <2>2, <2>3, QueueFacts, HoldsConcat
  <2>5. \A o : ~Holds(batch'[FeaturesTable], o)
    BY <2>2 DEF Holds
  <2>6. \A o : /\ Holds(stored[FeaturesTable], o)' <=> Holds(s, o) \/ Holds(b, o)
               /\ ~Holds(batch[FeaturesTable], o)'
               /\ Holds(writeQueue, o)' <=> Holds(writeQueue, o)
    BY <2>2, <2>4, <2>5 DEF Holds
  <2> HIDE DEF Holds
  <2>7. Arrived' = Arrived \cup S
    BY <2>6 DEF Arrived, Owed
  <2>8. Owed' = Owed \ S
    BY <2>6 DEF Arrived, Owed
  <2>9. S \in SUBSET (1..MaxLog) /\ S \subseteq Owed
    BY DEF Owed
  <2> HIDE DEF S
  <2>10. Promise!Store(S)
    BY <1>1, <2>7, <2>8, <2>9 DEF Promise!Store
  <2> QED
    BY <2>9, <2>10 DEF Promise!Next
<1>6. ~Handler!PopMalformed /\ ~Handler!PopFails /\ ~Handler!HandlerCrashes
  BY DEF Handler!PopMalformed, Handler!PopFails, Handler!HandlerCrashes
<1> QED
  BY <1>1, <1>2, <1>3, <1>4, <1>5, <1>6 DEF Handler!HandlerNext, Handler!Collect

\* The offsets of a batch are no more than its rows.
LEMMA FewOffsets ==
    ASSUME NEW b, Len(b) \in Nat, NEW S, \A o \in S : Holds(b, o)
    PROVE  IsFiniteSet(S) /\ Cardinality(S) \in Nat /\ Cardinality(S) <= Len(b)
<1> DEFINE D == {b[i].data : i \in 1..Len(b)}
           f == [i \in 1..Len(b) |-> b[i].data]
<1>1. IsFiniteSet(1..Len(b)) /\ Cardinality(1..Len(b)) = Len(b)
  <2>1. PICK n \in Nat : n = Len(b)
    OBVIOUS
  <2>2. /\ IsFiniteSet(1..n)
        /\ Cardinality(1..n) = IF 1 > n THEN 0 ELSE n - 1 + 1
    BY 1 \in Int, n \in Int, FS_Interval, Zenon
  <2> QED
    BY <2>1, <2>2
<1>2. f \in Surjection(1..Len(b), D)
  <2>1. f \in [1..Len(b) -> D]
    OBVIOUS
  <2>2. \A d \in D : \E i \in 1..Len(b) : f[i] = d
    OBVIOUS
  <2> HIDE DEF f, D
  <2> QED
    BY <2>1, <2>2 DEF Surjection
<1>3. IsFiniteSet(D) /\ Cardinality(D) <= Len(b)
  <2> HIDE DEF f, D
  <2> QED
    BY <1>1, <1>2, FS_Surjection
<1>4. S \in SUBSET D
  BY DEF Holds
<1>5. IsFiniteSet(S) /\ Cardinality(S) <= Cardinality(D)
  <2> HIDE DEF D
  <2> QED
    BY <1>3, <1>4, FS_Subset
<1> QED
  <2> HIDE DEF D
  <2>1. Cardinality(S) \in Nat /\ Cardinality(D) \in Nat
    BY <1>3, <1>5, FS_CardinalityType
  <2> QED
    BY <1>3, <1>5, <2>1

\* DurableLog counts with its own instance of FiniteSets.
LEMMA SameCount == \A S : Promise!Cardinality(S) = Cardinality(S)
  BY Zenon DEF Promise!Cardinality, Cardinality

\* A crash takes what the handler had popped and no one else has.
LEMMA CrashRefines ==
    ASSUME LogInv, ProcessCrash
    PROVE  [Promise!Next]_(Promise!lvars)
<1> DEFINE b == batch[FeaturesTable]
           S == {o \in Owed : ~Holds(writeQueue, o)}
<1>1. /\ UNCHANGED <<log, committed, writeQueue, stored>> /\ batch' = Handler!EmptyBatch
      /\ PipeInv /\ popped \in 0..MaxBatch /\ Len(b) <= popped
  BY DEF LogInv, BoundInv, ProcessCrash, Engine!Restart, Engine!queueVars, Handler!Crash
<1>2. UNCHANGED <<Written, Wanted, Arrived>>
  BY <1>1 DEF Written, Wanted, Arrived, Holds
<1>3. batch'[FeaturesTable] = <<>>
  BY <1>1 DEF Handler!EmptyBatch
<1>4. \A o : ~Holds(batch[FeaturesTable], o)' /\ (Holds(writeQueue, o)' <=> Holds(writeQueue, o))
  BY <1>1, <1>3 DEF Holds
<1>5. Owed' = Owed \ S
  <2> HIDE DEF Holds
  <2> QED
    BY <1>2, <1>4 DEF Owed
<1>6. S \in SUBSET (1..MaxLog) /\ S \subseteq Owed /\ \A o \in S : Holds(b, o)
  BY DEF Owed
<1> HIDE DEF S
<1>7. Cardinality(S) <= MaxBatch
  <2>1. Len(b) \in Nat /\ MaxBatch \in Nat
    BY <1>1, QueueFacts, PipelineAssumption DEF Handler!WritesAssumption
  <2>2. Cardinality(S) \in Nat /\ Cardinality(S) <= Len(b)
    BY <1>6, <2>1, FewOffsets
  <2>3. popped \in 0..MaxBatch /\ Len(b) <= popped
    BY <1>1
  <2> HIDE DEF b
  <2> QED
    BY <2>1, <2>2, <2>3
<1>8. Promise!Lose(S)
  BY <1>1, <1>2, <1>5, <1>6, <1>7, SameCount DEF Promise!Lose
<1> QED
  BY <1>6, <1>8 DEF Promise!Next

\* If the pipelines, LPop and DuckDB succeed and the group is not rebalanced,
\* consumer and handler implement the log: for every batch size of either and
\* any number of crashes and failed or repeated calls, nothing well formed is
\* committed before it is accepted, nothing is accepted again once it is
\* committed, nothing accepted is lost but by a crash, and then no more than a
\* batch (StartDataProcessingEngine and processWrites).
THEOREM ImplementsLog ==
    ASSUME "redis" \notin IngestFaults, "rebalance" \notin IngestFaults, WriteFaults = {}
    PROVE  Spec => LogSpec
<1>1. Init => Promise!Init
  BY DEF Init, Engine!IngestInit, Handler!HandlerInit, Handler!EmptyBatch, Promise!Init,
     Written, Wanted, Owed, Arrived, Holds
<1>2. LogInv /\ [Next]_vars => [Promise!Next]_(Promise!lvars)
  <2> SUFFICES ASSUME LogInv, [Next]_vars PROVE [Promise!Next]_(Promise!lvars)
    OBVIOUS
  <2>1. CASE EngineStep
    BY <2>1, EngineRefines
  <2>2. CASE HandlerStep
    BY <2>2, HandlerRefines
  <2>3. CASE ProcessCrash
    BY <2>3, CrashRefines
  <2>4. CASE UNCHANGED vars
    <3>1. UNCHANGED <<log, committed, writeQueue, batch, stored>>
      BY <2>4 DEF vars, engine, handler
    <3>2. UNCHANGED Promise!lvars
      BY <3>1, RowsApart DEF Holds
    <3> QED
      BY <3>2
  <2> QED
    BY <2>1, <2>2, <2>3, <2>4 DEF Next
<1> QED
  BY <1>1, <1>2, LogInvariance, PTL DEF Spec, LogSpec, Promise!SafeSpec

-----------------------------------------------------------------------------
(* How much is lost *)

\* Nothing is missing but what was missing before and what a crash took with
\* the handler's batch.
LEMMA MissingSteps ==
    ASSUME WriteFaults = {}, PipeInv, [Next]_vars
    PROVE  \/ Missing' \subseteq Missing /\ crashes' = crashes
           \/ /\ crashes' = crashes + 1
              /\ Missing' \subseteq Missing \cup {o \in queued : Holds(batch[FeaturesTable], o)}
<1>1. CASE EngineStep
  BY <1>1, EngineSafe DEF Missing
<1>2. CASE HandlerStep
  <2>1. UNCHANGED <<queued, crashes>> /\ \A o : Safe(o) => Safe(o)'
    BY <1>2, HandlerSafe DEF HandlerStep, engine
  <2> QED
    BY <2>1 DEF Missing
<1>3. CASE ProcessCrash
  <2>1. UNCHANGED <<writeQueue, stored, queued>> /\ crashes' = crashes + 1
    BY <1>3 DEF ProcessCrash, Engine!Restart, Engine!queueVars, Handler!Crash
  <2>2. \A o : Safe(o) => Safe(o)' \/ Holds(batch[FeaturesTable], o)
    BY <2>1 DEF Safe, Holds
  <2> QED
    BY <2>1, <2>2 DEF Missing
<1>4. CASE UNCHANGED vars
  <2>1. UNCHANGED <<writeQueue, batch, stored, queued, crashes>>
    BY <1>4 DEF vars, engine, handler
  <2> QED
    BY <2>1 DEF Missing, Safe, Holds
<1> QED
  BY <1>1, <1>2, <1>3, <1>4 DEF Next

LEMMA CountInductive ==
    ASSUME WriteFaults = {}, PipeInv, BoundInv, CountInv, [Next]_vars
    PROVE  CountInv'
<1> DEFINE b == batch[FeaturesTable]
           T == {o \in queued : Holds(b, o)}
<1>1. /\ IsFiniteSet(Missing) /\ Cardinality(Missing) <= crashes * MaxBatch
      /\ Cardinality(Missing) \in Nat /\ crashes \in Nat /\ MaxBatch \in Nat
  BY QueueFacts, PipelineAssumption, FS_CardinalityType DEF CountInv, Handler!WritesAssumption
<1>2. CASE Missing' \subseteq Missing /\ crashes' = crashes
  <2>1. Missing' \in SUBSET Missing
    BY <1>2
  <2>2. IsFiniteSet(Missing') /\ Cardinality(Missing') <= Cardinality(Missing)
    BY <1>1, <2>1, FS_Subset
  <2>3. Cardinality(Missing') \in Nat
    BY <2>2, FS_CardinalityType
  <2>4. crashes * MaxBatch \in Nat
    BY <1>1
  <2>5. Cardinality(Missing') <= crashes * MaxBatch
    BY <1>1, <2>2, <2>3, <2>4
  <2> QED
    BY <1>2, <2>2, <2>5 DEF CountInv
<1>3. CASE crashes' = crashes + 1 /\ Missing' \subseteq Missing \cup T
  <2>1. IsFiniteSet(T) /\ Cardinality(T) \in Nat /\ Cardinality(T) <= MaxBatch
    <3>1. Len(b) \in Nat /\ popped \in 0..MaxBatch /\ Len(b) <= popped
      BY QueueFacts DEF BoundInv
    <3>2. \A o \in T : Holds(b, o)
      OBVIOUS
    <3> HIDE DEF T, b
    <3>3. IsFiniteSet(T) /\ Cardinality(T) \in Nat /\ Cardinality(T) <= Len(b)
      BY <3>1, <3>2, FewOffsets
    <3> QED
      BY <1>1, <3>1, <3>3
  <2> HIDE DEF T, b
  <2> DEFINE U == Missing \cup T
  <2>2. /\ IsFiniteSet(U)
        /\ Cardinality(U) = Cardinality(Missing) + Cardinality(T) - Cardinality(Missing \cap T)
    BY <1>1, <2>1, FS_Union
  <2>3. Cardinality(Missing \cap T) \in Nat
    <3>1. Missing \cap T \in SUBSET T
      OBVIOUS
    <3>2. IsFiniteSet(Missing \cap T)
      BY <2>1, <3>1, FS_Subset
    <3> QED
      BY <3>2, FS_CardinalityType
  <2>4. Missing' \in SUBSET U
    BY <1>3
  <2> HIDE DEF U
  <2>5. IsFiniteSet(Missing') /\ Cardinality(Missing') <= Cardinality(U)
    BY <2>2, <2>4, FS_Subset
  <2>6. Cardinality(Missing') \in Nat /\ Cardinality(U) \in Nat
    BY <2>2, <2>5, FS_CardinalityType
  <2>7. (crashes + 1) * MaxBatch = crashes * MaxBatch + MaxBatch /\ crashes * MaxBatch \in Nat
    BY <1>1
  <2>8. Cardinality(Missing') <= (crashes + 1) * MaxBatch
    BY <1>1, <2>1, <2>2, <2>3, <2>5, <2>6, <2>7
  <2> QED
    BY <1>3, <2>5, <2>8 DEF CountInv
<1> QED
  BY <1>2, <1>3, MissingSteps

\* If the pipelines, LPop and DuckDB succeed, the messages that Kafka will not
\* send again and that are neither under way nor in DuckDB are at most MaxBatch
\* for every time the process died, for every batch size of the consumer and
\* any number of messages, repeated pipelines, failed commits and rebalances.
THEOREM LossesAreBounded ==
    ASSUME "redis" \notin IngestFaults, WriteFaults = {}
    PROVE  Spec => []LossIsBounded
<1>1. Init => BoundInv /\ CountInv
  <2> SUFFICES ASSUME Init PROVE BoundInv /\ CountInv
    OBVIOUS
  <2>1. MaxBatch \in Nat
    BY PipelineAssumption DEF Handler!WritesAssumption
  <2>2. BoundInv
    BY <2>1 DEF Init, BoundInv, Handler!HandlerInit, Handler!EmptyBatch
  <2>3. Missing = {} /\ crashes * MaxBatch = 0
    BY <2>1 DEF Init, Engine!IngestInit, Missing
  <2> QED
    BY <2>2, <2>3, FS_EmptySet DEF CountInv
<1>2. Spec => []BoundInv
  BY <1>1, BoundInductive, PipeInvariance, PTL DEF Spec
<1>3. Spec => []CountInv
  BY <1>1, <1>2, CountInductive, PipeInvariance, PTL DEF Spec
<1>4. PipeInv /\ CountInv /\ Consumer!QInv => LossIsBounded
  <2> SUFFICES ASSUME PipeInv, CountInv, Consumer!QInv PROVE LossIsBounded
    OBVIOUS
  <2>1. LostForGood \in SUBSET Missing
    BY DEF Consumer!QInv, Consumer!CommittedWasQueued, Consumer!WellFormed, LostForGood, Missing
  <2>2. IsFiniteSet(LostForGood) /\ Cardinality(LostForGood) <= Cardinality(Missing)
    BY <2>1, FS_Subset DEF CountInv
  <2>3. Cardinality(LostForGood) \in Nat /\ Cardinality(Missing) \in Nat
    BY <2>2, FS_CardinalityType DEF CountInv
  <2>4. crashes * MaxBatch \in Nat
    BY QueueFacts, PipelineAssumption DEF Handler!WritesAssumption
  <2> QED
    BY <2>2, <2>3, <2>4 DEF CountInv, LossIsBounded
<1> QED
  BY <1>3, <1>4, QueuedInvariance, PipeInvariance, PTL
=============================================================================
