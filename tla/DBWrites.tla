------------------------------ MODULE DBWrites ------------------------------
(***************************************************************************)
(* The write path of the DB handler (Services/DB_Handler_Service.go): the  *)
(* services push rows on the Redis list duckdb_write_queue; every tick of  *)
(* processWrites pops up to MaxBatch of them, groups them by table and     *)
(* gives each table its share through one DuckDB appender.                 *)
(*                                                                         *)
(* A row is the table it is for, what is in it, and the number of its push *)
(* (n), a label that lets the properties tell two pushes apart.  dropped   *)
(* is a history variable: the code only logs what it loses.                *)
(***************************************************************************)
EXTENDS Integers, Sequences

CONSTANTS
    Tables,       \* the tables rows are pushed for
    Data,         \* what rows can hold
    BadData,      \* what AppendRow refuses (a value of the wrong type)
    MaxBatch,     \* MaxBatchSize (1000 in the code)
    MaxRows,      \* bound on the number of pushes
    WriteFaults   \* the failures that may happen, see WriteFaultKinds

\* pop      LPop returns an error, applied by Redis or not
\* decode   the payload is not a WriteRequest
\* schema   the query for a table's columns fails
\* append   no connection, no appender, or a failed Flush
\* crash    the handler's process dies and is started again
WriteFaultKinds == {"pop", "decode", "schema", "append", "crash"}

ASSUME WritesAssumption ==
    /\ BadData \subseteq Data
    /\ MaxBatch \in Nat \ {0}
    /\ MaxRows \in Nat
    /\ WriteFaults \subseteq WriteFaultKinds

VARIABLES
    writeQueue,   \* the Redis list duckdb_write_queue
    pushed,       \* number of rows pushed
    step,         \* what handleWriteBatch is doing
    popped,       \* its loop counter i
    batch,        \* requestsByTable: the rows popped, by table
    schemaCache,  \* the tables whose columns are cached
    stored,       \* the rows of each table in DuckDB
    dropped       \* the rows lost and why

handlerVars == <<step, popped, batch, schemaCache, stored, dropped>>
writesVars  == <<writeQueue, pushed, handlerVars>>

Rows == [n : 1..MaxRows, table : Tables, data : Data]
RowsOf(t) == {r \in Rows : r.table = t}
Causes == WriteFaultKinds \cup {"reject"}
EmptyBatch == [t \in Tables |-> <<>>]
Elems(s) == {s[i] : i \in 1..Len(s)}

WritesTypeOK ==
    /\ writeQueue \in Seq(Rows)
    /\ pushed \in 0..MaxRows
    /\ step \in {"wait", "collect", "append"}
    /\ popped \in 0..MaxBatch
    /\ batch \in [Tables -> Seq(Rows)]
    /\ schemaCache \subseteq Tables
    /\ stored \in [Tables -> Seq(Rows)]
    /\ dropped \subseteq [row : Rows, by : Causes]

HandlerInit == /\ step = "wait"
               /\ popped = 0
               /\ batch = EmptyBatch
               /\ schemaCache = {}
               /\ stored = EmptyBatch
               /\ dropped = {}

WritesInit == writeQueue = <<>> /\ pushed = 0 /\ HandlerInit

-----------------------------------------------------------------------------
(* The producers *)

\* A service pushes a row (SendBatch_Duckdb_Queue, logModelPrediction).
Push(t, d) ==
    /\ pushed < MaxRows
    /\ pushed' = pushed + 1
    /\ writeQueue' = Append(writeQueue, [n |-> pushed', table |-> t, data |-> d])
    /\ UNCHANGED handlerVars

-----------------------------------------------------------------------------
(* handleWriteBatch: collect *)

\* The ticker fires: a new, empty list of requests.
Tick ==
    /\ step = "wait"
    /\ step' = "collect"
    /\ popped' = 0
    /\ batch' = EmptyBatch
    /\ UNCHANGED <<writeQueue, pushed, schemaCache, stored, dropped>>

\* Mutant: a row is put in front of its table's group.
PopIntoFront ==
    /\ step = "collect"
    /\ popped < MaxBatch
    /\ writeQueue # <<>>
    /\ popped' = popped + 1
    /\ batch' = [batch EXCEPT ![Head(writeQueue).table] = <<Head(writeQueue)>> \o @]
    /\ writeQueue' = Tail(writeQueue)
    /\ UNCHANGED <<pushed, step, schemaCache, stored, dropped>>

\* Mutant: the loop pops until the queue is empty.
PopRowAlways ==
    /\ step = "collect"
    /\ writeQueue # <<>>
    /\ popped' = popped + 1
    /\ batch' = [batch EXCEPT ![Head(writeQueue).table] = Append(@, Head(writeQueue))]
    /\ writeQueue' = Tail(writeQueue)
    /\ UNCHANGED <<pushed, step, schemaCache, stored, dropped>>

\* LPop returns a row, kept at the end of its table's group.
PopRow ==
    /\ step = "collect"
    /\ popped < MaxBatch
    /\ writeQueue # <<>>
    /\ popped' = popped + 1
    /\ batch' = [batch EXCEPT ![Head(writeQueue).table] = Append(@, Head(writeQueue))]
    /\ writeQueue' = Tail(writeQueue)
    /\ UNCHANGED <<pushed, step, schemaCache, stored, dropped>>

\* LPop returns a payload that json.Unmarshal refuses; the loop goes on.
PopMalformed ==
    /\ "decode" \in WriteFaults
    /\ step = "collect"
    /\ popped < MaxBatch
    /\ writeQueue # <<>>
    /\ popped' = popped + 1
    /\ dropped' = dropped \cup {[row |-> Head(writeQueue), by |-> "decode"]}
    /\ writeQueue' = Tail(writeQueue)
    /\ UNCHANGED <<pushed, step, batch, schemaCache, stored>>

\* Mutant: a batch that is not full is not written.
AfterCollectFullOnly == IF popped < MaxBatch THEN "wait" ELSE "append"
\* The loop is over: with nothing to write handleWriteBatch returns.
AfterCollect == IF batch = EmptyBatch THEN "wait" ELSE "append"

\* Mutant: the size of the batch is compared after the pop, whose row is lost.
CollectEndsAfterPop ==
    /\ step = "collect"
    /\ popped = MaxBatch \/ writeQueue = <<>>
    /\ step' = AfterCollect
    /\ writeQueue' = SubSeq(writeQueue, 2, Len(writeQueue))
    /\ UNCHANGED <<pushed, popped, batch, schemaCache, stored, dropped>>

\* The queue is empty or the batch is full.
CollectEnds ==
    /\ step = "collect"
    /\ popped = MaxBatch \/ writeQueue = <<>>
    /\ step' = AfterCollect
    /\ UNCHANGED <<writeQueue, pushed, popped, batch, schemaCache, stored, dropped>>

\* LPop returns an error and the loop breaks; Redis may have removed the row
\* and lost its reply.
PopFails ==
    /\ "pop" \in WriteFaults
    /\ step = "collect"
    /\ popped < MaxBatch
    /\ step' = AfterCollect
    /\ \/ UNCHANGED <<writeQueue, dropped>>
       \/ /\ writeQueue # <<>>
          /\ writeQueue' = Tail(writeQueue)
          /\ dropped' = dropped \cup {[row |-> Head(writeQueue), by |-> "pop"]}
    /\ UNCHANGED <<pushed, popped, batch, schemaCache, stored>>

-----------------------------------------------------------------------------
(* handleWriteBatch: processTableBatch, for the tables in any order *)

\* Mutant: the rows of t are kept for another try after k of them are stored.
SettleAndKeep(t, k, cause) ==
    /\ stored' = [stored EXCEPT ![t] = @ \o SubSeq(batch[t], 1, k)]
    /\ batch' = IF k = Len(batch[t]) THEN [batch EXCEPT ![t] = <<>>] ELSE batch
    /\ step' = IF batch' = EmptyBatch THEN "wait" ELSE "append"
    /\ UNCHANGED <<writeQueue, pushed, popped, dropped>>

\* Table t is done with: its first k rows are in DuckDB, the others lost.
Settle(t, k, cause) ==
    /\ stored' = [stored EXCEPT ![t] = @ \o SubSeq(batch[t], 1, k)]
    /\ dropped' = dropped \cup {[row |-> batch[t][i], by |-> cause] :
                                  i \in (k + 1)..Len(batch[t])}
    /\ batch' = [batch EXCEPT ![t] = <<>>]
    /\ step' = IF batch' = EmptyBatch THEN "wait" ELSE "append"
    /\ UNCHANGED <<writeQueue, pushed, popped>>

\* getColumns: cached, or read from DuckDB and then cached.
SchemaFails(t) ==
    /\ "schema" \in WriteFaults
    /\ step = "append" /\ batch[t] # <<>>
    /\ t \notin schemaCache
    /\ Settle(t, 0, "schema")
    /\ UNCHANGED schemaCache

\* The positions of the rows of t that AppendRow refuses.
Rejected(t) == {i \in 1..Len(batch[t]) : batch[t][i].data \in BadData}

\* AppendRow accepts every row of t and Flush stores them.
AppendTable(t) ==
    /\ step = "append" /\ batch[t] # <<>>
    /\ Rejected(t) = {}
    /\ schemaCache' = schemaCache \cup {t}
    /\ Settle(t, Len(batch[t]), "append")

\* Mutant: an error in one table's batch ends the loop over the tables.
AppendRejectedEndsAll(t) ==
    /\ step = "append" /\ batch[t] # <<>>
    /\ Rejected(t) # {}
    /\ schemaCache' = schemaCache \cup {t}
    /\ batch' = EmptyBatch
    /\ step' = "wait"
    /\ dropped' = dropped \cup {[row |-> r, by |-> "reject"] :
                                  r \in UNION {Elems(batch[u]) : u \in Tables}}
    /\ UNCHANGED <<writeQueue, pushed, popped, stored>>

\* AppendRow refuses row b: processTableBatch returns, and the deferred Close
\* stores the rows appended before b or none of them.
AppendRejected(t) ==
    /\ step = "append" /\ batch[t] # <<>>
    /\ schemaCache' = schemaCache \cup {t}
    /\ \E b \in Rejected(t) :
         /\ \A i \in Rejected(t) : b <= i
         /\ \E k \in {0, b - 1} : Settle(t, k, "reject")

\* Mutant: the rows of a failed append go back to the end of the queue.
AppendFailsRequeues(t) ==
    /\ "append" \in WriteFaults
    /\ step = "append" /\ batch[t] # <<>>
    /\ schemaCache' = schemaCache \cup {t}
    /\ writeQueue' = writeQueue \o batch[t]
    /\ batch' = [batch EXCEPT ![t] = <<>>]
    /\ step' = IF batch' = EmptyBatch THEN "wait" ELSE "append"
    /\ UNCHANGED <<pushed, popped, stored, dropped>>

\* No connection or appender: nothing is stored.  A failed Flush is followed
\* by Close, which flushes again: all or nothing is stored.
AppendFails(t) ==
    /\ "append" \in WriteFaults
    /\ step = "append" /\ batch[t] # <<>>
    /\ schemaCache' = schemaCache \cup {t}
    /\ \/ Settle(t, 0, "append")
       \/ Rejected(t) = {} /\ Settle(t, Len(batch[t]), "append")

\* The process dies: what was popped and not stored is gone.
Crash ==
    /\ step' = "wait"
    /\ popped' = 0
    /\ batch' = EmptyBatch
    /\ schemaCache' = {}
    /\ dropped' = dropped \cup {[row |-> r, by |-> "crash"] :
                                  r \in UNION {Elems(batch[t]) : t \in Tables}}
    /\ UNCHANGED <<writeQueue, pushed, stored>>

HandlerCrashes == "crash" \in WriteFaults /\ step # "wait" /\ Crash

-----------------------------------------------------------------------------
Collect == Tick \/ PopRow \/ PopMalformed \/ PopFails \/ CollectEnds

WriteTable(t) == \/ SchemaFails(t)
                 \/ AppendTable(t)
                 \/ AppendRejected(t)
                 \/ AppendFails(t)

HandlerNext == \/ Collect
               \/ \E t \in Tables : WriteTable(t)
               \/ HandlerCrashes

WritesNext == \/ \E t \in Tables, d \in Data : Push(t, d)
              \/ HandlerNext

WritesSpec == WritesInit /\ [][WritesNext]_writesVars

-----------------------------------------------------------------------------
(* Properties *)

Increasing(s) == \A i, j \in 1..Len(s) : i < j => s[i].n < s[j].n
Before(s, u)  == \A i \in 1..Len(s), j \in 1..Len(u) : s[i].n < u[j].n

\* The rows of a table are stored in the order they were pushed and none is
\* stored twice, whatever is dropped in between and however the batches are
\* cut (handleWriteBatch: LPop, the grouping by table, the appender).
StoredInPushOrder ==
    \A t \in Tables : /\ Increasing(stored[t])
                      /\ Before(stored[t], batch[t])
                      /\ Before(stored[t], writeQueue)

InSeq(n, s) == \E i \in 1..Len(s) : s[i].n = n
Pending(n) == InSeq(n, writeQueue) \/ \E t \in Tables : InSeq(n, batch[t])
Stored(n)  == \E t \in Tables : InSeq(n, stored[t])
Dropped(n) == \E d \in dropped : d.row.n = n

\* Every row pushed is in exactly one place: under way, stored, or lost for a
\* known cause, one of those that handleWriteBatch and processTableBatch log or
\* the death of the handler, which nobody logs.
RowsConserved ==
    \A n \in 1..pushed :
       /\ Pending(n) \/ Stored(n) \/ Dropped(n)
       /\ ~(Pending(n) /\ Stored(n))
       /\ ~(Dropped(n) /\ (Pending(n) \/ Stored(n)))

\* A row DuckDB refuses harms only its own table and its own batch: whatever
\* is lost with it is for the same table and was pushed less than MaxBatch
\* rows away (handleWriteBatch goes on with the other tables).
Near(a, b) == a.n - b.n < MaxBatch /\ b.n - a.n < MaxBatch
RejectIsLocal ==
    \A d \in dropped : d.by = "reject" =>
       \E e \in dropped : /\ e.by = "reject" /\ e.row.data \in BadData
                          /\ e.row.table = d.row.table
                          /\ Near(e.row, d.row)

-----------------------------------------------------------------------------
(* The abstract specification *)

\* The numbers of the rows of a sequence, and of those for table t.
Nums(s) == {s[i].n : i \in 1..Len(s)}
NumsFor(t, s) == {s[i].n : i \in {j \in 1..Len(s) : s[j].table = t}}

\* The write path implements RowStore, whatever fails and however the batches
\* are cut: a row is saved or lost once, the rows of a table are saved in their
\* order, and no failure takes rows further apart than one batch reaches
\* (handleWriteBatch, processTableBatch).
StoreView ==
    INSTANCE RowStore
    WITH open  <- [t \in Tables |-> NumsFor(t, writeQueue) \cup Nums(batch[t])],
         saved <- [t \in Tables |-> Nums(stored[t])],
         lost  <- {d.row.n : d \in dropped}
StoreSpec == StoreView!Spec
=============================================================================
