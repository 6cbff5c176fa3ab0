------------------------------ MODULE Uploads -------------------------------
(***************************************************************************)
(* The file uploads of service A: the gRPC handler UploadFile of           *)
(* Services/Service_A/Data_Processing_Engine.go, one goroutine per call,   *)
(* and its client uploadFileClient of data_generation.go.  The handler     *)
(* saves what it received under "temp_" and the name the client gave,      *)
(* reads that file again, writes the rows to the online store and the      *)
(* write queue, answers, and removes the file when it returns.             *)
(*                                                                         *)
(* A file is its name, whether it is a JSON or Parquet file that can be    *)
(* parsed, and its rows: the key of each and whether json.Marshal can      *)
(* encode it, which it cannot if its value, of a Parquet file, is NaN or   *)
(* infinite.  The value of a row is the call that sent it.  A stream that  *)
(* breaks off before its end leaves no trace and is left out; the calls    *)
(* here are received in full.                                              *)
(***************************************************************************)
EXTENDS Integers, Sequences, FiniteSets

CONSTANTS
    Calls,          \* the calls of UploadFile
    Files,          \* what clients upload: [name, good, rows] records
    FileNames,      \* the names of these files
    FeatureKeys,    \* the keys entity:feature of the online store
    FeaturesTable,  \* the table the rows are for
    NoCall,         \* stands for no call
    Left,           \* stands for a file that a failure or a crash left behind
    MaxPushes,      \* bound on the rows pushed
    UploadFaults    \* the failures that may happen, see UploadFaultKinds

\* redis    a pipeline returns an error, part of its commands applied
\* retry    go-redis sends a pipeline again after part of it was applied
\* disk     WriteFile returns an error, with or without a file left behind, or
\*          Remove does
\* timeout  the client's deadline passes; the stream's context ends after it
UploadFaultKinds == {"redis", "retry", "disk", "timeout"}

ASSUME UploadAssumption ==
    /\ Files \subseteq [name : FileNames, good : BOOLEAN,
                        rows : Seq([key : FeatureKeys, encodable : BOOLEAN])]
    /\ NoCall \notin Calls /\ Left \notin Calls /\ NoCall # Left
    /\ MaxPushes \in Nat
    /\ UploadFaults \subseteq UploadFaultKinds

VARIABLES
    stage,       \* what the handler of each call does next
    file,        \* the file of each call
    temp,        \* whose content the temporary file of each name holds
    parsed,      \* the call whose content the handler has parsed
    answer,      \* what the client was told: its deadline counts as "timeout"
    cancelled,   \* the calls whose stream's context has ended under the handler
    sent,        \* those of them with a pipeline on its way at that moment
    online,      \* the call, or the Kafka message, of the value the store holds
    writeQueue,  \* the Redis list duckdb_write_queue
    pushed,      \* number of rows pushed on it
    shared,      \* the calls that met another one with their file name (history)
    failed       \* the calls with a pipeline that failed (history)

storeVars  == <<online, writeQueue, pushed>>
callVars   == <<stage, file, temp, parsed, answer, cancelled, sent, shared,
                failed>>
uploadVars == <<callVars, storeVars>>

Active == {"save", "parse", "redis", "duckdb", "reply", "remove"}
NoFile == [name |-> NoCall, good |-> FALSE, rows |-> <<>>]

UploadTypeOK ==
    /\ stage \in [Calls -> {"none", "done"} \cup Active]
    /\ file \in [Calls -> Files \cup {NoFile}]
    /\ temp \in [FileNames -> Calls \cup {NoCall, Left}]
    /\ parsed \in [Calls -> Calls \cup {NoCall}]
    /\ answer \in [Calls -> {"none", "success", "failure", "timeout"}]
    /\ cancelled \subseteq Calls /\ sent \subseteq Calls
    /\ shared \subseteq Calls
    /\ failed \subseteq Calls
    /\ pushed \in 0..MaxPushes

CallsInit ==
    /\ stage = [c \in Calls |-> "none"]
    /\ file = [c \in Calls |-> NoFile]
    /\ temp = [n \in FileNames |-> NoCall]
    /\ parsed = [c \in Calls |-> NoCall]
    /\ answer = [c \in Calls |-> "none"]
    /\ cancelled = {} /\ sent = {} /\ shared = {} /\ failed = {}

-----------------------------------------------------------------------------
(* The handler *)

GoTo(c, s)  == stage' = [stage EXCEPT ![c] = s]
\* SendAndClose: the client takes the answer unless it has given up.
Answer(c, a) == answer' = [answer EXCEPT ![c] = IF @ = "none" THEN a ELSE @]

\* tempFilename, "temp_" and the name that the client gave.
TempName(c) == file[c].name

\* The calls in progress whose temporary file has the name of call c's.
Others(c, n) == {d \in Calls \ {c} : stage[d] \in Active /\ file[d].name = n}

\* uploadFileClient sends what it has generated as one chunk.
SendFile(c, f) == file' = [file EXCEPT ![c] = f]

\* The stream has ended and the content is in memory.
Receive(c, f) ==
    /\ stage[c] = "none"
    /\ GoTo(c, "save")
    /\ SendFile(c, f)
    /\ shared' = shared \cup
          {d \in Others(c, f.name) \cup {c} : Others(c, f.name) # {}}
    /\ UNCHANGED <<temp, parsed, answer, cancelled, sent, failed, storeVars>>

\* WriteFile replaces what is there; the removal is deferred only after it
\* succeeded.
Save(c) ==
    /\ stage[c] = "save"
    /\ \/ /\ temp' = [temp EXCEPT ![TempName(c)] = c]
          /\ GoTo(c, "parse")
          /\ UNCHANGED answer
       \/ /\ "disk" \in UploadFaults
          /\ temp' \in {temp, [temp EXCEPT ![TempName(c)] = Left]}
          /\ Answer(c, "failure")
          /\ GoTo(c, "done")
    /\ UNCHANGED <<file, parsed, cancelled, sent, shared, failed, storeVars>>

\* The file can be read and parsed.
Readable(c) == LET d == temp[TempName(c)] IN d \in Calls /\ file[d].good

\* Another handler may be in the middle of its WriteFile to the same name.
BeingWritten(c) == \E d \in Others(c, file[c].name) : stage[d] = "save"

\* Mutant: the file is removed at the end of the handler only.
ParseWithoutDefer(c) ==
    /\ stage[c] = "parse"
    /\ \/ /\ Readable(c)
          /\ parsed' = [parsed EXCEPT ![c] = temp[TempName(c)]]
          /\ GoTo(c, "redis")
          /\ UNCHANGED answer
       \/ /\ ~Readable(c) \/ BeingWritten(c)
          /\ Answer(c, "failure")
          /\ GoTo(c, "done")
          /\ UNCHANGED parsed
    /\ UNCHANGED <<file, temp, cancelled, sent, shared, failed, storeVars>>

\* processJSONFile and processParquetFile read the temporary file, whoever
\* wrote it; what is missing, cut off or of another kind cannot be parsed.
Parse(c) ==
    /\ stage[c] = "parse"
    /\ \/ /\ Readable(c)
          /\ parsed' = [parsed EXCEPT ![c] = temp[TempName(c)]]
          /\ GoTo(c, "redis")
          /\ UNCHANGED answer
       \/ /\ ~Readable(c) \/ BeingWritten(c)
          /\ Answer(c, "failure")
          /\ GoTo(c, "remove")
          /\ UNCHANGED parsed
    /\ UNCHANGED <<file, temp, cancelled, sent, shared, failed, storeVars>>

\* The rows of a file that json.Marshal can encode.
Encodable(f) == {r \in 1..Len(f.rows) : f.rows[r].encodable}

\* Mutant: a row that cannot be encoded ends the loop.
StopAtBadRow(c) ==
    LET f == file[parsed[c]]
        before == {r \in Encodable(f) : \A q \in 1..r : q \in Encodable(f)}
    IN {[i \in 1..Cardinality(before) |-> i]}

\* The commands of a pipeline: the numbers of these rows in the order of the file.
\* The others are logged and skipped.  There is just one such sequence.
Commands(c) ==
    LET f == file[parsed[c]] IN
    {s \in [1..Cardinality(Encodable(f)) -> Encodable(f)] :
       /\ \A r \in Encodable(f) : \E i \in DOMAIN s : s[i] = r
       /\ \A i, j \in DOMAIN s : i < j => s[i] < s[j]}

\* Mutant: the pipelines run under a context of their own.
NeverCancelled(c) == FALSE
\* A pipeline runs under the context of the stream: none is sent once that has
\* ended; one that is on its way by then is not called back.  An error is only
\* logged.
Cancelled(c) == c \in cancelled \ sent
Fails(c, s, n) ==
    /\ s # <<>>
    /\ IF Cancelled(c) THEN n = 0 ELSE n \in 0..Len(s) /\ "redis" \in UploadFaults
    /\ failed' = failed \cup {c}
Succeeds(c, s) == (Cancelled(c) => s = <<>>) /\ UNCHANGED failed

\* The SET commands of the rows in s.
SetRows(c, s) ==
    online' = [k \in FeatureKeys |->
                 IF \E i \in 1..Len(s) : file[parsed[c]].rows[s[i]].key = k
                 THEN parsed[c] ELSE online[k]]

\* Mutant: what went to the online store does not go to the write queue.
SendRedisOnly(c) ==
    /\ stage[c] = "redis"
    /\ \E s \in Commands(c) : SetRows(c, s) /\ Succeeds(c, s)
    /\ GoTo(c, "reply")
    /\ sent' = sent \ {c}
    /\ UNCHANGED <<file, temp, parsed, answer, cancelled, shared, writeQueue, pushed>>

\* SendBatch_Redis
SendRedis(c) ==
    /\ stage[c] = "redis"
    /\ \E s \in Commands(c) :
          \/ SetRows(c, s) /\ Succeeds(c, s)
          \/ \E n \in 0..Len(s) : SetRows(c, SubSeq(s, 1, n)) /\ Fails(c, s, n)
    /\ GoTo(c, "duckdb")
    /\ sent' = sent \ {c}
    /\ UNCHANGED <<file, temp, parsed, answer, cancelled, shared, writeQueue, pushed>>

\* RPush of the rows with the numbers in s.
PushRows(c, s) ==
    /\ pushed + Len(s) <= MaxPushes
    /\ pushed' = pushed + Len(s)
    /\ writeQueue' = writeQueue \o
          [i \in 1..Len(s) |-> [n |-> pushed + i, table |-> FeaturesTable,
                                data |-> parsed[c], row |-> s[i]]]

\* SendBatch_Duckdb_Queue
SendDuckdb(c) ==
    /\ stage[c] = "duckdb"
    /\ \E s \in Commands(c) :
          \/ PushRows(c, s) /\ Succeeds(c, s)
          \/ \E n \in 0..Len(s) : PushRows(c, SubSeq(s, 1, n)) /\ Fails(c, s, n)
          \/ /\ "retry" \in UploadFaults /\ ~Cancelled(c)
             /\ \E n \in 1..Len(s) : PushRows(c, SubSeq(s, 1, n) \o s)
             /\ UNCHANGED failed
    /\ GoTo(c, "reply")
    /\ sent' = sent \ {c}
    /\ UNCHANGED <<file, temp, parsed, answer, cancelled, shared, online>>

\* Success, whatever became of the pipelines.
Reply(c) ==
    /\ stage[c] = "reply"
    /\ Answer(c, "success")
    /\ GoTo(c, "remove")
    /\ UNCHANGED <<file, temp, parsed, cancelled, sent, shared, failed, storeVars>>

\* The handlers that will still remove the file of name n.
Removers(c, n) == {d \in Others(c, n) : stage[d] # "save"}

\* The deferred Remove, of whatever has the name now; its error is ignored.
Remove(c) ==
    /\ stage[c] = "remove"
    /\ \/ temp' = [temp EXCEPT ![TempName(c)] = NoCall]
       \/ /\ "disk" \in UploadFaults
          /\ temp' = [temp EXCEPT ![TempName(c)] =
                        IF Removers(c, TempName(c)) = {} THEN Left ELSE @]
    /\ GoTo(c, "done")
    /\ UNCHANGED <<file, parsed, answer, cancelled, sent, shared, failed, storeVars>>

-----------------------------------------------------------------------------
(* The client's deadline, and the death of the process *)

\* uploadFileClient logs the error and does not try again.
GiveUp(c) ==
    /\ "timeout" \in UploadFaults
    /\ stage[c] \in Active
    /\ answer[c] = "none"
    /\ answer' = [answer EXCEPT ![c] = "timeout"]
    /\ UNCHANGED <<stage, file, temp, parsed, cancelled, sent, shared, failed, storeVars>>

\* The handler's side learns of it later: the time that is left goes to the server
\* as a number of seconds and runs there from the arrival of the call.  Until
\* then the handler goes on and may start either pipeline.
Cancel(c) ==
    /\ answer[c] = "timeout"
    /\ stage[c] \in Active
    /\ c \notin cancelled
    /\ cancelled' = cancelled \cup {c}
    /\ \/ UNCHANGED sent
       \/ stage[c] \in {"redis", "duckdb"} /\ sent' = sent \cup {c}
    /\ UNCHANGED <<stage, file, temp, parsed, answer, shared, failed, storeVars>>

\* The handlers die and their files stay.
HandlersDie ==
    /\ stage' = [c \in Calls |-> IF stage[c] \in Active THEN "done" ELSE stage[c]]
    /\ answer' = [c \in Calls |-> IF stage[c] \in Active /\ answer[c] = "none"
                                  THEN "timeout" ELSE answer[c]]
    /\ temp' = [n \in FileNames |-> IF temp[n] \in Calls THEN Left ELSE temp[n]]
    /\ cancelled' = {} /\ sent' = {}
    /\ UNCHANGED <<file, parsed, shared, failed>>

-----------------------------------------------------------------------------
UploadStep(c) == \/ \E f \in Files : Receive(c, f)
                 \/ Save(c)
                 \/ Parse(c)
                 \/ SendRedis(c)
                 \/ SendDuckdb(c)
                 \/ Reply(c)
                 \/ Remove(c)
                 \/ GiveUp(c)
                 \/ Cancel(c)

UploadNext == \E c \in Calls : UploadStep(c)

-----------------------------------------------------------------------------
(* Properties *)

\* The numbers of call c's rows in the write queue.
RowsQueued(c) ==
    {writeQueue[i].row : i \in {j \in 1..Len(writeQueue) : writeQueue[j].data = c}}

\* Unless two calls with one file name met, the answer says what happened: after
\* a failure nothing was written, and after a success every row that can be
\* encoded is queued, or a pipeline failed.  Only the log says which rows could
\* not be encoded and that a pipeline failed: the client is told the number of
\* all rows (UploadFile: "Successfully processed file %s with %d records").  A
\* crash after the answer changes neither.
AnswerIsTrue ==
    \A c \in Calls \ shared :
       /\ answer[c] = "failure" =>
             RowsQueued(c) = {} /\ \A k \in FeatureKeys : online[k] # c
       /\ answer[c] = "success" /\ c \notin failed =>
             RowsQueued(c) = Encodable(file[c])

\* Once the server has answered, or the stream's context has ended under the
\* handler, nothing more of the file is written but by the one pipeline that was
\* on its way, wherever the handler is by then (UploadFile: SendBatch_Redis and
\* SendBatch_Duckdb_Queue with stream.Context()).  A client that has only given up
\* cannot rely on it: until the context ends both pipelines may still start.
SettledOnAnswer ==
    [][\A c \in Calls \ shared' :
          answer[c] \in {"success", "failure"} \/ c \in cancelled \ sent =>
             /\ RowsQueued(c)' = RowsQueued(c)
             /\ \A k \in FeatureKeys : online'[k] = c => online[k] = c]_uploadVars

\* A temporary file that no failure and no crash has left behind belongs to a
\* handler that is still running and will remove it, also when two handlers use
\* one name and remove each other's file (UploadFile: "defer os.Remove").
TempOwned ==
    \A n \in FileNames :
       temp[n] \in Calls => \E c \in Calls : stage[c] \in Active /\ file[c].name = n
=============================================================================
