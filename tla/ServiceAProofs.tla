--------------------------- MODULE ServiceAProofs ---------------------------
(***************************************************************************)
(* What holds of service A for every number of calls, files and messages:  *)
(* temporary files are removed, the answers to uploads say what happened,  *)
(* nothing is written behind an answer, what the online store shows of an  *)
(* upload is queued, and no alert disappears unnoticed.                    *)
(***************************************************************************)
EXTENDS ServiceA, SequenceFacts, FiniteSetTheorems

\* The stages before a handler has parsed anything, and those in which it has a
\* temporary file to remove.
Early   == {"none", "save", "parse"}
Holding == {"parse", "redis", "duckdb", "reply", "remove"}

\* A handler that has a temporary file and removes it.
Owned(n) == \E c \in Calls : stage[c] \in Holding /\ file[c].name = n

\* What the stage of a handler says of the rest of its state; nothing is read
\* or parsed of a call that has not begun.
StageInv ==
    /\ \A c \in Calls : stage[c] # "none" => file[c] \in Files
    /\ \A c \in Calls : stage[c] \in Early => parsed[c] = NoCall /\ c \notin failed
    /\ \A c \in Calls : stage[c] \in {"redis", "duckdb", "reply"} => parsed[c] \in Calls
    /\ \A c \in Calls : answer[c] \in {"success", "failure"} => stage[c] \in {"remove", "done"}
    /\ \A c \in Calls : parsed[c] \in Calls => stage[parsed[c]] # "none"
    /\ \A n \in FileNames : temp[n] \in Calls => stage[temp[n]] # "none"

CallInv == /\ UploadTypeOK
           /\ StageInv
           /\ \A n \in FileNames : temp[n] \in Calls => Owned(n)

\* A row on the write queue: the consumer's or an upload's.
QueueRows == [n : Nat, table : {FeaturesTable}, data : Nat] \cup
             [n : Nat, table : {FeaturesTable}, data : Calls, row : Nat]

StoreInv == /\ writeQueue \in Seq(QueueRows)
            /\ online \in [FeatureKeys -> Nat \cup Calls]

-----------------------------------------------------------------------------
(* The handlers' own state *)

LEMMA CallInit == Init => CallInv /\ StoreInv
<1> SUFFICES ASSUME Init PROVE CallInv /\ StoreInv
  OBVIOUS
<1>1. UploadTypeOK
  BY UploadAssumption DEF Init, CallsInit, UploadTypeOK, Engine!IngestInit, UploadAssumption
<1>2. StageInv /\ \A n \in FileNames : temp[n] \notin Calls
  BY UploadAssumption DEF Init, CallsInit, StageInv, Early, UploadAssumption
<1>3. StoreInv
  BY DEF Init, Engine!IngestInit, StoreInv
<1> QED
  BY <1>1, <1>2, <1>3 DEF CallInv

\* Saving, parsing and removing the file.
LEMMA FileSteps ==
    ASSUME CallInv, NEW c \in Calls, Save(c) \/ Parse(c) \/ Remove(c)
    PROVE  CallInv'
<1> USE UploadAssumption DEF CallInv, UploadAssumption
<1>1. CASE Save(c)
  <2> DEFINE n == file[c].name
  <2>1. /\ stage[c] = "save" /\ file[c] \in Files /\ n \in FileNames
        /\ UNCHANGED <<file, parsed, cancelled, sent, shared, failed, pushed>>
    BY <1>1 DEF Save, StageInv, storeVars
  <2>2. CASE temp' = [temp EXCEPT ![n] = c] /\ stage' = [stage EXCEPT ![c] = "parse"] /\ answer' = answer
    <3> HIDE DEF n
    <3>1. UploadTypeOK'
      BY <2>1, <2>2 DEF UploadTypeOK, Active
    <3>2. StageInv'
      BY <2>1, <2>2 DEF UploadTypeOK, StageInv, Early
    <3>3. \A m \in FileNames : temp'[m] \in Calls => Owned(m)'
      BY <2>1, <2>2 DEF UploadTypeOK, Owned, Holding, n
    <3> QED
      BY <3>1, <3>2, <3>3
  <2>3. CASE /\ temp' \in {temp, [temp EXCEPT ![n] = Left]}
             /\ stage' = [stage EXCEPT ![c] = "done"]
             /\ answer' = [answer EXCEPT ![c] = IF @ = "none" THEN "failure" ELSE @]
    <3>0. temp' \in [FileNames -> Calls \cup {NoCall, Left}] /\ \A m \in FileNames : temp'[m] \in {temp[m], Left}
      <4> HIDE DEF n
      <4> QED
        BY <2>1, <2>3 DEF UploadTypeOK
    <3>1. UploadTypeOK'
      BY <2>1, <2>3, <3>0 DEF UploadTypeOK
    <3>2. StageInv'
      BY <2>1, <2>3, <3>0 DEF UploadTypeOK, StageInv, Early
    <3>3. \A m \in FileNames : temp'[m] \in Calls => Owned(m)'
      BY <2>1, <2>3, <3>0 DEF UploadTypeOK, Owned, Holding
    <3> QED
      BY <3>1, <3>2, <3>3
  <2> QED
    BY <1>1, <2>2, <2>3 DEF Save, TempName, GoTo, Answer
<1>2. CASE Parse(c)
  <2>1. /\ stage[c] = "parse" /\ file[c] \in Files /\ file[c].name \in FileNames
        /\ UNCHANGED <<file, temp, cancelled, sent, shared, failed, pushed>>
    BY <1>2 DEF Parse, StageInv, storeVars
  <2>2. \/ /\ temp[file[c].name] \in Calls /\ parsed' = [parsed EXCEPT ![c] = temp[file[c].name]]
           /\ stage' = [stage EXCEPT ![c] = "redis"] /\ answer' = answer
        \/ /\ parsed' = parsed /\ stage' = [stage EXCEPT ![c] = "remove"]
           /\ answer' = [answer EXCEPT ![c] = IF @ = "none" THEN "failure" ELSE @]
    BY <1>2 DEF Parse, Readable, TempName, GoTo, Answer
  <2>3. UploadTypeOK'
    <3>1. parsed' \in [Calls -> Calls \cup {NoCall}]
      BY <2>1, <2>2 DEF UploadTypeOK
    <3>2. stage' \in [Calls -> {"none", "done"} \cup Active]
      BY <2>1, <2>2 DEF UploadTypeOK, Active
    <3>3. answer' \in [Calls -> {"none", "success", "failure", "timeout"}]
      BY <2>1, <2>2 DEF UploadTypeOK
    <3> QED
      BY <2>1, <3>1, <3>2, <3>3 DEF UploadTypeOK
  <2>4. StageInv'
    <3>1. CASE parsed' = parsed
      <4>1. /\ stage' \in {[stage EXCEPT ![c] = "redis"], [stage EXCEPT ![c] = "remove"]}
            /\ stage'[c] = "redis" => temp[file[c].name] = parsed[c]
            /\ \A d \in Calls \ {c} : stage'[d] = stage[d] /\ answer'[d] = answer[d]
            /\ stage'[c] # "redis" => stage'[c] = "remove"
        BY <2>1, <2>2, <3>1 DEF UploadTypeOK
      <4>2. stage'[c] = "redis" => temp[file[c].name] \in Calls /\ answer'[c] = answer[c]
        BY <2>1, <2>2, <4>1 DEF UploadTypeOK
      <4>3. answer[c] \notin {"success", "failure"} /\ parsed[c] = NoCall /\ c \notin failed
        BY <2>1 DEF StageInv, Early
      <4>4. stage'[c] = "remove" /\ \A d \in Calls : stage'[d] # "none" <=> stage[d] # "none"
        BY <2>1, <4>1, <4>2, <4>3
      <4> QED
        BY <2>1, <3>1, <4>1, <4>4 DEF StageInv, Early
    <3>2. CASE parsed' # parsed
      <4> DEFINE e == temp[file[c].name]
      <4>1. /\ e \in Calls /\ stage[e] # "none" /\ answer' = answer
            /\ parsed' = [parsed EXCEPT ![c] = e] /\ stage' = [stage EXCEPT ![c] = "redis"]
        BY <2>1, <2>2, <3>2 DEF StageInv
      <4> HIDE DEF e
      <4> QED
        BY <2>1, <4>1 DEF UploadTypeOK, StageInv, Early
    <3> QED
      BY <3>1, <3>2
  <2>5. \A m \in FileNames : temp'[m] \in Calls => Owned(m)'
    BY <2>1, <2>2 DEF UploadTypeOK, Owned, Holding
  <2> QED
    BY <2>3, <2>4, <2>5
<1>3. CASE Remove(c)
  <2> DEFINE n == file[c].name
  <2>1. /\ stage[c] = "remove" /\ file[c] \in Files /\ n \in FileNames
        /\ stage' = [stage EXCEPT ![c] = "done"]
        /\ UNCHANGED <<file, parsed, answer, cancelled, sent, shared, failed, pushed>>
    BY <1>3 DEF Remove, StageInv, storeVars, GoTo
  <2>2. \/ temp' = [temp EXCEPT ![n] = NoCall] \/ temp' = [temp EXCEPT ![n] = Left]
        \/ Removers(c, n) # {} /\ temp' = temp
    BY <1>3, <2>1 DEF Remove, TempName, UploadTypeOK
  <2>3. \A d \in Removers(c, n) : d \in Calls \ {c} /\ stage[d] \in Holding /\ file[d].name = n
    BY DEF Removers, Others, Active, Holding
  <2> HIDE DEF n
  <2>4. temp' \in [FileNames -> Calls \cup {NoCall, Left}] /\ \A m \in FileNames : temp'[m] \in Calls => temp'[m] = temp[m]
    BY <2>1, <2>2 DEF UploadTypeOK
  <2>5. UploadTypeOK'
    BY <2>1, <2>4 DEF UploadTypeOK
  <2>6. StageInv'
    BY <2>1, <2>4 DEF UploadTypeOK, StageInv, Early
  <2>7. ASSUME NEW m \in FileNames, temp'[m] \in Calls PROVE Owned(m)'
    <3>1. CASE m # n
      BY <2>1, <2>4, <2>7, <3>1 DEF UploadTypeOK, Owned, Holding, n
    <3>2. CASE m = n
      BY <2>1, <2>2, <2>3, <2>7, <3>2 DEF UploadTypeOK, Owned
    <3> QED
      BY <3>1, <3>2
  <2> QED
    BY <2>5, <2>6, <2>7
<1> QED
  BY <1>1, <1>2, <1>3

\* Receiving the file, sending the pipelines, answering, and the deadline.
LEMMA OtherSteps ==
    ASSUME CallInv, NEW c \in Calls,
           (\E f \in Files : Receive(c, f)) \/ SendRedis(c) \/ SendDuckdb(c) \/ Reply(c)
           \/ GiveUp(c) \/ Cancel(c)
    PROVE  CallInv'
<1> USE UploadAssumption DEF CallInv, UploadAssumption
<1>1. CASE \E f \in Files : Receive(c, f)
  <2>1. PICK f \in Files : Receive(c, f)
    BY <1>1
  <2>2. /\ stage[c] = "none" /\ file' = [file EXCEPT ![c] = f]
        /\ stage' = [stage EXCEPT ![c] = "save"]
        /\ UNCHANGED <<temp, parsed, answer, cancelled, sent, failed, pushed>>
    BY <2>1 DEF Receive, SendFile, GoTo, storeVars
  <2>3. shared' \subseteq Calls
    BY <2>1 DEF Receive, Others, UploadTypeOK
  <2>4. UploadTypeOK'
    BY <2>2, <2>3 DEF UploadTypeOK, Active
  <2>5. StageInv'
    BY <2>2 DEF UploadTypeOK, StageInv, Early
  <2>6. \A m \in FileNames : temp'[m] \in Calls => Owned(m)'
    BY <2>2 DEF UploadTypeOK, Owned, Holding
  <2> QED
    BY <2>4, <2>5, <2>6
<1>2. CASE SendRedis(c) \/ SendDuckdb(c)
  <2>1. /\ \/ stage[c] = "redis" /\ stage' = [stage EXCEPT ![c] = "duckdb"]
           \/ stage[c] = "duckdb" /\ stage' = [stage EXCEPT ![c] = "reply"]
        /\ failed' \in {failed, failed \cup {c}}
        /\ sent' = sent \ {c}
        /\ UNCHANGED <<file, temp, parsed, answer, cancelled, shared>>
    BY <1>2 DEF SendRedis, SendDuckdb, GoTo, Fails, Succeeds
  <2>2. pushed' \in 0..MaxPushes
    <3>1. pushed' = pushed \/ \E s : PushRows(c, s)
      BY <1>2 DEF SendRedis, SendDuckdb
    <3>2. ASSUME NEW s, PushRows(c, s) PROVE pushed' \in 0..MaxPushes
      BY <3>2 DEF PushRows, UploadTypeOK
    <3> QED
      BY <3>1, <3>2 DEF UploadTypeOK
  <2>3. UploadTypeOK'
    BY <2>1, <2>2 DEF UploadTypeOK, Active
  <2>4. StageInv'
    <3>1. /\ stage[c] \in {"redis", "duckdb"} /\ stage'[c] \in {"duckdb", "reply"}
          /\ \A d \in Calls \ {c} : stage'[d] = stage[d] /\ (d \in failed' => d \in failed)
      BY <2>1 DEF UploadTypeOK
    <3>2. \A d \in Calls : stage'[d] \in Early => d # c /\ stage[d] \in Early
      BY <3>1 DEF Early
    <3>3. \A d \in Calls : stage'[d] # "none" <=> stage[d] # "none"
      BY <3>1
    <3>4. parsed[c] \in Calls /\ answer[c] \notin {"success", "failure"}
      BY <3>1 DEF StageInv
    <3> QED
      BY <2>1, <3>1, <3>2, <3>3, <3>4 DEF StageInv
  <2>5. \A m \in FileNames : temp'[m] \in Calls => Owned(m)'
    BY <2>1, ZenonT(30) DEF UploadTypeOK, Owned, Holding
  <2> QED
    BY <2>3, <2>4, <2>5
<1>3. CASE Reply(c)
  <2>1. /\ stage[c] = "reply" /\ stage' = [stage EXCEPT ![c] = "remove"]
        /\ answer' = [answer EXCEPT ![c] = IF @ = "none" THEN "success" ELSE @]
        /\ UNCHANGED <<file, temp, parsed, cancelled, sent, shared, failed, pushed>>
    BY <1>3 DEF Reply, GoTo, Answer, storeVars
  <2>3. UploadTypeOK'
    BY <2>1 DEF UploadTypeOK, Active
  <2>4. StageInv'
    BY <2>1 DEF UploadTypeOK, StageInv, Early
  <2>5. \A m \in FileNames : temp'[m] \in Calls => Owned(m)'
    BY <2>1 DEF UploadTypeOK, Owned, Holding
  <2> QED
    BY <2>3, <2>4, <2>5
<1>4. CASE GiveUp(c)
  <2>1. /\ stage[c] \in Active /\ answer' = [answer EXCEPT ![c] = "timeout"]
        /\ answer[c] = "none"
        /\ UNCHANGED <<stage, file, temp, parsed, cancelled, sent, shared, failed, pushed>>
    BY <1>4 DEF GiveUp, storeVars
  <2>3. UploadTypeOK'
    BY <2>1 DEF UploadTypeOK
  <2>4. StageInv'
    BY <2>1 DEF UploadTypeOK, StageInv, Early, Active
  <2>5. \A m \in FileNames : temp'[m] \in Calls => Owned(m)'
    BY <2>1 DEF UploadTypeOK, Owned, Holding
  <2> QED
    BY <2>3, <2>4, <2>5
<1>5. CASE Cancel(c)
  <2>1. /\ cancelled' = cancelled \cup {c} /\ sent' \in {sent, sent \cup {c}}
        /\ UNCHANGED <<stage, file, temp, parsed, answer, shared, failed, pushed>>
    BY <1>5 DEF Cancel, storeVars
  <2>2. UploadTypeOK'
    BY <2>1 DEF UploadTypeOK
  <2> QED
    BY <2>1, <2>2 DEF StageInv, Owned
<1> QED
  BY <1>1, <1>2, <1>3, <1>4, <1>5

\* The process dies: complete files become leftovers.
LEMMA DeathKeepsCalls == CallInv /\ ProcessCrash => CallInv'
<1> SUFFICES ASSUME CallInv, ProcessCrash PROVE CallInv'
  OBVIOUS
<1> USE UploadAssumption DEF CallInv, UploadAssumption
<1>1. /\ stage' = [c \in Calls |-> IF stage[c] \in Active THEN "done" ELSE stage[c]]
      /\ answer' = [c \in Calls |-> IF stage[c] \in Active /\ answer[c] = "none"
                                    THEN "timeout" ELSE answer[c]]
      /\ temp' = [n \in FileNames |-> IF temp[n] \in Calls THEN Left ELSE temp[n]]
      /\ cancelled' = {} /\ sent' = {}
      /\ UNCHANGED <<file, parsed, shared, failed, pushed>>
  BY DEF ProcessCrash, HandlersDie, Engine!Restart, Engine!queueVars
<1>2. UploadTypeOK'
  BY <1>1 DEF UploadTypeOK, Active
<1>3. StageInv' /\ \A n \in FileNames : temp'[n] \notin Calls
  BY <1>1 DEF UploadTypeOK, StageInv, Early, Active
<1> QED
  BY <1>2, <1>3

\* The consumer pushes rows, the handlers notice nothing.
LEMMA EnginePushes ==
    ASSUME EngineStep, pushed \in 0..MaxPushes
    PROVE  pushed' \in 0..MaxPushes /\ UNCHANGED callVars
<1>1. pushed' = pushed \/ \E s : Engine!PushRows(s)
  BY DEF EngineStep, Engine!EngineNext, Engine!Produce, Engine!Fetch, Engine!Timeout, Engine!Flush,
         Engine!Alert, Engine!SendRedis, Engine!SendDuckdb, Engine!Commit, Engine!CooldownEnds,
         Engine!Rebalance, Engine!queueVars
<1>2. ASSUME NEW s, Engine!PushRows(s) PROVE pushed' \in 0..MaxPushes
  BY <1>2, UploadAssumption DEF Engine!PushRows, UploadAssumption
<1> QED
  BY <1>1, <1>2 DEF EngineStep

LEMMA CallsInductive == CallInv /\ [Next]_vars => CallInv'
<1> SUFFICES ASSUME CallInv, [Next]_vars PROVE CallInv'
  OBVIOUS
<1>1. CASE ServerStep
  <2>1. PICK c \in Calls : UploadStep(c)
    BY <1>1 DEF ServerStep, UploadNext
  <2> QED
    BY <2>1, FileSteps, OtherSteps DEF UploadStep
<1>2. CASE EngineStep \/ AlarmStep \/ UNCHANGED vars
  <2>1. UNCHANGED callVars /\ pushed' \in 0..MaxPushes
    BY <1>2, EnginePushes DEF AlarmStep, vars, uploadVars, storeVars, CallInv, UploadTypeOK
  <2> QED
    BY <2>1 DEF callVars, CallInv, UploadTypeOK, StageInv, Owned
<1>3. CASE ProcessCrash
  BY <1>3, DeathKeepsCalls
<1> QED
  BY <1>1, <1>2, <1>3 DEF Next

\* However many handlers share a name and remove each other's file, a complete
\* temporary file belongs to a handler that has still to remove one of its name.
THEOREM TempFilesOwned == Spec => []TempOwned
<1>1. CallInv => TempOwned
  BY DEF CallInv, TempOwned, Owned, Holding, Active
<1>2. Init => CallInv
  BY CallInit
<1> QED
  BY <1>1, <1>2, CallsInductive, PTL DEF Spec

-----------------------------------------------------------------------------
(* The calls that met no other one with their file name *)

\* Their name is theirs, the file of that name holds what they saved while they
\* parse it, and nobody else parses it.
NameInv == \A c \in Calls \ shared :
    /\ stage[c] \in Active =>
         \A d \in Calls \ {c} : stage[d] \in Active => file[d].name # file[c].name
    /\ stage[c] = "parse" => temp[file[c].name] = c
    /\ \A n \in FileNames : temp[n] = c => stage[c] \in Holding /\ file[c].name = n
    /\ \A d \in Calls \ {c} : parsed[d] # c
    /\ stage[c] \in {"redis", "duckdb", "reply"} => parsed[c] = c

\* A step that changes neither files nor what was parsed of them, and lets a
\* handler go on from a stage after parsing.
LEMMA NameStays ==
    ASSUME CallInv, NameInv, NEW c \in Calls, NEW s,
           stage[c] \in Active \ {"save", "parse"}, s \in Active \ {"save", "parse"},
           s = "remove" \/ stage[c] \in {"redis", "duckdb"},
           stage' = [stage EXCEPT ![c] = s],
           UNCHANGED <<file, temp, parsed, shared>>
    PROVE  NameInv'
  BY DEF CallInv, UploadTypeOK, NameInv, Active, Holding

LEMMA NameReceive ==
    ASSUME CallInv, NameInv, NEW c \in Calls, NEW f \in Files, Receive(c, f)
    PROVE  NameInv'
<1> USE DEF CallInv
<1>1. /\ stage[c] = "none" /\ stage' = [stage EXCEPT ![c] = "save"]
      /\ file' = [file EXCEPT ![c] = f] /\ UNCHANGED <<temp, parsed>>
      /\ shared \subseteq shared'
      /\ c \notin shared' => Others(c, f.name) = {}
      /\ Others(c, f.name) \subseteq shared'
  BY DEF Receive, GoTo, SendFile, storeVars
<1>2. \A d \in Calls \ shared' : stage'[d] \in Active =>
         \A e \in Calls \ {d} : stage'[e] \in Active => file'[e].name # file'[d].name
  BY <1>1 DEF UploadTypeOK, NameInv, Others
<1>3. \A d \in Calls \ shared' :
         /\ stage'[d] = "parse" => temp'[file'[d].name] = d
         /\ \A e \in Calls \ {d} : parsed'[e] # d
         /\ stage'[d] \in {"redis", "duckdb", "reply"} => parsed'[d] = d
  BY <1>1 DEF UploadTypeOK, NameInv
<1>4. \A d \in Calls \ shared' : \A n \in FileNames :
         temp'[n] = d => stage'[d] \in Holding /\ file'[d].name = n
  BY <1>1 DEF UploadTypeOK, NameInv, Holding
<1> QED
  BY <1>2, <1>3, <1>4 DEF NameInv

LEMMA NameFiles ==
    ASSUME CallInv, NameInv, NEW c \in Calls, Save(c) \/ Parse(c) \/ Remove(c)
    PROVE  NameInv'
<1> USE UploadAssumption DEF CallInv, UploadAssumption
<1> DEFINE n == file[c].name
<1>1. stage[c] \in {"save", "parse", "remove"} /\ n \in FileNames
  BY DEF Save, Parse, Remove, StageInv
<1>2. CASE Save(c)
  <2>1. stage[c] = "save" /\ UNCHANGED <<file, parsed, shared>>
    BY <1>2 DEF Save, storeVars
  <2>2. CASE temp' = [temp EXCEPT ![n] = c] /\ stage' = [stage EXCEPT ![c] = "parse"]
    <3> HIDE DEF n
    <3>1. \A d \in Calls \ {c} : stage'[d] = stage[d]
      BY <2>2 DEF UploadTypeOK
    <3>2. ASSUME NEW d \in Calls \ shared, d # c, stage[d] = "parse" PROVE temp'[file[d].name] = d
      BY <1>1, <2>1, <2>2, <3>2 DEF UploadTypeOK, NameInv, Active, n
    <3>3. \A d \in Calls \ shared : \A m \in FileNames :
             temp'[m] = d => stage'[d] \in Holding /\ file[d].name = m
      BY <1>1, <2>1, <2>2 DEF UploadTypeOK, NameInv, Holding, n
    <3>4. temp'[file[c].name] = c
      BY <1>1, <2>2 DEF UploadTypeOK, n
    <3>5. stage'[c] = "parse"
      BY <2>2 DEF UploadTypeOK
    <3> QED
      BY <2>1, <3>1, <3>2, <3>3, <3>4, <3>5 DEF NameInv, Active
  <2>3. CASE temp' \in {temp, [temp EXCEPT ![n] = Left]} /\ stage' = [stage EXCEPT ![c] = "done"]
    <3>1. \A m \in FileNames : temp'[m] = temp[m] \/ (m = n /\ temp'[m] = Left)
      BY <2>3 DEF UploadTypeOK
    <3>2. \A d \in Calls \ {c} : stage'[d] = stage[d]
      BY <2>3 DEF UploadTypeOK
    <3>3. ASSUME NEW d \in Calls \ shared, d # c, stage[d] = "parse" PROVE temp'[file[d].name] = d
      BY <1>1, <2>1, <3>1, <3>3 DEF UploadTypeOK, NameInv, Active, StageInv
    <3>4. \A d \in Calls \ shared : \A m \in FileNames :
             temp'[m] = d => stage'[d] \in Holding /\ file[d].name = m
      BY <2>1, <3>1, <3>2 DEF NameInv, Holding
    <3>5. stage'[c] = "done"
      BY <2>3 DEF UploadTypeOK
    <3> QED
      BY <2>1, <3>2, <3>3, <3>4, <3>5 DEF NameInv, Active
  <2> QED
    BY <1>2, <2>2, <2>3 DEF Save, TempName, GoTo
<1>3. CASE Parse(c)
  <2>1. stage[c] = "parse" /\ UNCHANGED <<file, temp, shared>>
    BY <1>3 DEF Parse, storeVars
  <2>2. CASE parsed' = [parsed EXCEPT ![c] = temp[n]] /\ stage' = [stage EXCEPT ![c] = "redis"]
    <3>1. \A d \in Calls \ {c} : stage'[d] = stage[d] /\ parsed'[d] = parsed[d]
      BY <2>2 DEF UploadTypeOK
    <3>2. parsed'[c] = temp[n] /\ stage'[c] = "redis"
      BY <2>2 DEF UploadTypeOK
    <3>3. ASSUME NEW d \in Calls \ shared, d # c PROVE temp[n] # d
      BY <1>1, <2>1, <3>3 DEF NameInv, Active, Holding
    <3>4. c \notin shared => temp[n] = c
      BY <2>1 DEF NameInv
    <3> HIDE DEF n
    <3> QED
      BY <2>1, <3>1, <3>2, <3>3, <3>4 DEF NameInv, Active, Holding
  <2>3. CASE parsed' = parsed /\ stage' = [stage EXCEPT ![c] = "remove"]
    BY <2>1, <2>3 DEF UploadTypeOK, NameInv, Active, Holding
  <2> QED
    BY <1>3, <2>2, <2>3 DEF Parse, TempName, GoTo
<1>4. CASE Remove(c)
  <2>1. /\ stage[c] = "remove" /\ UNCHANGED <<file, parsed, shared>>
        /\ stage' = [stage EXCEPT ![c] = "done"]
    BY <1>4 DEF Remove, storeVars, GoTo
  <2>2. \A d \in Calls \ {c} : stage'[d] = stage[d]
    BY <2>1 DEF UploadTypeOK
  <2>3. stage'[c] = "done"
    BY <2>1 DEF UploadTypeOK
  <2>4. \/ temp' = [temp EXCEPT ![n] = NoCall] \/ temp' = [temp EXCEPT ![n] = Left]
        \/ Removers(c, n) # {} /\ temp' = temp
    BY <1>4 DEF Remove, TempName, UploadTypeOK
  <2>5. \A d \in Removers(c, n) : d \in Calls \ {c} /\ stage[d] \in Active /\ file[d].name = n
    BY DEF Removers, Others
  <2>6. \A m \in FileNames : m # n => temp'[m] = temp[m]
    BY <2>4 DEF UploadTypeOK
  <2>7. temp'[n] \in {NoCall, Left, temp[n]} /\ (c \notin shared => temp'[n] \in {NoCall, Left})
    BY <1>1, <2>1, <2>4, <2>5 DEF UploadTypeOK, NameInv, Active
  <2>8. ASSUME NEW d \in Calls \ shared, d # c, stage[d] = "parse" PROVE temp'[file[d].name] = d
    BY <2>1, <2>6, <2>8 DEF NameInv, Active, StageInv
  <2>9. \A d \in Calls \ shared : \A m \in FileNames :
           temp'[m] = d => stage'[d] \in Holding /\ file[d].name = m
    BY <2>1, <2>2, <2>6, <2>7 DEF NameInv
  <2> QED
    BY <2>1, <2>2, <2>3, <2>8, <2>9 DEF NameInv, Active
<1> QED
  BY <1>2, <1>3, <1>4

LEMMA NamesInductive == CallInv /\ NameInv /\ [Next]_vars => NameInv'
<1> SUFFICES ASSUME CallInv, NameInv, [Next]_vars PROVE NameInv'
  OBVIOUS
<1>1. CASE ServerStep
  <2>1. PICK c \in Calls : UploadStep(c)
    BY <1>1 DEF ServerStep, UploadNext
  <2>2. CASE \E f \in Files : Receive(c, f)
    BY <2>2, NameReceive
  <2>3. CASE Save(c) \/ Parse(c) \/ Remove(c)
    BY <2>3, NameFiles
  <2>4. CASE SendRedis(c)
    BY <2>4, NameStays DEF SendRedis, GoTo, Active
  <2>5. CASE SendDuckdb(c)
    BY <2>5, NameStays DEF SendDuckdb, GoTo, Active
  <2>6. CASE Reply(c)
    BY <2>6, NameStays DEF Reply, GoTo, Active
  <2>7. CASE GiveUp(c) \/ Cancel(c)
    BY <2>7 DEF GiveUp, Cancel, NameInv
  <2> QED
    BY <2>1, <2>2, <2>3, <2>4, <2>5, <2>6, <2>7 DEF UploadStep
<1>2. CASE EngineStep \/ AlarmStep \/ UNCHANGED vars
  <2>1. UNCHANGED callVars
    BY <1>2 DEF EngineStep, AlarmStep, vars, uploadVars
  <2> QED
    BY <2>1 DEF callVars, NameInv
<1>3. CASE ProcessCrash
  <2>1. /\ stage' = [c \in Calls |-> IF stage[c] \in Active THEN "done" ELSE stage[c]]
        /\ temp' = [n \in FileNames |-> IF temp[n] \in Calls THEN Left ELSE temp[n]]
        /\ UNCHANGED <<file, parsed, shared>>
    BY <1>3 DEF ProcessCrash, HandlersDie
  <2>2. \A c \in Calls : stage'[c] \notin Active
    BY <2>1 DEF CallInv, UploadTypeOK, Active
  <2>3. \A n \in FileNames : temp'[n] \notin Calls
    BY <2>1, UploadAssumption DEF CallInv, UploadTypeOK, UploadAssumption
  <2> QED
    BY <2>1, <2>2, <2>3 DEF NameInv, Active
<1> QED
  BY <1>1, <1>2, <1>3 DEF Next

-----------------------------------------------------------------------------
(* What the consumer writes, of which nothing is an upload's *)

\* Its offsets are numbers; while it flushes it has a message, and so a highest
\* one to commit.
EngineInv ==
    /\ position \in Nat /\ committed \in Nat
    /\ batchData \in Seq(Nat) /\ batchMsgs \in Seq(Nat)
    /\ pc # "fetch" => batchMsgs # <<>>
    /\ batchMsgs # <<>> => \E i \in 1..Len(batchMsgs) :
                             \A j \in 1..Len(batchMsgs) : batchMsgs[j] <= batchMsgs[i]

LEMMA EngineFetch == EngineInv /\ Engine!Fetch => EngineInv'
<1> SUFFICES ASSUME EngineInv, Engine!Fetch PROVE EngineInv'
  OBVIOUS
<1>0. /\ position \in Nat /\ committed \in Nat /\ batchData \in Seq(Nat) /\ batchMsgs \in Seq(Nat)
      /\ batchMsgs # <<>> => \E i \in 1..Len(batchMsgs) :
                               \A j \in 1..Len(batchMsgs) : batchMsgs[j] <= batchMsgs[i]
  BY DEF EngineInv
<1>1. PICK p \in Nat : p = position + 1
  BY <1>0
<1>2. /\ p \in Nat /\ position' = p /\ UNCHANGED committed /\ batchMsgs' = Append(batchMsgs, p)
      /\ batchData' \in {batchData, Append(batchData, p)}
  BY <1>1 DEF Engine!Fetch
<1>3. batchData' \in Seq(Nat)
  <2>1. Append(batchData, p) \in Seq(Nat)
    BY <1>0, <1>2, AppendElements
  <2> QED
    BY <1>0, <1>2, <2>1
<1>4. /\ batchMsgs' \in Seq(Nat) /\ Len(batchMsgs') = Len(batchMsgs) + 1 /\ Len(batchMsgs) \in Nat
      /\ \A i \in 1..Len(batchMsgs) : batchMsgs[i] \in Nat /\ batchMsgs'[i] = batchMsgs[i]
      /\ batchMsgs'[Len(batchMsgs) + 1] = p
  BY <1>0, <1>2, AppendElements
<1>5. \A j \in 1..Len(batchMsgs') : j \in 1..Len(batchMsgs) \/ j = Len(batchMsgs) + 1
  BY <1>4
<1>6. \E i \in 1..Len(batchMsgs') : \A j \in 1..Len(batchMsgs') : batchMsgs'[j] <= batchMsgs'[i]
  <2>1. CASE batchMsgs = <<>>
    BY <1>2, <1>4, <1>5, <2>1
  <2>2. CASE batchMsgs # <<>>
    <3>1. PICK i \in 1..Len(batchMsgs) : \A j \in 1..Len(batchMsgs) : batchMsgs[j] <= batchMsgs[i]
      BY <1>0, <2>2
    <3>2. CASE batchMsgs[i] <= p
      <4>1. \A j \in 1..Len(batchMsgs') : batchMsgs'[j] <= p
        BY <1>2, <1>4, <1>5, <3>1, <3>2
      <4>2. Len(batchMsgs) + 1 \in 1..Len(batchMsgs')
        BY <1>4
      <4> QED
        BY <1>4, <4>1, <4>2
    <3>3. CASE p <= batchMsgs[i]
      <4>1. \A j \in 1..Len(batchMsgs') : batchMsgs'[j] <= batchMsgs'[i]
        BY <1>2, <1>4, <1>5, <3>1, <3>3
      <4> QED
        BY <1>4, <4>1
    <3>4. batchMsgs[i] \in Nat
      BY <1>4, <3>1
    <3>5. batchMsgs[i] <= p \/ p <= batchMsgs[i]
      BY <1>2, <3>4
    <3> QED
      BY <3>2, <3>3, <3>5
  <2> QED
    BY <2>1, <2>2
<1>7. batchMsgs' # <<>>
  BY <1>4
<1> QED
  BY <1>0, <1>2, <1>3, <1>4, <1>6, <1>7 DEF EngineInv

LEMMA EngineCommit == EngineInv /\ Engine!Commit => EngineInv'
<1> SUFFICES ASSUME EngineInv, Engine!Commit PROVE EngineInv'
  OBVIOUS
<1> USE DEF EngineInv
<1> DEFINE S == {batchMsgs[i] : i \in 1..Len(batchMsgs)}
<1>1. pc = "commit" /\ pc' = "fetch" /\ batchData' = <<>> /\ batchMsgs' = <<>> /\ position' = position
      /\ committed' \in {committed, Engine!CommitOffset}
  BY DEF Engine!Commit
<1>2. \E o \in S : \A i \in 1..Len(batchMsgs) : batchMsgs[i] <= o
  BY <1>1
<1>3. Engine!CommitOffset \in S
  BY <1>2 DEF Engine!CommitOffset, Engine!LastOfBatch
<1>4. S \subseteq Nat
  OBVIOUS
<1> QED
  BY <1>1, <1>3, <1>4

LEMMA EngineInductive == EngineInv /\ [Next]_vars => EngineInv'
<1> SUFFICES ASSUME EngineInv, [Next]_vars PROVE EngineInv'
  OBVIOUS
<1>1. CASE EngineStep
  <2>1. CASE Engine!Fetch
    BY <2>1, EngineFetch
  <2>2. CASE Engine!Commit
    BY <2>2, EngineCommit
  <2>3. CASE Engine!Timeout
    BY <2>3 DEF Engine!Timeout, EngineInv
  <2>4. CASE Engine!Rebalance
    BY <2>4 DEF Engine!Rebalance, EngineInv
  <2>5. CASE (\E m \in Messages : Engine!Produce(m)) \/ Engine!CooldownEnds
    BY <2>5 DEF Engine!Produce, Engine!CooldownEnds, EngineInv
  <2>6. CASE Engine!Alert \/ Engine!SendRedis \/ Engine!SendDuckdb
    <3>1. pc # "fetch" /\ UNCHANGED <<position, committed, batchData, batchMsgs>>
      BY <2>6 DEF Engine!Alert, Engine!SendRedis, Engine!SendDuckdb
    <3> QED
      BY <3>1 DEF EngineInv
  <2> QED
    BY <1>1, <2>1, <2>2, <2>3, <2>4, <2>5, <2>6 DEF EngineStep, Engine!EngineNext, Engine!Flush
<1>2. CASE ServerStep \/ AlarmStep \/ UNCHANGED vars
  <2>1. UNCHANGED <<position, committed, pc, batchData, batchMsgs>>
    BY <1>2 DEF ServerStep, AlarmStep, vars, engine
  <2> QED
    BY <2>1 DEF EngineInv
<1>3. CASE ProcessCrash
  BY <1>3 DEF ProcessCrash, Engine!Restart, EngineInv
<1> QED
  BY <1>1, <1>2, <1>3 DEF Next

\* The numbers of the rows of one call in a queue that was appended to.
LEMMA RowsAppended ==
    ASSUME NEW S, writeQueue \in Seq(S), NEW s \in Seq(S), writeQueue' = writeQueue \o s, NEW c
    PROVE  RowsQueued(c)' = RowsQueued(c) \cup {s[i].row : i \in {j \in 1..Len(s) : s[j].data = c}}
<1> DEFINE new == {s[i].row : i \in {j \in 1..Len(s) : s[j].data = c}}
           n == Len(writeQueue)
<1>1. /\ n \in Nat /\ Len(s) \in Nat /\ Len(writeQueue') = n + Len(s)
      /\ \A i \in 1..n : writeQueue'[i] = writeQueue[i]
      /\ \A i \in 1..Len(s) : writeQueue'[n + i] = s[i]
  OBVIOUS
<1> HIDE DEF n
<1>2. \A i \in 1..Len(writeQueue') : i \in 1..n \/ (i - n \in 1..Len(s) /\ n + (i - n) = i)
  BY <1>1
<1>3. RowsQueued(c)' \subseteq RowsQueued(c) \cup new
  <2> SUFFICES ASSUME NEW i \in 1..Len(writeQueue'), writeQueue'[i].data = c
               PROVE  writeQueue'[i].row \in RowsQueued(c) \cup new
    BY DEF RowsQueued
  <2>1. CASE i \in 1..n
    BY <1>1, <2>1 DEF RowsQueued, n
  <2>2. CASE i - n \in 1..Len(s) /\ n + (i - n) = i
    <3>1. writeQueue'[i] = s[i - n]
      BY <1>1, <2>2
    <3> QED
      BY <2>2, <3>1
  <2> QED
    BY <1>2, <2>1, <2>2
<1>4. RowsQueued(c) \subseteq RowsQueued(c)'
  <2> SUFFICES ASSUME NEW i \in 1..n, writeQueue[i].data = c
               PROVE  writeQueue[i].row \in RowsQueued(c)'
    BY DEF RowsQueued, n
  <2>1. i \in 1..Len(writeQueue') /\ writeQueue'[i] = writeQueue[i]
    BY <1>1
  <2> QED
    BY <2>1 DEF RowsQueued
<1>5. new \subseteq RowsQueued(c)'
  <2> SUFFICES ASSUME NEW i \in 1..Len(s), s[i].data = c PROVE s[i].row \in RowsQueued(c)'
    OBVIOUS
  <2>1. n + i \in 1..Len(writeQueue') /\ writeQueue'[n + i] = s[i]
    BY <1>1
  <2> QED
    BY <2>1 DEF RowsQueued
<1> QED
  BY <1>3, <1>4, <1>5

\* A row the consumer pushes belongs to no call.
LEMMA EngineRows ==
    ASSUME StoreInv, UploadTypeOK, NEW s \in Seq(Nat), Engine!PushRows(s)
    PROVE  writeQueue' \in Seq(QueueRows) /\ \A c \in Calls : RowsQueued(c)' = RowsQueued(c)
<1> DEFINE rows == [i \in 1..Len(s) |-> [n |-> pushed + i, table |-> FeaturesTable, data |-> s[i]]]
<1>1. /\ writeQueue' = writeQueue \o rows /\ writeQueue \in Seq(QueueRows)
      /\ pushed \in Nat /\ Len(s) \in Nat
      /\ \A i \in 1..Len(s) : s[i] \in Nat
  BY UploadAssumption DEF Engine!PushRows, StoreInv, UploadTypeOK, UploadAssumption
<1>2. \A i \in 1..Len(s) : rows[i] \in QueueRows /\ rows[i].data = s[i]
  BY SMTT(30), <1>1 DEF QueueRows
<1>3. rows \in Seq(QueueRows) /\ Len(rows) = Len(s)
  BY <1>1, <1>2
<1> HIDE DEF rows
<1>4. \A d : RowsQueued(d)' = RowsQueued(d) \cup {rows[i].row : i \in {j \in 1..Len(rows) : rows[j].data = d}}
  BY <1>1, <1>3, RowsAppended
<1>5. \A d \in Calls : {j \in 1..Len(rows) : rows[j].data = d} = {}
  BY <1>1, <1>2, <1>3, ServiceAAssumption DEF ServiceAAssumption
<1>6. \A d \in Calls : RowsQueued(d)' = RowsQueued(d)
  BY <1>4, <1>5
<1>7. writeQueue' \in Seq(QueueRows)
  BY <1>1, <1>3
<1> QED
  BY <1>6, <1>7

\* What SendBatch_Duckdb_Queue of the consumer pushes are numbers.
LEMMA EngineSendsNumbers ==
    ASSUME EngineInv, Engine!SendDuckdb
    PROVE  \E s \in Seq(Nat) : Engine!PushRows(s)
<1>1. batchData \in Seq(Nat) /\ Len(batchData) \in Nat
  BY DEF EngineInv
<1>2. \A n \in 0..Len(batchData) : SubSeq(batchData, 1, n) \in Seq(Nat)
  BY <1>1
<1>3. CASE \E n \in Engine!Applied : Engine!PushRows(SubSeq(batchData, 1, n))
  <2>1. PICK n \in Engine!Applied : Engine!PushRows(SubSeq(batchData, 1, n))
    BY <1>3
  <2>2. n \in 0..Len(batchData)
    BY <1>1 DEF Engine!Applied
  <2> QED
    BY <1>2, <2>1, <2>2
<1>4. CASE \E n \in 1..Len(batchData) : Engine!PushRows(SubSeq(batchData, 1, n) \o batchData)
  <2>1. PICK n \in 1..Len(batchData) : Engine!PushRows(SubSeq(batchData, 1, n) \o batchData)
    BY <1>4
  <2>2. SubSeq(batchData, 1, n) \o batchData \in Seq(Nat)
    BY <1>1, <1>2
  <2> QED
    BY <2>1, <2>2
<1> QED
  BY <1>3, <1>4 DEF Engine!SendDuckdb

\* What the SET commands of the consumer write are numbers.
LEMMA EngineSetsNumbers ==
    ASSUME EngineInv, StoreInv, Engine!SendRedis
    PROVE  /\ online' \in [FeatureKeys -> Nat \cup Calls]
           /\ \A k \in FeatureKeys : online'[k] \in Calls => online'[k] = online[k]
<1>1. PICK n \in Engine!Applied : online' = Engine!AfterSets(n)
  BY DEF Engine!SendRedis
<1>2. n \in Nat /\ n <= Len(batchData) /\ batchData \in Seq(Nat)
  BY DEF EngineInv, Engine!Applied
<1>3. ASSUME NEW k \in FeatureKeys PROVE online'[k] = online[k] \/ online'[k] \in Nat
  <2> DEFINE sets == {i \in 1..n : log[batchData[i]].key = k}
             last == CHOOSE i \in sets : \A j \in sets : j <= i
  <2>1. online'[k] = IF sets = {} THEN online[k] ELSE batchData[last]
    BY <1>1 DEF Engine!AfterSets
  <2>2. sets \subseteq 1..n
    OBVIOUS
  <2> HIDE DEF sets
  <2>3. CASE sets # {}
    <3>1. last \in 1..n
      BY <1>2, <2>2, <2>3, LastPosition
    <3> HIDE DEF last
    <3> QED
      BY <1>2, <2>1, <2>3, <3>1
  <2> QED
    BY <2>1, <2>3
<1>4. online' = [k \in FeatureKeys |-> online'[k]]
  BY <1>1 DEF Engine!AfterSets
<1>5. \A k \in FeatureKeys : online'[k] \in Nat \cup Calls
  BY <1>3 DEF StoreInv
<1> QED
  BY <1>3, <1>4, <1>5, ServiceAAssumption DEF ServiceAAssumption

\* No step of the consumer changes what the store and the queue hold of a call,
\* but that it may write over it.
LEMMA EngineWrites ==
    ASSUME EngineInv, StoreInv, UploadTypeOK, EngineStep
    PROVE  /\ StoreInv'
           /\ \A c \in Calls : RowsQueued(c)' = RowsQueued(c)
           /\ \A k \in FeatureKeys : online'[k] \in Calls => online'[k] = online[k]
<1>1. CASE Engine!SendRedis
  <2>1. UNCHANGED writeQueue
    BY <1>1 DEF Engine!SendRedis, Engine!queueVars
  <2> QED
    BY <1>1, <2>1, EngineSetsNumbers DEF StoreInv, RowsQueued
<1>2. CASE Engine!SendDuckdb
  <2>1. UNCHANGED online
    BY <1>2 DEF Engine!SendDuckdb
  <2>2. PICK s \in Seq(Nat) : Engine!PushRows(s)
    BY <1>2, EngineSendsNumbers
  <2>3. writeQueue' \in Seq(QueueRows) /\ \A c \in Calls : RowsQueued(c)' = RowsQueued(c)
    BY <2>2, EngineRows
  <2> QED
    BY <2>1, <2>3 DEF StoreInv
<1>3. CASE UNCHANGED <<online, writeQueue>>
  BY <1>3 DEF StoreInv, RowsQueued
<1>4. Engine!SendRedis \/ Engine!SendDuckdb \/ UNCHANGED <<online, writeQueue>>
  BY DEF EngineStep, Engine!EngineNext, Engine!Produce, Engine!Fetch, Engine!Timeout, Engine!Flush,
         Engine!Alert, Engine!Commit, Engine!CooldownEnds, Engine!Rebalance, Engine!queueVars
<1> QED
  BY <1>1, <1>2, <1>3, <1>4

-----------------------------------------------------------------------------
(* What the handlers write *)

\* A push of rows of the call that was parsed.
LEMMA UploadRows ==
    ASSUME StoreInv, UploadTypeOK, NEW c \in Calls, NEW p \in Calls, parsed[c] = p,
           NEW s \in Seq(Nat), PushRows(c, s)
    PROVE  /\ writeQueue' \in Seq(QueueRows)
           /\ RowsQueued(p)' = RowsQueued(p) \cup {s[i] : i \in 1..Len(s)}
           /\ \A d \in Calls \ {p} : RowsQueued(d)' = RowsQueued(d)
<1> DEFINE rows == [i \in 1..Len(s) |-> [n |-> pushed + i, table |-> FeaturesTable,
                                        data |-> p, row |-> s[i]]]
<1>1. /\ writeQueue' = writeQueue \o rows /\ writeQueue \in Seq(QueueRows)
      /\ pushed \in Nat /\ Len(s) \in Nat
      /\ \A i \in 1..Len(s) : s[i] \in Nat
  BY UploadAssumption DEF PushRows, StoreInv, UploadTypeOK, UploadAssumption
<1>2. \A i \in 1..Len(s) : rows[i] \in QueueRows /\ rows[i].data = p /\ rows[i].row = s[i]
  BY <1>1 DEF QueueRows
<1>3. rows \in Seq(QueueRows) /\ Len(rows) = Len(s)
  BY <1>1, <1>2
<1> HIDE DEF rows
<1>4. \A d : RowsQueued(d)' = RowsQueued(d) \cup {rows[i].row : i \in {j \in 1..Len(rows) : rows[j].data = d}}
  BY <1>1, <1>3, RowsAppended
<1>5. {rows[i].row : i \in {j \in 1..Len(rows) : rows[j].data = p}} = {s[i] : i \in 1..Len(s)}
  <2>1. {j \in 1..Len(rows) : rows[j].data = p} = 1..Len(s)
    BY <1>2, <1>3
  <2> QED
    BY <1>2, <2>1
<1>6. \A d \in Calls \ {p} : {j \in 1..Len(rows) : rows[j].data = d} = {}
  BY <1>2, <1>3
<1>7. RowsQueued(p)' = RowsQueued(p) \cup {s[i] : i \in 1..Len(s)}
  <2>1. RowsQueued(p)' = RowsQueued(p) \cup {rows[i].row : i \in {j \in 1..Len(rows) : rows[j].data = p}}
    BY <1>4
  <2> QED
    BY <1>5, <2>1
<1>8. \A d \in Calls \ {p} : RowsQueued(d)' = RowsQueued(d)
  BY <1>4, <1>6
<1>9. writeQueue' \in Seq(QueueRows)
  BY <1>1, <1>3
<1> QED
  BY <1>7, <1>8, <1>9

\* Every element of S is one of s.
Covers(s, S) == \A r \in S : \E i \in 1..Len(s) : s[i] = r

\* The commands of a pipeline are the rows that can be encoded, all of them.
LEMMA CommandFacts ==
    ASSUME CallInv, NEW c \in Calls, NEW p \in Calls, parsed[c] = p, NEW s \in Commands(c)
    PROVE  /\ s \in Seq(Encodable(file[p])) /\ Encodable(file[p]) \subseteq Nat
           /\ Covers(s, Encodable(file[p]))
<1> DEFINE E == Encodable(file[p])
<1>1. file[p].rows \in Seq([key : FeatureKeys, encodable : BOOLEAN])
  <2>1. file[p] \in Files
    BY DEF CallInv, StageInv
  <2> QED
    BY <2>1, UploadAssumption DEF UploadAssumption
<1>2. PICK L \in Nat : L = Len(file[p].rows)
  BY <1>1
<1>3. E \in SUBSET (1..L)
  BY <1>2 DEF Encodable
<1> HIDE DEF E
<1>4. Cardinality(E) \in Nat
  <2>1. IsFiniteSet(1..L)
    BY <1>2, FS_Interval
  <2>2. IsFiniteSet(E)
    BY <1>3, <2>1, FS_Subset
  <2> QED
    BY <2>2, FS_CardinalityType
<1>5. s \in [1..Cardinality(E) -> E] /\ \A r \in E : \E i \in DOMAIN s : s[i] = r
  BY DEF Commands, E
<1>6. s \in Seq(E) /\ DOMAIN s = 1..Len(s)
  BY <1>4, <1>5
<1>7. E \subseteq Nat
  BY <1>2, <1>3
<1> QED
  BY <1>5, <1>6, <1>7 DEF E, Covers

\* Two sequences one after the other.
LEMMA JoinElements ==
    ASSUME NEW S, NEW a \in Seq(S), NEW b \in Seq(S)
    PROVE  /\ a \o b \in Seq(S) /\ Len(a \o b) = Len(a) + Len(b)
           /\ \A i \in 1..Len(a) : (a \o b)[i] = a[i]
           /\ \A i \in 1..Len(b) : (a \o b)[Len(a) + i] = b[i]
<1>1. a \o b \in Seq(S) /\ Len(a \o b) = Len(a) + Len(b)
  OBVIOUS
<1> QED
  BY <1>1

\* What SendBatch_Duckdb_Queue pushes of an upload: rows that can be encoded, all
\* of them unless the pipeline fails, and none once the context has ended.
LEMMA DuckdbWrites ==
    ASSUME CallInv, NEW c \in Calls, NEW p \in Calls, parsed[c] = p, SendDuckdb(c)
    PROVE  \E s \in Seq(Nat) :
             /\ PushRows(c, s)
             /\ \A i \in 1..Len(s) : s[i] \in Encodable(file[p])
             /\ c \in failed' \/ \A r \in Encodable(file[p]) : \E i \in 1..Len(s) : s[i] = r
             /\ Cancelled(c) => Len(s) = 0
<1>1. PICK s \in Commands(c) :
        \/ PushRows(c, s) /\ Succeeds(c, s)
        \/ \E n \in 0..Len(s) : PushRows(c, SubSeq(s, 1, n)) /\ Fails(c, s, n)
        \/ ~Cancelled(c) /\ \E n \in 1..Len(s) : PushRows(c, SubSeq(s, 1, n) \o s)
  BY DEF SendDuckdb
<1> DEFINE E == Encodable(file[p])
<1>2. s \in Seq(E) /\ E \subseteq Nat /\ \A r \in E : \E i \in 1..Len(s) : s[i] = r
  <2>1. s \in Seq(Encodable(file[p]))
    BY CommandFacts
  <2>2. Encodable(file[p]) \subseteq Nat
    BY CommandFacts
  <2>3. Covers(s, Encodable(file[p]))
    BY CommandFacts
  <2> QED
    BY <2>1, <2>2, <2>3 DEF Covers
<1> HIDE DEF E
<1>3. s \in Seq(Nat) /\ Len(s) \in Nat /\ \A i \in 1..Len(s) : s[i] \in E
  <2>1. Len(s) \in Nat /\ \A i \in 1..Len(s) : s[i] \in E
    BY <1>2
  <2>2. s = [i \in 1..Len(s) |-> s[i]]
    BY <1>2
  <2>3. \A i \in 1..Len(s) : s[i] \in Nat
    BY <1>2, <2>1
  <2> QED
    BY <2>1, <2>2, <2>3
<1>4. CASE PushRows(c, s) /\ Succeeds(c, s)
  <2>1. Cancelled(c) => Len(s) = 0
    BY <1>4 DEF Succeeds
  <2> QED
    BY <1>2, <1>3, <1>4, <2>1 DEF E
<1>5. CASE \E n \in 0..Len(s) : PushRows(c, SubSeq(s, 1, n)) /\ Fails(c, s, n)
  <2>1. PICK n \in 0..Len(s) : PushRows(c, SubSeq(s, 1, n)) /\ Fails(c, s, n)
    BY <1>5
  <2>2. c \in failed' /\ (Cancelled(c) => n = 0)
    BY <2>1 DEF Fails
  <2> DEFINE t == SubSeq(s, 1, n)
  <2>3. t \in Seq(Nat) /\ Len(t) = n /\ \A i \in 1..Len(t) : t[i] \in E
    BY <1>3
  <2>4. PushRows(c, t)
    BY <2>1
  <2> HIDE DEF t
  <2> QED
    BY <2>2, <2>3, <2>4 DEF E
<1>6. CASE ~Cancelled(c) /\ \E n \in 1..Len(s) : PushRows(c, SubSeq(s, 1, n) \o s)
  <2>1. PICK n \in 1..Len(s) : PushRows(c, SubSeq(s, 1, n) \o s)
    BY <1>6
  <2> DEFINE a == SubSeq(s, 1, n)
             t == a \o s
  <2>2. /\ n \in Nat /\ a \in Seq(Nat) /\ Len(a) = n /\ \A i \in 1..n : a[i] \in E
    BY <1>3
  <2> HIDE DEF a
  <2>3. /\ t \in Seq(Nat) /\ Len(t) = n + Len(s)
        /\ \A i \in 1..n : t[i] = a[i]
        /\ \A i \in 1..Len(s) : t[n + i] = s[i]
    <3>1. s \in Seq(Nat) /\ a \in Seq(Nat) /\ Len(a) = n
      BY <1>3, <2>2
    <3>2. /\ t \in Seq(Nat) /\ Len(t) = Len(a) + Len(s)
          /\ \A i \in 1..Len(a) : t[i] = a[i]
          /\ \A i \in 1..Len(s) : t[Len(a) + i] = s[i]
      <4>1. t \in Seq(Nat) /\ Len(t) = Len(a) + Len(s)
        BY <3>1, JoinElements
      <4>2. \A i \in 1..Len(a) : t[i] = a[i]
        BY <3>1, JoinElements
      <4>3. \A i \in 1..Len(s) : t[Len(a) + i] = s[i]
        BY SMTT(30), <3>1, JoinElements
      <4> QED
        BY <4>1, <4>2, <4>3
    <3> HIDE DEF t
    <3> QED
      BY <3>1, <3>2
  <2>4. PushRows(c, t)
    BY <2>1 DEF a
  <2> HIDE DEF t
  <2>5. ASSUME NEW i \in 1..Len(t) PROVE t[i] \in E
    <3>1. CASE i \in 1..n
      BY <2>2, <2>3, <3>1
    <3>2. CASE i - n \in 1..Len(s) /\ n + (i - n) = i
      <4>1. t[n + (i - n)] = s[i - n]
        BY <2>3, <3>2
      <4> QED
        BY <1>3, <3>2, <4>1
    <3> QED
      BY <1>3, <2>2, <2>3, <3>1, <3>2
  <2>6. ASSUME NEW r \in E PROVE \E i \in 1..Len(t) : t[i] = r
    <3>1. PICK i \in 1..Len(s) : s[i] = r
      BY <1>2
    <3>2. n + i \in 1..Len(t) /\ t[n + i] = r
      BY SMTT(30), <1>3, <2>2, <2>3, <3>1
    <3> QED
      BY <3>2
  <2> QED
    BY <1>6, <2>3, <2>4, <2>5, <2>6 DEF E
<1> QED
  BY <1>1, <1>4, <1>5, <1>6

\* What SendBatch_Redis writes of an upload.
LEMMA RedisWrites ==
    ASSUME CallInv, NEW c \in Calls, NEW p \in Calls, parsed[c] = p, SendRedis(c)
    PROVE  /\ online' = [k \in FeatureKeys |-> online'[k]]
           /\ \A k \in FeatureKeys : online'[k] = online[k] \/ (online'[k] = p /\ ~Cancelled(c))
<1>1. PICK s \in Commands(c) :
        \/ SetRows(c, s) /\ Succeeds(c, s)
        \/ \E n \in 0..Len(s) : SetRows(c, SubSeq(s, 1, n)) /\ Fails(c, s, n)
  BY DEF SendRedis
<1>2. s \in Seq(Encodable(file[p]))
  BY CommandFacts
<1>3. \E t : SetRows(c, t) /\ (Cancelled(c) => Len(t) = 0)
  <2>1. CASE SetRows(c, s) /\ Succeeds(c, s)
    <3>1. Cancelled(c) => Len(s) = 0
      BY <2>1 DEF Succeeds
    <3> QED
      BY <2>1, <3>1
  <2>2. CASE \E n \in 0..Len(s) : SetRows(c, SubSeq(s, 1, n)) /\ Fails(c, s, n)
    <3>1. PICK n \in 0..Len(s) : SetRows(c, SubSeq(s, 1, n)) /\ Fails(c, s, n)
      BY <2>2
    <3>2. Cancelled(c) => n = 0
      BY <3>1 DEF Fails
    <3>3. Len(SubSeq(s, 1, n)) = n
      BY <1>2
    <3> QED
      BY <3>1, <3>2, <3>3
  <2> QED
    BY <1>1, <2>1, <2>2
<1>4. PICK t : SetRows(c, t) /\ (Cancelled(c) => Len(t) = 0)
  BY <1>3
<1>5. (\E i \in 1..Len(t) : TRUE) => ~Cancelled(c)
  BY <1>4
<1>6. online' = [k \in FeatureKeys |->
                   IF \E i \in 1..Len(t) : file[p].rows[t[i]].key = k THEN p ELSE online[k]]
  BY <1>4 DEF SetRows
<1> QED
  BY <1>5, <1>6

-----------------------------------------------------------------------------
(* Answers and traces *)

\* The handler of c has yet to write to the store, or to the queue, or will not;
\* or it has pushed what it will push.
StoreAhead(c) == stage[c] \in Early \cup {"redis"} \/ answer[c] = "failure"
QueueAhead(c) == stage[c] \in Early \cup {"redis", "duckdb"} \/ answer[c] = "failure"
Finished(c)   == c \notin failed /\ (stage[c] = "reply" \/ answer[c] = "success")

\* What a call that met no other one has left behind so far.
TraceInv == \A c \in Calls \ shared :
    /\ StoreAhead(c) => \A k \in FeatureKeys : online[k] # c
    /\ QueueAhead(c) => RowsQueued(c) = {}
    /\ Finished(c) => RowsQueued(c) = Encodable(file[c])

\* What a step has to leave alone for the traces to stay right, if it writes
\* nothing of these calls.
LEMMA TraceStays ==
    ASSUME TraceInv,
           \A c \in Calls \ shared' :
              /\ c \notin shared
              /\ StoreAhead(c)' => StoreAhead(c)
              /\ QueueAhead(c)' => QueueAhead(c)
              /\ Finished(c)' => Finished(c) /\ file'[c] = file[c]
              /\ RowsQueued(c)' = RowsQueued(c)
              /\ \A k \in FeatureKeys : online'[k] = c => online[k] = c
    PROVE  TraceInv'
  BY DEF TraceInv

\* A step of one handler that writes nothing and goes on to s.
LEMMA TraceHandler ==
    ASSUME CallInv, TraceInv, NEW c \in Calls, UNCHANGED <<online, writeQueue>>,
           shared \subseteq shared', failed' = failed,
           \A d \in Calls \ {c} : UNCHANGED <<stage[d], answer[d], file[d]>>,
           StoreAhead(c)' => StoreAhead(c), QueueAhead(c)' => QueueAhead(c),
           Finished(c)' => Finished(c) /\ file'[c] = file[c]
    PROVE  TraceInv'
<1>1. \A d : RowsQueued(d)' = RowsQueued(d)
  BY DEF RowsQueued
<1>2. \A d \in Calls : /\ StoreAhead(d)' => StoreAhead(d)
                       /\ QueueAhead(d)' => QueueAhead(d)
                       /\ Finished(d)' => Finished(d) /\ file'[d] = file[d]
  BY DEF StoreAhead, QueueAhead, Finished
<1>3. \A d \in Calls \ shared' :
         /\ d \notin shared
         /\ StoreAhead(d)' => StoreAhead(d)
         /\ QueueAhead(d)' => QueueAhead(d)
         /\ Finished(d)' => Finished(d) /\ file'[d] = file[d]
         /\ RowsQueued(d)' = RowsQueued(d)
         /\ \A k \in FeatureKeys : online'[k] = d => online[k] = d
  BY <1>1, <1>2 DEF StoreAhead, QueueAhead, Finished
<1> QED
  BY <1>3, TraceStays

LEMMA TraceSteps ==
    ASSUME CallInv, TraceInv, NEW c \in Calls,
           (\E f \in Files : Receive(c, f)) \/ Save(c) \/ Parse(c) \/ Reply(c) \/ Remove(c)
           \/ GiveUp(c) \/ Cancel(c)
    PROVE  TraceInv'
<1> USE DEF CallInv
<1>1. CASE \E f \in Files : Receive(c, f)
  <2>1. /\ stage[c] = "none" /\ stage' = [stage EXCEPT ![c] = "save"]
        /\ \E f \in Files : file' = [file EXCEPT ![c] = f]
        /\ shared \subseteq shared' /\ UNCHANGED <<answer, failed, online, writeQueue>>
    BY <1>1 DEF Receive, GoTo, SendFile, storeVars
  <2>2. /\ \A d \in Calls \ {c} : UNCHANGED <<stage[d], answer[d], file[d]>>
        /\ stage'[c] = "save" /\ answer[c] # "success"
    BY <2>1 DEF UploadTypeOK, StageInv
  <2> QED
    BY <2>1, <2>2, TraceHandler DEF StoreAhead, QueueAhead, Finished, Early
<1>2. CASE Save(c)
  <2>1. /\ stage[c] = "save" /\ UNCHANGED <<file, shared, failed, online, writeQueue>>
        /\ \/ stage' = [stage EXCEPT ![c] = "parse"] /\ answer' = answer
           \/ /\ stage' = [stage EXCEPT ![c] = "done"]
              /\ answer' = [answer EXCEPT ![c] = IF @ = "none" THEN "failure" ELSE @]
    BY <1>2 DEF Save, GoTo, Answer, storeVars
  <2>2. /\ \A d \in Calls \ {c} : UNCHANGED <<stage[d], answer[d], file[d]>>
        /\ stage'[c] # "reply" /\ answer[c] # "success" /\ answer'[c] # "success"
    BY <2>1 DEF UploadTypeOK, StageInv
  <2> QED
    BY <2>1, <2>2, TraceHandler DEF StoreAhead, QueueAhead, Finished, Early
<1>3. CASE Parse(c)
  <2>1. /\ stage[c] = "parse" /\ UNCHANGED <<file, shared, failed, online, writeQueue>>
        /\ \/ stage' = [stage EXCEPT ![c] = "redis"] /\ answer' = answer
           \/ /\ stage' = [stage EXCEPT ![c] = "remove"]
              /\ answer' = [answer EXCEPT ![c] = IF @ = "none" THEN "failure" ELSE @]
    BY <1>3 DEF Parse, GoTo, Answer, storeVars
  <2>2. /\ \A d \in Calls \ {c} : UNCHANGED <<stage[d], answer[d], file[d]>>
        /\ stage'[c] # "reply" /\ answer[c] # "success" /\ answer'[c] # "success"
    BY <2>1 DEF UploadTypeOK, StageInv
  <2> QED
    BY <2>1, <2>2, TraceHandler DEF StoreAhead, QueueAhead, Finished, Early
<1>4. CASE Reply(c)
  <2>1. /\ stage[c] = "reply" /\ UNCHANGED <<file, shared, failed, online, writeQueue>>
        /\ stage' = [stage EXCEPT ![c] = "remove"]
        /\ answer' = [answer EXCEPT ![c] = IF @ = "none" THEN "success" ELSE @]
    BY <1>4 DEF Reply, GoTo, Answer, storeVars
  <2>2. /\ \A d \in Calls \ {c} : UNCHANGED <<stage[d], answer[d], file[d]>>
        /\ stage'[c] = "remove" /\ answer'[c] # "failure"
    BY <2>1 DEF UploadTypeOK, StageInv
  <2> QED
    BY <2>1, <2>2, TraceHandler DEF StoreAhead, QueueAhead, Finished, Early
<1>5. CASE Remove(c)
  <2>1. /\ stage[c] = "remove" /\ UNCHANGED <<file, answer, shared, failed, online, writeQueue>>
        /\ stage' = [stage EXCEPT ![c] = "done"]
    BY <1>5 DEF Remove, GoTo, storeVars
  <2>2. /\ \A d \in Calls \ {c} : UNCHANGED <<stage[d], answer[d], file[d]>>
        /\ stage'[c] = "done"
    BY <2>1 DEF UploadTypeOK
  <2> QED
    BY <2>1, <2>2, TraceHandler DEF StoreAhead, QueueAhead, Finished, Early
<1>6. CASE GiveUp(c)
  <2>1. /\ UNCHANGED <<stage, file, shared, failed, online, writeQueue>>
        /\ answer' = [answer EXCEPT ![c] = "timeout"]
    BY <1>6 DEF GiveUp, storeVars
  <2>2. /\ \A d \in Calls \ {c} : UNCHANGED <<stage[d], answer[d], file[d]>>
        /\ answer'[c] = "timeout"
    BY <2>1 DEF UploadTypeOK
  <2> QED
    BY <2>1, <2>2, TraceHandler DEF StoreAhead, QueueAhead, Finished, Early
<1>7. CASE Cancel(c)
  BY <1>7, TraceHandler DEF Cancel, storeVars, StoreAhead, QueueAhead, Finished
<1> QED
  BY <1>1, <1>2, <1>3, <1>4, <1>5, <1>6, <1>7

\* The handler of a call writes the store and the queue of its own call, or of
\* one that shares its name.
LEMMA TraceRedis ==
    ASSUME CallInv, NameInv, TraceInv, NEW c \in Calls, SendRedis(c)
    PROVE  TraceInv'
<1>0. UploadTypeOK /\ StageInv
  BY DEF CallInv
<1>1. /\ stage[c] = "redis" /\ stage' = [stage EXCEPT ![c] = "duckdb"] /\ failed \subseteq failed'
      /\ UNCHANGED <<file, answer, shared, writeQueue>>
  BY DEF SendRedis, GoTo, Fails, Succeeds
<1>2. PICK p \in Calls : parsed[c] = p
  BY <1>0, <1>1 DEF StageInv
<1>3. \A k \in FeatureKeys : online'[k] \in {online[k], p}
  BY <1>2, RedisWrites
<1>4. \A d \in Calls \ {c} : stage'[d] = stage[d] /\ (d \notin shared => p # d)
  BY <1>0, <1>1, <1>2 DEF UploadTypeOK, NameInv
<1>5. stage'[c] = "duckdb" /\ answer[c] \notin {"success", "failure"}
  BY <1>0, <1>1 DEF UploadTypeOK, StageInv
<1>6. \A d \in Calls : /\ StoreAhead(d)' => d # c /\ StoreAhead(d)
                       /\ QueueAhead(d)' => QueueAhead(d)
                       /\ Finished(d)' => Finished(d)
  BY <1>1, <1>4, <1>5 DEF StoreAhead, QueueAhead, Finished, Early
<1>7. \A d : RowsQueued(d)' = RowsQueued(d)
  BY <1>1 DEF RowsQueued
<1>8. \A d \in Calls \ shared' :
         /\ StoreAhead(d)' => \A k \in FeatureKeys : online'[k] # d
         /\ QueueAhead(d)' => RowsQueued(d)' = {}
         /\ Finished(d)' => RowsQueued(d)' = Encodable(file'[d])
  <2> SUFFICES ASSUME NEW d \in Calls \ shared'
               PROVE  /\ StoreAhead(d)' => \A k \in FeatureKeys : online'[k] # d
                      /\ QueueAhead(d)' => RowsQueued(d)' = {}
                      /\ Finished(d)' => RowsQueued(d)' = Encodable(file'[d])
    OBVIOUS
  <2>1. d \in Calls /\ d \notin shared
    BY <1>1
  <2>2. /\ StoreAhead(d)' => d # c /\ StoreAhead(d)
        /\ QueueAhead(d)' => QueueAhead(d)
        /\ Finished(d)' => Finished(d)
    BY <1>6, <2>1
  <2>3. RowsQueued(d)' = RowsQueued(d) /\ file'[d] = file[d]
    BY <1>1, <1>7
  <2>4. StoreAhead(d)' => \A k \in FeatureKeys : online'[k] # d
    BY <1>3, <1>4, <2>1, <2>2 DEF TraceInv
  <2> QED
    BY <2>1, <2>2, <2>3, <2>4 DEF TraceInv
<1> QED
  BY <1>8 DEF TraceInv

LEMMA TraceDuckdb ==
    ASSUME CallInv, StoreInv, NameInv, TraceInv, NEW c \in Calls, SendDuckdb(c)
    PROVE  TraceInv'
<1>0. UploadTypeOK /\ StageInv
  BY DEF CallInv
<1>1. /\ stage[c] = "duckdb" /\ stage' = [stage EXCEPT ![c] = "reply"] /\ failed \subseteq failed'
      /\ UNCHANGED <<file, answer, shared, online>>
  BY DEF SendDuckdb, GoTo, Fails, Succeeds
<1>2. PICK p \in Calls : parsed[c] = p
  BY <1>0, <1>1 DEF StageInv
<1>3. PICK s \in Seq(Nat) :
         /\ PushRows(c, s)
         /\ \A i \in 1..Len(s) : s[i] \in Encodable(file[p])
         /\ c \in failed' \/ \A r \in Encodable(file[p]) : \E i \in 1..Len(s) : s[i] = r
         /\ Cancelled(c) => Len(s) = 0
  BY <1>2, DuckdbWrites
<1>4. /\ writeQueue' \in Seq(QueueRows)
      /\ RowsQueued(p)' = RowsQueued(p) \cup {s[i] : i \in 1..Len(s)}
      /\ \A d \in Calls \ {p} : RowsQueued(d)' = RowsQueued(d)
  <2>1. StoreInv /\ UploadTypeOK /\ parsed[c] = p /\ PushRows(c, s)
    BY <1>0, <1>2, <1>3
  <2>2. writeQueue' \in Seq(QueueRows)
    BY <2>1, UploadRows
  <2>3. RowsQueued(p)' = RowsQueued(p) \cup {s[i] : i \in 1..Len(s)}
    BY <2>1, UploadRows
  <2>4. \A d \in Calls \ {p} : RowsQueued(d)' = RowsQueued(d)
    BY <2>1, UploadRows
  <2> QED
    BY <2>2, <2>3, <2>4
<1>5. \A d \in Calls \ {c} : stage'[d] = stage[d] /\ (d \notin shared => p # d)
  BY <1>0, <1>1, <1>2 DEF UploadTypeOK, NameInv
<1>6. stage'[c] = "reply" /\ answer[c] \notin {"success", "failure"}
  BY <1>0, <1>1 DEF UploadTypeOK, StageInv
<1>7. \A d \in Calls : /\ StoreAhead(d)' => StoreAhead(d)
                       /\ QueueAhead(d)' => d # c /\ QueueAhead(d)
                       /\ Finished(d)' /\ d # c => Finished(d)
  BY <1>1, <1>5, <1>6 DEF StoreAhead, QueueAhead, Finished, Early
<1>8. c \notin shared /\ c \notin failed' => RowsQueued(c)' = Encodable(file[c])
  <2> SUFFICES ASSUME c \notin shared, c \notin failed' PROVE RowsQueued(c)' = Encodable(file[c])
    OBVIOUS
  <2>1. p = c
    BY <1>1, <1>2 DEF NameInv
  <2>2. RowsQueued(c) = {}
    BY <1>1 DEF TraceInv, QueueAhead
  <2>3. {s[i] : i \in 1..Len(s)} = Encodable(file[c])
    BY <1>3, <2>1
  <2>4. RowsQueued(c)' = RowsQueued(c) \cup {s[i] : i \in 1..Len(s)}
    BY <1>4, <2>1
  <2> QED
    BY <2>2, <2>3, <2>4
<1>9. \A d \in Calls \ shared' : StoreAhead(d)' => \A k \in FeatureKeys : online'[k] # d
  <2> SUFFICES ASSUME NEW d \in Calls \ shared', StoreAhead(d)' PROVE \A k \in FeatureKeys : online'[k] # d
    OBVIOUS
  <2>0. d \in Calls /\ d \notin shared
    BY <1>1
  <2>1. StoreAhead(d)
    BY <1>7, <2>0
  <2> QED
    BY <1>1, <2>0, <2>1 DEF TraceInv
<1>10. \A d \in Calls \ shared' : QueueAhead(d)' => RowsQueued(d)' = {}
  <2> SUFFICES ASSUME NEW d \in Calls \ shared', QueueAhead(d)' PROVE RowsQueued(d)' = {}
    OBVIOUS
  <2>0. d \in Calls /\ d \notin shared
    BY <1>1
  <2>1. d # c /\ QueueAhead(d)
    BY <1>7, <2>0
  <2>2. RowsQueued(d)' = RowsQueued(d)
    BY <1>4, <1>5, <2>0, <2>1
  <2> QED
    BY <2>0, <2>1, <2>2 DEF TraceInv
<1>11. \A d \in Calls \ shared' : Finished(d)' => RowsQueued(d)' = Encodable(file'[d])
  <2> SUFFICES ASSUME NEW d \in Calls \ shared', Finished(d)'
               PROVE  RowsQueued(d)' = Encodable(file'[d])
    OBVIOUS
  <2>1. CASE d = c
    BY <1>1, <1>8, <2>1 DEF Finished
  <2>2. CASE d # c
    <3>1. Finished(d) /\ d \notin shared
      BY <1>1, <1>7, <2>2 DEF Finished
    <3>2. RowsQueued(d)' = RowsQueued(d)
      BY <1>4, <1>5, <2>2, <3>1
    <3> QED
      BY <1>1, <3>1, <3>2 DEF TraceInv
  <2> QED
    BY <2>1, <2>2
<1> QED
  BY <1>9, <1>10, <1>11 DEF TraceInv

\* All of it holds together.
AInv == CallInv /\ StoreInv /\ EngineInv /\ NameInv /\ TraceInv

LEMMA StoreStays == StoreInv /\ UNCHANGED <<online, writeQueue>> => StoreInv'
  BY DEF StoreInv

LEMMA StoreInductive == CallInv /\ StoreInv /\ EngineInv /\ [Next]_vars => StoreInv'
<1> SUFFICES ASSUME CallInv, StoreInv, EngineInv, [Next]_vars PROVE StoreInv'
  OBVIOUS
<1>0. UploadTypeOK /\ StageInv
  BY DEF CallInv
<1>1. CASE ServerStep
  <2>1. PICK c \in Calls : UploadStep(c)
    BY <1>1 DEF ServerStep, UploadNext
  <2>2. CASE SendRedis(c)
    <3>1. PICK p \in Calls : parsed[c] = p
      BY <1>0, <2>2 DEF SendRedis, StageInv
    <3>2. /\ online' = [k \in FeatureKeys |-> online'[k]]
          /\ \A k \in FeatureKeys : online'[k] \in {online[k], p}
          /\ writeQueue' = writeQueue
      BY <2>2, <3>1, RedisWrites DEF SendRedis
    <3> QED
      BY <3>2 DEF StoreInv
  <2>3. CASE SendDuckdb(c)
    <3>1. PICK p \in Calls : parsed[c] = p
      BY <1>0, <2>3 DEF SendDuckdb, StageInv
    <3>2. PICK s \in Seq(Nat) : PushRows(c, s)
      BY <2>3, <3>1, DuckdbWrites
    <3>3. writeQueue' \in Seq(QueueRows)
      BY <1>0, <3>1, <3>2, UploadRows
    <3> QED
      BY <2>3, <3>3 DEF StoreInv, SendDuckdb
  <2>4. CASE UNCHANGED <<online, writeQueue>>
    BY <2>4, StoreStays
  <2> QED
    BY <2>1, <2>2, <2>3, <2>4
    DEF UploadStep, Receive, Save, Parse, Reply, Remove, GiveUp, Cancel, storeVars
<1>2. CASE EngineStep
  BY <1>0, <1>2, EngineWrites
<1>3. CASE AlarmStep \/ ProcessCrash \/ UNCHANGED vars
  <2>1. UNCHANGED <<online, writeQueue>>
    BY <1>3 DEF AlarmStep, ProcessCrash, Engine!Restart, Engine!queueVars, vars, uploadVars, storeVars
  <2> QED
    BY <2>1, StoreStays
<1> QED
  BY <1>1, <1>2, <1>3 DEF Next

LEMMA TraceInductive == AInv /\ [Next]_vars => TraceInv'
<1> SUFFICES ASSUME AInv, [Next]_vars PROVE TraceInv'
  OBVIOUS
<1> USE DEF AInv
<1>1. CASE ServerStep
  <2>1. PICK c \in Calls : UploadStep(c)
    BY <1>1 DEF ServerStep, UploadNext
  <2> QED
    BY <2>1, TraceSteps, TraceRedis, TraceDuckdb DEF UploadStep
<1>2. CASE EngineStep
  <2>1. /\ UNCHANGED callVars
        /\ \A c \in Calls : RowsQueued(c)' = RowsQueued(c)
        /\ \A k \in FeatureKeys : online'[k] \in Calls => online'[k] = online[k]
    BY <1>2, EngineWrites DEF EngineStep, CallInv
  <2> QED
    BY <2>1, TraceStays DEF callVars, StoreAhead, QueueAhead, Finished
<1>3. CASE AlarmStep \/ UNCHANGED vars
  <2>1. UNCHANGED uploadVars
    BY <1>3 DEF AlarmStep, vars
  <2> QED
    <3>1. UNCHANGED <<stage, file, answer, shared, failed, online, writeQueue>>
      BY <2>1 DEF uploadVars, callVars, storeVars
    <3>2. \A c : RowsQueued(c)' = RowsQueued(c)
      BY <3>1 DEF RowsQueued
    <3> QED
      BY <3>1, <3>2, TraceStays DEF StoreAhead, QueueAhead, Finished
<1>4. CASE ProcessCrash
  <2>1. /\ stage' = [c \in Calls |-> IF stage[c] \in Active THEN "done" ELSE stage[c]]
        /\ answer' = [c \in Calls |-> IF stage[c] \in Active /\ answer[c] = "none"
                                      THEN "timeout" ELSE answer[c]]
        /\ UNCHANGED <<file, shared, failed, online, writeQueue>>
    BY <1>4 DEF ProcessCrash, HandlersDie, Engine!Restart, Engine!queueVars
  <2>2. \A c : RowsQueued(c)' = RowsQueued(c)
    BY <2>1 DEF RowsQueued
  <2>3. \A c \in Calls : /\ stage'[c] = stage[c] \/ stage'[c] = "done"
                         /\ answer'[c] = answer[c] \/ answer'[c] = "timeout"
    BY <2>1 DEF CallInv, UploadTypeOK
  <2>4. \A c \in Calls : /\ StoreAhead(c)' => StoreAhead(c)
                         /\ QueueAhead(c)' => QueueAhead(c)
                         /\ Finished(c)' => Finished(c)
    BY <2>1, <2>3 DEF StoreAhead, QueueAhead, Finished, Early
  <2> QED
    BY <2>1, <2>2, <2>4, TraceStays
<1> QED
  BY <1>1, <1>2, <1>3, <1>4 DEF Next

LEMMA InitAInv == Init => AInv
<1> SUFFICES ASSUME Init PROVE AInv
  OBVIOUS
<1>1. CallInv /\ StoreInv
  BY CallInit
<1>2. EngineInv
  BY DEF Init, Engine!IngestInit, EngineInv
<1>3. NameInv
  BY UploadAssumption DEF Init, CallsInit, NameInv, Active, UploadAssumption
<1>4. TraceInv
  <2>1. /\ writeQueue = <<>> /\ \A k \in FeatureKeys : online[k] = 0
        /\ \A c \in Calls : stage[c] = "none" /\ answer[c] = "none"
    BY DEF Init, Engine!IngestInit, CallsInit
  <2>2. \A c : RowsQueued(c) = {}
    BY <2>1 DEF RowsQueued
  <2> QED
    BY <2>1, <2>2, ServiceAAssumption DEF TraceInv, Finished, ServiceAAssumption
<1> QED
  BY <1>1, <1>2, <1>3, <1>4 DEF AInv

LEMMA AInductive == AInv /\ [Next]_vars => AInv'
  BY CallsInductive, StoreInductive, EngineInductive, NamesInductive, TraceInductive DEF AInv

LEMMA Invariance == Spec => []AInv
  BY InitAInv, AInductive, PTL DEF Spec

\* Unless two calls with one file name met, a failure means that nothing was
\* written and a success that every row that can be encoded is queued, or that a
\* pipeline failed and was logged.
THEOREM AnswersAreTrue == Spec => []AnswerIsTrue
<1>1. AInv => AnswerIsTrue
  BY DEF AInv, TraceInv, AnswerIsTrue, StoreAhead, QueueAhead, Finished
<1> QED
  BY <1>1, Invariance, PTL

\* What a handler can still write once it has answered or its context has ended.
LEMMA QuietAfterAnswer ==
    ASSUME AInv, [Next]_vars, NEW c \in Calls \ shared',
           answer[c] \in {"success", "failure"} \/ c \in cancelled \ sent
    PROVE  RowsQueued(c)' = RowsQueued(c) /\ \A k \in FeatureKeys : online'[k] = c => online[k] = c
<1> USE DEF AInv
<1>0. UploadTypeOK /\ StageInv
  BY DEF CallInv
<1>1. CASE ServerStep
  <2>1. PICK d \in Calls : UploadStep(d)
    BY <1>1 DEF ServerStep, UploadNext
  <2>2. ASSUME SendRedis(d) \/ SendDuckdb(d), NEW p \in Calls, parsed[d] = p
        PROVE  p # c \/ Cancelled(d)
    <3>1. c \notin shared /\ stage[d] \in {"redis", "duckdb"}
      BY <2>2 DEF SendRedis, SendDuckdb
    <3>2. p = c => d = c
      BY <2>2, <3>1 DEF NameInv
    <3>3. d = c => answer[c] \notin {"success", "failure"}
      BY <1>0, <3>1 DEF StageInv
    <3> QED
      BY <3>2, <3>3 DEF Cancelled
  <2>3. CASE SendRedis(d)
    <3>1. PICK p \in Calls : parsed[d] = p
      BY <1>0, <2>3 DEF SendRedis, StageInv
    <3>2. \A k \in FeatureKeys : online'[k] = online[k] \/ (online'[k] = p /\ ~Cancelled(d))
      BY <2>3, <3>1, RedisWrites
    <3>3. RowsQueued(c)' = RowsQueued(c)
      BY <2>3 DEF SendRedis, RowsQueued
    <3> QED
      BY <2>2, <2>3, <3>1, <3>2, <3>3
  <2>4. CASE SendDuckdb(d)
    <3>1. PICK p \in Calls : parsed[d] = p
      BY <1>0, <2>4 DEF SendDuckdb, StageInv
    <3>2. PICK s \in Seq(Nat) : PushRows(d, s) /\ (Cancelled(d) => Len(s) = 0)
      BY <2>4, <3>1, DuckdbWrites
    <3>3. /\ writeQueue' \in Seq(QueueRows)
          /\ RowsQueued(p)' = RowsQueued(p) \cup {s[i] : i \in 1..Len(s)}
          /\ \A e \in Calls \ {p} : RowsQueued(e)' = RowsQueued(e)
      <4>1. StoreInv /\ UploadTypeOK /\ parsed[d] = p /\ PushRows(d, s)
        BY <1>0, <3>1, <3>2
      <4>2. writeQueue' \in Seq(QueueRows)
        BY <4>1, UploadRows
      <4>3. RowsQueued(p)' = RowsQueued(p) \cup {s[i] : i \in 1..Len(s)}
        BY <4>1, UploadRows
      <4>4. \A e \in Calls \ {p} : RowsQueued(e)' = RowsQueued(e)
        BY SMTT(30), <4>1, UploadRows
      <4> QED
        BY <4>2, <4>3, <4>4
    <3>4. CASE p # c
      BY <2>4, <3>3, <3>4 DEF SendDuckdb
    <3>5. CASE p = c
      <4>1. {s[i] : i \in 1..Len(s)} = {}
        BY <2>2, <2>4, <3>1, <3>2, <3>5
      <4> QED
        BY <2>4, <3>3, <3>5, <4>1 DEF SendDuckdb
    <3> QED
      BY <3>4, <3>5
  <2>5. CASE UNCHANGED <<online, writeQueue>>
    BY <2>5 DEF RowsQueued
  <2> QED
    BY <2>1, <2>3, <2>4, <2>5
    DEF UploadStep, Receive, Save, Parse, Reply, Remove, GiveUp, Cancel, storeVars
<1>2. CASE EngineStep
  BY <1>0, <1>2, EngineWrites
<1>3. CASE AlarmStep \/ ProcessCrash \/ UNCHANGED vars
  <2>1. UNCHANGED <<online, writeQueue>>
    BY <1>3 DEF AlarmStep, ProcessCrash, Engine!Restart, Engine!queueVars, vars, uploadVars, storeVars
  <2> QED
    BY <2>1 DEF RowsQueued
<1> QED
  BY <1>1, <1>2, <1>3 DEF Next

\* Once the server has answered, or the context of the stream has ended under the
\* handler, nothing more of the file is written but by the pipeline that was on
\* its way then.
THEOREM QuietOnceAnswered == Spec => SettledOnAnswer
<1>1. AInv /\ [Next]_vars =>
        [\A c \in Calls \ shared' :
            answer[c] \in {"success", "failure"} \/ c \in cancelled \ sent =>
               /\ RowsQueued(c)' = RowsQueued(c)
               /\ \A k \in FeatureKeys : online'[k] = c => online[k] = c]_uploadVars
  BY QuietAfterAnswer
<1> QED
  BY <1>1, Invariance, PTL DEF Spec, SettledOnAnswer

-----------------------------------------------------------------------------
(* What the store shows of an upload is queued *)

\* As OnlineIsQueued, by call.
ShownInv == \A c \in Calls : (\E k \in FeatureKeys : online[k] = c) =>
    /\ stage[c] # "none"
    /\ \/ Encodable(file[c]) \subseteq RowsQueued(c)
       \/ \E d \in Calls : parsed[d] = c /\ (stage[d] = "duckdb" \/ d \in failed)
       \/ crashes > 0

\* A step that shows nothing new and takes no rows from the queue.
LEMMA ShownStays ==
    ASSUME ShownInv,
           \A c \in Calls : /\ (\E k \in FeatureKeys : online'[k] = c) => \E k \in FeatureKeys : online[k] = c
                            /\ stage[c] # "none" => stage'[c] # "none" /\ file'[c] = file[c]
                            /\ RowsQueued(c) \subseteq RowsQueued(c)',
           \A d \in Calls : stage[d] = "duckdb" \/ d \in failed =>
                               parsed'[d] = parsed[d] /\ (stage'[d] = "duckdb" \/ d \in failed'),
           crashes > 0 => crashes' > 0
    PROVE  ShownInv'
  BY DEF ShownInv

LEMMA ShownRedis ==
    ASSUME AInv, ShownInv, NEW c \in Calls, SendRedis(c), UNCHANGED crashes
    PROVE  ShownInv'
<1>0. UploadTypeOK /\ StageInv
  BY DEF AInv, CallInv
<1>1. /\ stage[c] = "redis" /\ stage' = [stage EXCEPT ![c] = "duckdb"] /\ failed \subseteq failed'
      /\ UNCHANGED <<file, parsed, writeQueue>>
  BY DEF SendRedis, GoTo, Fails, Succeeds
<1>2. PICK p \in Calls : parsed[c] = p /\ stage[p] # "none"
  BY <1>0, <1>1 DEF StageInv
<1>3. \A k \in FeatureKeys : online'[k] = online[k] \/ online'[k] = p
  BY <1>2, RedisWrites DEF AInv
<1>4. /\ \A d \in Calls \ {c} : stage'[d] = stage[d]
      /\ stage'[c] = "duckdb"
  BY <1>0, <1>1 DEF UploadTypeOK
<1>5. \A e : RowsQueued(e)' = RowsQueued(e)
  BY <1>1 DEF RowsQueued
<1>6. ASSUME NEW e \in Calls, NEW k \in FeatureKeys, online'[k] = e
      PROVE  /\ stage'[e] # "none"
             /\ \/ Encodable(file'[e]) \subseteq RowsQueued(e)'
                \/ \E d \in Calls : parsed'[d] = e /\ (stage'[d] = "duckdb" \/ d \in failed')
                \/ crashes' > 0
  <2>1. CASE online'[k] = p
    BY <1>1, <1>2, <1>4, <1>6, <2>1
  <2>2. CASE online'[k] = online[k]
    BY <1>1, <1>4, <1>5, <1>6, <2>2 DEF ShownInv
  <2> QED
    BY <1>3, <2>1, <2>2
<1> QED
  BY <1>6 DEF ShownInv

LEMMA ShownDuckdb ==
    ASSUME AInv, ShownInv, NEW c \in Calls, SendDuckdb(c), UNCHANGED crashes
    PROVE  ShownInv'
<1>0. UploadTypeOK /\ StageInv /\ StoreInv
  BY DEF AInv, CallInv
<1>1. /\ stage[c] = "duckdb" /\ stage' = [stage EXCEPT ![c] = "reply"] /\ failed \subseteq failed'
      /\ UNCHANGED <<file, parsed, online>>
  BY DEF SendDuckdb, GoTo, Fails, Succeeds
<1>2. PICK p \in Calls : parsed[c] = p /\ stage[p] # "none"
  BY <1>0, <1>1 DEF StageInv
<1>3. PICK s \in Seq(Nat) :
         /\ PushRows(c, s)
         /\ \A i \in 1..Len(s) : s[i] \in Encodable(file[p])
         /\ c \in failed' \/ \A r \in Encodable(file[p]) : \E i \in 1..Len(s) : s[i] = r
         /\ Cancelled(c) => Len(s) = 0
  <2>1. CallInv /\ parsed[c] = p
    BY <1>2 DEF AInv
  <2> QED
    BY <2>1, DuckdbWrites
<1>4. /\ writeQueue' \in Seq(QueueRows)
      /\ RowsQueued(p)' = RowsQueued(p) \cup {s[i] : i \in 1..Len(s)}
      /\ \A d \in Calls \ {p} : RowsQueued(d)' = RowsQueued(d)
  <2>1. parsed[c] = p /\ PushRows(c, s)
    BY <1>2, <1>3
  <2> QED
    BY SMTT(30), <1>0, <2>1, UploadRows
<1>5. \A d \in Calls \ {c} : stage'[d] = stage[d]
  BY <1>0, <1>1 DEF UploadTypeOK
<1>6. Encodable(file[p]) \subseteq RowsQueued(p)' \/ c \in failed'
  BY <1>3, <1>4
<1>7. ASSUME NEW e \in Calls, NEW k \in FeatureKeys, online[k] = e
      PROVE  /\ stage'[e] # "none"
             /\ \/ Encodable(file'[e]) \subseteq RowsQueued(e)'
                \/ \E d \in Calls : parsed'[d] = e /\ (stage'[d] = "duckdb" \/ d \in failed')
                \/ crashes' > 0
  <2>1. /\ stage[e] # "none"
        /\ \/ Encodable(file[e]) \subseteq RowsQueued(e)
           \/ \E d \in Calls : parsed[d] = e /\ (stage[d] = "duckdb" \/ d \in failed)
           \/ crashes > 0
    BY <1>7 DEF ShownInv
  <2>2. stage'[e] # "none"
    BY <1>0, <1>1, <2>1 DEF UploadTypeOK
  <2>3. CASE e = p
    BY <1>1, <1>2, <1>6, <2>1, <2>2, <2>3
  <2>4. CASE e # p
    <3>1. RowsQueued(e)' = RowsQueued(e)
      BY <1>4, <2>4
    <3> QED
      BY <1>1, <1>2, <1>5, <2>1, <2>2, <2>4, <3>1
  <2> QED
    BY <2>3, <2>4
<1> QED
  BY <1>1, <1>7 DEF ShownInv

LEMMA ShownInductive == AInv /\ ShownInv /\ crashes \in Nat /\ [Next]_vars => ShownInv' /\ crashes' \in Nat
<1> SUFFICES ASSUME AInv, ShownInv, crashes \in Nat, [Next]_vars PROVE ShownInv' /\ crashes' \in Nat
  OBVIOUS
<1>0. UploadTypeOK /\ StageInv
  BY DEF AInv, CallInv
<1>1. CASE ServerStep
  <2>1. PICK c \in Calls : UploadStep(c)
    BY <1>1 DEF ServerStep, UploadNext
  <2>2. UNCHANGED crashes
    BY <1>1 DEF ServerStep, engine
  <2>3. CASE SendRedis(c) \/ SendDuckdb(c)
    BY <2>2, <2>3, ShownRedis, ShownDuckdb
  <2>4. CASE ~SendRedis(c) /\ ~SendDuckdb(c)
    <3>1. /\ UNCHANGED <<online, writeQueue, failed>>
          /\ \/ \E f \in Files : /\ stage[c] = "none" /\ stage' = [stage EXCEPT ![c] = "save"]
                                 /\ file' = [file EXCEPT ![c] = f] /\ parsed' = parsed
             \/ /\ stage[c] # "duckdb" /\ UNCHANGED file /\ c \notin failed
                /\ \E t \in Active \cup {"done"} : stage' = [stage EXCEPT ![c] = t]
                /\ \E q : parsed' = [parsed EXCEPT ![c] = q]
             \/ /\ UNCHANGED <<file, parsed>> /\ stage[c] # "duckdb"
                /\ \E t \in Active \cup {"done"} : stage' = [stage EXCEPT ![c] = t]
             \/ UNCHANGED <<stage, file, parsed>>
      <4>1. CASE \E f \in Files : Receive(c, f)
        BY <4>1 DEF Receive, GoTo, SendFile, storeVars
      <4>2. CASE Parse(c)
        BY <1>0, <4>2 DEF Parse, GoTo, storeVars, StageInv, Early, Active
      <4>3. CASE Save(c)
        BY <4>3 DEF Save, GoTo, storeVars, Active
      <4>4. CASE Reply(c) \/ Remove(c)
        BY <4>4 DEF Reply, Remove, GoTo, storeVars, Active
      <4>5. CASE GiveUp(c) \/ Cancel(c)
        BY <4>5 DEF GiveUp, Cancel, storeVars
      <4> QED
        BY <2>1, <2>4, <4>1, <4>2, <4>3, <4>4, <4>5 DEF UploadStep
    <3>2. \A d \in Calls : stage[d] # "none" => stage'[d] # "none" /\ file'[d] = file[d]
      BY <1>0, <3>1 DEF UploadTypeOK, Active
    <3>3. \A d \in Calls : stage[d] = "duckdb" \/ d \in failed =>
             parsed'[d] = parsed[d] /\ (stage'[d] = "duckdb" \/ d \in failed')
      BY <1>0, <3>1 DEF UploadTypeOK
    <3>4. \A d : RowsQueued(d)' = RowsQueued(d)
      BY <3>1 DEF RowsQueued
    <3> QED
      BY <2>2, <3>1, <3>2, <3>3, <3>4, ShownStays
  <2> QED
    BY <2>2, <2>3, <2>4
<1>2. CASE EngineStep
  <2>1. /\ UNCHANGED callVars
        /\ \A c \in Calls : RowsQueued(c)' = RowsQueued(c)
        /\ \A k \in FeatureKeys : online'[k] \in Calls => online'[k] = online[k]
    BY <1>0, <1>2, EngineWrites DEF EngineStep, AInv
  <2>2. UNCHANGED crashes
    BY <1>2 DEF EngineStep, Engine!EngineNext, Engine!Produce, Engine!Fetch, Engine!Timeout,
         Engine!Flush, Engine!Alert, Engine!SendRedis, Engine!SendDuckdb, Engine!Commit,
         Engine!CooldownEnds, Engine!Rebalance, Engine!restarts
  <2> QED
    BY <2>1, <2>2, ShownStays DEF callVars
<1>3. CASE AlarmStep \/ UNCHANGED vars
  <2>1. UNCHANGED <<stage, file, parsed, failed, online, writeQueue, crashes>>
    BY <1>3 DEF AlarmStep, vars, engine, uploadVars, callVars, storeVars
  <2>2. \A c : RowsQueued(c)' = RowsQueued(c)
    BY <2>1 DEF RowsQueued
  <2> QED
    BY <2>1, <2>2, ShownStays
<1>4. CASE ProcessCrash
  <2>1. /\ crashes' = crashes + 1
        /\ stage' = [c \in Calls |-> IF stage[c] \in Active THEN "done" ELSE stage[c]]
        /\ UNCHANGED <<file, parsed, failed, online>>
    BY <1>4 DEF ProcessCrash, HandlersDie, Engine!Restart
  <2>2. \A c \in Calls : stage[c] # "none" => stage'[c] # "none"
    BY <1>0, <2>1 DEF UploadTypeOK
  <2>3. crashes' > 0 /\ crashes' \in Nat
    BY <2>1
  <2> QED
    BY <2>1, <2>2, <2>3 DEF ShownInv
<1> QED
  BY <1>1, <1>2, <1>3, <1>4 DEF Next

\* Of an upload that the online store shows every row that can be encoded is queued
\* or will be, unless a pipeline failed or the process died.
THEOREM ShownIsQueued == Spec => []OnlineIsQueued
<1>1. Init => ShownInv /\ crashes \in Nat
  BY ServiceAAssumption DEF Init, Engine!IngestInit, ShownInv, ServiceAAssumption
<1>2. ShownInv => OnlineIsQueued
  BY DEF ShownInv, OnlineIsQueued
<1>3. AInv /\ ShownInv /\ crashes \in Nat /\ [Next]_vars => (ShownInv /\ crashes \in Nat)'
  BY ShownInductive
<1>4. Spec => [](ShownInv /\ crashes \in Nat)
  BY <1>1, <1>3, Invariance, PTL DEF Spec
<1> QED
  BY <1>2, <1>4, PTL

-----------------------------------------------------------------------------
(* Alerts *)

AlarmInv == /\ alerts \in Nat /\ crashes \in Nat
            /\ inFlight \in Nat /\ waiting \in 0..ChannelSize /\ analysed \in Nat
            /\ cpc \in {"start", "wait", "analyse"}

\* What the consumer does to the alerts.
LEMMA AlertsPublished ==
    ASSUME AlarmInv, EngineStep
    PROVE  /\ UNCHANGED <<crashes, cpc, subscribed, waiting, analysed>>
           /\ \E n \in Nat : /\ alerts' = alerts + n
                             /\ inFlight' = IF subscribed THEN inFlight + n ELSE inFlight
<1>1. crashes' = crashes /\ alerts' \in {alerts, alerts + 1, alerts + 2}
  BY DEF EngineStep, Engine!EngineNext, Engine!Produce, Engine!Fetch, Engine!Timeout,
         Engine!Flush, Engine!Alert, Engine!SendRedis, Engine!SendDuckdb, Engine!Commit,
         Engine!CooldownEnds, Engine!Rebalance, Engine!restarts
<1>2. PICK n \in Nat : alerts' = alerts + n
  BY <1>1 DEF AlarmInv
<1>3. CASE n = 0
  <2>1. UNCHANGED serviceCVars
    BY <1>2, <1>3 DEF AlarmInv, EngineStep, Delivery
  <2> QED
    BY <1>1, <1>2, <1>3, <2>1 DEF serviceCVars, AlarmInv
<1>4. CASE n # 0
  <2>1. alerts' > alerts /\ alerts' - alerts = n
    BY <1>2, <1>4 DEF AlarmInv
  <2>2. Deliver(n)
    BY <2>1 DEF EngineStep, Delivery
  <2> QED
    BY <1>1, <1>2, <2>2 DEF Deliver
<1> QED
  BY <1>3, <1>4

\* A step of service C, and what it loses.
LEMMA AlarmSteps ==
    ASSUME AlarmInv, ServiceCNext, UNCHANGED <<alerts, crashes>>
    PROVE  /\ AlarmInv'
           /\ LostAlerts' >= LostAlerts
           /\ LostAlerts' > LostAlerts =>
                 \/ subscribed /\ ~subscribed' /\ LostAlerts' - LostAlerts <= inFlight
                 \/ waiting = ChannelSize /\ LostAlerts' - LostAlerts = 1
<1> USE ServiceCAssumption DEF ServiceCAssumption, AlarmInv, LostAlerts
<1>1. CASE Subscribe
  BY <1>1 DEF Subscribe
<1>2. CASE Arrive
  BY <1>2 DEF Arrive
<1>3. CASE Take
  BY <1>3 DEF Take
<1>4. CASE Analyse
  BY <1>4 DEF Analyse
<1>5. CASE Disconnect
  <2>1. subscribed /\ ~subscribed'
    BY <1>5 DEF Disconnect
  <2>2. /\ inFlight' = 0 /\ UNCHANGED <<alerts, crashes, cpc, waiting, analysed>>
    BY <1>5 DEF Disconnect
  <2>3. AlarmInv' /\ LostAlerts \in Int /\ LostAlerts' = LostAlerts + inFlight
    BY <2>2
  <2>4. inFlight \in Nat
    OBVIOUS
  <2> HIDE DEF LostAlerts, AlarmInv
  <2> QED
    BY <2>1, <2>3, <2>4
<1>6. CASE Resubscribe
  BY <1>6 DEF Resubscribe
<1> QED
  BY <1>1, <1>2, <1>3, <1>4, <1>5, <1>6 DEF ServiceCNext

\* Through any number of deaths and broken connections an alert is lost only while
\* nobody is subscribed, in flight when the connection breaks, at a full channel,
\* or with the process; and none is analysed that was not published.
THEOREM NoAlertForgotten == Spec => AlertsAccounted
<1>1. Init => AlarmInv
  BY ServiceCAssumption
  DEF Init, Engine!IngestInit, ServiceCInit, AlarmInv, ServiceCAssumption
<1>2. ASSUME AlarmInv, [Next]_vars
      PROVE  /\ AlarmInv'
             /\ LostAlerts' >= LostAlerts
             /\ LostAlerts' > LostAlerts =>
                   \/ ~subscribed /\ LostAlerts' - LostAlerts = alerts' - alerts
                   \/ subscribed /\ ~subscribed' /\ LostAlerts' - LostAlerts <= inFlight
                   \/ waiting = ChannelSize /\ LostAlerts' - LostAlerts = 1
                   \/ crashes' > crashes
  <2>1. CASE EngineStep
    BY <1>2, <2>1, AlertsPublished DEF AlarmInv, LostAlerts
  <2>2. CASE AlarmStep
    BY <1>2, <2>2, AlarmSteps DEF AlarmStep, engine
  <2>3. CASE ProcessCrash
    <3>1. crashes' = crashes + 1 /\ alerts' = alerts
      BY <2>3 DEF ProcessCrash, Engine!Restart
    <3> QED
      BY <1>2, <2>3, <3>1, ServiceCAssumption
      DEF ProcessCrash, ServiceCDies, AlarmInv, LostAlerts, ServiceCAssumption
  <2>4. CASE ServerStep \/ UNCHANGED vars
    <3>1. UNCHANGED <<alerts, crashes, cpc, subscribed, inFlight, waiting, analysed>>
      BY <2>4 DEF ServerStep, vars, engine, serviceCVars
    <3> QED
      BY <1>2, <3>1 DEF AlarmInv, LostAlerts
  <2> QED
    BY <1>2, <2>1, <2>2, <2>3, <2>4 DEF Next
<1> QED
  BY <1>1, <1>2, PTL DEF Spec, AlertsAccounted

-----------------------------------------------------------------------------
(* The consumer among uploads *)

\* The online store as the consumer would have it: what an upload wrote counts as
\* the newest value there can be.  With it the proofs of IngestProofs speak of
\* the consumer in service A; the queue is not part of this argument.
Masked == [k \in FeatureKeys |-> IF online[k] \in Calls THEN MaxLog ELSE online[k]]

Consumer == INSTANCE IngestProofs
            WITH online <- Masked, writeQueue <- <<>>, pushed <- 0, queued <- {}

FreshStore == Consumer!IInv /\ Consumer!OnlineInv

\* The consumer's assumptions.
LEMMA ConsumerAssumption ==
    /\ Messages \subseteq [key : FeatureKeys, json : BOOLEAN, high : BOOLEAN]
    /\ BatchSize \in Nat \ {0}
    /\ MaxLog \in Nat /\ MaxPushes \in Nat
    /\ MaxCrashes \in Nat /\ MaxRebalances \in Nat
    /\ IngestFaults \subseteq Consumer!IngestFaultKinds
    /\ \A c \in Calls : c \notin Nat
  BY ServiceAAssumption DEF ServiceAAssumption, Engine!IngestAssumption,
     Consumer!IngestFaultKinds, Engine!IngestFaultKinds

LEMMA FreshInit == Init => FreshStore
<1> SUFFICES ASSUME Init PROVE FreshStore
  OBVIOUS
<1>1. \A k \in FeatureKeys : online[k] = 0
  BY DEF Init, Engine!IngestInit
<1>2. Masked = [k \in FeatureKeys |-> 0]
  BY <1>1, ConsumerAssumption DEF Masked
<1>3. Consumer!IngestInit
  BY <1>2 DEF Init, Engine!IngestInit, Consumer!IngestInit
<1>4. Consumer!OnlineInv
  BY <1>3 DEF Consumer!IngestInit, Consumer!OnlineInv, Consumer!ShownUpTo, Consumer!Passed
<1> QED
  BY <1>3, <1>4, ConsumerAssumption, Consumer!InitIInv DEF FreshStore

\* The consumer's SETs are masked as they are.
LEMMA MaskedSets ==
    ASSUME EngineInv, NEW n \in Nat, n <= Len(batchData), online' = Engine!AfterSets(n)
    PROVE  Masked' = Consumer!AfterSets(n)
<1> SUFFICES ASSUME NEW k \in FeatureKeys PROVE Masked'[k] = Consumer!AfterSets(n)[k]
  BY DEF Masked, Consumer!AfterSets
<1> DEFINE sets == {i \in 1..n : log[batchData[i]].key = k}
           last == CHOOSE i \in sets : \A j \in sets : j <= i
<1>1. online'[k] = IF sets = {} THEN online[k] ELSE batchData[last]
  BY DEF Engine!AfterSets
<1>2. Consumer!AfterSets(n)[k] = IF sets = {} THEN Masked[k] ELSE batchData[last]
  BY DEF Consumer!AfterSets
<1>3. Masked[k] = (IF online[k] \in Calls THEN MaxLog ELSE online[k])
      /\ Masked'[k] = (IF online'[k] \in Calls THEN MaxLog ELSE online'[k])
  BY DEF Masked
<1>4. CASE sets = {}
  BY <1>1, <1>2, <1>3, <1>4
<1>5. CASE sets # {}
  <2>1. last \in 1..n
    <3>1. sets \subseteq 1..n
      OBVIOUS
    <3> HIDE DEF sets
    <3> QED
      BY <1>5, <3>1, LastPosition
  <2>2. batchData[last] \in Nat
    <3>1. \A i \in 1..n : i \in 1..Len(batchData)
      BY DEF EngineInv
    <3>2. batchData \in Seq(Nat)
      BY DEF EngineInv
    <3>3. \A i \in 1..Len(batchData) : batchData[i] \in Nat
      BY <3>2
    <3> HIDE DEF last
    <3> QED
      BY <2>1, <3>1, <3>3
  <2> HIDE DEF sets, last
  <2> QED
    BY <1>1, <1>2, <1>3, <1>5, <2>2, ConsumerAssumption
<1> QED
  BY <1>4, <1>5

\* A step of the engine that does not push is a step of the consumer.
LEMMA EngineIsConsumer ==
    ASSUME EngineInv, Engine!EngineNext, ~Engine!SendDuckdb
    PROVE  Consumer!IngestNext
<1> USE DEF Engine!restarts, Consumer!restarts, Engine!queueVars, Consumer!queueVars
<1>0. online' = online => Masked' = Masked
  BY DEF Masked
<1>1. ASSUME NEW m \in Messages, Engine!Produce(m) PROVE Consumer!Produce(m)
  BY <1>0, <1>1 DEF Engine!Produce, Consumer!Produce
<1>2. Engine!Fetch => Consumer!Fetch
  BY <1>0 DEF Engine!Fetch, Consumer!Fetch, Engine!AfterFetch, Consumer!AfterFetch
<1>3. Engine!Timeout => Consumer!Timeout
  BY <1>0 DEF Engine!Timeout, Consumer!Timeout
<1>4. Engine!Alert => Consumer!Alert
  BY <1>0 DEF Engine!Alert, Consumer!Alert, Engine!High, Consumer!High
<1>5. ASSUME Engine!SendRedis PROVE Consumer!SendRedis
  <2>1. PICK n \in Engine!Applied : online' = Engine!AfterSets(n)
    BY <1>5 DEF Engine!SendRedis
  <2>2. n \in Consumer!Applied /\ n \in Nat /\ n <= Len(batchData)
    BY <2>1 DEF Engine!Applied, Consumer!Applied, EngineInv
  <2>3. Masked' = Consumer!AfterSets(n)
    BY <2>1, <2>2, MaskedSets
  <2> QED
    BY <1>5, <2>2, <2>3 DEF Engine!SendRedis, Consumer!SendRedis
<1>6. Engine!Commit => Consumer!Commit
  BY <1>0 DEF Engine!Commit, Consumer!Commit, Engine!CommitOffset, Consumer!CommitOffset,
         Engine!LastOfBatch, Consumer!LastOfBatch
<1>7. Engine!CooldownEnds => Consumer!CooldownEnds
  BY <1>0 DEF Engine!CooldownEnds, Consumer!CooldownEnds
<1>8. Engine!Rebalance => Consumer!Rebalance
  BY <1>0 DEF Engine!Rebalance, Consumer!Rebalance
<1> QED
  BY <1>1, <1>2, <1>3, <1>4, <1>5, <1>6, <1>7, <1>8
  DEF Engine!EngineNext, Engine!Flush, Consumer!IngestNext, Consumer!EngineNext, Consumer!Flush

\* A step that leaves the consumer alone and at most overwrites values.
LEMMA FreshStays ==
    ASSUME FreshStore, UNCHANGED engine,
           \A k \in FeatureKeys : online'[k] = online[k] \/ online'[k] \in Calls
    PROVE  FreshStore'
<1> USE DEF FreshStore, Consumer!IInv
<1>1. \A k \in FeatureKeys : Masked[k] \in 0..MaxLog /\ Masked'[k] \in {Masked[k], MaxLog}
  BY DEF Masked, Consumer!IngestTypeOK
<1>2. /\ log \in Seq(Messages) /\ Len(log) <= MaxLog /\ MaxLog \in Nat /\ position \in 0..Len(log)
      /\ \A o \in 1..Len(log) : log[o].key \in FeatureKeys
  <2>1. log \in Seq(Messages)
    BY DEF Consumer!IngestTypeOK
  <2> QED
    BY <2>1, ConsumerAssumption DEF Consumer!IngestTypeOK
<1>3. Masked' \in [FeatureKeys -> 0..MaxLog]
  <2>1. Masked' = [k \in FeatureKeys |-> Masked'[k]]
    BY DEF Masked
  <2> QED
    BY <1>1, <1>2, <2>1
<1>4. Consumer!IngestTypeOK'
  BY <1>3 DEF Consumer!IngestTypeOK, engine
<1>5. Consumer!BatchInv' /\ Consumer!FreshInv'
  BY DEF Consumer!BatchInv, Consumer!FreshInv, engine
<1>6. rebalances = 0 => /\ Consumer!Passed' = Consumer!Passed
                        /\ Consumer!ShownUpTo' = Consumer!ShownUpTo
                        /\ Consumer!ShownUpTo \in Int /\ Consumer!ShownUpTo <= position
  <2>1. Len(batchMsgs) \in Nat
    BY DEF Consumer!IngestTypeOK
  <2> QED
    BY <1>2, <2>1 DEF Consumer!Passed, Consumer!ShownUpTo, engine
<1>7. \A o \in 1..position : Consumer!Shown(o) => Consumer!Shown(o)'
  <2> SUFFICES ASSUME NEW o \in 1..position, Consumer!Shown(o), Consumer!WellFormed(o)
               PROVE  Masked'[log[o].key] >= o
    BY DEF Consumer!Shown, Consumer!WellFormed, engine
  <2>1. log[o].key \in FeatureKeys /\ o <= MaxLog /\ o \in Nat
    BY <1>2
  <2>2. Masked[log[o].key] >= o
    BY DEF Consumer!Shown
  <2> QED
    BY <1>1, <1>2, <2>1, <2>2
<1>8. Consumer!OnlineInv'
  <2> SUFFICES ASSUME rebalances = 0 PROVE Consumer!OnlineInv'
    BY DEF Consumer!OnlineInv, engine
  <2>1. \A o \in 1..Consumer!ShownUpTo : o \in 1..position
    BY <1>2, <1>6
  <2>2. \A o \in 1..Consumer!ShownUpTo' : Consumer!Shown(o)'
    BY <1>6, <1>7, <2>1 DEF Consumer!OnlineInv
  <2>3. UNCHANGED <<log, position, committed, batchData, batchMsgs, rebalances>>
    BY DEF engine
  <2> QED
    BY <1>6, <2>2, <2>3 DEF Consumer!OnlineInv, Consumer!WellFormed
<1> QED
  BY <1>4, <1>5, <1>8

LEMMA FreshInductive ==
    ASSUME "redis" \notin IngestFaults
    PROVE  AInv /\ FreshStore /\ [Next]_vars => FreshStore'
<1> SUFFICES ASSUME AInv, FreshStore, [Next]_vars PROVE FreshStore'
  OBVIOUS
<1>1. Consumer!IngestNext => FreshStore'
  BY ConsumerAssumption, Consumer!Inductive, Consumer!OnlineInductive DEF FreshStore
<1>2. CASE EngineStep /\ ~Engine!SendDuckdb
  BY <1>1, <1>2, EngineIsConsumer DEF EngineStep, AInv
<1>3. CASE Engine!SendDuckdb
  <2>1. /\ pc = "duckdb" /\ pc' = "commit"
        /\ UNCHANGED <<log, position, committed, batchData, batchMsgs, cooling, alerts, online,
                       crashes, rebalances>>
    BY <1>3 DEF Engine!SendDuckdb, Engine!restarts
  <2>2. Masked' = Masked
    BY <2>1 DEF Masked
  <2>3. Consumer!IInv'
    BY <2>1, <2>2 DEF FreshStore, Consumer!IInv, Consumer!IngestTypeOK, Consumer!BatchInv,
                      Consumer!FreshInv
  <2>4. Consumer!OnlineInv'
    BY <2>1, <2>2 DEF FreshStore, Consumer!OnlineInv, Consumer!ShownUpTo, Consumer!Passed,
                      Consumer!Shown, Consumer!WellFormed
  <2> QED
    BY <2>3, <2>4 DEF FreshStore
<1>4. CASE ServerStep
  <2>1. PICK c \in Calls : UploadStep(c)
    BY <1>4 DEF ServerStep, UploadNext
  <2>2. UNCHANGED engine
    BY <1>4 DEF ServerStep
  <2>3. CASE SendRedis(c)
    <3>1. PICK p \in Calls : parsed[c] = p
      BY <2>3 DEF AInv, CallInv, StageInv, SendRedis
    <3>2. \A k \in FeatureKeys : online'[k] = online[k] \/ online'[k] = p
      BY <2>3, <3>1, RedisWrites DEF AInv
    <3> QED
      BY <2>2, <3>2, FreshStays
  <2>4. CASE UNCHANGED online
    BY <2>2, <2>4, FreshStays
  <2> QED
    BY <2>1, <2>3, <2>4
    DEF UploadStep, Receive, Save, Parse, SendDuckdb, Reply, Remove, GiveUp, Cancel, storeVars
<1>5. CASE AlarmStep \/ UNCHANGED vars
  <2>1. UNCHANGED engine /\ UNCHANGED online
    BY <1>5 DEF AlarmStep, vars, uploadVars, storeVars
  <2> QED
    BY <2>1, FreshStays
<1>6. CASE ProcessCrash
  <2>1. online' = online => Masked' = Masked
    BY DEF Masked
  <2>2. Consumer!EngineCrashes
    BY <1>6, <2>1 DEF ProcessCrash, Engine!Restart, Consumer!EngineCrashes, Consumer!Restart,
                      Engine!queueVars, Consumer!queueVars
  <2> QED
    BY <1>1, <2>2 DEF Consumer!IngestNext
<1> QED
  BY <1>2, <1>3, <1>4, <1>5, <1>6 DEF Next, EngineStep

\* Without errors from the consumer's pipelines and without a rebalance the online
\* store is behind the messages the consumer is past, and so behind the committed
\* ones, only where an upload wrote over it.
THEOREM StaysFreshAmongUploads ==
    ASSUME "redis" \notin IngestFaults PROVE Spec => []BehindOnlyByUpload
<1>1. AInv /\ FreshStore /\ [Next]_vars => FreshStore'
  BY FreshInductive
<1>2. FreshStore => BehindOnlyByUpload
  <2> SUFFICES ASSUME FreshStore, rebalances = 0
               PROVE  /\ committed <= Engine!Passed
                      /\ \A k \in FeatureKeys :
                            online[k] \in Calls \/ online[k] >= Engine!Latest(k, Engine!Passed)
    BY DEF BehindOnlyByUpload
  <2>1. Consumer!OnlineIsFresh
    BY ConsumerAssumption, Consumer!ShownIsFresh DEF FreshStore, Consumer!IInv
  <2>2. Consumer!Passed = Engine!Passed
    BY DEF Consumer!Passed, Engine!Passed
  <2>3. committed <= Engine!Passed
    BY <2>1, <2>2 DEF Consumer!OnlineIsFresh
  <2>4. ASSUME NEW k \in FeatureKeys, online[k] \notin Calls
        PROVE  online[k] >= Engine!Latest(k, Engine!Passed)
    <3>1. Masked[k] >= Consumer!Latest(k, Consumer!Passed)
      BY <2>1 DEF Consumer!OnlineIsFresh
    <3>2. Masked[k] = online[k]
      BY <2>4 DEF Masked
    <3>3. Consumer!Latest(k, Consumer!Passed) = Engine!Latest(k, Engine!Passed)
      BY DEF Consumer!Latest, Engine!Latest, Consumer!Passed, Engine!Passed,
             Consumer!WellFormed, Engine!WellFormed
    <3> QED
      BY <3>1, <3>2, <3>3
  <2> QED
    BY <2>3, <2>4
<1> QED
  BY <1>1, <1>2, FreshInit, Invariance, PTL DEF Spec
=============================================================================
