---------------------------- MODULE IngestProofs ----------------------------
(***************************************************************************)
(* What holds of the consumer of service A for every batch size, every log *)
(* and any number of crashes and rebalances: type correctness; that no     *)
(* well-formed message is committed before it was pushed on the write      *)
(* queue, provided the pipelines to Redis succeed; and that rows are       *)
(* pushed again only while their messages are uncommitted.                 *)
(***************************************************************************)
EXTENDS Ingest, SequenceFacts

\* The batch is nonempty while it is flushed, holds messages of the log only,
\* and has a highest offset.
BatchInv ==
    /\ pc # "fetch" => batchMsgs # <<>>
    /\ \A i \in 1..Len(batchMsgs) : batchMsgs[i] <= Len(log)
    /\ \A i \in 1..Len(batchData) : batchData[i] <= Len(log)
    /\ batchMsgs # <<>> =>
         \E i \in 1..Len(batchMsgs) :
            \A j \in 1..Len(batchMsgs) : batchMsgs[j] <= batchMsgs[i]

\* The well-formed message at offset o was pushed or is in the batch.
Handled(o) == WellFormed(o) =>
    o \in queued \/ \E i \in 1..Len(batchData) : batchData[i] = o

\* Whatever the consumer went past, by fetching or by having it in its batch,
\* is handled; between push and commit, the batch itself is pushed.
HandledInv ==
    /\ \A o \in 1..position : Handled(o)
    /\ \A i \in 1..Len(batchMsgs) : \A o \in 1..batchMsgs[i] : Handled(o)
    /\ pc = "commit" => \A i \in 1..Len(batchData) : batchData[i] \in queued

\* A batch that no rebalance interfered with is uncommitted.
FreshInv == rebalances = 0 =>
    /\ committed <= position
    /\ \A i \in 1..Len(batchMsgs) : batchMsgs[i] <= position
    /\ \A i \in 1..Len(batchData) : committed < batchData[i]

\* What holds whatever fails, and what holds when the pipelines succeed.
IInv == IngestTypeOK /\ BatchInv /\ FreshInv
QInv == HandledInv /\ CommittedWasQueued

-----------------------------------------------------------------------------
(* Numbers and sequences *)

\* The offsets of the batch are offsets.
LEMMA BatchOffsets ==
    ASSUME IngestTypeOK
    PROVE  /\ \A i \in 1..Len(batchMsgs) : batchMsgs[i] \in Nat \ {0} /\ batchMsgs[i] <= MaxLog
           /\ \A i \in 1..Len(batchData) : batchData[i] \in Nat \ {0} /\ batchData[i] <= MaxLog
<1>1. MaxLog \in Nat /\ batchMsgs \in Seq(Offsets) /\ batchData \in Seq(Offsets)
  BY IngestAssumption DEF IngestAssumption, IngestTypeOK
<1>2. /\ \A i \in 1..Len(batchMsgs) : batchMsgs[i] \in Offsets
      /\ \A i \in 1..Len(batchData) : batchData[i] \in Offsets
  BY <1>1
<1> QED
  BY <1>1, <1>2 DEF Offsets

\* The batch has a highest offset, which CommitOffset is.
LEMMA CommitOffsetIsHighest ==
    ASSUME IngestTypeOK, BatchInv, pc = "commit"
    PROVE  /\ \E i \in 1..Len(batchMsgs) : CommitOffset = batchMsgs[i]
           /\ \A i \in 1..Len(batchMsgs) : batchMsgs[i] <= CommitOffset
<1> DEFINE S == {batchMsgs[i] : i \in 1..Len(batchMsgs)}
<1>1. \E o \in S : \A i \in 1..Len(batchMsgs) : batchMsgs[i] <= o
  BY DEF BatchInv
<1> QED
  BY <1>1 DEF CommitOffset, LastOfBatch

\* What a push of the offsets in s does to the queue.
LEMMA PushRowsEffect ==
    ASSUME IngestTypeOK, NEW s \in Seq(Offsets), PushRows(s)
    PROVE  /\ writeQueue' \in Seq(IngestRows)
           /\ pushed' \in 0..MaxPushes
           /\ queued' \subseteq Offsets
           /\ queued \subseteq queued'
           /\ \A i \in 1..Len(s) : s[i] \in queued'
           /\ \A i \in (Len(writeQueue) + 1)..Len(writeQueue') :
                 \E j \in 1..Len(s) : writeQueue'[i].data = s[j]
<1> DEFINE rows == [i \in 1..Len(s) |->
                      [n |-> pushed + i, table |-> FeaturesTable, data |-> s[i]]]
<1>1. /\ pushed \in Nat /\ MaxPushes \in Nat /\ Len(s) \in Nat
      /\ pushed + Len(s) <= MaxPushes /\ pushed' = pushed + Len(s)
      /\ writeQueue' = writeQueue \o rows
      /\ queued' = queued \cup {s[i] : i \in 1..Len(s)}
      /\ writeQueue \in Seq(IngestRows) /\ queued \subseteq Offsets
      /\ \A i \in 1..Len(s) : s[i] \in Offsets
  BY IngestAssumption DEF IngestTypeOK, PushRows, IngestAssumption
<1>2. \A i \in 1..Len(s) : rows[i] \in IngestRows /\ rows[i].data = s[i]
  BY <1>1 DEF IngestRows
<1>3. rows \in Seq(IngestRows) /\ Len(rows) = Len(s)
  BY <1>1, <1>2
<1> HIDE DEF rows
<1>4. writeQueue' \in Seq(IngestRows)
  BY <1>1, <1>3
<1>5. \A i \in (Len(writeQueue) + 1)..Len(writeQueue') :
         writeQueue'[i] = rows[i - Len(writeQueue)] /\ i - Len(writeQueue) \in 1..Len(s)
  BY <1>1, <1>3
<1>6. \A i \in (Len(writeQueue) + 1)..Len(writeQueue') :
         \E j \in 1..Len(s) : writeQueue'[i].data = s[j]
  BY <1>2, <1>5
<1> QED
  BY <1>1, <1>4, <1>6

\* A push takes no row away, and its rows are all that is new.
LEMMA PushRowsAdds ==
    ASSUME IngestTypeOK, NEW s \in Seq(Offsets), PushRows(s)
    PROVE  /\ \A i \in 1..Len(writeQueue) :
                i \in 1..Len(writeQueue') /\ writeQueue'[i] = writeQueue[i]
           /\ \A i \in 1..Len(s) : \E j \in 1..Len(writeQueue') : writeQueue'[j].data = s[i]
           /\ \A o \in queued' : o \in queued \/ \E i \in 1..Len(s) : o = s[i]
<1> DEFINE rows == [i \in 1..Len(s) |->
                      [n |-> pushed + i, table |-> FeaturesTable, data |-> s[i]]]
<1>1. /\ pushed \in Nat /\ MaxPushes \in Nat /\ Len(s) \in Nat /\ Len(writeQueue) \in Nat
      /\ pushed + Len(s) <= MaxPushes
      /\ writeQueue' = writeQueue \o rows
      /\ queued' = queued \cup {s[i] : i \in 1..Len(s)}
      /\ writeQueue \in Seq(IngestRows)
      /\ \A i \in 1..Len(s) : s[i] \in Offsets
  BY IngestAssumption DEF IngestTypeOK, PushRows, IngestAssumption
<1>2. \A i \in 1..Len(s) : rows[i] \in IngestRows /\ rows[i].data = s[i]
  BY <1>1 DEF IngestRows
<1>3. rows \in Seq(IngestRows) /\ Len(rows) = Len(s)
  BY <1>1, <1>2
<1> HIDE DEF rows
<1>4. /\ Len(writeQueue') = Len(writeQueue) + Len(s)
      /\ \A i \in 1..Len(writeQueue) : writeQueue'[i] = writeQueue[i]
      /\ \A i \in (Len(writeQueue) + 1)..(Len(writeQueue) + Len(s)) :
           writeQueue'[i] = rows[i - Len(writeQueue)]
  <2>1. \A q, r \in Seq(IngestRows) :
          /\ Len(q \o r) = Len(q) + Len(r)
          /\ \A i \in 1..Len(q) : (q \o r)[i] = q[i]
          /\ \A i \in (Len(q) + 1)..(Len(q) + Len(r)) : (q \o r)[i] = r[i - Len(q)]
    OBVIOUS
  <2> QED
    BY <1>1, <1>3, <2>1
<1>5. ASSUME NEW i \in 1..Len(s)
      PROVE  \E j \in 1..Len(writeQueue') : writeQueue'[j].data = s[i]
  <2>1. /\ Len(writeQueue) + i \in (Len(writeQueue) + 1)..(Len(writeQueue) + Len(s))
        /\ Len(writeQueue) + i \in 1..Len(writeQueue')
        /\ (Len(writeQueue) + i) - Len(writeQueue) = i
    BY <1>1, <1>4
  <2>2. writeQueue'[Len(writeQueue) + i] = rows[i]
    BY <1>4, <2>1
  <2> QED
    BY <1>2, <2>1, <2>2
<1>6. \A i \in 1..Len(writeQueue) : i \in 1..Len(writeQueue')
  BY <1>1, <1>4
<1> QED
  BY <1>1, <1>4, <1>5, <1>6

\* What SendBatch_Duckdb_Queue pushes: offsets of the batch, and with pipelines
\* that succeed all of them.
LEMMA SendDuckdbPushes ==
    ASSUME IngestTypeOK, SendDuckdb
    PROVE  \E s \in Seq(Offsets) :
             /\ PushRows(s)
             /\ \A j \in 1..Len(s) : \E i \in 1..Len(batchData) : s[j] = batchData[i]
             /\ "redis" \notin IngestFaults =>
                  \A i \in 1..Len(batchData) : \E j \in 1..Len(s) : s[j] = batchData[i]
<1> DEFINE part(n) == SubSeq(batchData, 1, n)
<1>1. batchData \in Seq(Offsets) /\ Len(batchData) \in Nat
  BY DEF IngestTypeOK
<1>2. \A n \in 0..Len(batchData) :
         /\ part(n) \in Seq(Offsets) /\ Len(part(n)) = n
         /\ \A j \in 1..n : part(n)[j] = batchData[j]
  BY <1>1
<1>4. CASE \E n \in Applied : PushRows(part(n))
  <2>1. PICK n \in Applied : PushRows(part(n))
    BY <1>4
  <2> DEFINE s == part(n)
  <2>2. n \in 0..Len(batchData) /\ ("redis" \notin IngestFaults => n = Len(batchData))
    BY <1>1, <2>1 DEF Applied
  <2>3. /\ s \in Seq(Offsets) /\ Len(s) = n
        /\ \A j \in 1..Len(s) : s[j] = batchData[j]
    BY <1>2, <2>2
  <2>4. PushRows(s)
    BY <2>1
  <2> HIDE DEF s
  <2>5. \A j \in 1..Len(s) : \E i \in 1..Len(batchData) : s[j] = batchData[i]
    BY <1>1, <2>2, <2>3
  <2>6. "redis" \notin IngestFaults =>
          \A i \in 1..Len(batchData) : \E j \in 1..Len(s) : s[j] = batchData[i]
    BY <1>1, <2>2, <2>3
  <2> QED
    BY <2>3, <2>4, <2>5, <2>6
<1>5. CASE \E n \in 1..Len(batchData) : PushRows(part(n) \o batchData)
  <2>1. PICK n \in 1..Len(batchData) : PushRows(part(n) \o batchData)
    BY <1>5
  <2> DEFINE s == part(n) \o batchData
  <2>2. /\ s \in Seq(Offsets) /\ Len(s) = n + Len(batchData)
        /\ \A j \in 1..n : s[j] = batchData[j]
        /\ \A j \in (n + 1)..(n + Len(batchData)) : s[j] = batchData[j - n]
    BY <1>1, <1>2
  <2>3. \A j \in 1..Len(s) : \E i \in 1..Len(batchData) : s[j] = batchData[i]
    <3> SUFFICES ASSUME NEW j \in 1..Len(s)
                 PROVE  \E i \in 1..Len(batchData) : s[j] = batchData[i]
      OBVIOUS
    <3> HIDE DEF s
    <3>1. CASE j <= n
      BY <1>1, <2>2, <3>1
    <3>2. CASE j > n
      <4>1. j - n \in 1..Len(batchData) /\ s[j] = batchData[j - n]
        BY <1>1, <2>2, <3>2
      <4> QED
        BY <4>1
    <3> QED
      BY <1>1, <2>2, <3>1, <3>2
  <2>4. \A i \in 1..Len(batchData) : \E j \in 1..Len(s) : s[j] = batchData[i]
    <3> SUFFICES ASSUME NEW i \in 1..Len(batchData)
                 PROVE  \E j \in 1..Len(s) : s[j] = batchData[i]
      OBVIOUS
    <3> HIDE DEF s
    <3>1. n + i \in 1..Len(s) /\ s[n + i] = batchData[i]
      BY <1>1, <2>2
    <3> QED
      BY <3>1
  <2>5. PushRows(s)
    BY <2>1
  <2> HIDE DEF s
  <2> QED
    BY <2>2, <2>3, <2>4, <2>5
<1> QED
  BY <1>4, <1>5 DEF SendDuckdb

-----------------------------------------------------------------------------
(* Whatever fails: the types, the batch, and what is pushed again *)

\* The invariant holds at the start: nothing is fetched.
LEMMA InitIInv == IngestInit => IInv
<1> SUFFICES ASSUME IngestInit PROVE IInv
  OBVIOUS
<1>1. IngestTypeOK
  <2>1. log \in Seq(Messages) /\ Len(log) = 0
    BY DEF IngestInit
  <2>2. batchData \in Seq(Offsets) /\ batchMsgs \in Seq(Offsets) /\ writeQueue \in Seq(IngestRows)
    BY DEF IngestInit
  <2>3. online \in [FeatureKeys -> 0..MaxLog]
    BY IngestAssumption DEF IngestInit, IngestAssumption
  <2>6. cooling \in BOOLEAN
    BY DEF IngestInit
  <2>4. /\ position = 0 /\ committed = 0 /\ pc = "fetch" /\ alerts = 0 /\ pushed = 0
        /\ queued = {} /\ crashes = 0 /\ rebalances = 0
    BY DEF IngestInit
  <2>5. MaxLog \in Nat /\ MaxPushes \in Nat /\ MaxCrashes \in Nat /\ MaxRebalances \in Nat
    BY IngestAssumption DEF IngestAssumption
  <2> QED
    BY <2>1, <2>2, <2>3, <2>4, <2>5, <2>6 DEF IngestTypeOK
<1>2. BatchInv /\ FreshInv
  BY DEF IngestInit, BatchInv, FreshInv
<1> QED
  BY <1>1, <1>2 DEF IInv

\* A step that takes over a message: position' is in the log, batchData' is
\* batchData with or without it at its end.
LEMMA FetchKeeps == IInv /\ Fetch => IInv'
<1> SUFFICES ASSUME IInv, Fetch PROVE IInv'
  OBVIOUS
<1> USE DEF IInv
<1>0. PICK p \in Nat : p = position + 1
  BY DEF IngestTypeOK
<1>1. /\ position' = p /\ p \in Offsets /\ p \in 1..Len(log) /\ log' = log /\ pc = "fetch"
      /\ batchMsgs' = Append(batchMsgs, p)
      /\ batchData' \in {batchData, Append(batchData, p)}
      /\ batchMsgs \in Seq(Offsets) /\ batchData \in Seq(Offsets)
  BY <1>0, IngestAssumption DEF IngestTypeOK, Fetch, Offsets, IngestAssumption
<1>2. /\ batchMsgs' \in Seq(Offsets) /\ Len(batchMsgs') = Len(batchMsgs) + 1
      /\ \A i \in 1..Len(batchMsgs) : batchMsgs[i] \in Offsets /\ batchMsgs'[i] = batchMsgs[i]
      /\ batchMsgs'[Len(batchMsgs) + 1] = p /\ Len(batchMsgs) \in Nat
  BY <1>1, AppendElements
<1>3. /\ batchData' \in Seq(Offsets)
      /\ \A i \in 1..Len(batchData') :
            batchData'[i] = p \/ (i \in 1..Len(batchData) /\ batchData'[i] = batchData[i])
  <2>1. CASE batchData' = batchData
    BY <1>1, <2>1
  <2>2. CASE batchData' = Append(batchData, p)
    <3>1. /\ batchData' \in Seq(Offsets) /\ Len(batchData') = Len(batchData) + 1
          /\ \A i \in 1..Len(batchData) : batchData'[i] = batchData[i]
          /\ batchData'[Len(batchData) + 1] = p /\ Len(batchData) \in Nat
      BY <1>1, <2>2, AppendElements
    <3>2. \A i \in 1..Len(batchData') : i = Len(batchData) + 1 \/ i \in 1..Len(batchData)
      BY <3>1
    <3>3. \A i \in 1..Len(batchData') :
            batchData'[i] = p \/ (i \in 1..Len(batchData) /\ batchData'[i] = batchData[i])
      <4> SUFFICES ASSUME NEW i \in 1..Len(batchData')
                   PROVE  batchData'[i] = p \/ (i \in 1..Len(batchData) /\ batchData'[i] = batchData[i])
        OBVIOUS
      <4>1. CASE i = Len(batchData) + 1
        BY <3>1, <4>1
      <4>2. CASE i \in 1..Len(batchData)
        BY <3>1, <4>2
      <4> QED
        BY <3>2, <4>1, <4>2
    <3> QED
      BY <3>1, <3>3
  <2> QED
    BY <1>1, <2>1, <2>2
<1>4. IngestTypeOK'
  BY <1>1, <1>2, <1>3 DEF IngestTypeOK, Fetch, AfterFetch, queueVars, restarts
<1>5. BatchInv'
  <2>1. \A i \in 1..Len(batchMsgs') :
           \/ batchMsgs'[i] = p
           \/ i \in 1..Len(batchMsgs) /\ batchMsgs'[i] = batchMsgs[i]
    <3> SUFFICES ASSUME NEW i \in 1..Len(batchMsgs'), i # Len(batchMsgs) + 1
                 PROVE  i \in 1..Len(batchMsgs) /\ batchMsgs'[i] = batchMsgs[i]
      BY <1>2
    <3> QED
      BY <1>2
  <2>2. \A i \in 1..Len(batchMsgs') : batchMsgs'[i] <= Len(log')
    BY <1>1, <2>1 DEF BatchInv, Offsets
  <2>3. \A i \in 1..Len(batchData') : batchData'[i] <= Len(log')
    BY <1>1, <1>3 DEF BatchInv, Offsets
  <2>4. \E i \in 1..Len(batchMsgs') : \A j \in 1..Len(batchMsgs') : batchMsgs'[j] <= batchMsgs'[i]
    <3>1. CASE batchMsgs = <<>>
      BY <1>1, <1>2, <3>1 DEF Offsets
    <3>2. CASE batchMsgs # <<>>
      <4>1. PICK i \in 1..Len(batchMsgs) : \A j \in 1..Len(batchMsgs) : batchMsgs[j] <= batchMsgs[i]
        BY <3>2 DEF BatchInv
      <4>2. /\ batchMsgs[i] \in Int /\ p \in Int
            /\ \A j \in 1..Len(batchMsgs) : batchMsgs[j] \in Int
        BY <1>1, <1>2, <4>1 DEF Offsets
      <4>3. CASE batchMsgs[i] <= p
        <5>1. \A j \in 1..Len(batchMsgs') : batchMsgs'[j] <= p
          BY <2>1, <4>1, <4>2, <4>3
        <5>2. Len(batchMsgs) + 1 \in 1..Len(batchMsgs') /\ batchMsgs'[Len(batchMsgs) + 1] = p
          BY <1>2
        <5> QED
          BY <5>1, <5>2
      <4>4. CASE p <= batchMsgs[i]
        <5>1. \A j \in 1..Len(batchMsgs') : batchMsgs'[j] <= batchMsgs[i]
          BY <2>1, <4>1, <4>2, <4>4
        <5>2. i \in 1..Len(batchMsgs') /\ batchMsgs'[i] = batchMsgs[i]
          BY <1>2
        <5> QED
          BY <5>1, <5>2
      <4> QED
        BY <4>2, <4>3, <4>4
    <3> QED
      BY <3>1, <3>2
  <2>5. batchMsgs' # <<>>
    BY <1>2
  <2> QED
    BY <2>2, <2>3, <2>4, <2>5 DEF BatchInv
<1>6. FreshInv'
  <2> SUFFICES ASSUME rebalances' = 0
               PROVE  /\ committed' <= position'
                      /\ \A i \in 1..Len(batchMsgs') : batchMsgs'[i] <= position'
                      /\ \A i \in 1..Len(batchData') : committed' < batchData'[i]
    BY DEF FreshInv
  <2>1. /\ committed' = committed /\ committed <= position /\ position \in Nat /\ committed \in Nat
        /\ p = position + 1
        /\ \A i \in 1..Len(batchMsgs) : batchMsgs[i] <= position
        /\ \A i \in 1..Len(batchData) : committed < batchData[i]
    BY <1>0 DEF FreshInv, Fetch, restarts, IngestTypeOK
  <2>2. \A i \in 1..Len(batchMsgs') : batchMsgs'[i] <= position'
    BY <1>1, <1>2, <2>1 DEF Offsets
  <2>3. \A i \in 1..Len(batchData') : committed' < batchData'[i]
    BY <1>1, <1>3, <2>1 DEF Offsets
  <2> QED
    BY <1>1, <2>1, <2>2, <2>3
<1> QED
  BY <1>4, <1>5, <1>6

\* A new message at the end of the log changes no older one.
LEMMA ProduceKeeps == ASSUME IInv, NEW m \in Messages, Produce(m) PROVE IInv'
<1> USE DEF IInv
<1>1. /\ log \in Seq(Messages) /\ Len(log) \in Nat /\ Len(log) < MaxLog /\ MaxLog \in Nat
      /\ log' = Append(log, m)
  BY IngestAssumption DEF IngestTypeOK, Produce, IngestAssumption
<1>2. log' \in Seq(Messages) /\ Len(log') = Len(log) + 1
  BY <1>1
<1>3. IngestTypeOK'
  BY <1>1, <1>2 DEF IngestTypeOK, Produce, queueVars, restarts
<1>4. /\ \A i \in 1..Len(batchMsgs) : batchMsgs[i] \in Nat
      /\ \A i \in 1..Len(batchData) : batchData[i] \in Nat
  BY BatchOffsets
<1>5. BatchInv' /\ FreshInv'
  BY <1>1, <1>2, <1>4 DEF BatchInv, FreshInv, Produce, restarts
<1> QED
  BY <1>3, <1>5

\* The online store is about messages of the batch and what it was about.
LEMMA AfterSetsType ==
    ASSUME IngestTypeOK, NEW n \in 0..Len(batchData)
    PROVE  AfterSets(n) \in [FeatureKeys -> 0..MaxLog]
<1>1. /\ n \in Nat /\ n <= Len(batchData)
      /\ \A i \in 1..n : batchData[i] \in 0..MaxLog
      /\ online \in [FeatureKeys -> 0..MaxLog]
  <2>1. batchData \in Seq(Offsets) /\ online \in [FeatureKeys -> 0..MaxLog]
    BY DEF IngestTypeOK
  <2>2. Offsets \subseteq 0..MaxLog
    BY IngestAssumption DEF Offsets, IngestAssumption
  <2>3. n \in Nat /\ n <= Len(batchData)
    BY <2>1
  <2>4. ASSUME NEW i \in 1..n PROVE batchData[i] \in Offsets
    BY <2>1, <2>3
  <2> QED
    BY <2>1, <2>2, <2>3, <2>4
<1> DEFINE sets(k) == {i \in 1..n : log[batchData[i]].key = k}
           last(k) == CHOOSE i \in sets(k) : \A j \in sets(k) : j <= i
<1>2. ASSUME NEW k \in FeatureKeys, sets(k) # {}
      PROVE  last(k) \in 1..n
  <2> DEFINE S == sets(k)
  <2>1. S \subseteq 1..n /\ S # {}
    BY <1>2
  <2> HIDE DEF S
  <2>2. \E i \in S : \A j \in S : j <= i
    BY <1>1, <2>1, LastPosition
  <2>3. (CHOOSE i \in S : \A j \in S : j <= i) \in S
    BY <2>2
  <2> QED
    BY <2>1, <2>3 DEF S
<1> HIDE DEF last
<1>3. \A k \in FeatureKeys :
        (IF sets(k) = {} THEN online[k] ELSE batchData[last(k)]) \in 0..MaxLog
  BY <1>1, <1>2
<1>4. AfterSets(n) = [k \in FeatureKeys |->
                        IF sets(k) = {} THEN online[k] ELSE batchData[last(k)]]
  BY DEF AfterSets, last
<1> HIDE DEF sets
<1> QED
  BY <1>3, <1>4

\* The steps of flushBatch keep the invariant.
LEMMA FlushKeeps == IInv /\ Flush => IInv'
<1> SUFFICES ASSUME IInv, Flush PROVE IInv'
  OBVIOUS
<1> USE DEF IInv
<1>1. CASE Alert
  <2>2. /\ alerts' \in {alerts, alerts + 1, alerts + 2}
        /\ cooling' = TRUE \/ cooling' = cooling
    BY <1>1, Zenon DEF Alert
  <2>3. alerts' \in Nat
    BY <2>2 DEF IngestTypeOK
  <2>4. cooling' \in BOOLEAN
    BY <2>2 DEF IngestTypeOK
  <2>1. alerts' \in Nat /\ cooling' \in BOOLEAN
    BY <2>3, <2>4
  <2> QED
    BY <1>1, <2>1 DEF Alert, IngestTypeOK, BatchInv, FreshInv, queueVars, restarts
<1>2. CASE SendRedis
  <2>1. PICK n \in Applied : online' = AfterSets(n)
    BY <1>2 DEF SendRedis
  <2>2. n \in 0..Len(batchData)
    BY <2>1 DEF Applied, IngestTypeOK
  <2>3. online' \in [FeatureKeys -> 0..MaxLog]
    BY <2>1, <2>2, AfterSetsType
  <2> QED
    BY <1>2, <2>3 DEF SendRedis, IngestTypeOK, BatchInv, FreshInv, queueVars, restarts
<1>3. CASE SendDuckdb
  <2>1. /\ writeQueue' \in Seq(IngestRows) /\ pushed' \in 0..MaxPushes
        /\ queued' \subseteq Offsets
    BY <1>3, SendDuckdbPushes, PushRowsEffect
  <2> QED
    BY <1>3, <2>1 DEF SendDuckdb, IngestTypeOK, BatchInv, FreshInv, restarts
<1>4. CASE Commit
  <2>1. /\ pc' = "fetch" /\ batchData' = <<>> /\ batchMsgs' = <<>> /\ log' = log
        /\ position' = position /\ rebalances' = rebalances
        /\ committed' \in {committed, CommitOffset}
    BY <1>4 DEF Commit, restarts
  <2>2. PICK i \in 1..Len(batchMsgs) : CommitOffset = batchMsgs[i]
    BY <1>4, CommitOffsetIsHighest DEF Commit
  <2>3. /\ CommitOffset \in 0..Len(log)
        /\ rebalances = 0 => CommitOffset <= position
    BY <2>2, BatchOffsets DEF BatchInv, FreshInv, IngestTypeOK
  <2>4. BatchInv' /\ FreshInv'
    BY <2>1, <2>3 DEF BatchInv, FreshInv
  <2>5. IngestTypeOK'
    BY <1>4, <2>1, <2>3 DEF IngestTypeOK, Commit, queueVars, restarts
  <2> QED
    BY <2>4, <2>5
<1> QED
  BY <1>1, <1>2, <1>3, <1>4 DEF Flush

\* The invariant is inductive.
LEMMA Inductive == IInv /\ [IngestNext]_ingestVars => IInv'
<1> SUFFICES ASSUME IInv, [IngestNext]_ingestVars PROVE IInv'
  OBVIOUS
<1> USE DEF IInv
<1>1. CASE \E m \in Messages : Produce(m)
  BY <1>1, ProduceKeeps
<1>2. CASE Fetch
  BY <1>2, FetchKeeps
<1>3. CASE Timeout
  BY <1>3 DEF Timeout, IngestTypeOK, BatchInv, FreshInv, queueVars, restarts
<1>4. CASE Flush
  BY <1>4, FlushKeeps
<1>5. CASE CooldownEnds
  BY <1>5 DEF CooldownEnds, IngestTypeOK, BatchInv, FreshInv, queueVars, restarts
<1>6. CASE Rebalance
  BY <1>6, IngestAssumption
  DEF Rebalance, IngestTypeOK, BatchInv, FreshInv, queueVars, IngestAssumption
<1>7. CASE EngineCrashes
  <2>1. batchData' = <<>> /\ batchMsgs' = <<>> /\ pc' = "fetch"
    BY <1>7 DEF EngineCrashes, Restart
  <2>4. batchData' \in Seq(Offsets) /\ batchMsgs' \in Seq(Offsets)
    BY <2>1
  <2>5. /\ crashes' \in 0..MaxCrashes /\ position' \in 0..Len(log') /\ committed' \in 0..Len(log')
    BY <1>7, IngestAssumption DEF EngineCrashes, Restart, IngestTypeOK, IngestAssumption
  <2>6. cooling' \in BOOLEAN
    BY <1>7 DEF EngineCrashes, Restart
  <2>2. IngestTypeOK'
    BY <1>7, <2>1, <2>4, <2>5, <2>6 DEF EngineCrashes, Restart, IngestTypeOK, queueVars
  <2>3. BatchInv' /\ FreshInv'
    BY <1>7, <2>1 DEF EngineCrashes, Restart, BatchInv, FreshInv, IngestTypeOK
  <2> QED
    BY <2>2, <2>3
<1>8. CASE UNCHANGED ingestVars
  BY <1>8 DEF ingestVars, restarts, IngestTypeOK, BatchInv, FreshInv
<1> QED
  BY <1>1, <1>2, <1>3, <1>4, <1>5, <1>6, <1>7, <1>8 DEF IngestNext, EngineNext

\* The invariant holds in every reachable state.
LEMMA Invariance == IngestSpec => []IInv
  BY InitIInv, Inductive, PTL DEF IngestSpec

\* The consumer's state is well typed, whatever fails: in particular the group
\* is never past the end of the log, and every row pushed has its number.
THEOREM TypeCorrect == IngestSpec => []IngestTypeOK
  BY Invariance, PTL DEF IInv

\* Without a rebalance no row is pushed again once its message is committed,
\* whatever else fails.
THEOREM PushedWhileUncommitted == IngestSpec => OnlyUncommittedAgain
<1>1. IInv /\ [IngestNext]_ingestVars =>
        [rebalances = 0 => \A i \in (Len(writeQueue) + 1)..Len(writeQueue') :
                              writeQueue'[i].data > committed]_ingestVars
  <2> SUFFICES ASSUME IInv, [IngestNext]_ingestVars, rebalances = 0,
                      NEW i \in (Len(writeQueue) + 1)..Len(writeQueue')
               PROVE  writeQueue'[i].data > committed
    OBVIOUS
  <2> USE DEF IInv
  <2>1. CASE SendDuckdb
    <3>1. PICK s \in Seq(Offsets) :
            /\ PushRows(s)
            /\ \A j \in 1..Len(s) : \E l \in 1..Len(batchData) : s[j] = batchData[l]
      BY <2>1, SendDuckdbPushes
    <3>2. \E j \in 1..Len(s) : writeQueue'[i].data = s[j]
      BY <3>1, PushRowsEffect
    <3>3. PICK l \in 1..Len(batchData) : writeQueue'[i].data = batchData[l]
      BY <3>1, <3>2
    <3>4. committed < batchData[l] /\ batchData[l] \in Nat /\ committed \in Nat
      BY BatchOffsets DEF FreshInv, IngestTypeOK
    <3> QED
      BY <3>3, <3>4
  <2>2. CASE ~SendDuckdb
    <3>1. writeQueue' = writeQueue
      BY <2>2 DEF IngestNext, EngineNext, Produce, Fetch, Timeout, Flush, Alert, SendRedis,
         Commit, CooldownEnds, Rebalance, EngineCrashes, Restart, queueVars, ingestVars
    <3> QED
      BY <3>1 DEF IngestTypeOK
  <2> QED
    BY <2>1, <2>2
<1> QED
  BY <1>1, Invariance, PTL DEF IngestSpec, OnlyUncommittedAgain

-----------------------------------------------------------------------------
(* If the pipelines to Redis succeed, what is committed was queued *)

\* A step that leaves the log's messages alone, keeps the batch and forgets no
\* row keeps what is handled.
LEMMA HandledStays ==
    ASSUME NEW o, Handled(o), log'[o] = log[o], queued \subseteq queued',
           UNCHANGED batchData
    PROVE  Handled(o)'
  BY DEF Handled, WellFormed

\* A step that only moves the consumer, or not even that.
LEMMA QInvStays ==
    ASSUME QInv, UNCHANGED <<log, committed, batchData, batchMsgs>>,
           queued \subseteq queued', position' \in {position, committed},
           pc' # "commit" \/ pc' = pc \/ \A i \in 1..Len(batchData) : batchData[i] \in queued'
    PROVE  QInv'
<1> USE DEF QInv
<1>1. \A o : Handled(o) => Handled(o)'
  BY HandledStays
<1>2. CommittedWasQueued'
  BY DEF CommittedWasQueued, WellFormed
<1>3. \A o \in 1..position' : Handled(o)'
  <2>1. CASE position' = position
    BY <1>1, <2>1 DEF HandledInv
  <2>2. CASE position' = committed
    BY <1>2, <2>2 DEF Handled, CommittedWasQueued
  <2> QED
    BY <2>1, <2>2
<1>4. \A i \in 1..Len(batchMsgs') : \A o \in 1..batchMsgs'[i] : Handled(o)'
  BY <1>1 DEF HandledInv
<1>5. pc' = "commit" => \A i \in 1..Len(batchData') : batchData'[i] \in queued'
  BY DEF HandledInv
<1> QED
  BY <1>2, <1>3, <1>4, <1>5 DEF HandledInv

\* A message fetched is in the batch, or malformed.
LEMMA FetchQueued == IInv /\ QInv /\ Fetch => QInv'
<1> SUFFICES ASSUME IInv, QInv, Fetch PROVE QInv'
  OBVIOUS
<1> USE DEF IInv, QInv
<1>0. PICK p \in Nat : p = position + 1
  BY DEF IngestTypeOK
<1>1. /\ position' = p /\ p = position + 1 /\ position \in Nat /\ p \in Offsets /\ log' = log
      /\ batchMsgs' = Append(batchMsgs, p) /\ queued' = queued
      /\ committed' = committed /\ pc' # "commit"
      /\ batchData' = IF log[p].json THEN Append(batchData, p) ELSE batchData
      /\ batchMsgs \in Seq(Offsets) /\ batchData \in Seq(Offsets)
  BY <1>0, IngestAssumption
  DEF IngestTypeOK, Fetch, AfterFetch, Offsets, IngestAssumption, queueVars
<1>2. \A o : (\E i \in 1..Len(batchData) : batchData[i] = o)
                => \E i \in 1..Len(batchData') : batchData'[i] = o
  <2>1. CASE log[p].json
    <3>1. /\ Len(batchData') = Len(batchData) + 1 /\ Len(batchData) \in Nat
          /\ \A i \in 1..Len(batchData) : batchData'[i] = batchData[i]
      BY <1>1, <2>1, AppendElements
    <3>2. \A i \in 1..Len(batchData) : i \in 1..Len(batchData')
      BY <3>1
    <3> QED
      BY <3>1, <3>2
  <2>2. CASE ~log[p].json
    BY <1>1, <2>2
  <2> QED
    BY <2>1, <2>2
<1>3. \A o : Handled(o) => Handled(o)'
  BY <1>1, <1>2 DEF Handled, WellFormed
<1>4. Handled(p)'
  <2> SUFFICES ASSUME log[p].json PROVE \E i \in 1..Len(batchData') : batchData'[i] = p
    BY <1>1 DEF Handled, WellFormed
  <2>1. batchData' = Append(batchData, p)
    BY <1>1
  <2>2. Len(batchData') = Len(batchData) + 1 /\ Len(batchData) \in Nat
        /\ batchData'[Len(batchData) + 1] = p
    BY <1>1, <2>1, AppendElements
  <2> QED
    BY <2>2
<1>5. \A o \in 1..position' : Handled(o)'
  <2>1. \A o \in 1..position' : o = p \/ o \in 1..position
    BY <1>1
  <2> QED
    BY <1>3, <1>4, <2>1 DEF HandledInv
<1>6. \A i \in 1..Len(batchMsgs') : \A o \in 1..batchMsgs'[i] : Handled(o)'
  <2> SUFFICES ASSUME NEW i \in 1..Len(batchMsgs')
               PROVE  \A o \in 1..batchMsgs'[i] : Handled(o)'
    OBVIOUS
  <2>1. /\ Len(batchMsgs') = Len(batchMsgs) + 1 /\ Len(batchMsgs) \in Nat
        /\ \A j \in 1..Len(batchMsgs) : batchMsgs'[j] = batchMsgs[j]
        /\ batchMsgs'[Len(batchMsgs) + 1] = p
    BY <1>1, AppendElements
  <2>2. CASE i = Len(batchMsgs) + 1
    BY <1>1, <1>5, <2>1, <2>2
  <2>3. CASE i # Len(batchMsgs) + 1
    <3>1. i \in 1..Len(batchMsgs) /\ batchMsgs'[i] = batchMsgs[i]
      BY <2>1, <2>3
    <3> QED
      BY <1>3, <3>1 DEF HandledInv
  <2> QED
    BY <2>2, <2>3
<1>7. CommittedWasQueued'
  BY <1>1 DEF CommittedWasQueued, WellFormed
<1> QED
  BY <1>1, <1>5, <1>6, <1>7 DEF HandledInv

\* A message written is not fetched yet.
LEMMA ProduceQueued == ASSUME IInv, QInv, NEW m \in Messages, Produce(m) PROVE QInv'
<1> USE DEF IInv, QInv
<1>1. \A o \in 1..Len(log) : log'[o] = log[o]
  BY DEF Produce, IngestTypeOK
<1>2. UNCHANGED <<position, committed, pc, batchData, batchMsgs, queued>>
  BY DEF Produce, queueVars
<1>3. \A o \in 1..Len(log) : Handled(o) => Handled(o)'
  BY <1>1, <1>2, HandledStays
<1>4. /\ position \in 0..Len(log) /\ committed \in 0..Len(log) /\ Len(log) \in Nat
      /\ \A i \in 1..Len(batchMsgs) : batchMsgs[i] \in Nat /\ batchMsgs[i] <= Len(log)
  BY BatchOffsets DEF IngestTypeOK, BatchInv
<1>5. \A o \in 1..position : Handled(o)'
  BY <1>3, <1>4 DEF HandledInv
<1>6. \A i \in 1..Len(batchMsgs) : \A o \in 1..batchMsgs[i] : Handled(o)'
  BY <1>3, <1>4 DEF HandledInv
<1>7. CommittedWasQueued'
  BY <1>1, <1>2, <1>4 DEF CommittedWasQueued, WellFormed
<1> QED
  BY <1>2, <1>5, <1>6, <1>7 DEF HandledInv

\* At the commit everything up to the highest offset is pushed.
LEMMA CommitQueued == IInv /\ QInv /\ Commit => QInv'
<1> SUFFICES ASSUME IInv, QInv, Commit PROVE QInv'
  OBVIOUS
<1> USE DEF IInv, QInv
<1>1. /\ pc = "commit" /\ pc' = "fetch" /\ batchMsgs' = <<>> /\ batchData' = <<>>
      /\ UNCHANGED <<log, position, queued>>
      /\ committed' \in {committed, CommitOffset}
  BY DEF Commit, queueVars
<1>2. \A o : Handled(o) => (WellFormed(o) => o \in queued)
  BY <1>1 DEF Handled, HandledInv
<1>3. \A o \in 1..position' : Handled(o)'
  BY <1>1, <1>2 DEF Handled, HandledInv, WellFormed
<1>4. PICK i \in 1..Len(batchMsgs) : CommitOffset = batchMsgs[i]
  BY <1>1, CommitOffsetIsHighest
<1>5. \A o \in 1..CommitOffset : WellFormed(o) => o \in queued
  BY <1>2, <1>4 DEF HandledInv
<1>6. CommittedWasQueued'
  BY <1>1, <1>5 DEF CommittedWasQueued, WellFormed
<1> QED
  BY <1>1, <1>3, <1>6 DEF HandledInv

\* With pipelines that succeed, every step keeps what is handled.
LEMMA QueuedInductive ==
    ASSUME "redis" \notin IngestFaults
    PROVE  IInv /\ QInv /\ [IngestNext]_ingestVars => QInv'
<1> SUFFICES ASSUME IInv, QInv, [IngestNext]_ingestVars PROVE QInv'
  OBVIOUS
<1>1. CASE \E m \in Messages : Produce(m)
  BY <1>1, ProduceQueued
<1>2. CASE Fetch
  BY <1>2, FetchQueued
<1>3. CASE Commit
  BY <1>3, CommitQueued
<1>4. CASE SendDuckdb
  <2>1. PICK s \in Seq(Offsets) :
          /\ PushRows(s)
          /\ \A i \in 1..Len(batchData) : \E j \in 1..Len(s) : s[j] = batchData[i]
    BY <1>4, SendDuckdbPushes DEF IInv
  <2>2. queued \subseteq queued' /\ \A j \in 1..Len(s) : s[j] \in queued'
    BY <2>1, PushRowsEffect DEF IInv
  <2>3. \A i \in 1..Len(batchData) : batchData[i] \in queued'
    BY <2>1, <2>2
  <2>4. UNCHANGED <<log, position, committed, batchData, batchMsgs>>
    BY <1>4 DEF SendDuckdb
  <2> QED
    BY <2>2, <2>3, <2>4, QInvStays
<1>5. CASE EngineCrashes
  <2>1. /\ batchData' = <<>> /\ batchMsgs' = <<>> /\ pc' = "fetch" /\ position' = committed
        /\ UNCHANGED <<log, committed, queued>>
    BY <1>5 DEF EngineCrashes, Restart, queueVars
  <2>2. CommittedWasQueued'
    BY <2>1 DEF QInv, CommittedWasQueued, WellFormed
  <2>3. \A o \in 1..position' : Handled(o)'
    BY <2>1, <2>2 DEF CommittedWasQueued, Handled
  <2> QED
    BY <2>1, <2>2, <2>3 DEF QInv, HandledInv
<1>6. CASE Timeout \/ Alert \/ SendRedis \/ CooldownEnds \/ Rebalance \/ UNCHANGED ingestVars
  <2>1. /\ UNCHANGED <<log, committed, batchData, batchMsgs, queued>>
        /\ position' \in {position, committed} /\ (pc' # "commit" \/ pc' = pc)
    BY <1>6 DEF Timeout, Alert, SendRedis, CooldownEnds, Rebalance, queueVars, ingestVars
  <2> QED
    BY <2>1, QInvStays
<1> QED
  BY <1>1, <1>2, <1>3, <1>4, <1>5, <1>6 DEF IngestNext, EngineNext, Flush

\* Without errors from the pipelines to Redis (a pipeline sent twice is none),
\* no message is committed that was not pushed on the write queue, whatever the
\* batch size, and whenever the consumer crashes, falls back or fails to commit.
THEOREM QueuedBeforeCommit ==
    ASSUME "redis" \notin IngestFaults PROVE IngestSpec => []CommittedWasQueued
<1>1. IngestInit => IInv /\ QInv
  <2>1. IngestInit => QInv
    BY DEF IngestInit, QInv, HandledInv, CommittedWasQueued
  <2> QED
    BY <2>1, InitIInv
<1>2. IInv /\ QInv /\ [IngestNext]_ingestVars => (IInv /\ QInv)'
  BY Inductive, QueuedInductive
<1>3. QInv => CommittedWasQueued
  BY DEF QInv
<1> QED
  BY <1>1, <1>2, <1>3, PTL DEF IngestSpec

-----------------------------------------------------------------------------
(* If the pipelines to Redis succeed, the online store is fresh *)

\* The value of the well-formed message at offset o, or a later one about its
\* key, is in the online store.
Shown(o) == WellFormed(o) => online[log[o].key] >= o

\* Between a flush of the online store and the commit the batch is in it, too.
ShownUpTo == IF pc \in {"duckdb", "commit"} THEN position ELSE Passed

\* Without a rebalance the batch is what was fetched last: the well-formed
\* messages behind those flushed, in the order of the log; nothing of it is
\* committed, and everything before it is shown.
OnlineInv == rebalances = 0 =>
    /\ Len(batchMsgs) <= position /\ committed <= Passed
    /\ \A o \in (Passed + 1)..position : WellFormed(o) =>
          \E i \in 1..Len(batchData) : batchData[i] = o
    /\ \A i \in 1..Len(batchData) : Passed < batchData[i] /\ batchData[i] <= position
    /\ \A i, j \in 1..Len(batchData) : i < j => batchData[i] < batchData[j]
    /\ \A o \in 1..ShownUpTo : Shown(o)

\* The numbers that OnlineInv compares.
LEMMA OnlineNumbers ==
    ASSUME IngestTypeOK
    PROVE  /\ position \in Nat /\ committed \in Nat /\ Len(log) \in Nat /\ position <= Len(log)
           /\ Len(batchMsgs) \in Nat /\ Len(batchData) \in Nat
           /\ \A o \in 1..Len(log) : log[o].key \in FeatureKeys
           /\ \A k \in FeatureKeys : online[k] \in Nat
<1>1. log \in Seq(Messages) /\ Messages \subseteq [key : FeatureKeys, json : BOOLEAN, high : BOOLEAN]
  BY IngestAssumption DEF IngestTypeOK, IngestAssumption
<1>2. \A o \in 1..Len(log) : log[o].key \in FeatureKeys
  BY <1>1
<1>3. MaxLog \in Nat /\ online \in [FeatureKeys -> 0..MaxLog]
  BY IngestAssumption DEF IngestTypeOK, IngestAssumption
<1> QED
  BY <1>1, <1>2, <1>3 DEF IngestTypeOK

\* A step that changes neither the log, nor the batch, nor the store.
LEMMA OnlineStays ==
    ASSUME OnlineInv, UNCHANGED <<log, position, committed, batchData, batchMsgs, online, rebalances>>,
           pc' \in {"duckdb", "commit"} <=> pc \in {"duckdb", "commit"}
    PROVE  OnlineInv'
  BY DEF OnlineInv, ShownUpTo, Passed, Shown, WellFormed

\* A message fetched goes to the end of the batch.
LEMMA FetchOnline == IInv /\ OnlineInv /\ Fetch => OnlineInv'
<1> SUFFICES ASSUME IInv, OnlineInv, Fetch, rebalances = 0 PROVE OnlineInv'
  BY DEF Fetch, restarts, OnlineInv
<1> USE DEF IInv
<1>0. PICK p \in Nat : p = position + 1
  BY OnlineNumbers
<1>1. /\ position' = p /\ p = position + 1 /\ p \in Offsets /\ log' = log /\ online' = online
      /\ batchMsgs' = Append(batchMsgs, p) /\ committed' = committed
      /\ pc = "fetch" /\ pc' \in {"fetch", "alert"} /\ rebalances' = 0
      /\ batchData' = IF log[p].json THEN Append(batchData, p) ELSE batchData
      /\ batchMsgs \in Seq(Offsets) /\ batchData \in Seq(Offsets)
  BY <1>0, IngestAssumption
  DEF IngestTypeOK, Fetch, AfterFetch, Offsets, IngestAssumption, restarts
<1>2. /\ Len(batchMsgs') = Len(batchMsgs) + 1 /\ Len(batchMsgs) \in Nat /\ position \in Nat
      /\ Len(batchMsgs) <= position /\ Len(batchData) \in Nat /\ committed \in Nat
  BY <1>1, AppendElements, OnlineNumbers DEF OnlineInv
<1>3. Passed' = Passed /\ Passed \in Nat /\ Passed <= position
  BY <1>1, <1>2 DEF Passed
<1>4. /\ Len(batchData') \in Nat
      /\ \A i \in 1..Len(batchData) : i \in 1..Len(batchData') /\ batchData'[i] = batchData[i]
      /\ \A i \in 1..Len(batchData') :
            \/ i \in 1..Len(batchData) /\ batchData'[i] = batchData[i]
            \/ i = Len(batchData) + 1 /\ batchData'[i] = p
      /\ WellFormed(p) => \E i \in 1..Len(batchData') : batchData'[i] = p
  <2>1. CASE log[p].json
    <3>1. /\ Len(batchData') = Len(batchData) + 1
          /\ \A i \in 1..Len(batchData) : batchData'[i] = batchData[i]
          /\ batchData'[Len(batchData) + 1] = p
      BY <1>1, <2>1, AppendElements
    <3>2. \A i \in 1..Len(batchData') : i \in 1..Len(batchData) \/ i = Len(batchData) + 1
      BY <1>2, <3>1
    <3> QED
      BY <1>2, <3>1, <3>2
  <2>2. CASE ~log[p].json
    BY <1>1, <1>2, <2>2 DEF WellFormed
  <2> QED
    BY <2>1, <2>2
<1>5. \A o \in (Passed + 1)..p : WellFormed(o) => \E i \in 1..Len(batchData') : batchData'[i] = o
  <2>1. \A o \in (Passed + 1)..p : o = p \/ o \in (Passed + 1)..position
    BY <1>0, <1>2, <1>3
  <2> QED
    BY <1>4, <2>1 DEF OnlineInv
<1>6. \A i \in 1..Len(batchData) : /\ batchData[i] \in Nat /\ Passed < batchData[i]
                                   /\ batchData[i] <= position
  BY BatchOffsets DEF OnlineInv
<1>7. \A i \in 1..Len(batchData') : Passed < batchData'[i] /\ batchData'[i] <= p
  BY <1>0, <1>2, <1>3, <1>4, <1>6
<1>8. \A i, j \in 1..Len(batchData') : i < j => batchData'[i] < batchData'[j]
  <2> SUFFICES ASSUME NEW i \in 1..Len(batchData'), NEW j \in 1..Len(batchData'), i < j
               PROVE  batchData'[i] < batchData'[j]
    OBVIOUS
  <2>1. i \in 1..Len(batchData) /\ batchData'[i] = batchData[i]
    BY <1>2, <1>4
  <2>2. CASE j = Len(batchData) + 1 /\ batchData'[j] = p
    BY <1>0, <1>2, <1>6, <2>1, <2>2
  <2>3. CASE j \in 1..Len(batchData) /\ batchData'[j] = batchData[j]
    BY <2>1, <2>3 DEF OnlineInv
  <2> QED
    BY <1>4, <2>2, <2>3
<1>9. \A o \in 1..ShownUpTo' : Shown(o)'
  BY <1>1, <1>3 DEF OnlineInv, ShownUpTo, Shown, WellFormed
<1>10. (\A o \in (Passed + 1)..position :
          WellFormed(o) => \E i \in 1..Len(batchData) : batchData[i] = o)'
  BY <1>1, <1>3, <1>5 DEF WellFormed
<1>11. Len(batchMsgs') <= position' /\ committed' <= Passed'
  BY <1>1, <1>2, <1>3 DEF OnlineInv
<1> QED
  BY <1>1, <1>3, <1>7, <1>8, <1>9, <1>10, <1>11 DEF OnlineInv

\* The whole batch set, the store shows everything that was fetched.
LEMMA SendRedisOnline ==
    ASSUME "redis" \notin IngestFaults, IInv, OnlineInv, SendRedis, rebalances = 0
    PROVE  \A o \in 1..position : Shown(o)'
<1> USE DEF IInv
<1> DEFINE n == Len(batchData)
<1>1. online' = AfterSets(n) /\ UNCHANGED <<log, position, batchData>> /\ n \in Nat /\ pc = "redis"
  BY OnlineNumbers DEF SendRedis, Applied
<1> HIDE DEF n
<1> SUFFICES ASSUME NEW o \in 1..position, WellFormed(o)
             PROVE  online'[log[o].key] >= o
  BY <1>1 DEF Shown, WellFormed
<1> DEFINE k == log[o].key
           sets == {i \in 1..n : log[batchData[i]].key = k}
           last == CHOOSE i \in sets : \A j \in sets : j <= i
<1>2. k \in FeatureKeys /\ o \in Nat /\ position \in Nat
  BY OnlineNumbers
<1>3. online'[k] = IF sets = {} THEN online[k] ELSE batchData[last]
  BY <1>1, <1>2 DEF AfterSets
<1>4. \A i \in 1..n : batchData[i] \in Nat /\ Passed < batchData[i]
  BY BatchOffsets DEF OnlineInv, n
<1>5. Passed \in Nat /\ Passed <= position
  BY OnlineNumbers DEF OnlineInv, Passed
<1>6. CASE o <= Passed
  <2>1. online[k] >= o
    BY <1>1, <1>5, <1>6 DEF OnlineInv, ShownUpTo, Shown
  <2>2. CASE sets = {}
    BY <1>3, <2>1, <2>2
  <2>3. CASE sets # {}
    <3>1. last \in 1..n
      <4> HIDE DEF k
      <4>1. sets \subseteq 1..n
        OBVIOUS
      <4> HIDE DEF sets
      <4> QED
        BY <1>1, <2>3, <4>1, LastPosition
    <3> HIDE DEF last
    <3> QED
      BY <1>2, <1>3, <1>4, <1>5, <1>6, <2>3, <3>1
  <2> QED
    BY <2>2, <2>3
<1>7. CASE o > Passed
  <2>1. PICK i \in 1..n : batchData[i] = o
    BY <1>2, <1>5, <1>7 DEF OnlineInv, n
  <2>2. i \in sets
    BY <2>1
  <2>3. last \in 1..n /\ i <= last
    <3> HIDE DEF k
    <3>1. sets \subseteq 1..n
      OBVIOUS
    <3> HIDE DEF sets
    <3> QED
      BY <1>1, <2>2, <3>1, LastPosition
  <2> HIDE DEF last
  <2>4. batchData[i] <= batchData[last]
    <3>1. CASE i = last
      BY <1>4, <2>3, <3>1
    <3>2. CASE i < last
      BY <1>4, <2>1, <2>3, <3>2 DEF OnlineInv, n
    <3> QED
      BY <1>1, <2>3, <3>1, <3>2
  <2>5. sets # {}
    BY <2>2
  <2>6. online'[k] = batchData[last]
    BY <1>3, <2>5
  <2>7. batchData[last] \in Nat
    BY <1>4, <2>3
  <2> HIDE DEF sets
  <2> QED
    BY <1>2, <2>1, <2>4, <2>6, <2>7
<1> QED
  BY <1>2, <1>5, <1>6, <1>7

\* With pipelines that succeed, every step keeps what is shown.
LEMMA OnlineInductive ==
    ASSUME "redis" \notin IngestFaults
    PROVE  IInv /\ OnlineInv /\ [IngestNext]_ingestVars => OnlineInv'
<1> SUFFICES ASSUME IInv, OnlineInv, [IngestNext]_ingestVars PROVE OnlineInv'
  OBVIOUS
<1> USE DEF IInv
<1>0. /\ position \in Nat /\ committed \in Nat /\ Len(batchMsgs) \in Nat
      /\ rebalances = 0 => Passed \in Nat /\ Passed <= position /\ committed <= Passed
  BY OnlineNumbers DEF OnlineInv, Passed
<1>1. CASE \E m \in Messages : Produce(m)
  <2>1. PICK m \in Messages : Produce(m)
    BY <1>1
  <2>2. /\ \A o \in 1..Len(log) : log'[o] = log[o]
        /\ UNCHANGED <<position, committed, pc, batchData, batchMsgs, online, rebalances>>
    BY <2>1 DEF Produce, IngestTypeOK, restarts
  <2>3. rebalances = 0 => ShownUpTo \in Nat /\ ShownUpTo <= position
    BY <1>0 DEF ShownUpTo
  <2>4. \A o \in 1..position : (WellFormed(o) <=> WellFormed(o)') /\ (Shown(o) => Shown(o)')
    BY <2>2, OnlineNumbers DEF Shown, WellFormed
  <2>5. Passed' = Passed /\ ShownUpTo' = ShownUpTo
    BY <2>2 DEF Passed, ShownUpTo
  <2> QED
    BY <1>0, <2>2, <2>3, <2>4, <2>5 DEF OnlineInv
<1>2. CASE Fetch
  BY <1>2, FetchOnline
<1>3. CASE SendRedis
  <2>1. /\ UNCHANGED <<log, position, committed, batchData, batchMsgs, rebalances>>
        /\ pc' = "duckdb"
    BY <1>3 DEF SendRedis, restarts
  <2>2. rebalances = 0 => \A o \in 1..position : Shown(o)'
    BY <1>3, SendRedisOnline
  <2>3. Passed' = Passed /\ ShownUpTo' = position
    BY <2>1 DEF Passed, ShownUpTo
  <2>4. \A o : WellFormed(o)' <=> WellFormed(o)
    BY <2>1 DEF WellFormed
  <2> QED
    BY <2>1, <2>2, <2>3, <2>4 DEF OnlineInv
<1>4. CASE Commit
  <2>1. /\ pc = "commit" /\ pc' = "fetch" /\ batchData' = <<>> /\ batchMsgs' = <<>>
        /\ UNCHANGED <<log, position, online, rebalances>>
        /\ committed' \in {committed, CommitOffset}
    BY <1>4 DEF Commit, restarts
  <2>2. rebalances = 0 => committed' \in Nat /\ committed' <= position
    <3>1. \E i \in 1..Len(batchMsgs) : CommitOffset = batchMsgs[i]
      BY <2>1, CommitOffsetIsHighest
    <3> QED
      BY <1>0, <2>1, <3>1, BatchOffsets DEF FreshInv
  <2>3. Passed' = position /\ ShownUpTo' = position /\ ShownUpTo = position
    BY <1>0, <2>1 DEF Passed, ShownUpTo
  <2>4. \A o : Shown(o)' <=> Shown(o)
    BY <2>1 DEF Shown, WellFormed
  <2> QED
    BY <1>0, <2>1, <2>2, <2>3, <2>4 DEF OnlineInv
<1>5. CASE EngineCrashes
  <2>1. /\ pc' = "fetch" /\ batchData' = <<>> /\ batchMsgs' = <<>> /\ position' = committed
        /\ UNCHANGED <<log, committed, online, rebalances>>
    BY <1>5 DEF EngineCrashes, Restart
  <2>2. Passed' = committed /\ ShownUpTo' = committed
    BY <1>0, <2>1 DEF Passed, ShownUpTo
  <2>3. \A o : Shown(o)' <=> Shown(o)
    BY <2>1 DEF Shown, WellFormed
  <2>4. rebalances = 0 => \A o \in 1..committed : Shown(o)
    BY <1>0 DEF OnlineInv, ShownUpTo
  <2> QED
    BY <1>0, <2>1, <2>2, <2>3, <2>4 DEF OnlineInv
<1>6. CASE Rebalance
  BY <1>6 DEF Rebalance, OnlineInv, IngestTypeOK
<1>7. CASE Timeout \/ Alert \/ SendDuckdb \/ CooldownEnds \/ UNCHANGED ingestVars
  <2>1. /\ UNCHANGED <<log, position, committed, batchData, batchMsgs, online, rebalances>>
        /\ pc' \in {"duckdb", "commit"} <=> pc \in {"duckdb", "commit"}
    BY <1>7 DEF Timeout, Alert, SendDuckdb, CooldownEnds, ingestVars, restarts
  <2> QED
    BY <2>1, OnlineStays
<1> QED
  BY <1>1, <1>2, <1>3, <1>4, <1>5, <1>6, <1>7 DEF IngestNext, EngineNext, Flush

\* Everything shown, the highest message about a key is.
LEMMA ShownIsFresh == IngestTypeOK /\ OnlineInv => OnlineIsFresh
<1> SUFFICES ASSUME IngestTypeOK, OnlineInv, rebalances = 0, NEW k \in FeatureKeys
             PROVE  online[k] >= Latest(k, Passed)
  BY DEF OnlineIsFresh, OnlineInv
<1> DEFINE about == {o \in 1..Passed : WellFormed(o) /\ log[o].key = k}
           highest == CHOOSE o \in about : \A p \in about : p <= o
<1>1. Passed \in Nat /\ Passed <= position /\ online[k] \in Nat
  BY OnlineNumbers DEF OnlineInv, Passed
<1>2. \A o \in about : online[k] >= o
  <2> SUFFICES ASSUME NEW o \in 1..Passed, WellFormed(o), log[o].key = k
               PROVE  online[k] >= o
    OBVIOUS
  <2>1. o \in 1..ShownUpTo
    BY <1>1, OnlineNumbers DEF ShownUpTo
  <2>2. Shown(o)
    BY <2>1 DEF OnlineInv
  <2> QED
    BY <2>2 DEF Shown
<1>3. about # {} => highest \in about
  <2>1. about \subseteq 1..Passed
    OBVIOUS
  <2> HIDE DEF about
  <2> QED
    BY <1>1, <2>1, LastPosition
<1>4. Latest(k, Passed) = IF about = {} THEN 0 ELSE highest
  BY DEF Latest
<1> HIDE DEF about, highest
<1> QED
  BY <1>1, <1>2, <1>3, <1>4

\* Without errors from the pipelines to Redis and without a rebalance the
\* consumer is never behind the committed offset, and the online store never
\* behind the messages that the consumer is past, however often it crashes and
\* whatever commit fails.  A replay may put the store behind what was flushed
\* before the crash; the consumer is then not past those messages.
THEOREM StoreStaysFresh ==
    ASSUME "redis" \notin IngestFaults PROVE IngestSpec => []OnlineIsFresh
<1>1. IngestInit => OnlineInv
  BY DEF IngestInit, OnlineInv, ShownUpTo, Passed
<1>2. IngestInit => IInv /\ OnlineInv
  BY <1>1, InitIInv
<1>3. IInv /\ OnlineInv /\ [IngestNext]_ingestVars => (IInv /\ OnlineInv)'
  BY Inductive, OnlineInductive
<1>4. IInv /\ OnlineInv => OnlineIsFresh
  BY ShownIsFresh DEF IInv
<1> QED
  BY <1>2, <1>3, <1>4, PTL DEF IngestSpec
=============================================================================
