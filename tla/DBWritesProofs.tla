--------------------------- MODULE DBWritesProofs ---------------------------
(***************************************************************************)
(* What holds of the write path for every number of tables and rows, every *)
(* batch size and every set of failures: type correctness, and that the    *)
(* rows of a table are stored in the order in which they were pushed.      *)
(***************************************************************************)
EXTENDS DBWrites, SequenceFacts

UpTo(s, n) == \A i \in 1..Len(s) : s[i].n <= n

\* What is stored of a table precedes what is popped for it, that precedes
\* what is queued, and each of the three is in the order of the pushes.
TableInv(queue, popd, strd, n) ==
    /\ Increasing(strd) /\ Increasing(popd)
    /\ Before(strd, popd) /\ Before(strd, queue) /\ Before(popd, queue)
    /\ UpTo(strd, n) /\ UpTo(popd, n)
OrderInv ==
    /\ Increasing(writeQueue) /\ UpTo(writeQueue, pushed)
    /\ \A t \in Tables : TableInv(writeQueue, batch[t], stored[t], pushed)

IInv == WritesTypeOK /\ OrderInv

-----------------------------------------------------------------------------
(* Sequences of rows *)

\* A number that is not in the queue yet goes to its end.
LEMMA AppendIncreasing ==
    ASSUME NEW s \in Seq(Rows), NEW e \in Rows, Increasing(s),
           \A i \in 1..Len(s) : s[i].n < e.n
    PROVE  Increasing(Append(s, e))
<1> DEFINE a == Append(s, e)
<1>1. /\ Len(s) \in Nat /\ Len(a) = Len(s) + 1
      /\ \A i \in 1..Len(s) : a[i] = s[i]
      /\ a[Len(s) + 1] = e
      /\ \A i \in 1..(Len(s) + 1) : i = Len(s) + 1 \/ i \in 1..Len(s)
  BY AppendElements
<1> HIDE DEF a
<1> SUFFICES ASSUME NEW i \in 1..Len(a), NEW j \in 1..Len(a), i < j
             PROVE  a[i].n < a[j].n
  BY DEF Increasing, a
<1>2. i \in 1..Len(s)
  BY <1>1
<1>3. CASE j = Len(s) + 1
  BY <1>1, <1>2, <1>3
<1>4. CASE j \in 1..Len(s)
  BY <1>1, <1>2, <1>4 DEF Increasing
<1> QED
  BY <1>1, <1>3, <1>4

\* Popping the first row keeps the order, and the row precedes the rest.
LEMMA TailIncreasing ==
    ASSUME NEW s \in Seq(Rows), s # <<>>, Increasing(s)
    PROVE  /\ Increasing(Tail(s))
           /\ \A i \in 1..Len(Tail(s)) : Head(s).n < Tail(s)[i].n
<1>1. /\ Len(s) \in Nat \ {0} /\ Len(Tail(s)) = Len(s) - 1 /\ Head(s) = s[1]
      /\ \A i \in 1..Len(Tail(s)) : Tail(s)[i] = s[i + 1] /\ i + 1 \in 2..Len(s)
  BY TailElements
<1>2. \A i \in 1..Len(Tail(s)) : Head(s).n < Tail(s)[i].n
  BY <1>1 DEF Increasing
<1>3. \A i, j \in 1..Len(Tail(s)) : i < j => s[i + 1].n < s[j + 1].n
  BY <1>1 DEF Increasing
<1>4. Increasing(Tail(s))
  BY <1>1, <1>3 DEF Increasing
<1> QED
  BY <1>2, <1>4

\* Storing the first k rows of a batch after the rows already stored.
LEMMA ConcatIncreasing ==
    ASSUME NEW s \in Seq(Rows), NEW u \in Seq(Rows), NEW k \in 0..Len(u),
           Increasing(s), Increasing(u), Before(s, u)
    PROVE  Increasing(s \o SubSeq(u, 1, k))
<1> DEFINE c == s \o SubSeq(u, 1, k)
<1>1. /\ Len(s) \in Nat /\ Len(u) \in Nat /\ k \in Nat /\ Len(c) = Len(s) + k
      /\ \A i \in 1..Len(s) : c[i] = s[i]
      /\ \A i \in (Len(s) + 1)..(Len(s) + k) : c[i] = u[i - Len(s)] /\ i - Len(s) \in 1..Len(u)
      /\ \A i \in 1..(Len(s) + k) : i \in 1..Len(s) \/ i \in (Len(s) + 1)..(Len(s) + k)
  BY ConcatElements
<1> HIDE DEF c
<1> SUFFICES ASSUME NEW i \in 1..Len(c), NEW j \in 1..Len(c), i < j
             PROVE  c[i].n < c[j].n
  BY DEF Increasing, c
<1>2. CASE j \in 1..Len(s)
  <2>1. i \in 1..Len(s)
    BY <1>1, <1>2
  <2> QED
    BY <1>1, <1>2, <2>1 DEF Increasing
<1>3. CASE j \in (Len(s) + 1)..(Len(s) + k) /\ i \in 1..Len(s)
  BY <1>1, <1>3 DEF Before
<1>4. CASE j \in (Len(s) + 1)..(Len(s) + k) /\ i \in (Len(s) + 1)..(Len(s) + k)
  <2>1. i - Len(s) < j - Len(s)
    BY <1>1, <1>4
  <2> QED
    BY <1>1, <1>4, <2>1 DEF Increasing
<1> QED
  BY <1>1, <1>2, <1>3, <1>4

-----------------------------------------------------------------------------
(* The invariant *)

\* The invariant holds at the start: there are no rows.
LEMMA InitIInv == WritesInit => IInv
<1> SUFFICES ASSUME WritesInit PROVE IInv
  OBVIOUS
<1> USE WritesAssumption DEF WritesAssumption
<1>1. WritesTypeOK
  BY DEF WritesInit, HandlerInit, WritesTypeOK, EmptyBatch
<1>2. \A t \in Tables : batch[t] = <<>> /\ stored[t] = <<>>
  BY DEF WritesInit, HandlerInit, EmptyBatch
<1>3. writeQueue = <<>>
  BY DEF WritesInit
<1> QED
  BY <1>1, <1>2, <1>3 DEF IInv, OrderInv, TableInv, UpTo, Increasing, Before

\* What a push, a pop and a store do to the order, for any table.
LEMMA PushOrder ==
    ASSUME NEW q \in Seq(Rows), NEW n \in Nat, NEW e \in Rows, e.n = n + 1,
           Increasing(q), UpTo(q, n)
    PROVE  /\ Append(q, e) \in Seq(Rows)
           /\ Increasing(Append(q, e)) /\ UpTo(Append(q, e), n + 1)
           /\ \A b, s \in Seq(Rows) :
                TableInv(q, b, s, n) => TableInv(Append(q, e), b, s, n + 1)
<1> DEFINE a == Append(q, e)
<1>1. /\ a \in Seq(Rows) /\ Len(a) = Len(q) + 1
      /\ \A i \in 1..Len(q) : q[i] \in Rows /\ a[i] = q[i]
      /\ a[Len(q) + 1] = e
      /\ \A i \in 1..Len(a) : i = Len(q) + 1 \/ i \in 1..Len(q)
  BY AppendElements
<1>2. \A r \in Rows : r.n \in Nat
  BY DEF Rows
<1>3. \A i \in 1..Len(q) : q[i].n < e.n
  BY <1>1, <1>2 DEF UpTo
<1>4. Increasing(a)
  BY <1>3, AppendIncreasing
<1> HIDE DEF a
<1>5. UpTo(a, n + 1)
  BY <1>1, <1>2 DEF UpTo
<1>6. ASSUME NEW s \in Seq(Rows), Before(s, q), UpTo(s, n)
      PROVE  Before(s, a) /\ UpTo(s, n + 1)
  <2>1. \A i \in 1..Len(s) : s[i].n \in Nat
    BY <1>2
  <2>2. UpTo(s, n + 1)
    BY <1>6, <2>1 DEF UpTo
  <2>3. \A i \in 1..Len(s) : s[i].n < e.n
    BY <1>6, <2>1 DEF UpTo
  <2>4. Before(s, a)
    BY <1>1, <1>6, <2>3 DEF Before
  <2> QED
    BY <2>2, <2>4
<1>7. \A b, s \in Seq(Rows) : TableInv(q, b, s, n) => TableInv(a, b, s, n + 1)
  BY <1>6 DEF TableInv
<1> QED
  BY <1>1, <1>4, <1>5, <1>7 DEF a

\* Popping the first row of the queue into its table's batch.
LEMMA PopOrder ==
    ASSUME NEW q \in Seq(Rows), q # <<>>, NEW n \in Nat, Increasing(q), UpTo(q, n)
    PROVE  /\ Tail(q) \in Seq(Rows) /\ Head(q) \in Rows
           /\ Increasing(Tail(q)) /\ UpTo(Tail(q), n)
           /\ \A b, s \in Seq(Rows) : TableInv(q, b, s, n) =>
                /\ TableInv(Tail(q), b, s, n)
                /\ TableInv(Tail(q), Append(b, Head(q)), s, n)
<1> DEFINE u == Tail(q)
           h == Head(q)
<1>1. /\ u \in Seq(Rows) /\ h \in Rows /\ Len(q) \in Nat \ {0} /\ Len(u) = Len(q) - 1
      /\ h = q[1]
      /\ \A i \in 1..Len(u) : u[i] = q[i + 1] /\ i + 1 \in 2..Len(q)
  BY TailElements
<1>2. Increasing(u) /\ \A i \in 1..Len(u) : h.n < u[i].n
  BY TailIncreasing
<1> HIDE DEF u, h
<1>3. 1 \in 1..Len(q) /\ \A i \in 1..Len(u) : i + 1 \in 1..Len(q)
  BY <1>1
<1>4. UpTo(u, n) /\ h.n <= n
  BY <1>1, <1>3 DEF UpTo
<1>5. \A s : Before(s, q) => Before(s, u) /\ \A i \in 1..Len(s) : s[i].n < h.n
  BY <1>1, <1>3 DEF Before
<1>6. ASSUME NEW b \in Seq(Rows), NEW s \in Seq(Rows), TableInv(q, b, s, n)
      PROVE  TableInv(u, b, s, n) /\ TableInv(u, Append(b, h), s, n)
  <2> DEFINE c == Append(b, h)
  <2>1. TableInv(u, b, s, n)
    BY <1>5, <1>6 DEF TableInv
  <2>2. /\ Len(c) = Len(b) + 1
        /\ \A i \in 1..Len(b) : c[i] = b[i]
        /\ c[Len(b) + 1] = h
        /\ \A i \in 1..Len(c) : i = Len(b) + 1 \/ i \in 1..Len(b)
    BY <1>1, AppendElements
  <2>3. \A i \in 1..Len(b) : b[i].n < h.n
    BY <1>5, <1>6 DEF TableInv
  <2>4. Increasing(c)
    BY <1>1, <1>6, <2>3, AppendIncreasing DEF TableInv
  <2> HIDE DEF c
  <2>5. Before(s, c)
    BY <1>5, <1>6, <2>2 DEF TableInv, Before
  <2>6. Before(c, u)
    BY <1>2, <2>1, <2>2 DEF TableInv, Before
  <2>7. UpTo(c, n)
    BY <1>4, <1>6, <2>2 DEF TableInv, UpTo
  <2>8. TableInv(u, c, s, n)
    BY <2>1, <2>4, <2>5, <2>6, <2>7 DEF TableInv
  <2> QED
    BY <2>1, <2>8 DEF c
<1> QED
  BY <1>1, <1>2, <1>4, <1>6 DEF u, h

\* Storing the first rows of a batch, and dropping the others.
LEMMA StoreOrder ==
    ASSUME NEW q \in Seq(Rows), NEW b \in Seq(Rows), NEW s \in Seq(Rows), NEW n \in Nat,
           NEW k \in 0..Len(b), TableInv(q, b, s, n)
    PROVE  /\ s \o SubSeq(b, 1, k) \in Seq(Rows)
           /\ TableInv(q, <<>>, s \o SubSeq(b, 1, k), n)
<1> DEFINE c == s \o SubSeq(b, 1, k)
<1>1. /\ c \in Seq(Rows) /\ Len(c) = Len(s) + k
      /\ \A i \in 1..Len(s) : c[i] = s[i]
      /\ \A i \in (Len(s) + 1)..(Len(s) + k) : c[i] = b[i - Len(s)] /\ i - Len(s) \in 1..Len(b)
      /\ \A i \in 1..(Len(s) + k) : i \in 1..Len(s) \/ i \in (Len(s) + 1)..(Len(s) + k)
  BY ConcatElements
<1>2. Increasing(c)
  BY ConcatIncreasing DEF TableInv
<1> HIDE DEF c
<1>3. \A i \in 1..Len(c) : \/ \E j \in 1..Len(s) : c[i] = s[j]
                           \/ \E j \in 1..Len(b) : c[i] = b[j]
  BY <1>1
<1>4. Before(c, q)
  BY <1>3 DEF TableInv, Before
<1>5. UpTo(c, n)
  BY <1>3 DEF TableInv, UpTo
<1>6. Increasing(<<>>) /\ Before(c, <<>>) /\ Before(<<>>, q) /\ UpTo(<<>>, n)
  BY DEF Increasing, Before, UpTo
<1> QED
  BY <1>1, <1>2, <1>4, <1>5, <1>6 DEF TableInv, c

-----------------------------------------------------------------------------
(* The steps *)

\* OrderInv of the next state, from its parts.
LEMMA OrderNext ==
    ASSUME Increasing(writeQueue'), UpTo(writeQueue', pushed'),
           \A t \in Tables : TableInv(writeQueue', batch'[t], stored'[t], pushed')
    PROVE  OrderInv'
  BY DEF OrderInv, Increasing, UpTo, TableInv, Before

\* A table's batch can be dropped.
LEMMA EmptyInOrder ==
    ASSUME NEW q, NEW b, NEW s, NEW n, TableInv(q, b, s, n)
    PROVE  TableInv(q, <<>>, s, n)
<1>1. Increasing(<<>>) /\ Before(s, <<>>) /\ Before(<<>>, q) /\ UpTo(<<>>, n)
  BY DEF Increasing, Before, UpTo
<1> QED
  BY <1>1 DEF TableInv

\* The types of the queue and of each table's rows.
LEMMA Types ==
    ASSUME WritesTypeOK
    PROVE  /\ writeQueue \in Seq(Rows) /\ pushed \in Nat
           /\ \A t \in Tables : batch[t] \in Seq(Rows) /\ stored[t] \in Seq(Rows)
  BY WritesAssumption DEF WritesTypeOK, WritesAssumption

\* A push takes the next number.
LEMMA PushKeeps ==
    ASSUME IInv, NEW t \in Tables, NEW d \in Data, Push(t, d) PROVE IInv'
<1> USE DEF IInv
<1> DEFINE e == [n |-> pushed + 1, table |-> t, data |-> d]
<1>1. /\ e \in Rows /\ e.n = pushed + 1 /\ pushed' = pushed + 1 /\ pushed' \in 0..MaxRows
      /\ writeQueue' = Append(writeQueue, e)
      /\ batch' = batch /\ stored' = stored
  BY WritesAssumption DEF Push, WritesTypeOK, WritesAssumption, Rows, handlerVars
<1> HIDE DEF e
<1>2. /\ writeQueue' \in Seq(Rows) /\ Increasing(writeQueue') /\ UpTo(writeQueue', pushed')
      /\ \A b, s \in Seq(Rows) :
           TableInv(writeQueue, b, s, pushed) => TableInv(writeQueue', b, s, pushed')
  BY <1>1, Types, PushOrder DEF OrderInv
<1>3. OrderInv'
  BY <1>1, <1>2, Types, OrderNext DEF OrderInv
<1>4. WritesTypeOK'
  BY <1>1, <1>2 DEF WritesTypeOK, Push, handlerVars
<1> QED
  BY <1>3, <1>4

\* A pop moves the oldest row to the end of its batch.
LEMMA PopRowKeeps == IInv /\ PopRow => IInv'
<1> SUFFICES ASSUME IInv, PopRow PROVE IInv'
  OBVIOUS
<1> USE DEF IInv
<1> DEFINE h == Head(writeQueue)
<1>1. /\ writeQueue # <<>> /\ writeQueue' = Tail(writeQueue)
      /\ batch' = [batch EXCEPT ![h.table] = Append(@, h)]
      /\ stored' = stored /\ pushed' = pushed
  BY DEF PopRow
<1>2. /\ writeQueue' \in Seq(Rows) /\ h \in Rows
      /\ Increasing(writeQueue') /\ UpTo(writeQueue', pushed)
      /\ \A b, s \in Seq(Rows) : TableInv(writeQueue, b, s, pushed) =>
            /\ TableInv(writeQueue', b, s, pushed)
            /\ TableInv(writeQueue', Append(b, h), s, pushed)
  BY <1>1, Types, PopOrder DEF OrderInv
<1> HIDE DEF h
<1>3. \A t \in Tables : batch'[t] \in {batch[t], Append(batch[t], h)}
  BY <1>1 DEF WritesTypeOK
<1>4. \A t \in Tables : TableInv(writeQueue', batch'[t], stored'[t], pushed')
  BY <1>1, <1>2, <1>3, Types DEF OrderInv
<1>5. OrderInv'
  BY <1>1, <1>2, <1>4, OrderNext
<1>6. h.table \in Tables
  BY <1>2 DEF Rows
<1>7. batch' \in [Tables -> Seq(Rows)]
  <2>1. Append(batch[h.table], h) \in Seq(Rows)
    BY <1>2, <1>6, Types, AppendElements
  <2> QED
    BY <1>1, <2>1 DEF WritesTypeOK
<1>8. popped' \in 0..MaxBatch
  BY WritesAssumption DEF PopRow, WritesTypeOK, WritesAssumption
<1>9. WritesTypeOK'
  BY <1>1, <1>2, <1>7, <1>8 DEF WritesTypeOK, PopRow
<1> QED
  BY <1>5, <1>9

\* A pop that takes a row, or nothing, without adding to the batch.
LEMMA LosePopped ==
    ASSUME IInv, UNCHANGED <<batch, stored, pushed>>,
           \/ writeQueue' = writeQueue
           \/ writeQueue # <<>> /\ writeQueue' = Tail(writeQueue)
    PROVE  OrderInv' /\ writeQueue' \in Seq(Rows)
<1> USE DEF IInv
<1>1. CASE writeQueue' = writeQueue
  BY <1>1, Types, OrderNext DEF OrderInv
<1>2. CASE writeQueue # <<>> /\ writeQueue' = Tail(writeQueue)
  <2>1. /\ writeQueue' \in Seq(Rows) /\ Increasing(writeQueue') /\ UpTo(writeQueue', pushed)
        /\ \A b, s \in Seq(Rows) : TableInv(writeQueue, b, s, pushed) =>
              TableInv(writeQueue', b, s, pushed)
    BY <1>2, Types, PopOrder DEF OrderInv
  <2> QED
    BY <2>1, Types, OrderNext DEF OrderInv
<1> QED
  BY <1>1, <1>2

\* The steps that collect a batch keep the invariant.
LEMMA CollectKeeps == IInv /\ Collect => IInv'
<1> SUFFICES ASSUME IInv, Collect PROVE IInv'
  OBVIOUS
<1> USE DEF IInv
<1>1. CASE Tick
  <2>1. /\ UNCHANGED <<writeQueue, pushed, stored>>
        /\ batch' = EmptyBatch /\ step' = "collect" /\ popped' = 0
    BY <1>1 DEF Tick
  <2>2. \A t \in Tables : batch'[t] = <<>>
    BY <2>1 DEF EmptyBatch
  <2>3. \A t \in Tables : TableInv(writeQueue, <<>>, stored[t], pushed)
    BY EmptyInOrder DEF OrderInv
  <2>4. OrderInv'
    BY <2>1, <2>2, <2>3, OrderNext DEF OrderInv
  <2>5. batch' \in [Tables -> Seq(Rows)]
    BY <2>1 DEF EmptyBatch
  <2>6. WritesTypeOK'
    BY <1>1, <2>1, <2>5, WritesAssumption DEF Tick, WritesTypeOK, WritesAssumption
  <2> QED
    BY <2>4, <2>6
<1>2. CASE PopRow
  BY <1>2, PopRowKeeps
<1>3. CASE PopMalformed
  <2>1. OrderInv' /\ writeQueue' \in Seq(Rows)
    BY <1>3, LosePopped DEF PopMalformed
  <2>2. Head(writeQueue) \in Rows
    BY <1>3, Types, TailElements DEF PopMalformed
  <2>3. dropped' \subseteq [row : Rows, by : Causes]
    BY <1>3, <2>2 DEF PopMalformed, WritesTypeOK, Causes, WriteFaultKinds
  <2>4. popped' \in 0..MaxBatch
    BY <1>3, WritesAssumption DEF PopMalformed, WritesTypeOK, WritesAssumption
  <2>5. WritesTypeOK'
    BY <1>3, <2>1, <2>3, <2>4 DEF PopMalformed, WritesTypeOK
  <2> QED
    BY <2>1, <2>5
<1>4. CASE PopFails
  <2>1. OrderInv' /\ writeQueue' \in Seq(Rows)
    BY <1>4, LosePopped DEF PopFails
  <2>2. writeQueue # <<>> => Head(writeQueue) \in Rows
    BY Types, TailElements
  <2>3. dropped' \subseteq [row : Rows, by : Causes]
    BY <1>4, <2>2 DEF PopFails, WritesTypeOK, Causes, WriteFaultKinds
  <2>4. WritesTypeOK'
    BY <1>4, <2>1, <2>3 DEF PopFails, WritesTypeOK, AfterCollect
  <2> QED
    BY <2>1, <2>4
<1>5. CASE CollectEnds
  <2>1. OrderInv'
    BY <1>5, LosePopped DEF CollectEnds
  <2>2. WritesTypeOK'
    BY <1>5 DEF CollectEnds, WritesTypeOK, AfterCollect
  <2> QED
    BY <2>1, <2>2
<1> QED
  BY <1>1, <1>2, <1>3, <1>4, <1>5 DEF Collect

\* A table that is done with keeps the invariant.
LEMMA SettleKeeps ==
    ASSUME IInv, NEW t \in Tables, NEW k \in 0..Len(batch[t]), NEW cause \in Causes,
           Settle(t, k, cause), schemaCache' \subseteq Tables
    PROVE  IInv'
<1> USE DEF IInv
<1> DEFINE c == stored[t] \o SubSeq(batch[t], 1, k)
<1>1. /\ UNCHANGED <<writeQueue, pushed, popped>>
      /\ batch' = [batch EXCEPT ![t] = <<>>] /\ stored' = [stored EXCEPT ![t] = c]
      /\ step' \in {"wait", "append"}
  BY DEF Settle
<1>2. c \in Seq(Rows) /\ TableInv(writeQueue, <<>>, c, pushed)
  BY Types, StoreOrder DEF OrderInv
<1> HIDE DEF c
<1>3. /\ batch'[t] = <<>> /\ stored'[t] = c
      /\ \A u \in Tables \ {t} : batch'[u] = batch[u] /\ stored'[u] = stored[u]
  BY <1>1 DEF WritesTypeOK
<1>4. \A u \in Tables : TableInv(writeQueue', batch'[u], stored'[u], pushed')
  BY <1>1, <1>2, <1>3 DEF OrderInv
<1>5. OrderInv'
  BY <1>1, <1>4, OrderNext DEF OrderInv
<1>6. batch' \in [Tables -> Seq(Rows)] /\ stored' \in [Tables -> Seq(Rows)]
  BY <1>1, <1>2 DEF WritesTypeOK
<1>7. dropped' \subseteq [row : Rows, by : Causes]
  <2>1. \A i \in (k + 1)..Len(batch[t]) : batch[t][i] \in Rows
    BY Types
  <2>2. {[row |-> batch[t][i], by |-> cause] : i \in (k + 1)..Len(batch[t])}
          \subseteq [row : Rows, by : Causes]
    BY <2>1
  <2> QED
    BY <2>2 DEF Settle, WritesTypeOK
<1>8. WritesTypeOK'
  BY <1>1, <1>6, <1>7 DEF WritesTypeOK
<1> QED
  BY <1>5, <1>8

\* However processTableBatch ends for a table, it settles the table.
LEMMA WriteTableKeeps == ASSUME IInv, NEW t \in Tables, WriteTable(t) PROVE IInv'
<1> USE DEF IInv
<1>1. /\ {"schema", "append", "reject"} \subseteq Causes
      /\ Len(batch[t]) \in Nat /\ schemaCache \subseteq Tables
  BY Types DEF Causes, WriteFaultKinds, WritesTypeOK
<1>2. CASE SchemaFails(t)
  BY <1>1, <1>2, SettleKeeps DEF SchemaFails
<1>3. CASE AppendTable(t)
  BY <1>1, <1>3, SettleKeeps DEF AppendTable
<1>4. CASE AppendRejected(t)
  <2>1. PICK b \in Rejected(t) : \E k \in {0, b - 1} : Settle(t, k, "reject")
    BY <1>4 DEF AppendRejected
  <2>2. \A k \in {0, b - 1} : k \in 0..Len(batch[t])
    BY <1>1 DEF Rejected
  <2>3. schemaCache' \subseteq Tables
    BY <1>1, <1>4 DEF AppendRejected
  <2> QED
    BY <1>1, <2>1, <2>2, <2>3, SettleKeeps
<1>5. CASE AppendFails(t)
  BY <1>1, <1>5, SettleKeeps DEF AppendFails
<1> QED
  BY <1>2, <1>3, <1>4, <1>5 DEF WriteTable

\* A crash only forgets rows.
LEMMA CrashKeeps == IInv /\ Crash => IInv'
<1> SUFFICES ASSUME IInv, Crash PROVE IInv'
  OBVIOUS
<1> USE DEF IInv
<1>1. /\ UNCHANGED <<writeQueue, pushed, stored>>
      /\ batch' = EmptyBatch /\ step' = "wait" /\ popped' = 0 /\ schemaCache' = {}
  BY DEF Crash
<1>2. \A t \in Tables : batch'[t] = <<>>
  BY <1>1 DEF EmptyBatch
<1>3. \A t \in Tables : TableInv(writeQueue, <<>>, stored[t], pushed)
  BY EmptyInOrder DEF OrderInv
<1>4. OrderInv'
  BY <1>1, <1>2, <1>3, OrderNext DEF OrderInv
<1>5. batch' \in [Tables -> Seq(Rows)]
  BY <1>1 DEF EmptyBatch
<1>6. dropped' \subseteq [row : Rows, by : Causes]
  <2>1. UNION {Elems(batch[t]) : t \in Tables} \subseteq Rows
    BY Types DEF Elems
  <2>2. "crash" \in Causes
    BY DEF Causes, WriteFaultKinds
  <2> QED
    BY <2>1, <2>2 DEF Crash, WritesTypeOK
<1>7. WritesTypeOK'
  BY <1>1, <1>5, <1>6, WritesAssumption DEF WritesTypeOK, WritesAssumption
<1> QED
  BY <1>4, <1>7

\* The invariant is inductive.
LEMMA Inductive == IInv /\ [WritesNext]_writesVars => IInv'
<1> SUFFICES ASSUME IInv, [WritesNext]_writesVars PROVE IInv'
  OBVIOUS
<1>1. CASE \E t \in Tables, d \in Data : Push(t, d)
  BY <1>1, PushKeeps
<1>2. CASE Collect
  BY <1>2, CollectKeeps
<1>3. CASE \E t \in Tables : WriteTable(t)
  BY <1>3, WriteTableKeeps
<1>4. CASE HandlerCrashes
  BY <1>4, CrashKeeps DEF HandlerCrashes
<1>5. CASE UNCHANGED writesVars
  <2>1. UNCHANGED <<writeQueue, pushed, step, popped, batch, schemaCache, stored, dropped>>
    BY <1>5 DEF writesVars, handlerVars
  <2>2. OrderInv'
    BY <2>1, LosePopped DEF IInv
  <2>3. WritesTypeOK'
    BY <2>1 DEF IInv, WritesTypeOK
  <2> QED
    BY <2>2, <2>3 DEF IInv
<1> QED
  BY <1>1, <1>2, <1>3, <1>4, <1>5 DEF WritesNext, HandlerNext

\* The invariant holds in every reachable state.
LEMMA Invariance == WritesSpec => []IInv
  BY InitIInv, Inductive, PTL DEF WritesSpec

\* The handler's state is well typed; in particular no batch pops more than
\* MaxBatch rows and only rows that were pushed are stored or dropped.
THEOREM TypeCorrect == WritesSpec => []WritesTypeOK
  BY Invariance, PTL DEF IInv

\* Whatever the number of tables and rows, the batch size and the failures, the
\* rows of a table are stored in the order they were pushed, each at most once,
\* and none that is still to be stored was pushed before one that is.
THEOREM StoresInPushOrder == WritesSpec => []StoredInPushOrder
<1>1. IInv => StoredInPushOrder
  BY DEF IInv, OrderInv, TableInv, StoredInPushOrder
<1> QED
  BY <1>1, Invariance, PTL
=============================================================================
