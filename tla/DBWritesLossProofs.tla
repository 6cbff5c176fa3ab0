------------------------ MODULE DBWritesLossProofs ------------------------
(***************************************************************************)
(* What the write path may lose, for every number of tables and rows,      *)
(* every batch size and every set of failures: every row pushed is in one  *)
(* place, and a row DuckDB refuses takes no other table's and no distant   *)
(* row with it.                                                            *)
(***************************************************************************)
EXTENDS DBWritesProofs

\* The numbers of the rows of a sequence between two positions, and of the
\* rows lost.
Among(s, i, j) == {s[m].n : m \in i..j}
Lost == {d.row.n : d \in dropped}

\* With Q the numbers in the queue, B and S those in each table's batch and
\* store and D those lost: they share none, and cover all that was pushed.
Apart(Q, B, S, D, n) ==
    /\ \A t, u \in Tables : B[t] \cap S[u] = {} /\ (t # u => B[t] \cap B[u] = {})
    /\ \A t \in Tables : Q \cap (B[t] \cup S[t]) = {} /\ D \cap (B[t] \cup S[t]) = {}
    /\ Q \cap D = {}
    /\ Q \cup D \subseteq 1..n /\ \A t \in Tables : B[t] \cup S[t] \subseteq 1..n
    /\ \A x \in 1..n : x \in Q \cup D \/ \E t \in Tables : x \in B[t] \cup S[t]
Batched  == [t \in Tables |-> Nums(batch[t])]
InStore  == [t \in Tables |-> Nums(stored[t])]
PlaceInv == /\ Apart(Nums(writeQueue), Batched, InStore, Lost, pushed)
            /\ step = "wait" => batch = EmptyBatch

-----------------------------------------------------------------------------
(* The numbers of a sequence *)

\* A row put at the end adds its number.
LEMMA AppendNums ==
    ASSUME NEW s \in Seq(Rows), NEW e \in Rows
    PROVE  Nums(Append(s, e)) = Nums(s) \cup {e.n}
<1> DEFINE a == Append(s, e)
<1>1. /\ Len(s) \in Nat /\ Len(a) = Len(s) + 1
      /\ \A i \in 1..Len(s) : a[i] = s[i]
      /\ a[Len(s) + 1] = e
      /\ \A i \in 1..(Len(s) + 1) : i = Len(s) + 1 \/ i \in 1..Len(s)
  BY AppendElements
<1>2. \A i \in 1..Len(s) : i \in 1..(Len(s) + 1)
  BY <1>1
<1>3. Len(s) + 1 \in 1..(Len(s) + 1)
  BY <1>1
<1> HIDE DEF a
<1> QED
  BY <1>1, <1>2, <1>3 DEF Nums, a

\* The first row of an ordered sequence takes its number, and only its own,
\* away with it.
LEMMA TailNums ==
    ASSUME NEW s \in Seq(Rows), s # <<>>, Increasing(s)
    PROVE  Nums(Tail(s)) = Nums(s) \ {Head(s).n} /\ Head(s).n \in Nums(s)
<1> DEFINE u == Tail(s)
           h == Head(s)
<1>1. /\ Len(s) \in Nat \ {0} /\ Len(u) = Len(s) - 1 /\ h = s[1]
      /\ \A i \in 1..Len(u) : u[i] = s[i + 1] /\ i + 1 \in 2..Len(s)
      /\ \A i \in 1..Len(s) : s[i] \in Rows
  BY TailElements
<1>0. \A r \in Rows : r.n \in Nat
  BY DEF Rows
<1> HIDE DEF u, h
<1>2. \A i \in 1..Len(s) : i = 1 \/ (i - 1 \in 1..Len(u) /\ s[i] = u[i - 1])
  <2> TAKE i \in 1..Len(s)
  <2>1. i = 1 \/ (i - 1 \in 1..Len(u) /\ (i - 1) + 1 = i)
    BY <1>1
  <2> QED
    BY <1>1, <2>1
<1>3. \A i \in 1..Len(u) : u[i].n # h.n
  <2> TAKE i \in 1..Len(u)
  <2>1. i + 1 \in 1..Len(s) /\ 1 \in 1..Len(s) /\ 1 < i + 1 /\ u[i] = s[i + 1]
    BY <1>1
  <2>2. s[1].n < s[i + 1].n /\ s[1].n \in Nat /\ s[i + 1].n \in Nat
    BY <1>0, <1>1, <2>1 DEF Increasing
  <2> QED
    BY <1>1, <2>1, <2>2
<1>4. 1 \in 1..Len(s) /\ \A i \in 1..Len(u) : i + 1 \in 1..Len(s)
  BY <1>1
<1>5. Nums(u) \subseteq Nums(s) \ {h.n} /\ h.n \in Nums(s)
  BY SMTT(30), <1>1, <1>3, <1>4 DEF Nums
<1>6. Nums(s) \ {h.n} \subseteq Nums(u)
  BY <1>1, <1>2 DEF Nums
<1> QED
  BY <1>5, <1>6 DEF u, h

\* The numbers of an ordered batch whose first k rows are stored and whose
\* others are lost.
LEMMA SplitNums ==
    ASSUME NEW s \in Seq(Rows), NEW b \in Seq(Rows), NEW k \in 0..Len(b), Increasing(b)
    PROVE  /\ Among(b, 1, k) \cap Among(b, k + 1, Len(b)) = {}
           /\ Among(b, 1, k) \cup Among(b, k + 1, Len(b)) = Nums(b)
           /\ Nums(s \o SubSeq(b, 1, k)) = Nums(s) \cup Among(b, 1, k)
<1> DEFINE c == s \o SubSeq(b, 1, k)
           X == {b[i].n : i \in 1..k}
           Y == {b[i].n : i \in (k + 1)..Len(b)}
<1>1. /\ Len(s) \in Nat /\ Len(b) \in Nat /\ k \in Nat /\ k <= Len(b) /\ Len(c) = Len(s) + k
      /\ \A i \in 1..Len(s) : c[i] = s[i]
      /\ \A i \in (Len(s) + 1)..(Len(s) + k) : c[i] = b[i - Len(s)] /\ i - Len(s) \in 1..Len(b)
      /\ \A i \in 1..(Len(s) + k) : i \in 1..Len(s) \/ i \in (Len(s) + 1)..(Len(s) + k)
  BY ConcatElements
<1> HIDE DEF c
<1>2. X \cap Y = {}
  <2> SUFFICES ASSUME NEW i \in 1..k, NEW j \in (k + 1)..Len(b) PROVE b[i].n # b[j].n
    OBVIOUS
  <2>1. i \in 1..Len(b) /\ j \in 1..Len(b) /\ i < j
    BY <1>1
  <2>2. b[i] \in Rows /\ b[j] \in Rows
    BY <2>1
  <2>3. b[i].n < b[j].n /\ b[i].n \in Nat /\ b[j].n \in Nat
    BY <2>1, <2>2 DEF Increasing, Rows
  <2> QED
    BY <2>3
<1>3. X \cup Y = Nums(b)
  <2>1. \A i : i \in 1..Len(b) <=> (i \in 1..k \/ i \in (k + 1)..Len(b))
    BY <1>1
  <2> QED
    BY <2>1 DEF Nums
<1>4. Nums(c) \subseteq Nums(s) \cup X
  <2>1. \A i \in (Len(s) + 1)..(Len(s) + k) : i - Len(s) \in 1..k
    BY <1>1
  <2> QED
    BY <1>1, <2>1 DEF Nums
<1>5. Nums(s) \cup X \subseteq Nums(c)
  <2>1. \A i \in 1..Len(s) : i \in 1..Len(c)
    BY <1>1
  <2>2. \A i \in 1..k : /\ Len(s) + i \in (Len(s) + 1)..(Len(s) + k)
                        /\ Len(s) + i \in 1..Len(c) /\ (Len(s) + i) - Len(s) = i
    BY <1>1
  <2>3. \A i \in 1..k : c[Len(s) + i] = b[i]
    BY <1>1, <2>2
  <2> QED
    BY SMTT(30), <1>1, <2>1, <2>2, <2>3 DEF Nums
<1> QED
  BY <1>2, <1>3, <1>4, <1>5 DEF c, Among

\* The numbers of the rows lost for a cause.
LEMMA LostNums ==
    ASSUME NEW A, NEW cause
    PROVE  {d.row.n : d \in {[row |-> r, by |-> cause] : r \in A}} = {r.n : r \in A}
<1> DEFINE R == {[row |-> r, by |-> cause] : r \in A}
<1>1. \A r \in A : [row |-> r, by |-> cause] \in R /\ [row |-> r, by |-> cause].row = r
  OBVIOUS
<1>2. \A d \in R : \E r \in A : d.row = r
  OBVIOUS
<1> HIDE DEF R
<1>3. {d.row.n : d \in R} \subseteq {r.n : r \in A}
  BY <1>2
<1>4. {r.n : r \in A} \subseteq {d.row.n : d \in R}
  <2> SUFFICES ASSUME NEW r \in A PROVE \E d \in R : d.row.n = r.n
    OBVIOUS
  <2> QED
    BY <1>1
<1> QED
  BY <1>3, <1>4 DEF R

-----------------------------------------------------------------------------
(* Every row in one place *)

LEMMA InitPlace == WritesInit => PlaceInv
<1> SUFFICES ASSUME WritesInit PROVE PlaceInv
  OBVIOUS
<1>1. /\ writeQueue = <<>> /\ pushed = 0 /\ dropped = {}
      /\ \A t \in Tables : batch[t] = <<>> /\ stored[t] = <<>>
      /\ batch = EmptyBatch
  BY DEF WritesInit, HandlerInit, EmptyBatch
<1>2. Nums(<<>>) = {}
  BY DEF Nums
<1> QED
  BY <1>1, <1>2 DEF PlaceInv, Apart, Batched, InStore, Lost

\* What the steps do to the numbers: a new one is queued; ...
LEMMA QueueApart ==
    ASSUME NEW Q, NEW B, NEW S, NEW D, NEW n \in Nat, Apart(Q, B, S, D, n)
    PROVE  Apart(Q \cup {n + 1}, B, S, D, n + 1)
<1>1. n + 1 \notin 1..n /\ 1..(n + 1) = 1..n \cup {n + 1}
  OBVIOUS
<1> HIDE DEF Nums
<1> QED
  BY <1>1 DEF Apart

\* ... the first of the queue goes to a table's batch, or is lost; ...
LEMMA PopApart ==
    ASSUME NEW Q, NEW B, NEW S, NEW D, NEW n \in Nat, Apart(Q, B, S, D, n), NEW x \in Q,
           NEW t \in Tables, NEW C, C[t] = B[t] \cup {x},
           \A u \in Tables \ {t} : C[u] = B[u]
    PROVE  Apart(Q \ {x}, C, S, D, n)
<1>1. \A u \in Tables : B[u] \subseteq C[u] /\ C[u] \subseteq B[u] \cup {x}
  OBVIOUS
<1> QED
  BY <1>1 DEF Apart

LEMMA LoseApart ==
    ASSUME NEW Q, NEW B, NEW S, NEW D, NEW n \in Nat, Apart(Q, B, S, D, n), NEW x \in Q
    PROVE  Apart(Q \ {x}, B, S, D \cup {x}, n)
  BY DEF Apart

\* ... a table's batch is settled, part of it stored and part of it lost; ...
LEMMA SettleApart ==
    ASSUME NEW Q, NEW B, NEW S, NEW D, NEW n \in Nat, Apart(Q, B, S, D, n), NEW t \in Tables,
           NEW C, NEW U, C[t] = {}, S[t] \subseteq U[t], U[t] \subseteq S[t] \cup B[t],
           \A u \in Tables \ {t} : C[u] = B[u] /\ U[u] = S[u]
    PROVE  Apart(Q, C, U, D \cup (B[t] \ U[t]), n)
<1> DEFINE Y == B[t] \ U[t]
<1>1. \A u \in Tables : C[u] \subseteq B[u] \ B[t]
  BY DEF Apart
<1>2. \A u \in Tables : /\ S[u] \subseteq U[u] /\ U[u] \subseteq S[u] \cup (B[t] \ Y)
                        /\ U[u] \subseteq S[u] \cup B[u]
  OBVIOUS
<1>3. Y \subseteq B[t] /\ \A u \in Tables : S[u] \cap Y = {} /\ U[u] \cap Y = {}
  BY <1>2 DEF Apart
<1>4. \A x \in B[t] : x \in Y \/ x \in U[t]
  OBVIOUS
<1> HIDE DEF Y
<1>5. \A u, w \in Tables : C[u] \cap U[w] = {} /\ (u # w => C[u] \cap C[w] = {})
  BY <1>1, <1>2 DEF Apart
<1>6. \A u \in Tables : Q \cap (C[u] \cup U[u]) = {} /\ (D \cup Y) \cap (C[u] \cup U[u]) = {}
  <2> SUFFICES ASSUME NEW u \in Tables, NEW x \in C[u] \cup U[u]
               PROVE  x \notin Q /\ x \notin D /\ x \notin Y
    OBVIOUS
  <2>1. x \in B[u] \cup S[u]
    BY <1>1, <1>2
  <2>2. x \notin Q /\ x \notin D
    BY <2>1 DEF Apart
  <2>3. x \notin Y
    BY <1>1, <1>3
  <2> QED
    BY <2>2, <2>3
<1>7. /\ Q \cap (D \cup Y) = {} /\ Q \cup (D \cup Y) \subseteq 1..n
      /\ \A u \in Tables : C[u] \cup U[u] \subseteq 1..n
  BY <1>1, <1>2, <1>3 DEF Apart
<1>8. ASSUME NEW x \in 1..n
      PROVE  x \in Q \cup (D \cup Y) \/ \E u \in Tables : x \in C[u] \cup U[u]
  <2>1. CASE x \in Q \cup D
    BY <2>1
  <2>2. ASSUME NEW u \in Tables, x \in B[u] \cup S[u]
        PROVE  x \in Y \/ x \in C[u] \cup U[u]
    BY <1>2, <1>4, <2>2
  <2> QED
    BY <2>1, <2>2 DEF Apart
<1> QED
  BY <1>5, <1>6, <1>7, <1>8 DEF Apart, Y

\* ... and a crash loses all the batches.
LEMMA CrashApart ==
    ASSUME NEW Q, NEW B, NEW S, NEW D, NEW n \in Nat, Apart(Q, B, S, D, n),
           NEW C, \A t \in Tables : C[t] = {}
    PROVE  Apart(Q, C, S, D \cup UNION {B[t] : t \in Tables}, n)
<1> DEFINE Y == UNION {B[t] : t \in Tables}
<1>1. \A x : x \in Y <=> \E t \in Tables : x \in B[t]
  OBVIOUS
<1> HIDE DEF Y
<1> QED
  BY <1>1 DEF Apart, Y

\* The parts of a state IInv gives.
LEMMA WellFormed ==
    ASSUME IInv
    PROVE  /\ writeQueue \in Seq(Rows) /\ Increasing(writeQueue) /\ pushed \in Nat
           /\ \A t \in Tables : /\ batch[t] \in Seq(Rows) /\ Increasing(batch[t])
                                /\ stored[t] \in Seq(Rows)
  BY Types DEF IInv, OrderInv, TableInv

\* A push queues the next number.
LEMMA PushPlaces ==
    ASSUME IInv, PlaceInv, NEW t \in Tables, NEW d \in Data, Push(t, d)
    PROVE  PlaceInv'
<1> DEFINE e == [n |-> pushed + 1, table |-> t, data |-> d]
<1>1. /\ e \in Rows /\ e.n = pushed + 1 /\ pushed' = pushed + 1
      /\ writeQueue' = Append(writeQueue, e)
      /\ UNCHANGED <<batch, stored, dropped, step>>
  BY WritesAssumption DEF Push, IInv, WritesTypeOK, WritesAssumption, Rows, handlerVars
<1> HIDE DEF e
<1>2. Nums(writeQueue') = Nums(writeQueue) \cup {pushed + 1}
  BY <1>1, WellFormed, AppendNums
<1>3. Batched' = Batched /\ InStore' = InStore /\ Lost' = Lost
  BY <1>1 DEF Batched, InStore, Lost
<1>4. Apart(Nums(writeQueue), Batched, InStore, Lost, pushed) /\ pushed \in Nat
  BY WellFormed DEF PlaceInv
<1>5. Apart(Nums(writeQueue) \cup {pushed + 1}, Batched, InStore, Lost, pushed + 1)
  BY <1>4, QueueApart
<1> QED
  BY <1>1, <1>2, <1>3, <1>5 DEF PlaceInv

\* A pop gives the first number to the batch of its table, or loses it.
LEMMA PopRowPlaces ==
    ASSUME IInv, PlaceInv, PopRow
    PROVE  PlaceInv'
<1> DEFINE h == Head(writeQueue)
<1>1. /\ writeQueue # <<>> /\ writeQueue' = Tail(writeQueue)
      /\ batch' = [batch EXCEPT ![h.table] = Append(@, h)]
      /\ UNCHANGED <<stored, dropped, pushed, step>> /\ step = "collect"
  BY DEF PopRow
<1>2. h \in Rows
  BY <1>1, WellFormed, TailElements
<1>3. h.table \in Tables
  BY <1>2 DEF Rows
<1>4. Nums(writeQueue') = Nums(writeQueue) \ {h.n} /\ h.n \in Nums(writeQueue)
  BY <1>1, WellFormed, TailNums
<1> HIDE DEF h
<1>5. /\ batch'[h.table] = Append(batch[h.table], h)
      /\ \A u \in Tables \ {h.table} : batch'[u] = batch[u]
  BY <1>1, <1>3 DEF IInv, WritesTypeOK
<1>6. Nums(Append(batch[h.table], h)) = Nums(batch[h.table]) \cup {h.n}
  BY <1>2, <1>3, WellFormed, AppendNums
<1>7. /\ Batched'[h.table] = Batched[h.table] \cup {h.n}
      /\ \A u \in Tables \ {h.table} : Batched'[u] = Batched[u]
  BY <1>3, <1>5, <1>6 DEF Batched
<1>8. InStore' = InStore /\ Lost' = Lost
  BY <1>1 DEF InStore, Lost
<1>9. Apart(Nums(writeQueue), Batched, InStore, Lost, pushed) /\ pushed \in Nat
  BY WellFormed DEF PlaceInv
<1>10. Apart(Nums(writeQueue) \ {h.n}, Batched', InStore, Lost, pushed)
  BY SMTT(30), <1>3, <1>4, <1>7, <1>9, PopApart
<1> QED
  BY <1>1, <1>4, <1>8, <1>10 DEF PlaceInv

LEMMA LosePlaces ==
    ASSUME IInv, PlaceInv, NEW cause, writeQueue # <<>>, writeQueue' = Tail(writeQueue),
           dropped' = dropped \cup {[row |-> Head(writeQueue), by |-> cause]},
           UNCHANGED <<batch, stored, pushed>>, step' = "wait" => batch = EmptyBatch
    PROVE  PlaceInv'
<1> DEFINE h == Head(writeQueue)
<1>1. Nums(writeQueue') = Nums(writeQueue) \ {h.n} /\ h.n \in Nums(writeQueue)
  BY WellFormed, TailNums
<1> HIDE DEF h
<1>2. Lost' = Lost \cup {h.n}
  <2> DEFINE d == [row |-> h, by |-> cause]
  <2>1. d.row.n = h.n /\ dropped' = dropped \cup {d}
    BY DEF h
  <2> HIDE DEF d
  <2> QED
    BY <2>1 DEF Lost
<1>3. Batched' = Batched /\ InStore' = InStore
  BY DEF Batched, InStore
<1>4. Apart(Nums(writeQueue), Batched, InStore, Lost, pushed) /\ pushed \in Nat
  BY WellFormed DEF PlaceInv
<1>5. Apart(Nums(writeQueue) \ {h.n}, Batched, InStore, Lost \cup {h.n}, pushed)
  BY <1>1, <1>4, LoseApart
<1> QED
  BY <1>1, <1>2, <1>3, <1>5 DEF PlaceInv

\* A step that moves no row.
LEMMA StillPlaces ==
    ASSUME PlaceInv, UNCHANGED <<writeQueue, batch, stored, dropped, pushed>>,
           step' = "wait" => batch = EmptyBatch
    PROVE  PlaceInv'
  BY DEF PlaceInv, Batched, InStore, Lost

LEMMA CollectPlaces ==
    ASSUME IInv, PlaceInv, Collect
    PROVE  PlaceInv'
<1>1. CASE Tick
  BY <1>1, StillPlaces DEF Tick, PlaceInv
<1>2. CASE PopRow
  BY <1>2, PopRowPlaces
<1>3. CASE PopMalformed
  BY <1>3, LosePlaces DEF PopMalformed
<1>4. CASE PopFails
  <2>1. step' = "wait" => batch = EmptyBatch
    BY <1>4 DEF PopFails, AfterCollect
  <2>2. UNCHANGED <<batch, stored, pushed>>
    BY <1>4 DEF PopFails
  <2>3. CASE UNCHANGED <<writeQueue, dropped>>
    BY <2>1, <2>2, <2>3, StillPlaces
  <2>4. CASE /\ writeQueue # <<>>
             /\ writeQueue' = Tail(writeQueue)
             /\ dropped' = dropped \cup {[row |-> Head(writeQueue), by |-> "pop"]}
    BY <2>1, <2>2, <2>4, LosePlaces
  <2> QED
    BY <1>4, <2>3, <2>4 DEF PopFails
<1>5. CASE CollectEnds
  BY <1>5, StillPlaces DEF CollectEnds, AfterCollect
<1> QED
  BY <1>1, <1>2, <1>3, <1>4, <1>5 DEF Collect

\* A table that is done with gives part of its batch to DuckDB.
LEMMA SettlePlaces ==
    ASSUME IInv, PlaceInv, NEW t \in Tables, NEW k \in 0..Len(batch[t]), NEW cause,
           Settle(t, k, cause)
    PROVE  PlaceInv'
<1> DEFINE c == stored[t] \o SubSeq(batch[t], 1, k)
           R == {[row |-> batch[t][i], by |-> cause] : i \in (k + 1)..Len(batch[t])}
<1>1. /\ UNCHANGED <<writeQueue, pushed>>
      /\ batch' = [batch EXCEPT ![t] = <<>>] /\ stored' = [stored EXCEPT ![t] = c]
      /\ dropped' = dropped \cup R
      /\ step' = "wait" => batch' = EmptyBatch
  BY DEF Settle
<1>2. PICK X, Y : /\ X = Among(batch[t], 1, k)
                  /\ Y = Among(batch[t], k + 1, Len(batch[t]))
  OBVIOUS
<1>3. {d.row.n : d \in R} = Y
  <2> DEFINE A == {batch[t][i] : i \in (k + 1)..Len(batch[t])}
  <2>1. R = {[row |-> r, by |-> cause] : r \in A}
    OBVIOUS
  <2>2. {r.n : r \in A} = Y
    BY <1>2 DEF Among
  <2> HIDE DEF A, R
  <2>3. {d.row.n : d \in {[row |-> r, by |-> cause] : r \in A}} = {r.n : r \in A}
    BY LostNums
  <2> QED
    BY <2>1, <2>2, <2>3
<1> HIDE DEF c, R
<1>4. /\ batch'[t] = <<>> /\ stored'[t] = c
      /\ \A u \in Tables \ {t} : batch'[u] = batch[u] /\ stored'[u] = stored[u]
  BY <1>1 DEF IInv, WritesTypeOK
<1>5. /\ X \cap Y = {} /\ X \cup Y = Nums(batch[t])
      /\ Nums(c) = Nums(stored[t]) \cup X /\ Nums(<<>>) = {}
  <2>1. batch[t] \in Seq(Rows) /\ Increasing(batch[t]) /\ stored[t] \in Seq(Rows)
    BY WellFormed
  <2>2. Nums(<<>>) = {}
    BY DEF Nums
  <2> QED
    BY <1>2, <2>1, <2>2, SplitNums DEF c
<1>6. /\ Batched'[t] = {} /\ InStore'[t] = InStore[t] \cup X /\ X \cup Y = Batched[t]
      /\ \A u \in Tables \ {t} : Batched'[u] = Batched[u] /\ InStore'[u] = InStore[u]
  BY <1>4, <1>5 DEF Batched, InStore
<1>7. Lost' = Lost \cup Y
  BY <1>1, <1>3 DEF Lost
<1>8. Apart(Nums(writeQueue), Batched, InStore, Lost, pushed) /\ pushed \in Nat
  BY WellFormed DEF PlaceInv
<1>9. /\ InStore[t] \subseteq InStore'[t] /\ InStore'[t] \subseteq InStore[t] \cup Batched[t]
      /\ Y = Batched[t] \ InStore'[t]
  <2>1. X \cap Y = {}
    BY <1>5
  <2>2. Batched[t] \cap InStore[t] = {}
    BY <1>8 DEF Apart
  <2> QED
    BY <1>6, <2>1, <2>2
<1>10. Apart(Nums(writeQueue), Batched', InStore', Lost \cup (Batched[t] \ InStore'[t]), pushed)
  BY <1>6, <1>8, <1>9, SettleApart
<1> QED
  BY <1>1, <1>7, <1>9, <1>10 DEF PlaceInv

LEMMA WriteTablePlaces ==
    ASSUME IInv, PlaceInv, NEW t \in Tables, WriteTable(t)
    PROVE  PlaceInv'
<1>1. Len(batch[t]) \in Nat
  BY WellFormed
<1>2. 0 \in 0..Len(batch[t]) /\ Len(batch[t]) \in 0..Len(batch[t])
  BY <1>1
<1>3. CASE SchemaFails(t)
  BY <1>2, <1>3, SettlePlaces DEF SchemaFails
<1>4. CASE AppendTable(t)
  BY <1>2, <1>4, SettlePlaces DEF AppendTable
<1>5. CASE AppendRejected(t)
  <2>1. PICK b \in Rejected(t) : \E k \in {0, b - 1} : Settle(t, k, "reject")
    BY <1>5 DEF AppendRejected
  <2>2. \A k \in {0, b - 1} : k \in 0..Len(batch[t])
    BY <1>1 DEF Rejected
  <2> QED
    BY <2>1, <2>2, SettlePlaces
<1>6. CASE AppendFails(t)
  BY <1>2, <1>6, SettlePlaces DEF AppendFails
<1> QED
  BY <1>3, <1>4, <1>5, <1>6 DEF WriteTable

LEMMA CrashPlaces ==
    ASSUME IInv, PlaceInv, Crash
    PROVE  PlaceInv'
<1> DEFINE E == UNION {Elems(batch[t]) : t \in Tables}
           R == {[row |-> r, by |-> "crash"] : r \in E}
           N == UNION {Batched[t] : t \in Tables}
<1>1. /\ UNCHANGED <<writeQueue, pushed, stored>> /\ batch' = EmptyBatch
      /\ dropped' = dropped \cup R
  BY DEF Crash
<1>2. \A t \in Tables : Batched'[t] = {}
  BY <1>1 DEF Batched, EmptyBatch, Nums
<1>3. \A t \in Tables : Batched[t] = {r.n : r \in Elems(batch[t])}
  BY DEF Elems, Batched, Nums
<1>4. /\ \A r : r \in E <=> \E t \in Tables : r \in Elems(batch[t])
      /\ \A x : x \in N <=> \E t \in Tables : x \in Batched[t]
  OBVIOUS
<1> HIDE DEF E
<1>5. {d.row.n : d \in R} = {r.n : r \in E}
  BY LostNums
<1> HIDE DEF R, N
<1>6. \A x : x \in {r.n : r \in E} <=> \E t \in Tables : \E r \in Elems(batch[t]) : x = r.n
  BY <1>4
<1>7. \A x : x \in N <=> \E t \in Tables : \E r \in Elems(batch[t]) : x = r.n
  BY <1>3, <1>4
<1>8. {r.n : r \in E} = N
  BY <1>6, <1>7
<1>9. Lost' = Lost \cup N
  BY <1>1, <1>5, <1>8 DEF Lost
<1>10. Apart(Nums(writeQueue), Batched, InStore, Lost, pushed) /\ pushed \in Nat
  BY WellFormed DEF PlaceInv
<1>11. Apart(Nums(writeQueue), Batched', InStore, Lost \cup N, pushed)
  BY <1>2, <1>10, CrashApart DEF N
<1>12. InStore' = InStore
  BY <1>1 DEF InStore
<1> QED
  BY <1>1, <1>9, <1>11, <1>12 DEF PlaceInv

LEMMA PlaceInductive == IInv /\ PlaceInv /\ [WritesNext]_writesVars => PlaceInv'
<1> SUFFICES ASSUME IInv, PlaceInv, [WritesNext]_writesVars PROVE PlaceInv'
  OBVIOUS
<1>1. CASE \E t \in Tables, d \in Data : Push(t, d)
  BY <1>1, PushPlaces
<1>2. CASE Collect
  BY <1>2, CollectPlaces
<1>3. CASE \E t \in Tables : WriteTable(t)
  BY <1>3, WriteTablePlaces
<1>4. CASE HandlerCrashes
  BY <1>4, CrashPlaces DEF HandlerCrashes
<1>5. CASE UNCHANGED writesVars
  BY <1>5, StillPlaces DEF writesVars, handlerVars, PlaceInv
<1> QED
  BY <1>1, <1>2, <1>3, <1>4, <1>5 DEF WritesNext, HandlerNext

LEMMA PlacesInvariance == WritesSpec => []PlaceInv
<1>1. WritesSpec => []IInv
  BY Invariance
<1> QED
  BY <1>1, InitPlace, PlaceInductive, PTL DEF WritesSpec

\* Whatever fails, and wherever the batches are cut, every row pushed is under
\* way, stored or lost for a known cause, and in only one of the three.
THEOREM ConservesRows == WritesSpec => []RowsConserved
<1>1. IInv /\ PlaceInv => RowsConserved
  <2> SUFFICES ASSUME IInv, PlaceInv, NEW n \in 1..pushed
               PROVE  /\ Pending(n) \/ Stored(n) \/ Dropped(n)
                      /\ ~(Pending(n) /\ Stored(n))
                      /\ ~(Dropped(n) /\ (Pending(n) \/ Stored(n)))
    BY DEF RowsConserved
  <2>1. \A s : InSeq(n, s) <=> n \in Nums(s)
    BY DEF InSeq, Nums
  <2>2. Pending(n) <=> n \in Nums(writeQueue) \/ \E t \in Tables : n \in Batched[t]
    BY <2>1 DEF Pending, Batched
  <2>3. Stored(n) <=> \E t \in Tables : n \in InStore[t]
    BY <2>1 DEF Stored, InStore
  <2>4. Dropped(n) <=> n \in Lost
    BY DEF Dropped, Lost
  <2> QED
    BY <2>2, <2>3, <2>4 DEF PlaceInv, Apart
<1> QED
  BY <1>1, Invariance, PlacesInvariance, PTL

-----------------------------------------------------------------------------
(* A refused row *)

\* The queue holds the last pushes without a gap; Taken is the number of the
\* last row that left it.
Taken == pushed - Len(writeQueue)
Numbered == \A i \in 1..Len(writeQueue) : writeQueue[i].n = Taken + i

\* The rows collected are among the last popped ones, so all the rows under
\* way are near each other, and each is in the batch of its own table.
InWindow == \A t \in Tables : \A r \in Elems(batch[t]) : Taken - popped < r.n /\ r.n <= Taken
OwnTable == \A t \in Tables : \A r \in Elems(batch[t]) : r.table = t
Together ==
    \A t, u \in Tables : \A r \in Elems(batch[t]), v \in Elems(batch[u]) : Near(r, v)
LocalInv == /\ Numbered /\ OwnTable /\ Together
            /\ step = "collect" => InWindow
            /\ RejectIsLocal

\* A row put at the end is the only new element.
LEMMA AppendElems ==
    ASSUME NEW s \in Seq(Rows), NEW e \in Rows
    PROVE  Elems(Append(s, e)) \subseteq Elems(s) \cup {e}
<1> DEFINE a == Append(s, e)
<1>1. /\ Len(a) = Len(s) + 1
      /\ \A i \in 1..Len(s) : a[i] = s[i]
      /\ a[Len(s) + 1] = e
      /\ \A i \in 1..(Len(s) + 1) : i = Len(s) + 1 \/ i \in 1..Len(s)
  BY AppendElements
<1> HIDE DEF a
<1> QED
  BY <1>1 DEF Elems, a

\* The types the arithmetic needs.
LEMMA Numbers ==
    ASSUME IInv
    PROVE  /\ writeQueue \in Seq(Rows) /\ Len(writeQueue) \in Nat /\ pushed \in Nat
           /\ popped \in Nat /\ MaxBatch \in Nat /\ popped <= MaxBatch /\ Taken \in Int
           /\ \A r \in Rows : r.n \in Nat
           /\ \A t \in Tables : batch[t] \in Seq(Rows) /\ Elems(batch[t]) \subseteq Rows
<1>1. /\ writeQueue \in Seq(Rows) /\ pushed \in Nat
      /\ \A t \in Tables : batch[t] \in Seq(Rows)
  BY WellFormed
<1>2. \A r \in Rows : r.n \in Nat
  BY DEF Rows
<1>3. popped \in Nat /\ MaxBatch \in Nat /\ popped <= MaxBatch
  BY WritesAssumption DEF IInv, WritesTypeOK, WritesAssumption
<1>4. \A t \in Tables : Elems(batch[t]) \subseteq Rows
  <2>1. \A s \in Seq(Rows) : \A i \in 1..Len(s) : s[i] \in Rows
    OBVIOUS
  <2> QED
    BY <1>1, <2>1 DEF Elems
<1>5. Len(writeQueue) \in Nat
  BY <1>1
<1>6. Taken \in Int
  BY <1>1, <1>5 DEF Taken
<1> QED
  BY <1>1, <1>2, <1>3, <1>4, <1>5, <1>6

LEMMA InitLocal == WritesInit => LocalInv
<1> SUFFICES ASSUME WritesInit PROVE LocalInv
  OBVIOUS
<1>1. /\ writeQueue = <<>> /\ dropped = {} /\ step = "wait"
      /\ \A t \in Tables : batch[t] = <<>>
  BY DEF WritesInit, HandlerInit, EmptyBatch
<1> QED
  BY <1>1 DEF LocalInv, Numbered, OwnTable, Together, RejectIsLocal, Elems

\* What is lost for another reason does not matter here.
LEMMA OtherLosses ==
    ASSUME RejectIsLocal, NEW R, dropped' = dropped \cup R, \A d \in R : d.by # "reject"
    PROVE  RejectIsLocal'
<1>1. \A d \in dropped' : d.by = "reject" => d \in dropped
  OBVIOUS
<1>2. dropped \subseteq dropped'
  OBVIOUS
<1> QED
  BY <1>1, <1>2 DEF RejectIsLocal

\* The queue without its first row is numbered from the next one on.
LEMMA PopNumbered ==
    ASSUME IInv, Numbered, writeQueue # <<>>, writeQueue' = Tail(writeQueue), pushed' = pushed
    PROVE  Numbered' /\ Taken' = Taken + 1 /\ Head(writeQueue).n = Taken + 1
<1>1. /\ Len(writeQueue) \in Nat \ {0} /\ Len(writeQueue') = Len(writeQueue) - 1
      /\ Head(writeQueue) = writeQueue[1]
      /\ \A i \in 1..Len(writeQueue') :
           writeQueue'[i] = writeQueue[i + 1] /\ i + 1 \in 2..Len(writeQueue)
  BY Numbers, TailElements
<1>2. Taken' = Taken + 1
  BY <1>1, Numbers DEF Taken
<1>3. 1 \in 1..Len(writeQueue) /\ \A i \in 2..Len(writeQueue) : i \in 1..Len(writeQueue)
  BY <1>1
<1>4. ASSUME NEW i \in 1..Len(writeQueue') PROVE writeQueue'[i].n = Taken' + i
  <2>1. writeQueue'[i].n = Taken + (i + 1)
    BY <1>1, <1>3 DEF Numbered
  <2>2. i \in Int /\ Taken \in Int
    BY Numbers
  <2> QED
    BY <1>2, <2>1, <2>2
<1> QED
  BY <1>1, <1>2, <1>3, <1>4 DEF Numbered

\* A push goes to the end of the queue and leaves Taken.
LEMMA PushLocal ==
    ASSUME IInv, LocalInv, NEW t \in Tables, NEW d \in Data, Push(t, d)
    PROVE  LocalInv'
<1> DEFINE e == [n |-> pushed + 1, table |-> t, data |-> d]
<1>1. /\ e \in Rows /\ e.n = pushed + 1 /\ pushed' = pushed + 1
      /\ writeQueue' = Append(writeQueue, e)
      /\ UNCHANGED <<batch, popped, dropped, step>>
  BY WritesAssumption DEF Push, IInv, WritesTypeOK, WritesAssumption, Rows, handlerVars
<1> HIDE DEF e
<1>2. /\ Len(writeQueue') = Len(writeQueue) + 1
      /\ \A i \in 1..Len(writeQueue) : writeQueue'[i] = writeQueue[i]
      /\ writeQueue'[Len(writeQueue) + 1] = e
      /\ \A i \in 1..Len(writeQueue') : i = Len(writeQueue) + 1 \/ i \in 1..Len(writeQueue)
  BY <1>1, Numbers, AppendElements
<1>3. Taken' = Taken /\ Taken + (Len(writeQueue) + 1) = pushed + 1
  BY <1>1, <1>2, Numbers DEF Taken
<1>4. Numbered'
  BY <1>1, <1>2, <1>3 DEF LocalInv, Numbered
<1> QED
  BY <1>1, <1>3, <1>4 DEF LocalInv, OwnTable, Together, InWindow, RejectIsLocal

\* A pop into a batch widens the window by the row popped.
LEMMA PopRowLocal ==
    ASSUME IInv, LocalInv, PopRow
    PROVE  LocalInv'
<1> DEFINE h == Head(writeQueue)
<1>1. /\ writeQueue # <<>> /\ writeQueue' = Tail(writeQueue)
      /\ batch' = [batch EXCEPT ![h.table] = Append(@, h)]
      /\ UNCHANGED <<dropped, pushed, step>> /\ step = "collect"
      /\ popped < MaxBatch /\ popped' = popped + 1
  BY DEF PopRow
<1>2. h \in Rows
  BY <1>1, Numbers, TailElements
<1>3. h.table \in Tables
  BY <1>2 DEF Rows
<1>4. Numbered' /\ Taken' = Taken + 1 /\ h.n = Taken + 1
  BY <1>1, PopNumbered DEF LocalInv
<1> HIDE DEF h
<1>5. /\ batch'[h.table] = Append(batch[h.table], h)
      /\ \A u \in Tables \ {h.table} : batch'[u] = batch[u]
  BY <1>1, <1>3 DEF IInv, WritesTypeOK
<1>6. Elems(batch'[h.table]) \subseteq Elems(batch[h.table]) \cup {h}
  BY <1>2, <1>3, <1>5, Numbers, AppendElems
<1>7. \A t \in Tables : \A r \in Elems(batch'[t]) : r \in Elems(batch[t]) \/ (r = h /\ t = h.table)
  BY <1>5, <1>6
<1>8. OwnTable'
  BY <1>7 DEF LocalInv, OwnTable
<1>9. InWindow'
  <2> SUFFICES ASSUME NEW t \in Tables, NEW r \in Elems(batch'[t])
               PROVE  Taken' - popped' < r.n /\ r.n <= Taken'
    BY DEF InWindow
  <2>1. Taken' - popped' = Taken - popped /\ 0 <= popped
    BY <1>1, <1>4, Numbers
  <2>2. CASE r \in Elems(batch[t])
    <3>1. Taken - popped < r.n /\ r.n <= Taken /\ r.n \in Nat
      BY <1>1, <2>2, Numbers DEF LocalInv, InWindow
    <3> QED
      BY <1>4, <2>1, <3>1, Numbers
  <2>3. CASE r = h
    BY <1>4, <2>1, <2>3, Numbers
  <2> QED
    BY <1>7, <2>2, <2>3
<1>10. Together'
  <2> SUFFICES ASSUME NEW t \in Tables, NEW u \in Tables,
                      NEW r \in Elems(batch'[t]), NEW v \in Elems(batch'[u])
               PROVE  Near(r, v)
    BY DEF Together, Near
  <2>1. /\ Taken' - popped' < r.n /\ r.n <= Taken'
        /\ Taken' - popped' < v.n /\ v.n <= Taken'
    BY <1>9 DEF InWindow
  <2>2. r.n \in Nat /\ v.n \in Nat
    BY <1>2, <1>7, Numbers
  <2>3. Taken' \in Int /\ popped' \in Nat /\ popped' <= MaxBatch
    BY <1>1, <1>4, Numbers
  <2> QED
    BY SMTT(30), <2>1, <2>2, <2>3, Numbers DEF Near
<1>11. RejectIsLocal'
  BY <1>1 DEF LocalInv, RejectIsLocal
<1> QED
  BY <1>4, <1>8, <1>9, <1>10, <1>11 DEF LocalInv

\* A pop that adds to no batch.
LEMMA LoseLocal ==
    ASSUME IInv, LocalInv, NEW cause \in {"pop", "decode"},
           writeQueue # <<>>, writeQueue' = Tail(writeQueue),
           dropped' = dropped \cup {[row |-> Head(writeQueue), by |-> cause]},
           UNCHANGED <<batch, pushed>>,
           step' = "collect" => step = "collect" /\ popped' = popped + 1
    PROVE  LocalInv'
<1>1. Numbered' /\ Taken' = Taken + 1
  BY PopNumbered DEF LocalInv
<1>2. RejectIsLocal'
  <2> DEFINE R == {[row |-> Head(writeQueue), by |-> cause]}
  <2>1. dropped' = dropped \cup R /\ \A d \in R : d.by # "reject"
    OBVIOUS
  <2>2. RejectIsLocal
    BY DEF LocalInv
  <2> HIDE DEF R
  <2> QED
    BY <2>1, <2>2, OtherLosses
<1>3. OwnTable' /\ Together'
  BY DEF LocalInv, OwnTable, Together
<1>4. ASSUME step' = "collect" PROVE InWindow'
  <2> SUFFICES ASSUME NEW t \in Tables, NEW r \in Elems(batch[t])
               PROVE  Taken' - popped' < r.n /\ r.n <= Taken'
    BY DEF InWindow
  <2>1. Taken - popped < r.n /\ r.n <= Taken /\ r.n \in Nat
    BY <1>4, Numbers DEF LocalInv, InWindow
  <2> QED
    BY <1>1, <1>4, <2>1, Numbers
<1> QED
  BY <1>1, <1>2, <1>3, <1>4 DEF LocalInv

LEMMA CollectLocal ==
    ASSUME IInv, LocalInv, Collect
    PROVE  LocalInv'
<1>1. CASE Tick
  <2>1. /\ UNCHANGED <<writeQueue, pushed, dropped>>
        /\ \A t \in Tables : Elems(batch'[t]) = {}
    BY <1>1 DEF Tick, EmptyBatch, Elems
  <2> QED
    BY <2>1 DEF LocalInv, Numbered, Taken, OwnTable, Together, InWindow, RejectIsLocal
<1>2. CASE PopRow
  BY <1>2, PopRowLocal
<1>3. CASE PopMalformed
  BY <1>3, LoseLocal DEF PopMalformed
<1>4. CASE PopFails
  <2>1. step' # "collect" /\ UNCHANGED <<batch, pushed>>
    BY <1>4 DEF PopFails, AfterCollect
  <2>2. CASE UNCHANGED <<writeQueue, dropped>>
    BY <2>1, <2>2 DEF LocalInv, Numbered, Taken, OwnTable, Together, RejectIsLocal
  <2>3. CASE /\ writeQueue # <<>>
             /\ writeQueue' = Tail(writeQueue)
             /\ dropped' = dropped \cup {[row |-> Head(writeQueue), by |-> "pop"]}
    BY <2>1, <2>3, LoseLocal
  <2> QED
    BY <1>4, <2>2, <2>3 DEF PopFails
<1>5. CASE CollectEnds
  <2>1. step' # "collect" /\ UNCHANGED <<writeQueue, batch, pushed, dropped>>
    BY <1>5 DEF CollectEnds, AfterCollect
  <2> QED
    BY <2>1 DEF LocalInv, Numbered, Taken, OwnTable, Together, RejectIsLocal
<1> QED
  BY <1>1, <1>2, <1>3, <1>4, <1>5 DEF Collect

\* A table that is done with: no batch grows, so only what is lost matters.
LEMMA SettleLocal ==
    ASSUME IInv, LocalInv, NEW t \in Tables, NEW k, NEW cause, Settle(t, k, cause),
           step = "append", RejectIsLocal'
    PROVE  LocalInv'
<1>1. /\ UNCHANGED <<writeQueue, pushed, popped>>
      /\ batch' = [batch EXCEPT ![t] = <<>>]
      /\ step' # "collect"
  BY DEF Settle
<1>2. Elems(<<>>) = {}
  BY DEF Elems
<1>3. \A u \in Tables : Elems(batch'[u]) \subseteq Elems(batch[u])
  BY <1>1, <1>2 DEF IInv, WritesTypeOK
<1>4. OwnTable' /\ Together'
  BY <1>3 DEF LocalInv, OwnTable, Together
<1> QED
  BY <1>1, <1>4 DEF LocalInv, Numbered, Taken

\* The rows lost with a refused one are its neighbours in its own batch.
LEMMA RejectedLocal ==
    ASSUME IInv, LocalInv, NEW t \in Tables, AppendRejected(t)
    PROVE  RejectIsLocal'
<1>1. PICK b \in Rejected(t) : \E k \in {0, b - 1} : Settle(t, k, "reject")
  BY DEF AppendRejected
<1>2. PICK k \in {0, b - 1} : Settle(t, k, "reject")
  BY <1>1
<1> DEFINE R == {[row |-> batch[t][i], by |-> "reject"] : i \in (k + 1)..Len(batch[t])}
           e == [row |-> batch[t][b], by |-> "reject"]
<1>3. dropped' = dropped \cup R
  BY <1>2 DEF Settle
<1>4. /\ Len(batch[t]) \in Nat /\ b \in 1..Len(batch[t]) /\ k \in Nat /\ b \in (k + 1)..Len(batch[t])
      /\ batch[t][b].data \in BadData
  BY <1>1, Numbers DEF Rejected
<1>5. /\ e \in R /\ e.by = "reject" /\ e.row = batch[t][b]
      /\ batch[t][b] \in Elems(batch[t])
  BY <1>4 DEF Elems
<1>6. \A d \in R : d.row \in Elems(batch[t])
  <2>1. \A i \in (k + 1)..Len(batch[t]) : i \in 1..Len(batch[t])
    BY <1>4
  <2> QED
    BY <2>1 DEF Elems
<1> HIDE DEF R, e
<1>7. \A d \in R : /\ e.row.data \in BadData /\ e.row.table = d.row.table
                   /\ Near(e.row, d.row)
  BY <1>4, <1>5, <1>6 DEF LocalInv, OwnTable, Together
<1>8. \A d \in dropped' : d.by = "reject" =>
        \E c \in dropped' : /\ c.by = "reject" /\ c.row.data \in BadData
                            /\ c.row.table = d.row.table /\ Near(c.row, d.row)
  BY <1>3, <1>5, <1>7 DEF LocalInv, RejectIsLocal
<1> QED
  BY <1>8 DEF RejectIsLocal, Near

LEMMA WriteTableLocal ==
    ASSUME IInv, LocalInv, NEW t \in Tables, WriteTable(t)
    PROVE  LocalInv'
<1>1. ASSUME NEW k, NEW cause \in {"schema", "append"}, Settle(t, k, cause), step = "append"
      PROVE  LocalInv'
  <2> DEFINE R == {[row |-> batch[t][i], by |-> cause] : i \in (k + 1)..Len(batch[t])}
  <2>1. dropped' = dropped \cup R
    BY <1>1 DEF Settle
  <2>2. \A d \in R : d.by # "reject"
    OBVIOUS
  <2> HIDE DEF R
  <2>3. RejectIsLocal'
    BY <2>1, <2>2, OtherLosses DEF LocalInv
  <2> QED
    BY <1>1, <2>3, SettleLocal
<1>2. CASE SchemaFails(t)
  BY <1>1, <1>2 DEF SchemaFails
<1>3. CASE AppendTable(t)
  BY <1>1, <1>3 DEF AppendTable
<1>4. CASE AppendRejected(t)
  <2>1. PICK k : Settle(t, k, "reject")
    BY <1>4 DEF AppendRejected
  <2>2. step = "append"
    BY <1>4 DEF AppendRejected
  <2> QED
    BY <1>4, <2>1, <2>2, RejectedLocal, SettleLocal
<1>5. CASE AppendFails(t)
  BY <1>1, <1>5 DEF AppendFails
<1> QED
  BY <1>2, <1>3, <1>4, <1>5 DEF WriteTable

LEMMA CrashLocal ==
    ASSUME IInv, LocalInv, Crash
    PROVE  LocalInv'
<1> DEFINE R == {[row |-> r, by |-> "crash"] : r \in UNION {Elems(batch[t]) : t \in Tables}}
<1>1. /\ UNCHANGED <<writeQueue, pushed>> /\ batch' = EmptyBatch /\ step' = "wait"
      /\ dropped' = dropped \cup R
  BY DEF Crash
<1>2. \A d \in R : d.by # "reject"
  OBVIOUS
<1> HIDE DEF R
<1>3. RejectIsLocal'
  BY <1>1, <1>2, OtherLosses DEF LocalInv
<1>4. \A t \in Tables : Elems(batch'[t]) = {}
  BY <1>1 DEF EmptyBatch, Elems
<1> QED
  BY <1>1, <1>3, <1>4 DEF LocalInv, Numbered, Taken, OwnTable, Together

LEMMA LocalInductive == IInv /\ LocalInv /\ [WritesNext]_writesVars => LocalInv'
<1> SUFFICES ASSUME IInv, LocalInv, [WritesNext]_writesVars PROVE LocalInv'
  OBVIOUS
<1>1. CASE \E t \in Tables, d \in Data : Push(t, d)
  BY <1>1, PushLocal
<1>2. CASE Collect
  BY <1>2, CollectLocal
<1>3. CASE \E t \in Tables : WriteTable(t)
  BY <1>3, WriteTableLocal
<1>4. CASE HandlerCrashes
  BY <1>4, CrashLocal DEF HandlerCrashes
<1>5. CASE UNCHANGED writesVars
  BY <1>5 DEF writesVars, handlerVars, LocalInv, Numbered, Taken, OwnTable, Together,
              InWindow, RejectIsLocal
<1> QED
  BY <1>1, <1>2, <1>3, <1>4, <1>5 DEF WritesNext, HandlerNext

LEMMA LocalInvariance == WritesSpec => []LocalInv
<1>1. WritesSpec => []IInv
  BY Invariance
<1> QED
  BY <1>1, InitLocal, LocalInductive, PTL DEF WritesSpec

\* Whatever the data and the failures, what is lost with a row DuckDB refuses
\* is of the same table and was pushed less than MaxBatch rows away from it.
THEOREM RejectsLocally == WritesSpec => []RejectIsLocal
<1>1. LocalInv => RejectIsLocal
  BY DEF LocalInv
<1> QED
  BY <1>1, LocalInvariance, PTL
-----------------------------------------------------------------------------
(* The write path implements RowStore *)

\* What RowStore sees of a state: the rows of each table that are open, and
\* the set of those lost.
Open == [t \in Tables |-> NumsFor(t, writeQueue) \cup Nums(batch[t])]

LEMMA ViewPush ==
    ASSUME NEW t \in Tables, pushed' = pushed + 1, InStore' = InStore, Lost' = Lost,
           \A u \in Tables : Open'[u] = IF u = t THEN Open[u] \cup {pushed'} ELSE Open[u]
    PROVE  StoreView!Push(t)
<1>1. Open' = [Open EXCEPT ![t] = @ \cup {pushed'}]
  BY DEF Open
<1> QED
  BY <1>1 DEF StoreView!Push, Open, InStore, Lost

LEMMA ViewSettle ==
    ASSUME NEW t \in Tables, NEW S, NEW L, pushed' = pushed,
           InStore'[t] = InStore[t] \cup S, Lost' = Lost \cup L,
           Open'[t] = Open[t] \ (S \cup L),
           \A u \in Tables \ {t} : InStore'[u] = InStore[u] /\ Open'[u] = Open[u],
           S \cap L = {}, StoreView!Close(S \cup L),
           \A s \in S : /\ \A o \in InStore[t] : o < s
                        /\ \A o \in Open[t] \ S : s < o
    PROVE  StoreView!Settle(t, S, L)
<1>1. InStore' = [InStore EXCEPT ![t] = @ \cup S]
  BY DEF InStore
<1>2. Open' = [Open EXCEPT ![t] = @ \ (S \cup L)]
  BY DEF Open
<1> QED
  BY <1>1, <1>2 DEF StoreView!Settle, Open, InStore, Lost

LEMMA ViewLose ==
    ASSUME NEW L, StoreView!Close(L), Lost' = Lost \cup L, UNCHANGED <<pushed, InStore>>,
           \A u \in Tables : Open'[u] = Open[u] \ L
    PROVE  StoreView!Lose(L)
<1>1. Open' = [t \in Tables |-> Open[t] \ L]
  BY DEF Open
<1> QED
  BY <1>1 DEF StoreView!Lose, Open, InStore, Lost

LEMMA ViewSame ==
    ASSUME UNCHANGED <<pushed, Open, InStore, Lost>>
    PROVE  UNCHANGED StoreView!svars
  BY DEF StoreView!svars, Open, InStore, Lost

\* The rows of a table in a sequence are among its rows.
LEMMA NumsForNums == \A t, s : NumsFor(t, s) \subseteq Nums(s)
  BY DEF NumsFor, Nums

\* A row put at the end is one of its own table's.
LEMMA AppendNumsFor ==
    ASSUME NEW s \in Seq(Rows), NEW e \in Rows, NEW u
    PROVE  NumsFor(u, Append(s, e)) =
             IF u = e.table THEN NumsFor(u, s) \cup {e.n} ELSE NumsFor(u, s)
<1> DEFINE a == Append(s, e)
<1>1. /\ Len(s) \in Nat /\ Len(a) = Len(s) + 1
      /\ \A i \in 1..Len(s) : a[i] = s[i]
      /\ a[Len(s) + 1] = e
      /\ \A i \in 1..(Len(s) + 1) : i = Len(s) + 1 \/ i \in 1..Len(s)
  BY AppendElements
<1>2. /\ \A i \in 1..Len(s) : i \in 1..Len(a)
      /\ Len(s) + 1 \in 1..Len(a)
  BY <1>1
<1> HIDE DEF a
<1>3. \A x : x \in NumsFor(u, a) <=>
               (x \in NumsFor(u, s) \/ (u = e.table /\ x = e.n))
  BY <1>1, <1>2 DEF NumsFor
<1> QED
  BY <1>3 DEF a

\* The first row of an ordered sequence is taken from its own table's.
LEMMA TailNumsFor ==
    ASSUME NEW s \in Seq(Rows), s # <<>>, Increasing(s), NEW u
    PROVE  /\ NumsFor(u, Tail(s)) = NumsFor(u, s) \ {Head(s).n}
           /\ Head(s).n \in NumsFor(u, s) <=> u = Head(s).table
<1> DEFINE v == Tail(s)
           h == Head(s)
<1>1. /\ Len(s) \in Nat \ {0} /\ Len(v) = Len(s) - 1 /\ h = s[1]
      /\ \A i \in 1..Len(v) : v[i] = s[i + 1] /\ i + 1 \in 2..Len(s)
      /\ \A i \in 1..Len(s) : s[i] \in Rows
  BY TailElements
<1>0. \A r \in Rows : r.n \in Nat
  BY DEF Rows
<1> HIDE DEF v, h
<1>2. \A i \in 1..Len(s) : i = 1 \/ (i - 1 \in 1..Len(v) /\ s[i] = v[i - 1])
  <2> TAKE i \in 1..Len(s)
  <2>1. i = 1 \/ (i - 1 \in 1..Len(v) /\ (i - 1) + 1 = i)
    BY <1>1
  <2> QED
    BY <1>1, <2>1
<1>3. 1 \in 1..Len(s) /\ \A i \in 1..Len(v) : i + 1 \in 1..Len(s)
  BY <1>1
<1>4. \A i \in 1..Len(s) : i # 1 => s[i].n # h.n
  <2> SUFFICES ASSUME NEW i \in 1..Len(s), i # 1 PROVE s[i].n # h.n
    OBVIOUS
  <2>1. 1 < i /\ s[1].n \in Nat /\ s[i].n \in Nat
    BY <1>0, <1>1, <1>3
  <2>2. s[1].n < s[i].n
    BY <1>3, <2>1 DEF Increasing
  <2> QED
    BY <1>1, <2>1, <2>2
<1>5. \A i \in 1..Len(v) : v[i].n # h.n
  <2> TAKE i \in 1..Len(v)
  <2>1. i + 1 \in 1..Len(s) /\ i + 1 # 1 /\ v[i] = s[i + 1]
    BY <1>1, <1>3
  <2> QED
    BY <1>4, <2>1
<1>6. NumsFor(u, v) \subseteq NumsFor(u, s) \ {h.n}
  BY <1>1, <1>3, <1>5 DEF NumsFor
<1>7. NumsFor(u, s) \ {h.n} \subseteq NumsFor(u, v)
  BY <1>1, <1>2 DEF NumsFor
<1>8. h.n \in NumsFor(u, s) <=> u = h.table
  BY <1>1, <1>3, <1>4 DEF NumsFor
<1> QED
  BY <1>6, <1>7, <1>8 DEF v, h

\* The first k rows of an ordered batch come before the others.
LEMMA SplitInOrder ==
    ASSUME NEW b \in Seq(Rows), NEW k \in 0..Len(b), Increasing(b),
           NEW i \in 1..k, NEW j \in (k + 1)..Len(b)
    PROVE  b[i].n < b[j].n
<1>1. i \in 1..Len(b) /\ j \in 1..Len(b) /\ i < j
  OBVIOUS
<1> QED
  BY <1>1 DEF Increasing

LEMMA PushStored ==
    ASSUME IInv, NEW t \in Tables, NEW d \in Data, Push(t, d)
    PROVE  StoreView!Push(t)
<1> DEFINE e == [n |-> pushed + 1, table |-> t, data |-> d]
<1>1. /\ e \in Rows /\ e.n = pushed + 1 /\ e.table = t /\ pushed' = pushed + 1
      /\ writeQueue' = Append(writeQueue, e)
      /\ UNCHANGED <<batch, stored, dropped>>
  BY WritesAssumption DEF Push, IInv, WritesTypeOK, WritesAssumption, Rows, handlerVars
<1> HIDE DEF e
<1>2. InStore' = InStore /\ Lost' = Lost
  BY <1>1 DEF InStore, Lost
<1>3. \A u \in Tables : NumsFor(u, writeQueue') =
        IF u = t THEN NumsFor(u, writeQueue) \cup {pushed'} ELSE NumsFor(u, writeQueue)
  BY <1>1, WellFormed, AppendNumsFor
<1>4. \A u \in Tables : Open'[u] = IF u = t THEN Open[u] \cup {pushed'} ELSE Open[u]
  BY <1>1, <1>3 DEF Open
<1> QED
  BY <1>1, <1>2, <1>4, ViewPush

\* A row popped into its table's batch stays open.
LEMMA PopRowStored ==
    ASSUME IInv, PopRow
    PROVE  UNCHANGED StoreView!svars
<1> DEFINE h == Head(writeQueue)
<1>1. /\ writeQueue # <<>> /\ writeQueue' = Tail(writeQueue)
      /\ batch' = [batch EXCEPT ![h.table] = Append(@, h)]
      /\ UNCHANGED <<stored, dropped, pushed>>
  BY DEF PopRow
<1>2. h \in Rows
  BY <1>1, WellFormed, TailElements
<1>3. h.table \in Tables
  BY <1>2 DEF Rows
<1>4. \A u : /\ NumsFor(u, writeQueue') = NumsFor(u, writeQueue) \ {h.n}
             /\ h.n \in NumsFor(u, writeQueue) <=> u = h.table
  BY <1>1, WellFormed, TailNumsFor
<1> HIDE DEF h
<1>5. /\ batch'[h.table] = Append(batch[h.table], h)
      /\ \A u \in Tables \ {h.table} : batch'[u] = batch[u]
  BY <1>1, <1>3 DEF IInv, WritesTypeOK
<1>6. Nums(batch'[h.table]) = Nums(batch[h.table]) \cup {h.n}
  BY <1>2, <1>3, <1>5, WellFormed, AppendNums
<1>7. \A u \in Tables : NumsFor(u, writeQueue') \cup Nums(batch'[u])
                          = NumsFor(u, writeQueue) \cup Nums(batch[u])
  <2> TAKE u \in Tables
  <2>1. CASE u = h.table
    BY <1>4, <1>6, <2>1
  <2>2. CASE u # h.table
    BY <1>4, <1>5, <2>2
  <2> QED
    BY <2>1, <2>2
<1>8. Open' = Open /\ InStore' = InStore /\ Lost' = Lost
  BY <1>1, <1>7 DEF Open, InStore, Lost
<1> QED
  BY <1>1, <1>8, ViewSame

\* A row popped and not kept is lost.
LEMMA LoseStored ==
    ASSUME IInv, PlaceInv, NEW cause, writeQueue # <<>>, writeQueue' = Tail(writeQueue),
           dropped' = dropped \cup {[row |-> Head(writeQueue), by |-> cause]},
           UNCHANGED <<batch, stored, pushed>>
    PROVE  \E L \in SUBSET UNION {Open[t] : t \in Tables} : StoreView!Lose(L)
<1> DEFINE h == Head(writeQueue)
<1>0. PICK L : L = {h.n}
  OBVIOUS
<1>1. h \in Rows
  BY WellFormed, TailElements
<1>2. h.table \in Tables /\ h.n \in Nat
  BY <1>1 DEF Rows
<1>3. \A u : /\ NumsFor(u, writeQueue') = NumsFor(u, writeQueue) \ {h.n}
             /\ h.n \in NumsFor(u, writeQueue) <=> u = h.table
  BY WellFormed, TailNumsFor
<1>4. Lost' = Lost \cup L
  <2> DEFINE d == [row |-> h, by |-> cause]
  <2>1. d.row.n = h.n /\ dropped' = dropped \cup {d}
    OBVIOUS
  <2> HIDE DEF d, h
  <2> QED
    BY <1>0, <2>1 DEF Lost
<1> HIDE DEF h
<1>5. h.n \in Nums(writeQueue)
  BY <1>2, <1>3, NumsForNums
<1>6. \A u \in Tables : h.n \notin Nums(batch[u])
  BY <1>5 DEF PlaceInv, Apart, Batched
<1>7. \A u \in Tables : Open'[u] = Open[u] \ L
  BY <1>0, <1>3, <1>6 DEF Open
<1>8. StoreView!Close(L)
  BY <1>0, <1>2, WritesAssumption DEF StoreView!Close, WritesAssumption
<1>9. InStore' = InStore
  BY DEF InStore
<1>10. L \in SUBSET UNION {Open[t] : t \in Tables}
  <2>1. h.n \in Open[h.table]
    BY <1>2, <1>3 DEF Open
  <2> QED
    BY <1>0, <1>2, <2>1
<1>11. StoreView!Lose(L)
  BY <1>4, <1>7, <1>8, <1>9, ViewLose
<1> QED
  BY <1>10, <1>11

\* A step that moves no row.
LEMMA StillStored ==
    ASSUME UNCHANGED <<writeQueue, batch, stored, dropped, pushed>>
    PROVE  UNCHANGED StoreView!svars
  BY ViewSame DEF Open, InStore, Lost

LEMMA CollectStored ==
    ASSUME IInv, PlaceInv, Collect
    PROVE  \/ UNCHANGED StoreView!svars
           \/ \E L \in SUBSET UNION {Open[t] : t \in Tables} : StoreView!Lose(L)
<1>1. CASE Tick
  BY <1>1, StillStored DEF Tick, PlaceInv
<1>2. CASE PopRow
  BY <1>2, PopRowStored
<1>3. CASE PopMalformed
  BY <1>3, LoseStored DEF PopMalformed
<1>4. CASE PopFails
  <2>1. UNCHANGED <<batch, stored, pushed>>
    BY <1>4 DEF PopFails
  <2>2. CASE UNCHANGED <<writeQueue, dropped>>
    BY <2>1, <2>2, StillStored
  <2>3. CASE /\ writeQueue # <<>>
             /\ writeQueue' = Tail(writeQueue)
             /\ dropped' = dropped \cup {[row |-> Head(writeQueue), by |-> "pop"]}
    BY <2>1, <2>3, LoseStored
  <2> QED
    BY <1>4, <2>2, <2>3 DEF PopFails
<1>5. CASE CollectEnds
  BY <1>5, StillStored DEF CollectEnds
<1> QED
  BY <1>1, <1>2, <1>3, <1>4, <1>5 DEF Collect

\* The numbers in the batches are within MaxBatch of each other.
LEMMA BatchesClose ==
    ASSUME IInv, LocalInv, NEW t \in Tables, NEW u \in Tables,
           NEW x \in Nums(batch[t]), NEW y \in Nums(batch[u])
    PROVE  x - y < MaxBatch
<1>1. PICK i \in 1..Len(batch[t]) : x = batch[t][i].n
  BY DEF Nums
<1>2. PICK j \in 1..Len(batch[u]) : y = batch[u][j].n
  BY DEF Nums
<1>3. batch[t][i] \in Elems(batch[t]) /\ batch[u][j] \in Elems(batch[u])
  BY DEF Elems
<1>4. Near(batch[t][i], batch[u][j])
  BY <1>3 DEF LocalInv, Together
<1> QED
  BY <1>1, <1>2, <1>4 DEF Near

\* A table that is done with settles its batch.
LEMMA SettleStored ==
    ASSUME IInv, PlaceInv, LocalInv, NEW t \in Tables, NEW k \in 0..Len(batch[t]),
           NEW cause, Settle(t, k, cause)
    PROVE  \E S, L \in SUBSET Open[t] : StoreView!Settle(t, S, L)
<1> DEFINE c == stored[t] \o SubSeq(batch[t], 1, k)
           A == {batch[t][i] : i \in (k + 1)..Len(batch[t])}
           R == {[row |-> r, by |-> cause] : r \in A}
           Q == NumsFor(t, writeQueue)
<1>0. PICK X, Y : /\ X = Among(batch[t], 1, k)
                  /\ Y = Among(batch[t], k + 1, Len(batch[t]))
  OBVIOUS
<1>1. /\ UNCHANGED <<writeQueue, pushed>>
      /\ batch' = [batch EXCEPT ![t] = <<>>] /\ stored' = [stored EXCEPT ![t] = c]
      /\ dropped' = dropped \cup R
  <2>1. R = {[row |-> batch[t][i], by |-> cause] : i \in (k + 1)..Len(batch[t])}
    OBVIOUS
  <2> HIDE DEF R, A
  <2> QED
    BY <2>1 DEF Settle
<1>2. /\ batch[t] \in Seq(Rows) /\ Increasing(batch[t]) /\ stored[t] \in Seq(Rows)
      /\ Len(batch[t]) \in Nat
  BY WellFormed
<1>3. X \cap Y = {} /\ X \cup Y = Nums(batch[t]) /\ Nums(c) = Nums(stored[t]) \cup X
  BY <1>0, <1>2, SplitNums
<1>4. Lost' = Lost \cup Y
  <2>1. {r.n : r \in A} = Y
    BY <1>0 DEF Among
  <2> HIDE DEF A
  <2>2. {d.row.n : d \in R} = Y
    BY <2>1, LostNums
  <2> HIDE DEF R
  <2> QED
    BY <1>1, <2>2 DEF Lost
<1>5. \A x \in X, y \in Y : x < y
  BY <1>0, <1>2, SplitInOrder DEF Among
<1>6. ASSUME NEW x \in X
      PROVE  (\A o \in Nums(stored[t]) : o < x) /\ \A o \in Q : x < o
  <2>1. Before(stored[t], batch[t]) /\ Before(batch[t], writeQueue)
    BY DEF IInv, OrderInv, TableInv
  <2>2. PICK i \in 1..Len(batch[t]) : x = batch[t][i].n
    BY <1>3 DEF Nums
  <2> QED
    BY <2>1, <2>2 DEF Before, Nums, NumsFor
<1> HIDE DEF c, A, R
<1>7. /\ batch'[t] = <<>> /\ stored'[t] = c
      /\ \A u \in Tables \ {t} : batch'[u] = batch[u] /\ stored'[u] = stored[u]
  BY <1>1 DEF IInv, WritesTypeOK
<1>8. Nums(<<>>) = {}
  BY DEF Nums
<1>9. Q \cap Nums(batch[t]) = {}
  <2>1. Nums(writeQueue) \cap Nums(batch[t]) = {}
    BY DEF PlaceInv, Apart, Batched
  <2> QED
    BY <2>1, NumsForNums
<1>10. Open[t] = Q \cup X \cup Y /\ Open'[t] = Q
  BY <1>1, <1>3, <1>7, <1>8 DEF Open
<1>11. \A u \in Tables \ {t} : InStore'[u] = InStore[u] /\ Open'[u] = Open[u]
  BY <1>1, <1>7 DEF Open, InStore
<1>12. InStore'[t] = InStore[t] \cup X /\ InStore[t] = Nums(stored[t])
  BY <1>3, <1>7 DEF InStore
<1> HIDE DEF Q
<1>13. Open'[t] = Open[t] \ (X \cup Y) /\ Open[t] \ X \subseteq Q \cup Y
  BY <1>3, <1>9, <1>10
<1>14. StoreView!Close(X \cup Y)
  BY <1>3, BatchesClose DEF StoreView!Close
<1>15. \A s \in X : /\ \A o \in InStore[t] : o < s
                    /\ \A o \in Open[t] \ X : s < o
  BY <1>5, <1>6, <1>12, <1>13
<1>16. StoreView!Settle(t, X, Y)
  BY <1>1, <1>3, <1>4, <1>11, <1>12, <1>13, <1>14, <1>15, ViewSettle
<1>17. X \subseteq Open[t] /\ Y \subseteq Open[t]
  BY <1>10
<1> QED
  BY <1>16, <1>17

LEMMA WriteTableStored ==
    ASSUME IInv, PlaceInv, LocalInv, NEW t \in Tables, WriteTable(t)
    PROVE  \E S, L \in SUBSET Open[t] : StoreView!Settle(t, S, L)
<1>1. Len(batch[t]) \in Nat
  BY WellFormed
<1>2. 0 \in 0..Len(batch[t]) /\ Len(batch[t]) \in 0..Len(batch[t])
  BY <1>1
<1>3. CASE SchemaFails(t)
  BY <1>2, <1>3, SettleStored DEF SchemaFails
<1>4. CASE AppendTable(t)
  BY <1>2, <1>4, SettleStored DEF AppendTable
<1>5. CASE AppendRejected(t)
  <2>1. PICK b \in Rejected(t) : \E k \in {0, b - 1} : Settle(t, k, "reject")
    BY <1>5 DEF AppendRejected
  <2>2. \A k \in {0, b - 1} : k \in 0..Len(batch[t])
    BY <1>1 DEF Rejected
  <2> QED
    BY <2>1, <2>2, SettleStored
<1>6. CASE AppendFails(t)
  BY <1>2, <1>6, SettleStored DEF AppendFails
<1> QED
  BY <1>3, <1>4, <1>5, <1>6 DEF WriteTable

\* A crash loses all that was popped, which is no more than one batch.
LEMMA CrashStored ==
    ASSUME IInv, PlaceInv, LocalInv, Crash
    PROVE  \E L \in SUBSET UNION {Open[t] : t \in Tables} : StoreView!Lose(L)
<1> DEFINE E == UNION {Elems(batch[t]) : t \in Tables}
           R == {[row |-> r, by |-> "crash"] : r \in E}
<1>0. PICK L : L = UNION {Batched[t] : t \in Tables}
  OBVIOUS
<1>1. /\ UNCHANGED <<writeQueue, pushed, stored>> /\ batch' = EmptyBatch
      /\ dropped' = dropped \cup R
  BY DEF Crash
<1>2. \A t \in Tables : Nums(batch'[t]) = {}
  BY <1>1 DEF EmptyBatch, Nums
<1>3. \A t \in Tables : Nums(batch[t]) = {r.n : r \in Elems(batch[t])}
  BY DEF Elems, Nums
<1>4. /\ \A r : r \in E <=> \E t \in Tables : r \in Elems(batch[t])
      /\ \A x : x \in L <=> \E t \in Tables : x \in Nums(batch[t])
  BY <1>0 DEF Batched
<1> HIDE DEF E
<1>5. {d.row.n : d \in R} = {r.n : r \in E}
  BY LostNums
<1> HIDE DEF R
<1>6. \A x : x \in {r.n : r \in E} <=> \E t \in Tables : \E r \in Elems(batch[t]) : x = r.n
  BY <1>4
<1>7. \A x : x \in L <=> \E t \in Tables : \E r \in Elems(batch[t]) : x = r.n
  BY <1>3, <1>4
<1>8. {r.n : r \in E} = L
  BY <1>6, <1>7
<1>9. Lost' = Lost \cup L
  BY <1>1, <1>5, <1>8 DEF Lost
<1>10. StoreView!Close(L)
  BY <1>4, BatchesClose DEF StoreView!Close
<1>11. ASSUME NEW t \in Tables PROVE Open'[t] = Open[t] \ L
  <2>1. NumsFor(t, writeQueue) \cap L = {}
    <3>1. \A u \in Tables : Nums(writeQueue) \cap Nums(batch[u]) = {}
      BY DEF PlaceInv, Apart, Batched
    <3> QED
      BY <1>4, <3>1, NumsForNums
  <2>2. Nums(batch[t]) \subseteq L
    BY <1>4
  <2>3. Open'[t] = NumsFor(t, writeQueue)
    BY <1>1, <1>2 DEF Open
  <2>4. Open[t] = NumsFor(t, writeQueue) \cup Nums(batch[t])
    BY DEF Open
  <2> QED
    BY <2>1, <2>2, <2>3, <2>4
<1>12. InStore' = InStore
  BY <1>1 DEF InStore
<1>13. StoreView!Lose(L)
  BY <1>1, <1>9, <1>10, <1>11, <1>12, ViewLose
<1>14. L \subseteq UNION {Open[t] : t \in Tables}
  BY <1>4 DEF Open
<1> QED
  BY <1>13, <1>14

LEMMA StoreStarts == WritesInit => StoreView!Init
<1> SUFFICES ASSUME WritesInit PROVE StoreView!Init
  OBVIOUS
<1>1. /\ writeQueue = <<>> /\ pushed = 0 /\ dropped = {}
      /\ \A t \in Tables : batch[t] = <<>> /\ stored[t] = <<>>
  BY DEF WritesInit, HandlerInit, EmptyBatch
<1>2. Nums(<<>>) = {} /\ \A t : NumsFor(t, <<>>) = {}
  BY DEF Nums, NumsFor
<1>3. Open = [t \in Tables |-> {}] /\ InStore = [t \in Tables |-> {}] /\ Lost = {}
  BY <1>1, <1>2 DEF Open, InStore, Lost
<1> QED
  BY <1>1, <1>3 DEF StoreView!Init, Open, InStore, Lost

LEMMA StoreStep ==
    IInv /\ PlaceInv /\ LocalInv /\ [WritesNext]_writesVars
      => [StoreView!Next]_(StoreView!svars)
<1> SUFFICES ASSUME IInv, PlaceInv, LocalInv, [WritesNext]_writesVars
             PROVE  StoreView!Next \/ UNCHANGED StoreView!svars
  OBVIOUS
<1>1. CASE \E t \in Tables, d \in Data : Push(t, d)
  <2>1. PICK t \in Tables, d \in Data : Push(t, d)
    BY <1>1
  <2>2. StoreView!Push(t)
    BY <2>1, PushStored
  <2> QED
    BY <2>2 DEF StoreView!Next
<1>2. ASSUME \E L \in SUBSET UNION {Open[t] : t \in Tables} : StoreView!Lose(L)
      PROVE  StoreView!Next
  BY <1>2 DEF StoreView!Next, Open
<1>3. CASE Collect
  BY <1>2, <1>3, CollectStored
<1>4. CASE \E t \in Tables : WriteTable(t)
  <2>1. PICK t \in Tables : \E S, L \in SUBSET Open[t] : StoreView!Settle(t, S, L)
    BY <1>4, WriteTableStored
  <2> QED
    BY <2>1 DEF StoreView!Next, Open
<1>5. CASE HandlerCrashes
  BY <1>2, <1>5, CrashStored DEF HandlerCrashes
<1>6. CASE UNCHANGED writesVars
  BY <1>6, StillStored DEF writesVars, handlerVars
<1> QED
  BY <1>1, <1>3, <1>4, <1>5, <1>6 DEF WritesNext, HandlerNext

\* Every behaviour of the write path, whatever fails and however many tables
\* it serves, is one of RowStore: a row is saved or lost once, the rows of a
\* table are saved in their order, and no failure reaches beyond one batch.
THEOREM ImplementsStore == WritesSpec => StoreSpec
<1>1. WritesSpec => [](IInv /\ PlaceInv /\ LocalInv)
  BY Invariance, PlacesInvariance, LocalInvariance, PTL
<1> QED
  BY <1>1, StoreStarts, StoreStep, PTL DEF WritesSpec, StoreSpec, StoreView!Spec
===========================================================================
