--------------------------- MODULE DBReadsProofs ---------------------------
(***************************************************************************)
(* Theorems about the read path, for every number of clients, slots and    *)
(* queries and every set of failures.                                      *)
(***************************************************************************)
EXTENDS DBReads, FiniteSetTheorems, SequenceTheorems, TLAPS

\* No request carries a number that was not issued.
IssuedBounds ==
    /\ \A i \in 1..Len(readQueue) : readQueue[i].q <= issued
    /\ \A h \in 1..Len(held) : held[h].q <= issued
    /\ \A r \in readers : r.q <= issued
    /\ \A q \in executed : q <= issued

\* A query has at most one goroutine.
OneReaderPerQuery == \A r, s \in readers : r.q = s.q => r = s

\* TypeOK bounds slots, which only SlotPerReader keeps from going negative;
\* SlotPerReader needs goroutines to be told apart by their query, which holds
\* because requests start in the order of their numbers.
IInv == /\ TypeOK
        /\ IssuedBounds
        /\ StartedInOrder
        /\ OneReaderPerQuery
        /\ IsFiniteSet(readers)
        /\ SlotPerReader

Reader == [q : Queries, key : Keys, data : BOOLEAN,
           pc : {"query", "respond", "expire", "release"}]

-----------------------------------------------------------------------------
\* The elements of a sequence with one more at its end.
LEMMA AppendElements ==
    ASSUME NEW S, NEW s \in Seq(S), NEW e \in S
    PROVE  /\ Append(s, e) \in Seq(S)
           /\ Len(s) \in Nat /\ Len(Append(s, e)) = Len(s) + 1
           /\ \A i \in 1..Len(s) : s[i] \in S /\ Append(s, e)[i] = s[i]
           /\ Append(s, e)[Len(s) + 1] = e
  OBVIOUS

\* The elements of a nonempty sequence without its first.
LEMMA TailElements ==
    ASSUME NEW S, NEW s \in Seq(S), s # <<>>
    PROVE  /\ Tail(s) \in Seq(S) /\ Head(s) \in S /\ Head(s) = s[1]
           /\ Len(s) \in Nat \ {0} /\ Len(Tail(s)) = Len(s) - 1
           /\ \A i \in 1..Len(Tail(s)) : Tail(s)[i] = s[i + 1]
           /\ \A i \in 1..Len(s) : s[i] \in S
  OBVIOUS

\* A goroutine that goes on as another record of the same query keeps the
\* number of goroutines and what IInv says of their numbers.
LEMMA MoveReaderKeeps ==
    ASSUME OneReaderPerQuery, IsFiniteSet(readers), readers \subseteq Reader,
           NEW r \in readers, NEW s \in Reader, s.q = r.q,
           MoveReader(r, s)
    PROVE  /\ IsFiniteSet(readers') /\ Cardinality(readers') = Cardinality(readers)
           /\ readers' \subseteq Reader
           /\ OneReaderPerQuery'
           /\ \A t \in readers' : \E u \in readers : t.q = u.q
<1>1. readers' = (readers \ {r}) \cup {s}
  BY DEF MoveReader
<1>2. IsFiniteSet(readers \ {r}) /\ Cardinality(readers \ {r}) = Cardinality(readers) - 1
  BY FS_RemoveElement
<1>3. s \notin readers \ {r}
  BY DEF OneReaderPerQuery
<1>4. IsFiniteSet(readers') /\ Cardinality(readers') = Cardinality(readers \ {r}) + 1
  BY <1>1, <1>2, <1>3, FS_AddElement
<1>5. Cardinality(readers) \in Nat
  BY FS_CardinalityType
<1>6. OneReaderPerQuery'
  BY <1>1 DEF OneReaderPerQuery
<1> QED
  BY <1>1, <1>2, <1>4, <1>5, <1>6

\* A goroutine that ends gives one slot back.
LEMMA ReaderEnds ==
    ASSUME OneReaderPerQuery, IsFiniteSet(readers), NEW r \in readers,
           readers' = readers \ {r}
    PROVE  /\ IsFiniteSet(readers') /\ Cardinality(readers') = Cardinality(readers) - 1
           /\ Cardinality(readers) \in Nat /\ Cardinality(readers) > 0
           /\ OneReaderPerQuery'
<1>1. IsFiniteSet(readers') /\ Cardinality(readers') = Cardinality(readers) - 1
  BY FS_RemoveElement
<1>2. Cardinality(readers) \in Nat /\ Cardinality(readers') \in Nat
  BY <1>1, FS_CardinalityType
<1> QED
  BY <1>1, <1>2 DEF OneReaderPerQuery

-----------------------------------------------------------------------------
\* Every number in sight is the number of a query.
LEMMA Numbers ==
    ASSUME TypeOK
    PROVE  /\ MaxQueries \in Nat /\ issued \in 0..MaxQueries
           /\ readQueue \in Seq(Requests) /\ Len(readQueue) \in Nat
           /\ \A i \in 1..Len(readQueue) : /\ readQueue[i] \in Requests
                                           /\ readQueue[i].q \in Queries
                                           /\ readQueue[i].q \in Nat
           /\ held \in Seq(Requests) /\ Len(held) \in {0, 1}
           /\ \A h \in 1..Len(held) : /\ held[h] \in Requests
                                      /\ held[h].q \in Queries
                                      /\ held[h].q \in Nat
           /\ \A r \in readers : r \in Reader /\ r.q \in Queries /\ r.q \in Nat
           /\ \A q \in executed : q \in Queries /\ q \in Nat
<1>1. MaxQueries \in Nat
  BY ReadsAssumption DEF ReadsAssumption
<1>2. /\ readQueue \in Seq(Requests) /\ held \in Seq(Requests) /\ Len(held) <= 1
      /\ executed \subseteq Queries /\ issued \in 0..MaxQueries
  BY DEF TypeOK
<1>6. /\ \A i \in 1..Len(readQueue) : readQueue[i] \in Requests
      /\ \A h \in 1..Len(held) : held[h] \in Requests
      /\ Len(readQueue) \in Nat /\ Len(held) \in {0, 1}
  BY SMTT(30), <1>2
<1>3. \A q \in Queries : q \in Nat
  BY <1>1 DEF Queries
<1>4. \A m \in Requests : m.q \in Queries
  BY DEF Requests
<1>5. \A r \in readers : r \in Reader /\ r.q \in Queries
  BY DEF TypeOK, Reader
<1> QED
  BY <1>1, <1>2, <1>3, <1>4, <1>5, <1>6

\* The invariant holds at the start: there are no numbers in sight.
LEMMA InitIInv == Init => IInv
<1> SUFFICES ASSUME Init PROVE IInv
  OBVIOUS
<1> USE ReadsAssumption DEF ReadsAssumption
<1>1. TypeOK
  BY DEF Init, TypeOK, Idle, Error, Results, Keys, Queries, Requests, Responses
<1>2. IsFiniteSet(readers) /\ SlotPerReader
  BY FS_EmptySet DEF Init, SlotPerReader
<1> QED
  BY <1>1, <1>2 DEF Init, IInv, IssuedBounds, StartedInOrder, OneReaderPerQuery

\* The parts of IInv about numbers, for a step that leaves the requests, the
\* goroutines and what was executed alone.
LEMMA SameRequests ==
    ASSUME IInv, UNCHANGED <<issued, readQueue, handlerVars, executed>>
    PROVE  /\ IssuedBounds' /\ StartedInOrder' /\ OneReaderPerQuery'
           /\ IsFiniteSet(readers') /\ SlotPerReader'
  BY DEF IInv, IssuedBounds, StartedInOrder, Precedes, OneReaderPerQuery, SlotPerReader,
     handlerVars

\* The same for a step that queues a new request.
LEMMA NewRequest ==
    ASSUME IInv, NEW c \in Clients, client[c].key \in Keys, PushRequest(c),
           UNCHANGED <<clock, handlerVars, executed>>
    PROVE  /\ issued' \in Queries /\ readQueue' \in Seq(Requests)
           /\ IssuedBounds' /\ StartedInOrder' /\ OneReaderPerQuery'
           /\ IsFiniteSet(readers') /\ SlotPerReader'
<1> DEFINE k == client[c].key
<1>1. /\ TypeOK /\ IssuedBounds /\ StartedInOrder
      /\ held' = held /\ readers' = readers /\ slots' = slots /\ executed' = executed
      /\ readQueue' = Append(readQueue, [q |-> issued', key |-> k]) /\ k \in Keys
      /\ issued' = issued + 1 /\ issued < MaxQueries
  BY DEF IInv, handlerVars, PushRequest
<1> HIDE DEF k
<1>2. /\ issued \in Nat /\ MaxQueries \in Nat /\ issued' \in Queries
  BY <1>1, Numbers DEF Queries
<1>3. OneReaderPerQuery' /\ IsFiniteSet(readers') /\ SlotPerReader'
  BY <1>1 DEF IInv, OneReaderPerQuery, SlotPerReader
<1>4. [q |-> issued', key |-> k] \in Requests
  BY <1>1, <1>2 DEF Requests
<1>5. /\ readQueue' \in Seq(Requests)
      /\ Len(readQueue') = Len(readQueue) + 1 /\ Len(readQueue) \in Nat
      /\ \A i \in 1..Len(readQueue) : readQueue'[i] = readQueue[i]
      /\ readQueue'[Len(readQueue) + 1] = [q |-> issued', key |-> k]
  BY <1>1, <1>4, Numbers, AppendElements
<1>6. \A i \in 1..Len(readQueue') :
         /\ i <= Len(readQueue) => readQueue'[i].q = readQueue[i].q
         /\ i > Len(readQueue) => readQueue'[i].q = issued + 1
  BY <1>1, <1>5
<1>7. \A i \in 1..Len(readQueue') : readQueue'[i].q <= issued'
  BY SMTT(30), <1>1, <1>2, <1>5, <1>6, Numbers DEF IssuedBounds
<1>8. IssuedBounds'
  <2>1. \A h \in 1..Len(held) : held[h].q <= issued'
    BY <1>1, <1>2, Numbers DEF IssuedBounds
  <2>2. /\ \A r \in readers : r.q <= issued'
        /\ \A q \in executed : q <= issued'
    BY <1>1, <1>2, Numbers DEF IssuedBounds
  <2> QED
    BY <1>1, <1>2, <1>7, <2>1, <2>2 DEF IssuedBounds
<1>9. \A i, j \in 1..Len(readQueue') : i < j => readQueue'[i].q < readQueue'[j].q
  <2> SUFFICES ASSUME NEW i \in 1..Len(readQueue'), NEW j \in 1..Len(readQueue'), i < j
               PROVE  readQueue'[i].q < readQueue'[j].q
    OBVIOUS
  <2>1. i \in 1..Len(readQueue)
    BY <1>5
  <2>2. CASE j <= Len(readQueue)
    BY <1>1, <1>5, <1>6, <2>1, <2>2 DEF StartedInOrder
  <2>3. CASE j > Len(readQueue)
    <3>1. readQueue'[i].q = readQueue[i].q /\ readQueue'[j].q = issued + 1
      BY <1>5, <1>6, <2>1, <2>3
    <3>2. readQueue[i].q <= issued /\ readQueue[i].q \in Nat
      BY <1>1, <2>1, Numbers DEF IssuedBounds
    <3> QED
      BY <1>2, <3>1, <3>2
  <2> QED
    BY <1>5, <2>2, <2>3
<1>10. \A i \in 1..Len(readQueue'), h \in 1..Len(held) : held[h].q < readQueue'[i].q
  BY <1>1, <1>2, <1>5, <1>6, Numbers DEF IssuedBounds, StartedInOrder
<1>11. \A i \in 1..Len(readQueue') : /\ \A r \in readers : r.q < readQueue'[i].q
                                    /\ \A q \in executed : q < readQueue'[i].q
  <2> SUFFICES ASSUME NEW i \in 1..Len(readQueue')
               PROVE  /\ \A r \in readers : r.q < readQueue'[i].q
                      /\ \A q \in executed : q < readQueue'[i].q
    OBVIOUS
  <2>1. CASE i <= Len(readQueue)
    BY <1>1, <1>5, <1>6, <2>1 DEF StartedInOrder, Precedes
  <2>2. CASE i > Len(readQueue)
    BY <1>1, <1>2, <1>5, <1>6, <2>2, Numbers DEF IssuedBounds
  <2> QED
    BY <1>5, <2>1, <2>2
<1>12. StartedInOrder'
  BY <1>1, <1>9, <1>10, <1>11 DEF StartedInOrder, Precedes
<1> QED
  BY <1>2, <1>3, <1>5, <1>8, <1>12

ClientRecord == [pc : {"idle", "send", "wait", "clean"}, q : 0..MaxQueries, key : Keys,
                 result : Results]

\* A step of a client that neither reads the clock nor queues a request.
LEMMA ClientTypeOK ==
    ASSUME IInv, NEW c \in Clients, NEW rec \in ClientRecord,
           client' = [client EXCEPT ![c] = rec],
           resp' \in [Keys -> Seq(Responses)], ttl' \subseteq Keys,
           UNCHANGED <<clock, issued, readQueue, handlerVars, executed>>
    PROVE  IInv'
<1>1. client' \in [Clients -> ClientRecord]
  BY DEF IInv, TypeOK, ClientRecord
<1>2. TypeOK'
  BY <1>1 DEF IInv, TypeOK, ClientRecord, handlerVars
<1> QED
  BY <1>2, SameRequests DEF IInv

\* A step of a client keeps the invariant: only a new request concerns it.
LEMMA ClientIInv ==
    ASSUME IInv, NEW c \in Clients, ClientStep(c)
    PROVE  IInv'
<1>0. /\ MaxQueries \in Nat
      /\ TypeOK /\ client \in [Clients -> ClientRecord] /\ client[c] \in ClientRecord
      /\ client[c].key \in Keys
      /\ Error \in Results /\ Idle \in ClientRecord
  <2>1. MaxQueries \in Nat
    BY ReadsAssumption DEF ReadsAssumption
  <2>2. TypeOK /\ client \in [Clients -> ClientRecord]
    BY DEF IInv, TypeOK, ClientRecord
  <2>3. client[c] \in ClientRecord
    BY <2>2
  <2>4. client[c].key \in Keys
    BY <2>3 DEF ClientRecord
  <2>5. Error \in Results
    BY DEF Results
  <2>6. 0 \in Keys /\ 0 \in 0..MaxQueries
    BY <2>1 DEF Keys
  <2>7. Idle \in ClientRecord
    BY <2>5, <2>6 DEF Idle, ClientRecord
  <2> QED
    BY <2>1, <2>2, <2>3, <2>4, <2>5, <2>7
<1>1. CASE Ask(c)
  <2> DEFINE rec == [pc |-> "send", q |-> 0, key |-> clock', result |-> Error]
  <2>1. /\ clock' = clock + 1 /\ clock < MaxQueries
        /\ client' = [client EXCEPT ![c] = rec]
        /\ UNCHANGED <<issued, readQueue, resp, ttl, handlerVars, executed>>
    BY <1>1 DEF Ask, ResponseKey, redisVars
  <2>2. clock' \in Keys /\ 0 \in 0..MaxQueries
    BY <1>0, <2>1 DEF TypeOK, Keys
  <2>3. rec \in ClientRecord
    BY <1>0, <2>2 DEF ClientRecord
  <2>4. client' \in [Clients -> ClientRecord]
    BY <1>0, <2>1, <2>3
  <2>5. TypeOK'
    BY <1>0, <2>1, <2>2, <2>4 DEF TypeOK, ClientRecord, handlerVars
  <2>6. /\ IssuedBounds' /\ StartedInOrder' /\ OneReaderPerQuery'
        /\ IsFiniteSet(readers') /\ SlotPerReader'
    BY <2>1, SameRequests
  <2> QED
    BY <2>5, <2>6 DEF IInv
<1>7. CASE Send(c)
  <2> DEFINE rec == [client[c] EXCEPT !.pc = "wait", !.q = issued']
  <2>1. /\ PushRequest(c) /\ client' = [client EXCEPT ![c] = rec]
        /\ UNCHANGED <<clock, resp, ttl, handlerVars, executed>>
    BY <1>7 DEF Send
  <2>2. /\ issued' \in Queries /\ readQueue' \in Seq(Requests)
        /\ IssuedBounds' /\ StartedInOrder' /\ OneReaderPerQuery'
        /\ IsFiniteSet(readers') /\ SlotPerReader'
    BY <1>0, <2>1, NewRequest
  <2>3. issued' \in 0..MaxQueries
    BY <1>0, <2>2 DEF Queries
  <2>4. rec \in ClientRecord
    BY <1>0, <2>3 DEF ClientRecord
  <2>5. client' \in [Clients -> ClientRecord]
    BY <1>0, <2>1, <2>4
  <2>6. TypeOK'
    BY <1>0, <2>1, <2>2, <2>3, <2>5 DEF TypeOK, ClientRecord, handlerVars
  <2> QED
    BY <2>2, <2>6 DEF IInv
<1>2. CASE SendFails(c)
  <2>1. /\ client' = [client EXCEPT ![c] = Idle]
        /\ UNCHANGED <<clock, resp, ttl, handlerVars, executed>>
    BY <1>2 DEF SendFails
  <2>2. CASE PushRequest(c)
    <3>1. /\ issued' \in Queries /\ readQueue' \in Seq(Requests)
          /\ IssuedBounds' /\ StartedInOrder' /\ OneReaderPerQuery'
          /\ IsFiniteSet(readers') /\ SlotPerReader'
      BY <1>0, <2>1, <2>2, NewRequest
    <3>2. issued' \in 0..MaxQueries
      BY <1>0, <3>1 DEF Queries
    <3>3. client' \in [Clients -> ClientRecord]
      BY <1>0, <2>1
    <3>4. TypeOK'
      BY <1>0, <2>1, <3>1, <3>2, <3>3 DEF TypeOK, ClientRecord, handlerVars
    <3> QED
      BY <3>1, <3>4 DEF IInv
  <2>3. CASE UNCHANGED <<issued, readQueue>>
    BY <1>0, <2>1, <2>3, ClientTypeOK DEF TypeOK
  <2> QED
    BY <1>2, <2>2, <2>3 DEF SendFails
<1>3. CASE Receive(c)
  <2> DEFINE k == client[c].key
             rec == [client[c] EXCEPT !.pc = "clean", !.result = Head(resp[k])]
  <2>1. /\ resp[k] # <<>> /\ resp' = [resp EXCEPT ![k] = Tail(@)]
        /\ ttl' = IF Len(resp[k]) = 1 THEN ttl \ {k} ELSE ttl
        /\ client' = [client EXCEPT ![c] = rec]
        /\ UNCHANGED <<clock, issued, readQueue, handlerVars, executed>>
    BY <1>3 DEF Receive
  <2>2. resp[k] \in Seq(Responses)
    BY <1>0 DEF TypeOK
  <2>3. Tail(resp[k]) \in Seq(Responses) /\ Head(resp[k]) \in Responses
    BY <2>1, <2>2, TailElements
  <2>4. rec \in ClientRecord
    BY <1>0, <2>3 DEF ClientRecord, Results
  <2>5. resp' \in [Keys -> Seq(Responses)] /\ ttl' \subseteq Keys
    BY <1>0, <2>1, <2>3 DEF TypeOK
  <2> QED
    BY <2>1, <2>4, <2>5, ClientTypeOK
<1>4. CASE GiveUp(c)
  <2> DEFINE rec == [client[c] EXCEPT !.pc = "clean"]
  <2>1. /\ client' = [client EXCEPT ![c] = rec]
        /\ UNCHANGED <<clock, issued, readQueue, resp, ttl, handlerVars, executed>>
    BY <1>4 DEF GiveUp, redisVars
  <2>2. rec \in ClientRecord
    BY <1>0 DEF ClientRecord
  <2> QED
    BY <1>0, <2>1, <2>2, ClientTypeOK DEF TypeOK
<1>5. CASE Return(c)
  <2> DEFINE rec == [client[c] EXCEPT !.pc = "idle"]
  <2>1. /\ client' = [client EXCEPT ![c] = rec]
        /\ resp' = [resp EXCEPT ![client[c].key] = <<>>]
        /\ ttl' = ttl \ {client[c].key}
        /\ UNCHANGED <<clock, issued, readQueue, handlerVars, executed>>
    BY <1>5 DEF Return
  <2>2. rec \in ClientRecord
    BY <1>0 DEF ClientRecord
  <2>3. resp' \in [Keys -> Seq(Responses)] /\ ttl' \subseteq Keys
    BY <1>0, <2>1 DEF TypeOK
  <2> QED
    BY <2>1, <2>2, <2>3, ClientTypeOK
<1>6. CASE ClientDies(c)
  <2>1. /\ client' = [client EXCEPT ![c] = Idle]
        /\ UNCHANGED <<clock, issued, readQueue, resp, ttl, handlerVars, executed>>
    BY <1>6 DEF ClientDies, redisVars
  <2> QED
    BY <1>0, <2>1, ClientTypeOK DEF TypeOK
<1> QED
  BY <1>1, <1>2, <1>3, <1>4, <1>5, <1>6, <1>7 DEF ClientStep

-----------------------------------------------------------------------------
\* The loop takes the request at the head of the queue.
LEMMA PopIInv == IInv /\ Pop => IInv'
<1> SUFFICES ASSUME IInv, Pop PROVE IInv'
  OBVIOUS
<1>1. /\ TypeOK /\ IssuedBounds /\ StartedInOrder
      /\ held = <<>> /\ readQueue # <<>>
      /\ held' = <<Head(readQueue)>> /\ readQueue' = Tail(readQueue)
      /\ UNCHANGED <<clock, issued, client, resp, ttl, slots, readers, executed>>
  BY DEF IInv, Pop
<1>2. /\ readQueue' \in Seq(Requests) /\ Head(readQueue) \in Requests
      /\ Head(readQueue) = readQueue[1] /\ Len(readQueue) \in Nat \ {0}
      /\ Len(readQueue') = Len(readQueue) - 1
      /\ \A i \in 1..Len(readQueue') : readQueue'[i] = readQueue[i + 1]
  BY <1>1, TailElements DEF TypeOK
<1>3. held' \in Seq(Requests) /\ Len(held') = 1 /\ held'[1] = readQueue[1]
  BY <1>1, <1>2
<1>4. TypeOK'
  BY <1>1, <1>2, <1>3 DEF TypeOK
<1>5. IssuedBounds'
  BY <1>1, <1>2, <1>3, Numbers DEF IssuedBounds
<1>6. StartedInOrder'
  <2>1. \A i, j \in 1..Len(readQueue') : i < j => readQueue'[i].q < readQueue'[j].q
    BY <1>1, <1>2 DEF StartedInOrder
  <2>2. \A i \in 1..Len(readQueue') : held'[1].q < readQueue'[i].q
    BY <1>1, <1>2, <1>3 DEF StartedInOrder
  <2>3. \A q : Precedes(q) => Precedes(q)'
    BY <1>1, <1>2, <1>3 DEF Precedes
  <2> QED
    BY <1>1, <1>3, <2>1, <2>2, <2>3 DEF StartedInOrder
<1> QED
  BY <1>1, <1>4, <1>5, <1>6 DEF IInv, OneReaderPerQuery, SlotPerReader

\* The request at the head of the queue is lost with the reply to BLPop.
LEMMA PopLostIInv == IInv /\ PopLost => IInv'
<1> SUFFICES ASSUME IInv, PopLost PROVE IInv'
  OBVIOUS
<1>1. /\ TypeOK /\ IssuedBounds /\ StartedInOrder
      /\ readQueue # <<>> /\ readQueue' = Tail(readQueue)
      /\ UNCHANGED <<clock, issued, client, resp, ttl, held, slots, readers, executed>>
  BY DEF IInv, PopLost, handlerVars
<1>2. /\ readQueue' \in Seq(Requests) /\ Len(readQueue) \in Nat \ {0}
      /\ Len(readQueue') = Len(readQueue) - 1
      /\ \A i \in 1..Len(readQueue') : readQueue'[i] = readQueue[i + 1]
  BY <1>1, TailElements DEF TypeOK
<1>3. TypeOK'
  BY <1>1, <1>2 DEF TypeOK
<1>4. IssuedBounds'
  BY <1>1, <1>2, Numbers DEF IssuedBounds
<1>5. StartedInOrder'
  <2>1. \A i, j \in 1..Len(readQueue') : i < j => readQueue'[i].q < readQueue'[j].q
    BY <1>1, <1>2 DEF StartedInOrder
  <2>2. \A i \in 1..Len(readQueue'), h \in 1..Len(held) : held[h].q < readQueue'[i].q
    BY <1>1, <1>2 DEF StartedInOrder
  <2>3. \A q : Precedes(q) => Precedes(q)'
    BY <1>1, <1>2 DEF Precedes
  <2> QED
    BY <1>1, <2>1, <2>2, <2>3 DEF StartedInOrder
<1> QED
  BY <1>1, <1>3, <1>4, <1>5 DEF IInv, OneReaderPerQuery, SlotPerReader

\* The loop gives the request it holds to a new goroutine, with a slot.
LEMMA StartReaderIInv == IInv /\ StartReader => IInv'
<1> SUFFICES ASSUME IInv, StartReader PROVE IInv'
  OBVIOUS
<1> DEFINE r == [q |-> held[1].q, key |-> held[1].key, data |-> FALSE, pc |-> "query"]
<1>1. /\ TypeOK /\ IssuedBounds /\ StartedInOrder /\ OneReaderPerQuery
      /\ IsFiniteSet(readers) /\ SlotPerReader
      /\ held # <<>> /\ slots < MaxReads /\ slots' = slots + 1
      /\ readers' = readers \cup {r} /\ held' = <<>>
      /\ UNCHANGED <<clock, issued, client, readQueue, resp, ttl, executed>>
  BY DEF IInv, StartReader, HasSlot, redisVars
<1>2. /\ Len(held) = 1 /\ held[1] \in Requests /\ held[1].q \in Nat
  BY <1>1, Numbers
<1>3. r \in Reader
  BY <1>2 DEF Reader, Requests
<1>4. \A s \in readers : s.q < held[1].q /\ s.q \in Nat
  BY <1>1, <1>2, Numbers DEF StartedInOrder, Precedes
<1>5. r.q = held[1].q /\ \A s \in readers : s.q # r.q
  BY <1>2, <1>4
<1>6. r \notin readers
  BY <1>5
<1> HIDE DEF r
<1>7. IsFiniteSet(readers') /\ Cardinality(readers') = Cardinality(readers) + 1
  BY <1>1, <1>6, FS_AddElement
<1>8. slots \in 0..MaxReads /\ MaxReads \in Nat
  BY <1>1, ReadsAssumption DEF TypeOK, ReadsAssumption
<1>9. SlotPerReader' /\ slots' \in 0..MaxReads
  BY <1>1, <1>7, <1>8 DEF SlotPerReader
<1>10. readers' \subseteq Reader
  BY <1>1, <1>3 DEF TypeOK, Reader
<1>11. held' \in Seq(Requests) /\ Len(held') = 0
  BY <1>1
<1>12. TypeOK'
  BY <1>1, <1>9, <1>10, <1>11 DEF TypeOK, Reader
<1>13. IssuedBounds'
  BY <1>1, <1>2, <1>5, <1>11 DEF IssuedBounds
<1>14. StartedInOrder'
  <2>1. \A q : Precedes(q) => Precedes(q)'
    BY <1>1, <1>11 DEF Precedes
  <2>2. \A q : q = held[1].q => Precedes(q)'
    BY <1>1, <1>2, <1>11 DEF Precedes, StartedInOrder
  <2>3. \A s \in readers' : s \in readers \/ s.q = held[1].q
    BY <1>1, <1>5
  <2> QED
    BY <1>1, <1>11, <2>1, <2>2, <2>3 DEF StartedInOrder
<1>15. OneReaderPerQuery'
  BY <1>1, <1>5 DEF OneReaderPerQuery
<1> QED
  BY <1>7, <1>9, <1>12, <1>13, <1>14, <1>15 DEF IInv

\* A step of the goroutine r that keeps its slot.
LEMMA ReaderGoesOn ==
    ASSUME IInv, NEW r \in readers, NEW s \in Reader, s.q = r.q, MoveReader(r, s),
           resp' \in [Keys -> Seq(Responses)], ttl' \subseteq Keys,
           executed' \in {executed, executed \cup {r.q}},
           UNCHANGED <<clock, issued, client, readQueue, held, slots>>
    PROVE  IInv'
<1>1. /\ TypeOK /\ IssuedBounds /\ StartedInOrder /\ OneReaderPerQuery
      /\ IsFiniteSet(readers) /\ SlotPerReader
      /\ readers \subseteq Reader
  BY DEF IInv, TypeOK, Reader
<1>2. /\ IsFiniteSet(readers') /\ Cardinality(readers') = Cardinality(readers)
      /\ readers' \subseteq Reader
      /\ OneReaderPerQuery'
      /\ \A t \in readers' : \E u \in readers : t.q = u.q
  BY <1>1, MoveReaderKeeps
<1>3. r.q \in Queries
  BY <1>1, Numbers
<1>4. TypeOK'
  BY <1>1, <1>2, <1>3 DEF TypeOK, Reader
<1>5. IssuedBounds'
  BY <1>1, <1>2 DEF IssuedBounds
<1>6. StartedInOrder'
  <2>1. \A q : Precedes(q) => Precedes(q)'
    BY DEF Precedes
  <2> QED
    BY <1>1, <1>2, <2>1 DEF StartedInOrder
<1>7. SlotPerReader'
  BY <1>1, <1>2 DEF SlotPerReader
<1> QED
  BY <1>2, <1>4, <1>5, <1>6, <1>7 DEF IInv

\* A step of a goroutine keeps its slot or gives it back as it ends.
LEMMA ReaderIInv ==
    ASSUME IInv, NEW r \in readers, ReaderStep(r)
    PROVE  IInv'
<1>0. /\ r \in Reader /\ r.key \in Keys /\ r.q \in Queries /\ r.data \in BOOLEAN
      /\ resp \in [Keys -> Seq(Responses)] /\ ttl \subseteq Keys
  BY DEF IInv, TypeOK, Reader
<1>1. CASE DecodeFails(r)
  <2> DEFINE s == [r EXCEPT !.pc = "release"]
  <2>1. s \in Reader /\ s.q = r.q
    BY <1>0 DEF Reader
  <2> QED
    BY <1>0, <1>1, <2>1, ReaderGoesOn DEF DecodeFails, redisVars
<1>2. CASE RunQuery(r)
  <2>1. PICK data \in BOOLEAN : MoveReader(r, [r EXCEPT !.pc = "respond", !.data = data])
    BY <1>2 DEF RunQuery
  <2> DEFINE s == [r EXCEPT !.pc = "respond", !.data = data]
  <2>2. s \in Reader /\ s.q = r.q
    BY <1>0 DEF Reader
  <2> QED
    BY <1>0, <1>2, <2>1, <2>2, ReaderGoesOn DEF RunQuery, redisVars
<1>3. CASE Respond(r)
  <2> DEFINE s == [r EXCEPT !.pc = "expire"]
             a == ResponseOf(r)
  <2>1. s \in Reader /\ s.q = r.q
    BY <1>0 DEF Reader
  <2>2. a \in Responses /\ resp[r.key] \in Seq(Responses)
    BY <1>0 DEF Responses, ResponseOf
  <2>3. Append(resp[r.key], a) \in Seq(Responses)
    BY <2>2, AppendElements
  <2>4. resp' \in [Keys -> Seq(Responses)]
    BY <1>0, <1>3, <2>3 DEF Respond
  <2> QED
    BY <1>0, <1>3, <2>1, <2>4, ReaderGoesOn DEF Respond
<1>4. CASE RespondFails(r)
  <2> DEFINE s == [r EXCEPT !.pc = "expire"]
  <2>1. s \in Reader /\ s.q = r.q
    BY <1>0 DEF Reader
  <2> QED
    BY <1>0, <1>4, <2>1, ReaderGoesOn DEF RespondFails, redisVars
<1>5. CASE Expire(r)
  <2> DEFINE s == [r EXCEPT !.pc = "release"]
  <2>1. s \in Reader /\ s.q = r.q
    BY <1>0 DEF Reader
  <2>2. ttl' \subseteq Keys
    BY <1>0, <1>5 DEF Expire
  <2> QED
    BY <1>0, <1>5, <2>1, <2>2, ReaderGoesOn DEF Expire
<1>6. CASE ExpireFails(r)
  <2> DEFINE s == [r EXCEPT !.pc = "release"]
  <2>1. s \in Reader /\ s.q = r.q
    BY <1>0 DEF Reader
  <2> QED
    BY <1>0, <1>6, <2>1, ReaderGoesOn DEF ExpireFails, redisVars
<1>7. CASE Release(r)
  <2>1. /\ TypeOK /\ IssuedBounds /\ StartedInOrder /\ OneReaderPerQuery
        /\ IsFiniteSet(readers) /\ SlotPerReader
        /\ slots' = slots - 1 /\ readers' = readers \ {r}
        /\ UNCHANGED <<clock, issued, client, readQueue, resp, ttl, held, executed>>
    BY <1>7 DEF IInv, Release, redisVars
  <2>2. /\ IsFiniteSet(readers') /\ Cardinality(readers') = Cardinality(readers) - 1
        /\ Cardinality(readers) \in Nat /\ Cardinality(readers) > 0
        /\ OneReaderPerQuery'
    BY <2>1, ReaderEnds
  <2>3. slots' \in 0..MaxReads /\ SlotPerReader'
    BY <2>1, <2>2, ReadsAssumption DEF SlotPerReader, ReadsAssumption
  <2>4. TypeOK'
    BY <2>1, <2>3 DEF TypeOK
  <2>5. IssuedBounds' /\ StartedInOrder'
    BY <2>1 DEF IssuedBounds, StartedInOrder, Precedes
  <2> QED
    BY <2>2, <2>3, <2>4, <2>5 DEF IInv
<1> QED
  BY <1>1, <1>2, <1>3, <1>4, <1>5, <1>6, <1>7 DEF ReaderStep

\* A restart forgets the goroutines, their slots and the payload held.
LEMMA RestartIInv == IInv /\ HandlerRestarts => IInv'
<1> SUFFICES ASSUME IInv, HandlerRestarts PROVE IInv'
  OBVIOUS
<1>1. /\ TypeOK /\ IssuedBounds /\ StartedInOrder
      /\ held' = <<>> /\ readers' = {} /\ slots' = 0
      /\ UNCHANGED <<clock, issued, client, readQueue, resp, ttl, executed>>
  BY DEF IInv, HandlerRestarts, redisVars
<1>2. MaxReads \in Nat
  BY ReadsAssumption DEF ReadsAssumption
<1>3. IsFiniteSet(readers') /\ Cardinality(readers') = 0
  BY <1>1, FS_EmptySet
<1>4. TypeOK' /\ SlotPerReader'
  BY <1>1, <1>2, <1>3 DEF TypeOK, SlotPerReader
<1>5. IssuedBounds' /\ StartedInOrder' /\ OneReaderPerQuery'
  BY <1>1 DEF IssuedBounds, StartedInOrder, Precedes, OneReaderPerQuery
<1> QED
  BY <1>3, <1>4, <1>5 DEF IInv

\* Redis drops a response key.
LEMMA ExpiryIInv ==
    ASSUME IInv, NEW k \in Keys, KeyExpires(k)
    PROVE  IInv'
<1>1. UNCHANGED <<clock, issued, client, readQueue, handlerVars, executed>>
  BY DEF KeyExpires
<1>2. resp' \in [Keys -> Seq(Responses)] /\ ttl' \subseteq Keys
  BY DEF KeyExpires, IInv, TypeOK
<1>3. TypeOK'
  BY <1>1, <1>2 DEF IInv, TypeOK, handlerVars
<1> QED
  BY <1>1, <1>3, SameRequests DEF IInv

\* The invariant is inductive.
THEOREM Inductive == IInv /\ [Next]_vars => IInv'
<1> SUFFICES ASSUME IInv, [Next]_vars PROVE IInv'
  OBVIOUS
<1>1. CASE \E c \in Clients : ClientStep(c)
  BY <1>1, ClientIInv
<1>2. CASE Pop
  BY <1>2, PopIInv
<1>3. CASE StartReader
  BY <1>3, StartReaderIInv
<1>4. CASE \E r \in readers : ReaderStep(r)
  BY <1>4, ReaderIInv
<1>5. CASE HandlerRestarts
  BY <1>5, RestartIInv
<1>6. CASE \E k \in Keys : KeyExpires(k)
  BY <1>6, ExpiryIInv
<1>8. CASE PopLost
  BY <1>8, PopLostIInv
<1>7. CASE UNCHANGED vars
  <2>1. TypeOK'
    BY <1>7 DEF IInv, TypeOK, vars, handlerVars
  <2> QED
    BY <1>7, <2>1, SameRequests DEF IInv, vars, handlerVars
<1> QED
  BY <1>1, <1>2, <1>3, <1>4, <1>5, <1>6, <1>7, <1>8 DEF Next, Quiet

\* The invariant holds in every reachable state.
THEOREM Invariance == Spec => []IInv
<1> QED
  BY InitIInv, Inductive, PTL DEF Spec

\* The variables keep their types, and the channel maxReads never holds more
\* tokens than its capacity or fewer than none.
THEOREM TypeCorrect == Spec => []TypeOK
<1>1. IInv => TypeOK
  BY DEF IInv
<1> QED
  BY <1>1, Invariance, PTL

\* The tokens in maxReads are the running goroutines.
THEOREM SlotsAreReaders == Spec => []SlotPerReader
<1>1. IInv => SlotPerReader
  BY DEF IInv
<1> QED
  BY <1>1, Invariance, PTL

\* Goroutines are started in the order of the requests, one for each at most.
THEOREM RequestsStartInOrder == Spec => []StartedInOrder
<1>1. IInv => StartedInOrder
  BY DEF IInv
<1> QED
  BY <1>1, Invariance, PTL

-----------------------------------------------------------------------------
(* Responses do not stay in Redis.                                         *)

\* A response that is in Redis has its TTL, or the goroutine that pushed it is
\* about to set it; no client is needed.
Expiring(k) == k \in ttl \/ \E r \in readers : r.pc = "expire" /\ r.key = k
ExpiryInv == \A k \in Keys : resp[k] # <<>> => Expiring(k)

\* No key gets a response, no goroutine is lost, and a TTL ends with its list.
LEMMA ExpiryKept ==
    ASSUME ExpiryInv, readers \subseteq readers',
           \A k \in Keys : resp'[k] # <<>> => resp[k] # <<>>,
           \A k \in ttl : k \in ttl' \/ resp'[k] = <<>>
    PROVE  ExpiryInv'
  BY DEF ExpiryInv, Expiring

\* A client's step takes responses away and leaves the TTL of what remains.
LEMMA ClientExpiry ==
    ASSUME TypeOK, ExpiryInv, NEW c \in Clients, ClientStep(c)
    PROVE  ExpiryInv'
<1>1. /\ client[c].key \in Keys /\ resp \in [Keys -> Seq(Responses)]
      /\ resp[client[c].key] \in Seq(Responses)
  BY DEF TypeOK
<1>2. CASE Ask(c) \/ Send(c) \/ SendFails(c) \/ GiveUp(c) \/ ClientDies(c)
  BY <1>2, ExpiryKept DEF Ask, Send, SendFails, GiveUp, ClientDies, handlerVars, redisVars
<1>3. CASE Receive(c)
  <2> DEFINE k == client[c].key
  <2>1. resp[k] # <<>> /\ (Len(resp[k]) = 1 => Tail(resp[k]) = <<>>)
    <3>1. ASSUME NEW u \in Seq(Responses), Len(u) = 1 PROVE Tail(u) = <<>>
      <4>1. u # <<>>
        BY <3>1
      <4>2. Tail(u) \in Seq(Responses) /\ Len(Tail(u)) = Len(u) - 1
        BY <4>1, TailElements
      <4>3. \A v \in Seq(Responses) : v # <<>> => Len(v) \in Nat \ {0}
        BY EmptySeq
      <4>4. Len(Tail(u)) = 0
        BY <3>1, <4>2
      <4> HIDE DEF k
      <4> QED
        BY <4>2, <4>3, <4>4
    <3> QED
      BY <1>1, <1>3, <3>1 DEF Receive
  <2>2. /\ resp' = [resp EXCEPT ![k] = Tail(@)] /\ readers' = readers
        /\ ttl' = IF Len(resp[k]) = 1 THEN ttl \ {k} ELSE ttl
    BY <1>3 DEF Receive, handlerVars
  <2> HIDE DEF k
  <2>3. resp'[k] = Tail(resp[k]) /\ \A j \in Keys \ {k} : resp'[j] = resp[j]
    BY <1>1, <2>2 DEF k
  <2>4. \A j \in ttl : j \in ttl' \/ resp'[j] = <<>>
    BY <2>1, <2>2, <2>3
  <2> QED
    BY <2>1, <2>2, <2>3, <2>4, ExpiryKept
<1>4. CASE Return(c)
  <2> DEFINE k == client[c].key
  <2>1. resp' = [resp EXCEPT ![k] = <<>>] /\ readers' = readers /\ ttl' = ttl \ {k}
    BY <1>4 DEF Return, handlerVars
  <2>2. resp'[k] = <<>> /\ \A j \in Keys \ {k} : resp'[j] = resp[j]
    BY <1>1, <2>1
  <2> QED
    BY <2>1, <2>2, ExpiryKept
<1> QED
  BY <1>2, <1>3, <1>4 DEF ClientStep

\* A goroutine pushes a response and is then about to set its TTL.
LEMMA ReaderExpiry ==
    ASSUME "expire" \notin Faults, TypeOK, ExpiryInv, NEW r \in readers, ReaderStep(r)
    PROVE  ExpiryInv'
<1>1. r.key \in Keys /\ resp \in [Keys -> Seq(Responses)]
  BY DEF TypeOK
<1>2. ASSUME NEW s, MoveReader(r, s), r.pc # "expire" PROVE
         \A t \in readers : t.pc = "expire" => t \in readers'
  BY <1>2 DEF MoveReader
<1>3. CASE DecodeFails(r) \/ RunQuery(r) \/ RespondFails(r)
  <2>1. resp' = resp /\ ttl' = ttl
    BY <1>3 DEF DecodeFails, RunQuery, RespondFails, redisVars
  <2>2. \A t \in readers : t.pc = "expire" => t \in readers'
    BY <1>2, <1>3 DEF DecodeFails, RunQuery, RespondFails
  <2> QED
    BY <2>1, <2>2 DEF ExpiryInv, Expiring
<1>4. CASE Respond(r)
  <2> DEFINE s == [r EXCEPT !.pc = "expire"]
  <2>1. s \in readers' /\ s.pc = "expire" /\ s.key = r.key
    BY <1>4 DEF Respond, MoveReader, TypeOK
  <2>2. \A t \in readers : t.pc = "expire" => t \in readers'
    BY <1>2, <1>4 DEF Respond
  <2>3. ttl' = ttl /\ \A k \in Keys \ {r.key} : resp'[k] = resp[k]
    BY <1>1, <1>4 DEF Respond
  <2> HIDE DEF s
  <2> QED
    BY <2>1, <2>2, <2>3 DEF ExpiryInv, Expiring
<1>5. CASE Expire(r)
  <2>1. resp' = resp /\ ttl \subseteq ttl' /\ (resp[r.key] # <<>> => r.key \in ttl')
    BY <1>5 DEF Expire
  <2>2. \A t \in readers : t # r => t \in readers'
    BY <1>5 DEF Expire, MoveReader
  <2> QED
    BY <2>1, <2>2 DEF ExpiryInv, Expiring
<1>6. CASE Release(r)
  <2>1. resp' = resp /\ ttl' = ttl
    BY <1>6 DEF Release, redisVars
  <2>2. \A t \in readers : t.pc = "expire" => t \in readers'
    BY <1>6 DEF Release
  <2> QED
    BY <2>1, <2>2 DEF ExpiryInv, Expiring
<1> QED
  BY <1>3, <1>4, <1>5, <1>6 DEF ReaderStep, ExpireFails

\* While the handler lives and its Expire succeeds, no response stays in Redis
\* for ever: not the one of a client that died, nor one pushed after the
\* client's Del.
THEOREM NothingImmortal ==
    ASSUME "handler" \notin Faults, "expire" \notin Faults
    PROVE  Spec => []NoImmortalResponse
<1>1. Init => ExpiryInv
  BY DEF Init, ExpiryInv
<1>2. TypeOK /\ ExpiryInv /\ [Next]_vars => ExpiryInv'
  <2> SUFFICES ASSUME TypeOK, ExpiryInv, [Next]_vars PROVE ExpiryInv'
    OBVIOUS
  <2>1. CASE \E c \in Clients : ClientStep(c)
    BY <2>1, ClientExpiry
  <2>2. CASE Pop \/ PopLost
    BY <2>2, ExpiryKept DEF Pop, PopLost, handlerVars
  <2>3. CASE StartReader
    BY <2>3, ExpiryKept DEF StartReader, redisVars
  <2>4. CASE \E r \in readers : ReaderStep(r)
    BY <2>4, ReaderExpiry
  <2>5. CASE \E k \in Keys : KeyExpires(k)
    <3>1. PICK k \in Keys : KeyExpires(k)
      BY <2>5
    <3>2. /\ resp' = [resp EXCEPT ![k] = <<>>] /\ readers' = readers /\ ttl' = ttl \ {k}
          /\ resp \in [Keys -> Seq(Responses)]
      BY <3>1 DEF KeyExpires, handlerVars, TypeOK
    <3>3. resp'[k] = <<>> /\ \A j \in Keys \ {k} : resp'[j] = resp[j]
      BY <3>2
    <3> QED
      BY <3>2, <3>3, ExpiryKept
  <2>6. CASE UNCHANGED vars
    BY <2>6, ExpiryKept DEF vars
  <2> QED
    BY <2>1, <2>2, <2>3, <2>4, <2>5, <2>6 DEF Next, HandlerRestarts, Quiet
<1>3. ExpiryInv => NoImmortalResponse
  BY DEF ExpiryInv, Expiring, NoImmortalResponse, Reclaimed
<1>4. Spec => [](TypeOK /\ ExpiryInv)
  <2>1. Spec => []TypeOK
    BY TypeCorrect
  <2> QED
    BY <1>1, <1>2, <2>1, PTL DEF Spec
<1> QED
  BY <1>3, <1>4, PTL

-----------------------------------------------------------------------------
(* The response keys tell the queries apart.                               *)

\* What a client's record says of its key, when f[q] is the key of query q: a
\* key that is not yet sent is nobody else's, a key that is waited on is the
\* key of the client's query.
ClientLink(f, rec) ==
    /\ rec.key <= clock
    /\ rec.pc = "send" => rec.result = Error /\ \A q \in 1..issued : f[q] # rec.key
    /\ rec.pc \in {"wait", "clean"} => rec.q \in 1..issued /\ rec.key = f[rec.q]
    /\ rec.pc = "wait" => rec.result = Error
    /\ rec.result.q \in {0, rec.q}

\* Queries were pushed with different keys, all of them read from the clock;
\* requests, goroutines and responses are under the key of their query, and a
\* response is there only after its query was executed.
Link(f) ==
    /\ \A p, q \in 1..issued : f[p] = f[q] => p = q
    /\ \A q \in 1..issued : f[q] <= clock
    /\ \A i \in 1..Len(readQueue) : readQueue[i].key = f[readQueue[i].q]
    /\ \A h \in 1..Len(held) : held[h].key = f[held[h].q]
    /\ \A r \in readers : r.key = f[r.q] /\ (r.pc = "respond" => r.q \in executed)
    /\ \A k \in Keys : \A i \in 1..Len(resp[k]) :
          f[resp[k][i].q] = k /\ resp[k][i].q \in executed
    /\ \A c \in Clients : ClientLink(f, client[c])
    /\ \A c, d \in Clients : c # d /\ client[c].pc = "send" /\ client[d].pc = "send"
                                => client[c].key # client[d].key

LinkInv == \E f \in [Queries -> Keys] : Link(f)

\* A query that was executed was issued.
LEMMA ExecutedIssued ==
    ASSUME IInv
    PROVE  \A q \in executed : q \in 1..issued
  BY Numbers DEF IInv, IssuedBounds, Queries

\* A step of a client that neither reads the clock nor pushes: only its own
\* record changes, and no response is added.
LEMMA LinkClient ==
    ASSUME TypeOK, NEW f, Link(f), NEW c \in Clients, NEW rec,
           rec.pc # "send", ClientLink(f, rec),
           client' = [client EXCEPT ![c] = rec],
           \A k \in Keys : \A i \in 1..Len(resp'[k]) :
              \E j \in 1..Len(resp[k]) : resp'[k][i] = resp[k][j],
           UNCHANGED <<clock, issued, readQueue, handlerVars, executed>>
    PROVE  Link(f)'
<1>1. \A d \in Clients : client'[d] = IF d = c THEN rec ELSE client[d]
  BY DEF TypeOK
<1>2. \A d \in Clients : ClientLink(f, client'[d])
  BY <1>1 DEF Link
<1>3. \A d \in Clients : ClientLink(f, client[d])'
  BY <1>2 DEF ClientLink
<1>4. \A d, e \in Clients : d # e /\ client'[d].pc = "send" /\ client'[e].pc = "send"
                               => client'[d].key # client'[e].key
  BY <1>1 DEF Link
<1>5. \A k \in Keys : \A i \in 1..Len(resp'[k]) :
         f[resp'[k][i].q] = k /\ resp'[k][i].q \in executed
  <2> SUFFICES ASSUME NEW k \in Keys, NEW i \in 1..Len(resp'[k])
               PROVE  f[resp'[k][i].q] = k /\ resp'[k][i].q \in executed
    OBVIOUS
  <2>1. PICK j \in 1..Len(resp[k]) : resp'[k][i] = resp[k][j]
    OBVIOUS
  <2> QED
    BY <2>1 DEF Link
<1> QED
  BY <1>3, <1>4, <1>5 DEF Link, handlerVars

\* A client reads the clock: its key is new.
LEMMA LinkAsk ==
    ASSUME IInv, NEW f \in [Queries -> Keys], Link(f), NEW c \in Clients, Ask(c)
    PROVE  Link(f)'
<1> DEFINE rec == [pc |-> "send", q |-> 0, key |-> clock', result |-> Error]
<1>1. /\ TypeOK /\ clock' = clock + 1 /\ client' = [client EXCEPT ![c] = rec]
      /\ UNCHANGED <<issued, readQueue, resp, held, readers, executed>>
  BY DEF IInv, Ask, ResponseKey, redisVars, handlerVars
<1>2. /\ clock \in Nat /\ MaxQueries \in Nat /\ \A k \in Keys : k \in Nat
      /\ \A q \in 1..issued : q \in Queries
  <2>1. MaxQueries \in Nat /\ issued \in 0..MaxQueries
    BY <1>1, Numbers
  <2>2. clock \in 0..MaxQueries
    BY <1>1 DEF TypeOK, Keys
  <2> QED
    BY <2>1, <2>2 DEF Keys, Queries
<1>3. \A q \in 1..issued : f[q] \in Nat /\ f[q] <= clock
  BY <1>2 DEF Link
<1>4. \A d \in Clients : client[d].key \in Nat /\ client[d].key <= clock
  BY <1>1, <1>2 DEF TypeOK, Link, ClientLink
<1>5. \A d \in Clients : client'[d] = IF d = c THEN rec ELSE client[d]
  BY <1>1 DEF TypeOK
<1>6. /\ rec.pc = "send" /\ rec.q = 0 /\ rec.key = clock + 1 /\ rec.result = Error
      /\ rec.result.q = 0
  BY <1>1 DEF Error
<1> HIDE DEF rec
<1>7. \A d \in Clients : ClientLink(f, client[d])'
  <2> SUFFICES ASSUME NEW d \in Clients PROVE ClientLink(f, client[d])'
    OBVIOUS
  <2>1. CASE d = c
    BY <1>1, <1>2, <1>3, <1>5, <1>6, <2>1 DEF ClientLink
  <2>2. CASE d # c
    <3>1. ClientLink(f, client[d]) /\ client'[d] = client[d]
      BY <1>5, <2>2 DEF Link
    <3>2. client[d].key <= clock'
      BY <1>1, <1>2, <1>4
    <3> QED
      BY <1>1, <3>1, <3>2 DEF ClientLink
  <2> QED
    BY <2>1, <2>2
<1>8. \A d \in Clients : d # c => client'[d].key # clock + 1
  BY <1>2, <1>4, <1>5
<1>9. \A d, e \in Clients : d # e /\ client'[d].pc = "send" /\ client'[e].pc = "send"
                               => client'[d].key # client'[e].key
  BY <1>5, <1>6, <1>8 DEF Link
<1>10. \A q \in 1..issued : f[q] <= clock'
  BY <1>1, <1>2, <1>3
<1> QED
  BY <1>1, <1>7, <1>9, <1>10 DEF Link

\* A request is pushed: its query gets the key that the client has read.
LEMMA LinkPush ==
    ASSUME IInv, NEW f \in [Queries -> Keys], Link(f), NEW c \in Clients,
           client[c].pc = "send", PushRequest(c), NEW rec, rec.pc # "send",
           rec.result = Error, rec.key <= clock,
           rec.pc \in {"wait", "clean"} => rec.q = issued' /\ rec.key = client[c].key,
           client' = [client EXCEPT ![c] = rec],
           UNCHANGED <<clock, resp, handlerVars, executed>>
    PROVE  LinkInv'
<1> DEFINE k == client[c].key
           n == issued + 1
<1>1. /\ TypeOK /\ k \in Keys /\ n \in Queries /\ n \notin 1..issued /\ n \in 1..n
      /\ issued' = n /\ issued \in Nat /\ \A q \in 1..issued : q \in Queries /\ q \in 1..n
      /\ \A q \in 1..n : q = n \/ q \in 1..issued
  <2>1. TypeOK /\ k \in Keys /\ issued' = n /\ issued < MaxQueries
    BY DEF IInv, TypeOK, PushRequest
  <2> HIDE DEF k
  <2> QED
    BY <2>1, Numbers DEF Queries
<1> HIDE DEF k, n
<1>2. PICK g \in [Queries -> Keys] : g[n] = k /\ \A q \in 1..issued : g[q] = f[q]
  <2>1. [f EXCEPT ![n] = k] \in [Queries -> Keys]
    BY <1>1
  <2> QED
    BY <1>1, <2>1
<1>3. k <= clock /\ \A q \in 1..issued : f[q] # k
  BY DEF Link, ClientLink, k
<1>4. \A p, q \in 1..n : g[p] = g[q] => p = q
  BY <1>1, <1>2, <1>3 DEF Link
<1>5. \A q \in 1..n : g[q] <= clock
  BY <1>1, <1>2, <1>3 DEF Link
<1>6. \A i \in 1..Len(readQueue') : readQueue'[i].key = g[readQueue'[i].q]
  <2>1. [q |-> n, key |-> k] \in Requests
    BY <1>1 DEF Requests
  <2>2. readQueue' = Append(readQueue, [q |-> n, key |-> k])
    BY <1>1 DEF PushRequest, k
  <2>3. /\ Len(readQueue') = Len(readQueue) + 1 /\ Len(readQueue) \in Nat
        /\ \A i \in 1..Len(readQueue) : readQueue'[i] = readQueue[i]
        /\ readQueue'[Len(readQueue) + 1] = [q |-> n, key |-> k]
    BY <1>1, <2>1, <2>2, Numbers, AppendElements
  <2>4. \A i \in 1..Len(readQueue) : readQueue[i].q \in 1..issued
    BY <1>1, Numbers DEF IInv, IssuedBounds, Queries
  <2>5. \A i \in 1..Len(readQueue) : readQueue[i].key = g[readQueue[i].q]
    BY <1>2, <2>4 DEF Link
  <2>6. \A i \in 1..Len(readQueue') : i \in 1..Len(readQueue) \/ i = Len(readQueue) + 1
    BY <2>3
  <2> QED
    BY <1>2, <2>3, <2>5, <2>6
<1>7. /\ \A h \in 1..Len(held) : held[h].key = g[held[h].q]
      /\ \A r \in readers : r.key = g[r.q] /\ (r.pc = "respond" => r.q \in executed)
  <2>1. /\ \A h \in 1..Len(held) : held[h].q \in 1..issued
        /\ \A r \in readers : r.q \in 1..issued
    BY <1>1, Numbers DEF IInv, IssuedBounds, Queries
  <2> QED
    BY <1>2, <2>1 DEF Link
<1>8. \A l \in Keys : \A i \in 1..Len(resp[l]) :
         g[resp[l][i].q] = l /\ resp[l][i].q \in executed
  BY <1>2, ExecutedIssued DEF Link
<1>9. \A d \in Clients : client'[d] = IF d = c THEN rec ELSE client[d]
  BY <1>1 DEF TypeOK
<1>10. \A d \in Clients : d # c /\ client[d].pc = "send" => client[d].key # k
  BY DEF Link, k
<1>11. \A d \in Clients : ClientLink(g, client[d])'
  <2> SUFFICES ASSUME NEW d \in Clients PROVE ClientLink(g, client[d])'
    OBVIOUS
  <2>1. CASE d = c
    <3>1. rec.pc \in {"wait", "clean"} => rec.q = n /\ rec.key = g[n] /\ n \in 1..n
      BY <1>1, <1>2 DEF k
    <3>2. rec.result.q = 0
      BY DEF Error
    <3> QED
      BY <1>1, <1>9, <2>1, <3>1, <3>2 DEF ClientLink
  <2>2. CASE d # c
    <3>1. ClientLink(f, client[d]) /\ client'[d] = client[d]
      BY <1>9, <2>2 DEF Link
    <3>2. client[d].pc = "send" => \A q \in 1..n : g[q] # client[d].key
      BY <1>1, <1>2, <1>10, <2>2, <3>1 DEF ClientLink
    <3>3. client[d].pc \in {"wait", "clean"} =>
             client[d].q \in 1..n /\ client[d].key = g[client[d].q]
      BY <1>1, <1>2, <3>1 DEF ClientLink
    <3> QED
      BY <1>1, <3>1, <3>2, <3>3 DEF ClientLink
  <2> QED
    BY <2>1, <2>2
<1>12. \A d, e \in Clients : d # e /\ client'[d].pc = "send" /\ client'[e].pc = "send"
                                => client'[d].key # client'[e].key
  BY <1>9 DEF Link
<1>13. Link(g)'
  BY <1>1, <1>4, <1>5, <1>6, <1>7, <1>8, <1>11, <1>12 DEF Link, handlerVars
<1> QED
  BY <1>13 DEF LinkInv, Queries, Keys

\* A step of a client keeps what each response key is used for.
LEMMA LinkClientStep ==
    ASSUME IInv, LinkInv, NEW c \in Clients, ClientStep(c)
    PROVE  LinkInv'
<1>f. PICK f \in [Queries -> Keys] : Link(f)
  BY DEF LinkInv
<1>k. Link(f)' => LinkInv'
  BY <1>f DEF LinkInv, Queries, Keys
<1>0. /\ TypeOK /\ client[c].key \in Keys /\ MaxQueries \in Nat
      /\ client \in [Clients -> ClientRecord] /\ client[c] \in ClientRecord
      /\ resp \in [Keys -> Seq(Responses)]
      /\ ClientLink(f, client[c])
  <2>1. client \in [Clients -> ClientRecord] /\ TypeOK
    BY DEF IInv, TypeOK, ClientRecord
  <2>2. client[c] \in ClientRecord
    BY <2>1
  <2>3. client[c].key \in Keys
    BY <2>2 DEF ClientRecord
  <2> QED
    BY <1>f, <2>1, <2>2, <2>3, Numbers DEF Link, TypeOK
<1>7. Idle.key <= clock /\ ClientLink(f, Idle) /\ Idle.pc # "send" /\ Idle.result = Error
  <2>1. 0 <= clock
    BY <1>0 DEF TypeOK, Keys
  <2> QED
    BY <2>1 DEF Idle, Error, ClientLink
<1>1. CASE Ask(c)
  BY <1>f, <1>k, <1>1, LinkAsk
<1>2. CASE Send(c)
  <2> DEFINE rec == [client[c] EXCEPT !.pc = "wait", !.q = issued']
  <2>1. /\ PushRequest(c) /\ client[c].pc = "send" /\ client' = [client EXCEPT ![c] = rec]
        /\ UNCHANGED <<clock, resp, handlerVars, executed>>
    BY <1>2 DEF Send
  <2>2. /\ rec.pc = "wait" /\ rec.q = issued' /\ rec.key = client[c].key
        /\ rec.result = client[c].result
    BY <1>0 DEF ClientRecord
  <2>3. rec.key <= clock /\ rec.result = Error
    BY <1>0, <2>1, <2>2 DEF ClientLink
  <2> HIDE DEF rec
  <2> QED
    BY <1>f, <2>1, <2>2, <2>3, LinkPush
<1>3. CASE SendFails(c)
  <2>1. /\ client[c].pc = "send" /\ client' = [client EXCEPT ![c] = Idle]
        /\ UNCHANGED <<clock, resp, handlerVars, executed>>
    BY <1>3 DEF SendFails
  <2>2. Idle.pc = "idle"
    BY DEF Idle
  <2>3. CASE PushRequest(c)
    BY <1>f, <1>7, <2>1, <2>2, <2>3, LinkPush
  <2>4. CASE UNCHANGED <<issued, readQueue>>
    BY <1>f, <1>k, <1>0, <1>7, <2>1, <2>4, LinkClient
  <2> QED
    BY <1>3, <2>3, <2>4 DEF SendFails
<1>4. CASE Receive(c)
  <2> DEFINE k == client[c].key
             rec == [client[c] EXCEPT !.pc = "clean", !.result = Head(resp[k])]
  <2>1. /\ client[c].pc = "wait" /\ resp[k] # <<>> /\ resp' = [resp EXCEPT ![k] = Tail(@)]
        /\ client' = [client EXCEPT ![c] = rec]
        /\ UNCHANGED <<clock, issued, readQueue, handlerVars, executed>>
    BY <1>4 DEF Receive
  <2>2. /\ resp[k] \in Seq(Responses) /\ Head(resp[k]) = resp[k][1]
        /\ Len(resp[k]) \in Nat \ {0} /\ Len(Tail(resp[k])) = Len(resp[k]) - 1
        /\ \A i \in 1..Len(Tail(resp[k])) : Tail(resp[k])[i] = resp[k][i + 1]
    <3>1. resp[k] \in Seq(Responses)
      BY <1>0
    <3> QED
      BY <2>1, <3>1, TailElements
  <2>3. Head(resp[k]).q = client[c].q
    <3>1. f[Head(resp[k]).q] = k /\ Head(resp[k]).q \in 1..issued
      BY <1>f, <1>0, <2>2, ExecutedIssued DEF Link
    <3>2. f[client[c].q] = k /\ client[c].q \in 1..issued
      BY <1>0, <2>1 DEF ClientLink
    <3> QED
      BY <1>f, <3>1, <3>2 DEF Link
  <2>4. /\ rec.pc = "clean" /\ rec.q = client[c].q /\ rec.key = client[c].key
        /\ rec.result.q = rec.q
    BY <1>0, <2>3 DEF ClientRecord
  <2>5. \A l \in Keys : \A i \in 1..Len(resp'[l]) :
           \E j \in 1..Len(resp[l]) : resp'[l][i] = resp[l][j]
    <3> SUFFICES ASSUME NEW l \in Keys, NEW i \in 1..Len(resp'[l])
                 PROVE  \E j \in 1..Len(resp[l]) : resp'[l][i] = resp[l][j]
      OBVIOUS
    <3>1. CASE l = k
      <4>1. resp'[l] = Tail(resp[k])
        BY <1>0, <2>1, <3>1
      <4>2. i + 1 \in 1..Len(resp[k]) /\ resp'[l][i] = resp[k][i + 1]
        BY <2>2, <4>1
      <4> QED
        BY <3>1, <4>2
    <3>2. CASE l # k
      BY <1>0, <2>1, <3>2
    <3> QED
      BY <3>1, <3>2
  <2> HIDE DEF rec, k
  <2>6. ClientLink(f, rec)
    BY <1>0, <2>1, <2>4 DEF ClientLink
  <2> QED
    BY <1>f, <1>k, <1>0, <2>1, <2>4, <2>5, <2>6, LinkClient
<1>5. CASE GiveUp(c)
  <2> DEFINE rec == [client[c] EXCEPT !.pc = "clean"]
  <2>1. /\ client[c].pc = "wait" /\ client' = [client EXCEPT ![c] = rec]
        /\ UNCHANGED <<clock, issued, readQueue, resp, handlerVars, executed>>
    BY <1>5 DEF GiveUp, redisVars
  <2>2. /\ rec.pc = "clean" /\ rec.q = client[c].q /\ rec.key = client[c].key
        /\ rec.result = client[c].result
    BY <1>0 DEF ClientRecord
  <2> HIDE DEF rec
  <2>3. ClientLink(f, rec)
    BY <1>0, <2>1, <2>2 DEF ClientLink
  <2> QED
    BY <1>f, <1>k, <1>0, <2>1, <2>2, <2>3, LinkClient
<1>6. CASE Return(c)
  <2> DEFINE rec == [client[c] EXCEPT !.pc = "idle"]
  <2>1. /\ client' = [client EXCEPT ![c] = rec]
        /\ resp' = [resp EXCEPT ![client[c].key] = <<>>]
        /\ UNCHANGED <<clock, issued, readQueue, handlerVars, executed>>
    BY <1>6 DEF Return
  <2>2. /\ rec.pc = "idle" /\ rec.q = client[c].q /\ rec.key = client[c].key
        /\ rec.result = client[c].result
    BY <1>0 DEF ClientRecord
  <2>3. \A l \in Keys : resp'[l] = <<>> \/ resp'[l] = resp[l]
    BY <1>0, <2>1
  <2>4. \A l \in Keys : \A i \in 1..Len(resp'[l]) :
           \E j \in 1..Len(resp[l]) : resp'[l][i] = resp[l][j]
    BY <2>3
  <2> HIDE DEF rec
  <2>5. ClientLink(f, rec)
    BY <1>0, <2>2 DEF ClientLink
  <2> QED
    BY <1>f, <1>k, <1>0, <2>1, <2>2, <2>4, <2>5, LinkClient
<1>8. CASE ClientDies(c)
  <2>1. /\ client' = [client EXCEPT ![c] = Idle]
        /\ UNCHANGED <<clock, issued, readQueue, resp, handlerVars, executed>>
    BY <1>8 DEF ClientDies, redisVars
  <2> QED
    BY <1>f, <1>k, <1>0, <1>7, <2>1, LinkClient
<1> QED
  BY <1>1, <1>2, <1>3, <1>4, <1>5, <1>6, <1>8 DEF ClientStep

\* A goroutine answers under the key of its own request.
LEMMA LinkReaderStep ==
    ASSUME IInv, LinkInv, NEW r \in readers, ReaderStep(r)
    PROVE  LinkInv'
<1>f. PICK f \in [Queries -> Keys] : Link(f)
  BY DEF LinkInv
<1>0. /\ r \in Reader /\ r.key \in Keys /\ r.q \in Queries /\ r.data \in BOOLEAN
      /\ r.key = f[r.q]
      /\ r.pc = "respond" => r.q \in executed
      /\ resp \in [Keys -> Seq(Responses)]
  BY <1>f DEF IInv, TypeOK, Reader, Link
<1>9. UNCHANGED <<clock, issued, client>>
  BY DEF ReaderStep, DecodeFails, RunQuery, Respond, RespondFails, Expire, ExpireFails, Release
<1>10. \A d \in Clients : ClientLink(f, client[d])'
  BY <1>f, <1>9 DEF Link, ClientLink
<1>k. Link(f)' => LinkInv'
  BY <1>f DEF LinkInv, Queries, Keys
\* A step of r that adds no response.
<1>1. ASSUME NEW s, s.q = r.q, s.key = r.key, s.pc = "respond" => s.q \in executed',
             readers' \subseteq readers \cup {s}, executed \subseteq executed',
             UNCHANGED <<clock, issued, client, readQueue, held, resp>>
      PROVE  LinkInv'
  <2>1. Link(f)'
    BY <1>f, <1>0, <1>1, <1>10 DEF Link
  <2> QED
    BY <1>k, <2>1
<1>2. CASE DecodeFails(r)
  <2> DEFINE s == [r EXCEPT !.pc = "release"]
  <2>1. s.q = r.q /\ s.key = r.key /\ s.pc # "respond"
    BY <1>0 DEF Reader
  <2> QED
    BY <1>1, <1>2, <2>1 DEF DecodeFails, MoveReader, redisVars
<1>3. CASE RunQuery(r)
  <2>1. PICK data \in BOOLEAN : MoveReader(r, [r EXCEPT !.pc = "respond", !.data = data])
    BY <1>3 DEF RunQuery
  <2> DEFINE s == [r EXCEPT !.pc = "respond", !.data = data]
  <2>2. s.q = r.q /\ s.key = r.key
    BY <1>0 DEF Reader
  <2>3. executed' = executed \cup {r.q}
    BY <1>3 DEF RunQuery
  <2> QED
    BY <1>1, <1>3, <2>1, <2>2, <2>3 DEF RunQuery, MoveReader, redisVars
<1>4. CASE Respond(r)
  <2> DEFINE s == [r EXCEPT !.pc = "expire"]
             a == ResponseOf(r)
  <2>1. s.q = r.q /\ s.key = r.key /\ s.pc # "respond"
    BY <1>0 DEF Reader
  <2>2. /\ resp' = [resp EXCEPT ![r.key] = Append(@, a)]
        /\ readers' = (readers \ {r}) \cup {s} /\ r.q \in executed
        /\ UNCHANGED <<clock, issued, client, readQueue, held, executed>>
    BY <1>0, <1>4 DEF Respond, MoveReader
  <2>3. a \in Responses /\ resp[r.key] \in Seq(Responses)
    BY <1>0 DEF Responses, Reader, ResponseOf
  <2>4. /\ Len(Append(resp[r.key], a)) = Len(resp[r.key]) + 1 /\ Len(resp[r.key]) \in Nat
        /\ \A i \in 1..Len(resp[r.key]) : Append(resp[r.key], a)[i] = resp[r.key][i]
        /\ Append(resp[r.key], a)[Len(resp[r.key]) + 1] = a
    BY <2>3, AppendElements
  <2>5. \A i \in 1..Len(resp'[r.key]) :
           f[resp'[r.key][i].q] = r.key /\ resp'[r.key][i].q \in executed
    <3>1. resp'[r.key] = Append(resp[r.key], a)
      BY <1>0, <2>2
    <3>2. a.q = r.q
      BY DEF ResponseOf
    <3> QED
      BY <1>f, <1>0, <2>2, <2>4, <3>1, <3>2 DEF Link
  <2>6. \A k \in Keys : k # r.key => resp'[k] = resp[k]
    BY <1>0, <2>2
  <2>7. \A k \in Keys : \A i \in 1..Len(resp'[k]) :
           f[resp'[k][i].q] = k /\ resp'[k][i].q \in executed
    BY <1>f, <1>0, <2>5, <2>6 DEF Link
  <2>8. \A t \in readers' : t.key = f[t.q] /\ (t.pc = "respond" => t.q \in executed)
    BY <1>f, <1>0, <2>1, <2>2 DEF Link
  <2>9. Link(f)'
    BY <1>f, <1>10, <2>2, <2>7, <2>8 DEF Link
  <2> QED
    BY <1>k, <2>9
<1>5. CASE RespondFails(r)
  <2> DEFINE s == [r EXCEPT !.pc = "expire"]
  <2>1. s.q = r.q /\ s.key = r.key /\ s.pc # "respond"
    BY <1>0 DEF Reader
  <2> QED
    BY <1>1, <1>5, <2>1 DEF RespondFails, MoveReader, redisVars
<1>6. CASE Expire(r)
  <2> DEFINE s == [r EXCEPT !.pc = "release"]
  <2>1. s.q = r.q /\ s.key = r.key /\ s.pc # "respond"
    BY <1>0 DEF Reader
  <2> QED
    BY <1>1, <1>6, <2>1 DEF Expire, MoveReader
<1>7. CASE ExpireFails(r)
  <2> DEFINE s == [r EXCEPT !.pc = "release"]
  <2>1. s.q = r.q /\ s.key = r.key /\ s.pc # "respond"
    BY <1>0 DEF Reader
  <2> QED
    BY <1>1, <1>7, <2>1 DEF ExpireFails, MoveReader, redisVars
<1>8. CASE Release(r)
  <2>1. Link(f)'
    BY <1>f, <1>8, <1>10 DEF Release, Link, redisVars
  <2> QED
    BY <1>k, <2>1
<1> QED
  BY <1>2, <1>3, <1>4, <1>5, <1>6, <1>7, <1>8 DEF ReaderStep

\* A step outside the clients keeps what they know of their keys.
LEMMA LinkOthers ==
    ASSUME NEW f, Link(f), UNCHANGED <<clock, issued, client>>
    PROVE  \A d \in Clients : ClientLink(f, client[d])'
  BY DEF Link, ClientLink

\* Every step keeps what each key is used for.
LEMMA LinkInductive ==
    ASSUME IInv, LinkInv, [Next]_vars
    PROVE  LinkInv'
<1>f. PICK f \in [Queries -> Keys] : Link(f)
  BY DEF LinkInv
<1>k. Link(f)' => LinkInv'
  BY <1>f DEF LinkInv, Queries, Keys
<1>1. CASE \E c \in Clients : ClientStep(c)
  BY <1>1, LinkClientStep
<1>2. CASE Pop
  <2>1. /\ TypeOK /\ readQueue # <<>>
        /\ held' = <<Head(readQueue)>> /\ readQueue' = Tail(readQueue)
        /\ UNCHANGED <<clock, issued, client, resp, readers, executed>>
    BY <1>2 DEF IInv, Pop
  <2>2. /\ Head(readQueue) = readQueue[1] /\ Len(readQueue) \in Nat \ {0}
        /\ Len(readQueue') = Len(readQueue) - 1
        /\ \A i \in 1..Len(readQueue') : readQueue'[i] = readQueue[i + 1]
    BY <2>1, TailElements DEF TypeOK
  <2>3. Len(held') = 1 /\ held'[1] = readQueue[1]
    BY <2>1, <2>2
  <2>4. \A d \in Clients : ClientLink(f, client[d])'
    BY <1>f, <2>1, LinkOthers
  <2>5. Link(f)'
    BY <1>f, <2>1, <2>2, <2>3, <2>4 DEF Link
  <2> QED
    BY <1>k, <2>5
<1>8. CASE PopLost
  <2>1. /\ TypeOK /\ readQueue # <<>> /\ readQueue' = Tail(readQueue)
        /\ UNCHANGED <<clock, issued, client, resp, held, readers, executed>>
    BY <1>8 DEF IInv, PopLost, handlerVars
  <2>2. /\ Len(readQueue) \in Nat \ {0} /\ Len(readQueue') = Len(readQueue) - 1
        /\ \A i \in 1..Len(readQueue') : readQueue'[i] = readQueue[i + 1]
    BY <2>1, TailElements DEF TypeOK
  <2>3. \A d \in Clients : ClientLink(f, client[d])'
    BY <1>f, <2>1, LinkOthers
  <2>4. Link(f)'
    BY <1>f, <2>1, <2>2, <2>3 DEF Link
  <2> QED
    BY <1>k, <2>4
<1>3. CASE StartReader
  <2> DEFINE r == [q |-> held[1].q, key |-> held[1].key, data |-> FALSE, pc |-> "query"]
  <2>1. /\ TypeOK /\ held # <<>> /\ held' = <<>> /\ readers' = readers \cup {r}
        /\ UNCHANGED <<clock, issued, client, readQueue, resp, executed>>
    BY <1>3 DEF IInv, StartReader, redisVars
  <2>2. Len(held) = 1
    BY <2>1, Numbers
  <2>3. r.key = f[r.q] /\ r.pc # "respond"
    BY <1>f, <2>2 DEF Link
  <2>4. \A s \in readers' : s.key = f[s.q] /\ (s.pc = "respond" => s.q \in executed)
    BY <1>f, <2>1, <2>3 DEF Link
  <2>5. Len(held') = 0
    BY <2>1
  <2>6. \A d \in Clients : ClientLink(f, client[d])'
    BY <1>f, <2>1, LinkOthers
  <2>7. Link(f)'
    BY <1>f, <2>1, <2>4, <2>5, <2>6 DEF Link
  <2> QED
    BY <1>k, <2>7
<1>4. CASE \E r \in readers : ReaderStep(r)
  BY <1>4, LinkReaderStep
<1>5. CASE HandlerRestarts
  <2>1. /\ held' = <<>> /\ readers' = {}
        /\ UNCHANGED <<clock, issued, client, readQueue, resp, executed>>
    BY <1>5 DEF HandlerRestarts, redisVars
  <2>2. Len(held') = 0 /\ \A d \in Clients : ClientLink(f, client[d])'
    BY <1>f, <2>1, LinkOthers
  <2>3. Link(f)'
    BY <1>f, <2>1, <2>2 DEF Link
  <2> QED
    BY <1>k, <2>3
<1>6. CASE \E k \in Keys : KeyExpires(k)
  <2>1. PICK k \in Keys : KeyExpires(k)
    BY <1>6
  <2>2. \A l \in Keys : resp'[l] = <<>> \/ resp'[l] = resp[l]
    BY <2>1 DEF KeyExpires, IInv, TypeOK
  <2>3. UNCHANGED <<clock, issued, client, readQueue, held, readers, executed>>
    BY <2>1 DEF KeyExpires, handlerVars
  <2>4. \A d \in Clients : ClientLink(f, client[d])'
    BY <1>f, <2>3, LinkOthers
  <2>5. Link(f)'
    BY <1>f, <2>2, <2>3, <2>4 DEF Link
  <2> QED
    BY <1>k, <2>5
<1>7. CASE UNCHANGED vars
  <2>1. Link(f)'
    BY <1>f, <1>7, LinkOthers DEF Link, vars
  <2> QED
    BY <1>k, <2>1
<1> QED
  BY <1>1, <1>2, <1>3, <1>4, <1>5, <1>6, <1>7, <1>8 DEF Next, Quiet

\* At the start no key is in use.
LEMMA LinkInit == Init => LinkInv
<1> SUFFICES ASSUME Init PROVE LinkInv
  OBVIOUS
<1>1. \A k \in Keys : Len(resp[k]) = 0
  BY DEF Init
<1>2. 0 \in Keys
  BY ReadsAssumption DEF ReadsAssumption, Keys
<1> DEFINE f == [q \in Queries |-> 0]
<1>3. f \in [Queries -> Keys]
  BY <1>2
<1> HIDE DEF f
<1>4. \A q \in 1..issued : FALSE
  BY DEF Init
<1>5. ClientLink(f, Idle) /\ Idle.pc # "send"
  BY <1>4 DEF Init, Idle, Error, ClientLink
<1>6. \A c \in Clients : client[c] = Idle
  BY DEF Init
<1>7. Link(f)
  BY <1>1, <1>4, <1>5, <1>6 DEF Init, Link
<1> QED
  BY <1>3, <1>7 DEF LinkInv

\* A client never gets the response to a query other than the one it issued,
\* whatever fails and however late the responses to other queries come.
THEOREM OwnAnswers == Spec => []AnswersOwnQuery
<1>1. Init => IInv /\ LinkInv
  BY InitIInv, LinkInit
<1>2. IInv /\ LinkInv /\ [Next]_vars => (IInv /\ LinkInv)'
  BY Inductive, LinkInductive
<1>3. LinkInv => AnswersOwnQuery
  BY DEF LinkInv, Link, ClientLink, AnswersOwnQuery
<1> QED
  BY <1>1, <1>2, <1>3, PTL DEF Spec

-----------------------------------------------------------------------------
(* Refinement                                                              *)

\* What the clients wait for and what data they have, as the query service
\* sees them.
WaitingFor(rec) == IF rec.pc = "wait" THEN rec.q ELSE 0
AnswerOf(rec)   == IF rec.result.data THEN rec.result.q ELSE 0

Waiting == [c \in Clients |-> WaitingFor(client[c])]
Answers == [c \in Clients |-> AnswerOf(client[c])]

\* A step of one client changes one entry of the service's view.
LEMMA ViewOfClient ==
    ASSUME TypeOK, NEW c \in Clients, NEW rec, client' = [client EXCEPT ![c] = rec]
    PROVE  /\ Waiting' = [Waiting EXCEPT ![c] = WaitingFor(rec)]
           /\ Answers' = [Answers EXCEPT ![c] = AnswerOf(rec)]
<1>1. client' = [d \in Clients |-> IF d = c THEN rec ELSE client[d]]
  BY DEF TypeOK
<1> QED
  BY <1>1 DEF Waiting, Answers

\* A step of a client is a step of the query service, or none.
LEMMA RefinesClientStep ==
    ASSUME IInv, LinkInv, NEW c \in Clients, ClientStep(c)
    PROVE  [ServiceView!Next]_(ServiceView!svars)
<1> USE DEF Waiting, Answers, WaitingFor, AnswerOf
<1>f. PICK f \in [Queries -> Keys] : Link(f)
  BY DEF LinkInv
<1>0. /\ TypeOK /\ Error.data = FALSE
      /\ client \in [Clients -> ClientRecord] /\ client[c] \in ClientRecord
      /\ client[c].pc \in {"send", "wait"} => client[c].result = Error
      /\ ClientLink(f, client[c])
  BY <1>f DEF IInv, TypeOK, ClientRecord, Link, ClientLink, Error
<1>1. CASE Ask(c)
  <2> DEFINE rec == [pc |-> "send", q |-> 0, key |-> clock', result |-> Error]
  <2>1. /\ client' = [client EXCEPT ![c] = rec] /\ UNCHANGED <<issued, executed>>
    BY <1>1 DEF Ask, ResponseKey
  <2>2. /\ Waiting' = [Waiting EXCEPT ![c] = 0]
        /\ Answers' = [Answers EXCEPT ![c] = 0]
    BY <1>0, <2>1, ViewOfClient
  <2>3. ServiceView!Fail(c)
    BY <2>1, <2>2 DEF ServiceView!Fail
  <2> QED
    BY <2>3 DEF ServiceView!Next
<1>2. CASE Send(c)
  <2> DEFINE rec == [client[c] EXCEPT !.pc = "wait", !.q = issued']
  <2>1. /\ issued' = issued + 1 /\ issued < MaxQueries /\ client[c].pc = "send"
        /\ client' = [client EXCEPT ![c] = rec] /\ executed' = executed
    BY <1>2 DEF Send, PushRequest
  <2>2. rec.pc = "wait" /\ rec.q = issued' /\ rec.result = Error
    BY <1>0, <2>1 DEF ClientRecord
  <2>3. /\ Waiting' = [Waiting EXCEPT ![c] = issued']
        /\ Answers' = [Answers EXCEPT ![c] = 0]
    <3> HIDE DEF rec
    <3> QED
      BY <1>0, <2>1, <2>2, ViewOfClient
  <2>4. ServiceView!Ask(c)
    BY <2>1, <2>3 DEF ServiceView!Ask
  <2> QED
    BY <2>4 DEF ServiceView!Next
<1>7. CASE SendFails(c)
  <2>1. /\ client[c].pc = "send" /\ client' = [client EXCEPT ![c] = Idle]
        /\ executed' = executed
    BY <1>7 DEF SendFails
  <2>2. /\ Waiting' = [Waiting EXCEPT ![c] = 0]
        /\ Answers' = [Answers EXCEPT ![c] = 0]
    BY <1>0, <2>1, ViewOfClient DEF Idle
  <2>3. CASE PushRequest(c)
    <3>1. Waiting' = Waiting
      BY <2>1, <2>2
    <3>2. ServiceView!Ask(c)
      BY <2>1, <2>2, <2>3, <3>1 DEF ServiceView!Ask, PushRequest
    <3> QED
      BY <3>2 DEF ServiceView!Next
  <2>4. CASE issued' = issued
    <3>1. ServiceView!Fail(c)
      BY <2>1, <2>2, <2>4 DEF ServiceView!Fail
    <3> QED
      BY <3>1 DEF ServiceView!Next
  <2> QED
    BY <1>7, <2>3, <2>4 DEF SendFails
<1>3. CASE Receive(c)
  <2> DEFINE k == client[c].key
             rec == [client[c] EXCEPT !.pc = "clean", !.result = Head(resp[k])]
  <2>1. /\ client[c].pc = "wait" /\ resp[k] # <<>>
        /\ client' = [client EXCEPT ![c] = rec]
        /\ UNCHANGED <<issued, executed>>
    BY <1>3 DEF Receive
  <2>2. k \in Keys /\ k = f[client[c].q] /\ client[c].q \in 1..issued
    BY <1>0, <2>1 DEF ClientRecord, ClientLink
  <2>3. /\ resp[k] \in Seq(Responses) /\ Head(resp[k]) \in Responses
        /\ Head(resp[k]) = resp[k][1] /\ 1 \in 1..Len(resp[k])
    <3>1. resp[k] \in Seq(Responses)
      BY <1>0, <2>2 DEF TypeOK
    <3> QED
      BY <2>1, <3>1, TailElements
  <2>4. Head(resp[k]).q = client[c].q /\ client[c].q \in executed
    <3>1. f[Head(resp[k]).q] = k /\ Head(resp[k]).q \in executed
      BY <1>f, <2>2, <2>3 DEF Link
    <3> QED
      BY <1>f, <2>2, <3>1, ExecutedIssued DEF Link
  <2>5. rec.pc = "clean" /\ rec.result = Head(resp[k])
    BY <1>0 DEF ClientRecord
  <2>6. /\ Waiting' = [Waiting EXCEPT ![c] = 0]
        /\ Answers' = [Answers EXCEPT ![c] = IF Head(resp[k]).data THEN client[c].q ELSE 0]
    <3> HIDE DEF rec, k
    <3>1. WaitingFor(rec) = 0
      BY <2>5
    <3>2. AnswerOf(rec) = IF Head(resp[k]).data THEN client[c].q ELSE 0
      BY <2>4, <2>5
    <3> HIDE DEF WaitingFor, AnswerOf, Waiting, Answers
    <3>3. /\ Waiting' = [Waiting EXCEPT ![c] = WaitingFor(rec)]
          /\ Answers' = [Answers EXCEPT ![c] = AnswerOf(rec)]
      BY <1>0, <2>1, ViewOfClient
    <3> QED
      BY <3>1, <3>2, <3>3
  <2>7. Waiting[c] = client[c].q
    BY <2>1
  <2>8. CASE Head(resp[k]).data
    <3>1. ServiceView!Answer(c)
      BY <2>1, <2>4, <2>6, <2>7, <2>8 DEF ServiceView!Answer
    <3> QED
      BY <3>1 DEF ServiceView!Next
  <2>9. CASE ~Head(resp[k]).data
    <3>1. ServiceView!Fail(c)
      BY <2>1, <2>6, <2>9 DEF ServiceView!Fail
    <3> QED
      BY <3>1 DEF ServiceView!Next
  <2> QED
    BY <2>8, <2>9
<1>4. CASE GiveUp(c)
  <2> DEFINE rec == [client[c] EXCEPT !.pc = "clean"]
  <2>1. /\ client[c].pc = "wait" /\ client' = [client EXCEPT ![c] = rec]
        /\ UNCHANGED <<issued, executed>>
    BY <1>4 DEF GiveUp
  <2>2. rec.pc = "clean" /\ rec.result = Error
    BY <1>0, <2>1 DEF ClientRecord
  <2>3. /\ Waiting' = [Waiting EXCEPT ![c] = 0]
        /\ Answers' = [Answers EXCEPT ![c] = 0]
    <3> HIDE DEF rec
    <3> QED
      BY <1>0, <2>1, <2>2, ViewOfClient
  <2>4. ServiceView!Fail(c)
    BY <2>1, <2>3 DEF ServiceView!Fail
  <2> QED
    BY <2>4 DEF ServiceView!Next
<1>5. CASE Return(c)
  <2> DEFINE rec == [client[c] EXCEPT !.pc = "idle"]
  <2>1. /\ client[c].pc = "clean" /\ client' = [client EXCEPT ![c] = rec]
        /\ UNCHANGED <<issued, executed>>
    BY <1>5 DEF Return
  <2>2. rec.pc = "idle" /\ rec.result = client[c].result
    BY <1>0 DEF ClientRecord
  <2>3. Waiting' = Waiting /\ Answers' = Answers
    <3>1. /\ Waiting' = [Waiting EXCEPT ![c] = 0]
          /\ Answers' = [Answers EXCEPT ![c] = Answers[c]]
      <4> HIDE DEF rec
      <4> QED
        BY <1>0, <2>1, <2>2, ViewOfClient
    <3> QED
      BY <2>1, <3>1
  <2> QED
    BY <2>1, <2>3 DEF ServiceView!svars
<1>6. CASE ClientDies(c)
  <2>1. client' = [client EXCEPT ![c] = Idle] /\ UNCHANGED <<issued, executed>>
    BY <1>6 DEF ClientDies
  <2>2. /\ Waiting' = [Waiting EXCEPT ![c] = 0]
        /\ Answers' = [Answers EXCEPT ![c] = 0]
    BY <1>0, <2>1, ViewOfClient DEF Idle
  <2>3. ServiceView!Fail(c)
    BY <2>1, <2>2 DEF ServiceView!Fail
  <2> QED
    BY <2>3 DEF ServiceView!Next
<1> QED
  BY <1>1, <1>2, <1>3, <1>4, <1>5, <1>6, <1>7 DEF ClientStep

\* A step that changes neither a client nor what was issued or executed.
LEMMA Stutters ==
    ASSUME UNCHANGED <<client, issued, executed>>
    PROVE  UNCHANGED ServiceView!svars
  BY DEF ServiceView!svars

\* A goroutine executes its query, and is otherwise out of the service's
\* sight.
LEMMA RefinesReaderStep ==
    ASSUME IInv, NEW r \in readers, ReaderStep(r)
    PROVE  [ServiceView!Next]_(ServiceView!svars)
<1>1. CASE RunQuery(r)
  <2>1. UNCHANGED <<client, issued>> /\ executed' = executed \cup {r.q}
    BY <1>1 DEF RunQuery
  <2>2. CASE r.q \in executed
    BY <2>1, <2>2, Stutters
  <2>3. CASE r.q \notin executed
    <3>1. r.q \in 1..issued /\ r.q \in 1..MaxQueries
      BY Numbers DEF IInv, IssuedBounds, Queries
    <3>2. ServiceView!Execute(r.q)
      BY <2>1, <2>3, <3>1 DEF ServiceView!Execute
    <3> QED
      BY <3>1, <3>2 DEF ServiceView!Next
  <2> QED
    BY <2>2, <2>3
<1>2. CASE ~RunQuery(r)
  BY <1>2, Stutters DEF ReaderStep, DecodeFails, Respond, RespondFails, Expire, ExpireFails,
     Release
<1> QED
  BY <1>1, <1>2

\* The read path implements the query service: no query is executed that was
\* not asked, no client gets data but that of the query it waits for, after
\* its execution, whatever fails on the way.
THEOREM Refines == Spec => ServiceSpec
<1>1. Init => ServiceView!Init
  <2> SUFFICES ASSUME Init PROVE ServiceView!Init
    OBVIOUS
  <2>1. \A c \in Clients : client[c] = Idle
    BY DEF Init
  <2>2. Idle.pc = "idle" /\ Idle.result.data = FALSE
    BY DEF Idle, Error
  <2>3. /\ Waiting = [c \in Clients |-> 0]
        /\ Answers = [c \in Clients |-> 0]
    BY <2>1, <2>2 DEF Waiting, Answers, WaitingFor, AnswerOf
  <2> QED
    BY <2>3 DEF Init, ServiceView!Init, Waiting, Answers, WaitingFor, AnswerOf
<1>2. IInv /\ LinkInv /\ [Next]_vars => [ServiceView!Next]_(ServiceView!svars)
  <2> SUFFICES ASSUME IInv, LinkInv, [Next]_vars
               PROVE  [ServiceView!Next]_(ServiceView!svars)
    OBVIOUS
  <2>1. CASE \E c \in Clients : ClientStep(c)
    BY <2>1, RefinesClientStep
  <2>2. CASE \E r \in readers : ReaderStep(r)
    BY <2>2, RefinesReaderStep
  <2>3. CASE Pop \/ PopLost \/ StartReader \/ HandlerRestarts \/ \E k \in Keys : KeyExpires(k)
    BY <2>3, Stutters DEF Pop, PopLost, StartReader, HandlerRestarts, KeyExpires
  <2>4. CASE UNCHANGED vars
    BY <2>4, Stutters DEF vars
  <2> QED
    BY <2>1, <2>2, <2>3, <2>4 DEF Next, Quiet
<1>3. Spec => [](IInv /\ LinkInv)
  <2>1. Init => IInv /\ LinkInv
    BY InitIInv, LinkInit
  <2>2. IInv /\ LinkInv /\ [Next]_vars => (IInv /\ LinkInv)'
    BY Inductive, LinkInductive
  <2> QED
    BY <2>1, <2>2, PTL DEF Spec
<1> QED
  BY <1>1, <1>2, <1>3, PTL DEF Spec, ServiceSpec, ServiceView!Spec
=============================================================================
