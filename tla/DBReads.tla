------------------------------ MODULE DBReads ------------------------------
(***************************************************************************)
(* The read path of the DB handler: DBJobQueueClient.Query (the Go client  *)
(* in Services/DB_Client.go; the Python one of drift_detection.py follows  *)
(* the same protocol) pushes a request on the Redis list duckdb_read_queue *)
(* and waits on a response key of its own; processReads pops the requests, *)
(* takes one of MaxReads slots and starts a goroutine, which runs the      *)
(* query, pushes the response on the key and gives the key a TTL.          *)
(*                                                                         *)
(* A query is its number in the order the requests were pushed; its text   *)
(* and its rows are left out.  A response is the number of the query it    *)
(* answers and whether it carries data or an error.                        *)
(*                                                                         *)
(* The clock is taken to move between any two calls that read it: it has   *)
(* nanoseconds, and a call does far more than read it.                     *)
(***************************************************************************)
EXTENDS Integers, Sequences, FiniteSets

CONSTANTS
    Clients,      \* goroutines, threads or processes that call Query
    MaxReads,     \* capacity of the channel maxReads (50 in the code)
    MaxQueries,   \* bound on the number of calls of Query
    Faults        \* the failures that may happen, see FaultKinds

\* send     the client's RPush returns an error, applied by Redis or not
\* pop      the reply to the handler's BLPop is lost, the request with it
\* decode   the payload is not a ReadRequest
\* respond  the handler's RPush of the response fails (its error is ignored)
\* expire   the handler's Expire fails (its error is ignored)
\* handler  the handler's process dies and is started again
\* client   a client dies before it deletes its response key
FaultKinds == {"send", "pop", "decode", "respond", "expire", "handler", "client"}

ASSUME ReadsAssumption ==
    /\ MaxReads \in Nat \ {0}
    /\ MaxQueries \in Nat
    /\ Faults \subseteq FaultKinds

VARIABLES
    clock,        \* time.Now().UnixNano(), one tick for each call of Query
    issued,       \* number of requests pushed so far
    client,       \* each client's call: pc, query, response key, result
    readQueue,    \* the Redis list duckdb_read_queue
    resp,         \* the Redis list under each response key
    ttl,          \* the response keys that have a TTL
    held,         \* the payload popped and not yet given to a goroutine
    slots,        \* number of tokens in the channel maxReads
    readers,      \* the running goroutines
    executed      \* the queries DuckDB has run

vars == <<clock, issued, client, readQueue, resp, ttl, held, slots, readers,
          executed>>

handlerVars == <<held, slots, readers>>
redisVars   == <<readQueue, resp, ttl>>

Queries   == 1..MaxQueries
Keys      == 0..MaxQueries
Requests  == [q : Queries, key : Keys]
Responses == [q : Queries, data : BOOLEAN]

\* What Query returned: nothing yet, an error of its own, or a response.
Error   == [q |-> 0, data |-> FALSE]
Results == Responses \cup {Error}

\* A client that is not in Query; its last result is kept.
Idle == [pc |-> "idle", q |-> 0, key |-> 0, result |-> Error]

TypeOK ==
    /\ clock \in Keys
    /\ issued \in 0..MaxQueries
    /\ client \in [Clients -> [pc : {"idle", "send", "wait", "clean"},
                               q : 0..MaxQueries, key : Keys,
                               result : Results]]
    /\ readQueue \in Seq(Requests)
    /\ resp \in [Keys -> Seq(Responses)]
    /\ ttl \subseteq Keys
    /\ held \in Seq(Requests) /\ Len(held) <= 1
    /\ slots \in 0..MaxReads
    /\ readers \subseteq [q : Queries, key : Keys, data : BOOLEAN,
                          pc : {"query", "respond", "expire", "release"}]
    /\ executed \subseteq Queries

Init == /\ clock = 0
        /\ issued = 0
        /\ client = [c \in Clients |-> Idle]
        /\ readQueue = <<>>
        /\ resp = [k \in Keys |-> <<>>]
        /\ ttl = {}
        /\ held = <<>>
        /\ slots = 0
        /\ readers = {}
        /\ executed = {}

-----------------------------------------------------------------------------
(* The client: DBJobQueueClient.Query *)

\* Mutant: every query waits under the same key.
ResponseKeyFixed(now) == 1
\* The response key of a query is the time at which it is asked.
ResponseKey(now) == now

\* Query is called: it reads the clock for its response key.
Ask(c) ==
    /\ client[c].pc = "idle"
    /\ clock < MaxQueries
    /\ clock' = clock + 1
    /\ client' = [client EXCEPT ![c] = [pc |-> "send", q |-> 0,
                                        key |-> ResponseKey(clock'),
                                        result |-> Error]]
    /\ UNCHANGED <<issued, redisVars, handlerVars, executed>>

\* Redis applies the push of c's request.  The bound never stops a call:
\* every push belongs to a call.
PushRequest(c) ==
    /\ issued < MaxQueries
    /\ issued' = issued + 1
    /\ readQueue' = Append(readQueue, [q |-> issued', key |-> client[c].key])

\* RPush returns without an error; Query goes on to wait.
Send(c) ==
    /\ client[c].pc = "send"
    /\ PushRequest(c)
    /\ client' = [client EXCEPT ![c].pc = "wait", ![c].q = issued']
    /\ UNCHANGED <<clock, resp, ttl, handlerVars, executed>>

\* RPush returns an error and Query with it, before the deferred Del is set
\* up; Redis may have applied the push and lost the reply.
SendFails(c) ==
    /\ "send" \in Faults
    /\ client[c].pc = "send"
    /\ PushRequest(c) \/ UNCHANGED <<issued, readQueue>>
    /\ client' = [client EXCEPT ![c] = Idle]
    /\ UNCHANGED <<clock, resp, ttl, handlerVars, executed>>

\* BLPop returns the first response under the client's key.  Redis removes a
\* list that becomes empty, its TTL with it.
Receive(c) ==
    LET k == client[c].key IN
    /\ client[c].pc = "wait"
    /\ resp[k] # <<>>
    /\ resp' = [resp EXCEPT ![k] = Tail(@)]
    /\ ttl' = IF Len(resp[k]) = 1 THEN ttl \ {k} ELSE ttl
    /\ client' = [client EXCEPT ![c].pc = "clean", ![c].result = Head(resp[k])]
    /\ UNCHANGED <<clock, issued, readQueue, handlerVars, executed>>

\* Mutant: BLPop without a time limit.
WaitForEver(c) == FALSE /\ UNCHANGED vars

\* BLPop ends with its 30 seconds, the caller's deadline or a Redis error.
GiveUp(c) ==
    /\ client[c].pc = "wait"
    /\ client' = [client EXCEPT ![c].pc = "clean"]
    /\ UNCHANGED <<clock, issued, redisVars, handlerVars, executed>>

\* Query returns: the deferred Del removes the response key.
Return(c) ==
    LET k == client[c].key IN
    /\ client[c].pc = "clean"
    /\ resp' = [resp EXCEPT ![k] = <<>>]
    /\ ttl' = ttl \ {k}
    /\ client' = [client EXCEPT ![c].pc = "idle"]
    /\ UNCHANGED <<clock, issued, readQueue, handlerVars, executed>>

ClientDies(c) ==
    /\ "client" \in Faults
    /\ client[c].pc # "idle"
    /\ client' = [client EXCEPT ![c] = Idle]
    /\ UNCHANGED <<clock, issued, redisVars, handlerVars, executed>>

-----------------------------------------------------------------------------
(* The handler: processReads and handleRead *)

\* Mutant: the newest request is taken first.
PopNewest ==
    /\ held = <<>>
    /\ readQueue # <<>>
    /\ held' = <<readQueue[Len(readQueue)]>>
    /\ readQueue' = SubSeq(readQueue, 1, Len(readQueue) - 1)
    /\ UNCHANGED <<clock, issued, client, resp, ttl, slots, readers, executed>>

\* BLPop takes a request; the loop holds it until it has a slot.
Pop ==
    /\ held = <<>>
    /\ readQueue # <<>>
    /\ held' = <<Head(readQueue)>>
    /\ readQueue' = Tail(readQueue)
    /\ UNCHANGED <<clock, issued, client, resp, ttl, slots, readers, executed>>

\* BLPop removes a request and its reply is lost: the loop gets an error and
\* goes on without it.
PopLost ==
    /\ "pop" \in Faults
    /\ held = <<>>
    /\ readQueue # <<>>
    /\ readQueue' = Tail(readQueue)
    /\ UNCHANGED <<clock, issued, client, resp, ttl, handlerVars, executed>>

\* Mutant: the loop does not wait for a slot.
HasSlotAlways == TRUE
\* The send on the channel maxReads goes through while it is not full.
HasSlot == slots < MaxReads

\* maxReads <- struct{}{} and the go statement.
StartReader ==
    /\ held # <<>>
    /\ HasSlot
    /\ slots' = slots + 1
    /\ readers' = readers \cup {[q |-> held[1].q, key |-> held[1].key,
                                 data |-> FALSE, pc |-> "query"]}
    /\ held' = <<>>
    /\ UNCHANGED <<clock, issued, client, redisVars, executed>>

\* The goroutine r goes on as s.
MoveReader(r, s) == readers' = (readers \ {r}) \cup {s}

\* json.Unmarshal fails: the goroutine returns, nobody is answered.
DecodeFails(r) ==
    /\ "decode" \in Faults
    /\ r.pc = "query"
    /\ MoveReader(r, [r EXCEPT !.pc = "release"])
    /\ UNCHANGED <<clock, issued, client, redisVars, held, slots, executed>>

\* handleRead runs the query; a failed query becomes an error response.
RunQuery(r) ==
    /\ r.pc = "query"
    /\ executed' = executed \cup {r.q}
    /\ \E data \in BOOLEAN :
         MoveReader(r, [r EXCEPT !.pc = "respond", !.data = data])
    /\ UNCHANGED <<clock, issued, client, redisVars, held, slots>>

ResponseOf(r) == [q |-> r.q, data |-> r.data]

\* Mutant: no Expire after the RPush.
RespondOnly(r) ==
    /\ r.pc = "respond"
    /\ resp' = [resp EXCEPT ![r.key] = Append(@, ResponseOf(r))]
    /\ MoveReader(r, [r EXCEPT !.pc = "release"])
    /\ UNCHANGED <<clock, issued, client, readQueue, ttl, held, slots, executed>>

\* sendReadResponse, first call: RPush.
Respond(r) ==
    /\ r.pc = "respond"
    /\ resp' = [resp EXCEPT ![r.key] = Append(@, ResponseOf(r))]
    /\ MoveReader(r, [r EXCEPT !.pc = "expire"])
    /\ UNCHANGED <<clock, issued, client, readQueue, ttl, held, slots, executed>>

RespondFails(r) ==
    /\ "respond" \in Faults
    /\ r.pc = "respond"
    /\ MoveReader(r, [r EXCEPT !.pc = "expire"])
    /\ UNCHANGED <<clock, issued, client, redisVars, held, slots, executed>>

\* sendReadResponse, second call: Expire, without effect on a missing key.
Expire(r) ==
    /\ r.pc = "expire"
    /\ ttl' = IF resp[r.key] # <<>> THEN ttl \cup {r.key} ELSE ttl
    /\ MoveReader(r, [r EXCEPT !.pc = "release"])
    /\ UNCHANGED <<clock, issued, client, readQueue, resp, held, slots, executed>>

ExpireFails(r) ==
    /\ "expire" \in Faults
    /\ r.pc = "expire"
    /\ MoveReader(r, [r EXCEPT !.pc = "release"])
    /\ UNCHANGED <<clock, issued, client, redisVars, held, slots, executed>>

\* Mutant: the receive from maxReads is forgotten.
ReleaseNothing(r) ==
    /\ r.pc = "release"
    /\ readers' = readers \ {r}
    /\ UNCHANGED <<clock, issued, client, redisVars, held, slots, executed>>

\* The goroutine ends: its deferred receive from maxReads.
Release(r) ==
    /\ r.pc = "release"
    /\ slots' = slots - 1
    /\ readers' = readers \ {r}
    /\ UNCHANGED <<clock, issued, client, redisVars, held, executed>>

\* The process dies with its goroutines and the payload it holds; it starts
\* again with an empty channel.
HandlerRestarts ==
    /\ "handler" \in Faults
    /\ held # <<>> \/ readers # {}
    /\ held' = <<>>
    /\ readers' = {}
    /\ slots' = 0
    /\ UNCHANGED <<clock, issued, client, redisVars, executed>>

-----------------------------------------------------------------------------
(* Redis *)

\* The TTL of a response key ends.  It is five minutes: longer than a client
\* waits, so nobody waits on the key then.
KeyExpires(k) ==
    /\ k \in ttl
    /\ \A c \in Clients : client[c].pc = "wait" => client[c].key # k
    /\ resp' = [resp EXCEPT ![k] = <<>>]
    /\ ttl' = ttl \ {k}
    /\ UNCHANGED <<clock, issued, client, readQueue, handlerVars, executed>>

-----------------------------------------------------------------------------
ClientStep(c) == \/ Ask(c)
                 \/ Send(c)
                 \/ SendFails(c)
                 \/ Receive(c)
                 \/ GiveUp(c)
                 \/ Return(c)
                 \/ ClientDies(c)

ReaderStep(r) == \/ DecodeFails(r)
                 \/ RunQuery(r)
                 \/ Respond(r)
                 \/ RespondFails(r)
                 \/ Expire(r)
                 \/ ExpireFails(r)
                 \/ Release(r)

\* The bounded workload is over: nobody asks or waits any more.
Quiet == /\ clock = MaxQueries
         /\ \A c \in Clients : client[c].pc = "idle"
         /\ UNCHANGED vars

Next == \/ \E c \in Clients : ClientStep(c)
        \/ Pop
        \/ PopLost
        \/ StartReader
        \/ \E r \in readers : ReaderStep(r)
        \/ HandlerRestarts
        \/ \E k \in Keys : KeyExpires(k)
        \/ Quiet

Spec == Init /\ [][Next]_vars

\* A reader is named by its query where fairness needs a fixed name.
ReaderOf(q) == \E r \in readers : r.q = q /\ ReaderStep(r)

\* Go runs every goroutine that can run, an RPush and a BLPop return,
\* DuckDB finishes its queries, and Redis drops the keys whose TTL is over.
\* Nothing makes a client ask, and no failure has to happen.
Fairness == /\ \A c \in Clients : /\ WF_vars(Send(c) \/ SendFails(c))
                                   /\ WF_vars(Receive(c) \/ GiveUp(c) \/ Return(c))
            /\ WF_vars(Pop)
            /\ WF_vars(StartReader)
            /\ \A q \in Queries : WF_vars(ReaderOf(q))
            /\ \A k \in Keys : WF_vars(KeyExpires(k))

FairSpec == Spec /\ Fairness

-----------------------------------------------------------------------------
(* Properties *)

\* A client never gets the response to a query other than the one it issued,
\* whatever late responses to its own or to other clients' earlier queries
\* are still under way (DB_Client.go: the response key, BLPop and Del).
AnswersOwnQuery ==
    \A c \in Clients : client[c].result.q \in {0, client[c].q}

\* The tokens in maxReads are the running goroutines, through every early
\* return and restart, and there are never more of them than the channel
\* holds (DB_Handler_Service.go: processReads).
SlotPerReader == slots = Cardinality(readers) /\ slots <= MaxReads

\* Goroutines are started for the requests in the order in which they were
\* pushed, and for each at most once, whatever is lost on the way: what has
\* been started precedes what the loop holds, and that precedes everything
\* queued (processReads pops one request at a time).  The goroutines then run
\* side by side: nothing orders their queries in the database.
Precedes(q) == /\ \A i \in 1..Len(readQueue) : q < readQueue[i].q
               /\ \A h \in 1..Len(held) : q < held[h].q
StartedInOrder ==
    /\ \A i, j \in 1..Len(readQueue) : i < j => readQueue[i].q < readQueue[j].q
    /\ \A i \in 1..Len(readQueue), h \in 1..Len(held) : held[h].q < readQueue[i].q
    /\ \A r \in readers : Precedes(r.q)
    /\ \A q \in executed : Precedes(q)

\* Somebody is still going to remove k: its TTL, the goroutine about to set
\* it, or the deferred Del of the client that uses the key.
Reclaimed(k) == \/ k \in ttl
                \/ \E r \in readers : r.pc = "expire" /\ r.key = k
                \/ \E c \in Clients : /\ client[c].pc \in {"wait", "clean"}
                                     /\ client[c].key = k

\* No response stays in Redis for ever: a response that nobody read, because
\* its client gave up or died, has a TTL or is about to get one
\* (sendReadResponse: "Set generic TTL so redis doesn't accumulate garbage").
NoImmortalResponse == \A k \in Keys : resp[k] # <<>> => Reclaimed(k)

\* A call of Query returns, whatever becomes of its request on the way to the
\* database and back (Query: BLPop with a time limit, then the deferred Del).
QueryReturns == \A c \in Clients : client[c].pc # "idle" ~> client[c].pc = "idle"

\* Every request pushed leaves the queue and the loop's hands: the loop is
\* never stuck for ever on a slot that no goroutine gives back, whichever way
\* the goroutines before it ended (processReads: maxReads).
Queued(q) == \E i \in 1..Len(readQueue) : readQueue[i].q = q
Held(q)   == \E h \in 1..Len(held) : held[h].q = q
RequestsLeaveQueue == \A q \in Queries : Queued(q) ~> ~(Queued(q) \/ Held(q))

\* Redis is clean again once the clients stop asking.
ResponsesVanish == <>[](\A k \in Keys : resp[k] = <<>>)

\* The read path implements the query service of QueryService.
ServiceView ==
    INSTANCE QueryService
    WITH asked   <- issued,
         waiting <- [c \in Clients |->
                       IF client[c].pc = "wait" THEN client[c].q ELSE 0],
         answer  <- [c \in Clients |->
                       IF client[c].result.data THEN client[c].result.q ELSE 0]
ServiceSpec == ServiceView!Spec
=============================================================================
