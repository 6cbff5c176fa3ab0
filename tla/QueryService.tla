---------------------------- MODULE QueryService ----------------------------
(***************************************************************************)
(* What the DB handler promises to the services that query DuckDB through  *)
(* it, without the Redis queues, the response keys, the goroutines and the *)
(* time limits.  The database runs only queries that were asked; a client  *)
(* that gets an answer gets the answer to the query it is waiting for, and *)
(* only after that query was run; and a client may always be told that its *)
(* query failed.                                                           *)
(***************************************************************************)
EXTENDS Integers

CONSTANTS Clients,      \* the callers of Query
          MaxQueries    \* bound on the number of queries ever asked

VARIABLES asked,        \* number of queries asked so far: they are 1..asked
          executed,     \* the queries the database has run
          waiting,      \* the query each client waits for, 0 if none
          answer        \* the query whose data each client last got, 0 if none

svars == <<asked, executed, waiting, answer>>

Init == /\ asked = 0
        /\ executed = {}
        /\ waiting = [c \in Clients |-> 0]
        /\ answer = [c \in Clients |-> 0]

\* c calls Query.  The call can fail at once, with the query asked or not:
\* the client is then not waiting for it.
Ask(c) == /\ waiting[c] = 0
          /\ asked < MaxQueries
          /\ asked' = asked + 1
          /\ waiting' \in {waiting, [waiting EXCEPT ![c] = asked']}
          /\ answer' = [answer EXCEPT ![c] = 0]
          /\ UNCHANGED executed

Execute(q) == /\ q \in 1..asked
              /\ q \notin executed
              /\ executed' = executed \cup {q}
              /\ UNCHANGED <<asked, waiting, answer>>

\* The query c waits for was executed, and c gets its data.
Answer(c) == /\ waiting[c] \in executed
             /\ answer' = [answer EXCEPT ![c] = waiting[c]]
             /\ waiting' = [waiting EXCEPT ![c] = 0]
             /\ UNCHANGED <<asked, executed>>

\* c gets an error, gives up or is restarted.
Fail(c) == /\ waiting' = [waiting EXCEPT ![c] = 0]
           /\ answer' = [answer EXCEPT ![c] = 0]
           /\ UNCHANGED <<asked, executed>>

Next == \/ \E c \in Clients : Ask(c) \/ Answer(c) \/ Fail(c)
        \/ \E q \in 1..MaxQueries : Execute(q)

Spec == Init /\ [][Next]_svars
=============================================================================
