----------------------------- MODULE DurableLog -----------------------------
(***************************************************************************)
(* What Kafka, service A and the DB handler together promise to whoever    *)
(* writes to the topic, without batches, queues, goroutines and retries:   *)
(* every message wanted in DuckDB is accepted before it is committed, is   *)
(* accepted again only while it is uncommitted, and is stored once it is   *)
(* accepted, unless a crash takes it; a crash takes at most MaxLoss        *)
(* messages.                                                               *)
(***************************************************************************)
EXTENDS Integers, FiniteSets

CONSTANTS MaxLog,    \* bound on the messages written
          MaxLoss    \* how many accepted messages one crash may take

VARIABLES written,   \* number of messages written: they are 1..written
          wanted,    \* the messages that have to be stored
          committed, \* how many messages will not be sent again
          owed,      \* the messages accepted and not stored yet
          arrived    \* the messages stored

lvars == <<written, wanted, committed, owed, arrived>>

Init == /\ written = 0
        /\ wanted = {}
        /\ committed = 0
        /\ owed = {}
        /\ arrived = {}

\* A producer writes a message, which may be one that nobody can store.
Write == /\ written < MaxLog
         /\ written' = written + 1
         /\ wanted' \in {wanted, wanted \cup {written'}}
         /\ UNCHANGED <<committed, owed, arrived>>

\* The messages in S are accepted, those among them that are stored already
\* for another time.
Accept(S) == /\ \A o \in S : o \in wanted /\ committed < o
             /\ owed' = owed \cup (S \ arrived)
             /\ UNCHANGED <<written, wanted, committed, arrived>>

\* The first n messages will not be sent again.
Commit(n) == /\ committed < n /\ n <= written
             /\ \A o \in wanted : committed < o /\ o <= n => o \in owed \cup arrived
             /\ committed' = n
             /\ UNCHANGED <<written, wanted, owed, arrived>>

Store(S) == /\ S \subseteq owed
            /\ arrived' = arrived \cup S
            /\ owed' = owed \ S
            /\ UNCHANGED <<written, wanted, committed>>

\* A crash takes accepted messages, committed or not.
Lose(S) == /\ S \subseteq owed
           /\ Cardinality(S) <= MaxLoss
           /\ owed' = owed \ S
           /\ UNCHANGED <<written, wanted, committed, arrived>>

Next == \/ Write
        \/ \E n \in 1..MaxLog : Commit(n)
        \/ \E S \in SUBSET (1..MaxLog) : Accept(S) \/ Store(S) \/ Lose(S)

\* A message that stays uncommitted is accepted, and one that stays accepted
\* is stored.
Fairness == \A o \in 1..MaxLog : WF_lvars(Accept({o})) /\ WF_lvars(Store({o}))

SafeSpec == Init /\ [][Next]_lvars

Spec == SafeSpec /\ Fairness
=============================================================================
