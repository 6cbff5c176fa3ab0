------------------------------ MODULE RowStore ------------------------------
(***************************************************************************)
(* What the write path promises to the services that push rows, without    *)
(* its queue, ticks, batches and appenders: a row that is pushed stays     *)
(* open until it is saved or lost, once and for all; the rows of a table   *)
(* are saved in the order of their pushes, so what is passed over is lost; *)
(* and what is saved or lost at one time was pushed within MaxBatch rows.  *)
(*                                                                         *)
(* A row is the number of its push.                                        *)
(***************************************************************************)
EXTENDS Integers

CONSTANTS Tables,    \* the tables rows are pushed for
          MaxBatch   \* how far apart rows are that are saved or lost together

VARIABLES pushed,  \* the number of rows pushed
          open,    \* the rows of each table that are neither saved nor lost
          saved,   \* the rows of each table that are in the database
          lost     \* the rows that will never be there

svars == <<pushed, open, saved, lost>>

Init == /\ pushed = 0
        /\ open = [t \in Tables |-> {}]
        /\ saved = [t \in Tables |-> {}]
        /\ lost = {}

Push(t) == /\ pushed' = pushed + 1
           /\ open' = [open EXCEPT ![t] = @ \cup {pushed'}]
           /\ UNCHANGED <<saved, lost>>

Close(S) == \A a, b \in S : a - b < MaxBatch

\* The rows S of table t are saved, after those that already are and before
\* those that remain; the rows L of the table are lost with them.
Settle(t, S, L) ==
    /\ saved' = [saved EXCEPT ![t] = @ \cup S]
    /\ lost' = lost \cup L
    /\ open' = [open EXCEPT ![t] = @ \ (S \cup L)]
    /\ S \cap L = {} /\ Close(S \cup L)
    /\ \A s \in S : /\ \A o \in saved[t] : o < s
                    /\ \A o \in open[t] \ S : s < o
    /\ UNCHANGED pushed

\* Rows are lost, whatever their tables are.
Lose(L) ==
    /\ Close(L)
    /\ lost' = lost \cup L
    /\ open' = [t \in Tables |-> open[t] \ L]
    /\ UNCHANGED <<pushed, saved>>

Next == \/ \E t \in Tables : Push(t)
        \/ \E t \in Tables : \E S, L \in SUBSET open[t] : Settle(t, S, L)
        \/ \E L \in SUBSET UNION {open[t] : t \in Tables} : Lose(L)

Spec == Init /\ [][Next]_svars
=============================================================================
