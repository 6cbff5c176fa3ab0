----------------------------- MODULE MCServiceA -----------------------------
(***************************************************************************)
(* Service A for TLC: two uploads that may share a file name, one name for *)
(* good files and one for files that cannot be parsed, beside a consumer   *)
(* that may fall back.  Alerts and uploads do not touch each other's state *)
(* and are explored in different behaviours (OneConcern); beside two       *)
(* uploads the consumer has one message or the process dies once (Beside). *)
(***************************************************************************)
EXTENDS ServiceA, TLC

CONSTANTS k1, data, other

TestMessages == {[key |-> k1, json |-> TRUE, high |-> FALSE],
                 [key |-> k1, json |-> TRUE, high |-> TRUE]}

TestRows == <<[key |-> k1, encodable |-> TRUE],
              [key |-> k1, encodable |-> FALSE],
              [key |-> k1, encodable |-> TRUE]>>

TestFiles == {[name |-> data,  good |-> TRUE,  rows |-> TestRows],
              [name |-> other, good |-> FALSE, rows |-> <<>>]}

EngineFaults == {"crash", "publish"}
FileFaults   == {"redis", "retry", "disk", "timeout"}
AlarmFaults  == {"disconnect"}

OneConcern ==
    \/ cpc = "start" /\ \A i \in 1..Len(log) : ~log[i].high
    \/ \A c \in Calls : stage[c] = "none"

Beside == Len(log) + crashes <= 1 \/ \E c \in Calls : stage[c] = "none"

CallsSymmetric == Permutations(Calls)
=============================================================================
