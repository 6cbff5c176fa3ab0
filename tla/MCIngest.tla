------------------------------ MODULE MCIngest ------------------------------
(***************************************************************************)
(* The consumer of service A for TLC: two keys, one of them with a value   *)
(* above the alert threshold, and malformed messages.                      *)
(***************************************************************************)
EXTENDS Ingest

CONSTANTS k1, k2

TestMessages == {[key |-> k1, json |-> TRUE,  high |-> FALSE],
                 [key |-> k2, json |-> TRUE,  high |-> TRUE],
                 [key |-> k1, json |-> FALSE, high |-> FALSE]}

\* Every failure but those of the pipelines to Redis.
RedisWorks == IngestFaultKinds \ {"redis", "retry"}

RedisFails == {"redis"}
=============================================================================
