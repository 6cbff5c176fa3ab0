-------------------------- MODULE MCIngestPipeline --------------------------
(***************************************************************************)
(* Kafka to DuckDB for TLC.                                                *)
(***************************************************************************)
EXTENDS IngestPipeline

CONSTANT k1

TestMessages == {[key |-> k1, json |-> TRUE,  high |-> FALSE],
                 [key |-> k1, json |-> FALSE, high |-> FALSE]}

\* The pipelines to Redis succeed, perhaps at the second try.
EngineFaults == {"retry", "crash"}
CrashOnly    == {"crash"}
NoFaults     == {}
=============================================================================
