------------------------------ MODULE MCServer ------------------------------
(* A small instance of Server for TLC.                                     *)
EXTENDS Server

CONSTANTS old, new

\* Two releases roll out over one another.  File 2 creates api_keys.
MCFiles == [p \in Pods |-> IF p = old THEN {1, 2} ELSE {1, 2, 3}]

MCUnset == [
  TRANSPORT |-> "", LOCK |-> "", KAFKA_BROKERS |-> <<>>, REDIS_ADDRESSES |-> <<>>,
  WORKER_CONCURRENCY |-> "", RECONCILER_ENABLED |-> "", SCHEDULER_ENABLED |-> "",
  CHECKED |-> "", UNCHECKED |-> ""]

\* Nothing set; Kafka and no lock, with a concurrency that does not parse;
\* Redlock without a reconciler, and a proxy that is no address; a typo; a broker
\* list of commas only; a short API key; a log level that is none.
MCEnvs == {
  MCUnset,
  [MCUnset EXCEPT !.TRANSPORT = "kafka", !.LOCK = "none", !.WORKER_CONCURRENCY = "eight",
                  !.SCHEDULER_ENABLED = "false"],
  [MCUnset EXCEPT !.LOCK = "redlock", !.RECONCILER_ENABLED = "false",
                  !.WORKER_CONCURRENCY = "4", !.UNCHECKED = "keys"],
  [MCUnset EXCEPT !.LOCK = "redlok"],
  [MCUnset EXCEPT !.TRANSPORT = "kafka", !.KAFKA_BROKERS = <<"", "">>],
  [MCUnset EXCEPT !.CHECKED = "fails"],
  [MCUnset EXCEPT !.UNCHECKED = "down"]}
=============================================================================
