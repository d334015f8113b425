------------------------------- MODULE Config -------------------------------
(***************************************************************************)
(* internal/config/config.go for the settings that decide what an instance *)
(* runs.  An environment variable is a string, or the sequence of parts    *)
(* between its commas; "" and <<>> are unset.  CHECKED stands for the      *)
(* settings that only Validate's last checks look at (the webhook's limits,*)
(* the lengths of keys and tokens, the pair of TLS files), as one word.    *)
(* UNCHECKED stands for those it does not look at (the log level, the form *)
(* of the DSN and the pool's sizes, Kafka's and the proxies' settings, the *)
(* address): where in cmd/server they make an instance fail, or "none".    *)
(***************************************************************************)
EXTENDS Integers, Sequences

Default == [
  TRANSPORT |-> "postgres", LOCK |-> "advisory",
  KAFKA_BROKERS |-> <<"broker">>, REDIS_ADDRESSES |-> <<"r1", "r2", "r3">>,
  WORKER_CONCURRENCY |-> 8, RECONCILER_ENABLED |-> TRUE, SCHEDULER_ENABLED |-> TRUE,
  CHECKED |-> "passes", UNCHECKED |-> "none"]

\* strconv.Atoi and strconv.ParseBool on the strings the instances use: the
\* value, or nothing.
Atoi(s) == CASE s = "0" -> <<0>> [] s = "4" -> <<4>> [] OTHER -> <<>>

ParseBool(s) ==
  CASE s = "true" -> <<TRUE>> [] s = "false" -> <<FALSE>> [] OTHER -> <<>>

str(v, dest) == IF v = "" THEN dest ELSE v

strs(v, dest) ==
  IF v = <<>> THEN dest ELSE SelectSeq(v, LAMBDA part : part # "")

\* A value that does not parse leaves the default.
parsed(v, dest) == IF v = <<>> THEN dest ELSE v[1]

LoadFromEnvironment(env) == [
  TRANSPORT |-> str(env.TRANSPORT, Default.TRANSPORT),
  LOCK |-> str(env.LOCK, Default.LOCK),
  KAFKA_BROKERS |-> strs(env.KAFKA_BROKERS, Default.KAFKA_BROKERS),
  REDIS_ADDRESSES |-> strs(env.REDIS_ADDRESSES, Default.REDIS_ADDRESSES),
  WORKER_CONCURRENCY |-> parsed(Atoi(env.WORKER_CONCURRENCY), Default.WORKER_CONCURRENCY),
  RECONCILER_ENABLED |-> parsed(ParseBool(env.RECONCILER_ENABLED), Default.RECONCILER_ENABLED),
  SCHEDULER_ENABLED |-> parsed(ParseBool(env.SCHEDULER_ENABLED), Default.SCHEDULER_ENABLED),
  CHECKED |-> str(env.CHECKED, Default.CHECKED),
  UNCHECKED |-> str(env.UNCHECKED, Default.UNCHECKED)]

\* The DSN and the topic are never empty: an empty variable leaves the default.
Validate(cfg) ==
  /\ \/ cfg.TRANSPORT = "postgres"
     \/ cfg.TRANSPORT = "kafka" /\ cfg.KAFKA_BROKERS # <<>>
  /\ \/ cfg.LOCK \in {"none", "advisory"}
     \/ cfg.LOCK = "redlock" /\ cfg.REDIS_ADDRESSES # <<>>
  /\ cfg.WORKER_CONCURRENCY > 0 /\ cfg.CHECKED = "passes"
=============================================================================
