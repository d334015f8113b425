-------------------------------- MODULE Etl ---------------------------------
(***************************************************************************)
(* The sql.etl handler (internal/etl): which pipeline specifications it    *)
(* takes, and what comes of the statement.  The characters of identifiers  *)
(* and of SQL are left out: a name is valid, qualified or invalid, and an  *)
(* extract is missing, acceptable to normalizeExtractSQL, or not.          *)
(***************************************************************************)
EXTENDS Integers

\* Column names, trimmed: two valid ones, one with a qualifier, and an invalid.
Columns == {"a", "b", "s.a", "1"}

\* task.payload: absent, not JSON, or a specification.
PipelineSpec == [payload  : {"none", "invalid", "spec"},
                 extract  : {"", "select", "other"},
                 table    : {"", "t", "1"},
                 target   : SUBSET Columns,
                 mode     : {"", "append", "upsert", "other"},
                 conflict : SUBSET Columns,
                 update   : {{}, {"b"}, {"1"}}]

WriteMode(spec) == IF spec.mode = "" THEN "append" ELSE spec.mode

ParseSpec(spec) ==
  /\ spec.payload = "spec"
  /\ spec.extract # "" /\ spec.table # "" /\ spec.target # {}
  /\ WriteMode(spec) \in {"append", "upsert"}
  /\ WriteMode(spec) = "upsert" => spec.conflict # {}

\* parseIdentifier succeeds with one part.
Unqualified(names) == names \subseteq {"a", "b"}

nonConflictColumns(spec) == spec.target \ spec.conflict

UpdateColumns(spec) ==
  IF WriteMode(spec) = "upsert" /\ spec.update = {}
  THEN nonConflictColumns(spec) ELSE spec.update

\* BuildInsertSQL has a statement to return.
BuildInsertSQL(spec) ==
  /\ spec.table # "1"
  /\ Unqualified(spec.target) /\ Unqualified(spec.conflict)
  /\ Unqualified(UpdateColumns(spec))
  /\ WriteMode(spec) = "upsert" => UpdateColumns(spec) # {}
  /\ spec.extract = "select"

\* Handler: Postgres runs the statement or not.
EtlHandler(spec, runs) ==
  IF ~ParseSpec(spec) \/ ~BuildInsertSQL(spec) THEN "permanent"
  ELSE IF runs THEN "ok" ELSE "retry"

\* A specification some database could run, with nothing in it to correct.
EtlSound(spec) ==
  /\ spec.payload = "spec" /\ spec.extract = "select" /\ spec.table = "t"
  /\ spec.target # {} /\ spec.target \subseteq {"a", "b"}
  /\ spec.conflict \subseteq {"a", "b"} /\ spec.update \in {{}, {"b"}}
  /\ \/ spec.mode \in {"", "append"}
     \/ /\ spec.mode = "upsert" /\ spec.conflict # {}
        /\ spec.update # {} \/ \E c \in spec.target : c \notin spec.conflict

\* The outcomes of executing a job that is sound or is not.
EtlOutcomes ==
  [sound \in BOOLEAN |-> {<<EtlHandler(spec, runs), IF sound THEN "trouble" ELSE "job">> :
     spec \in {p \in PipelineSpec : EtlSound(p) = sound}, runs \in BOOLEAN}]
=============================================================================
