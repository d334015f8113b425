--------------------------- MODULE MCKafkaDispatch ---------------------------
(* Small instances of KafkaDispatch for TLC.                               *)
EXTENDS KafkaDispatch, TLC

\* Two attempts for every job.
MCMaxRetries == [j \in Jobs |-> 2]

MCSymmetry == Permutations(Tokens) \cup Permutations(Slots)
=============================================================================
