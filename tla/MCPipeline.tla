----------------------------- MODULE MCPipeline -----------------------------
(***************************************************************************)
(* Pipeline for TLC: one channel and priority, so one main topic.          *)
(***************************************************************************)
EXTENDS PipelineClients, TLC

CONSTANT T

MCTopicOf == [id \in Ids |-> T]

Symmetry == Permutations(Ids) \cup Permutations(Workers) \cup Permutations(Keys)
=============================================================================
