---------------------------- MODULE MCAgentLoop ----------------------------
(* Three steps and one round of three critics with up to two supplementary   *)
(* steps; two queries, so that a batch can mix a success and a failure; a    *)
(* second rejected step in a row concludes.                                  *)
EXTENDS AgentLoop

CONSTANTS a, b

MCKeys == {a, b}

Opinion(level, confidence, asks) ==
  [level |-> level, confidence |-> confidence, asks |-> asks]

\* Sure and unsure, with a gap or a direction and without.
MCOpinions == {Opinion("supported", 4, FALSE), Opinion("supported", 1, TRUE),
               Opinion("partially", 2, TRUE), Opinion("unsupported", 0, FALSE),
               Opinion("unsupported", 4, TRUE)}
=============================================================================
