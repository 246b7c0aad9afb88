----------------------------- MODULE MCPipeline -----------------------------
(* Small experiments for TLC. *)
EXTENDS PipelineSafety

CONSTANTS P1, P2

\* One task with the helpers and with pipelines that are killed, or two tasks.
Situations ==
  { [tasks |-> {1}, drivers |-> {P1, P2, Prewarm}, kills |-> 1],
    [tasks |-> {1}, drivers |-> {P1, Prewarm, Preflight}, kills |-> 1],
    [tasks |-> {2}, drivers |-> {P1, P2, Preflight}, kills |-> 1],
    [tasks |-> {2}, drivers |-> {P1, Prewarm, Preflight}, kills |-> 0],
    [tasks |-> {1, 2}, drivers |-> {P1, Preflight}, kills |-> 0] }
=============================================================================
