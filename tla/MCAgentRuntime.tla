--------------------------- MODULE MCAgentRuntime ---------------------------
(* One source file, named by every read and search; a version that differs  *)
(* from the base by an untracked file only, and one that is patched.        *)
EXTENDS AgentRuntimeSafety

CONSTANT File, base, scratch, v1

MCPathOf == [c \in Reads \cup Searches |-> File]

MCDiffOf == [v \in Versions |-> IF v = scratch THEN base ELSE v]
=============================================================================
