\* Two tasks, one of each order; two pipelines, one after the other.
SPECIFICATION FairSpec
CONSTANTS
  Tasks = {1, 2}
  Exports = {e1, e2, e3}
  Frozen = {e1, e2}
  Minimum = 2
  P1 = P1
  P2 = P2
  Pipelines = {P1, P2}
  Casts <- Situations
  Prewarm = Prewarm
  Preflight = Preflight
INVARIANTS
  ReportIsWhole
  TrainsOnFrozenExports
PROPERTIES
  ImplementsPairedRuns
  PipelinesEnd
CHECK_DEADLOCK FALSE
