\* One planner at a time; requests of the telescope fail again and again, but
\* not for ever.
CONSTANTS
  AimTime = 2
  PlanAhead = 1
  Planners = {p}
  KeepTime = 2
  RecTimes = {3, 5}
  EndTimes = {4, 6}
  MaxId = 3
  MaxTime = 6
  Unreliable = TRUE
SPECIFICATION FairSpec
INVARIANTS VersionTells NoOverlap
PROPERTIES PlanArrives
