\* Planners who leave a little room, cancellations, a web server or a table out
\* of reach, and a server that is restarted once.
CONSTANTS
  AimTime = 8
  PlanAhead = 6
  Lead = 1
  Horizon = 6
  Nap = 2
  MaxDelay = 1
  Slack = 2
  RecTimes = {14, 17, 31}
  EndTimes = {20, 34}
  Troubles = {"cancel", "fetch", "lookup", "crash"}
  MaxId = 2
  MaxTime = 35
SPECIFICATION Spec
INVARIANTS TypeOK SleepsForward InfoMatchesFlag OnlyAsPlanned AllOfThePlan RestartSkips
\* Time ends at MaxTime.
CHECK_DEADLOCK FALSE
