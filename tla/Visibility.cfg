\* The daily script and a user ask for the sun at the same time; the user also
\* asks for a pulsar, which may be up at midnight or not at all.  Days of five
\* minutes, of a date that has not begun.
CONSTANTS
  AimTime = 1
  PlanAhead = 0
  Script = Script
  Requests = {Script, user}
  Sun = Sun
  Pulsar = Pulsar
  Targets = {Sun, Pulsar}
  Day = 5
  Skies <- MCSkies
  Wanted <- MCWanted
  Faults = {"compute"}
  Now <- MCNow
  MaxId = 1
SPECIFICATION Spec
INVARIANTS AnswersTrue CacheWhole PlannedIsVisible
