SPECIFICATION Spec
CONSTANTS
  good = good
  bad = bad
  poison = poison
  Worker = {w1}
  Event = {good, bad}
  Verdicts <- MCVerdicts
  Log <- RefusedThenGood
  Malformed = Malformed
  NoWorker = NoWorker
  MaxFaults = 1
  MaxRebalances = 0
  MaxStops = 0
INVARIANT UnpublishedIsNotCommitted
