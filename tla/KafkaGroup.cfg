SPECIFICATION FairSpec
CONSTANTS
  good = good
  bad = bad
  poison = poison
  Worker = {w1, w2}
  Event = {good, bad, poison}
  Verdicts <- MCVerdicts
  Log <- LogWithCopies
  Malformed = Malformed
  NoWorker = NoWorker
  MaxFaults = 2
  MaxRebalances = 1
  MaxStops = 1
INVARIANTS
  TypeOK
  SkippedWasCutShort
  DeadLettersAreRefused
PROPERTIES
  CommittedOnlyAdvances
  BacklogIsDrained
