SPECIFICATION FairSpec
CONSTANTS
  Jobs = {j1, j2}
  Workers = {w1}
  Ticks = {1, 2}
  Concurrency = 1
  MaxAttempts = 2
  MaxInterventions = 1
  MaxTakeovers = 1
CHECK_DEADLOCK FALSE
INVARIANTS QueueIsSound
PROPERTIES QueueDrains
