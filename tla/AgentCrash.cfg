\* One agent, two commands (the first may be skipped), crashes, failed API
\* calls, deadlines; the spec never changes. Watches, worker, goroutines and
\* timers are weakly fair.
CONSTANTS
  n1 = n1
  Nodes = {n1}
  NumCommands = 2
  Ignorable = {1}
  TTL = TRUE
  Deadline = TRUE
  FirstRV = 100
  MaxGeneration = 1
  MaxTasks = 2
  MaxRestarts = 1
  MaxFailures = 1
  MaxDeletes = 1
SPECIFICATION FairSpec
INVARIANTS HonestCompletion InOrderConditions FinalizerHeld GoneMeansStopped OneRunner
PROPERTIES CompletionIsFinal EveryNodeSettles
CHECK_DEADLOCK FALSE
