\* One agent, two commands, one pause and one resume; crashes and failures
\* are left to AgentCrash.
CONSTANTS
  n1 = n1
  Nodes = {n1}
  NumCommands = 2
  Ignorable = {}
  TTL = FALSE
  Deadline = FALSE
  FirstRV = 100
  MaxGeneration = 3
  MaxTasks = 2
  MaxRestarts = 0
  MaxFailures = 0
  MaxDeletes = 0
SPECIFICATION Spec
INVARIANTS SuspendHonoured SpecChangeHandled
CHECK_DEADLOCK FALSE
