SPECIFICATION FairSpec
CONSTANTS
  NTasks = 3
  NULL = NULL
  FastTyping = FALSE
INVARIANTS
  TypeOK
  ContextIntegrity
  NoCrash
  NeverSleepsDeaf
PROPERTIES
  ImplementsRoundRobin
  EveryTaskPrints
  HaltReturnsControl
  ShellWakes
