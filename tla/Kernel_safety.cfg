\* Foreground use: execute, vidmap and root-shell halts only from the displayed
\* terminal; no interrupt in the sti() windows of halt and switch_terminal; round-robin
\* liveness under strong fairness of the PIT tick.
CONSTANTS
  NUM_MAX_PROCESSES = 3
  Files <- MCFiles
  Commands <- MCCommands
  TickPhases <- SafePhases
  KeyPhases <- SafePhases
  BackgroundCalls = FALSE
SPECIFICATION Spec
INVARIANT TypeOK
INVARIANT ContextsConsistent
INVARIANT MemoryIsolation
INVARIANT ProcessTree
INVARIANT ScreensHoldOwnText
PROPERTY TerminalStaysActive
PROPERTY EveryTerminalScheduled
PROPERTY SchedulerRefinement
