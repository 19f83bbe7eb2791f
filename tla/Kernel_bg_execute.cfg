\* A process of a background terminal calls execute: is the scheduler's view still the CPU's?
CONSTANTS
  NUM_MAX_PROCESSES = 3
  Files <- MCFiles
  Commands <- MCCommands
  TickPhases <- SafePhases
  KeyPhases <- SafePhases
  BackgroundCalls = TRUE
SPECIFICATION Spec
INVARIANT ContextsConsistent
