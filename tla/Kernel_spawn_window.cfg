\* The PIT may interrupt switch_terminal between sti() and execute("shell").
CONSTANTS
  NUM_MAX_PROCESSES = 3
  Files <- MCFiles
  Commands <- MCCommands
  TickPhases <- SpawnWindowPhases
  KeyPhases <- SafePhases
  BackgroundCalls = FALSE
SPECIFICATION Spec
INVARIANT ContextsConsistent
