\* The PIT or the keyboard may interrupt halt between sti() and the jump to the parent.
CONSTANTS
  NUM_MAX_PROCESSES = 3
  Files <- MCFiles
  Commands <- MCCommands
  TickPhases <- HaltWindowPhases
  KeyPhases <- SafePhases
  BackgroundCalls = FALSE
SPECIFICATION Spec
INVARIANT HaltingStackNotReused
