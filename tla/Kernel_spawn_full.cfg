\* Launching a shell on a new terminal when every pid is taken.
CONSTANTS
  NUM_MAX_PROCESSES = 3
  Files <- MCFiles
  Commands <- MCCommands
  TickPhases <- SafePhases
  KeyPhases <- SafePhases
  BackgroundCalls = FALSE
SPECIFICATION Spec
INVARIANT DisplayedTerminalRuns
