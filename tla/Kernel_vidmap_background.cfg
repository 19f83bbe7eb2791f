\* A program of a terminal that is not displayed calls vidmap.
CONSTANTS
  NUM_MAX_PROCESSES = 3
  Files <- MCFiles
  Commands <- MCCommands
  TickPhases <- SafePhases
  KeyPhases <- SafePhases
  BackgroundCalls = TRUE
SPECIFICATION Spec
INVARIANT VidmapShowsOwnTerminal
