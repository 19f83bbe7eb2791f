\* A terminal switch while a program waits in terminal_read.
CONSTANTS
  Terms <- TwoTerms
  KEY_BUFFER_SIZE = 2
  ReadBytes = 3
  NUM_COLS = 2
  NUM_ROWS = 1
SPECIFICATION Spec
INVARIANT ReadGetsOwnInput
