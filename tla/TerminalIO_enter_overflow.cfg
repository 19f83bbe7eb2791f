\* Enter pressed while no program reads the line.
CONSTANTS
  Terms <- TwoTerms
  KEY_BUFFER_SIZE = 2
  ReadBytes = 3
  NUM_COLS = 2
  NUM_ROWS = 1
SPECIFICATION Spec
INVARIANT KeyWritesInBounds
