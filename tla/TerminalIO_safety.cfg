\* Typing, Backspace, Enter, Ctrl+L, Alt+F, terminal_write and terminal_read on
\* two terminals, with a console of two columns and one row.
\* After Enter writes past key_buffer the model stops the keyboard (what the
\* write destroys is not modelled), so readers may wait for ever: no deadlock check.
CONSTANTS
  Terms <- TwoTerms
  KEY_BUFFER_SIZE = 2
  ReadBytes = 3
  NUM_COLS = 2
  NUM_ROWS = 1
SPECIFICATION Spec
INVARIANT TypeOK
INVARIANT IndexMatchesBuffer
INVARIANT CursorOnScreen
CHECK_DEADLOCK FALSE
