----------------------------- MODULE TerminalIO -----------------------------
(***************************************************************************)
(* The line discipline of student-distrib: the keyboard handler's typing,  *)
(* Backspace and Enter (keyboard.c), the per-terminal line buffers and    *)
(* the global key_buffer / key_buffer_idx that point at the displayed     *)
(* terminal's (terminal.c save_restore), and terminal_read, which a       *)
(* program of each terminal calls on fd 0.                                *)
(*                                                                         *)
(* Every terminal runs a program (its shell) whose PCB's term is that     *)
(* terminal.  A key typed on a terminal is modelled by the terminal's id: *)
(* what matters is where a character came from.  terminal_read runs with  *)
(* interrupts enabled (system calls use a trap gate), so keystrokes and    *)
(* Alt+F switches fall between its wake-up and its clear_buf.              *)
(*                                                                         *)
(* The console cursor of lib.c goes with it: screen_x/screen_y, where the *)
(* keyboard echoes and the displayed terminal's program prints, and each  *)
(* terminal's saved pos_x/pos_y, where a background program prints.       *)
(* Characters, attributes and the rows scroll_up moves are not modelled.  *)
(***************************************************************************)
EXTENDS Integers, Sequences, FiniteSetsExt

CONSTANTS
  Terms,            \* the terminals (MAX_TERM = 3 in terminal.h)
  KEY_BUFFER_SIZE,  \* keyboard.h (128): printable keys stop at this index
  ReadBytes,        \* nbytes a program passes to terminal_read
  NUM_COLS,         \* lib.c: 80 columns
  NUM_ROWS          \* lib.c: 25 rows

ASSUME KEY_BUFFER_SIZE \in Nat \ {0} /\ ReadBytes \in Nat \ {0}
ASSUME NUM_COLS \in Nat \ {0} /\ NUM_ROWS \in Nat \ {0}

NUL == -1                                     \* '\0'
NL  == -2                                     \* '\n'
Chars == Terms \cup {NUL, NL}
Slots == 0 .. KEY_BUFFER_SIZE                 \* key_buffer[KEY_BUFFER_SIZE + 1]
Line == 0 .. KEY_BUFFER_SIZE - 1              \* what clear_buf and terminal_read touch
Empty == [i \in Slots |-> NUL]

VARIABLES
  cur_term,         \* the displayed terminal; key_buffer points at its buffer
  key_buffer_idx,   \* the global index into key_buffer
  saved_idx,        \* terminal[t].key_buffer_idx, the index saved on a switch
  buf,              \* terminal[t].key_buffer
  eflag,            \* terminal[t].eflag
  rstate,           \* where terminal t's program is in terminal_read
  got,              \* terminal t's last read copied out keys typed on another terminal
  oob,              \* a write to key_buffer past its last slot has happened
  screen,           \* [x |-> screen_x, y |-> screen_y] of lib.c
  pos               \* [x |-> terminal[t].pos_x, y |-> terminal[t].pos_y]

console == << screen, pos >>
vars == << cur_term, key_buffer_idx, saved_idx, buf, eflag, rstate, got, oob, screen, pos >>

-----------------------------------------------------------------------------
(* Console cursor (lib.c), as operators on a cursor c = [x, y] *)

ROW_START == 0                      \* lib.h (not in the repository): column 0

(* v < n for a uint32_t parameter that was passed the int v: a negative  *)
(* int becomes 2^32 + v, above every bound on the screen.                 *)
BelowU32(v, n) == v >= 0 /\ v < n

RECURSIVE set_screen_pos(_, _, _), enter(_), scroll_up(_)

\* Mutation of set_screen_pos: x and y compared as signed ints.
set_screen_pos_signed(c, x, y) ==
  IF x >= NUM_COLS THEN enter(c)
  ELSE LET c1 == [c EXCEPT !.x = x]
       IN  IF y < NUM_ROWS THEN [c1 EXCEPT !.y = y]
           ELSE [scroll_up(c1) EXCEPT !.y = NUM_ROWS - 1]

(* set_screen_pos(x, y): past the last column, enter() and nothing else;  *)
(* otherwise screen_x = x, and past the last row scroll_up(), whose       *)
(* set_screen_x(ROW_START) resets the column, then screen_y = NUM_ROWS-1. *)
set_screen_pos(c, x, y) ==
  IF ~BelowU32(x, NUM_COLS) THEN enter(c)
  ELSE LET c1 == [c EXCEPT !.x = x]
       IN  IF BelowU32(y, NUM_ROWS) THEN [c1 EXCEPT !.y = y]
           ELSE [scroll_up(c1) EXCEPT !.y = NUM_ROWS - 1]

\* enter: set_screen_pos(ROW_START, screen_y + 1).
enter(c) == set_screen_pos(c, ROW_START, c.y + 1)

\* scroll_up: the rows move up one, then set_screen_x(ROW_START).
scroll_up(c) == set_screen_pos(c, ROW_START, c.y)

\* putc: '\n' is enter(); any other character is stored and the cursor
\* moves by set_screen_pos(screen_x + 1, screen_y).
putc(c, ch) == IF ch = NL THEN enter(c) ELSE set_screen_pos(c, c.x + 1, c.y)

RECURSIVE set_screen_pos_term_exec(_, _, _), enter_term_exec(_), scroll_up_term_exec(_)

(* The same three routines on terminal[cur_active_terminal].pos_x/pos_y,  *)
(* a copy of the code kept separately in lib.c.                            *)
set_screen_pos_term_exec(c, x, y) ==
  IF ~BelowU32(x, NUM_COLS) THEN enter_term_exec(c)
  ELSE LET c1 == [c EXCEPT !.x = x]
       IN  IF BelowU32(y, NUM_ROWS) THEN [c1 EXCEPT !.y = y]
           ELSE [scroll_up_term_exec(c1) EXCEPT !.y = NUM_ROWS - 1]

enter_term_exec(c) == set_screen_pos_term_exec(c, ROW_START, c.y + 1)

scroll_up_term_exec(c) == set_screen_pos_term_exec(c, ROW_START, c.y)

\* putc_terminal_active: putc on the scheduled terminal's pos.
putc_terminal_active(c, ch) ==
  IF ch = NL THEN enter_term_exec(c) ELSE set_screen_pos_term_exec(c, c.x + 1, c.y)

(* backspace: at the first column, set_screen_pos(NUM_COLS - 1,           *)
(* screen_y - 1), whose y is a uint32_t: on row 0 it is 2^32 - 1, and the *)
(* screen scrolls.  Otherwise set_screen_x(screen_x - 1).                 *)
backspace(c) ==
  IF c.x = ROW_START THEN set_screen_pos(c, NUM_COLS - 1, c.y - 1)
  ELSE set_screen_pos(c, c.x - 1, c.y)

-----------------------------------------------------------------------------
(* Keyboard handler (IRQ1, interrupts off) *)

\* The keyboard handler is modelled until its first write out of bounds;
\* what that write destroys is not.
KeyboardAlive == ~oob

\* default: a printable key goes into the buffer while there is room
\* (keyboard_enabled is 1 and never changed), and putc echoes it.
TypeKey ==
  /\ KeyboardAlive
  /\ key_buffer_idx < KEY_BUFFER_SIZE
  /\ buf' = [buf EXCEPT ![cur_term][key_buffer_idx] = cur_term]
  /\ key_buffer_idx' = key_buffer_idx + 1
  /\ screen' = putc(screen, cur_term)
  /\ UNCHANGED << cur_term, saved_idx, eflag, rstate, got, oob, pos >>

\* Mutation of Backspace: the index is decremented without the check.
BackspaceUnguarded ==
  /\ KeyboardAlive
  /\ key_buffer_idx' = key_buffer_idx - 1
  /\ buf' = [buf EXCEPT ![cur_term][key_buffer_idx - 1] = NUL]
  /\ screen' = backspace(screen)
  /\ UNCHANGED << cur_term, saved_idx, eflag, rstate, got, oob, pos >>

\* BS: backspace() on the screen, then remove the last character.
Backspace ==
  /\ KeyboardAlive
  /\ key_buffer_idx > 0
  /\ key_buffer_idx' = key_buffer_idx - 1
  /\ buf' = [buf EXCEPT ![cur_term][key_buffer_idx - 1] = NUL]
  /\ screen' = backspace(screen)
  /\ UNCHANGED << cur_term, saved_idx, eflag, rstate, got, oob, pos >>

(* ENTER: set the eflag of the displayed terminal (through its apn's PCB), *)
(* store '\n' at key_buffer_idx++ whatever the index; past the last slot  *)
(* the write lands outside the buffer; then enter() on the screen.        *)
Enter ==
  /\ KeyboardAlive
  /\ eflag' = [eflag EXCEPT ![cur_term] = 1]
  /\ key_buffer_idx' = (key_buffer_idx + 1) % 256
  /\ IF key_buffer_idx \in Slots
     THEN buf' = [buf EXCEPT ![cur_term][key_buffer_idx] = NL] /\ UNCHANGED oob
     ELSE oob' = TRUE /\ UNCHANGED buf
  /\ screen' = enter(screen)
  /\ UNCHANGED << cur_term, saved_idx, rstate, got, pos >>

\* Mutation of save_restore: the index is not saved on the way out.
SwitchNoSave(t) ==
  /\ KeyboardAlive
  /\ t # cur_term
  /\ key_buffer_idx' = saved_idx[t]
  /\ cur_term' = t
  /\ pos' = [pos EXCEPT ![cur_term] = screen]
  /\ screen' = set_screen_pos(screen, pos[t].x, pos[t].y)
  /\ UNCHANGED << saved_idx, buf, eflag, rstate, got, oob >>

(* Alt+F(t+1): switch_terminal's save_restore(cur_term, 0) saves the      *)
(* cursor and the index, save_restore(t, 1) restores t's index and puts   *)
(* the cursor at t's pos through set_screen_pos, and key_buffer points at *)
(* t's buffer.                                                             *)
Switch(t) ==
  /\ KeyboardAlive
  /\ t # cur_term
  /\ saved_idx' = [saved_idx EXCEPT ![cur_term] = key_buffer_idx]
  /\ key_buffer_idx' = saved_idx[t]
  /\ cur_term' = t
  /\ pos' = [pos EXCEPT ![cur_term] = screen]
  /\ screen' = set_screen_pos(screen, pos[t].x, pos[t].y)
  /\ UNCHANGED << buf, eflag, rstate, got, oob >>

(* CTRL_L: clear() blanks the screen, set_screen_pos(0, 0); the line and  *)
(* its index are kept.                                                     *)
ClearScreen ==
  /\ KeyboardAlive
  /\ screen' = set_screen_pos(screen, 0, 0)
  /\ UNCHANGED << cur_term, key_buffer_idx, saved_idx, buf, eflag, rstate, got, oob, pos >>

-----------------------------------------------------------------------------
(* Programs: terminal_write and terminal_read of terminal t's program *)

(* terminal_write (under cli) of one character by terminal t's program    *)
(* while it is scheduled: printf's putc moves the screen cursor when t is *)
(* displayed, printf_terminal_active's putc_terminal_active moves t's pos *)
(* otherwise.  Longer strings are several such steps in a row.            *)
Write(t, ch) ==
  /\ IF t = cur_term
     THEN screen' = putc(screen, ch) /\ UNCHANGED pos
     ELSE pos' = [pos EXCEPT ![t] = putc_terminal_active(@, ch)] /\ UNCHANGED screen
  /\ UNCHANGED << cur_term, key_buffer_idx, saved_idx, buf, eflag, rstate, got, oob >>


ReadCall(t) ==
  /\ rstate[t] = "user"
  /\ rstate' = [rstate EXCEPT ![t] = "wait"]
  /\ UNCHANGED << cur_term, key_buffer_idx, saved_idx, buf, eflag, got, oob, screen, pos >>

(* The busy wait on its own terminal's eflag ends: clear the flag and copy *)
(* i < nbytes - 1, i < KEY_BUFFER_SIZE characters from key_buffer, which  *)
(* is the displayed terminal's buffer.  got records whether keys typed   *)
(* on another terminal were among them.                                   *)
ReadCopy(t) ==
  /\ rstate[t] = "wait"
  /\ eflag[t] = 1
  /\ eflag' = [eflag EXCEPT ![t] = 0]
  /\ got' = [got EXCEPT ![t] =
               \E i \in 0 .. Min({ReadBytes - 1, KEY_BUFFER_SIZE}) - 1 : buf[cur_term][i] \in Terms \ {t}]
  /\ rstate' = [rstate EXCEPT ![t] = "copied"]
  /\ UNCHANGED << cur_term, key_buffer_idx, saved_idx, buf, oob, screen, pos >>

(* clear_buf: empty key_buffer (the displayed terminal's) below            *)
(* KEY_BUFFER_SIZE and its index; the last slot keeps a '\n' Enter put.   *)
ReadClear(t) ==
  /\ rstate[t] = "copied"
  /\ buf' = [buf EXCEPT ![cur_term] = [i \in Slots |-> IF i \in Line THEN NUL ELSE @[i]]]
  /\ key_buffer_idx' = 0
  /\ rstate' = [rstate EXCEPT ![t] = "user"]
  /\ UNCHANGED << cur_term, saved_idx, eflag, got, oob, screen, pos >>

-----------------------------------------------------------------------------
\* init_terminal: empty buffers, indices and flags; terminal 0 displayed.
Init ==
  /\ cur_term = CHOOSE t \in Terms : \A u \in Terms : t <= u
  /\ key_buffer_idx = 0
  /\ saved_idx = [t \in Terms |-> 0]
  /\ buf = [t \in Terms |-> Empty]
  /\ eflag = [t \in Terms |-> 0]
  /\ rstate = [t \in Terms |-> "user"]
  /\ got = [t \in Terms |-> FALSE]
  /\ oob = FALSE
  /\ screen = [x |-> 0, y |-> 0]
  /\ pos = [t \in Terms |-> [x |-> 0, y |-> 0]]

Next ==
  \/ TypeKey
  \/ Backspace
  \/ Enter
  \/ \E t \in Terms : Switch(t)
  \/ ClearScreen
  \/ \E t \in Terms : \E ch \in {t, NL} : Write(t, ch)
  \/ \E t \in Terms : ReadCall(t) \/ ReadCopy(t) \/ ReadClear(t)

Spec == Init /\ [][Next]_vars

-----------------------------------------------------------------------------
(* Properties *)

TypeOK ==
  /\ cur_term \in Terms
  /\ key_buffer_idx \in 0 .. 255
  /\ saved_idx \in [Terms -> 0 .. 255]
  /\ buf \in [Terms -> [Slots -> Chars]]
  /\ eflag \in [Terms -> {0, 1}]
  /\ rstate \in [Terms -> {"user", "wait", "copied"}]
  /\ got \in [Terms -> BOOLEAN]
  /\ oob \in BOOLEAN
  /\ screen \in [x : Int, y : Int]
  /\ pos \in [Terms -> [x : Int, y : Int]]

\* The index that belongs to terminal t's buffer.
IdxOf(t) == IF t = cur_term THEN key_buffer_idx ELSE saved_idx[t]

(* Each terminal's line holds exactly its first index-many characters,    *)
(* across typing, Backspace, Enter, Alt+F (save_restore) and the          *)
(* clear_buf of terminal_read: the index the keyboard writes at is never  *)
(* stale for the buffer it writes into.                                   *)
IndexMatchesBuffer ==
  \A t \in Terms, i \in Line : buf[t][i] # NUL <=> i < IdxOf(t)

(* Enter, like every key, writes inside key_buffer: no write lands past   *)
(* its last slot however often Enter is pressed before a program reads.   *)
KeyWritesInBounds == ~oob

(* terminal_read: a program on terminal t gets only characters typed on   *)
(* terminal t.                                                             *)
ReadGetsOwnInput ==
  \A t \in Terms : ~got[t]


\* A cursor inside the NUM_COLS x NUM_ROWS text screen.
OnScreen(c) == c.x \in 0 .. NUM_COLS - 1 /\ c.y \in 0 .. NUM_ROWS - 1

(* The cursor lib.c draws at (screen_x, screen_y) and every terminal's    *)
(* saved pos_x/pos_y stay on the screen: through echo and output at the   *)
(* last column and row (enter, scroll_up), Backspace at column 0 of row 0 *)
(* after Ctrl+L (screen_y - 1 passed as a uint32_t), and Alt+F's          *)
(* save_restore putting one terminal's cursor back after another's.       *)
CursorOnScreen == OnScreen(screen) /\ \A t \in Terms : OnScreen(pos[t])

=============================================================================
