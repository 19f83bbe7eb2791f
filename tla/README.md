# TLA+ models of student-distrib

This directory holds TLA+ models of the kernel in `src/student-distrib`. It
covers its process core: execute, halt, the PIT round-robin scheduler, the
Alt+F terminal switch, the paging windows they rewrite, and which
terminal's output lands on which screen. An abstract round-robin scheduler
is shown to be implemented by the kernel. It also covers the
file-descriptor calls with the file system's name lookup, the keyboard line discipline with terminal_read,
and the kernel-stack addresses that execute and halt write. The modules are
checked with TLC. Every definition is translated from the C source. The line
ranges each definition stands for are under `"map"` in `PROJECT.json`.

## 1. The system

### Parts

| Part | Source | State | Operations |
|---|---|---|---|
| PCB store | `syscalls.c` (`get_proc_num`, `get_pcb_ptr_process`), `syscalls.h` | `pid_array[6]`; one PCB per pid at `8MB-(pid+1)*8KB`: `process_number`, `parent_process_number`, `term`, `esp/ebp`, `parent_ksp/kbp`, `fds[8]`, `argbuf` | slot allocation in execute, release in halt |
| Process lifecycle | `syscalls.c` `execute`, `halt` | the PCB fields above, `terminal[t].apn`, `terminal[t].active` | execute: parse, ELF check, allocate, map, build PCB, iret. halt: free, close fds, give terminal to parent, jump to the parent's saved stack |
| Scheduler | `scheduler.c` | `cur_active_terminal`, `next_sched_terminal` | `PIT_scheduling` (IRQ0), `get_next_scheduled`, `process_contextswitch` |
| Terminals | `terminal.c`, `keyboard.c` | `terminal[3]` (`active`, `apn`, cursor, line buffer, `eflag`, backing video page), `cur_term`, `key_buffer` | `init_terminal`, `switch_terminal` (Alt+F1..F3 in IRQ1), `save_restore`, `terminal_read/write`, Enter/Backspace handling |
| Paging | `paging.c` | the 128MB program page, the 136MB video window, `tss.esp0` | `page_remap`, `table_remap`, `vidmem_remap` |
| File descriptors | `syscalls.c` `sys_open/read/write/close` | `pcb->fds[8]` | open, read, write, close |
| File system | `filesys.c` | a read-only image | `read_dentry_by_name`, `read_data`, directory reads |
| IDT, console | `idt.c`, `lib.c` | descriptors (gate types), screen cursor | exception messages, `printf` |
| Command line | `syscalls.c` `execute`, `getargs`; `lib.c` `strcpy` | `pcb->argbuf` | execute's split of the command into name and argument, getargs |

### How the parts interact

- Three terminals each own a chain of processes. The chain starts at a root
  shell (its own parent) and runs through the processes it executed to
  `terminal[t].apn`, the process that currently runs on that terminal.
- Each IRQ0 from the PIT:
  - picks the next active terminal;
  - saves `esp/ebp` into the PCB of the current terminal's `apn`;
  - maps the next process's 4MB frame at 128MB and points `tss.esp0` at its
    kernel stack;
  - points the 136MB window at the screen, or at the next terminal's backing
    page when that terminal is not displayed;
  - loads the next process's `esp/ebp`.
- System calls go through a trap gate, so they run with interrupts on. execute
  and halt make their own `cli()` sections.
- The PIT and the keyboard use interrupt gates. Their handlers start with
  `cli()`. Each ends its critical section with `sti()`, or returns through
  `iret`.
- execute does the following in one `cli()` section:
  - records the caller's `esp/ebp` in the child's PCB as `parent_ksp/kbp`;
  - links the child into `terminal[cur_term]`;
  - calls `sti()`;
  - then, still on the caller's kernel stack, `cli()`s again and `iret`s into
    the program.
- halt frees the slot, gives the terminal to the parent, remaps the parent's
  frame and calls `sti()`. Then it jumps to `parent_ksp/kbp`, which makes the
  parent's execute return.
- Alt+F to a terminal without a process saves the interrupted stream's
  `esp/ebp` into the scheduled terminal's PCB, calls `sti()`, then calls
  `execute("shell")`.

### Hard behaviours

- **`sti()` windows.** Three handlers enable interrupts while the CPU's stream
  is not in a state the scheduler expects:
  - execute, between its `sti()` and the `iret`;
  - halt, between its `sti()` and the jump to the parent;
  - switch_terminal, between its `sti()` and `execute("shell")`.
- **Global versus scheduled terminal.** execute, the Enter key and
  `terminal_read` work on `cur_term` or the global `key_buffer`, which
  belong to the displayed terminal. `vidmap` maps the physical screen. The
  caller may be a background process that the PIT scheduled.
- **Limits.** Six pids serve three terminals. A nested execute, or a shell on
  a new terminal, can find `pid_array` full.
- **Round robin.** `get_next_scheduled` scans `MAX_TERMINALS-1` successors.
  `PIT_scheduling` switches only when terminal 1 or 2 is active.

## 2. Modules

### `Kernel.tla`

`Kernel.tla` models the PCB store, execute/halt, the scheduler, the terminal
switch and the paging windows together. They share every variable, so they
form one module.

**The CPU as a stream.** The key modelling device is the `cpu` variable, a
*stream* `[pid, stack, phase, back]`:

- `pid` is the process the stream runs as, so its frame is mapped and
  `terminal.apn` points at it.
- `stack` is the kernel stack the stream's `esp/ebp` are on.
- `phase` is where the stream is:
  - `"user"`: in a program, or in a system call outside any `cli()` section;
  - `"iret"`: execute after its `sti()`;
  - `"haltJump"`: halt after its `sti()`;
  - `"spawn"`: switch_terminal after its `sti()`.
- `back` is the phase a spawn returns to when `execute("shell")` fails.

**Paging.** `page128` is `page_directory[32]` (128MB) and `vidwin` is
`page_directory[34]` (136MB) with entry 0 of the page table it points at.
Both hold the values `Paging.tla`'s `page_remap`, `table_remap` and
`vidmem_remap` write: `page_remap(8MB + n*4MB)` for pid `n`'s frame;
`table_remap(VIDEO)` after vidmap; `vidmem_remap(video_mem(t))`, terminal
t's buffer at `100MB + (t+1)*4KB`, when the context switch or
switch_terminal runs a program of a terminal that is not displayed.
`FrameOf` and `PageOf` read the physical address back out of an entry.

**Console output.** `text` says, for the physical screen (`VIDEO`) and
each terminal's off-screen buffer, whose terminal's output it holds
(`Mixed` once two terminals' output met there). `SysWrite` is `sys_write`
on fd 1, that is `terminal_write`: `putc` to the screen when the scheduled
terminal is displayed, `putc_terminal_active` to the scheduled terminal's
buffer otherwise. Both Alt+F paths apply `save_restore` (`SaveRestore`):
the screen is copied into the outgoing terminal's buffer and the incoming
terminal's buffer onto the screen. Characters, cursors and scrolling are
left out; only whose output is where matters to the property.

**Refinement.** `Scheduler.tla` is what the scheduler promises: a set of
started terminals and the running one; starting a terminal runs it; a tick
hands the CPU to the next started terminal in cyclic order. Kernel defines
`Sched == INSTANCE Scheduler WITH running <- cur_active_terminal,
started <- {t : active[t] = TERMINAL_ACTIVE}` and checks
`SchedulerRefinement == Sched!Spec` as a property.

**PCB fields.** Saving `esp/ebp` into a PCB stores the whole stream in
`saved[pid]`. `parent_ksp/kbp` is `pksp[pid]`.

**Variables.** `pid_array`, `parent`, `pterm`, `active`, `apn`, `cur_term`,
`cur_active_terminal`, `key_buffer`, `page128`, `vidwin` and `esp0` are the C
variables of the same name. `page128` and `vidwin` hold the entries (see
Paging above); `esp0 = n` means the top of pid `n`'s kernel stack (the
addresses are `KernelStack.tla`'s subject).

`vidmapped` is a history variable, not a C variable. It holds the pids that
called vidmap since execute gave them their slot. `VidmapShowsOwnTerminal`
uses it.

**Actions.** Each `cli()` section is one atomic action. Each `sti()` window is
a phase in which `PIT_scheduling` (`TickPhases`) or `switch_terminal`
(`KeyPhases`) may fire.

| Action / operator | Code |
|---|---|
| `SysExecute(cmd)`, `ExecuteFrom` | `execute` from `cli()` to `sti()`. "exit" calls halt. ELF check, `get_proc_num`, PCB set-up, `terminal[cur_term]` update, `tss.esp0` |
| `ExecIret` | execute's final `cli; iret` |
| `SysHalt`, `HaltBody` | `halt` from `cli()` to `sti()`, with the root-shell re-execute |
| `HaltJump` | halt's jump to `parent_ksp/kbp` (`RETURN_FROM_IRET`) |
| `SysVidmap` | `vidmap` with a valid pointer: `table_remap(136MB, VIDEO)` |
| `SysWrite`, `terminal_write`, `putc`, `putc_terminal_active` | `sys_write` to fd 1 and the console routines it reaches |
| `PIT_scheduling`, `get_next_scheduled`, `process_contextswitch` | `scheduler.c` |
| `switch_terminal(t)`, `SwitchToActive`, `SwitchToNew` | `keyboard_interrupt_handler` on Alt+F(t+1), and `switch_terminal` up to `sti()` |
| `SpawnShell` | the `execute("shell")` at the end of `switch_terminal`, and the return to the interrupted stream when it fails |
| `Init` | the state after `init_terminal` has started the first shell |

**Data that is abstracted.** Command strings are a small set and `Files` says
which names are ELF files. Screens are reduced to whose output they hold;
cursors and argument strings are left out.

**Constants.**

- `NUM_MAX_PROCESSES` is the pid count.
- `TickPhases` and `KeyPhases` choose which `sti()` windows an interrupt may
  hit.
- `BackgroundCalls` says whether a process of a non-displayed terminal may
  call execute or vidmap, or halt as a root shell. execute and halt use
  `cur_term`; vidmap maps the screen whatever terminal its caller is on.

### `MCKernel.tla`

`MCKernel.tla` instantiates the constants for TLC:

- a two-file system (`shell` is ELF, `frame0.txt` is data);
- the commands `shell`, `exit`, `frame0.txt` and `nosuch`;
- the phase sets for the runs.

### `FdTable.tla`

The descriptor layer: `fds[8]` of each PCB (`flag`, `table`, `inode`,
`offset`) and the static `directoryLoc` of `filesys.c`.

- Actions: `Execute` (execute's file check `Executable`, the argument
  `strcpy`'d into `argbuf`, the set-up of fds 0/1 and the reset of 2..7), `sys_open`, `sys_read` (file, directory and terminal branches),
  `DirectoryAdvance` (the `directoryLoc++` of `directory_read`, a separate
  step because a tick can fall before it), `sys_close` and `Halt`.
- `file_read` and `read_data` are operators: the offset moves by the
  number of bytes read, cut at the end of the file.
- `argbuf` is `pcb->argbuf`. `spec_arg` is a history variable: the word
  spec 8 says `getargs` returns, for a command of the form "name word".
- `opened` and `listing` record what each program was told (the fds it got
  back, the entries it read). The properties compare them with the kernel's
  table.
- `Init` gives each PCB slot garbage flags: a slot used for the first time
  holds whatever memory held.
- Constants: `Procs`, `NUM_MAX_OPEN_FILES`, the directory `Dentries`,
  `FileSize` per inode, `ReadSizes`, `Commands` (the command buffers
  passed to execute), `StackBytes` (what an unwritten byte of `parsed_cmd`
  may hold), `ElfInodes`, `HookMayFail` (may `rtc_open` or
  `rtc_close` fail) and `ListToEnd` (do programs list a directory to its
  end, as `ls` does).

`MCFdTable.tla` gives a directory with `.` (directory), `rtc` and two
files of sizes 3 and 1, read sizes 1 and 2, and one or two programs.
`aa` is the one ELF file. `MCCommands` is every command of up to four
letters and spaces, its NUL, then one byte or none and a NUL, so bytes
after the terminator are there to be misread. Unwritten bytes of
`parsed_cmd` are `'\0'` or a letter. `dir_cursor` starts programs with
the command `aa` only (`MCShellCommand`).

### `CommandLine.tla`

execute's command split (`syscalls.c:297-335`), `strcpy` (`lib.c`) and
`getargs` (`syscalls.c:505`), as operators over byte sequences. A command
is the caller's buffer: its bytes, its NUL and whatever follows.

- `skip_spaces` and `token_end` are the two scanning loops, recursive.
- `parsed_cmd(c, stale)` is the name as the code leaves it. The code writes
  the NUL at `parsed_cmd[cmd_end]`, which after leading spaces lies past
  the copied name. The bytes in between are never written; `stale` gives
  them, one per leading space.
- `execute_arg(c)` starts one byte past the byte that ended the name, even
  when that byte was the NUL, and takes one token.
- `getargs` returns -1 for an empty `argbuf`, otherwise 0 and a copy.
- `ProgArgShape` and `SpecArg` are the reference: commands "name word" and
  the word, as spec 8 states its round trip.

The loop indices are `uint8_t`; the buffers here are far below 256 bytes,
so they never wrap.

### `Paging.tla`

The constants of `paging.h`/`syscalls.h` and the three remapping routines of
`paging.c`, as the entry value they write. A page table's own address is
its name (`user_page_table`, `video_page_table`). Every address passed in is
page aligned, so `phys | flags` is written `phys + flags`.

### `FileSystem.tla`

`read_dentry_by_name` (`filesys.c`) with the `lib.c` routines it calls:
`strlen`, `strncpy` and `strncmp` as operators over byte sequences
(recursive where the C loops). A dentry's `fileName` is its 32-byte field,
NUL-padded and unterminated when full; the loop's `curName` is
`strncpy` of it with `curName[32] = '\0'`. `NameLookup` is the reference:
the first entry whose name is the string's text. `UserStrings` are all
strings of up to `NAMESIZE + 1` bytes over `NameChars`. `FdTable`'s
`sys_open` calls `read_dentry_by_name` on every one of them, and
`TableMatchesProgramView` compares the entry bound with `NameLookup`'s.
`MCFdTable` uses `NAMESIZE = 2` with names `.`, `aa` (full field), `a` and
`a.`, so a prefix, a full field and an over-long string all occur.

### `TerminalIO.tla`

The line discipline: the keyboard handler's printable keys, Backspace and
Enter (`keyboard.c`), the per-terminal `key_buffer`, `key_buffer_idx` and
`eflag` (`terminal.h`), the global `key_buffer`/`key_buffer_idx` that
`switch_terminal` points at the displayed terminal, and `terminal_read`.

- A typed character is the id of the terminal it was typed on; only its
  origin matters. `NUL` and `NL` stand for `'\0'` and `'\n'`.
- `Switch(t)` is the Alt+F path: `save_restore` saves the outgoing index
  and restores the incoming one.
- `terminal_read` is three steps (`ReadCall`, `ReadCopy`, `ReadClear`).
  System calls use a trap gate, so keys and switches fall between its
  wake-up, its copy and its `clear_buf`.
- `Enter` stores `'\n'` at `key_buffer_idx++` (a `uint8_t`, so `% 256`).
  When the index is past the last slot, the write lands outside the buffer:
  `oob` becomes true and the keyboard stops. What that write destroys is
  not modelled.
- `ReadClear` clears slots `0..KEY_BUFFER_SIZE-1` only, as `clear_buf`
  does. A `'\n'` in the spare last slot stays.
- `got[t]` is a history flag: terminal t's last read copied out keys typed
  on another terminal. It is all `ReadGetsOwnInput` needs of the copy.

The console cursor (`lib.c`) is part of the module. `screen` is
`screen_x`/`screen_y`, where the keyboard echoes and the displayed
terminal's program prints. `pos[t]` is `terminal[t].pos_x/pos_y`, where a
background program prints and `save_restore` keeps the cursor of a terminal
not on screen.

- `set_screen_pos`, `enter` and `scroll_up` are mutually recursive
  operators on a cursor record, as the C functions call each other.
  `set_screen_pos` takes `uint32_t` parameters. `BelowU32` is its
  comparison: a negative int passed in is above every bound.
- `backspace` at column 0 passes `screen_y - 1`. On row 0 that is -1, so
  the screen scrolls and the cursor goes to the start of the last row.
- `set_screen_pos_term_exec`, `enter_term_exec`, `scroll_up_term_exec` and
  `putc_terminal_active` are the same routines on `terminal[].pos`. The
  code keeps them as a separate copy, and so does the model.
- The keyboard actions echo: `TypeKey` calls `putc`, `Backspace` calls
  `backspace`, `Enter` calls `enter`. `ClearScreen` is Ctrl+L:
  `set_screen_pos(0, 0)`, with the line kept. `Switch` saves the cursor
  into the outgoing `pos` and restores the incoming one through
  `set_screen_pos`.
- `Write(t, ch)` is one character of `terminal_write` by terminal t's
  program, under `cli`: `putc` when t is displayed, `putc_terminal_active`
  on `pos[t]` otherwise. A longer string is several such steps.
- Characters, attributes and the rows `scroll_up` moves are not modelled.
  `ROW_START` comes from `lib.h`, which is not in the repository; its uses
  (`enter`, `backspace`) show it is column 0.

`MCTerminalIO.tla` gives two terminals. `KEY_BUFFER_SIZE = 2` (the code has
128) fills a line in two keys, and `ReadBytes = 3` makes a read copy the
whole line. The screen is `NUM_COLS = 2` by `NUM_ROWS = 1` (the code has
80 by 25).

### `KernelStack.tla`

The byte addresses behind the kernel stacks, on one terminal. Kernel keeps
contexts as pids; this module keeps the numbers `execute` and `halt` write.

- `chain` is the terminal's nesting of processes, shell first. `esp0` is
  `tss.esp0`, and `parent_ksp` is that field of each PCB.
- `Execute` saves `esp0 - ExecuteDepth` as the child's `parent_ksp`. This is
  the esp that execute's inline assembly reads, inside its own frame. It
  then sets `esp0` to `_8MB - _8KB*n - 4` (`syscalls.c:463`).
- `HaltChild` sets `esp0` to the child's `parent_ksp` (`syscalls.c:258`).
  `HaltShell` re-executes the shell on pid 0, which resets `esp0`.
- `get_pcb_ptr` masks with `Bitwise`'s `&`. `PCB_SIZE` (604) is `sizeof(pcb_t)`
  under i386 alignment.
- With a single terminal in use, `PIT_scheduling` never switches. It
  switches only when terminal 1 or 2 is active (`scheduler.c:57`). So no
  other step writes `esp0`.

`MCKernelStack.tla` sets `ExecuteDepth` to 384 bytes. That is the least
execute's frame can take: its locals `parsed_cmd[256]`, `arg[100]` and
`buffer[4]`, a return address, and the five-word trap frame. The real frame
is larger, so the real creep comes sooner.

## 3. Properties

| Property | Kind | States |
|---|---|---|
| `TypeOK` | invariant | the type of every variable (one per module) |
| `ContextsConsistent` | invariant | The CPU runs as the scheduled terminal's apn. Every other active terminal's apn has its own resumable context saved in its PCB. |
| `MemoryIsolation` | invariant | A program in user mode has its own frame at 128MB and its own kernel stack in `tss.esp0`. |
| `ProcessTree` | invariant | See below. |
| `ScreensHoldOwnText` | invariant | The screen holds only the displayed terminal's output and each other terminal's buffer only its own, through writes, ticks and Alt+F. |
| `SchedulerRefinement` | refinement | Kernel's behaviours are behaviours of `Scheduler` under the mapping above. |
| `TerminalStaysActive` | action | No step makes an active terminal inactive. |
| `EveryTerminalScheduled` | liveness | Every active terminal is eventually the scheduled one. |
| `HaltingStackNotReused` | invariant | No pid whose kernel stack a halting stream still uses is allocated again. |
| `DisplayedTerminalRuns` | invariant | Once switch_terminal is done, the displayed terminal runs a process. |
| `VidmapShowsOwnTerminal` | invariant | A program that called vidmap, whenever it runs in user mode, sees through 136MB the screen if its terminal is displayed and its terminal's buffer otherwise. |
| `StdStreamsBound` (FdTable) | invariant | While a program runs, fds 0 and 1 are open on the terminal tables. |
| `TableMatchesProgramView` (FdTable) | invariant | An fd from 2 up is open exactly when a `sys_open` returned it and no successful `sys_close` followed. It is bound to the entry `NameLookup` gives for the string opened. |
| `FilePositionInFile` (FdTable) | invariant | A file descriptor's offset never passes the end of its file. |
| `ArgsRoundTrip` (FdTable) | invariant | A program started with a command "name word" gets exactly the word from `getargs`, whatever the PCB slot ran before. |
| `ListingInOrder` (FdTable) | invariant | A program reading a directory gets the entries in order from the first, each once. |
| `IndexMatchesBuffer` (TerminalIO) | invariant | Each terminal's line holds exactly its index-many characters, across switches and reads. |
| `KeyWritesInBounds` (TerminalIO) | invariant | No key writes past `key_buffer`. |
| `CursorOnScreen` (TerminalIO) | invariant | The console cursor and every terminal's saved cursor stay inside the screen, through echo, Enter, Ctrl+L, Backspace at column 0, program output and Alt+F. |
| `ReadGetsOwnInput` (TerminalIO) | invariant | `terminal_read` on terminal t returns only characters typed on t. |

`ProcessTree` holds that every active terminal's apn leads through allocated
PCBs of that terminal to a root. It also requires:

- a non-root's `parent_ksp` belongs to its parent;
- the chains of different terminals are disjoint;
- every allocated pid lies on some chain, so no pid leaks.

## 4. Runs

Every Kernel run uses `NUM_MAX_PROCESSES = 3` and three terminals.

**Why 3 pids are enough.**

- Three pids let each terminal run a shell. They also let one terminal run a
  nested program while another terminal's shell holds a slot.
- They make `pid_array` full with few steps, which the resource cases need.
- Six pids (the code's value) add only longer nestings of the same kind.
  4 pids gives more than 9 million states and does not finish in the time
  allowed.

| Run | Config | Expect | Question |
|---|---|---|---|
| `kernel_safety` | `Kernel_safety.cfg` | pass | With foreground calls, and ticks allowed in user mode and in execute's `sti()` window, do contexts, isolation and the process tree stay consistent, does every screen hold only its own terminal's output, does the kernel implement `Scheduler`, and is every active terminal scheduled eventually? (about 365k distinct states, about 2.5 minutes) |
| `bg_execute` | `Kernel_bg_execute.cfg` | violation | Can a background process's execute corrupt the scheduler's view? |
| `halt_window` | `Kernel_halt_window.cfg` | violation | Can a tick in halt's `sti()` window let the halting stack be reused? |
| `spawn_window` | `Kernel_spawn_window.cfg` | violation | Can a tick in switch_terminal's `sti()` window lose a saved context? |
| `spawn_full` | `Kernel_spawn_full.cfg` | violation | What does Alt+F to a new terminal do when no pid is free? |
| `vidmap_background` | `Kernel_vidmap_background.cfg` | violation | What does vidmap give a program of a background terminal? |
| `fd_safety` | `FdTable_safety.cfg` | pass | With open hooks that succeed, do fds 0/1 stay bound, does the table match what the program was told and the name opened (every string of up to 3 bytes), do offsets stay in the file, and does `getargs` return the argument of every "name word" command? (about 24k states, 1 minute) |
| `dir_cursor` | `FdTable_dir_cursor.cfg` | violation | Do two programs listing the directory each see it whole? |
| `terminal_safety` | `TerminalIO_safety.cfg` | pass | Does each line's index match its buffer through keys, switches and reads, and does every cursor stay on the screen through echo, Ctrl+L, program output and switches? (about 2.9M states, 90 seconds) |
| `enter_overflow` | `TerminalIO_enter_overflow.cfg` | violation | Can Enter write past `key_buffer`? |
| `read_other_terminal` | `TerminalIO_read_other.cfg` | violation | Does `terminal_read` return its own terminal's line? |
| `kernel_stack_creep` | `KernelStack_creep.cfg` | violation | Does a system call of the shell keep clear of its PCB however many commands it has run? |

**vidmap.** `SysVidmap` fires in `kernel_safety`, where only the
displayed terminal's programs call it. `VidmapShowsOwnTerminal` is checked
in `vidmap_background`, where every program may call it. It fails there
(finding 9). With foreground calls only, it still fails through finding 4:
three nested programs take every pid, Alt+F to a new terminal fails, and the
old terminal's program resumes with 136MB on the new terminal's screen.

**FdTable bounds.** `fd_safety` uses one program. The fd table is per PCB,
so a second program only interleaves calls on its own table; the shared
state (`directoryLoc`) is the question of `dir_cursor`, which uses two.
Four slots (two user fds) let a program fill its table and hit "no free
fd". Two read sizes against file sizes 3 and 1 reach the end of a file
exactly and past it.

**TerminalIO bounds.** Two terminals are enough for every path that mixes a
displayed and a background terminal. A line of two slots is full after two
keys, so Enter's overflow and Backspace at index 0 happen within a few
steps. A screen of two columns and one row puts every cursor step at a
boundary: the second character of a row wraps, and every Enter and every
wrap scrolls. Backspace at column 0 is always on row 0, the `uint32_t`
case. That is reachable after Ctrl+L, or after an Enter that scrolled.
What one row leaves out is Backspace moving up to the previous row, whose
arguments are in range. A 2×2 screen did not finish within 400 seconds, past a run's
time limit. `terminal_safety` does not check deadlock: after the out-of-bounds
write the model stops the keyboard, and readers then wait for ever.

**What the passing runs show.** execute's own `sti()` window is harmless in
every interleaving:

- The `iret` stream already runs as the terminal's apn.
- A tick that saves it there resumes it correctly later.
- The child's frame and `esp0` are in place before the window opens.

`MemoryIsolation` shows that every path back to user mode restores the frame
and `esp0` of the process that runs there. These paths are the context switch,
execute and halt's jump.

**Mutants.** Each property of a passing run is broken by a mutant of the code
(listed in `PROJECT.json`):

- `get_proc_num` running one slot past the end breaks `TypeOK`.
- A context switch that does not update `cur_active_terminal` breaks
  `ContextsConsistent`.
- A context switch that keeps the old frame breaks `MemoryIsolation`.
- A halt that does not free its slot breaks `ProcessTree`.
- An execute that does not mark a new root's terminal active breaks
  `TerminalStaysActive`.
- A scheduler condition that looks only at terminal 1 breaks
  `EveryTerminalScheduled`.
- `read_data` without the cut at the end of the file breaks
  `FilePositionInFile` and `TypeOK` of FdTable.
- `sys_close` accepting fd 1 breaks `StdStreamsBound`.
- `terminal_write` always writing to the screen breaks `ScreensHoldOwnText`.
- `get_next_scheduled` taking the last active successor instead of the
  first breaks `SchedulerRefinement`.
- `read_dentry_by_name` without its length comparison (a prefix matches)
  breaks `TableMatchesProgramView`.
- execute resetting fewer descriptors breaks `TableMatchesProgramView`.
- execute's argument scan starting on the byte that ended the name (no
  `+ 1`) breaks `ArgsRoundTrip`.
- Backspace without its `idx > 0` check breaks `TypeOK` of TerminalIO.
- A switch that does not save the outgoing index breaks
  `IndexMatchesBuffer`.
- `set_screen_pos` with signed parameters breaks `CursorOnScreen`: Enter
  scrolls and leaves the cursor at column 0 with a character in the line,
  and Backspace then moves the cursor to row -1.

## 5. Findings

1. **execute uses the displayed terminal** (`syscalls.c:417`, run
   `bg_execute`).
   - The sequence: a shell on a background terminal runs a program. The child
     becomes `terminal[cur_term].apn`, and its parent is the displayed
     terminal's process, but the CPU keeps running it as the scheduled one.
   - The next tick saves its context into the PCB of the scheduled terminal's
     (unchanged) apn.
   - When the displayed terminal is scheduled, it resumes a context that
     belongs to another process.
2. **halt frees its pid before it leaves the pid's stack**
   (`syscalls.c:228` and `260`, run `halt_window`).
   - A tick after halt's `sti()` can schedule another terminal's process.
   - That process's execute takes the freed pid and writes `parent_ksp` and
     its call frames onto the stack the halting stream is still on.
   - The spec says the pid is available only after halt completes.
3. **switch_terminal enables interrupts before execute** (`terminal.c:123`,
   run `spawn_window`).
   - A tick between the two saves the keyboard handler's stream into the PCB
     that holds the interrupted process's context.
   - That context is lost: the process resumes, later, inside the spawn
     instead of where it was.
4. **A new terminal when pids are exhausted** (`terminal.c:108` and `126`,
   run `spawn_full`).
   - `cur_term` already names the new terminal when `execute("shell")`
     fails. The terminal is displayed with `apn = -1`.
   - Enter there evaluates `get_pcb_ptr_process(-1)` (`keyboard.c:220`).
     That address is `8MB`, the page just above the kernel's, and it is not
     mapped.
5. **The shell's kernel stack creeps into its PCB** (`syscalls.c:258`, run
   `kernel_stack_creep`).
   - halt sets `tss.esp0` to the child's `parent_ksp`. That is the esp inside
     the parent's execute frame, not the top of the parent's stack.
   - The parent's next trap starts there, and its next execute saves an esp
     lower still. Each command costs at least 384 of the shell's 8KB.
   - TLC finds the 20th execute's frame reaching the PCB's end after 19
     commands (39 steps). That frame then overwrites `term`, `esp`, `ebp` and
     `argbuf`.
6. **One directory cursor for the whole kernel** (`filesys.c:107`, run
   `dir_cursor`).
   - `directory_read` ignores its fd and reads at the static
     `directoryLoc`, which `directory_open` never resets.
   - `p1` reads entry 0, then `p2` opens the directory and gets entry 1:
     each `ls` misses entries.
7. **Enter has no bound** (`keyboard.c:221`, run `enter_overflow`).
   - Printable keys stop at `KEY_BUFFER_SIZE`; Enter stores `'\n'` at
     `key_buffer_idx++` always.
   - Type a full line, press Enter twice: the second `'\n'` lands past
     `key_buffer[KEY_BUFFER_SIZE]`, in the rest of the `term_t`.
8. **terminal_read reads the displayed terminal's line**
   (`terminal.c:194`, run `read_other_terminal`).
   - It waits on its own terminal's `eflag`, then copies the global
     `key_buffer` and `clear_buf` empties it.
   - Enter on terminal 0, Alt+F2, a key on terminal 1: terminal 0's shell
     reads terminal 1's characters and erases them from terminal 1's line.
9. **vidmap maps the screen for background programs** (`syscalls.c:535`,
   run `vidmap_background`).
   - vidmap always maps 136MB to `VIDEO`. process_contextswitch maps it to
     the off-screen buffer for a program whose terminal is not displayed.
   - A background program that calls vidmap draws on the displayed
     terminal's screen until the next tick remaps the window.
   - A failed Alt+F to a new terminal (finding 4) has the same effect for
     the program that resumes.

## 6. Fairness

`PIT_scheduling` has strong fairness:

- The PIT fires every 20 ms.
- An IRQ0 raised while interrupts are off is held by the PIC and taken at the
  next `sti()`.
- So a tick that is enabled infinitely often is eventually taken.

Weak fairness applies to the kernel continuations `ExecIret`, `HaltJump` and
`SpawnShell`, which are straight-line code.

User programs (`SysExecute`, `SysHalt`) and the keyboard get no fairness.
Nothing obliges a user to type or a program to exit.

## 7. Not modelled, and the plan

Not modelled, by design:

- `lib.c`'s `printf` conversions, characters, attributes and the rows
  `scroll_up` moves, and `idt.c`'s descriptor set-up, are formatting and
  layout. `putc_terminal_active` writes a background character's
  attribute at the physical screen's cursor (`lib.c:552`); that is about
  colours, listed as a hazard. `terminal_write` passes the
  user buffer to `printf` as its format and ignores `num_bytes`
  (`terminal.c:218`); that is about characters, listed as a hazard.
- Exceptions. Their gates are trap gates (`idt.c:51`), so a PIT tick can
  preempt a fault handler before `stop()`'s `cli`, and other terminals run
  on, while spec section 7 says a fault halts the machine. Kernel keeps the
  gate types (`TrapGatePhases`). A fault phase in every stream was tried:
  it took `kernel_safety` from 365 thousand states to 2.7 million without
  the blue screen, and to over 22 million with it, past a five-minute run.
- Keyboard modifiers (Shift, Ctrl, Alt, Caps Lock) and scancode
  translation in `keyboard_interrupt_handler`. `keyboard.h`, which defines
  the scancodes and `scan2ascii`, is not in the repository. Ctrl+L's
  effect is modelled as the key it produces (`ClearScreen`).
- File-system block arithmetic reads a fixed image. Execute sees only the
  name → ELF map `Files`.
- A failing open or close hook. sys_open marks the slot open before it calls
  the hook, and returns -1 if the hook fails, leaving the slot open
  (`syscalls.c:70`, `85`). Only `rtc_open` and `rtc_close` can fail, and
  `rtc.c` is not in the repository. `FdTable`'s `HookMayFail` models that
  path, but no run asserts it.
- An abandoned directory listing. directory_open does not reset the cursor
  (`filesys.c:79`), so a listing stopped early resumes where it stopped.
  `ListToEnd = FALSE` would reach that case; `dir_cursor` keeps it `TRUE`
  so that its trace shows the shared cursor.
- The scheduler's fallback when no other terminal is active
  (`scheduler.c:138`). It cannot be reached: terminal 0 always runs a shell,
  and `PIT_scheduling` calls `get_next_scheduled` only when terminal 1 or 2
  is active.
- The cases where execute's parser and spec 4.2 disagree. `CommandLine`
  models them, and the model reaches each of them:
  - after leading spaces, unwritten stack bytes join the name, so `" a"`
    can run `aa`;
  - a command without an argument gets the bytes after its NUL as one;
  - only one token is taken where spec 4.2 says the trimmed remainder.
  Each would need a violation run of its own, and the run budget is spent
  on the findings above. `ArgsRoundTrip` checks the case spec 8 states.
- Arguments over 99 bytes overflow `arg[100]` and `argbuf[100]`
  (`syscalls.c:333`). Enumerated commands are four bytes long.

Planned next:

1. **Compose `FdTable` with `Kernel`**, so that execute and halt of the
   process model drive the descriptor tables.
2. **Multi-terminal `KernelStack`**. `process_contextswitch` sets `esp0`
   to the stack top of the next process, so the creep of finding 5 is
   reset once a second terminal is active; a model of that would show it.
