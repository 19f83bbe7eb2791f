------------------------------ MODULE FdTable ------------------------------
(***************************************************************************)
(* The file-descriptor layer of student-distrib: the fds[] array of each   *)
(* PCB, sys_open/sys_read/sys_write/sys_close (syscalls.c), its set-up in  *)
(* execute and its reset in halt, and the file-system calls they dispatch  *)
(* to (filesys.c): file_read with its per-descriptor offset and            *)
(* directory_read with its cursor directoryLoc, one static variable for   *)
(* the whole kernel.                                                        *)
(*                                                                         *)
(* Each element of Procs is a PCB slot whose program makes system calls;   *)
(* calls of different processes interleave (system calls run with          *)
(* interrupts enabled and the PIT switches processes).  directory_read is  *)
(* split at the point where a tick may fall between read_dentry_by_index  *)
(* and directoryLoc++.  Dentries is the directory of the file-system      *)
(* image; sys_open looks a program's string up in it with                 *)
(* read_dentry_by_name (module FileSystem), and execute the program name *)
(* it parses out of its command (module CommandLine), whose argument it   *)
(* copies into the PCB for getargs.                                        *)
(***************************************************************************)
EXTENDS Integers, Sequences, FiniteSets, FiniteSetsExt, CommandLine

CONSTANTS
  Procs,                \* PCB slots whose programs make the calls
  NUM_MAX_OPEN_FILES,   \* size of fds[] (8 in syscalls.h)
  Dentries,             \* directory entries: [fileName, filetype, inodeNumber]
  Names,                \* the strings programs pass to open
  Commands,             \* the command buffers programs pass to execute
  StackBytes,           \* what an unwritten byte of execute's parsed_cmd may hold
  ElfInodes,            \* inodes whose data start with 0x7F 'E' 'L' 'F'
  FileSize,             \* inode number -> file size in bytes
  ReadSizes,            \* nbytes arguments a program passes to read
  HookMayFail,          \* may rtc_open / rtc_close return an error?
  ListToEnd             \* do programs read a directory to its end (as ls does)?

FILE_TYPE_RTC  == 0                            \* syscalls.h
FILE_TYPE_DIR  == 1
FILE_TYPE_FILE == 2
FD_OCCUP       == 0                            \* closed (sic)
FD_AVAIL       == 1                            \* open
NULL           == 0
OFFSET_START   == 0

ASSUME NUM_MAX_OPEN_FILES \in Nat /\ NUM_MAX_OPEN_FILES >= 3
ASSUME \A i \in DOMAIN Dentries :
         Dentries[i].filetype \in {FILE_TYPE_RTC, FILE_TYPE_DIR, FILE_TYPE_FILE}
ASSUME HookMayFail \in BOOLEAN /\ ListToEnd \in BOOLEAN

Fds      == 0 .. NUM_MAX_OPEN_FILES - 1
UserFds  == 2 .. NUM_MAX_OPEN_FILES - 1
NoName   == << >>                              \* no string: the fd was not opened
Inodes   == DOMAIN FileSize
MaxPos   == Max({FileSize[i] : i \in Inodes})
\* Bound of the model: a program takes no more entries from the directory
\* than it has before it reads the end.
MaxListing == Len(Dentries)
\* The fops tables of syscalls.c, by name.
Fops     == {"STDIN", "STDOUT", "rtc", "dir", "file", "error"}
Closed   == [flags |-> FD_OCCUP, fops |-> "error", inode |-> -1, pos |-> OFFSET_START]
FdRecs   == [flags : {FD_OCCUP, FD_AVAIL}, fops : Fops,
             inode : Inodes \cup {-1, NULL}, pos : 0 .. MaxPos]
Idle     == -1                                 \* no directory_read in progress
NoClaim  == << >>                              \* spec 8 says nothing of the argument

VARIABLES
  running,      \* the slot holds a program that has been executed and not halted
  fds,          \* pcb->fds
  directoryLoc, \* filesys.c: static int directoryLoc
  dirpc,        \* the entry index a directory_read has fetched, or Idle
  opened,       \* the program's view: fd -> the string it opened there (NoName: none)
  listing,      \* entries a program got from the directory since it opened it
  argbuf,       \* pcb->argbuf
  spec_arg      \* history: the argument spec 8 says the program's command gave

vars == << running, fds, directoryLoc, dirpc, opened, listing, argbuf, spec_arg >>

-----------------------------------------------------------------------------
(* File system (filesys.c) *)

\* read_dentry_by_index: an entry exists at every index below the count.
DentryExists(i) == i < Len(Dentries)

\* Mutation of read_data: the length is not cut at the end of the file.
read_data_unclamped(inode, offset, length) ==
  IF offset >= FileSize[inode] THEN 0 ELSE length

\* read_data: bytes copied from offset, cut at the end of the file.
read_data(inode, offset, length) ==
  IF offset >= FileSize[inode] THEN 0
  ELSE IF length + offset > FileSize[inode] THEN FileSize[inode] - offset
  ELSE length

\* file_read: read from the descriptor's position and advance it.
file_read(p, fd, n) ==
  LET d == fds[p][fd]
  IN  fds' = [fds EXCEPT ![p][fd].pos = @ + read_data(d.inode, d.pos, n)]

-----------------------------------------------------------------------------
(* Descriptor set-up in execute and reset in halt *)

\* Mutation of ExecuteFds: the loop stops one slot short.
ExecuteFdsShort(f) ==
  [i \in Fds |-> CASE i = 0 -> [Closed EXCEPT !.flags = FD_AVAIL, !.fops = "STDIN"]
                   [] i = 1 -> [Closed EXCEPT !.flags = FD_AVAIL, !.fops = "STDOUT"]
                   [] i = NUM_MAX_OPEN_FILES - 1 -> f[i]
                   [] OTHER -> Closed]

\* execute: every fd closed with the error table, then 0/1 bound to the terminal.
ExecuteFds(f) ==
  [i \in Fds |-> CASE i = 0 -> [Closed EXCEPT !.flags = FD_AVAIL, !.fops = "STDIN"]
                   [] i = 1 -> [Closed EXCEPT !.flags = FD_AVAIL, !.fops = "STDOUT"]
                   [] OTHER -> Closed]

(* execute's file check: the name parsed out of c (with the stale bytes  *)
(* of parsed_cmd) is found by read_dentry_by_name, and the first four     *)
(* bytes of its inode are the ELF magic.                                  *)
Executable(c, stale) ==
  LET d == read_dentry_by_name(parsed_cmd(c, stale), Dentries)
  IN  d # FAILED /\ Dentries[d].inodeNumber \in ElfInodes

(* execute(c) that loads a program into the free slot p: the argument is *)
(* strcpy'd into argbuf and the fds are set up.  A failing execute        *)
(* returns -1 and changes nothing here.  The "exit" and "term_num"        *)
(* comparisons never match names made of the bytes used here.             *)
Execute(p, c, stale) ==
  /\ ~running[p]
  /\ Executable(c, stale)
  /\ running' = [running EXCEPT ![p] = TRUE]
  /\ argbuf' = [argbuf EXCEPT ![p] = strcpy(execute_arg(c))]
  /\ fds' = [fds EXCEPT ![p] = ExecuteFds(@)]
  /\ opened' = [opened EXCEPT ![p] = [i \in UserFds |-> NoName]]
  /\ spec_arg' = [spec_arg EXCEPT ![p] = IF ProgArgShape(c) THEN SpecArg(c) ELSE NoClaim]
  /\ UNCHANGED << directoryLoc, dirpc, listing >>

\* Mutation of ClosableFd: the lower bound lets fd 1 through.
ClosableFdFromOne(fd) == fd >= 1 /\ fd <= NUM_MAX_OPEN_FILES - 1

\* sys_close's range check: STDIN/STDOUT are never closed.
ClosableFd(fd) == fd >= 2 /\ fd <= NUM_MAX_OPEN_FILES - 1

\* halt: sys_close every open fd (the result is ignored), then reset every
\* slot to FD_OCCUP with the error table; inode and position are left.
Halt(p) ==
  /\ running[p] /\ dirpc[p] = Idle
  /\ ListToEnd => listing[p] = << >>
  /\ running' = [running EXCEPT ![p] = FALSE]
  /\ fds' = [fds EXCEPT ![p] =
               [i \in Fds |-> [@[i] EXCEPT !.flags = FD_OCCUP, !.fops = "error"]]]
  /\ UNCHANGED << directoryLoc, dirpc, opened, listing, argbuf, spec_arg >>

-----------------------------------------------------------------------------
(* System calls of a running program *)

\* Calls are made by a program that is not inside directory_read.
Ready(p) == running[p] /\ dirpc[p] = Idle

\* The slot sys_open's loop claims: the lowest closed fd from 2, or none.
FreeFd(p) ==
  LET free == {i \in UserFds : fds[p][i].flags = FD_OCCUP}
  IN  IF free = {} THEN FAILED ELSE CHOOSE i \in free : \A j \in free : i <= j

\* The fops table and inode sys_open binds for a directory entry.
Bind(rec, e) ==
  CASE e.filetype = FILE_TYPE_RTC -> [rec EXCEPT !.inode = NULL, !.fops = "rtc"]
    [] e.filetype = FILE_TYPE_DIR -> [rec EXCEPT !.inode = NULL, !.fops = "dir"]
    [] OTHER -> [rec EXCEPT !.inode = e.inodeNumber, !.fops = "file"]

(* sys_open(fname): look the name up, claim a slot (flag and position set), *)
(* then call the type's open hook and bind the table.  rtc_open may fail   *)
(* when HookMayFail; directory_open and file_open return 0.  A failed hook *)
(* returns -1 with the slot already claimed.                               *)
sys_open(p, fname) ==
  LET d  == read_dentry_by_name(fname, Dentries)
      fd == FreeFd(p)
  IN  /\ Ready(p)
      /\ ListToEnd => listing[p] = << >>
      /\ \/ /\ d = FAILED \/ fd = FAILED
            /\ UNCHANGED << fds, opened, listing >>
         \/ /\ d # FAILED /\ fd # FAILED
            /\ LET e       == Dentries[d]
                   claimed == [fds[p][fd] EXCEPT !.flags = FD_AVAIL, !.pos = OFFSET_START]
               IN  \/ /\ e.filetype = FILE_TYPE_RTC /\ HookMayFail
                      /\ fds' = [fds EXCEPT ![p][fd] = claimed]
                      /\ UNCHANGED << opened, listing >>
                   \/ /\ fds' = [fds EXCEPT ![p][fd] = Bind(claimed, e)]
                      /\ opened' = [opened EXCEPT ![p][fd] = fname]
                      /\ listing' = IF e.filetype = FILE_TYPE_DIR
                                    THEN [listing EXCEPT ![p] = << >>] ELSE listing
      /\ UNCHANGED << running, directoryLoc, dirpc, argbuf, spec_arg >>

\* sys_read/sys_write's check: fd in range and open.
Usable(p, fd) == fd \in Fds /\ fds[p][fd].flags = FD_AVAIL

(* sys_read(fd, n).  An unusable fd, or a table whose read is has_error,  *)
(* returns -1.  STDIN (terminal_read) and rtc_read change no descriptor.  *)
(* file_read advances the position.  directory_read first fetches the     *)
(* entry at directoryLoc; an entry is completed by DirectoryAdvance, the  *)
(* end of the directory resets directoryLoc to 0 and returns 0.           *)
sys_read(p, fd, n) ==
  /\ Ready(p)
  /\ \/ /\ IF Usable(p, fd) THEN fds[p][fd].fops \in {"STDOUT", "error", "STDIN", "rtc"}
                             ELSE TRUE
        /\ UNCHANGED << fds, directoryLoc, dirpc, listing >>
     \/ /\ Usable(p, fd) /\ fds[p][fd].fops = "file"
        /\ file_read(p, fd, n)
        /\ UNCHANGED << directoryLoc, dirpc, listing >>
     \/ /\ Usable(p, fd) /\ fds[p][fd].fops = "dir"
        /\ IF DentryExists(directoryLoc)
           THEN /\ Len(listing[p]) < MaxListing
                /\ dirpc' = [dirpc EXCEPT ![p] = directoryLoc]
                /\ UNCHANGED << directoryLoc, listing >>
           ELSE /\ directoryLoc' = 0
                /\ listing' = [listing EXCEPT ![p] = << >>]
                /\ UNCHANGED dirpc
        /\ UNCHANGED fds
  /\ UNCHANGED << running, opened, argbuf, spec_arg >>

\* The rest of directory_read: the name is copied out, directoryLoc++.
DirectoryAdvance(p) ==
  /\ dirpc[p] # Idle
  /\ listing' = [listing EXCEPT ![p] = Append(@, dirpc[p])]
  /\ directoryLoc' = directoryLoc + 1
  /\ dirpc' = [dirpc EXCEPT ![p] = Idle]
  /\ UNCHANGED << running, fds, opened, argbuf, spec_arg >>

(* sys_close(fd): range check, then the open check, then the flag is      *)
(* cleared and the table's close is called; its error is returned with   *)
(* the slot already free.  rtc_close may fail when HookMayFail; the error *)
(* table's close is has_error.                                            *)
sys_close(p, fd) ==
  /\ Ready(p)
  /\ ListToEnd /\ fd \in Fds /\ fds[p][fd].fops = "dir" => listing[p] = << >>
  /\ \/ /\ IF ClosableFd(fd) THEN fds[p][fd].flags = FD_OCCUP ELSE TRUE
        /\ UNCHANGED << fds, opened >>
     \/ /\ ClosableFd(fd) /\ fds[p][fd].flags = FD_AVAIL
        /\ fds' = [fds EXCEPT ![p][fd].flags = FD_OCCUP]
        /\ \/ /\ fds[p][fd].fops = "error"
                 \/ (fds[p][fd].fops = "rtc" /\ HookMayFail)
              /\ UNCHANGED opened
           \/ /\ fds[p][fd].fops # "error"
              /\ opened' = [opened EXCEPT ![p][fd] = NoName]
  /\ UNCHANGED << running, directoryLoc, dirpc, listing, argbuf, spec_arg >>

-----------------------------------------------------------------------------
(* Before a slot is used for the first time its PCB holds whatever the     *)
(* memory held: a descriptor flag may read as open.  argbuf is written by  *)
(* execute before anything reads it, so one value stands for all.         *)
Init ==
  /\ running = [p \in Procs |-> FALSE]
  /\ fds \in [Procs -> [Fds -> {Closed, [Closed EXCEPT !.flags = FD_AVAIL]}]]
  /\ directoryLoc = 0
  /\ dirpc = [p \in Procs |-> Idle]
  /\ opened = [p \in Procs |-> [i \in UserFds |-> NoName]]
  /\ listing = [p \in Procs |-> << >>]
  /\ argbuf = [p \in Procs |-> << NUL >>]
  /\ spec_arg = [p \in Procs |-> NoClaim]

(* sys_write dispatches to a table's write (terminal_write, or an error)   *)
(* and changes no descriptor, so it is not an action here.                  *)
Next ==
  \E p \in Procs :
    \/ \E c \in Commands :
         \E stale \in [1 .. skip_spaces(c, 0) -> StackBytes] : Execute(p, c, stale)
    \/ Halt(p)
    \/ \E fname \in Names : sys_open(p, fname)
    \/ \E fd \in -1 .. NUM_MAX_OPEN_FILES, n \in ReadSizes : sys_read(p, fd, n)
    \/ DirectoryAdvance(p)
    \/ \E fd \in -1 .. NUM_MAX_OPEN_FILES : sys_close(p, fd)

Spec == Init /\ [][Next]_vars

-----------------------------------------------------------------------------
(* Properties *)

TypeOK ==
  /\ running \in [Procs -> BOOLEAN]
  /\ fds \in [Procs -> [Fds -> FdRecs]]
  /\ directoryLoc \in 0 .. Len(Dentries) + Cardinality(Procs)
  /\ dirpc \in [Procs -> {Idle} \cup (0 .. Len(Dentries) - 1)]
  /\ opened \in [Procs -> [UserFds -> Names \cup {NoName}]]
  /\ listing \in [Procs -> Seq(0 .. Len(Dentries) - 1)]
  /\ argbuf \in [Procs -> Seq(Int)]
  /\ spec_arg \in [Procs -> Seq(Int)]

(* Spec 3/8: while a program runs, fds 0 and 1 are open on the terminal's  *)
(* input and output tables (execute binds them, sys_close refuses them).   *)
StdStreamsBound ==
  \A p \in Procs : running[p] =>
    /\ fds[p][0].flags = FD_AVAIL /\ fds[p][0].fops = "STDIN"
    /\ fds[p][1].flags = FD_AVAIL /\ fds[p][1].fops = "STDOUT"

(* The kernel's table agrees with what the program was told (execute,     *)
(* sys_open, sys_close, halt): an fd from 2 up is open exactly when a     *)
(* sys_open returned it and no sys_close of it succeeded since the program *)
(* started, and it is bound to the table and inode of the directory entry *)
(* whose name is the string opened (NameLookup, not read_dentry_by_name). *)
(* Spec 7: a failed call corrupts no kernel state.                        *)
TableMatchesProgramView ==
  \A p \in Procs : running[p] => \A fd \in UserFds :
    /\ fds[p][fd].flags = FD_AVAIL <=> opened[p][fd] # NoName
    /\ opened[p][fd] # NoName =>
         LET d == NameLookup(opened[p][fd], Dentries)
         IN  /\ d # FAILED
             /\ fds[p][fd] = [Bind(fds[p][fd], Dentries[d]) EXCEPT !.pos = fds[p][fd].pos]

(* file_read/read_data: a file descriptor's offset never passes the end   *)
(* of its file, however reads of different sizes are mixed.                *)
FilePositionInFile ==
  \A p \in Procs, fd \in Fds :
    fds[p][fd].flags = FD_AVAIL /\ fds[p][fd].fops = "file" =>
      fds[p][fd].pos <= FileSize[fds[p][fd].inode]

(* directory_read: a program that opens the directory and reads it gets   *)
(* the entries in order from the first, each once, until the read that   *)
(* returns 0.                                                              *)
ListingInOrder ==
  \A p \in Procs : listing[p] = [i \in 1 .. Len(listing[p]) |-> i - 1]

(* Spec 8: getargs after execute("prog arg1") returns exactly "arg1".  For *)
(* a program started with a command that is a name, one space and one     *)
(* word, what execute's parser and strcpy left in argbuf, read back by    *)
(* getargs, is that word, whatever commands the PCB slot ran before.      *)
ArgsRoundTrip ==
  \A p \in Procs : running[p] /\ spec_arg[p] # NoClaim =>
    LET got == getargs(argbuf[p])
    IN  got.ret = 0 /\ got.buf = spec_arg[p]

=============================================================================
