----------------------------- MODULE MCFdTable -----------------------------
(* Instance of FdTable for TLC: one or two programs, a four-slot fd array (two    *)
(* slots a program can open) and a directory of four entries: ".", the     *)
(* rtc device and two regular files of different sizes, with names of at  *)
(* most two bytes over two letters ('.' = 1, 'a' = 2), a full field ahead *)
(* of a name it starts with; programs open every string of up to three   *)
(* letters; programs are started with every command of up to four letters *)
(* and spaces.                                                             *)
EXTENDS FdTable

\* The descriptor tables of different programs share nothing: one program
\* checks the table; two share directoryLoc.
OneProc == {"p1"}
TwoProcs == {"p1", "p2"}

MCNameChars == {1, 2}

MCDentries ==
  << [fileName |-> << 1, 0 >>, filetype |-> FILE_TYPE_DIR,  inodeNumber |-> 0],  \* "."
     [fileName |-> << 2, 2 >>, filetype |-> FILE_TYPE_FILE, inodeNumber |-> 1],  \* "aa"
     [fileName |-> << 2, 0 >>, filetype |-> FILE_TYPE_RTC,  inodeNumber |-> 0],  \* "a"
     [fileName |-> << 2, 1 >>, filetype |-> FILE_TYPE_FILE, inodeNumber |-> 2] >> \* "a."

MCFileSize == [i \in 0 .. 2 |-> IF i = 1 THEN 3 ELSE IF i = 2 THEN 1 ELSE 0]

MCReadSizes == {1, 2}

\* "aa" (inode 1) is the one executable.
MCElfInodes == {1}

\* An unwritten byte of parsed_cmd: '\0' or a letter.
MCStackBytes == {NUL, 2}

(* Command buffers: up to four bytes of letters 'a' and spaces, the '\0',  *)
(* then what the caller's buffer still holds past it (nothing, or an 'a'  *)
(* of a longer earlier command) and a '\0'.                               *)
\* Only "aa", for runs about something else.
MCShellCommand == {<< 2, 2, NUL, NUL >>}

MCCommands ==
  {c \o << NUL >> \o s \o << NUL >> : c \in BoundedSeq({2, SP}, 4), s \in BoundedSeq({2}, 1)}
=============================================================================
