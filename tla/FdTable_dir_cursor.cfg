\* Two programs that each read the directory to its end, as ls does.
CONSTANTS
  Procs <- TwoProcs
  NUM_MAX_OPEN_FILES = 4
  Dentries <- MCDentries
  Names <- UserStrings
  Commands <- MCShellCommand
  StackBytes <- MCStackBytes
  ElfInodes <- MCElfInodes
  NAMESIZE = 2
  NameChars <- MCNameChars
  FileSize <- MCFileSize
  ReadSizes <- MCReadSizes
  HookMayFail = FALSE
  ListToEnd = TRUE
SPECIFICATION Spec
INVARIANT ListingInOrder
