\* Open hooks that succeed, programs that may abandon a listing.
CONSTANTS
  Procs <- OneProc
  NUM_MAX_OPEN_FILES = 4
  Dentries <- MCDentries
  Names <- UserStrings
  Commands <- MCCommands
  StackBytes <- MCStackBytes
  ElfInodes <- MCElfInodes
  NAMESIZE = 2
  NameChars <- MCNameChars
  FileSize <- MCFileSize
  ReadSizes <- MCReadSizes
  HookMayFail = FALSE
  ListToEnd = FALSE
SPECIFICATION Spec
INVARIANT TypeOK
INVARIANT StdStreamsBound
INVARIANT TableMatchesProgramView
INVARIANT FilePositionInFile
INVARIANT ArgsRoundTrip
