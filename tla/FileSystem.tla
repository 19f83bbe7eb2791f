----------------------------- MODULE FileSystem -----------------------------
(***************************************************************************)
(* Name lookup in student-distrib's read-only file system:                 *)
(* read_dentry_by_name (filesys.c) and the lib.c string routines it uses.  *)
(* A string is a sequence of byte values and NUL is '\0'; s[i + 1] is the  *)
(* C byte s[i].  A directory entry's fileName is its NAMESIZE-byte field   *)
(* of the image: NUL-padded, with no terminator when the name fills it.    *)
(* A user string carries its terminator.  Reading a byte past the end of  *)
(* a sequence is an error of the model, as it would be a read out of      *)
(* bounds in the code.                                                     *)
(***************************************************************************)
EXTENDS Integers, Sequences, SequencesExt, FiniteSetsExt

CONSTANTS
  NAMESIZE,     \* filesys.h (32): bytes of a dentry's name field
  NameChars     \* the non-NUL byte values names are made of

NUL    == 0
FAILED == -1

\* strlen: count bytes up to the first '\0'.
RECURSIVE strlen_from(_, _)
strlen_from(s, len) == IF s[len + 1] = NUL THEN len ELSE strlen_from(s, len + 1)

strlen(s) == strlen_from(s, 0)

(* strncpy(dest, src, n): copy src while src[i] != '\0' and i < n, then   *)
(* pad with '\0' up to n.  (The code reads src[i] before testing i < n,   *)
(* one byte past a full field; that byte never reaches dest.)             *)
strncpy(src, n) ==
  LET k == Min({i \in 0 .. n : i = n \/ src[i + 1] = NUL})
  IN  [i \in 1 .. n |-> IF i <= k THEN src[i] ELSE NUL]

\* strncmp: the difference at the first of n bytes that differs or is '\0'.
RECURSIVE strncmp_from(_, _, _, _)
strncmp_from(s1, s2, n, i) ==
  IF i >= n THEN 0
  ELSE IF s1[i + 1] # s2[i + 1] \/ s1[i + 1] = NUL
       THEN s1[i + 1] - s2[i + 1]
       ELSE strncmp_from(s1, s2, n, i + 1)

strncmp(s1, s2, n) == strncmp_from(s1, s2, n, 0)

\* The name of entry i as the loop sees it: strncpy of the field and
\* curName[NAMESIZE] = '\0'.
curName(dir, i) == Append(strncpy(dir[i].fileName, NAMESIZE), NUL)

\* Mutation of read_dentry_by_name: the length comparison is dropped, so a
\* name that starts with fname matches it.
read_dentry_by_name_prefix(fname, dir) ==
  LET length == strlen(fname)
      hits   == {i \in 1 .. Len(dir) : strncmp(fname, curName(dir, i), length) = 0}
  IN  IF length > NAMESIZE \/ hits = {} THEN FAILED ELSE Min(hits)

(* read_dentry_by_name(fname, dentry): -1 for a name longer than          *)
(* NAMESIZE; otherwise the first entry (1-based here; the code copies it  *)
(* to dentry) whose name has fname's length and agrees with it on those  *)
(* bytes, or -1.                                                           *)
read_dentry_by_name(fname, dir) ==
  LET length == strlen(fname)
      hits   == {i \in 1 .. Len(dir) :
                   /\ length = strlen(curName(dir, i))
                   /\ strncmp(fname, curName(dir, i), length) = 0}
  IN  IF length > NAMESIZE \/ hits = {} THEN FAILED ELSE Min(hits)

-----------------------------------------------------------------------------
(* Reference definition and bounded inputs *)

\* The text of a string or a name field: the bytes before its first '\0'.
Text(s) == IF \E i \in DOMAIN s : s[i] = NUL
           THEN SubSeq(s, 1, Min({i \in DOMAIN s : s[i] = NUL}) - 1)
           ELSE s

\* What a lookup by name means: the first entry whose name is fname's text.
NameLookup(fname, dir) ==
  LET m == {i \in DOMAIN dir : Text(dir[i].fileName) = Text(fname)}
  IN  IF Len(Text(fname)) > NAMESIZE \/ m = {} THEN FAILED ELSE Min(m)

\* The strings a program may pass, one byte longer than a field can hold
\* included.
UserStrings == {Append(s, NUL) : s \in BoundedSeq(NameChars, NAMESIZE + 1)}

=============================================================================
