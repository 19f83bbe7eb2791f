---------------------------- MODULE CommandLine ----------------------------
(***************************************************************************)
(* How execute (syscalls.c) splits its command into the program name and   *)
(* the argument, how the argument reaches the PCB (strcpy into argbuf) and *)
(* how getargs hands it back.  A command is the caller's buffer: the bytes *)
(* of the string, its '\0', and whatever the buffer holds after it; c[i+1] *)
(* is the C byte command[i].  The loop indices of execute are uint8_t;    *)
(* the buffers here are far shorter than 256 bytes, so they never wrap.    *)
(***************************************************************************)
EXTENDS FileSystem

SP       == 32                      \* ' '
ASCII_NL == 10                      \* '\n'

\* command[i], for a 0-based C index.
At(c, i) == c[i + 1]

\* The bytes that end a token in execute's scanning loops.
Ends(b) == b \in {SP, ASCII_NL, NUL}

\* while (command[cmd_start] == ' ') cmd_start++;
RECURSIVE skip_spaces(_, _)
skip_spaces(c, i) == IF At(c, i) = SP THEN skip_spaces(c, i + 1) ELSE i

\* while (command[cmd_end] != ' ' && command[cmd_end] != '\n' && ... != '\0') cmd_end++;
RECURSIVE token_end(_, _)
token_end(c, i) == IF Ends(At(c, i)) THEN i ELSE token_end(c, i + 1)

(* parsed_cmd once the name is copied: parsed_cmd[i - cmd_start] =          *)
(* command[i] for i in cmd_start .. cmd_end - 1, then parsed_cmd[cmd_end] *)
(* = '\0'.  With leading spaces the bytes between the name and index      *)
(* cmd_end are never written: they are what the stack held, stale[k] for  *)
(* the k-th of them (as many as there were leading spaces).               *)
parsed_cmd(c, stale) ==
  LET s == skip_spaces(c, 0)
      e == token_end(c, s)
  IN  [j \in 1 .. e + 1 |->
         IF j <= e - s THEN At(c, s + j - 1)
         ELSE IF j = e + 1 THEN NUL
         ELSE stale[j - (e - s)]]

\* Mutation of execute_arg: the argument scan starts at cmd_end, on the
\* byte that ended the name, instead of one past it.
execute_arg_at_end(c) ==
  LET e == token_end(c, skip_spaces(c, 0))
  IN  SubSeq(c, e + 1, token_end(c, e)) \o << NUL >>

(* arg: cmd_start = cmd_end + 1, one byte past whatever ended the name    *)
(* (past the '\0' when there is no argument), the next token copied, and  *)
(* arg[cmd_end - cmd_start] = '\0'.                                        *)
execute_arg(c) ==
  LET e  == token_end(c, skip_spaces(c, 0))
      s2 == e + 1
  IN  SubSeq(c, s2 + 1, token_end(c, s2)) \o << NUL >>

\* strcpy(dest, src): the bytes of src up to its '\0', and the '\0'.
strcpy(src) == SubSeq(src, 1, strlen(src)) \o << NUL >>

\* getargs(buf, n) with a non-NULL buf: -1 with buf untouched when argbuf
\* is empty, otherwise 0 and strcpy of argbuf into buf (n is not looked at).
getargs(argbuf) ==
  IF At(argbuf, 0) = NUL THEN [ret |-> FAILED, buf |-> << >>]
  ELSE [ret |-> 0, buf |-> strcpy(argbuf)]

-----------------------------------------------------------------------------
(* Reference: spec 4.2 and 8 *)

\* Spec 8's round trip is stated for commands "prog arg1": a name, one
\* space, one word, nothing else.
ProgArgShape(c) ==
  LET t == Text(c)
  IN  \E i \in 2 .. Len(t) - 1 :
        t[i] = SP /\ \A j \in DOMAIN t \ {i} : ~Ends(t[j])

\* The word after the space, which spec 8 says getargs returns.
SpecArg(c) ==
  LET t == Text(c)
      i == CHOOSE i \in DOMAIN t : t[i] = SP
  IN  SubSeq(t, i + 1, Len(t)) \o << NUL >>

=============================================================================
