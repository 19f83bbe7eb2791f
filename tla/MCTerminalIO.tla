---------------------------- MODULE MCTerminalIO ----------------------------
(* Instance of TerminalIO for TLC: two terminals (the behaviours involve a *)
(* terminal and one other), a two-character buffer and the read size of   *)
(* the shell relative to it (nbytes - 1 = KEY_BUFFER_SIZE, as 128 is).     *)
EXTENDS TerminalIO

TwoTerms == {0, 1}
=============================================================================
