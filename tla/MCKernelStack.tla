---------------------------- MODULE MCKernelStack ----------------------------
(* KernelStack with the program count of syscalls.h and the smallest       *)
(* frame execute can have: its locals parsed_cmd[256], arg[100] and        *)
(* buffer[4], the return address into the system-call linkage and the     *)
(* five-word frame of the int 0x80 trap.                                   *)
EXTENDS KernelStack

MCExecuteDepth == 256 + 100 + 4 + 4 + 5 * 4

=============================================================================
