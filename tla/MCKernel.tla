------------------------------ MODULE MCKernel ------------------------------
(* Instantiation of Kernel for TLC: one executable ("shell"), one data      *)
(* file, the "exit" command and a name that is not in the file system.     *)
EXTENDS Kernel, TLC

MCFiles == ("shell" :> "elf") @@ ("frame0.txt" :> "data")

MCCommands == {"shell", "exit", "frame0.txt", "nosuch"}

\* The phases with interrupts enabled through the gates, and execute's sti()
\* window, in which the code is believed safe.
SafePhases == TrapGatePhases \cup {"iret"}

\* Interrupts also taken between sti() and the jump at the end of halt.
HaltWindowPhases == SafePhases \cup {"haltJump"}

\* Interrupts also taken between sti() in switch_terminal and execute's cli().
SpawnWindowPhases == SafePhases \cup {"spawn"}
=============================================================================
