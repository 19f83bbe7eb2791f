----------------------------- MODULE KernelStack -----------------------------
(***************************************************************************)
(* The kernel stacks of student-distrib's processes and the TSS esp0 that  *)
(* says where the next trap from user mode starts its stack, on one        *)
(* terminal.  Process p's PCB sits at the bottom of the 8KB block          *)
(* _8MB - (p+1)*_8KB; its kernel stack grows down from the top of that     *)
(* block towards the PCB.                                                  *)
(*                                                                         *)
(* execute runs on the caller's kernel stack, saves its own esp in the     *)
(* child's PCB (parent_ksp) and sets esp0 to the top of the child's block; *)
(* halt sets esp0 to the child's parent_ksp and jumps back into the        *)
(* parent's execute.  With a single terminal in use PIT_scheduling never   *)
(* switches (it does so only when terminal 1 or 2 is active), so nothing   *)
(* else writes esp0.  Data are byte addresses.                             *)
(***************************************************************************)
EXTENDS Integers, Sequences, SequencesExt, Bitwise

CONSTANTS
  NUM_MAX_PROCESSES,  \* syscalls.h (6)
  ExecuteDepth        \* bytes between the trap's esp0 and the esp execute saves

ASSUME NUM_MAX_PROCESSES \in Nat \ {0} /\ ExecuteDepth \in Nat \ {0}

_8KB == 8192
_8MB == 8388608
\* PCB_PTR_MASK is 0xFFFFE000; kernel stacks lie below 2^31, where its top
\* bit clears nothing, so the mask is taken as 0x7FFFE000 to fit TLC's
\* integers.
PCB_PTR_MASK == 2147475456

\* sizeof(pcb_t) with i386 alignment: fds[8] of 28 bytes, filenames[8][32],
\* parent_ksp, parent_kbp, two uint8_t, argbuf[100], then term, esp and
\* ebp aligned to 4.
AlignUp(n, a) == ((n + a - 1) \div a) * a
PCB_SIZE == AlignUp(8 * (4 * 4 + 3 * 4) + 8 * 32 + 4 + 4 + 1 + 1 + 100, 4) + 3 * 4

Pids == 0 .. NUM_MAX_PROCESSES - 1

get_pcb_ptr_process(p) == _8MB - (p + 1) * _8KB

\* get_pcb_ptr: the PCB a kernel path finds by masking its esp.
get_pcb_ptr(esp) == esp & PCB_PTR_MASK

\* The esp0 execute gives process n.
StackTop(n) == _8MB - _8KB * n - 4

VARIABLES
  chain,       \* the terminal's processes, shell first, running one last
  esp0,        \* tss.esp0
  parent_ksp   \* parent_ksp field of each PCB

vars == << chain, esp0, parent_ksp >>

\* get_proc_num: the lowest pid whose pid_array slot is free.
get_proc_num(used) == CHOOSE n \in Pids \ used : \A m \in Pids \ used : n <= m

-----------------------------------------------------------------------------
(* The running process traps into execute; the program is found, a pid    *)
(* is free.  execute's frame lies below esp0, and its esp there is saved  *)
(* as the child's parent_ksp.  (The failing paths return -1 and change    *)
(* nothing modelled here.)                                                *)
Execute ==
  /\ ToSet(chain) # Pids
  /\ LET n == get_proc_num(ToSet(chain)) IN
       /\ parent_ksp' = [parent_ksp EXCEPT ![n] = esp0 - ExecuteDepth]
       /\ esp0' = StackTop(n)
       /\ chain' = Append(chain, n)

(* halt of a child: its pid is freed, esp0 := its parent_ksp, and the     *)
(* parent resumes in its execute.                                         *)
HaltChild ==
  /\ Len(chain) > 1
  /\ esp0' = parent_ksp[Last(chain)]
  /\ chain' = Front(chain)
  /\ UNCHANGED parent_ksp

(* halt of the terminal's shell: its pid is freed and execute("shell")    *)
(* starts a new shell on the halt's stack, which never returns.           *)
HaltShell ==
  /\ Len(chain) = 1
  /\ LET n == get_proc_num({}) IN
       /\ parent_ksp' = [parent_ksp EXCEPT ![n] = esp0 - ExecuteDepth]
       /\ esp0' = StackTop(n)
       /\ chain' = << n >>

\* Boot: the first shell is executed on pid 0.
Init ==
  /\ chain = << 0 >>
  /\ esp0 = StackTop(0)
  /\ parent_ksp = [p \in Pids |-> 0]

Next == Execute \/ HaltChild \/ HaltShell

Spec == Init /\ [][Next]_vars

-----------------------------------------------------------------------------
(* Properties *)

TypeOK ==
  /\ chain \in Seq(Pids) /\ Len(chain) \in 1 .. NUM_MAX_PROCESSES
  /\ esp0 \in Nat
  /\ parent_ksp \in [Pids -> Nat]

(* A system call of the running process, however many programs it has     *)
(* run and seen halt, starts at an esp0 inside its own 8KB block          *)
(* (get_pcb_ptr finds its PCB) and has room for execute's frame above     *)
(* the PCB: halt's esp0 := parent_ksp never lets the stack creep into it. *)
KernelStackAbovePcb ==
  LET p == Last(chain) IN
    /\ get_pcb_ptr(esp0) = get_pcb_ptr_process(p)
    /\ esp0 - ExecuteDepth >= get_pcb_ptr_process(p) + PCB_SIZE

=============================================================================
