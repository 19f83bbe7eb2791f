------------------------------- MODULE Kernel -------------------------------
(***************************************************************************)
(* The process core of student-distrib: the PCB store (pid_array, PCBs at  *)
(* fixed addresses), execute and halt (syscalls.c), the PIT round-robin    *)
(* scheduler and context switch (scheduler.c), the user-visible terminal   *)
(* switch (terminal.c) and the page-directory windows they rewrite        *)
(* (paging.c).                                                             *)
(*                                                                         *)
(* The CPU runs one "stream" at a time: a register context (esp/ebp) that *)
(* runs as some process on some kernel stack.  A stream is saved into a    *)
(* PCB by process_contextswitch or switch_terminal and restored by         *)
(* process_contextswitch; the continuation of the caller of execute is    *)
(* kept in the child's PCB (parent_ksp/parent_kbp) and resumed by halt.    *)
(* Interrupts are taken only in the phases of TickPhases and KeyPhases:   *)
(* the cli() sections of execute, halt, PIT_scheduling and the keyboard    *)
(* handler are single atomic steps.                                        *)
(***************************************************************************)
EXTENDS Integers, FiniteSets, FiniteSetsExt, Paging

CONSTANTS
  NUM_MAX_PROCESSES,    \* capacity of pid_array (6 in syscalls.h)
  Files,                \* the file system: file name -> "elf" or "data"
  Commands,             \* command strings a user program passes to execute
  TickPhases,           \* stream phases in which IRQ0 (PIT) is taken
  KeyPhases,            \* stream phases in which IRQ1 (keyboard) is taken
  BackgroundCalls       \* may a process of a non-displayed terminal call
                        \* execute or vidmap, or halt as the root shell?

ASSUME NUM_MAX_PROCESSES \in Nat \ {0}
ASSUME "shell" \in DOMAIN Files /\ Files["shell"] = "elf"
ASSUME TickPhases \cup KeyPhases \subseteq {"user", "iret", "haltJump", "spawn"}
ASSUME BackgroundCalls \in BOOLEAN

MAX_TERMINALS   == 3                          \* scheduler.h
Terms           == 0 .. MAX_TERMINALS - 1
video_mem(t)    == _100MB + (t + 1) * _4KB    \* terminal[t].video_mem
Pids            == 0 .. NUM_MAX_PROCESSES - 1
NoProc          == -1                         \* terminal[i].apn before a shell runs
FREE            == 0                          \* pid_array / terminal[].active values
AVIL            == 1
TERMINAL_ACTIVE == 1
Mixed           == -3                         \* a screen holding text of two terminals

(* Phases of a stream.  "user": user mode (or a syscall not yet in a cli   *)
(* section).  "iret": execute after sti(), before the iret to the new     *)
(* program.  "haltJump": halt after sti(), before the jump to the parent. *)
(* "spawn": switch_terminal after sti(), before execute("shell").         *)
(* "none": an esp/ebp pair that was never saved.                          *)
Phases  == {"user", "iret", "haltJump", "spawn"}

(* init_idt: user mode runs with IF set, and the system-call vector is a  *)
(* trap gate, which leaves IF as it was: IRQs are taken in a program and  *)
(* in a system call before its cli().  The PIT and keyboard vectors are   *)
(* interrupt gates, so their handlers start with IF clear.                *)
TrapGatePhases == {"user"}

ASSUME TrapGatePhases \subseteq TickPhases \cap KeyPhases
Streams == [pid : Pids, stack : Pids, phase : Phases \cup {"none"}, back : Phases]
NoCtx   == [pid |-> 0, stack |-> 0, phase |-> "none", back |-> "user"]
UserStream(p) == [pid |-> p, stack |-> p, phase |-> "user", back |-> "user"]

VARIABLES
  pid_array,            \* pid_array[]: FREE / AVIL
  parent,               \* pcb->parent_process_number
  pterm,                \* pcb->term (as a terminal index)
  saved,                \* pcb->esp/ebp: the stream saved into the PCB
  pksp,                 \* pcb->parent_ksp/parent_kbp: the caller of execute
  active,               \* terminal[t].active
  apn,                  \* terminal[t].apn
  cur_term,             \* the displayed terminal
  cur_active_terminal,  \* the scheduled terminal
  key_buffer,           \* key_buffer: the terminal whose line buffer it points to
  page128,              \* page_directory[32], the PDE of 128MB
  vidwin,               \* page_directory[34] (136MB) with entry 0 of its table
  esp0,                 \* tss.esp0: the kernel stack region it points into
  cpu,                  \* the stream the CPU is running
  text,                 \* whose text is on the screen (VIDEO) and in each terminal's buffer
  vidmapped             \* history: the pids that called vidmap since execute

vars == << pid_array, parent, pterm, saved, pksp, active, apn, cur_term,
           cur_active_terminal, key_buffer, page128, vidwin, esp0, cpu, text, vidmapped >>

-----------------------------------------------------------------------------
(* PCB store *)

\* Mutation of get_proc_num: the loop runs to i <= NUM_MAX_PROCESSES and finds
\* the (zeroed) word past the end of pid_array free.
get_proc_num_past_end(pa) ==
  IF \E i \in Pids : pa[i] = FREE
  THEN Min({i \in Pids : pa[i] = FREE})
  ELSE NUM_MAX_PROCESSES

\* get_proc_num: the lowest free slot of the bitmap pa, or -1.
get_proc_num(pa) ==
  IF \E i \in Pids : pa[i] = FREE
  THEN Min({i \in Pids : pa[i] = FREE})
  ELSE NoProc

\* Mutation of FreeSlot: halt forgets to release the slot.
FreeSlotKept(pa, p) == pa

\* pid_array[current_pcb->process_number] = FREE in halt.
FreeSlot(pa, p) == [pa EXCEPT ![p] = FREE]

\* Mutation of MarkActive: execute forgets to mark the terminal active.
MarkActiveDropped(act, t) == act

\* terminal[cur_term].active = AVIL in execute.
MarkActive(act, t) == [act EXCEPT ![t] = AVIL]

\* read_dentry_by_name succeeds and the first 4 bytes are 0x7F 'E' 'L' 'F'.
Executable(cmd) == cmd \in DOMAIN Files /\ Files[cmd] = "elf"

-----------------------------------------------------------------------------
(* execute and halt *)

(* execute from cli() to sti(), for a command other than "exit".  pa, act *)
(* and ap are pid_array, terminal[].active and terminal[].apn as the      *)
(* caller left them (halt rewrites them before it calls execute); caller  *)
(* is the calling stream, whose esp/ebp become the child's parent_ksp/kbp,*)
(* and onFail the stream that runs on when execute returns -1.  The file *)
(* is looked up and checked before a slot is taken.  The child becomes   *)
(* the top of the DISPLAYED terminal's chain (cur_term), and the root of *)
(* it when that terminal has no process yet.  What follows sti() is the  *)
(* "iret" phase of the stream, still on the caller's kernel stack.       *)
ExecuteFrom(cmd, pa, act, ap, caller, onFail) ==
  LET n     == get_proc_num(pa)
      first == act[cur_term] = FREE
  IN  \/ /\ ~Executable(cmd) \/ n = NoProc
         /\ cpu' = onFail
         /\ pid_array' = pa /\ active' = act /\ apn' = ap
         /\ UNCHANGED << parent, pterm, pksp, cur_active_terminal, page128, esp0,
                         vidmapped >>
      \/ /\ Executable(cmd) /\ n # NoProc
         /\ pid_array' = [pa EXCEPT ![n] = AVIL]
         /\ pksp' = [pksp EXCEPT ![n] = caller]
         /\ page128' = page_remap(_8MB + n * _4MB)
         /\ parent' = [parent EXCEPT ![n] = IF first THEN n ELSE ap[cur_term]]
         /\ cur_active_terminal' = IF first THEN cur_term ELSE cur_active_terminal
         /\ active' = IF first THEN MarkActive(act, cur_term) ELSE act
         /\ pterm' = [pterm EXCEPT ![n] = cur_term]
         /\ apn' = [ap EXCEPT ![cur_term] = n]
         /\ esp0' = n
         /\ cpu' = [pid |-> n, stack |-> caller.stack, phase |-> "iret", back |-> "user"]
         /\ vidmapped' = [vidmapped EXCEPT ![n] = FALSE]

\* The end of execute: cli, build the iret frame and enter the program.
ExecIret ==
  /\ cpu.phase = "iret"
  /\ cpu' = UserStream(cpu.pid)
  /\ UNCHANGED << pid_array, parent, pterm, saved, pksp, active, apn, cur_term,
                  cur_active_terminal, key_buffer, text, page128, vidwin, esp0, vidmapped >>

(* halt from cli() to sti().  The halting PCB is the apn of the scheduled  *)
(* terminal.  A root shell (its own parent) re-executes "shell" inside     *)
(* the critical section; any other process returns its slot, gives the    *)
(* terminal back to its parent, maps the parent's frame, points esp0 at    *)
(* the parent's saved kernel stack and leaves the cli section still on   *)
(* its own (now free) kernel stack: the "haltJump" phase.                 *)
HaltBody ==
  LET c   == apn[cur_active_terminal]
      par == parent[c]
      pa  == FreeSlot(pid_array, c)
      ap  == [apn EXCEPT ![cur_active_terminal] = par]
  IN  \/ /\ c = par
         /\ ExecuteFrom("shell", pa, [active EXCEPT ![cur_active_terminal] = FREE],
                        ap, cpu, cpu)
         /\ UNCHANGED << saved, cur_term, key_buffer, text, vidwin >>
      \/ /\ c # par
         /\ pid_array' = pa
         /\ apn' = ap
         /\ page128' = page_remap(_8MB + par * _4MB)
         /\ esp0' = pksp[c].stack
         /\ cpu' = [pid |-> par, stack |-> c, phase |-> "haltJump", back |-> "user"]
         /\ UNCHANGED << parent, pterm, saved, pksp, active, cur_term,
                         cur_active_terminal, key_buffer, text, vidwin, vidmapped >>

\* The end of halt: esp/ebp <- current_pcb->parent_ksp/kbp, jmp RETURN_FROM_IRET,
\* so the caller of execute returns to its program.  The PCB is read here.
HaltJump ==
  /\ cpu.phase = "haltJump"
  /\ cpu' = [pksp[cpu.stack] EXCEPT !.phase = "user", !.back = "user"]
  /\ UNCHANGED << pid_array, parent, pterm, saved, pksp, active, apn, cur_term,
                  cur_active_terminal, key_buffer, text, page128, vidwin, esp0, vidmapped >>

\* Environment assumption, not code: may the running process make a call
\* whose handler works on cur_term?  With BackgroundCalls FALSE only processes
\* of the displayed terminal call execute, read or halt (see ExecuteFrom for
\* what the code does when they are not).
MayCall(p) == BackgroundCalls \/ pterm[p] = cur_term

\* The execute system call; "exit" is turned into a call to halt.
SysExecute(cmd) ==
  /\ cpu.phase = "user"
  /\ MayCall(cpu.pid)
  /\ \/ cmd = "exit" /\ HaltBody
     \/ /\ cmd # "exit"
        /\ ExecuteFrom(cmd, pid_array, active, apn, cpu, cpu)
        /\ UNCHANGED << saved, cur_term, key_buffer, text, vidwin >>

(* vidmap with a valid pointer: table_remap(136MB, VIDEO) maps the window  *)
(* to the physical screen, whichever terminal the caller belongs to.  The  *)
(* call with a NULL pointer returns -1 and changes nothing.               *)
SysVidmap ==
  /\ cpu.phase = "user"
  /\ MayCall(cpu.pid)
  /\ vidwin' = table_remap(VIDEO)
  /\ vidmapped' = [vidmapped EXCEPT ![cpu.pid] = TRUE]
  /\ UNCHANGED << pid_array, parent, pterm, saved, pksp, active, apn, cur_term,
                  cur_active_terminal, key_buffer, text, page128, esp0, cpu >>

-----------------------------------------------------------------------------
(* Output: terminal_write on fd 1 (write's other file types change no     *)
(* state).  A character of terminal w's program stored on a screen that  *)
(* holds another terminal's text leaves that screen Mixed.                *)

Written(old, w) == IF old = w THEN w ELSE Mixed

\* putc (through printf): a character at screen_x/screen_y of video_mem, the screen.
putc(w) == [text EXCEPT ![VIDEO] = Written(@, w)]

\* putc_terminal_active: a character at terminal[cur_active_terminal].pos_x/y
\* of that terminal's video_mem buffer.
putc_terminal_active(w) == [text EXCEPT ![cur_active_terminal] = Written(@, w)]

\* Mutation of terminal_write: printf whichever terminal is scheduled.
terminal_write_to_screen(w) == putc(w)

(* terminal_write, under cli(): printf to the screen when the scheduled    *)
(* terminal is the displayed one, printf_terminal_active to the scheduled *)
(* terminal's buffer otherwise.                                            *)
terminal_write(w) ==
  IF cur_term = cur_active_terminal THEN putc(w) ELSE putc_terminal_active(w)

\* write(1, buf, n) of the running program.
SysWrite ==
  /\ cpu.phase = "user"
  /\ text' = terminal_write(pterm[cpu.pid])
  /\ UNCHANGED << pid_array, parent, pterm, saved, pksp, active, apn, cur_term,
                  cur_active_terminal, key_buffer, page128, vidwin, esp0, cpu, vidmapped >>

\* The halt system call.
SysHalt ==
  /\ cpu.phase = "user"
  /\ MayCall(cpu.pid) \/ parent[cpu.pid] # cpu.pid
  /\ HaltBody

-----------------------------------------------------------------------------
(* Scheduler *)

\* Mutation of get_next_scheduled: the scan keeps the last active terminal it
\* finds instead of stopping at the first.
get_next_scheduled_last_hit(c) ==
  LET hits == {k \in 1 .. MAX_TERMINALS - 1 :
                 active[(c + k) % MAX_TERMINALS] = TERMINAL_ACTIVE}
      k    == IF hits = {} THEN MAX_TERMINALS - 1 ELSE Max(hits)
  IN  (c + k) % MAX_TERMINALS

\* get_next_scheduled: the first active terminal after c (at most
\* MAX_TERMINALS - 1 steps), or the last one looked at.
get_next_scheduled(c) ==
  LET hits == {k \in 1 .. MAX_TERMINALS - 1 :
                 active[(c + k) % MAX_TERMINALS] = TERMINAL_ACTIVE}
      k    == IF hits = {} THEN MAX_TERMINALS - 1 ELSE Min(hits)
  IN  (c + k) % MAX_TERMINALS

(* The window process_contextswitch leaves for a process of terminal u:    *)
(* vidmap's table_remap(136MB, VIDEO), then vidmem_remap(136MB,            *)
(* terminal->video_mem) when u is not the displayed terminal.             *)
ScreenStart(u) ==
  IF u # cur_term THEN vidmem_remap(video_mem(u)) ELSE table_remap(VIDEO)

\* Mutation of process_contextswitch: cur_active_terminal is not updated.
SwitchKeepsTerminal(n, t) ==
  LET old == apn[cur_active_terminal]
      s   == [saved EXCEPT ![old] = cpu]
  IN  /\ page128' = page_remap(_8MB + n * _4MB)
      /\ vidwin' = ScreenStart(pterm[n])
      /\ esp0' = n
      /\ saved' = s
      /\ cpu' = s[n]
      /\ UNCHANGED cur_active_terminal

\* Mutation of process_contextswitch: the frame of the outgoing process
\* stays mapped.
SwitchKeepsFrame(n, t) ==
  LET old == apn[cur_active_terminal]
      s   == [saved EXCEPT ![old] = cpu]
  IN  /\ UNCHANGED page128
      /\ vidwin' = ScreenStart(pterm[n])
      /\ cur_active_terminal' = t
      /\ esp0' = n
      /\ saved' = s
      /\ cpu' = s[n]

(* process_contextswitch(n) to terminal t (next_sched_terminal): map n's  *)
(* frame at 128MB, map 136MB to the display and then to the buffer of n's *)
(* terminal if that is not the displayed one, point esp0 at n's stack,   *)
(* save esp/ebp into the PCB of the old terminal's apn, load n's.         *)
process_contextswitch(n, t) ==
  LET old == apn[cur_active_terminal]
      s   == [saved EXCEPT ![old] = cpu]
  IN  /\ page128' = page_remap(_8MB + n * _4MB)
      /\ vidwin' = ScreenStart(pterm[n])
      /\ cur_active_terminal' = t
      /\ esp0' = n
      /\ saved' = s
      /\ cpu' = s[n]

\* Mutation of MultipleTerminalsActive: only terminal 1 is looked at.
OnlyTerminalOneChecked == active[1] = TERMINAL_ACTIVE

\* The condition of PIT_scheduling: terminal 1 or 2 runs a process.
MultipleTerminalsActive ==
  active[1] = TERMINAL_ACTIVE \/ active[2] = TERMINAL_ACTIVE

\* IRQ0: PIT_scheduling.  When the condition fails the tick changes nothing.
PIT_scheduling ==
  /\ cpu.phase \in TickPhases
  /\ MultipleTerminalsActive
  /\ LET t == get_next_scheduled(cur_active_terminal)
     IN  process_contextswitch(apn[t], t)
  /\ UNCHANGED << pid_array, parent, pterm, pksp, active, apn, cur_term, key_buffer, text,
                  vidmapped >>

-----------------------------------------------------------------------------
(* Terminal switch (Alt+F1..F3 in the keyboard handler) *)

(* save_restore(cur_term, 0) then save_restore(t, 1): the screen is copied *)
(* into cur_term's buffer, and t's buffer onto the screen.                  *)
SaveRestore(t) == [text EXCEPT ![cur_term] = text[VIDEO], ![VIDEO] = text[t]]

(* switch_terminal(t) to a terminal that runs a process: save the screen  *)
(* and line index of cur_term, restore t's, point key_buffer at t, map    *)
(* 136MB to the display and then to the scheduled terminal's buffer when *)
(* that is not t.                                                         *)
SwitchToActive(t) ==
  /\ active[t] = TERMINAL_ACTIVE
  /\ key_buffer' = t
  /\ cur_term' = t
  /\ text' = SaveRestore(t)
  /\ vidwin' = IF cur_active_terminal # t
                THEN vidmem_remap(video_mem(cur_active_terminal))
                ELSE table_remap(VIDEO)
  /\ UNCHANGED << pid_array, parent, pterm, saved, pksp, active, apn,
                  cur_active_terminal, page128, esp0, cpu, vidmapped >>

(* switch_terminal(t) to a terminal without a process: save cur_term's    *)
(* screen, make t displayed, save esp/ebp of the interrupted stream into  *)
(* the PCB of the scheduled terminal's apn and sti(): the stream goes on  *)
(* in the "spawn" phase towards execute("shell").                         *)
SwitchToNew(t) ==
  /\ active[t] # TERMINAL_ACTIVE
  /\ cur_term' = t
  /\ key_buffer' = t
  /\ text' = SaveRestore(t)
  /\ saved' = [saved EXCEPT ![apn[cur_active_terminal]] = cpu]
  /\ cpu' = [cpu EXCEPT !.phase = "spawn", !.back = cpu.phase]
  /\ UNCHANGED << pid_array, parent, pterm, pksp, active, apn,
                  cur_active_terminal, page128, vidwin, esp0, vidmapped >>

\* IRQ1 with Alt+F(t+1).  Switching to the displayed terminal changes nothing.
switch_terminal(t) ==
  /\ cpu.phase \in KeyPhases
  /\ t # cur_term
  /\ SwitchToActive(t) \/ SwitchToNew(t)

\* The rest of switch_terminal: execute("shell"); when it fails, return to
\* the keyboard handler and from there to the interrupted stream.
SpawnShell ==
  /\ cpu.phase = "spawn"
  /\ ExecuteFrom("shell", pid_array, active, apn, cpu, [cpu EXCEPT !.phase = cpu.back])
  /\ UNCHANGED << saved, cur_term, key_buffer, text, vidwin >>

-----------------------------------------------------------------------------
(* The system after init_terminal: the first shell (pid 0) runs on         *)
(* terminal 0, which is displayed; 136MB is not mapped yet.  PCB fields of *)
(* slots never used are given fixed values: no step reads them before it  *)
(* writes them.                                                            *)
Init ==
  /\ pid_array = [p \in Pids |-> IF p = 0 THEN AVIL ELSE FREE]
  /\ parent = [p \in Pids |-> 0]
  /\ pterm = [p \in Pids |-> 0]
  /\ saved = [p \in Pids |-> NoCtx]
  /\ pksp = [p \in Pids |-> NoCtx]
  /\ active = [t \in Terms |-> IF t = 0 THEN AVIL ELSE FREE]
  /\ apn = [t \in Terms |-> IF t = 0 THEN 0 ELSE NoProc]
  /\ cur_term = 0
  /\ cur_active_terminal = 0
  /\ key_buffer = 0
  /\ page128 = page_remap(_8MB)
  /\ vidwin = NOT_PRESENT
  /\ esp0 = 0
  /\ cpu = UserStream(0)
  /\ text = [s \in Terms \cup {VIDEO} |-> IF s = VIDEO THEN 0 ELSE s]
  /\ vidmapped = [p \in Pids |-> FALSE]

Next ==
  \/ \E cmd \in Commands : SysExecute(cmd)
  \/ SysHalt
  \/ SysVidmap
  \/ SysWrite
  \/ ExecIret
  \/ HaltJump
  \/ PIT_scheduling
  \/ \E t \in Terms : switch_terminal(t)
  \/ SpawnShell

(* The PIT fires periodically and an IRQ raised under cli() is taken at the *)
(* next sti(), so a tick that is enabled again and again is taken: strong *)
(* fairness.  The "iret", "haltJump" and "spawn" continuations are straight- *)
(* line kernel code.  User programs and the keyboard get no fairness.      *)
Fairness ==
  /\ SF_vars(PIT_scheduling)
  /\ WF_vars(ExecIret)
  /\ WF_vars(HaltJump)
  /\ WF_vars(SpawnShell)

Spec == Init /\ [][Next]_vars /\ Fairness

-----------------------------------------------------------------------------
(* Properties *)

TypeOK ==
  /\ pid_array \in [Pids -> {FREE, AVIL}]
  /\ parent \in [Pids -> Pids]
  /\ pterm \in [Pids -> Terms]
  /\ saved \in [Pids -> Streams]
  /\ pksp \in [Pids -> Streams]
  /\ active \in [Terms -> {FREE, AVIL}]
  /\ apn \in [Terms -> Pids \cup {NoProc}]
  /\ cur_term \in Terms /\ cur_active_terminal \in Terms /\ key_buffer \in Terms
  /\ page128 \in {page_remap(_8MB + p * _4MB) : p \in Pids}
  /\ vidwin \in {NOT_PRESENT, table_remap(VIDEO)} \cup
                {vidmem_remap(video_mem(t)) : t \in Terms}
  /\ esp0 \in Pids
  /\ cpu \in Streams
  /\ text \in [Terms \cup {VIDEO} -> Terms \cup {Mixed}]
  /\ vidmapped \in [Pids -> BOOLEAN]

\* Terminals that run a process, other than the scheduled one.
Waiting == {t \in Terms \ {cur_active_terminal} : active[t] = TERMINAL_ACTIVE}

(* The scheduler's view matches the CPU (scheduler.c, execute, halt): the  *)
(* stream on the CPU runs as the apn of the scheduled terminal, and every *)
(* other terminal's apn has its own resumable esp/ebp saved in its PCB,  *)
(* so the next context switch into it resumes that very process.          *)
ContextsConsistent ==
  /\ cpu.phase # "none"
  /\ active[cur_active_terminal] = TERMINAL_ACTIVE
  /\ cpu.pid = apn[cur_active_terminal]
  /\ \A t \in Waiting :
        /\ saved[apn[t]].pid = apn[t]
        /\ saved[apn[t]].phase \notin {"none", "spawn"}

(* Isolation after every switch of address space (process_contextswitch,  *)
(* execute, halt): a program running in user mode sees its own 4MB frame  *)
(* at 128MB and traps onto its own kernel stack.                          *)
MemoryIsolation ==
  cpu.phase = "user" => FrameOf(page128) = _8MB + cpu.pid * _4MB /\ esp0 = cpu.pid

\* The chain of PCBs from p to its terminal's root, following parents.
RECURSIVE Chain(_, _)
Chain(p, k) ==
  IF k = 0 \/ parent[p] = p THEN {p} ELSE {p} \cup Chain(parent[p], k - 1)

TermChain(t) == Chain(apn[t], NUM_MAX_PROCESSES)

(* The process tree (execute, halt, get_proc_num): every active terminal's *)
(* apn leads through allocated PCBs of that terminal to a root shell; a   *)
(* non-root's parent_ksp belongs to its parent, so halt resumes the right *)
(* caller; chains of different terminals are disjoint; and no slot is     *)
(* taken outside a chain (no leaked pid).                                  *)
ProcessTree ==
  /\ \A t \in Terms : active[t] = TERMINAL_ACTIVE =>
        /\ \A p \in TermChain(t) : pid_array[p] = AVIL /\ pterm[p] = t
        /\ \E r \in TermChain(t) : parent[r] = r
        /\ \A p \in TermChain(t) : parent[p] # p => pksp[p].pid = parent[p]
  /\ \A t, u \in Terms :
        t # u /\ active[t] = TERMINAL_ACTIVE /\ active[u] = TERMINAL_ACTIVE
          => TermChain(t) \cap TermChain(u) = {}
  /\ \A p \in Pids : pid_array[p] = AVIL =>
        \E t \in Terms : active[t] = TERMINAL_ACTIVE /\ p \in TermChain(t)

(* A terminal never loses its shell (halt of a root shell re-executes it): *)
(* no step turns an active terminal inactive.                             *)
TerminalStaysActive ==
  [][\A t \in Terms : active[t] = TERMINAL_ACTIVE => active'[t] = TERMINAL_ACTIVE]_vars

(* Round robin (PIT_scheduling, get_next_scheduled): every terminal that  *)
(* runs a process is eventually the scheduled one.                        *)
EveryTerminalScheduled ==
  \A t \in Terms : active[t] = TERMINAL_ACTIVE ~> cur_active_terminal = t

(* A halting process still runs on its kernel stack after sti() until it  *)
(* jumps to its parent; spec: its process number becomes available for   *)
(* reuse only after halt completes.  No slot whose stack a halting stream  *)
(* (running or saved) is still on is handed out again.                    *)
LiveStreams == {cpu} \cup {saved[apn[t]] : t \in Waiting}

HaltingStackNotReused ==
  \A s \in LiveStreams : s.phase = "haltJump" => pid_array[s.stack] = FREE

(* Spec 4.3/7: launching a shell on a new terminal either succeeds or     *)
(* leaves the system as it was; the displayed terminal always runs a      *)
(* process once switch_terminal has finished.                             *)
DisplayedTerminalRuns ==
  cpu.phase # "spawn" => active[cur_term] = TERMINAL_ACTIVE

\* What a process sees through 136MB: the screen when its terminal is
\* displayed, its terminal's off-screen buffer otherwise.
OwnScreen(p) == IF pterm[p] = cur_term THEN VIDEO ELSE video_mem(pterm[p])

(* vidmap, process_contextswitch and switch_terminal: a program that mapped *)
(* the video window sees its own terminal through it whenever it runs in    *)
(* user mode, after any Alt+F and any tick; it never writes onto another    *)
(* terminal's screen.                                                       *)
VidmapShowsOwnTerminal ==
  cpu.phase = "user" /\ vidmapped[cpu.pid] => PageOf(vidwin) = OwnScreen(cpu.pid)

(* terminal_write, save_restore on Alt+F and the context switch together:  *)
(* the screen holds only the displayed terminal's text and each other     *)
(* terminal's buffer only its own, whatever programs write while they are *)
(* scheduled in the background and however the user switches.             *)
ScreensHoldOwnText ==
  /\ text[VIDEO] = cur_term
  /\ \A t \in Terms \ {cur_term} : text[t] = t

\* The abstract scheduler seen through the kernel: the scheduled terminal
\* runs, and the terminals marked active are the started ones.
Sched == INSTANCE Scheduler WITH
  Terms   <- Terms,
  running <- cur_active_terminal,
  started <- {t \in Terms : active[t] = TERMINAL_ACTIVE}

(* The kernel implements the round-robin scheduler: PIT_scheduling with   *)
(* get_next_scheduled hands the CPU to the next active terminal in cyclic *)
(* order, skipping none; execute of a terminal's first shell (at boot and *)
(* from switch_terminal) schedules that terminal; halt of a root shell,   *)
(* Alt+F and every other step leave the schedule as it is.                *)
SchedulerRefinement == Sched!Spec

=============================================================================
