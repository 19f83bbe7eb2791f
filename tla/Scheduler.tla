------------------------------ MODULE Scheduler ------------------------------
(***************************************************************************)
(* What the PIT scheduler of student-distrib promises, without processes,  *)
(* stacks or interrupts: a set of terminals that have been started (run a *)
(* shell) and the one that runs.  Starting a terminal runs it at once; a  *)
(* started terminal stays started; a tick hands the CPU to the next       *)
(* started terminal in cyclic order, skipping none.                        *)
(***************************************************************************)
EXTENDS Integers, FiniteSets

CONSTANT Terms          \* 0 .. MAX_TERMINALS - 1

VARIABLES
  running,              \* the terminal whose process the CPU runs
  started               \* the terminals that run a shell

vars == << running, started >>

N == Cardinality(Terms)

\* How many steps forward in cyclic order u lies from r.
Distance(r, u) == (u - r) % N

\* The first started terminal after r in cyclic order.
NextStarted(r) ==
  CHOOSE u \in started \ {r} :
    \A v \in started \ {r} : Distance(r, u) <= Distance(r, v)

Init ==
  /\ running = 0
  /\ started = {0}

\* A terminal gets its first shell and is scheduled from then on.
Start(t) ==
  /\ t \notin started
  /\ started' = started \cup {t}
  /\ running' = t

\* A tick while more than one terminal is started: round robin.
Tick ==
  /\ started # {running}
  /\ running' = NextStarted(running)
  /\ UNCHANGED started

Next == Tick \/ \E t \in Terms : Start(t)

Spec == Init /\ [][Next]_vars

=============================================================================
