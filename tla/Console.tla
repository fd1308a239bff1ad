------------------------------- MODULE Console -------------------------------
(***************************************************************************)
(* The terminal under the real scheduler: module Sched with the wake and   *)
(* sleep sides of src/drivers/tty.c, where the interrupt that completes a  *)
(* line wakes the reader and may switch to it at once (isr_handler).       *)
(* Of the buffer only the number of complete lines is kept; module Tty has *)
(* the bytes.  The programs are those of userspace/: like sh.c and init.c, *)
(* a process that has spawned a child waits for it before it reads, spawns *)
(* or exits.                                                               *)
(***************************************************************************)
EXTENDS Sched

CONSTANT MaxLines \* bound: complete lines typed ahead

ASSUME ConsoleAssumption == MaxLines \in Nat

VARIABLES
  ttyWaiter, \* waiter of tty.c
  lines      \* lines of tty.c

ttyVars == <<ttyWaiter, lines>>
consoleVars == <<vars, ttyVars>>

ConsoleInit == Init /\ ttyWaiter = NULL /\ lines = 0

KeepWaiter == UNCHANGED ttyWaiter \* mutant

ForgetWaiter == ttyWaiter' = NULL

(* keyboard_irq feeds one '\n', serial_irq as many as COM1 holds; then     *)
(* sched_after_irq.  With nobody to wake the interrupt returns to the code *)
(* it came from, unless need_resched was still set.                        *)
LineIRQ ==
  /\ Interruptible(current)
  /\ \E n \in 1..(MaxLines - lines) : lines' = lines + n
  /\ ForgetWaiter
  /\ LET woken == Wake(state, ttyWaiter)
     IN IF needResched \/ woken # state
        THEN ScheduleLocked(woken, TRUE)
        ELSE UNCHANGED cpuVars
  /\ UNCHANGED <<structVars, pc, child, kids, nextId, spaces>>

SleepUnregistered == UNCHANGED ttyWaiter \* mutant

(* tty_read registers itself before it sleeps.                             *)
RegisterReader == ttyWaiter' = current

(* The loop of tty_read, and the copy that ends it: a read too small for   *)
(* the line leaves the line in the buffer.                                 *)
ReadLoop ==
  \/ /\ lines = 0
     /\ RegisterReader
     /\ Block
     /\ pc' = [pc EXCEPT ![current] = "tty"]
     /\ UNCHANGED lines
  \/ /\ lines > 0
     /\ lines' \in {lines - 1, lines}
     /\ pc' = [pc EXCEPT ![current] = "user"]
     /\ UNCHANGED <<cpuVars, ttyWaiter>>

Background == TRUE \* mutant

(* A process without a child to wait for: the one in the foreground.       *)
Foreground == kids[current] = {}

(* SYS_READ of descriptor 0.                                               *)
SysRead ==
  /\ pc[current] = "user"
  /\ Foreground
  /\ ReadLoop
  /\ UNCHANGED <<structVars, child, kids, nextId, spaces>>

(* sched_block_locked returns inside tty_read.                             *)
ReadResume ==
  /\ pc[current] = "tty"
  /\ ReadLoop
  /\ UNCHANGED <<structVars, child, kids, nextId, spaces>>

SchedStep ==
  \/ TimerIRQ
  \/ \E s \in Slots, p \in Pml4s :
       BootSpawn(s, p) \/ (Foreground /\ SysSpawn(s, p))
  \/ KmainHalts
  \/ DiskYield
  \/ Foreground /\ SysExit
  \/ \E c \in Slots : SysWaitpid(c)
  \/ KernelStep

ConsoleNext ==
  \/ SchedStep /\ UNCHANGED ttyVars
  \/ LineIRQ
  \/ SysRead
  \/ ReadResume

(* The fairness of Sched, and a reader that has the CPU goes on.           *)
ConsoleFairness ==
  /\ WF_consoleVars(TimerIRQ /\ UNCHANGED ttyVars)
  /\ WF_consoleVars((KernelStep /\ UNCHANGED ttyVars) \/ ReadResume)

ConsoleSpec == ConsoleInit /\ [][ConsoleNext]_consoleVars

ConsoleFairSpec == ConsoleSpec /\ ConsoleFairness

-----------------------------------------------------------------------------
(* The two modules share the CPU correctly: an interrupt that switches to  *)
(* a woken reader leaves one RUNNING thread, with its own page table and   *)
(* kernel stack loaded, as in Sched.                                       *)
CpuConsistent ==
  /\ OneRunning
  /\ AddressSpacesIntact
  /\ ttyWaiter \in Live \cup {NULL}

(* With one wait per spawn, of all processes that live, one at most is not *)
(* waiting for a child.  It alone can read the terminal, which is why the  *)
(* single `waiter' of tty.c is enough for the programs of userspace/.      *)
OneForeground ==
  \A s, t \in Live \ {Boot, Idle} : kids[s] = {} /\ kids[t] = {} => s = t

(* tty_read and the interrupt lose no wake: a reader that sleeps is the    *)
(* one tty.c will wake, and no complete line is in the buffer.             *)
ReaderIsAwaited ==
  \A t \in Live :
    pc[t] = "tty" /\ state[t] = "BLOCKED" => lines = 0 /\ ttyWaiter = t

(* tty.c: a reader is released once a line is there; here with everything  *)
(* between the interrupt and the return of tty_read.                       *)
ReadReturns ==
  \A t \in Slots : (pc[t] = "tty" /\ lines > 0) ~> pc[t] = "user"

=============================================================================
