-------------------------------- MODULE Sched --------------------------------
(***************************************************************************)
(* The scheduler and the process lifecycle of the MominOS kernel:          *)
(* src/kernel/sched.c and the SYS_SPAWN, SYS_EXIT and SYS_WAITPID arms of  *)
(* syscall_dispatch_impl in src/kernel/syscall.c.                          *)
(*                                                                         *)
(* The machine has one CPU.  System calls run with interrupts off (FMASK), *)
(* so a system call is one atomic step up to the next point where it gives *)
(* the CPU away: sched_yield in the disk polling loops, sched_block_locked *)
(* in waitpid, and the last schedule_locked of thread_exit_code.  User     *)
(* code, the idle loop and kmain run with interrupts on, and the timer     *)
(* takes the CPU from them at any instant.                                 *)
(*                                                                         *)
(* The circular list of struct thread is the sequence `ring', read along   *)
(* `next' from current_thread: ring[1] is current_thread, the last element *)
(* is the one enqueue_thread calls the tail.                               *)
(***************************************************************************)
EXTENDS Naturals, Sequences

CONSTANTS
  Slots,      \* heap addresses a struct thread can have
  Boot,       \* the slot of the thread that runs kmain
  Idle,       \* the slot of the thread that runs idle_thread
  Pml4s,      \* physical addresses a top-level page table can have
  KernelPml4, \* vmm_kernel_pml4()
  NULL,       \* the null struct thread pointer
  MaxId,      \* bound: ids handed out before the model stops creating threads
  AnyWaiter   \* TRUE: waitpid on any id; FALSE: only on the caller's own
              \* children, each once, as userspace/sh.c and init.c do

ASSUME SchedAssumption ==
  /\ Boot \in Slots /\ Idle \in Slots /\ Boot # Idle
  /\ NULL \notin Slots
  /\ KernelPml4 \in Pml4s
  /\ MaxId \in Nat /\ MaxId >= 2
  /\ AnyWaiter \in BOOLEAN

VARIABLES
  ring,        \* the ring, from current_thread
  state,       \* struct thread: state
  id,          \*                id
  waiter,      \*                waiter
  hasExited,   \*                has_exited
  pml4,        \*                pml4
  pc,          \* where in the kernel or in user code each thread stands
  child,       \* the local `child' of a thread inside SYS_WAITPID
  kids,        \* ids a process got from SYS_SPAWN and has not waited for
  nextId,      \* next_thread_id
  needResched, \* need_resched
  cr3,         \* the page table the CPU uses
  kstack,      \* the thread whose kernel stack the next entry to ring 0 uses
  spaces       \* the page tables that exist

structVars == <<id, waiter, hasExited, pml4>>
cpuVars == <<ring, state, needResched, cr3, kstack>>
vars == <<ring, state, id, waiter, hasExited, pml4, pc, child, kids,
          nextId, needResched, cr3, kstack, spaces>>

States == {"READY", "RUNNING", "BLOCKED", "ZOMBIE", "DEAD"}

(* "user": user code.  "disk": inside a system call that polls the disk.   *)
(* "wait": the loop of SYS_WAITPID.  "exit": the loop of thread_exit_code. *)
(* "tty": the loop of tty_read, entered only in module Console.            *)
(* "kmain", "hlt": the boot thread before and after it has loaded the      *)
(* shell.  "idle": idle_thread.  "none": no thread in this slot.           *)
Points == {"none", "kmain", "hlt", "idle", "user", "disk", "wait", "tty", "exit"}

Live == {ring[i] : i \in DOMAIN ring}

current == ring[1]

(* Interrupts are on: EFLAGS.IF of the code that stands at this point.     *)
Interruptible(t) == pc[t] \in {"user", "kmain", "hlt", "idle"}

-----------------------------------------------------------------------------
(* pick_next: the nearest READY thread after current_thread in the ring.   *)
(* With none, pick_next returns current_thread or 0 and schedule_locked    *)
(* leaves everything as it is, need_resched included.                      *)
ReadyAt(st) == {i \in 2..Len(ring) : st[ring[i]] = "READY"}

PickBootFirst(st, i) == \* mutant
  /\ i \in ReadyAt(st)
  /\ \/ ring[i] = Boot
     \/ st[Boot] # "READY" /\ \A j \in ReadyAt(st) : i <= j

PickNext(st, i) == i \in ReadyAt(st) /\ \A j \in ReadyAt(st) : i <= j

Rotate(s, i) == SubSeq(s, i, Len(s)) \o SubSeq(s, 1, i - 1)

SwitchNoDemote(st, new) == [st EXCEPT ![new] = "RUNNING"] \* mutant

Switch(st, new) ==
  [st EXCEPT ![current] = IF @ = "RUNNING" THEN "READY" ELSE @,
             ![new] = "RUNNING"]

SwitchPml4Never(new) == cr3 \* mutant

SwitchPml4(new) == IF pml4[current] # pml4[new] THEN pml4[new] ELSE cr3

(* schedule_locked up to and with switch_context, entered with thread      *)
(* states st and need_resched = need.                                      *)
ScheduleLocked(st, need) ==
  \/ /\ ReadyAt(st) = {}
     /\ state' = st
     /\ needResched' = need
     /\ UNCHANGED <<ring, cr3, kstack>>
  \/ \E i \in 2..Len(ring) :
       /\ PickNext(st, i)
       /\ ring' = Rotate(ring, i)
       /\ state' = Switch(st, ring[i])
       /\ needResched' = FALSE
       /\ kstack' = ring[i]
       /\ cr3' = SwitchPml4(ring[i])

WakeNobody(st, t) == st \* mutant

(* sched_wake(t), and the wake in thread_exit_code: only a BLOCKED thread  *)
(* becomes READY.                                                          *)
Wake(st, t) ==
  IF t # NULL /\ st[t] = "BLOCKED" THEN [st EXCEPT ![t] = "READY"] ELSE st

(* sched_block_locked by the current thread.                               *)
Block == ScheduleLocked([state EXCEPT ![current] = "BLOCKED"], TRUE)

-----------------------------------------------------------------------------
Init ==
  /\ ring = <<Boot, Idle>>
  /\ state = [s \in Slots |-> CASE s = Boot -> "RUNNING"
                                [] s = Idle -> "READY"
                                [] OTHER -> "DEAD"]
  /\ id = [s \in Slots |-> CASE s = Boot -> 1 [] s = Idle -> 2 [] OTHER -> 0]
  /\ waiter = [s \in Slots |-> NULL]
  /\ hasExited = [s \in Slots |-> FALSE]
  /\ pml4 = [s \in Slots |-> KernelPml4]
  /\ pc = [s \in Slots |-> CASE s = Boot -> "kmain"
                             [] s = Idle -> "idle"
                             [] OTHER -> "none"]
  /\ child = [s \in Slots |-> NULL]
  /\ kids = [s \in Slots |-> {}]
  /\ nextId = 3
  /\ needResched = FALSE
  /\ cr3 = KernelPml4
  /\ kstack = Boot
  /\ spaces = {KernelPml4}

(* timer_irq (sched_tick), then sched_after_irq.                           *)
TimerIRQ ==
  /\ Interruptible(current)
  /\ ScheduleLocked(state, TRUE)
  /\ UNCHANGED <<structVars, pc, child, kids, nextId, spaces>>

EnqueueAtHead(s) == <<current, s>> \o Tail(ring) \* mutant

Enqueue(s) == Append(ring, s)

(* thread_create_process on a fresh address space: kzalloc of the struct,  *)
(* READY, enqueue at the tail.                                             *)
CreateProcess(s, p) ==
  /\ nextId <= MaxId
  /\ s \in Slots \ Live
  /\ p \in Pml4s \ spaces
  /\ spaces' = spaces \cup {p}
  /\ ring' = Enqueue(s)
  /\ state' = [state EXCEPT ![s] = "READY"]
  /\ id' = [id EXCEPT ![s] = nextId]
  /\ waiter' = [waiter EXCEPT ![s] = NULL]
  /\ hasExited' = [hasExited EXCEPT ![s] = FALSE]
  /\ pml4' = [pml4 EXCEPT ![s] = p]
  /\ nextId' = nextId + 1
  /\ UNCHANGED <<child, needResched, cr3, kstack>>

(* kmain loads /bin/sh and falls into its halt loop.                       *)
BootSpawn(s, p) ==
  /\ current = Boot
  /\ pc[Boot] = "kmain"
  /\ CreateProcess(s, p)
  /\ pc' = [pc EXCEPT ![s] = "user", ![Boot] = "hlt"]
  /\ kids' = [kids EXCEPT ![s] = {}]

(* SYS_SPAWN: elf_load_process ends in thread_create_process; interrupts   *)
(* stay off from there to the return to user code.                         *)
SysSpawn(s, p) ==
  /\ pc[current] \in {"user", "disk"}
  /\ CreateProcess(s, p)
  /\ pc' = [pc EXCEPT ![s] = "user", ![current] = "user"]
  /\ kids' = [kids EXCEPT ![s] = {}, ![current] = @ \cup {nextId}]

(* sched_yield from the ATA polling loops: in kmain or in a system call    *)
(* that reads or writes the disk.                                          *)
DiskYield ==
  /\ pc[current] \in {"kmain", "user", "disk"}
  /\ pc' = [pc EXCEPT ![current] = IF @ = "kmain" THEN @ ELSE "disk"]
  /\ ScheduleLocked(state, TRUE)
  /\ UNCHANGED <<structVars, child, kids, nextId, spaces>>

(* The disk answers and the system call returns.                           *)
DiskDone ==
  /\ pc[current] = "disk"
  /\ pc' = [pc EXCEPT ![current] = "user"]
  /\ UNCHANGED <<cpuVars, structVars, child, kids, nextId, spaces>>

(* kmain without a shell: no disk, no root file system or no /bin/sh.      *)
KmainHalts ==
  /\ current = Boot
  /\ pc[Boot] = "kmain"
  /\ pc' = [pc EXCEPT ![Boot] = "hlt"]
  /\ UNCHANGED <<cpuVars, structVars, child, kids, nextId, spaces>>

(* SYS_EXIT: thread_exit_code.  The corpse stays in the ring, a ZOMBIE.    *)
SysExit ==
  /\ pc[current] = "user"
  /\ hasExited' = [hasExited EXCEPT ![current] = TRUE]
  /\ pc' = [pc EXCEPT ![current] = "exit"]
  /\ ScheduleLocked(Wake([state EXCEPT ![current] = "ZOMBIE"], waiter[current]), TRUE)
  /\ UNCHANGED <<id, waiter, pml4, child, kids, nextId, spaces>>

WithoutPrefix(s, i) == SubSeq(s, i + 1, Len(s)) \* mutant

WithoutPredecessor(s, i) == SubSeq(s, 1, i - 2) \o SubSeq(s, i, Len(s)) \* mutant

Without(s, i) == SubSeq(s, 1, i - 1) \o SubSeq(s, i + 1, Len(s))

(* sched_reap(c): unlink the ZOMBIE, destroy its address space unless that *)
(* is the kernel's or the live one, free the struct and the stack.  The    *)
(* freed struct keeps its bytes: kfree writes no payload.                  *)
Reap(c) ==
  IF state[c] # "ZOMBIE"
  THEN UNCHANGED <<ring, state, spaces>>
  ELSE /\ \E i \in DOMAIN ring : ring[i] = c /\ ring' = Without(ring, i)
       /\ state' = [state EXCEPT ![c] = "DEAD"]
       /\ spaces' = IF pml4[c] \in {KernelPml4, cr3} THEN spaces
                    ELSE spaces \ {pml4[c]}

(* The end of SYS_WAITPID for child c, back to user code with its code.    *)
Collect(c) ==
  /\ Reap(c)
  /\ pc' = [pc EXCEPT ![c] = "none", ![current] = "user"]
  /\ child' = [child EXCEPT ![current] = NULL]
  /\ kids' = [kids EXCEPT ![current] = @ \ {id[c]}]
  /\ UNCHANGED <<needResched, cr3, kstack, id, hasExited, pml4, nextId>>

(* The body of the loop `while (!child->has_exited) sched_block_locked()'. *)
WaitLoop(c) ==
  \/ /\ hasExited[c]
     /\ Collect(c)
  \/ /\ ~hasExited[c]
     /\ Block
     /\ pc' = [pc EXCEPT ![current] = "wait"]
     /\ child' = [child EXCEPT ![current] = c]
     /\ UNCHANGED <<id, hasExited, pml4, kids, nextId, spaces>>

(* SYS_WAITPID on the thread sched_find_thread returns.  An unknown id     *)
(* returns -1 and changes nothing.                                         *)
SysWaitpid(c) ==
  /\ pc[current] = "user"
  /\ c \in Live
  /\ AnyWaiter \/ id[c] \in kids[current]
  /\ waiter' = [waiter EXCEPT ![c] = current]
  /\ WaitLoop(c)

(* sched_block_locked returns inside SYS_WAITPID.                          *)
WaitResume ==
  /\ pc[current] = "wait"
  /\ WaitLoop(child[current])
  /\ UNCHANGED waiter

KernelStep == DiskDone \/ WaitResume

Next ==
  \/ TimerIRQ
  \/ \E s \in Slots, p \in Pml4s : BootSpawn(s, p) \/ SysSpawn(s, p)
  \/ KmainHalts
  \/ DiskYield
  \/ SysExit
  \/ \E c \in Slots : SysWaitpid(c)
  \/ KernelStep

(* The timer ticks for ever, and a system call that holds the CPU with     *)
(* interrupts off either ends or gives the CPU away: the disk polling      *)
(* loops are bounded by ATA_POLL_LIMIT.                                    *)
Fairness == WF_vars(TimerIRQ) /\ WF_vars(KernelStep)

Spec == Init /\ [][Next]_vars

FairSpec == Spec /\ Fairness

-----------------------------------------------------------------------------
(* Types of the state of sched.c.                                          *)
TypeOK ==
  /\ ring \in Seq(Slots) /\ ring # <<>>
  /\ state \in [Slots -> States]
  /\ id \in [Slots -> Nat]
  /\ waiter \in [Slots -> Slots \cup {NULL}]
  /\ hasExited \in [Slots -> BOOLEAN]
  /\ pml4 \in [Slots -> Pml4s]
  /\ pc \in [Slots -> Points]
  /\ child \in [Slots -> Slots \cup {NULL}]
  /\ kids \in [Slots -> SUBSET Nat]
  /\ nextId \in Nat
  /\ needResched \in BOOLEAN
  /\ cr3 \in Pml4s
  /\ kstack \in Slots
  /\ spaces \subseteq Pml4s

(* Between any two steps the CPU is on exactly one RUNNING thread, the     *)
(* head of the ring, never on a corpse, a sleeper or a freed stack: the    *)
(* last schedule_locked of exit and block always finds someone to run, no  *)
(* thread is in the ring twice, and no reaped thread is still in it.       *)
OneRunning ==
  /\ \A s \in Slots : state[s] = "RUNNING" <=> s = current
  /\ \A i, j \in DOMAIN ring : ring[i] = ring[j] => i = j
  /\ \A s \in Slots : s \in Live <=> state[s] # "DEAD"

(* The context the CPU has loaded is the current thread's: its page table, *)
(* its kernel stack.  Every thread's page table exists and no two          *)
(* processes share one, so sched_reap destroys no table that is in use     *)
(* (the claim of the comment in sched_reap).                               *)
AddressSpacesIntact ==
  /\ cr3 = pml4[current]
  /\ kstack = current
  /\ \A s \in Live : pml4[s] \in spaces
  /\ \A s, t \in Live : pml4[s] = pml4[t] => s = t \/ pml4[s] = KernelPml4

(* waitpid keeps a raw pointer to the child across sched_block_locked, and *)
(* the child keeps one to its waiter: neither points to a freed struct,    *)
(* and the child is still the process the parent asked for.                *)
NoDangling ==
  \A t \in Live :
    /\ waiter[t] # NULL => waiter[t] \in Live
    /\ pc[t] = "wait" => child[t] \in Live /\ id[child[t]] \in kids[t]

(* syscall.c, SYS_WAITPID: the check-then-block of waitpid misses no wake. *)
(* A thread asleep in waitpid has a child that is still to exit.           *)
NoLostWake ==
  \A t \in Live :
    pc[t] = "wait" /\ state[t] = "BLOCKED" => ~hasExited[child[t]]

(* The number of context switches that can pass before t is reached.       *)
Ahead(t) == CHOOSE i \in DOMAIN ring : ring[i] = t

(* Round robin: a READY thread is never pushed back in the ring, neither   *)
(* by a new process nor by a reap, and every context switch moves it       *)
(* nearer to the CPU.  This bounds how often the others run before it.     *)
ReadyMovesUp ==
  [][\A t \in Live :
       state[t] = "READY" /\ state'[t] = "READY" =>
         /\ Ahead(t)' <= Ahead(t)
         /\ current' # current => Ahead(t)' < Ahead(t)]_vars

(* Every READY thread gets the CPU.                                        *)
ReadyRuns ==
  \A t \in Slots : state[t] = "READY" ~> state[t] = "RUNNING"

(* A thread in waitpid whose child has exited returns to user code.        *)
WaitReturns ==
  \A t \in Slots :
    (pc[t] = "wait" /\ hasExited[child[t]]) ~> pc[t] = "user"
=============================================================================
