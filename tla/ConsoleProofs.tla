----------------------------- MODULE ConsoleProofs ----------------------------
(***************************************************************************)
(* Proofs about module Console: the CPU invariant of Sched survives the    *)
(* interrupts of the terminal, and the single waiter of tty.c is enough    *)
(* for programs that wait for what they spawn, on any number of threads.   *)
(***************************************************************************)
EXTENDS Console, SchedProofs

(* The strengthening.  The waiter of tty.c is a reader with no line to     *)
(* read, asleep or not.  A thread that has exited or reads the terminal has  *)
(* no child to wait for, so of all processes it is the foreground one, or  *)
(* the child the foreground is about to return to its parent from; and     *)
(* before kmain has loaded the shell there is no process.                  *)
ExitedHasNoKids ==
  \A s \in Live : hasExited[s] => pc[s] = "exit" /\ kids[s] = {}

ReaderIsForeground ==
  \A s \in Live : pc[s] = "tty" => kids[s] = {} /\ s \notin {Boot, Idle}

WaiterReads ==
  ttyWaiter # NULL => ttyWaiter \in Live /\ pc[ttyWaiter] = "tty" /\ lines = 0

ForegroundInv ==
  /\ OneForeground
  /\ ExitedHasNoKids
  /\ ReaderIsForeground
  /\ pc[Boot] = "kmain" => Live \subseteq {Boot, Idle}

ConsoleInv ==
  /\ CpuInv
  /\ ForegroundInv
  /\ WaiterReads
  /\ ReaderIsAwaited
  /\ lines \in Nat

LEMMA ConsoleInitInv == ConsoleInit => ConsoleInv
PROOF
<1> USE SchedAssumption, ConsoleAssumption
<1> SUFFICES ASSUME ConsoleInit PROVE ConsoleInv
  OBVIOUS
<1>1. Init /\ ttyWaiter = NULL /\ lines = 0
  BY DEF ConsoleInit
<1>2. CpuInv
  BY <1>1, CpuInit
<1>3. Live \subseteq Slots /\ \A s \in Live : state[s] # "DEAD"
  BY <1>2, RingOfCpuInv DEF CpuInv, OneRunning
<1>4. Live \subseteq {Boot, Idle}
  BY <1>1, <1>3 DEF Init
<1>5. \A s \in Slots : ~hasExited[s] /\ pc[s] # "tty"
  BY <1>1 DEF Init
<1>6. ForegroundInv
  BY <1>3, <1>4, <1>5
     DEF ForegroundInv, OneForeground, ExitedHasNoKids, ReaderIsForeground
<1>7. ReaderIsAwaited
  BY <1>3, <1>5 DEF ReaderIsAwaited
<1> QED BY <1>1, <1>2, <1>6, <1>7 DEF ConsoleInv, WaiterReads

-----------------------------------------------------------------------------
(* Every step of Sched in Console is one of Sched.                         *)
LEMMA SchedStepIsNext == SchedStep => Next
BY DEF SchedStep, Next

(* The facts of CpuInv the steps below use.                                *)
LEMMA ConsoleFacts ==
  ASSUME CpuInv
  PROVE  /\ Live \subseteq Slots /\ current \in Slots /\ current \in Live
         /\ state[current] = "RUNNING"
         /\ \A s \in Slots : state[s] = "RUNNING" <=> s = current
         /\ \A s \in Live : hasExited[s] => state[s] = "ZOMBIE"
         /\ pc[current] \in {"user", "wait", "disk", "tty"} => current \notin {Boot, Idle}
         /\ pc[Boot] \in {"kmain", "hlt"} /\ pc[Idle] = "idle"
         /\ \A s \in Slots : pc[s] = "idle" => s = Idle
         /\ \A s \in Slots : pc[s] = "wait" => child[s] \in Slots
         /\ waiter \in [Slots -> Slots \cup {NULL}] /\ child \in [Slots -> Slots \cup {NULL}]
         /\ hasExited \in [Slots -> BOOLEAN] /\ pc \in [Slots -> Points]
         /\ state \in [Slots -> States] /\ kids \in [Slots -> SUBSET Nat]
         /\ nextId \in Nat
         /\ TypeOK /\ OneRunning
PROOF
<1>1. TypeOK /\ OneRunning /\ KernelThreads /\ ExitedAreZombies
  BY DEF CpuInv
<1>2. Live \subseteq Slots /\ current \in Slots /\ current \in Live /\ state[current] = "RUNNING"
  BY <1>1, RingOfCpuInv
<1>3. pc[current] \in {"user", "wait", "disk", "tty"} => current \notin {Boot, Idle}
  BY <1>1 DEF KernelThreads
<1> QED BY <1>1, <1>2, <1>3
        DEF CpuInv, OneRunning, ExitedAreZombies, KernelThreads, TypeOK

(* An interrupt with or without a switch, and the two halves of tty_read,  *)
(* keep the CPU consistent.                                                *)
LEMMA LineCpu == ConsoleInv /\ LineIRQ => CpuInv'
PROOF
<1> USE SchedAssumption
<1> SUFFICES ASSUME ConsoleInv, LineIRQ PROVE CpuInv'
  OBVIOUS
<1> DEFINE woken == Wake(state, ttyWaiter)
<1>1. CpuInv /\ WaiterReads
  BY DEF ConsoleInv
<1>2. UNCHANGED <<id, waiter, hasExited, pml4, pc, child, kids, nextId, spaces>>
  BY DEF LineIRQ, structVars
<1>3. CASE UNCHANGED cpuVars
  <2>1. UNCHANGED vars
    BY <1>2, <1>3 DEF vars, cpuVars
  <2> QED BY <1>1, <2>1, CpuNext
<1>4. CASE ScheduleLocked(woken, TRUE)
  <2>0. /\ Live \subseteq Slots /\ current \in Slots
        /\ state \in [Slots -> States]
        /\ \A s \in Slots : state[s] = "RUNNING" <=> s = current
        /\ \A s \in Live : hasExited[s] => state[s] = "ZOMBIE"
        /\ KernelThreads
    BY <1>1, ConsoleFacts DEF CpuInv
  <2>1. ttyWaiter \in Slots \cup {NULL}
    BY <1>1, <2>0 DEF WaiterReads
  <2>2. \A s \in Slots : woken[s] = IF s = ttyWaiter /\ state[s] = "BLOCKED"
                                    THEN "READY" ELSE state[s]
    BY <2>0, <2>1 DEF Wake
  <2>3. woken \in [Slots -> States]
    BY <2>0, <2>1 DEF Wake, States
  <2> HIDE DEF woken
  <2>4. /\ \A s \in Slots : woken[s] = "DEAD" <=> state[s] = "DEAD"
        /\ \A s \in Slots : s # current => woken[s] # "RUNNING"
        /\ woken[current] = "RUNNING"
    BY <2>0, <2>2
  <2>5. \A s \in {Boot, Idle} \ {current} : woken[s] = state[s]
    BY <2>0, <2>2 DEF KernelThreads
  <2>6. \A s \in Live : hasExited'[s] => woken[s] = "ZOMBIE"
    BY <1>2, <2>0, <2>2
  <2>7. /\ waiter' \in [Slots -> Slots \cup {NULL}] /\ child' \in [Slots -> Slots \cup {NULL}]
        /\ hasExited' \in [Slots -> BOOLEAN] /\ pc' \in [Slots -> Points]
        /\ pc'[Boot] \in {"kmain", "hlt"} /\ pc'[Idle] = "idle"
        /\ \A s \in Slots : pc'[s] = "idle" => s = Idle
        /\ \A s \in Slots : pc'[s] = "wait" => child'[s] \in Slots
    BY <1>1, <1>2, ConsoleFacts
  <2>8. woken[current] # "READY"
    BY <2>4
  <2>9. UNCHANGED <<id, pml4, kids, nextId, spaces>>
    BY <1>2
  <2> QED BY <1>1, <1>4, <2>3, <2>4, <2>5, <2>6, <2>7, <2>8, <2>9, GiveAway
<1> QED BY <1>3, <1>4 DEF LineIRQ

LEMMA ReadCpu ==
  ASSUME ConsoleInv, ReadLoop, pc[current] \in {"user", "tty"},
         UNCHANGED <<structVars, child, kids, nextId, spaces>>
  PROVE  CpuInv'
PROOF
<1> USE SchedAssumption
<1>1. CpuInv
  BY DEF ConsoleInv
<1>2. /\ Live \subseteq Slots /\ current \in Slots /\ state[current] = "RUNNING"
      /\ \A s \in Slots : state[s] = "RUNNING" <=> s = current
      /\ \A s \in Live : hasExited[s] => state[s] = "ZOMBIE"
      /\ current \notin {Boot, Idle}
      /\ pc[Boot] \in {"kmain", "hlt"} /\ pc[Idle] = "idle"
      /\ \A s \in Slots : pc[s] = "idle" => s = Idle
      /\ \A s \in Slots : pc[s] = "wait" => child[s] \in Slots
      /\ pc \in [Slots -> Points] /\ state \in [Slots -> States]
      /\ waiter \in [Slots -> Slots \cup {NULL}] /\ child \in [Slots -> Slots \cup {NULL}]
      /\ hasExited \in [Slots -> BOOLEAN]
  BY <1>1, ConsoleFacts
<1>3. UNCHANGED <<id, waiter, hasExited, pml4, child, kids, nextId, spaces>>
  BY DEF structVars
<1>4. CASE Block /\ pc' = [pc EXCEPT ![current] = "tty"]
  <2> DEFINE st == [state EXCEPT ![current] = "BLOCKED"]
  <2>1. ScheduleLocked(st, TRUE)
    BY <1>4 DEF Block
  <2>2. st \in [Slots -> States] /\ pc' \in [Slots -> Points]
    BY <1>2, <1>4 DEF States, Points
  <2>3. \A s \in Slots : st[s] = IF s = current THEN "BLOCKED" ELSE state[s]
    BY <1>2
  <2> HIDE DEF st
  <2>4. /\ \A s \in Slots : st[s] = "DEAD" <=> state[s] = "DEAD"
        /\ \A s \in Slots : s # current => st[s] # "RUNNING"
        /\ st[current] # "READY"
    BY <1>2, <2>3
  <2>5. \A s \in {Boot, Idle} \ {current} : st[s] = state[s]
    BY <2>3
  <2>6. \A s \in Live : hasExited'[s] => st[s] = "ZOMBIE"
    BY <1>2, <1>3, <2>3
  <2>7. /\ pc'[Boot] \in {"kmain", "hlt"} /\ pc'[Idle] = "idle"
        /\ \A s \in Slots : pc'[s] = "idle" => s = Idle
        /\ \A s \in Slots : pc'[s] = "wait" => child'[s] \in Slots
    BY <1>2, <1>3, <1>4
  <2>8. /\ waiter' \in [Slots -> Slots \cup {NULL}] /\ child' \in [Slots -> Slots \cup {NULL}]
        /\ hasExited' \in [Slots -> BOOLEAN] /\ UNCHANGED <<id, pml4, kids, nextId, spaces>>
    BY <1>2, <1>3
  <2> QED BY <1>1, <1>2, <2>1, <2>2, <2>4, <2>5, <2>6, <2>7, <2>8, GiveAway
<1>5. CASE UNCHANGED cpuVars /\ pc' = [pc EXCEPT ![current] = "user"]
  <2>1. UNCHANGED <<ring, state, needResched, cr3, kstack, id, waiter, hasExited, pml4,
                    child, kids, nextId, spaces>>
    BY <1>3, <1>5 DEF cpuVars
  <2>2. pc' \in [Slots -> Points] /\ \A s \in Slots : pc'[s] = IF s = current THEN "user" ELSE pc[s]
    BY <1>2, <1>5 DEF Points
  <2>3. TypeOK' /\ OneRunning' /\ AddressSpacesIntact'
    BY <1>1, <2>1, <2>2 DEF CpuInv, TypeOK, OneRunning, AddressSpacesIntact, Live, current
  <2>4. KernelThreads' /\ ExitedAreZombies'
    BY <1>1, <1>2, <2>1, <2>2 DEF CpuInv, KernelThreads, ExitedAreZombies, Live
  <2>5. \A t \in Slots : pc'[t] = "wait" => child'[t] \in Slots
    BY <1>2, <2>1, <2>2
  <2> QED BY <2>3, <2>4, <2>5 DEF CpuInv
<1> QED BY <1>4, <1>5 DEF ReadLoop, cpuVars

(* Steps that neither create, end nor collect a process and put no thread  *)
(* to sleep inside tty_read.                                               *)
LEMMA QuietStep ==
  ASSUME ConsoleInv, CpuInv', Live' = Live, UNCHANGED <<kids, hasExited, ttyVars>>,
         \A s \in Slots : pc'[s] = "tty" <=> pc[s] = "tty",
         \A s \in Live : pc[s] = "exit" => pc'[s] = "exit",
         \A s \in Slots : pc'[s] = "tty" /\ state'[s] = "BLOCKED" => state[s] = "BLOCKED",
         pc'[Boot] = "kmain" => pc[Boot] = "kmain"
  PROVE  ConsoleInv'
PROOF
<1>1. Live \subseteq Slots /\ ForegroundInv /\ WaiterReads /\ ReaderIsAwaited /\ lines \in Nat
  BY ConsoleFacts DEF ConsoleInv
<1>2. UNCHANGED <<kids, hasExited, ttyWaiter, lines>>
  BY DEF ttyVars
<1>3. OneForeground' /\ ExitedHasNoKids'
  BY <1>1, <1>2 DEF ForegroundInv, OneForeground, ExitedHasNoKids
<1>4. ReaderIsForeground' /\ (pc'[Boot] = "kmain" => Live' \subseteq {Boot, Idle})
  BY <1>1, <1>2 DEF ForegroundInv, ReaderIsForeground
<1>5. WaiterReads'
  BY <1>1, <1>2 DEF WaiterReads
<1>6. ReaderIsAwaited'
  BY <1>1, <1>2 DEF ReaderIsAwaited
<1> QED BY <1>1, <1>2, <1>3, <1>4, <1>5, <1>6 DEF ConsoleInv, ForegroundInv

LEMMA LineInv == ConsoleInv /\ LineIRQ => ConsoleInv'
PROOF
<1> USE SchedAssumption, ConsoleAssumption
<1> SUFFICES ASSUME ConsoleInv, LineIRQ PROVE ConsoleInv'
  OBVIOUS
<1> DEFINE woken == Wake(state, ttyWaiter)
<1>1. CpuInv' /\ CpuInv
  BY LineCpu DEF ConsoleInv
<1>2. /\ Live \subseteq Slots /\ ForegroundInv /\ WaiterReads /\ ReaderIsAwaited /\ lines \in Nat
      /\ TypeOK /\ OneRunning /\ state \in [Slots -> States]
  BY <1>1, ConsoleFacts DEF ConsoleInv
<1>3. /\ UNCHANGED <<hasExited, pc, kids>>
      /\ ttyWaiter' = NULL
  BY DEF LineIRQ, structVars, ForgetWaiter
<1>4. ttyWaiter \in Slots \cup {NULL}
  BY <1>2 DEF WaiterReads
<1>5. \A s \in Slots : woken[s] = IF s = ttyWaiter /\ state[s] = "BLOCKED"
                                  THEN "READY" ELSE state[s]
  BY <1>2, <1>4 DEF Wake
<1>6. woken \in [Slots -> States]
  BY <1>2, <1>4 DEF Wake, States
<1>7. Live' = Live /\ \A s \in Slots : state'[s] = "BLOCKED" => woken[s] = "BLOCKED"
  <2>1. CASE ScheduleLocked(woken, TRUE)
    <3> HIDE DEF woken
    <3> QED BY <1>2, <1>6, <2>1, LiveAfterSchedule
  <2>2. CASE UNCHANGED cpuVars /\ woken = state
    BY <2>2 DEF cpuVars, Live
  <2> QED BY <2>1, <2>2 DEF LineIRQ
<1>8. \A s \in Live' : ~(pc'[s] = "tty" /\ state'[s] = "BLOCKED")
  <2> SUFFICES ASSUME NEW s \in Live', pc'[s] = "tty", state'[s] = "BLOCKED" PROVE FALSE
    OBVIOUS
  <2>1. s \in Live /\ s \in Slots /\ pc[s] = "tty" /\ woken[s] = "BLOCKED"
    BY <1>2, <1>3, <1>7
  <2>2. state[s] = "BLOCKED" /\ s # ttyWaiter
    BY <1>5, <2>1
  <2> QED BY <1>2, <2>1, <2>2 DEF ReaderIsAwaited
<1>9. ForegroundInv'
  BY <1>2, <1>3, <1>7
     DEF ForegroundInv, OneForeground, ExitedHasNoKids, ReaderIsForeground
<1>10. lines' \in Nat
  BY <1>2 DEF LineIRQ
<1> QED BY <1>1, <1>3, <1>8, <1>9, <1>10 DEF ConsoleInv, WaiterReads, ReaderIsAwaited

LEMMA ReadInv ==
  ASSUME ConsoleInv, ReadLoop, pc[current] = "tty" \/ (pc[current] = "user" /\ Foreground),
         UNCHANGED <<structVars, child, kids, nextId, spaces>>
  PROVE  ConsoleInv'
PROOF
<1> USE SchedAssumption, ConsoleAssumption
<1>1. CpuInv' /\ CpuInv
  BY ReadCpu DEF ConsoleInv
<1>2. /\ Live \subseteq Slots /\ ForegroundInv /\ WaiterReads /\ ReaderIsAwaited /\ lines \in Nat
      /\ TypeOK /\ OneRunning /\ state \in [Slots -> States] /\ pc \in [Slots -> Points]
      /\ current \in Live /\ current \in Slots /\ current \notin {Boot, Idle}
      /\ state[current] = "RUNNING"
      /\ \A s \in Live : hasExited[s] => state[s] = "ZOMBIE"
  BY <1>1, ConsoleFacts DEF ConsoleInv
<1>3. UNCHANGED <<hasExited, kids>>
  BY DEF structVars
<1>4. kids[current] = {} /\ ~hasExited[current]
  BY <1>2 DEF Foreground, ForegroundInv, ReaderIsForeground
<1>5. \A s \in Live : s # current => pc[s] # "tty"
  BY <1>2, <1>4 DEF ForegroundInv, ReaderIsForeground, OneForeground
<1>6. CASE /\ lines = 0 /\ RegisterReader /\ Block /\ UNCHANGED lines
           /\ pc' = [pc EXCEPT ![current] = "tty"]
  <2> DEFINE st == [state EXCEPT ![current] = "BLOCKED"]
  <2>1. ScheduleLocked(st, TRUE) /\ ttyWaiter' = current /\ lines' = 0
    BY <1>6 DEF Block, RegisterReader
  <2>2. st \in [Slots -> States]
    BY <1>2 DEF States
  <2> HIDE DEF st
  <2>3. Live' = Live
    BY <1>2, <2>1, <2>2, LiveAfterSchedule
  <2>4. \A s \in Slots : pc'[s] = IF s = current THEN "tty" ELSE pc[s]
    BY <1>2, <1>6
  <2>5. ForegroundInv'
    BY <1>2, <1>3, <1>4, <2>3, <2>4
       DEF ForegroundInv, OneForeground, ExitedHasNoKids, ReaderIsForeground
  <2>6. WaiterReads' /\ ReaderIsAwaited'
    BY <1>2, <1>5, <2>1, <2>3, <2>4 DEF WaiterReads, ReaderIsAwaited
  <2> QED BY <1>1, <2>1, <2>5, <2>6 DEF ConsoleInv
<1>7. CASE /\ lines > 0 /\ lines' \in {lines - 1, lines}
           /\ pc' = [pc EXCEPT ![current] = "user"]
           /\ UNCHANGED <<cpuVars, ttyWaiter>>
  <2>1. UNCHANGED <<ring, state, ttyWaiter>> /\ lines' \in Nat
    BY <1>2, <1>7 DEF cpuVars
  <2>2. Live' = Live /\ \A s \in Slots : pc'[s] = IF s = current THEN "user" ELSE pc[s]
    BY <1>2, <1>7, <2>1 DEF Live
  <2>3. ForegroundInv'
    BY <1>2, <1>3, <1>4, <2>2
       DEF ForegroundInv, OneForeground, ExitedHasNoKids, ReaderIsForeground
  <2>4. ReaderIsAwaited'
    BY <1>2, <1>5, <2>2 DEF ReaderIsAwaited
  <2>5. WaiterReads'
    BY <1>2, <1>5, <1>7, <2>1, <2>2 DEF WaiterReads
  <2> QED BY <1>1, <2>1, <2>3, <2>4, <2>5 DEF ConsoleInv
<1> QED BY <1>6, <1>7 DEF ReadLoop

LEMMA SpawnInv ==
  ASSUME ConsoleInv, CpuInv', UNCHANGED ttyVars, NEW s \in Slots, NEW p \in Pml4s,
         BootSpawn(s, p) \/ (Foreground /\ SysSpawn(s, p))
  PROVE  ConsoleInv'
PROOF
<1> USE SchedAssumption, ConsoleAssumption
<1>1. /\ Live \subseteq Slots /\ ForegroundInv /\ WaiterReads /\ ReaderIsAwaited /\ lines \in Nat
      /\ TypeOK /\ OneRunning /\ state \in [Slots -> States] /\ pc \in [Slots -> Points]
      /\ hasExited \in [Slots -> BOOLEAN] /\ kids \in [Slots -> SUBSET Nat] /\ nextId \in Nat
      /\ current \in Live /\ current \in Slots /\ state[current] = "RUNNING"
      /\ \A t \in Live : hasExited[t] => state[t] = "ZOMBIE"
      /\ pc[current] \in {"user", "wait", "disk", "tty"} => current \notin {Boot, Idle}
  BY ConsoleFacts DEF ConsoleInv
<1>2. CreateProcess(s, p) /\ UNCHANGED <<ttyWaiter, lines>>
  BY DEF BootSpawn, SysSpawn, ttyVars
<1>3. Live' = Live \cup {s} /\ s \notin Live
  BY <1>1, <1>2, LiveAfterCreate
<1>4. /\ state' = [state EXCEPT ![s] = "READY"]
      /\ hasExited' = [hasExited EXCEPT ![s] = FALSE]
  BY <1>2 DEF CreateProcess
<1>5. /\ \A t \in Live : state'[t] = state[t] /\ hasExited'[t] = hasExited[t]
      /\ ~hasExited'[s]
  BY <1>1, <1>3, <1>4
<1>6. ~hasExited[current]
  BY <1>1
<1>7. CASE BootSpawn(s, p)
  <2>1. /\ pc[Boot] = "kmain" /\ pc' = [pc EXCEPT ![s] = "user", ![Boot] = "hlt"]
        /\ kids' = [kids EXCEPT ![s] = {}]
        /\ Boot \in Live
    BY <1>1, <1>7 DEF BootSpawn
  <2>2. Live \subseteq {Boot, Idle}
    BY <1>1, <2>1 DEF ForegroundInv
  <2>3. /\ pc'[s] = "user" /\ pc'[Boot] = "hlt"
        /\ \A t \in Live : t # Boot => pc'[t] = pc[t]
        /\ \A t \in Live : kids'[t] = kids[t]
    BY <1>1, <1>3, <2>1
  <2>4. ForegroundInv'
    BY <1>1, <1>3, <1>5, <2>1, <2>2, <2>3
       DEF ForegroundInv, OneForeground, ExitedHasNoKids, ReaderIsForeground
  <2>5. WaiterReads' /\ ReaderIsAwaited'
    BY <1>1, <1>2, <1>3, <1>5, <2>1, <2>3 DEF WaiterReads, ReaderIsAwaited
  <2> QED BY <1>1, <1>2, <2>4, <2>5 DEF ConsoleInv
<1>8. CASE Foreground /\ SysSpawn(s, p)
  <2>1. /\ pc[current] \in {"user", "disk"} /\ kids[current] = {}
        /\ pc' = [pc EXCEPT ![s] = "user", ![current] = "user"]
        /\ kids' = [kids EXCEPT ![s] = {}, ![current] = @ \cup {nextId}]
    BY <1>8 DEF Foreground, SysSpawn
  <2>2. /\ pc'[s] = "user" /\ pc'[current] = "user"
        /\ \A t \in Live : t # current => pc'[t] = pc[t] /\ kids'[t] = kids[t]
        /\ kids'[current] = {nextId}
        /\ current \notin {Boot, Idle}
    BY <1>1, <1>3, <2>1
  <2>3. \A t \in Live \ {Boot, Idle} : kids'[t] # {}
    BY <1>1, <2>1, <2>2 DEF ForegroundInv, OneForeground
  <2>4. \A t \in Live : pc[t] = "tty" => FALSE
    BY <1>1, <2>1, <2>2 DEF ForegroundInv, OneForeground, ReaderIsForeground
  <2>5. OneForeground' /\ ReaderIsForeground'
    BY <1>3, <2>2, <2>3, <2>4 DEF OneForeground, ReaderIsForeground
  <2>6. ExitedHasNoKids'
    BY <1>1, <1>3, <1>5, <1>6, <2>2 DEF ForegroundInv, ExitedHasNoKids
  <2>7. Boot \in Live
    BY <1>1 DEF ConsoleInv, CpuInv, KernelThreads, OneRunning
  <2>8. pc'[Boot] # "kmain"
    BY <1>1, <2>2, <2>7 DEF ForegroundInv
  <2>9. WaiterReads' /\ ReaderIsAwaited'
    BY <1>2, <1>3, <1>1, <2>2, <2>4 DEF WaiterReads, ReaderIsAwaited
  <2> QED BY <1>1, <1>2, <2>5, <2>6, <2>8, <2>9 DEF ConsoleInv, ForegroundInv
<1> QED BY <1>7, <1>8

LEMMA ExitInv ==
  ASSUME ConsoleInv, CpuInv', UNCHANGED ttyVars, Foreground, SysExit
  PROVE  ConsoleInv'
PROOF
<1> USE SchedAssumption, ConsoleAssumption
<1>1. /\ Live \subseteq Slots /\ ForegroundInv /\ WaiterReads /\ ReaderIsAwaited /\ lines \in Nat
      /\ TypeOK /\ OneRunning /\ state \in [Slots -> States] /\ pc \in [Slots -> Points]
      /\ hasExited \in [Slots -> BOOLEAN] /\ waiter \in [Slots -> Slots \cup {NULL}]
      /\ current \in Live /\ current \in Slots
  BY ConsoleFacts DEF ConsoleInv
<1>2. /\ pc[current] = "user" /\ kids[current] = {}
      /\ hasExited' = [hasExited EXCEPT ![current] = TRUE]
      /\ pc' = [pc EXCEPT ![current] = "exit"]
      /\ UNCHANGED <<kids, ttyWaiter, lines>>
  BY DEF SysExit, Foreground, ttyVars
<1> DEFINE corpse == [state EXCEPT ![current] = "ZOMBIE"]
           woken == Wake(corpse, waiter[current])
<1>3. ScheduleLocked(woken, TRUE)
  BY DEF SysExit
<1>4. waiter[current] \in Slots \cup {NULL} /\ corpse \in [Slots -> States]
  BY <1>1 DEF States
<1>5. /\ woken \in [Slots -> States]
      /\ \A s \in Slots : woken[s] = "BLOCKED" => corpse[s] = "BLOCKED"
  <2> HIDE DEF corpse
  <2> QED BY <1>4 DEF Wake, States
<1>6. \A s \in Slots : woken[s] = "BLOCKED" => state[s] = "BLOCKED"
  BY <1>1, <1>5
<1> HIDE DEF woken
<1>7. Live' = Live /\ \A s \in Slots : state'[s] = "BLOCKED" => state[s] = "BLOCKED"
  BY <1>1, <1>3, <1>5, <1>6, LiveAfterSchedule
<1>8. \A s \in Live : /\ pc'[s] = (IF s = current THEN "exit" ELSE pc[s])
                      /\ hasExited'[s] = (s = current \/ hasExited[s])
  BY <1>1, <1>2
<1>9. ForegroundInv'
  <2>1. OneForeground' /\ ReaderIsForeground'
    BY <1>1, <1>2, <1>7, <1>8 DEF ForegroundInv, OneForeground, ReaderIsForeground
  <2>2. ExitedHasNoKids'
    BY <1>1, <1>2, <1>7, <1>8 DEF ForegroundInv, ExitedHasNoKids
  <2>3. pc'[Boot] = "kmain" => pc[Boot] = "kmain"
    BY <1>1, <1>2
  <2> QED BY <1>1, <1>7, <2>1, <2>2, <2>3 DEF ForegroundInv
<1>10. WaiterReads'
  BY <1>1, <1>2, <1>7, <1>8 DEF WaiterReads
<1>11. ReaderIsAwaited'
  BY <1>1, <1>2, <1>7, <1>8 DEF ReaderIsAwaited
<1> QED BY <1>1, <1>2, <1>9, <1>10, <1>11 DEF ConsoleInv

-----------------------------------------------------------------------------
(* The pointers of waitpid, WaitInv of SchedProofs, do not notice the      *)
(* terminal.                                                               *)
LEMMA WaitFrame ==
  ASSUME WaitInv, CpuInv', Live' = Live,
         UNCHANGED <<id, kids, nextId, waiter, child, hasExited>>,
         \A s \in Slots : pc'[s] = "wait" <=> pc[s] = "wait",
         \A s \in Live : pc[s] = "exit" => pc'[s] = "exit",
         \A s \in Slots : pc'[s] = "wait" /\ state'[s] = "BLOCKED" => state[s] = "BLOCKED"
  PROVE  WaitInv'
PROOF
<1>1. /\ Live \subseteq Slots
      /\ KidsDisjoint /\ WaitPairs /\ NoLostWake /\ \A s \in Live : hasExited[s] => pc[s] = "exit"
  BY ConsoleFacts DEF WaitInv
<1>2. KidsDisjoint'
  BY <1>1 DEF KidsDisjoint
<1>3. WaitPairs'
  BY <1>1 DEF WaitPairs
<1>4. NoLostWake'
  BY <1>1 DEF NoLostWake
<1> QED BY <1>1, <1>2, <1>3, <1>4 DEF WaitInv

LEMMA LineWait == ConsoleInv /\ WaitInv /\ LineIRQ => WaitInv'
PROOF
<1> USE SchedAssumption, ConsoleAssumption
<1> SUFFICES ASSUME ConsoleInv, WaitInv, LineIRQ PROVE WaitInv'
  OBVIOUS
<1> DEFINE woken == Wake(state, ttyWaiter)
<1>1. CpuInv' /\ CpuInv
  BY LineCpu DEF ConsoleInv
<1>2. /\ Live \subseteq Slots /\ WaiterReads
      /\ TypeOK /\ OneRunning /\ state \in [Slots -> States]
  BY <1>1, ConsoleFacts DEF ConsoleInv
<1>3. UNCHANGED <<id, kids, nextId, waiter, child, hasExited, pc>>
  BY DEF LineIRQ, structVars
<1>4. ttyWaiter \in Slots \cup {NULL}
  BY <1>2 DEF WaiterReads
<1>5. /\ woken \in [Slots -> States]
      /\ \A s \in Slots : woken[s] = "BLOCKED" => state[s] = "BLOCKED"
  BY <1>2, <1>4 DEF Wake, States
<1>6. Live' = Live /\ \A s \in Slots : state'[s] = "BLOCKED" => state[s] = "BLOCKED"
  <2>1. CASE ScheduleLocked(woken, TRUE)
    <3> HIDE DEF woken
    <3> QED BY <1>2, <1>5, <2>1, LiveAfterSchedule
  <2>2. CASE UNCHANGED cpuVars
    BY <2>2 DEF cpuVars, Live
  <2> QED BY <2>1, <2>2 DEF LineIRQ
<1> QED BY <1>1, <1>3, <1>6, WaitFrame

LEMMA ReadWait ==
  ASSUME ConsoleInv, WaitInv, ReadLoop, pc[current] \in {"user", "tty"},
         UNCHANGED <<structVars, child, kids, nextId, spaces>>
  PROVE  WaitInv'
PROOF
<1> USE SchedAssumption, ConsoleAssumption
<1>1. CpuInv' /\ CpuInv
  BY ReadCpu DEF ConsoleInv
<1>2. /\ Live \subseteq Slots /\ current \in Slots
      /\ TypeOK /\ OneRunning /\ state \in [Slots -> States] /\ pc \in [Slots -> Points]
  BY <1>1, ConsoleFacts
<1>3. UNCHANGED <<id, kids, nextId, waiter, child, hasExited>>
  BY DEF structVars
<1>4. CASE Block /\ pc' = [pc EXCEPT ![current] = "tty"]
  <2> DEFINE st == [state EXCEPT ![current] = "BLOCKED"]
  <2>1. ScheduleLocked(st, TRUE)
    BY <1>4 DEF Block
  <2>2. st \in [Slots -> States] /\ \A s \in Slots : s # current => st[s] = state[s]
    BY <1>2 DEF States
  <2> HIDE DEF st
  <2>3. Live' = Live /\ \A s \in Slots : state'[s] = "BLOCKED" => st[s] = "BLOCKED"
    BY <1>2, <2>1, <2>2, LiveAfterSchedule
  <2>4. \A s \in Slots : pc'[s] = IF s = current THEN "tty" ELSE pc[s]
    BY <1>2, <1>4
  <2> QED BY <1>1, <1>2, <1>3, <2>2, <2>3, <2>4, WaitFrame
<1>5. CASE UNCHANGED cpuVars /\ pc' = [pc EXCEPT ![current] = "user"]
  <2>1. Live' = Live /\ state' = state
    BY <1>5 DEF cpuVars, Live
  <2>2. \A s \in Slots : pc'[s] = IF s = current THEN "user" ELSE pc[s]
    BY <1>2, <1>5
  <2> QED BY <1>1, <1>2, <1>3, <2>1, <2>2, WaitFrame
<1> QED BY <1>4, <1>5 DEF ReadLoop

-----------------------------------------------------------------------------
LEMMA CollectInv ==
  ASSUME ConsoleInv, CpuInv', UNCHANGED ttyVars, NEW c \in Live, hasExited[c], Collect(c),
         pc[current] \in {"user", "wait"}
  PROVE  ConsoleInv'
PROOF
<1> USE SchedAssumption, ConsoleAssumption
<1>1. /\ Live \subseteq Slots /\ ForegroundInv /\ WaiterReads /\ ReaderIsAwaited /\ lines \in Nat
      /\ pc \in [Slots -> Points] /\ kids \in [Slots -> SUBSET Nat] /\ current \in Slots
      /\ current \in Live /\ state[current] = "RUNNING" /\ CpuInv
      /\ \A t \in Live : hasExited[t] => state[t] = "ZOMBIE"
      /\ pc[Boot] \in {"kmain", "hlt"} /\ pc[Idle] = "idle"
  BY ConsoleFacts DEF ConsoleInv
<1>2. Live' = Live \ {c} /\ c # current /\ \A t \in Slots : t # c => state'[t] = state[t]
  BY <1>1, LiveAfterCollect
<1>3. /\ pc' = [pc EXCEPT ![c] = "none", ![current] = "user"]
      /\ kids' = [kids EXCEPT ![current] = @ \ {id[c]}]
      /\ UNCHANGED <<hasExited, ttyWaiter, lines>>
  BY DEF Collect, ttyVars
<1>4. \A t \in Live' : /\ t \in Live /\ t \in Slots /\ t # c
                       /\ pc'[t] = (IF t = current THEN "user" ELSE pc[t])
                       /\ (t # current => kids'[t] = kids[t])
                       /\ state'[t] = state[t]
  BY <1>1, <1>2, <1>3
<1>5. pc[c] = "exit" /\ kids[c] = {}
  BY <1>1 DEF ForegroundInv, ExitedHasNoKids
<1>6. c \notin {Boot, Idle}
  BY <1>1, <1>5
<1>7. OneForeground'
  BY <1>1, <1>4, <1>5, <1>6 DEF ForegroundInv, OneForeground
<1>8. ExitedHasNoKids'
  <2> SUFFICES ASSUME NEW t \in Live', hasExited'[t] PROVE pc'[t] = "exit" /\ kids'[t] = {}
    BY DEF ExitedHasNoKids
  <2>1. t \in Live /\ hasExited[t] /\ t # current
    BY <1>1, <1>3, <1>4
  <2> QED BY <1>1, <1>4, <2>1 DEF ForegroundInv, ExitedHasNoKids
<1>9. ReaderIsForeground'
  BY <1>1, <1>4 DEF ForegroundInv, ReaderIsForeground
<1>10. pc'[Boot] = "kmain" => Live' \subseteq {Boot, Idle}
  BY <1>1, <1>2, <1>3, <1>6 DEF ForegroundInv
<1>11. WaiterReads'
  BY <1>1, <1>2, <1>3, <1>4, <1>5 DEF WaiterReads
<1>12. ReaderIsAwaited'
  BY <1>1, <1>3, <1>4 DEF ReaderIsAwaited
<1> QED BY <1>1, <1>3, <1>7, <1>8, <1>9, <1>10, <1>11, <1>12 DEF ConsoleInv, ForegroundInv

LEMMA WaitLoopInv ==
  ASSUME ConsoleInv, CpuInv', UNCHANGED ttyVars, NEW c \in Live, WaitLoop(c),
         pc[current] \in {"user", "wait"}
  PROVE  ConsoleInv'
PROOF
<1>1. CASE hasExited[c] /\ Collect(c)
  BY <1>1, CollectInv
<1>2. CASE ~hasExited[c] /\ Block /\ pc' = [pc EXCEPT ![current] = "wait"]
           /\ UNCHANGED <<hasExited, kids>>
  <2> DEFINE st == [state EXCEPT ![current] = "BLOCKED"]
  <2>1. /\ Live \subseteq Slots /\ current \in Slots /\ TypeOK /\ OneRunning
        /\ state \in [Slots -> States] /\ pc \in [Slots -> Points]
    BY ConsoleFacts DEF ConsoleInv
  <2>2. ScheduleLocked(st, TRUE)
    BY <1>2 DEF Block
  <2>3. st \in [Slots -> States] /\ \A s \in Slots : s # current => st[s] = state[s]
    BY <2>1 DEF States
  <2> HIDE DEF st
  <2>4. Live' = Live /\ \A s \in Slots : state'[s] = "BLOCKED" => st[s] = "BLOCKED"
    BY <2>1, <2>2, <2>3, LiveAfterSchedule
  <2>5. \A s \in Slots : pc'[s] = IF s = current THEN "wait" ELSE pc[s]
    BY <1>2, <2>1
  <2>6. Boot \in Slots
    BY SchedAssumption
  <2> QED BY <1>2, <2>1, <2>3, <2>4, <2>5, <2>6, QuietStep
<1> QED BY <1>1, <1>2 DEF WaitLoop

LEMMA SchedStepInv ==
  ASSUME AnyWaiter = FALSE, ConsoleInv, WaitInv, SchedStep, UNCHANGED ttyVars
  PROVE  ConsoleInv' /\ WaitInv'
PROOF
<1> USE SchedAssumption, ConsoleAssumption
<1>1. Next /\ CpuInv
  BY SchedStepIsNext DEF ConsoleInv
<1>2. CpuInv' /\ WaitInv'
  BY <1>1, CpuNext, WaitNext
<1>3. /\ current \in Slots /\ current \in Live /\ TypeOK /\ OneRunning /\ Boot \in Slots
      /\ Live \subseteq Slots
      /\ state \in [Slots -> States] /\ pc \in [Slots -> Points]
  BY <1>1, ConsoleFacts
<1>4. ASSUME ScheduleLocked(state, TRUE), UNCHANGED <<kids, hasExited>>,
             \/ pc' = pc
             \/ /\ pc[current] \in {"kmain", "user", "disk"}
                /\ pc' = [pc EXCEPT ![current] = IF @ = "kmain" THEN @ ELSE "disk"]
      PROVE  ConsoleInv'
  <2>1. Live' = Live /\ \A s \in Slots : state'[s] = "BLOCKED" => state[s] = "BLOCKED"
    BY <1>3, <1>4, LiveAfterSchedule
  <2>2. \A s \in Slots : pc'[s] = pc[s] \/ (pc'[s] = "disk" /\ pc[s] \in {"user", "disk"})
    BY <1>3, <1>4
  <2> QED BY <1>2, <1>3, <1>4, <2>1, <2>2, QuietStep
<1>5. ASSUME TimerIRQ PROVE ConsoleInv'
  BY <1>4, <1>5 DEF TimerIRQ, structVars
<1>6. ASSUME DiskYield PROVE ConsoleInv'
  BY <1>4, <1>6 DEF DiskYield, structVars
<1>7. ASSUME KmainHalts \/ DiskDone PROVE ConsoleInv'
  <2>1. /\ UNCHANGED <<ring, state, kids, hasExited>>
        /\ \/ pc[Boot] = "kmain" /\ pc' = [pc EXCEPT ![Boot] = "hlt"]
           \/ pc[current] = "disk" /\ pc' = [pc EXCEPT ![current] = "user"]
    BY <1>7 DEF KmainHalts, DiskDone, cpuVars, structVars
  <2>2. Live' = Live
    BY <2>1 DEF Live
  <2>3. \A s \in Slots : \/ pc'[s] = pc[s]
                         \/ pc[s] = "kmain" /\ pc'[s] = "hlt"
                         \/ pc[s] = "disk" /\ pc'[s] = "user"
    BY <1>3, <2>1
  <2> QED BY <1>2, <1>3, <2>1, <2>2, <2>3, QuietStep
<1>8. ASSUME NEW s \in Slots, NEW p \in Pml4s,
             BootSpawn(s, p) \/ (Foreground /\ SysSpawn(s, p))
      PROVE  ConsoleInv'
  BY <1>2, <1>8, SpawnInv
<1>9. ASSUME Foreground, SysExit PROVE ConsoleInv'
  BY <1>2, <1>9, ExitInv
<1>10. ASSUME NEW c \in Slots, SysWaitpid(c) PROVE ConsoleInv'
  <2>1. c \in Live /\ WaitLoop(c) /\ pc[current] = "user"
    BY <1>10 DEF SysWaitpid
  <2> QED BY <1>2, <2>1, WaitLoopInv
<1>11. ASSUME WaitResume PROVE ConsoleInv'
  <2>1. WaitLoop(child[current]) /\ pc[current] = "wait"
    BY <1>11 DEF WaitResume
  <2>2. child[current] \in Live
    BY <1>3, <2>1 DEF WaitInv, WaitPairs
  <2> QED BY <1>2, <2>1, <2>2, WaitLoopInv
<1> QED BY <1>2, <1>5, <1>6, <1>7, <1>8, <1>9, <1>10, <1>11 DEF SchedStep, KernelStep

LEMMA ConsoleNextInv ==
  AnyWaiter = FALSE /\ ConsoleInv /\ WaitInv /\ [ConsoleNext]_consoleVars
    => ConsoleInv' /\ WaitInv'
PROOF
<1> SUFFICES ASSUME AnyWaiter = FALSE, ConsoleInv, WaitInv, [ConsoleNext]_consoleVars
             PROVE  ConsoleInv' /\ WaitInv'
  OBVIOUS
<1>1. CASE SchedStep /\ UNCHANGED ttyVars
  BY <1>1, SchedStepInv
<1>2. CASE LineIRQ
  BY <1>2, LineInv, LineWait
<1>3. CASE SysRead \/ ReadResume
  <2>1. /\ ReadLoop /\ (pc[current] = "tty" \/ (pc[current] = "user" /\ Foreground))
        /\ UNCHANGED <<structVars, child, kids, nextId, spaces>>
    BY <1>3 DEF SysRead, ReadResume
  <2> QED BY <2>1, ReadInv, ReadWait
<1>4. CASE UNCHANGED consoleVars
  <2>1. UNCHANGED vars /\ UNCHANGED ttyVars
    BY <1>4 DEF consoleVars
  <2>2. CpuInv' /\ WaitInv'
    BY <2>1, CpuNext, WaitNext DEF ConsoleInv
  <2>3. Live' = Live /\ UNCHANGED <<state, pc, kids, hasExited>>
    BY <2>1 DEF vars, Live
  <2> QED BY <2>1, <2>2, <2>3, QuietStep
<1> QED BY <1>1, <1>2, <1>3, <1>4 DEF ConsoleNext

THEOREM ConsoleInvariant == AnyWaiter = FALSE => (ConsoleSpec => [](ConsoleInv /\ WaitInv))
PROOF
<1> SUFFICES ASSUME AnyWaiter = FALSE PROVE ConsoleSpec => [](ConsoleInv /\ WaitInv)
  OBVIOUS
<1>1. ConsoleInit => ConsoleInv /\ WaitInv
  BY ConsoleInitInv, WaitInit DEF ConsoleInit
<1>2. (ConsoleInv /\ WaitInv) /\ [ConsoleNext]_consoleVars => (ConsoleInv /\ WaitInv)'
  BY ConsoleNextInv
<1> QED BY <1>1, <1>2, PTL DEF ConsoleSpec

LEMMA ConsoleInvImplies ==
  ConsoleInv => CpuConsistent /\ OneForeground /\ ReaderIsAwaited
BY DEF ConsoleInv, CpuInv, CpuConsistent, WaiterReads, ForegroundInv

(* The interrupts of the keyboard and of COM1, which switch to the reader  *)
(* they wake, keep one RUNNING thread with its own page table and kernel   *)
(* stack loaded.                                                           *)
THEOREM ConsoleCpu == AnyWaiter = FALSE => (ConsoleSpec => []CpuConsistent)
BY ConsoleInvariant, ConsoleInvImplies, PTL

(* Programs that wait for what they spawn, each for its own children, as   *)
(* sh.c does, leave at most one process not waiting, so at most one reader.*)
THEOREM ConsoleOneForeground == AnyWaiter = FALSE => (ConsoleSpec => []OneForeground)
BY ConsoleInvariant, ConsoleInvImplies, PTL

(* With that one reader the single waiter of tty.c loses no wake.          *)
THEOREM ConsoleNoLostWake == AnyWaiter = FALSE => (ConsoleSpec => []ReaderIsAwaited)
BY ConsoleInvariant, ConsoleInvImplies, PTL
=============================================================================
