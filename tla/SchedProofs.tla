----------------------------- MODULE SchedProofs -----------------------------
(***************************************************************************)
(* Proofs about the scheduler for every number of threads, address spaces  *)
(* and ids, and for both disciplines of SYS_WAITPID where that is said.    *)
(***************************************************************************)
EXTENDS Sched, SequenceTheorems, TLAPS

(* A ring without repetition holds the set X.                              *)
IsRing(s, X) ==
  /\ s \in Seq(Slots)
  /\ \A i, j \in 1..Len(s) : s[i] = s[j] => i = j
  /\ X = {s[i] : i \in 1..Len(s)}

-----------------------------------------------------------------------------
(* Turning the ring to its i-th thread keeps its threads and puts that     *)
(* thread at the head (schedule_locked).                                   *)
LEMMA RotateRing ==
  ASSUME NEW s, NEW X, IsRing(s, X), NEW i \in 2..Len(s)
  PROVE  /\ IsRing(Rotate(s, i), X)
         /\ Len(Rotate(s, i)) = Len(s)
         /\ Rotate(s, i)[1] = s[i]
         /\ \A k \in i..Len(s) : Rotate(s, i)[k - i + 1] = s[k]
         /\ \A k \in 1..(i - 1) : Rotate(s, i)[k + Len(s) - i + 1] = s[k]
PROOF
<1> DEFINE n == Len(s)
           a == SubSeq(s, i, n)
           b == SubSeq(s, 1, i - 1)
           r == Rotate(s, i)
<1>1. s \in Seq(Slots) /\ n \in Nat /\ i \in 2..n
  BY DEF IsRing
<1>2. \A k \in 1..n : s[k] \in Slots
  BY <1>1
<1>3. /\ a \in Seq(Slots)
      /\ Len(a) = n - i + 1
      /\ \A k \in 1..(n - i + 1) : a[k] = s[i + k - 1]
  BY <1>1, <1>2, SubSeqProperties
<1>4. /\ b \in Seq(Slots)
      /\ Len(b) = i - 1
      /\ \A k \in 1..(i - 1) : b[k] = s[k]
  <2>1. \A k \in 1..(i - 1) : s[k] \in Slots
    BY <1>1, <1>2
  <2>2. /\ b \in Seq(Slots)
        /\ Len(b) = IF 1 <= i - 1 THEN i - 1 - 1 + 1 ELSE 0
        /\ \A k \in 1..(i - 1 - 1 + 1) : b[k] = s[1 + k - 1]
    BY <1>1, <2>1, SubSeqProperties
  <2> QED BY <1>1, <2>2
<1>5. /\ r \in Seq(Slots)
      /\ Len(r) = n
      /\ \A k \in 1..n : r[k] = IF k <= n - i + 1 THEN a[k] ELSE b[k - (n - i + 1)]
  <2>1. /\ a \o b \in Seq(Slots)
        /\ Len(a \o b) = Len(a) + Len(b)
        /\ \A k \in 1..Len(a) + Len(b) : (a \o b)[k] =
             IF k <= Len(a) THEN a[k] ELSE b[k - Len(a)]
    BY <1>3, <1>4, ConcatProperties
  <2>2. r = a \o b
    BY DEF Rotate
  <2>3. Len(a) + Len(b) = n
    BY <1>1, <1>3, <1>4
  <2> QED BY <2>1, <2>2, <2>3, <1>3
<1>6. \A k \in 1..n : r[k] = IF k <= n - i + 1 THEN s[i + k - 1] ELSE s[k - (n - i + 1)]
  BY <1>1, <1>3, <1>4, <1>5
<1> HIDE DEF a, b, r
<1>7. \A k \in i..n : r[k - i + 1] = s[k]
  BY <1>1, <1>6
<1>8. \A k \in 1..(i - 1) : r[k + n - i + 1] = s[k]
  BY <1>1, <1>6
<1> DEFINE from(k) == IF k <= n - i + 1 THEN i + k - 1 ELSE k - (n - i + 1)
<1>a. \A k \in 1..n : from(k) \in 1..n /\ r[k] = s[from(k)]
  BY <1>1, <1>6
<1>b. \A j, k \in 1..n : from(j) = from(k) => j = k
  BY <1>1
<1> HIDE DEF from
<1>9. \A j, k \in 1..n : r[j] = r[k] => j = k
  <2> TAKE j, k \in 1..n
  <2> HAVE r[j] = r[k]
  <2>1. \A x, y \in 1..n : s[x] = s[y] => x = y
    BY DEF IsRing
  <2>2. s[from(j)] = s[from(k)]
    BY <1>a
  <2> QED BY <1>a, <1>b, <2>1, <2>2
<1>10. X = {r[k] : k \in 1..n}
  <2>1. X = {s[k] : k \in 1..n}
    BY DEF IsRing
  <2>2. ASSUME NEW k \in 1..n PROVE \E j \in 1..n : s[j] = r[k]
    BY <1>a
  <2>3. ASSUME NEW k \in 1..n PROVE \E j \in 1..n : r[j] = s[k]
    <3>1. CASE k >= i
      <4>1. k - i + 1 \in 1..n /\ r[k - i + 1] = s[k]
        BY <1>1, <1>7, <3>1
      <4> QED BY <4>1
    <3>2. CASE k < i
      <4>1. k + n - i + 1 \in 1..n /\ r[k + n - i + 1] = s[k]
        BY <1>1, <1>8, <3>2
      <4> QED BY <4>1
    <3> QED BY <3>1, <3>2, <1>1
  <2>4. \A x \in X : \E k \in 1..n : x = r[k]
    BY <2>1, <2>3
  <2>5. \A k \in 1..n : r[k] \in X
    BY <2>1, <2>2
  <2> QED BY <2>4, <2>5
<1>11. IsRing(r, X)
  BY <1>5, <1>9, <1>10 DEF IsRing
<1>12. r[1] = s[i]
  BY <1>1, <1>6
<1> QED BY <1>5, <1>7, <1>8, <1>11, <1>12 DEF r

(* A new thread at the tail (enqueue_thread).                              *)
LEMMA AppendRing ==
  ASSUME NEW s, NEW X, IsRing(s, X), NEW t \in Slots \ X
  PROVE  /\ IsRing(Append(s, t), X \cup {t})
         /\ Len(Append(s, t)) = Len(s) + 1
         /\ \A k \in 1..Len(s) : Append(s, t)[k] = s[k]
PROOF
<1>1. s \in Seq(Slots) /\ Len(s) \in Nat
  BY DEF IsRing
<1>2. /\ Append(s, t) \in Seq(Slots)
      /\ Len(Append(s, t)) = Len(s) + 1
      /\ \A k \in 1..Len(s) : Append(s, t)[k] = s[k]
      /\ Append(s, t)[Len(s) + 1] = t
  BY <1>1
<1>3. \A k \in 1..Len(s) : s[k] \in X
  BY DEF IsRing
<1>4. \A j, k \in 1..(Len(s) + 1) : Append(s, t)[j] = Append(s, t)[k] => j = k
  <2> TAKE j, k \in 1..(Len(s) + 1)
  <2> HAVE Append(s, t)[j] = Append(s, t)[k]
  <2>1. \A x, y \in 1..Len(s) : s[x] = s[y] => x = y
    BY DEF IsRing
  <2> QED BY <1>1, <1>2, <1>3, <2>1
<1>5. X \cup {t} = {Append(s, t)[k] : k \in 1..(Len(s) + 1)}
  <2>1. X = {s[k] : k \in 1..Len(s)}
    BY DEF IsRing
  <2>2. ASSUME NEW k \in 1..(Len(s) + 1) PROVE Append(s, t)[k] \in X \cup {t}
    BY <1>1, <1>2, <1>3
  <2>3. ASSUME NEW x \in X PROVE \E k \in 1..(Len(s) + 1) : Append(s, t)[k] = x
    BY <1>1, <1>2, <2>1
  <2>4. Len(s) + 1 \in 1..(Len(s) + 1)
    BY <1>1
  <2> QED BY <1>2, <2>2, <2>3, <2>4
<1> QED BY <1>2, <1>4, <1>5 DEF IsRing

(* Unlinking the i-th thread removes it and no other (sched_reap).         *)
LEMMA WithoutRing ==
  ASSUME NEW s, NEW X, IsRing(s, X), NEW i \in 2..Len(s)
  PROVE  /\ IsRing(Without(s, i), X \ {s[i]})
         /\ Len(Without(s, i)) = Len(s) - 1
         /\ \A k \in 1..(i - 1) : Without(s, i)[k] = s[k]
         /\ \A k \in (i + 1)..Len(s) : Without(s, i)[k - 1] = s[k]
PROOF
<1> DEFINE n == Len(s)
           a == SubSeq(s, 1, i - 1)
           b == SubSeq(s, i + 1, n)
           r == Without(s, i)
<1>1. s \in Seq(Slots) /\ n \in Nat /\ i \in 2..n
  BY DEF IsRing
<1>2. \A k \in 1..n : s[k] \in Slots
  BY <1>1
<1>3. /\ a \in Seq(Slots)
      /\ Len(a) = i - 1
      /\ \A k \in 1..(i - 1) : a[k] = s[k]
  <2>1. \A k \in 1..(i - 1) : s[k] \in Slots
    BY <1>1, <1>2
  <2>2. /\ a \in Seq(Slots)
        /\ Len(a) = IF 1 <= i - 1 THEN i - 1 - 1 + 1 ELSE 0
        /\ \A k \in 1..(i - 1 - 1 + 1) : a[k] = s[1 + k - 1]
    BY <1>1, <2>1, SubSeqProperties
  <2> QED BY <1>1, <2>2
<1>4. /\ b \in Seq(Slots)
      /\ Len(b) = n - i
      /\ \A k \in 1..(n - i) : b[k] = s[i + k]
  <2>1. \A k \in (i + 1)..n : s[k] \in Slots
    BY <1>1, <1>2
  <2>2. /\ b \in Seq(Slots)
        /\ Len(b) = IF i + 1 <= n THEN n - (i + 1) + 1 ELSE 0
        /\ \A k \in 1..(n - (i + 1) + 1) : b[k] = s[i + 1 + k - 1]
    BY <1>1, <2>1, SubSeqProperties
  <2> QED BY <1>1, <2>2
<1>5. /\ r \in Seq(Slots)
      /\ Len(r) = n - 1
      /\ \A k \in 1..(n - 1) : r[k] = IF k <= i - 1 THEN a[k] ELSE b[k - (i - 1)]
  <2>1. /\ a \o b \in Seq(Slots)
        /\ Len(a \o b) = Len(a) + Len(b)
        /\ \A k \in 1..Len(a) + Len(b) : (a \o b)[k] =
             IF k <= Len(a) THEN a[k] ELSE b[k - Len(a)]
    BY <1>3, <1>4, ConcatProperties
  <2>2. r = a \o b
    BY DEF Without
  <2>3. Len(a) + Len(b) = n - 1
    BY <1>1, <1>3, <1>4
  <2> QED BY <2>1, <2>2, <2>3, <1>3
<1>6. \A k \in 1..(n - 1) : r[k] = IF k <= i - 1 THEN s[k] ELSE s[k + 1]
  BY <1>1, <1>3, <1>4, <1>5
<1> HIDE DEF a, b, r
<1>7. \A k \in 1..(i - 1) : r[k] = s[k]
  BY <1>1, <1>6
<1>8. \A k \in (i + 1)..n : r[k - 1] = s[k]
  BY <1>1, <1>6
<1>9. \A x, y \in 1..n : s[x] = s[y] => x = y
  BY DEF IsRing
<1>10. \A j, k \in 1..(n - 1) : r[j] = r[k] => j = k
  BY <1>1, <1>6, <1>9
<1>11. X \ {s[i]} = {r[k] : k \in 1..(n - 1)}
  <2>1. X = {s[k] : k \in 1..n}
    BY DEF IsRing
  <2>2. ASSUME NEW k \in 1..(n - 1) PROVE r[k] \in X \ {s[i]}
    BY <1>1, <1>6, <1>9, <2>1
  <2>3. ASSUME NEW k \in 1..n, k # i PROVE \E j \in 1..(n - 1) : r[j] = s[k]
    <3>1. CASE k > i
      <4>1. k - 1 \in 1..(n - 1) /\ r[k - 1] = s[k]
        BY <1>1, <1>8, <3>1
      <4> QED BY <4>1
    <3>2. CASE k < i
      <4>1. k \in 1..(n - 1) /\ r[k] = s[k]
        BY <1>1, <1>7, <3>2
      <4> QED BY <4>1
    <3> QED BY <3>1, <3>2, <1>1, <2>3
  <2>4. ASSUME NEW x \in X \ {s[i]} PROVE x \in {r[k] : k \in 1..(n - 1)}
    <3>1. PICK k \in 1..n : x = s[k]
      BY <2>1
    <3>2. k # i
      BY <3>1
    <3>3. PICK j \in 1..(n - 1) : r[j] = s[k]
      BY <2>3, <3>2
    <3> QED BY <3>1, <3>3
  <2>5. {r[k] : k \in 1..(n - 1)} \subseteq X \ {s[i]}
    BY <2>2
  <2> QED BY <2>4, <2>5
<1>12. IsRing(r, X \ {s[i]})
  BY <1>5, <1>10, <1>11 DEF IsRing
<1> QED BY <1>5, <1>7, <1>8, <1>12 DEF r

-----------------------------------------------------------------------------
(* The strengthening that makes OneRunning and AddressSpacesIntact         *)
(* inductive.  What it adds: the boot and idle threads never block or die, *)
(* so the last schedule_locked of a sleeping or dying thread finds someone *)
(* to run, and only a ZOMBIE has exited, so only a ZOMBIE is reaped.       *)
KernelThreads ==
  /\ state[Boot] \in {"READY", "RUNNING"} /\ state[Idle] \in {"READY", "RUNNING"}
  /\ pc[Boot] \in {"kmain", "hlt"} /\ pc[Idle] = "idle"
  /\ \A s \in Slots : pc[s] = "idle" => s = Idle
  /\ pml4[Boot] = KernelPml4 /\ pml4[Idle] = KernelPml4
  /\ KernelPml4 \in spaces

ExitedAreZombies == \A s \in Live : hasExited[s] => state[s] = "ZOMBIE"

CpuInv ==
  /\ TypeOK
  /\ OneRunning
  /\ AddressSpacesIntact
  /\ KernelThreads
  /\ ExitedAreZombies
  /\ \A t \in Slots : pc[t] = "wait" => child[t] \in Slots

LEMMA RingOfCpuInv ==
  ASSUME TypeOK, OneRunning
  PROVE  /\ IsRing(ring, Live)
         /\ Len(ring) \in Nat /\ Len(ring) >= 1
         /\ DOMAIN ring = 1..Len(ring)
         /\ current \in Live /\ current \in Slots
         /\ Live \subseteq Slots
         /\ state[current] = "RUNNING"
PROOF
<1>1. ring \in Seq(Slots) /\ ring # <<>>
  BY DEF TypeOK
<1>2. DOMAIN ring = 1..Len(ring) /\ Len(ring) \in Nat /\ Len(ring) >= 1
  BY <1>1
<1>3. \A i \in 1..Len(ring) : ring[i] \in Slots
  BY <1>1
<1>4. IsRing(ring, Live)
  BY <1>1, <1>2 DEF IsRing, Live, OneRunning
<1>5. current \in Live /\ current \in Slots
  BY <1>2, <1>3 DEF Live, current
<1>6. Live \subseteq Slots
  BY <1>2, <1>3 DEF Live
<1> QED BY <1>2, <1>4, <1>5, <1>6 DEF OneRunning

LEMMA LiveIsRange ==
  ASSUME NEW s, NEW X, IsRing(s, X)
  PROVE  X = {s[i] : i \in DOMAIN s} /\ s \in Seq(Slots) /\ DOMAIN s = 1..Len(s)
BY DEF IsRing

(* What schedule_locked does to a CPU that satisfies the invariant, when   *)
(* the caller leaves the current thread runnable or the idle thread READY. *)
LEMMA ScheduleStep ==
  ASSUME TypeOK, OneRunning, cr3 = pml4[current], kstack = current,
         NEW st \in [Slots -> States], NEW need \in BOOLEAN,
         \A s \in Slots : st[s] = "DEAD" <=> state[s] = "DEAD",
         \A s \in Slots : s # current => st[s] # "RUNNING",
         st[current] # "READY",
         st[current] = "RUNNING" \/ (\E s \in Live : st[s] = "READY"),
         ScheduleLocked(st, need),
         pml4' = pml4
  PROVE  /\ Live' = Live
         /\ ring' \in Seq(Slots) /\ ring' # <<>>
         /\ state' \in [Slots -> States]
         /\ needResched' \in BOOLEAN /\ cr3' \in Pml4s /\ kstack' \in Slots
         /\ OneRunning'
         /\ cr3' = pml4[current'] /\ kstack' = current'
         /\ \A s \in Slots : st[s] \in {"READY", "RUNNING"} => state'[s] \in {"READY", "RUNNING"}
         /\ \A s \in Slots : st[s] \notin {"READY", "RUNNING"} => state'[s] = st[s]
PROOF
<1>1. /\ IsRing(ring, Live)
      /\ Len(ring) \in Nat /\ Len(ring) >= 1
      /\ DOMAIN ring = 1..Len(ring)
      /\ current \in Live /\ current \in Slots
      /\ Live \subseteq Slots
  BY RingOfCpuInv
<1>2. \A s \in Slots : s \in Live <=> st[s] # "DEAD"
  BY DEF OneRunning
<1>3. CASE ReadyAt(st) = {}
  <2>1. \A i \in 2..Len(ring) : st[ring[i]] # "READY"
    BY <1>3 DEF ReadyAt
  <2>2. st[current] = "RUNNING"
    <3> SUFFICES ASSUME NEW s \in Live, st[s] = "READY" PROVE FALSE
      OBVIOUS
    <3>1. PICK i \in 1..Len(ring) : s = ring[i]
      BY <1>1 DEF Live
    <3> QED BY <1>1, <2>1, <3>1 DEF current
  <2>3. \A i : ~PickNext(st, i)
    BY <1>3 DEF PickNext
  <2>4. state' = st /\ needResched' = need /\ ring' = ring /\ cr3' = cr3 /\ kstack' = kstack
    BY <2>3 DEF ScheduleLocked, Switch, SwitchPml4
  <2>5. Live' = Live /\ current' = current
    BY <2>4 DEF Live, current
  <2>6. OneRunning'
    <3>1. \A s \in Slots : st[s] = "RUNNING" <=> s = current
      BY <2>2
    <3> QED BY <2>4, <2>5, <3>1, <1>2 DEF OneRunning
  <2> QED BY <2>4, <2>5, <2>6 DEF TypeOK
<1>4. CASE ReadyAt(st) # {}
  <2>1. PICK i \in 2..Len(ring) :
          /\ PickNext(st, i)
          /\ ring' = Rotate(ring, i)
          /\ state' = [st EXCEPT ![current] = IF @ = "RUNNING" THEN "READY" ELSE @,
                                 ![ring[i]] = "RUNNING"]
          /\ needResched' = FALSE
          /\ kstack' = ring[i]
          /\ cr3' = IF pml4[current] # pml4[ring[i]] THEN pml4[ring[i]] ELSE cr3
    BY <1>4 DEF ScheduleLocked, Switch, SwitchPml4
  <2> DEFINE n == ring[i]
  <2>2. st[n] = "READY"
    BY <2>1 DEF PickNext, ReadyAt
  <2>3. n \in Live /\ n \in Slots /\ n # current
    <3>1. ring[i] \in Live
      BY <1>1, <2>1 DEF Live
    <3> QED BY <1>1, <2>2, <3>1
  <2>4. /\ IsRing(ring', Live)
        /\ ring'[1] = n
        /\ Len(ring') = Len(ring)
    BY <1>1, <2>1, RotateRing
  <2>5. Live' = Live /\ ring' \in Seq(Slots) /\ DOMAIN ring' = 1..Len(ring')
    BY <2>4, LiveIsRange DEF Live
  <2>6. current' = n
    BY <2>4 DEF current
  <2> HIDE DEF n
  <2>7. state' = [st EXCEPT ![current] = IF @ = "RUNNING" THEN "READY" ELSE @,
                            ![n] = "RUNNING"]
    BY <2>1 DEF n
  <2>8. state' \in [Slots -> States]
    BY <2>7, <1>1, <2>3 DEF States
  <2>9. \A s \in Slots : state'[s] = IF s = n THEN "RUNNING"
                                     ELSE IF s = current /\ st[s] = "RUNNING" THEN "READY"
                                     ELSE st[s]
    BY <2>7, <1>1, <2>3
  <2>10. OneRunning'
    <3>1. \A s \in Slots : state'[s] = "RUNNING" <=> s = current'
      BY <2>6, <2>9
    <3>2. \A s \in Slots : s \in Live' <=> state'[s] # "DEAD"
      BY <1>2, <2>2, <2>3, <2>5, <2>9
    <3>3. \A j, k \in DOMAIN ring' : ring'[j] = ring'[k] => j = k
      BY <2>4, <2>5 DEF IsRing
    <3> QED BY <3>1, <3>2, <3>3 DEF OneRunning
  <2>11. cr3' = pml4'[current'] /\ kstack' = current'
    BY <2>1, <2>6 DEF n
  <2>12. ring' # <<>>
    BY <1>1, <2>4
  <2>13. cr3' \in Pml4s /\ kstack' \in Slots
    BY <2>3, <2>6, <2>11 DEF TypeOK
  <2>14. needResched' \in BOOLEAN
    BY <2>1
  <2>15. \A s \in Slots : st[s] \in {"READY", "RUNNING"} => state'[s] \in {"READY", "RUNNING"}
    BY <2>9
  <2>16. \A s \in Slots : st[s] \notin {"READY", "RUNNING"} => state'[s] = st[s]
    BY <2>2, <2>9
  <2> QED BY <2>5, <2>8, <2>10, <2>11, <2>12, <2>13, <2>14, <2>15, <2>16
<1> QED BY <1>3, <1>4

-----------------------------------------------------------------------------
(* One lemma per kind of step: a step that only gives the CPU away, one    *)
(* that creates a thread, one that ends a waitpid.                         *)
LEMMA GiveAway ==
  ASSUME CpuInv,
         NEW st \in [Slots -> States],
         \A s \in Slots : st[s] = "DEAD" <=> state[s] = "DEAD",
         \A s \in Slots : s # current => st[s] # "RUNNING",
         st[current] # "READY",
         st[current] = "RUNNING" \/ current \notin {Boot, Idle},
         \A s \in {Boot, Idle} \ {current} : st[s] = state[s],
         ScheduleLocked(st, TRUE),
         UNCHANGED <<id, pml4, kids, nextId, spaces>>,
         waiter' \in [Slots -> Slots \cup {NULL}],
         child' \in [Slots -> Slots \cup {NULL}],
         hasExited' \in [Slots -> BOOLEAN],
         pc' \in [Slots -> Points],
         \A s \in Live : hasExited'[s] => st[s] = "ZOMBIE",
         pc'[Boot] \in {"kmain", "hlt"}, pc'[Idle] = "idle",
         \A s \in Slots : pc'[s] = "idle" => s = Idle,
         \A s \in Slots : pc'[s] = "wait" => child'[s] \in Slots
  PROVE  CpuInv'
PROOF
<1> USE SchedAssumption
<1>1. /\ TypeOK /\ OneRunning /\ AddressSpacesIntact /\ KernelThreads
      /\ cr3 = pml4[current] /\ kstack = current
  BY DEF CpuInv, AddressSpacesIntact
<1>2. Live \subseteq Slots /\ current \in Slots /\ state[current] = "RUNNING"
  BY <1>1, RingOfCpuInv
<1>3. \A s \in Slots : s \in Live <=> state[s] # "DEAD"
  BY <1>1 DEF OneRunning
<1>4. \A s \in Slots : state[s] = "RUNNING" <=> s = current
  BY <1>1 DEF OneRunning
<1>5. st[current] = "RUNNING" \/ (\E s \in Live : st[s] = "READY")
  <2> SUFFICES ASSUME st[current] # "RUNNING" PROVE \E s \in Live : st[s] = "READY"
    OBVIOUS
  <2>1. Idle # current
    OBVIOUS
  <2>2. st[Idle] = state[Idle] /\ state[Idle] = "READY" /\ Idle \in Slots
    BY <2>1, <1>1, <1>4 DEF KernelThreads
  <2>3. Idle \in Live
    BY <2>2, <1>3
  <2> QED BY <2>2, <2>3
<1>6. TRUE \in BOOLEAN /\ pml4' = pml4
  OBVIOUS
<1>7. /\ Live' = Live
      /\ ring' \in Seq(Slots) /\ ring' # <<>>
      /\ state' \in [Slots -> States]
      /\ needResched' \in BOOLEAN /\ cr3' \in Pml4s /\ kstack' \in Slots
      /\ OneRunning'
      /\ cr3' = pml4[current'] /\ kstack' = current'
      /\ \A s \in Slots : st[s] \in {"READY", "RUNNING"} => state'[s] \in {"READY", "RUNNING"}
      /\ \A s \in Slots : st[s] \notin {"READY", "RUNNING"} => state'[s] = st[s]
  BY <1>1, <1>5, <1>6, ScheduleStep
<1>a. \A s \in Slots : st[s] \in {"READY", "RUNNING"} => state'[s] \in {"READY", "RUNNING"}
  BY <1>7
<1>b. \A s \in Slots : st[s] = "ZOMBIE" => state'[s] = "ZOMBIE"
  <2>1. \A s \in Slots : st[s] \notin {"READY", "RUNNING"} => state'[s] = st[s]
    BY <1>7
  <2> QED BY <2>1
<1>8. TypeOK'
  BY <1>1, <1>7 DEF TypeOK
<1>9. AddressSpacesIntact'
  BY <1>1, <1>7 DEF AddressSpacesIntact
<1>10. KernelThreads'
  <2>1. ASSUME NEW s \in {Boot, Idle} PROVE st[s] \in {"READY", "RUNNING"}
    <3>1. CASE s = current
      <4>1. st[s] = "RUNNING"
        BY <3>1
      <4> QED BY <4>1
    <3>2. CASE s # current
      <4>1. st[s] = state[s]
        BY <3>2
      <4>2. state[s] \in {"READY", "RUNNING"}
        BY <1>1 DEF KernelThreads
      <4> QED BY <4>1, <4>2
    <3> QED BY <3>1, <3>2
  <2>2. state'[Boot] \in {"READY", "RUNNING"} /\ state'[Idle] \in {"READY", "RUNNING"}
    BY <1>a, <2>1
  <2>3. pml4' = pml4 /\ spaces' = spaces
    OBVIOUS
  <2>4. pml4[Boot] = KernelPml4 /\ pml4[Idle] = KernelPml4 /\ KernelPml4 \in spaces
    BY <1>1 DEF KernelThreads
  <2> QED BY <2>2, <2>3, <2>4 DEF KernelThreads
<1>11. ExitedAreZombies'
  <2>1. \A s \in Live : hasExited'[s] => state'[s] = "ZOMBIE"
    BY <1>2, <1>b
  <2>2. Live' = Live
    BY <1>7
  <2> QED BY <2>1, <2>2 DEF ExitedAreZombies
<1> QED BY <1>7, <1>8, <1>9, <1>10, <1>11 DEF CpuInv

LEMMA Creates ==
  ASSUME CpuInv, NEW s \in Slots, NEW p \in Pml4s, CreateProcess(s, p),
         kids' \in [Slots -> SUBSET Nat],
         pc' \in [Slots -> Points],
         pc'[Boot] \in {"kmain", "hlt"}, pc'[Idle] = "idle",
         \A t \in Slots : pc'[t] = "idle" => t = Idle,
         \A t \in Slots : pc'[t] = "wait" => pc[t] = "wait"
  PROVE  CpuInv'
PROOF
<1> USE SchedAssumption
<1>1. TypeOK /\ OneRunning /\ AddressSpacesIntact /\ KernelThreads /\ ExitedAreZombies
  BY DEF CpuInv
<1>2. /\ IsRing(ring, Live)
      /\ Len(ring) \in Nat /\ Len(ring) >= 1
      /\ Live \subseteq Slots /\ current \in Slots /\ current \in Live
      /\ state[current] = "RUNNING"
  BY <1>1, RingOfCpuInv
<1>3. s \in Slots \ Live /\ p \in Pml4s \ spaces
  BY DEF CreateProcess, Enqueue
<1>4. /\ IsRing(ring', Live \cup {s})
      /\ Len(ring') = Len(ring) + 1
      /\ \A k \in 1..Len(ring) : ring'[k] = ring[k]
  BY <1>2, <1>3, AppendRing DEF CreateProcess, Enqueue
<1>5. /\ Live' = Live \cup {s}
      /\ ring' \in Seq(Slots)
      /\ DOMAIN ring' = 1..Len(ring')
  BY <1>4, LiveIsRange DEF Live
<1>6. current' = current /\ ring' # <<>>
  BY <1>2, <1>4 DEF current
<1>7. TypeOK'
  BY <1>1, <1>5, <1>6 DEF TypeOK, CreateProcess, Enqueue, States
<1>8. OneRunning'
  <2>1. \A t \in Slots : state'[t] = IF t = s THEN "READY" ELSE state[t]
    BY <1>1 DEF CreateProcess, Enqueue, TypeOK
  <2>2. \A t \in Slots : state'[t] = "RUNNING" <=> t = current'
    BY <1>1, <1>2, <1>3, <1>6, <2>1 DEF OneRunning
  <2>3. \A t \in Slots : t \in Live' <=> state'[t] # "DEAD"
    BY <1>1, <1>5, <2>1 DEF OneRunning
  <2>4. \A j, k \in DOMAIN ring' : ring'[j] = ring'[k] => j = k
    BY <1>4, <1>5 DEF IsRing
  <2> QED BY <2>2, <2>3, <2>4 DEF OneRunning
<1>9. AddressSpacesIntact'
  <2>1. \A t \in Slots : pml4'[t] = IF t = s THEN p ELSE pml4[t]
    BY <1>1 DEF CreateProcess, Enqueue, TypeOK
  <2>2. /\ spaces' = spaces \cup {p} /\ cr3' = cr3 /\ kstack' = kstack
    BY DEF CreateProcess, Enqueue
  <2>3. cr3' = pml4'[current'] /\ kstack' = current'
    BY <1>1, <1>2, <1>3, <1>6, <2>1, <2>2 DEF AddressSpacesIntact
  <2>4. \A t \in Live' : pml4'[t] \in spaces'
    BY <1>1, <1>2, <1>5, <2>1, <2>2 DEF AddressSpacesIntact
  <2>5. \A t, u \in Live' : pml4'[t] = pml4'[u] => t = u \/ pml4'[t] = KernelPml4
    BY <1>1, <1>2, <1>3, <1>5, <2>1 DEF AddressSpacesIntact
  <2> QED BY <2>3, <2>4, <2>5 DEF AddressSpacesIntact
<1>10. KernelThreads'
  <2>1. s # Boot /\ s # Idle
    BY <1>1, <1>3 DEF KernelThreads, OneRunning
  <2> QED BY <1>1, <2>1 DEF KernelThreads, CreateProcess, Enqueue, TypeOK
<1>11. ExitedAreZombies'
  BY <1>1, <1>2, <1>3, <1>5 DEF ExitedAreZombies, CreateProcess, Enqueue, TypeOK
<1>12. \A t \in Slots : pc'[t] = "wait" => child'[t] \in Slots
  BY DEF CpuInv, CreateProcess, Enqueue
<1> QED BY <1>7, <1>8, <1>9, <1>10, <1>11, <1>12 DEF CpuInv

LEMMA Collects ==
  ASSUME CpuInv, NEW c \in Slots, hasExited[c], Collect(c),
         pc[current] \in {"user", "wait"},
         waiter' \in [Slots -> Slots \cup {NULL}]
  PROVE  CpuInv'
PROOF
<1> USE SchedAssumption
<1>1. TypeOK /\ OneRunning /\ AddressSpacesIntact /\ KernelThreads /\ ExitedAreZombies
  BY DEF CpuInv
<1>2. /\ IsRing(ring, Live)
      /\ Len(ring) \in Nat /\ Len(ring) >= 1
      /\ DOMAIN ring = 1..Len(ring)
      /\ Live \subseteq Slots /\ current \in Slots /\ current \in Live
      /\ state[current] = "RUNNING"
  BY <1>1, RingOfCpuInv
<1>3. c \in Live => state[c] = "ZOMBIE"
  BY <1>1 DEF ExitedAreZombies
<1>4. c # current /\ c # Boot /\ c # Idle
  BY <1>1, <1>2, <1>3 DEF KernelThreads, OneRunning
<1>5. current # Boot /\ current # Idle
  BY <1>1 DEF KernelThreads
<1>6. /\ pc' = [pc EXCEPT ![c] = "none", ![current] = "user"]
      /\ child' = [child EXCEPT ![current] = NULL]
      /\ kids' = [kids EXCEPT ![current] = @ \ {id[c]}]
      /\ UNCHANGED <<needResched, cr3, kstack, id, hasExited, pml4, nextId>>
      /\ Reap(c)
  BY DEF Collect
<1>7. \A t \in Slots : pc'[t] = IF t = current THEN "user" ELSE
                                IF t = c THEN "none" ELSE pc[t]
  BY <1>1, <1>2, <1>6 DEF TypeOK
<1>8. \A t \in Slots : pc'[t] = "wait" => child'[t] \in Slots
  BY <1>1, <1>6, <1>7 DEF CpuInv, TypeOK
<1>9. CASE state[c] # "ZOMBIE"
  <2>1. UNCHANGED <<ring, state, spaces>>
    BY <1>6, <1>9 DEF Reap
  <2>2. Live' = Live /\ current' = current
    BY <2>1 DEF Live, current
  <2>3. TypeOK'
    BY <1>1, <1>6, <2>1 DEF TypeOK, Points
  <2>4. OneRunning' /\ AddressSpacesIntact' /\ ExitedAreZombies'
    BY <1>1, <1>6, <2>1, <2>2 DEF OneRunning, AddressSpacesIntact, ExitedAreZombies
  <2>5. KernelThreads'
    <3>1. UNCHANGED <<state, spaces, pml4>>
      BY <1>6, <2>1
    <3>2. pc'[Boot] = pc[Boot] /\ pc'[Idle] = pc[Idle]
      BY <1>4, <1>5, <1>7
    <3>3. \A t \in Slots : pc'[t] = "idle" => pc[t] = "idle"
      BY <1>7
    <3> QED BY <1>1, <3>1, <3>2, <3>3 DEF KernelThreads
  <2> QED BY <1>8, <2>3, <2>4, <2>5 DEF CpuInv
<1>10. CASE state[c] = "ZOMBIE"
  <2>1. PICK i \in DOMAIN ring : ring[i] = c /\ ring' = Without(ring, i)
    BY <1>6, <1>10 DEF Reap
  <2>2. /\ state' = [state EXCEPT ![c] = "DEAD"]
        /\ spaces' = IF pml4[c] \in {KernelPml4, cr3} THEN spaces ELSE spaces \ {pml4[c]}
    BY <1>6, <1>10 DEF Reap
  <2>3. i \in 2..Len(ring)
    BY <1>2, <1>4, <2>1 DEF current
  <2>4. /\ IsRing(ring', Live \ {c})
        /\ Len(ring') = Len(ring) - 1
        /\ ring'[1] = ring[1]
    <3>1. /\ IsRing(Without(ring, i), Live \ {ring[i]})
          /\ Len(Without(ring, i)) = Len(ring) - 1
          /\ \A k \in 1..(i - 1) : Without(ring, i)[k] = ring[k]
      BY <1>2, <2>3, WithoutRing
    <3>2. 1 \in 1..(i - 1)
      BY <1>2, <2>3
    <3> QED BY <2>1, <3>1, <3>2
  <2>5. /\ Live' = Live \ {c}
        /\ ring' \in Seq(Slots)
        /\ DOMAIN ring' = 1..Len(ring')
    BY <2>4, LiveIsRange DEF Live
  <2>6. current' = current /\ ring' # <<>>
    BY <1>2, <2>3, <2>4 DEF current
  <2>7. TypeOK'
    BY <1>1, <1>6, <2>2, <2>5, <2>6 DEF TypeOK, Points, States
  <2>8. \A t \in Slots : state'[t] = IF t = c THEN "DEAD" ELSE state[t]
    BY <1>1, <2>2 DEF TypeOK
  <2>9. OneRunning'
    <3>1. \A t \in Slots : state'[t] = "RUNNING" <=> t = current'
      BY <1>1, <1>4, <2>6, <2>8 DEF OneRunning
    <3>2. \A t \in Slots : t \in Live' <=> state'[t] # "DEAD"
      BY <1>1, <2>5, <2>8 DEF OneRunning
    <3>3. \A j, k \in DOMAIN ring' : ring'[j] = ring'[k] => j = k
      BY <2>4, <2>5 DEF IsRing
    <3> QED BY <3>1, <3>2, <3>3 DEF OneRunning
  <2>10. AddressSpacesIntact'
    <3>1. c \in Live
      BY <1>2, <2>1 DEF Live
    <3>2. \A t \in Live' : pml4[t] = pml4[c] => pml4[c] = KernelPml4
      BY <1>1, <2>5, <3>1 DEF AddressSpacesIntact
    <3> QED BY <1>1, <1>6, <2>2, <2>5, <2>6, <3>2 DEF AddressSpacesIntact
  <2>11. KernelThreads'
    <3>1. state'[Boot] = state[Boot] /\ state'[Idle] = state[Idle]
      BY <1>4, <2>8
    <3>2. pc'[Boot] = pc[Boot] /\ pc'[Idle] = pc[Idle]
      BY <1>4, <1>5, <1>7
    <3>3. \A t \in Slots : pc'[t] = "idle" => pc[t] = "idle"
      BY <1>7
    <3>4. KernelPml4 \in spaces' /\ pml4' = pml4
      BY <1>1, <1>6, <2>2 DEF KernelThreads
    <3> QED BY <1>1, <3>1, <3>2, <3>3, <3>4 DEF KernelThreads
  <2>12. ExitedAreZombies'
    BY <1>1, <1>2, <1>6, <2>5, <2>8 DEF ExitedAreZombies
  <2> QED BY <1>8, <2>7, <2>9, <2>10, <2>11, <2>12 DEF CpuInv
<1> QED BY <1>9, <1>10

-----------------------------------------------------------------------------
LEMMA CpuInit == Init => CpuInv
PROOF
<1> USE SchedAssumption
<1> SUFFICES ASSUME Init PROVE CpuInv
  OBVIOUS
<1>1. ring = <<Boot, Idle>> /\ Len(ring) = 2 /\ ring[1] = Boot /\ ring[2] = Idle
  BY DEF Init
<1>2. ring \in Seq(Slots) /\ ring # <<>> /\ DOMAIN ring = 1..2
  BY <1>1
<1>3. Live = {Boot, Idle} /\ current = Boot
  BY <1>1, <1>2 DEF Live, current
<1>4. \A s \in Slots : state[s] = IF s = Boot THEN "RUNNING" ELSE
                                  IF s = Idle THEN "READY" ELSE "DEAD"
  BY DEF Init
<1>5. \A s \in Slots : pc[s] = IF s = Boot THEN "kmain" ELSE
                               IF s = Idle THEN "idle" ELSE "none"
  BY DEF Init
<1>6. TypeOK
  <2>1. state \in [Slots -> States]
    BY DEF Init, States
  <2>2. pc \in [Slots -> Points]
    BY DEF Init, Points
  <2>3. id \in [Slots -> Nat]
    BY DEF Init
  <2> QED BY <1>2, <2>1, <2>2, <2>3 DEF Init, TypeOK
<1>7. OneRunning
  BY <1>1, <1>2, <1>3, <1>4 DEF OneRunning
<1>8. AddressSpacesIntact
  BY <1>3 DEF Init, AddressSpacesIntact
<1>9. KernelThreads
  BY <1>4, <1>5 DEF Init, KernelThreads
<1>10. ExitedAreZombies
  BY <1>3 DEF Init, ExitedAreZombies
<1>11. \A t \in Slots : pc[t] = "wait" => child[t] \in Slots
  BY <1>5
<1> QED BY <1>6, <1>7, <1>8, <1>9, <1>10, <1>11 DEF CpuInv

LEMMA CpuNext == CpuInv /\ [Next]_vars => CpuInv'
PROOF
<1> USE SchedAssumption
<1> SUFFICES ASSUME CpuInv, [Next]_vars PROVE CpuInv'
  OBVIOUS
<1>1. TypeOK /\ OneRunning /\ AddressSpacesIntact /\ KernelThreads /\ ExitedAreZombies
  BY DEF CpuInv
<1>2. /\ Live \subseteq Slots /\ current \in Slots /\ current \in Live
      /\ state[current] = "RUNNING"
  BY <1>1, RingOfCpuInv
<1>3. \A s \in Slots : state[s] = "RUNNING" <=> s = current
  BY <1>1 DEF OneRunning
<1>4. \A s \in Live : hasExited[s] => state[s] = "ZOMBIE"
  BY <1>1 DEF ExitedAreZombies
<1>5. pc[current] \in {"user", "wait", "disk"} => current \notin {Boot, Idle}
  BY <1>1 DEF KernelThreads
<1>6. \A s \in Slots : pc[s] = "wait" => child[s] \in Slots
  BY DEF CpuInv
<1>7. /\ pc[Boot] \in {"kmain", "hlt"} /\ pc[Idle] = "idle"
      /\ \A s \in Slots : pc[s] = "idle" => s = Idle
  BY <1>1 DEF KernelThreads
<1>8. /\ waiter \in [Slots -> Slots \cup {NULL}] /\ child \in [Slots -> Slots \cup {NULL}]
      /\ hasExited \in [Slots -> BOOLEAN] /\ pc \in [Slots -> Points]
      /\ state \in [Slots -> States] /\ kids \in [Slots -> SUBSET Nat]
      /\ nextId \in Nat
  BY <1>1 DEF TypeOK
<1>9. ASSUME TimerIRQ PROVE CpuInv'
  <2>1. /\ ScheduleLocked(state, TRUE)
        /\ UNCHANGED <<id, waiter, hasExited, pml4, pc, child, kids, nextId, spaces>>
    BY <1>9 DEF TimerIRQ, structVars
  <2> QED BY <1>2, <1>3, <1>4, <1>6, <1>7, <1>8, <2>1, GiveAway
<1>10. ASSUME NEW s \in Slots, NEW p \in Pml4s, BootSpawn(s, p) PROVE CpuInv'
  <2>1. CreateProcess(s, p) /\ current = Boot
    BY <1>10 DEF BootSpawn
  <2>2. s \notin Live /\ s # Boot /\ s # Idle
    BY <1>1, <2>1 DEF CreateProcess, Enqueue, KernelThreads, OneRunning
  <2>3. /\ pc' = [pc EXCEPT ![s] = "user", ![Boot] = "hlt"]
        /\ kids' = [kids EXCEPT ![s] = {}]
    BY <1>10 DEF BootSpawn
  <2>4. kids' \in [Slots -> SUBSET Nat] /\ pc' \in [Slots -> Points]
    BY <1>8, <2>3 DEF Points
  <2>5. /\ pc'[Boot] \in {"kmain", "hlt"} /\ pc'[Idle] = "idle"
        /\ \A t \in Slots : pc'[t] = "idle" => t = Idle
        /\ \A t \in Slots : pc'[t] = "wait" => pc[t] = "wait"
    BY <1>7, <1>8, <2>2, <2>3
  <2> QED BY <2>1, <2>4, <2>5, Creates
<1>11. ASSUME NEW s \in Slots, NEW p \in Pml4s, SysSpawn(s, p) PROVE CpuInv'
  <2>1. CreateProcess(s, p) /\ current \notin {Boot, Idle}
    BY <1>5, <1>11 DEF SysSpawn
  <2>2. s \notin Live /\ s # Boot /\ s # Idle
    BY <1>1, <2>1 DEF CreateProcess, Enqueue, KernelThreads, OneRunning
  <2>3. /\ pc' = [pc EXCEPT ![s] = "user", ![current] = "user"]
        /\ kids' = [kids EXCEPT ![s] = {}, ![current] = @ \cup {nextId}]
    BY <1>11 DEF SysSpawn
  <2>4. pc' \in [Slots -> Points]
    BY <1>8, <2>3 DEF Points
  <2>5. kids' \in [Slots -> SUBSET Nat]
    BY <1>8, <2>3
  <2>6. /\ pc'[Boot] \in {"kmain", "hlt"} /\ pc'[Idle] = "idle"
        /\ \A t \in Slots : pc'[t] = "idle" => t = Idle
        /\ \A t \in Slots : pc'[t] = "wait" => pc[t] = "wait"
    BY <1>7, <1>8, <2>1, <2>2, <2>3
  <2> QED BY <2>1, <2>4, <2>5, <2>6, Creates
<1>12. ASSUME KmainHalts PROVE CpuInv'
  <2>1. /\ pc' = [pc EXCEPT ![Boot] = "hlt"]
        /\ UNCHANGED <<ring, state, id, waiter, hasExited, pml4, child, kids, nextId,
                       needResched, cr3, kstack, spaces>>
    BY <1>12 DEF KmainHalts, cpuVars, structVars
  <2> QED BY <1>1, <1>6, <2>1 DEF CpuInv, TypeOK, OneRunning, AddressSpacesIntact,
             KernelThreads, ExitedAreZombies, Live, current, Points
<1>13. ASSUME DiskYield PROVE CpuInv'
  <2>1. /\ pc[current] \in {"kmain", "user", "disk"}
        /\ pc' = [pc EXCEPT ![current] = IF @ = "kmain" THEN @ ELSE "disk"]
        /\ ScheduleLocked(state, TRUE)
        /\ UNCHANGED <<id, waiter, hasExited, pml4, child, kids, nextId, spaces>>
    BY <1>13 DEF DiskYield, structVars
  <2>2. pc' \in [Slots -> Points]
    BY <1>8, <2>1 DEF Points
  <2>3. \A s \in Slots : pc'[s] = IF s = current /\ pc[s] # "kmain" THEN "disk" ELSE pc[s]
    BY <1>2, <1>8, <2>1
  <2>4. /\ pc'[Boot] \in {"kmain", "hlt"} /\ pc'[Idle] = "idle"
        /\ \A s \in Slots : pc'[s] = "idle" => s = Idle
        /\ \A s \in Slots : pc'[s] = "wait" => child'[s] \in Slots
    BY <1>5, <1>6, <1>7, <2>1, <2>3
  <2> QED BY <1>2, <1>3, <1>4, <1>8, <2>1, <2>2, <2>4, GiveAway
<1>14. ASSUME DiskDone PROVE CpuInv'
  <2>1. /\ pc[current] = "disk" /\ pc' = [pc EXCEPT ![current] = "user"]
        /\ UNCHANGED <<ring, state, id, waiter, hasExited, pml4, child, kids, nextId,
                       needResched, cr3, kstack, spaces>>
    BY <1>14 DEF DiskDone, cpuVars, structVars
  <2> QED BY <1>1, <1>6, <2>1 DEF CpuInv, TypeOK, OneRunning, AddressSpacesIntact,
             KernelThreads, ExitedAreZombies, Live, current, Points
<1>15. ASSUME SysExit PROVE CpuInv'
  <2> DEFINE w == waiter[current]
             st == [state EXCEPT ![current] = "ZOMBIE"]
             woken == IF w # NULL /\ st[w] = "BLOCKED"
                      THEN [st EXCEPT ![w] = "READY"] ELSE st
  <2>1. /\ pc[current] = "user"
        /\ hasExited' = [hasExited EXCEPT ![current] = TRUE]
        /\ pc' = [pc EXCEPT ![current] = "exit"]
        /\ ScheduleLocked(woken, TRUE)
        /\ UNCHANGED <<id, waiter, pml4, child, kids, nextId, spaces>>
    BY <1>15 DEF SysExit, Wake
  <2>2. current \notin {Boot, Idle}
    BY <1>5, <2>1
  <2>3. st \in [Slots -> States]
    BY <1>8 DEF States
  <2>4. \A s \in Slots : st[s] = IF s = current THEN "ZOMBIE" ELSE state[s]
    BY <1>8
  <2>5. w \in Slots \cup {NULL}
    BY <1>2, <1>8
  <2> HIDE DEF st, w
  <2>6. woken \in [Slots -> States]
    BY <2>3, <2>5 DEF States
  <2>7. \A s \in Slots : woken[s] = IF s = w /\ st[s] = "BLOCKED" THEN "READY" ELSE st[s]
    BY <2>3, <2>5
  <2> HIDE DEF woken
  <2>8. /\ \A s \in Slots : woken[s] = "DEAD" <=> state[s] = "DEAD"
        /\ \A s \in Slots : s # current => woken[s] # "RUNNING"
        /\ woken[current] = "ZOMBIE"
    BY <1>2, <1>3, <2>4, <2>7
  <2>9. \A s \in {Boot, Idle} \ {current} : woken[s] = state[s]
    BY <1>1, <2>2, <2>4, <2>7 DEF KernelThreads
  <2>10. \A s \in Live : hasExited'[s] => woken[s] = "ZOMBIE"
    BY <1>2, <1>4, <1>8, <2>1, <2>4, <2>7
  <2>11. hasExited' \in [Slots -> BOOLEAN] /\ pc' \in [Slots -> Points]
    BY <1>8, <2>1 DEF Points
  <2>12. /\ pc'[Boot] \in {"kmain", "hlt"} /\ pc'[Idle] = "idle"
         /\ \A s \in Slots : pc'[s] = "idle" => s = Idle
         /\ \A s \in Slots : pc'[s] = "wait" => child'[s] \in Slots
    BY <1>6, <1>7, <1>8, <2>1, <2>2
  <2>13. woken[current] # "READY"
    BY <2>8
  <2> QED BY <1>8, <2>1, <2>2, <2>6, <2>8, <2>9, <2>10, <2>11, <2>12, <2>13, GiveAway
<1>16. ASSUME NEW c \in Slots, WaitLoop(c), pc[current] \in {"user", "wait"},
              waiter' \in [Slots -> Slots \cup {NULL}]
       PROVE  CpuInv'
  <2>1. CASE hasExited[c] /\ Collect(c)
    BY <1>16, <2>1, Collects
  <2>2. CASE ~hasExited[c] /\ ~(hasExited[c] /\ Collect(c))
    <3> DEFINE st == [state EXCEPT ![current] = "BLOCKED"]
    <3>1. /\ ScheduleLocked(st, TRUE)
          /\ pc' = [pc EXCEPT ![current] = "wait"]
          /\ child' = [child EXCEPT ![current] = c]
          /\ UNCHANGED <<id, hasExited, pml4, kids, nextId, spaces>>
      BY <1>16, <2>2 DEF WaitLoop, Block
    <3>2. current \notin {Boot, Idle}
      BY <1>5, <1>16
    <3>3. st \in [Slots -> States]
      BY <1>8 DEF States
    <3>4. \A s \in Slots : st[s] = IF s = current THEN "BLOCKED" ELSE state[s]
      BY <1>8
    <3> HIDE DEF st
    <3>5. /\ \A s \in Slots : st[s] = "DEAD" <=> state[s] = "DEAD"
          /\ \A s \in Slots : s # current => st[s] # "RUNNING"
          /\ st[current] # "READY"
      BY <1>2, <1>3, <3>4
    <3>6. \A s \in {Boot, Idle} \ {current} : st[s] = state[s]
      BY <3>4
    <3>7. \A s \in Live : hasExited'[s] => st[s] = "ZOMBIE"
      BY <1>2, <1>4, <3>1, <3>4
    <3>8. pc' \in [Slots -> Points] /\ child' \in [Slots -> Slots \cup {NULL}]
      BY <1>8, <3>1 DEF Points
    <3>9. /\ pc'[Boot] \in {"kmain", "hlt"} /\ pc'[Idle] = "idle"
          /\ \A s \in Slots : pc'[s] = "idle" => s = Idle
          /\ \A s \in Slots : pc'[s] = "wait" => child'[s] \in Slots
      BY <1>2, <1>6, <1>7, <1>8, <3>1, <3>2
    <3>10. hasExited' \in [Slots -> BOOLEAN]
      BY <1>8, <3>1
    <3> QED BY <1>16, <3>1, <3>2, <3>3, <3>5, <3>6, <3>7, <3>8, <3>9, <3>10, GiveAway
  <2> QED BY <1>16, <2>1, <2>2 DEF WaitLoop
<1>17. ASSUME NEW c \in Slots, SysWaitpid(c) PROVE CpuInv'
  <2>1. /\ pc[current] = "user" /\ WaitLoop(c)
        /\ waiter' = [waiter EXCEPT ![c] = current]
    BY <1>17 DEF SysWaitpid
  <2>2. waiter' \in [Slots -> Slots \cup {NULL}]
    BY <1>2, <1>8, <2>1
  <2> QED BY <1>16, <2>1, <2>2
<1>18. ASSUME WaitResume PROVE CpuInv'
  <2>1. pc[current] = "wait" /\ WaitLoop(child[current]) /\ waiter' = waiter
    BY <1>18 DEF WaitResume
  <2>2. child[current] \in Slots
    BY <1>2, <1>6, <2>1
  <2> QED BY <1>8, <1>16, <2>1, <2>2
<1>19. CASE UNCHANGED vars
  BY <1>19 DEF vars, CpuInv, TypeOK, OneRunning, AddressSpacesIntact, KernelThreads,
     ExitedAreZombies, Live, current
<1> QED BY <1>9, <1>10, <1>11, <1>12, <1>13, <1>14, <1>15, <1>17, <1>18, <1>19
        DEF Next, KernelStep

(* sched.c, all of it: whatever the threads do, also when several of them  *)
(* wait for one child, the CPU runs exactly one live thread and the ring   *)
(* holds every live thread once.                                           *)
THEOREM CpuInvariant == Spec => []CpuInv
PROOF
<1>1. Init => CpuInv
  BY CpuInit
<1>2. CpuInv /\ [Next]_vars => CpuInv'
  BY CpuNext
<1> QED BY <1>1, <1>2, PTL DEF Spec

(* The types of the scheduler state hold in every reachable state.         *)
THEOREM SchedTypes == Spec => []TypeOK
BY CpuInvariant, PTL DEF CpuInv

(* Exactly one thread is RUNNING, it heads the ring, and the ring holds    *)
(* every thread that is not DEAD exactly once.                             *)
THEOREM SchedOneRunning == Spec => []OneRunning
BY CpuInvariant, PTL DEF CpuInv

(* The CPU's page table and kernel stack are the current thread's, and no  *)
(* reap destroys a page table a thread still uses.                         *)
THEOREM SchedAddressSpaces == Spec => []AddressSpacesIntact
BY CpuInvariant, PTL DEF CpuInv

-----------------------------------------------------------------------------
(* The place of t in the ring s; Ahead(t) is its place in `ring'.          *)
Place(s, t) == CHOOSE i \in DOMAIN s : s[i] = t

LEMMA PlaceOf ==
  ASSUME NEW s, NEW X, IsRing(s, X), NEW k \in 1..Len(s)
  PROVE  Place(s, s[k]) = k
PROOF
<1>1. DOMAIN s = 1..Len(s)
  BY DEF IsRing
<1>2. Place(s, s[k]) \in DOMAIN s /\ s[Place(s, s[k])] = s[k]
  BY <1>1 DEF Place
<1> QED BY <1>1, <1>2 DEF IsRing

LEMMA AheadIsPlace == \A t : Ahead(t) = Place(ring, t) /\ Ahead(t)' = Place(ring', t)
BY DEF Ahead, Place

(* What ReadyMovesUp asks of one step, for one thread.                     *)
Nearer(t) ==
  state[t] = "READY" /\ state'[t] = "READY" =>
    /\ Ahead(t)' <= Ahead(t)
    /\ current' # current => Ahead(t)' < Ahead(t)

(* When the CPU stays with its thread, it is enough that nobody falls back.*)
LEMMA NearerSameCpu ==
  ASSUME TypeOK, OneRunning, NEW X, IsRing(ring', X), current' = current,
         NEW t \in Live,
         NEW k \in 1..Len(ring), ring[k] = t,
         NEW j \in 1..Len(ring'), ring'[j] = t, j <= k
  PROVE  Nearer(t)
PROOF
<1>1. Place(ring, t) = k
  BY RingOfCpuInv, PlaceOf
<1>2. Place(ring', t) = j
  BY PlaceOf
<1> QED BY <1>1, <1>2, AheadIsPlace DEF Nearer

(* schedule_locked: the thread it picks is the nearest READY one, so every *)
(* other READY thread stands behind it and moves up as the ring turns.     *)
LEMMA NearerAfterSchedule ==
  ASSUME TypeOK, OneRunning, NEW st \in [Slots -> States], NEW need,
         \A s \in Slots : s # current /\ state[s] = "READY" => st[s] = "READY",
         ScheduleLocked(st, need),
         NEW t \in Live
  PROVE  Nearer(t)
PROOF
<1>1. /\ IsRing(ring, Live)
      /\ Len(ring) \in Nat /\ Len(ring) >= 1
      /\ DOMAIN ring = 1..Len(ring)
      /\ current \in Slots /\ Live \subseteq Slots
      /\ state[current] = "RUNNING"
  BY RingOfCpuInv
<1>2. PICK k \in 1..Len(ring) : ring[k] = t
  BY <1>1 DEF Live
<1>3. CASE ring' = ring
  <2>1. current' = current
    BY <1>3 DEF current
  <2> QED BY <1>1, <1>2, <1>3, <2>1, NearerSameCpu
<1>4. ASSUME NEW i \in 2..Len(ring), PickNext(st, i), ring' = Rotate(ring, i),
             state' = Switch(st, ring[i])
      PROVE  Nearer(t)
  <2> SUFFICES ASSUME state[t] = "READY", state'[t] = "READY"
               PROVE  Ahead(t)' < Ahead(t) /\ Ahead(t)' <= Ahead(t)
    BY DEF Nearer
  <2>1. t \in Slots /\ t # current /\ st[t] = "READY"
    BY <1>1
  <2>2. k # 1
    BY <1>2, <2>1 DEF current
  <2>3. i <= k
    BY <1>1, <1>2, <1>4, <2>1, <2>2 DEF PickNext, ReadyAt
  <2>4. k # i
    <3>1. ring[i] \in Slots
      BY <1>1, <1>4 DEF Live
    <3>2. state'[ring[i]] = "RUNNING"
      BY <1>1, <1>4, <3>1 DEF Switch
    <3> QED BY <1>2, <3>2
  <2>5. /\ IsRing(ring', Live)
        /\ Len(ring') = Len(ring)
        /\ ring'[k - i + 1] = t
    BY <1>1, <1>2, <1>4, <2>3, RotateRing
  <2>6. k - i + 1 \in 1..Len(ring') /\ k - i + 1 < k
    BY <1>1, <1>2, <1>4, <2>3, <2>4, <2>5
  <2>7. Place(ring, t) = k
    BY <1>1, <1>2, PlaceOf
  <2>8. Place(ring', t) = k - i + 1
    BY <2>5, <2>6, PlaceOf
  <2> QED BY <1>1, <1>2, <1>4, <2>6, <2>7, <2>8, AheadIsPlace
<1> QED BY <1>3, <1>4 DEF ScheduleLocked

(* enqueue_thread: a new thread goes behind everybody.                     *)
LEMMA NearerAfterCreate ==
  ASSUME TypeOK, OneRunning, NEW s \in Slots, NEW p \in Pml4s, CreateProcess(s, p),
         NEW t \in Live
  PROVE  Nearer(t)
PROOF
<1>1. /\ IsRing(ring, Live)
      /\ Len(ring) \in Nat /\ Len(ring) >= 1
      /\ DOMAIN ring = 1..Len(ring)
  BY RingOfCpuInv
<1>2. PICK k \in 1..Len(ring) : ring[k] = t
  BY <1>1 DEF Live
<1>3. s \in Slots \ Live /\ ring' = Append(ring, s)
  BY DEF CreateProcess, Enqueue
<1>4. /\ IsRing(ring', Live \cup {s})
      /\ Len(ring') = Len(ring) + 1
      /\ \A j \in 1..Len(ring) : ring'[j] = ring[j]
  BY <1>1, <1>3, AppendRing
<1>5. current' = current
  BY <1>1, <1>4 DEF current
<1>6. k \in 1..Len(ring') /\ ring'[k] = t /\ k <= k
  BY <1>1, <1>2, <1>4
<1> QED BY <1>2, <1>4, <1>5, <1>6, NearerSameCpu

(* sched_reap: who stood behind the corpse moves up, nobody falls back.    *)
LEMMA NearerAfterReap ==
  ASSUME TypeOK, OneRunning, NEW c \in Slots, Reap(c),
         NEW t \in Live
  PROVE  Nearer(t)
PROOF
<1>1. /\ IsRing(ring, Live)
      /\ Len(ring) \in Nat /\ Len(ring) >= 1
      /\ DOMAIN ring = 1..Len(ring)
      /\ current \in Slots /\ Live \subseteq Slots
      /\ state[current] = "RUNNING"
  BY RingOfCpuInv
<1>2. PICK k \in 1..Len(ring) : ring[k] = t
  BY <1>1 DEF Live
<1>3. CASE state[c] # "ZOMBIE"
  <2>1. ring' = ring
    BY <1>3 DEF Reap
  <2>2. current' = current
    BY <2>1 DEF current
  <2> QED BY <1>1, <1>2, <2>1, <2>2, NearerSameCpu
<1>4. CASE state[c] = "ZOMBIE"
  <2>1. PICK i \in DOMAIN ring : ring[i] = c /\ ring' = Without(ring, i)
    BY <1>4 DEF Reap
  <2>2. state' = [state EXCEPT ![c] = "DEAD"]
    BY <1>4 DEF Reap
  <2>3. i \in 2..Len(ring)
    BY <1>1, <1>4, <2>1, SMTT(30) DEF current
  <2>4. /\ IsRing(ring', Live \ {c})
        /\ Len(ring') = Len(ring) - 1
        /\ \A j \in 1..(i - 1) : ring'[j] = ring[j]
        /\ \A j \in (i + 1)..Len(ring) : ring'[j - 1] = ring[j]
    BY <1>1, <2>1, <2>3, WithoutRing
  <2>5. current' = current
    BY <1>1, <2>3, <2>4 DEF current
  <2>6. CASE k < i
    <3>1. k \in 1..Len(ring') /\ ring'[k] = t /\ k <= k
      BY <1>1, <1>2, <2>3, <2>4, <2>6, SMTT(30)
    <3> QED BY <1>2, <2>4, <2>5, <3>1, NearerSameCpu
  <2>7. CASE k > i
    <3>1. k - 1 \in 1..Len(ring') /\ ring'[k - 1] = t /\ k - 1 <= k
      BY <1>1, <1>2, <2>3, <2>4, <2>7
    <3> QED BY <1>2, <2>4, <2>5, <3>1, NearerSameCpu
  <2>8. CASE k = i
    <3>1. state[t] = "ZOMBIE"
      BY <1>2, <1>4, <2>1, <2>8
    <3> QED BY <3>1 DEF Nearer
  <2> QED BY <1>1, <1>2, <2>3, <2>6, <2>7, <2>8
<1> QED BY <1>3, <1>4

LEMMA NearerNext ==
  ASSUME CpuInv, [Next]_vars, NEW t \in Live
  PROVE  Nearer(t)
PROOF
<1>1. TypeOK /\ OneRunning
  BY DEF CpuInv
<1>2. state \in [Slots -> States] /\ current \in Slots
  BY <1>1, RingOfCpuInv DEF TypeOK
<1>3. CASE UNCHANGED ring
  <2>1. /\ IsRing(ring', Live) /\ current' = current
    BY <1>1, <1>3, RingOfCpuInv DEF current
  <2>2. PICK k \in 1..Len(ring) : ring[k] = t
    BY <1>1, RingOfCpuInv DEF Live
  <2>3. k \in 1..Len(ring') /\ ring'[k] = t /\ k <= k
    BY <1>3, <2>2
  <2> QED BY <1>1, <2>1, <2>2, <2>3, NearerSameCpu
<1>4. CASE TimerIRQ \/ DiskYield
  <2>1. ScheduleLocked(state, TRUE)
    BY <1>4 DEF TimerIRQ, DiskYield
  <2> QED BY <1>1, <1>2, <2>1, NearerAfterSchedule
<1>5. CASE KmainHalts \/ DiskDone
  BY <1>3, <1>5 DEF KmainHalts, DiskDone, cpuVars
<1>6. ASSUME NEW s \in Slots, NEW p \in Pml4s, BootSpawn(s, p) \/ SysSpawn(s, p)
      PROVE  Nearer(t)
  <2>1. CreateProcess(s, p)
    BY <1>6 DEF BootSpawn, SysSpawn
  <2> QED BY <1>1, <2>1, NearerAfterCreate
<1>7. CASE SysExit
  <2> DEFINE st == [state EXCEPT ![current] = "ZOMBIE"]
             w == waiter[current]
             woken == IF w # NULL /\ st[w] = "BLOCKED"
                      THEN [st EXCEPT ![w] = "READY"] ELSE st
  <2>1. ScheduleLocked(woken, TRUE)
    BY <1>7 DEF SysExit, Wake
  <2>2. st \in [Slots -> States]
    BY <1>2 DEF States
  <2>3. \A s \in Slots : s # current => st[s] = state[s]
    BY <1>2
  <2> HIDE DEF st, w
  <2>4. woken \in [Slots -> States]
    BY <2>2 DEF States
  <2>5. \A s \in Slots : st[s] = "READY" => woken[s] = "READY"
    BY <2>2
  <2> HIDE DEF woken
  <2> QED BY <1>1, <2>1, <2>3, <2>4, <2>5, NearerAfterSchedule
<1>8. ASSUME NEW c, WaitLoop(c), c \in Slots PROVE Nearer(t)
  <2> DEFINE st == [state EXCEPT ![current] = "BLOCKED"]
  <2>1. CASE Collect(c)
    <3>1. Reap(c)
      BY <2>1 DEF Collect
    <3> QED BY <1>1, <1>8, <3>1, NearerAfterReap
  <2>2. CASE Block
    <3>1. ScheduleLocked(st, TRUE)
      BY <2>2 DEF Block
    <3>2. st \in [Slots -> States]
      BY <1>2 DEF States
    <3>3. \A s \in Slots : s # current => st[s] = state[s]
      BY <1>2
    <3> HIDE DEF st
    <3> QED BY <1>1, <3>1, <3>2, <3>3, NearerAfterSchedule
  <2> QED BY <1>8, <2>1, <2>2 DEF WaitLoop
<1>9. ASSUME NEW c \in Slots, SysWaitpid(c) PROVE Nearer(t)
  BY <1>8, <1>9 DEF SysWaitpid
<1>10. CASE WaitResume
  <2>1. child[current] \in Slots
    BY <1>2, <1>10 DEF WaitResume, CpuInv
  <2> QED BY <1>8, <1>10, <2>1 DEF WaitResume
<1>11. CASE UNCHANGED vars
  BY <1>3, <1>11 DEF vars
<1> QED BY <1>4, <1>5, <1>6, <1>7, <1>9, <1>10, <1>11 DEF Next, KernelStep

(* Round robin, whatever the number of threads: no step of the kernel      *)
(* pushes a READY thread back, and every context switch brings it nearer.  *)
THEOREM SchedMovesUp == Spec => ReadyMovesUp
PROOF
<1>1. CpuInv /\ [Next]_vars => [\A t \in Live : Nearer(t)]_vars
  BY NearerNext
<1> QED BY <1>1, CpuInvariant, PTL DEF Spec, ReadyMovesUp, Nearer

-----------------------------------------------------------------------------
(* With AnyWaiter = FALSE every thread waits for its own children only.    *)
(* The strengthening of NoLostWake and NoDangling: an id is in the kids of *)
(* at most one live thread, so a child has at most one waiter, and the     *)
(* pointers child and waiter are inverse to one another while the wait     *)
(* lasts.                                                                  *)
KidsDisjoint ==
  /\ \A s \in Live : id[s] < nextId
  /\ \A s, t \in Live : id[s] = id[t] => s = t
  /\ \A s \in Live : \A k \in kids[s] : id[s] < k /\ k < nextId
  /\ \A s, t \in Live : \A k \in kids[s] : k \in kids[t] => s = t

WaitPairs ==
  /\ \A t \in Live : pc[t] = "wait" => /\ child[t] \in Live
                                       /\ id[child[t]] \in kids[t]
                                       /\ waiter[child[t]] = t
  /\ \A c \in Live : waiter[c] # NULL => /\ waiter[c] \in Live
                                         /\ pc[waiter[c]] = "wait"
                                         /\ child[waiter[c]] = c

WaitInv ==
  /\ CpuInv
  /\ \A s \in Live : hasExited[s] => pc[s] = "exit"
  /\ KidsDisjoint
  /\ WaitPairs
  /\ NoLostWake

(* What the three kinds of step do to the set of live threads.             *)
LEMMA LiveAfterSchedule ==
  ASSUME TypeOK, OneRunning, NEW st \in [Slots -> States], NEW need, ScheduleLocked(st, need)
  PROVE  /\ Live' = Live
         /\ \A s \in Slots : state'[s] = "BLOCKED" => st[s] = "BLOCKED"
PROOF
<1>1. IsRing(ring, Live) /\ DOMAIN ring = 1..Len(ring)
  BY RingOfCpuInv
<1>2. CASE UNCHANGED ring /\ state' = st
  BY <1>2 DEF Live
<1>3. CASE \E i \in 2..Len(ring) :
             /\ ring' = Rotate(ring, i)
             /\ state' = [st EXCEPT ![current] = IF @ = "RUNNING" THEN "READY" ELSE @,
                                    ![ring[i]] = "RUNNING"]
  <2>1. PICK i \in 2..Len(ring) :
             /\ ring' = Rotate(ring, i)
             /\ state' = [st EXCEPT ![current] = IF @ = "RUNNING" THEN "READY" ELSE @,
                                    ![ring[i]] = "RUNNING"]
    BY <1>3
  <2>2. IsRing(ring', Live)
    BY <1>1, <2>1, RotateRing
  <2>3. Live' = Live
    BY <2>2, LiveIsRange DEF Live
  <2>4. \A s \in Slots : state'[s] = "BLOCKED" => st[s] = "BLOCKED"
    BY <2>1
  <2> QED BY <2>3, <2>4
<1> QED BY <1>2, <1>3 DEF ScheduleLocked, Switch, SwitchPml4

LEMMA LiveAfterCreate ==
  ASSUME TypeOK, OneRunning, NEW s \in Slots, NEW p \in Pml4s, CreateProcess(s, p)
  PROVE  Live' = Live \cup {s} /\ s \notin Live
PROOF
<1>1. IsRing(ring, Live)
  BY RingOfCpuInv
<1>2. s \in Slots \ Live /\ ring' = Append(ring, s)
  BY DEF CreateProcess, Enqueue
<1>3. IsRing(ring', Live \cup {s})
  BY <1>1, <1>2, AppendRing
<1> QED BY <1>2, <1>3, LiveIsRange DEF Live

LEMMA LiveAfterCollect ==
  ASSUME CpuInv, NEW c \in Slots, hasExited[c], Collect(c)
  PROVE  Live' = Live \ {c} /\ c # current /\ \A t \in Slots : t # c => state'[t] = state[t]
PROOF
<1>1. TypeOK /\ OneRunning /\ ExitedAreZombies
  BY DEF CpuInv
<1>2. /\ IsRing(ring, Live) /\ Len(ring) \in Nat /\ DOMAIN ring = 1..Len(ring)
      /\ current \in Live /\ state[current] = "RUNNING"
  BY <1>1, RingOfCpuInv
<1>3. c \in Live => state[c] = "ZOMBIE"
  BY <1>1 DEF ExitedAreZombies
<1>4. c # current
  BY <1>2, <1>3
<1>5. CASE state[c] # "ZOMBIE"
  <2>1. ring' = ring /\ state' = state
    BY <1>5 DEF Collect, Reap
  <2> QED BY <1>3, <1>4, <1>5, <2>1 DEF Live
<1>6. CASE state[c] = "ZOMBIE"
  <2>1. PICK i \in DOMAIN ring : ring[i] = c /\ ring' = Without(ring, i)
    BY <1>6 DEF Collect, Reap
  <2>2. i \in 2..Len(ring)
    BY <1>2, <1>4, <2>1 DEF current
  <2>3. IsRing(ring', Live \ {c})
    BY <1>2, <2>1, <2>2, WithoutRing
  <2>4. Live' = Live \ {c}
    BY <2>3, LiveIsRange DEF Live
  <2>5. state' = [state EXCEPT ![c] = "DEAD"]
    BY <1>6 DEF Collect, Reap
  <2> QED BY <1>1, <1>4, <2>4, <2>5 DEF TypeOK
<1> QED BY <1>5, <1>6

LEMMA WaitInit == Init => WaitInv
PROOF
<1> USE SchedAssumption
<1> SUFFICES ASSUME Init PROVE WaitInv
  OBVIOUS
<1>1. CpuInv
  BY CpuInit
<1>2. Live \subseteq Slots /\ \A s \in Live : state[s] # "DEAD"
  BY <1>1, RingOfCpuInv DEF CpuInv, OneRunning
<1>3. \A s \in Live : s = Boot \/ s = Idle
  BY <1>2 DEF Init
<1>4. \A s \in Live : id[s] = IF s = Boot THEN 1 ELSE 2
  BY <1>2, <1>3 DEF Init
<1>5. KidsDisjoint
  <2>1. \A s \in Slots : kids[s] = {}
    BY DEF Init
  <2>2. nextId = 3 /\ \A s \in Live : id[s] \in {1, 2}
    BY <1>4 DEF Init
  <2>3. \A s, t \in Live : id[s] = id[t] => s = t
    BY <1>3, <1>4
  <2> QED BY <1>2, <2>1, <2>2, <2>3 DEF KidsDisjoint
<1>6. \A s \in Slots : pc[s] # "wait" /\ ~hasExited[s] /\ waiter[s] = NULL
  BY DEF Init
<1>7. WaitPairs
  BY <1>2, <1>6 DEF WaitPairs
<1>8. NoLostWake
  BY <1>2, <1>6 DEF NoLostWake
<1> QED BY <1>1, <1>2, <1>5, <1>6, <1>7, <1>8 DEF WaitInv

LEMMA WaitNext == AnyWaiter = FALSE /\ WaitInv /\ [Next]_vars => WaitInv'
PROOF
<1> USE SchedAssumption
<1> SUFFICES ASSUME AnyWaiter = FALSE, WaitInv, [Next]_vars PROVE WaitInv'
  OBVIOUS
<1>1. CpuInv /\ CpuInv'
  BY CpuNext DEF WaitInv
<1>2. TypeOK /\ OneRunning
  BY <1>1 DEF CpuInv
<1>3. /\ Live \subseteq Slots /\ current \in Slots /\ current \in Live
      /\ state[current] = "RUNNING"
  BY <1>2, RingOfCpuInv
<1>4. KidsDisjoint /\ WaitPairs /\ NoLostWake /\ \A s \in Live : hasExited[s] => pc[s] = "exit"
  BY DEF WaitInv
<1>5. /\ waiter \in [Slots -> Slots \cup {NULL}] /\ child \in [Slots -> Slots \cup {NULL}]
      /\ hasExited \in [Slots -> BOOLEAN] /\ pc \in [Slots -> Points]
      /\ state \in [Slots -> States] /\ kids \in [Slots -> SUBSET Nat]
      /\ id \in [Slots -> Nat] /\ nextId \in Nat
  BY <1>2 DEF TypeOK
<1>6. ASSUME Live' = Live, UNCHANGED <<id, kids, nextId, waiter, child, hasExited>>,
             \A s \in Slots : pc'[s] = "wait" <=> pc[s] = "wait",
             \A s \in Live : pc[s] = "exit" => pc'[s] = "exit",
             \A s \in Slots : state'[s] = "BLOCKED" => state[s] = "BLOCKED"
      PROVE  WaitInv'
  <2>1. KidsDisjoint'
    BY <1>4, <1>6 DEF KidsDisjoint
  <2>2. WaitPairs'
    BY <1>3, <1>4, <1>6 DEF WaitPairs
  <2>3. NoLostWake'
    BY <1>3, <1>4, <1>6 DEF NoLostWake
  <2> QED BY <1>1, <1>4, <1>6, <2>1, <2>2, <2>3 DEF WaitInv
<1>7. ASSUME TimerIRQ PROVE WaitInv'
  <2>1. /\ ScheduleLocked(state, TRUE)
        /\ UNCHANGED <<id, waiter, hasExited, pml4, pc, child, kids, nextId, spaces>>
    BY <1>7 DEF TimerIRQ, structVars
  <2>2. Live' = Live /\ \A s \in Slots : state'[s] = "BLOCKED" => state[s] = "BLOCKED"
    BY <1>2, <1>5, <2>1, LiveAfterSchedule
  <2> QED BY <1>6, <2>1, <2>2
<1>8. ASSUME KmainHalts PROVE WaitInv'
  <2>1. /\ pc[Boot] = "kmain" /\ pc' = [pc EXCEPT ![Boot] = "hlt"]
        /\ UNCHANGED <<ring, state, id, waiter, hasExited, child, kids, nextId>>
    BY <1>8 DEF KmainHalts, cpuVars, structVars
  <2>2. Live' = Live
    BY <2>1 DEF Live
  <2> QED BY <1>5, <1>6, <2>1, <2>2
<1>9. ASSUME DiskYield PROVE WaitInv'
  <2>1. /\ pc[current] \in {"kmain", "user", "disk"}
        /\ pc' = [pc EXCEPT ![current] = IF @ = "kmain" THEN @ ELSE "disk"]
        /\ ScheduleLocked(state, TRUE)
        /\ UNCHANGED <<id, waiter, hasExited, child, kids, nextId>>
    BY <1>9 DEF DiskYield, structVars
  <2>2. Live' = Live /\ \A s \in Slots : state'[s] = "BLOCKED" => state[s] = "BLOCKED"
    BY <1>2, <1>5, <2>1, LiveAfterSchedule
  <2>3. \A s \in Slots : pc'[s] = IF s = current /\ pc[s] # "kmain" THEN "disk" ELSE pc[s]
    BY <1>3, <1>5, <2>1
  <2>4. /\ \A s \in Slots : pc'[s] = "wait" <=> pc[s] = "wait"
        /\ \A s \in Live : pc[s] = "exit" => pc'[s] = "exit"
    BY <1>3, <2>1, <2>3
  <2> QED BY <1>6, <2>1, <2>2, <2>4
<1>10. ASSUME DiskDone PROVE WaitInv'
  <2>1. /\ pc[current] = "disk" /\ pc' = [pc EXCEPT ![current] = "user"]
        /\ UNCHANGED <<ring, state, id, waiter, hasExited, child, kids, nextId>>
    BY <1>10 DEF DiskDone, cpuVars, structVars
  <2>2. Live' = Live
    BY <2>1 DEF Live
  <2> QED BY <1>5, <1>6, <2>1, <2>2
<1>11. ASSUME NEW s \in Slots, NEW p \in Pml4s, CreateProcess(s, p),
              current # s,
              \/ kids' = [kids EXCEPT ![s] = {}]
              \/ kids' = [kids EXCEPT ![s] = {}, ![current] = @ \cup {nextId}],
              pc'[s] = "user",
              \A t \in Slots : t # s => (pc'[t] = "wait" <=> pc[t] = "wait"),
              \A t \in Slots : t # s => (pc[t] = "exit" => pc'[t] = "exit")
       PROVE  WaitInv'
  <2>1. Live' = Live \cup {s} /\ s \notin Live
    BY <1>2, <1>11, LiveAfterCreate
  <2>2. /\ \A t \in Slots : id'[t] = IF t = s THEN nextId ELSE id[t]
        /\ \A t \in Slots : waiter'[t] = IF t = s THEN NULL ELSE waiter[t]
        /\ \A t \in Slots : hasExited'[t] = IF t = s THEN FALSE ELSE hasExited[t]
        /\ \A t \in Slots : state'[t] = IF t = s THEN "READY" ELSE state[t]
        /\ nextId' = nextId + 1 /\ child' = child
    BY <1>5, <1>11 DEF CreateProcess, Enqueue
  <2>3. /\ kids'[s] = {}
        /\ \A t \in Slots \ {s} : kids'[t] = kids[t] \/ (t = current /\ kids'[t] = kids[t] \cup {nextId})
    BY <1>3, <1>5, <1>11
  <2>4. KidsDisjoint'
    <3>1. /\ \A t \in Live' : id'[t] < nextId'
          /\ \A t, u \in Live' : id'[t] = id'[u] => t = u
      BY <1>3, <1>4, <1>5, <2>1, <2>2 DEF KidsDisjoint
    <3>2. \A t \in Live' : \A k \in kids'[t] : id'[t] < k /\ k < nextId'
      <4> SUFFICES ASSUME NEW t \in Live', NEW k \in kids'[t] PROVE id'[t] < k /\ k < nextId'
        OBVIOUS
      <4>1. t # s /\ t \in Live /\ (k \in kids[t] \/ k = nextId)
        BY <1>3, <2>1, <2>3
      <4>2. id[t] < nextId /\ (k \in kids[t] => id[t] < k /\ k < nextId) /\ id'[t] = id[t]
        BY <1>3, <1>4, <2>2, <4>1 DEF KidsDisjoint
      <4>3. id[t] \in Nat /\ k \in Nat
        BY <1>3, <1>5, <4>1
      <4> QED BY <1>5, <2>2, <4>1, <4>2, <4>3
    <3>3. \A t, u \in Live' : \A k \in kids'[t] : k \in kids'[u] => t = u
      <4> SUFFICES ASSUME NEW t \in Live', NEW u \in Live', NEW k \in kids'[t], k \in kids'[u]
                   PROVE  t = u
        OBVIOUS
      <4>1. t \in Live /\ u \in Live /\ t # s /\ u # s
        BY <1>3, <2>1, <2>3
      <4>2. nextId \notin kids[t] /\ nextId \notin kids[u]
        BY <1>4, <1>5, <4>1 DEF KidsDisjoint
      <4>3. CASE k = nextId
        BY <1>3, <2>3, <4>1, <4>2, <4>3
      <4>4. CASE k # nextId
        <5>1. k \in kids[t] /\ k \in kids[u]
          BY <1>3, <2>3, <4>1, <4>4
        <5> QED BY <1>4, <4>1, <5>1 DEF KidsDisjoint
      <4> QED BY <4>3, <4>4
    <3> QED BY <3>1, <3>2, <3>3 DEF KidsDisjoint
  <2>5. \A t \in Live : t # s /\ t \in Slots /\ id'[t] = id[t] /\ waiter'[t] = waiter[t]
                        /\ hasExited'[t] = hasExited[t] /\ state'[t] = state[t]
                        /\ \A k \in kids[t] : k \in kids'[t]
    BY <1>3, <2>1, <2>2, <2>3
  <2>6. WaitPairs'
    <3>1. ASSUME NEW t \in Live', pc'[t] = "wait"
          PROVE  /\ child'[t] \in Live' /\ id'[child'[t]] \in kids'[t]
                 /\ waiter'[child'[t]] = t
      <4>1. t \in Live /\ pc[t] = "wait"
        BY <1>3, <1>11, <2>1, <3>1
      <4>2. child[t] \in Live /\ id[child[t]] \in kids[t] /\ waiter[child[t]] = t
        BY <1>4, <4>1 DEF WaitPairs
      <4> QED BY <2>1, <2>2, <2>5, <4>1, <4>2
    <3>2. ASSUME NEW c \in Live', waiter'[c] # NULL
          PROVE  /\ waiter'[c] \in Live' /\ pc'[waiter'[c]] = "wait"
                 /\ child'[waiter'[c]] = c
      <4>1. c \in Live /\ waiter'[c] = waiter[c]
        BY <2>1, <2>2, <2>5, <3>2
      <4>2. waiter[c] \in Live /\ pc[waiter[c]] = "wait" /\ child[waiter[c]] = c
        BY <1>4, <3>2, <4>1 DEF WaitPairs
      <4> QED BY <1>11, <2>1, <2>2, <2>5, <4>1, <4>2
    <3> QED BY <3>1, <3>2 DEF WaitPairs
  <2>7. NoLostWake'
    <3> SUFFICES ASSUME NEW t \in Live', pc'[t] = "wait", state'[t] = "BLOCKED"
                 PROVE  ~hasExited'[child'[t]]
      BY DEF NoLostWake
    <3>1. t \in Live /\ pc[t] = "wait" /\ state[t] = "BLOCKED"
      BY <1>3, <1>11, <2>1, <2>5
    <3>2. child[t] \in Live /\ ~hasExited[child[t]]
      BY <1>4, <3>1 DEF WaitPairs, NoLostWake
    <3> QED BY <2>2, <2>5, <3>2
  <2>8. \A t \in Live' : hasExited'[t] => pc'[t] = "exit"
    BY <1>3, <1>4, <1>11, <2>1, <2>2, <2>5
  <2> QED BY <1>1, <2>4, <2>6, <2>7, <2>8 DEF WaitInv

<1>12. ASSUME NEW s \in Slots, NEW p \in Pml4s, BootSpawn(s, p) PROVE WaitInv'
  <2>1. /\ CreateProcess(s, p) /\ current = Boot
        /\ pc' = [pc EXCEPT ![s] = "user", ![Boot] = "hlt"]
        /\ kids' = [kids EXCEPT ![s] = {}]
        /\ pc[Boot] = "kmain"
    BY <1>12 DEF BootSpawn
  <2>2. current # s
    BY <1>3, <2>1 DEF CreateProcess, Enqueue
  <2> QED BY <1>3, <1>5, <1>11, <2>1, <2>2
<1>13. ASSUME NEW s \in Slots, NEW p \in Pml4s, SysSpawn(s, p) PROVE WaitInv'
  <2>1. /\ CreateProcess(s, p) /\ pc[current] \in {"user", "disk"}
        /\ pc' = [pc EXCEPT ![s] = "user", ![current] = "user"]
        /\ kids' = [kids EXCEPT ![s] = {}, ![current] = @ \cup {nextId}]
    BY <1>13 DEF SysSpawn
  <2>2. current # s
    BY <1>3, <2>1 DEF CreateProcess, Enqueue
  <2>3. pc'[s] = "user"
    BY <1>3, <1>5, <2>1, <2>2
  <2>4. \A t \in Slots : t # s => pc'[t] = IF t = current THEN "user" ELSE pc[t]
    BY <1>3, <1>5, <2>1, <2>2
  <2> QED BY <1>11, <2>1, <2>2, <2>3, <2>4
<1>14. ASSUME SysExit PROVE WaitInv'
  <2> DEFINE w == waiter[current]
             st == [state EXCEPT ![current] = "ZOMBIE"]
             woken == IF w # NULL /\ st[w] = "BLOCKED"
                      THEN [st EXCEPT ![w] = "READY"] ELSE st
  <2>1. /\ pc[current] = "user"
        /\ hasExited' = [hasExited EXCEPT ![current] = TRUE]
        /\ pc' = [pc EXCEPT ![current] = "exit"]
        /\ ScheduleLocked(woken, TRUE)
        /\ UNCHANGED <<id, waiter, child, kids, nextId>>
    BY <1>14 DEF SysExit, Wake
  <2>2. st \in [Slots -> States]
    BY <1>5 DEF States
  <2>3. \A s \in Slots : st[s] = IF s = current THEN "ZOMBIE" ELSE state[s]
    BY <1>5
  <2>4. w \in Slots \cup {NULL}
    BY <1>3, <1>5
  <2> HIDE DEF st
  <2>5. woken \in [Slots -> States]
    BY <2>2, <2>4 DEF States
  <2>6. \A s \in Slots : woken[s] = "BLOCKED" => state[s] = "BLOCKED" /\ s # w /\ s # current
    BY <2>2, <2>3, <2>4
  <2> HIDE DEF woken
  <2>7. Live' = Live /\ \A s \in Slots : state'[s] = "BLOCKED" => woken[s] = "BLOCKED"
    BY <1>2, <2>1, <2>5, LiveAfterSchedule
  <2>8. \A s \in Slots : /\ pc'[s] = IF s = current THEN "exit" ELSE pc[s]
                         /\ hasExited'[s] = IF s = current THEN TRUE ELSE hasExited[s]
    BY <1>5, <2>1
  <2>9. KidsDisjoint'
    BY <1>4, <2>1, <2>7 DEF KidsDisjoint
  <2>10. WaitPairs'
    <3>1. \A s \in Live : pc'[s] = "wait" <=> pc[s] = "wait"
      BY <1>3, <2>1, <2>8
    <3> QED BY <1>4, <2>1, <2>7, <3>1 DEF WaitPairs
  <2>11. NoLostWake'
    <3> SUFFICES ASSUME NEW t \in Live, pc'[t] = "wait", state'[t] = "BLOCKED"
                 PROVE  ~hasExited'[child'[t]]
      BY <2>7 DEF NoLostWake
    <3>1. t # current /\ pc[t] = "wait" /\ state[t] = "BLOCKED" /\ t # w
      BY <1>3, <2>6, <2>7, <2>8
    <3>2. child[t] \in Live /\ waiter[child[t]] = t /\ ~hasExited[child[t]]
      BY <1>4, <3>1 DEF WaitPairs, NoLostWake
    <3>3. child[t] # current
      BY <3>1, <3>2 DEF w
    <3> QED BY <1>3, <2>1, <2>8, <3>2, <3>3
  <2>12. \A s \in Live' : hasExited'[s] => pc'[s] = "exit"
    BY <1>3, <1>4, <2>7, <2>8
  <2> QED BY <1>1, <2>9, <2>10, <2>11, <2>12 DEF WaitInv
<1>15. ASSUME NEW c \in Live, id[c] \in kids[current], WaitLoop(c),
              pc[current] \in {"user", "wait"}, child[current] = c \/ pc[current] = "user",
              waiter' = [waiter EXCEPT ![c] = current],
              waiter[c] \in {NULL, current}
       PROVE  WaitInv'
  <2>1. c \in Slots /\ c # current
    BY <1>3, <1>4, <1>5, <1>15 DEF KidsDisjoint
  <2>2. CASE hasExited[c] /\ Collect(c)
    <3>1. Live' = Live \ {c} /\ \A t \in Slots : t # c => state'[t] = state[t]
      BY <1>1, <2>1, <2>2, LiveAfterCollect
    <3>2. /\ pc' = [pc EXCEPT ![c] = "none", ![current] = "user"]
          /\ child' = [child EXCEPT ![current] = NULL]
          /\ kids' = [kids EXCEPT ![current] = @ \ {id[c]}]
          /\ UNCHANGED <<id, hasExited, nextId>>
      BY <2>2 DEF Collect
    <3>3. \A t \in Live' :
            /\ t \in Live /\ t \in Slots /\ t # c
            /\ state'[t] = state[t]
            /\ pc'[t] = (IF t = current THEN "user" ELSE pc[t])
            /\ (t # current => child'[t] = child[t] /\ kids'[t] = kids[t])
            /\ \A k \in kids'[t] : k \in kids[t]
            /\ waiter'[t] = waiter[t]
      <4> SUFFICES ASSUME NEW t \in Live'
                   PROVE  /\ t \in Live /\ t \in Slots /\ t # c
                          /\ state'[t] = state[t]
                          /\ pc'[t] = (IF t = current THEN "user" ELSE pc[t])
                          /\ (t # current => child'[t] = child[t] /\ kids'[t] = kids[t])
                          /\ \A k \in kids'[t] : k \in kids[t]
                          /\ waiter'[t] = waiter[t]
        OBVIOUS
      <4>1. t \in Live /\ t \in Slots /\ t # c
        BY <1>3, <3>1
      <4>2. state'[t] = state[t]
        BY <3>1, <4>1
      <4>3. pc'[t] = IF t = current THEN "user" ELSE pc[t]
        BY <1>3, <1>5, <3>2, <4>1
      <4>4. t # current => child'[t] = child[t] /\ kids'[t] = kids[t]
        BY <1>5, <3>2, <4>1
      <4>5. \A k \in kids'[t] : k \in kids[t]
        BY <1>5, <3>2, <4>1
      <4>6. waiter'[t] = waiter[t]
        BY <1>5, <1>15, <4>1
      <4> QED BY <4>1, <4>2, <4>3, <4>4, <4>5, <4>6
    <3>4. KidsDisjoint'
      BY <1>4, <3>2, <3>3 DEF KidsDisjoint
    <3>5. \A t \in Live : pc[t] = "wait" /\ child[t] = c => t = current
      BY <1>3, <1>4, <1>15 DEF WaitPairs, KidsDisjoint
    <3>6. WaitPairs'
      <4>1. ASSUME NEW t \in Live', pc'[t] = "wait"
            PROVE  /\ child'[t] \in Live' /\ id'[child'[t]] \in kids'[t]
                   /\ waiter'[child'[t]] = t
        <5>1. t \in Live /\ t # current /\ pc[t] = "wait" /\ child'[t] = child[t] /\ kids'[t] = kids[t]
          BY <3>3, <4>1
        <5>2. child[t] \in Live /\ id[child[t]] \in kids[t] /\ waiter[child[t]] = t /\ child[t] # c
          BY <1>4, <3>5, <5>1 DEF WaitPairs
        <5>3. child[t] \in Live'
          BY <3>1, <5>2
        <5> QED BY <3>2, <3>3, <5>1, <5>2, <5>3
      <4>2. ASSUME NEW d \in Live', waiter'[d] # NULL
            PROVE  /\ waiter'[d] \in Live' /\ pc'[waiter'[d]] = "wait"
                   /\ child'[waiter'[d]] = d
        <5>1. d \in Live /\ d # c /\ waiter'[d] = waiter[d]
          BY <3>3
        <5>2. waiter[d] \in Live /\ pc[waiter[d]] = "wait" /\ child[waiter[d]] = d
          BY <1>4, <4>2, <5>1 DEF WaitPairs
        <5>3. waiter[d] # current
          BY <1>15, <5>1, <5>2
        <5>4. waiter[d] # c
          BY <1>4, <2>2, <5>2
        <5>5. waiter[d] \in Live'
          BY <3>1, <5>2, <5>4
        <5> QED BY <3>3, <5>1, <5>2, <5>3, <5>5
      <4> QED BY <4>1, <4>2 DEF WaitPairs
    <3>7. NoLostWake'
      <4> SUFFICES ASSUME NEW t \in Live', pc'[t] = "wait", state'[t] = "BLOCKED"
                   PROVE  ~hasExited'[child'[t]]
        BY DEF NoLostWake
      <4>1. t \in Live /\ pc[t] = "wait" /\ state[t] = "BLOCKED" /\ child'[t] = child[t]
        BY <3>3
      <4>2. ~hasExited[child[t]]
        BY <1>4, <4>1 DEF NoLostWake
      <4> QED BY <3>2, <4>1, <4>2
    <3>8. \A t \in Live' : hasExited'[t] => pc'[t] = "exit"
      <4> SUFFICES ASSUME NEW t \in Live', hasExited'[t] PROVE pc'[t] = "exit"
        OBVIOUS
      <4>1. t \in Live /\ pc[t] = "exit"
        BY <1>4, <3>2, <3>3
      <4> QED BY <1>15, <3>3, <4>1
    <3> QED BY <1>1, <3>4, <3>6, <3>7, <3>8 DEF WaitInv
  <2>3. CASE ~hasExited[c] /\ ~(hasExited[c] /\ Collect(c))
    <3> DEFINE st == [state EXCEPT ![current] = "BLOCKED"]
    <3>1. /\ ScheduleLocked(st, TRUE)
          /\ pc' = [pc EXCEPT ![current] = "wait"]
          /\ child' = [child EXCEPT ![current] = c]
          /\ UNCHANGED <<id, hasExited, kids, nextId>>
      BY <1>15, <2>3 DEF WaitLoop, Block
    <3>2. st \in [Slots -> States]
      BY <1>5 DEF States
    <3>3. \A s \in Slots : st[s] = IF s = current THEN "BLOCKED" ELSE state[s]
      BY <1>5
    <3> HIDE DEF st
    <3>4. Live' = Live /\ \A s \in Slots : state'[s] = "BLOCKED" => st[s] = "BLOCKED"
      BY <1>2, <3>1, <3>2, LiveAfterSchedule
    <3>5. \A t \in Slots : /\ pc'[t] = IF t = current THEN "wait" ELSE pc[t]
                           /\ child'[t] = IF t = current THEN c ELSE child[t]
                           /\ waiter'[t] = IF t = c THEN current ELSE waiter[t]
      BY <1>5, <1>15, <3>1
    <3>6. KidsDisjoint'
      BY <1>4, <3>1, <3>4 DEF KidsDisjoint
    <3>7. \A t \in Live : pc[t] = "wait" /\ child[t] = c => t = current
      BY <1>3, <1>4, <1>15 DEF WaitPairs, KidsDisjoint
    <3>8. WaitPairs'
      <4>1. ASSUME NEW t \in Live, pc'[t] = "wait"
            PROVE  /\ child'[t] \in Live /\ id[child'[t]] \in kids[t]
                   /\ waiter'[child'[t]] = t
        <5>1. CASE t = current
          BY <1>3, <1>15, <2>1, <3>5, <5>1
        <5>2. CASE t # current
          <6>1. t \in Slots /\ pc[t] = "wait" /\ child'[t] = child[t]
            BY <1>3, <3>5, <4>1, <5>2
          <6>2. child[t] \in Live /\ id[child[t]] \in kids[t] /\ waiter[child[t]] = t /\ child[t] # c
            BY <1>4, <3>7, <5>2, <6>1 DEF WaitPairs
          <6> QED BY <1>3, <3>5, <6>1, <6>2
        <5> QED BY <5>1, <5>2
      <4>2. ASSUME NEW d \in Live, waiter'[d] # NULL
            PROVE  /\ waiter'[d] \in Live /\ pc'[waiter'[d]] = "wait"
                   /\ child'[waiter'[d]] = d
        <5>1. CASE d = c
          BY <1>3, <2>1, <3>5, <5>1
        <5>2. CASE d # c
          <6>1. d \in Slots /\ waiter'[d] = waiter[d]
            BY <1>3, <3>5, <5>2
          <6>2. waiter[d] \in Live /\ pc[waiter[d]] = "wait" /\ child[waiter[d]] = d
            BY <1>4, <4>2, <6>1 DEF WaitPairs
          <6>3. waiter[d] # current
            BY <1>15, <5>2, <6>2
          <6> QED BY <1>3, <3>5, <6>1, <6>2, <6>3
        <5> QED BY <5>1, <5>2
      <4> QED BY <3>1, <3>4, <4>1, <4>2 DEF WaitPairs
    <3>9. NoLostWake'
      <4> SUFFICES ASSUME NEW t \in Live, pc'[t] = "wait", state'[t] = "BLOCKED"
                   PROVE  ~hasExited[child'[t]]
        BY <3>1, <3>4 DEF NoLostWake
      <4>1. CASE t = current
        BY <1>3, <2>3, <3>5, <4>1
      <4>2. CASE t # current
        <5>1. pc[t] = "wait" /\ state[t] = "BLOCKED" /\ child'[t] = child[t]
          BY <1>3, <3>3, <3>4, <3>5, <4>2
        <5> QED BY <1>4, <5>1 DEF NoLostWake
      <4> QED BY <4>1, <4>2
    <3>10. \A t \in Live' : hasExited'[t] => pc'[t] = "exit"
      BY <1>3, <1>4, <1>15, <3>1, <3>4, <3>5
    <3> QED BY <1>1, <3>6, <3>8, <3>9, <3>10 DEF WaitInv
  <2> QED BY <1>15, <2>2, <2>3 DEF WaitLoop
<1>16. ASSUME NEW c \in Slots, SysWaitpid(c) PROVE WaitInv'
  <2>1. /\ pc[current] = "user" /\ c \in Live /\ id[c] \in kids[current]
        /\ waiter' = [waiter EXCEPT ![c] = current] /\ WaitLoop(c)
    BY <1>16 DEF SysWaitpid
  <2>2. waiter[c] = NULL
    <3> SUFFICES ASSUME waiter[c] # NULL PROVE FALSE
      OBVIOUS
    <3>1. waiter[c] \in Live /\ pc[waiter[c]] = "wait" /\ child[waiter[c]] = c
      BY <1>4, <2>1 DEF WaitPairs
    <3>2. id[c] \in kids[waiter[c]]
      BY <1>4, <3>1 DEF WaitPairs
    <3>3. waiter[c] = current
      BY <1>3, <1>4, <2>1, <3>1, <3>2 DEF KidsDisjoint
    <3> QED BY <2>1, <3>1, <3>3
  <2> QED BY <1>15, <2>1, <2>2
<1>17. ASSUME WaitResume PROVE WaitInv'
  <2> DEFINE c == child[current]
  <2>1. pc[current] = "wait" /\ WaitLoop(c) /\ waiter' = waiter
    BY <1>17 DEF WaitResume
  <2>2. c \in Live /\ id[c] \in kids[current] /\ waiter[c] = current
    BY <1>3, <1>4, <2>1 DEF WaitPairs
  <2>3. waiter' = [waiter EXCEPT ![c] = current]
    BY <1>3, <1>5, <2>1, <2>2
  <2> HIDE DEF c
  <2>4. child[current] = c
    BY DEF c
  <2> QED BY <1>15, <2>1, <2>2, <2>3, <2>4
<1>18. CASE UNCHANGED vars
  <2>1. Live' = Live /\ UNCHANGED <<id, kids, nextId, waiter, child, hasExited, pc, state>>
    BY <1>18 DEF vars, Live
  <2> QED BY <1>6, <2>1
<1> QED BY <1>7, <1>8, <1>9, <1>10, <1>12, <1>13, <1>14, <1>16, <1>17, <1>18
        DEF Next, KernelStep

(* Under the shell's discipline, one waiter per child, waitpid and exit    *)
(* keep their pointers and lose no wake, however they interleave.          *)
THEOREM WaitInvariant == AnyWaiter = FALSE => (Spec => []WaitInv)
PROOF
<1> SUFFICES ASSUME AnyWaiter = FALSE PROVE Spec => []WaitInv
  OBVIOUS
<1>1. Init => WaitInv
  BY WaitInit
<1>2. WaitInv /\ [Next]_vars => WaitInv'
  BY WaitNext
<1> QED BY <1>1, <1>2, PTL DEF Spec

(* No thread sleeps in waitpid for a child that has already exited.        *)
THEOREM SchedNoLostWake == AnyWaiter = FALSE => (Spec => []NoLostWake)
PROOF
<1>1. WaitInv => NoLostWake
  BY DEF WaitInv
<1> QED BY <1>1, WaitInvariant, PTL

(* The pointers waitpid and exit keep across a block never dangle.         *)
THEOREM SchedNoDangling == AnyWaiter = FALSE => (Spec => []NoDangling)
PROOF
<1>1. WaitInv => NoDangling
  BY DEF WaitInv, WaitPairs, NoDangling
<1> QED BY <1>1, WaitInvariant, PTL
=============================================================================
