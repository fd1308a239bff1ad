--------------------------- MODULE TrainingProofs ---------------------------
(***************************************************************************)
(* Proofs about module Training, for any command lines, any number of      *)
(* processes, crashes and resumptions, and any validation losses: the      *)
(* scheduler and the step counter stay in step until a process goes on     *)
(* from weights alone, max_steps is passed by at most one step for each    *)
(* resumption, and an optimizer step takes the gradient of whole windows;  *)
(* then what the directory holds: the order of the names, what a cleanup   *)
(* removes and leaves, the best model that is exported, and the newest     *)
(* checkpoint a resumption can rely on.                                    *)
(***************************************************************************)
EXTENDS Training, CommonLemmas, FiniteSetTheorems, TLAPS

(* Powers of ten and the number of digits.                                 *)
LEMMA PowerOfTen ==
  /\ Pow10 \in [Nat -> Nat \ {0}]
  /\ Pow10[0] = 1
  /\ \A k \in Nat : Pow10[k + 1] = 10 * Pow10[k] /\ k < Pow10[k]
PROOF
<1> DEFINE T == Nat \ {0}
           g == [kp \in Nat \X T |-> 10 * kp[2]]
           Def(f) == f = [k \in Nat |-> IF k = 0 THEN 1 ELSE 10 * f[k - 1]]
<1>1. StepOf(T, g)
  BY DEF StepOf
<1>2. \A k \in Nat, x \in T : g[<<k, x>>] = 10 * x
  OBVIOUS
<1> HIDE DEF g
<1>3. \E f : Recursion(f, T, 1, g)
  <2>1. 1 \in T
    OBVIOUS
  <2> HIDE DEF T
  <2> QED BY <1>1, <2>1, NatRecursion
<1>4. PICK f : f \in [Nat -> T] /\ f[0] = 1 /\ \A k \in Nat \ {0} : f[k] = g[<<k, f[k - 1]>>]
  BY <1>3 DEF Recursion
<1>5. Def(f)
  <2>1. ASSUME NEW k \in Nat \ {0} PROVE f[k] = 10 * f[k - 1]
    <3>1. k - 1 \in Nat
      OBVIOUS
    <3>2. f[k - 1] \in T
      BY <1>4, <3>1
    <3> QED BY <1>2, <1>4, <3>1, <3>2
  <2>2. \A k \in Nat : f[k] = IF k = 0 THEN 1 ELSE 10 * f[k - 1]
    BY <1>4, <2>1
  <2> QED BY <1>4, <2>2
<1>6. Def(Pow10)
  <2>1. Pow10 = CHOOSE p : Def(p)
    BY DEF Pow10
  <2> QED BY <1>5, <2>1
<1>7. Pow10[0] = 1 /\ DOMAIN Pow10 = Nat /\ Pow10 = [k \in Nat |-> Pow10[k]]
  BY <1>6
<1>8. \A k \in Nat : Pow10[k + 1] = 10 * Pow10[k]
  <2> SUFFICES ASSUME NEW k \in Nat PROVE Pow10[k + 1] = 10 * Pow10[k]
    OBVIOUS
  <2>1. k + 1 \in Nat /\ k + 1 # 0 /\ (k + 1) - 1 = k
    OBVIOUS
  <2> QED BY <1>6, <2>1
<1>9. {k \in Nat : Pow10[k] \in Nat /\ k < Pow10[k]} = Nat
  <2> DEFINE S == {k \in Nat : Pow10[k] \in Nat /\ k < Pow10[k]}
  <2>1. 0 \in S
    BY <1>7
  <2>2. ASSUME NEW k \in S PROVE k + 1 \in S
    <3>1. k \in Nat /\ Pow10[k] \in Nat /\ k < Pow10[k] /\ Pow10[k + 1] = 10 * Pow10[k]
      BY <1>8
    <3> QED BY <3>1
  <2> HIDE DEF S
  <2>3. S \subseteq Nat
    BY DEF S
  <2>4. S = Nat
    BY <2>1, <2>2, <2>3, NatInductionOnSets
  <2> QED BY <2>4 DEF S
<1>10. \A k \in Nat : Pow10[k] \in Nat \ {0} /\ k < Pow10[k]
  BY <1>9
<1> QED BY <1>7, <1>8, <1>10

(* The width that Width chooses is there.                                  *)
Fits(n, w) == n < Pow10[w] /\ (w = 1 \/ n >= Pow10[w - 1])

LEMMA WidthFits ==
  ASSUME NEW n \in Nat
  PROVE  Width(n) \in 1..(n + 1) /\ Fits(n, Width(n))
PROOF
<1> DEFINE Long == {w \in Nat \ {0} : n < Pow10[w]}
<1>1. n + 1 \in Long
  <2>1. n + 1 \in Nat /\ n + 1 < Pow10[n + 1] /\ Pow10[n + 1] \in Nat
    BY PowerOfTen
  <2> QED BY <2>1
<1>2. Long \in SUBSET Nat /\ Long # {}
  BY <1>1
<1>3. PICK w \in Long : \A v \in Long : w <= v
  <2> HIDE DEF Long
  <2> QED BY <1>2, LeastNumber
<1>4. w \in 1..(n + 1) /\ n < Pow10[w]
  BY <1>1, <1>3
<1>5. w = 1 \/ n >= Pow10[w - 1]
  <2> SUFFICES ASSUME w # 1, ~(n >= Pow10[w - 1]) PROVE FALSE
    OBVIOUS
  <2>1. w - 1 \in Nat \ {0} /\ ~(w <= w - 1)
    OBVIOUS
  <2>2. Pow10[w - 1] \in Nat
    BY <2>1, PowerOfTen
  <2>3. w - 1 \in Long
    BY <2>1, <2>2
  <2> QED BY <1>3, <2>1, <2>3
<1>6. \E x \in 1..(n + 1) : Fits(n, x)
  BY <1>4, <1>5 DEF Fits
<1>7. Width(n) = CHOOSE x \in 1..(n + 1) : Fits(n, x)
  BY DEF Width, Fits
<1> QED BY <1>6, <1>7

LEMMA WidthType ==
  ASSUME NEW n \in Nat
  PROVE  Width(n) \in Nat \ {0}
PROOF
<1>1. Width(n) \in 1..(n + 1)
  BY WidthFits
<1> QED BY <1>1

(* The order of the names is a strict total order, and the order of the    *)
(* numbers on numbers of one width.                                        *)
LEMMA CancelFactor ==
  ASSUME NEW a \in Nat, NEW b \in Nat, NEW p \in Nat \ {0}
  PROVE  /\ a * p < b * p <=> a < b
         /\ a * p = b * p <=> a = b
         /\ a * p \in Nat
BY SMT

LEMMA PrecedesTotal ==
  ASSUME NEW m \in Nat, NEW n \in Nat
  PROVE  /\ Precedes(m, n) \/ Precedes(n, m) \/ m = n
         /\ ~Precedes(m, m)
         /\ ~(Precedes(m, n) /\ Precedes(n, m))
         /\ Width(m) = Width(n) => (Precedes(m, n) <=> m < n)
PROOF
<1> DEFINE v == Width(m)
           w == Width(n)
           p == Pow10[v]
           q == Pow10[w]
<1>1. v \in Nat /\ w \in Nat /\ p \in Nat \ {0} /\ q \in Nat \ {0}
  BY WidthType, PowerOfTen
<1>2. /\ Precedes(m, n) <=> (m * q < n * p \/ (m * q = n * p /\ v < w))
      /\ Precedes(n, m) <=> (n * p < m * q \/ (n * p = m * q /\ w < v))
      /\ Precedes(m, m) <=> (m * p < m * p \/ (m * p = m * p /\ v < v))
  BY DEF Precedes
<1>3. v = w => p = q
  OBVIOUS
<1> HIDE DEF v, w, p, q
<1>4. m * q \in Nat /\ n * p \in Nat /\ m * p \in Nat
  BY <1>1
<1>5. v = w => ((m * q < n * p <=> m < n) /\ (m * q = n * p <=> m = n))
  <2> SUFFICES ASSUME v = w PROVE (m * p < n * p <=> m < n) /\ (m * p = n * p <=> m = n)
    BY <1>3
  <2> QED BY <1>1, CancelFactor
<1>6. /\ m * q < n * p \/ n * p < m * q \/ m * q = n * p
      /\ v < w \/ w < v \/ v = w
      /\ ~(m * p < m * p) /\ ~(v < v)
      /\ ~(m * q < n * p /\ n * p < m * q)
      /\ (m * q = n * p => ~(m * q < n * p) /\ ~(n * p < m * q))
      /\ ~(v < w /\ w < v)
  BY <1>1, <1>4
<1> QED BY <1>2, <1>5, <1>6 DEF v, w

LEMMA PrecedesTransitive ==
  ASSUME NEW k \in Nat, NEW m \in Nat, NEW n \in Nat, Precedes(k, m), Precedes(m, n)
  PROVE  Precedes(k, n)
PROOF
<1> DEFINE u == Width(k)
           v == Width(m)
           w == Width(n)
           o == Pow10[u]
           p == Pow10[v]
           q == Pow10[w]
<1>1. /\ u \in Nat /\ v \in Nat /\ w \in Nat
      /\ o \in Nat \ {0} /\ p \in Nat \ {0} /\ q \in Nat \ {0}
  BY WidthType, PowerOfTen
<1>2. /\ k * p < m * o \/ (k * p = m * o /\ u < v)
      /\ m * q < n * p \/ (m * q = n * p /\ v < w)
      /\ Precedes(k, n) <=> (k * q < n * o \/ (k * q = n * o /\ u < w))
  BY DEF Precedes
<1> HIDE DEF u, v, w, o, p, q
<1> DEFINE a == k * p
           b == m * o
           c == m * q
           d == n * p
           e == k * q
           f == n * o
<1>3. /\ a \in Nat /\ b \in Nat /\ c \in Nat /\ d \in Nat /\ e \in Nat /\ f \in Nat
  BY <1>1
<1>4. a * q = e * p /\ b * q = c * o /\ d * o = f * p
  BY <1>1
<1>5. /\ (a < b <=> a * q < b * q) /\ (a = b <=> a * q = b * q)
      /\ (c < d <=> c * o < d * o) /\ (c = d <=> c * o = d * o)
      /\ (e < f <=> e * p < f * p) /\ (e = f <=> e * p = f * p)
      /\ a * q \in Nat /\ b * q \in Nat /\ d * o \in Nat
  <2> HIDE DEF a, b, c, d, e, f
  <2> QED BY <1>1, <1>3, CancelFactor
<1>6. /\ a < b \/ (a = b /\ u < v)
      /\ c < d \/ (c = d /\ v < w)
      /\ Precedes(k, n) <=> (e < f \/ (e = f /\ u < w))
  BY <1>2
<1> HIDE DEF a, b, c, d, e, f
<1> DEFINE x == a * q
           y == b * q
           z == d * o
<1>7. /\ x \in Nat /\ y \in Nat /\ z \in Nat
      /\ (a < b <=> x < y) /\ (a = b <=> x = y)
      /\ (c < d <=> y < z) /\ (c = d <=> y = z)
      /\ (e < f <=> x < z) /\ (e = f <=> x = z)
  BY <1>4, <1>5
<1> HIDE DEF x, y, z
<1> QED BY <1>1, <1>6, <1>7

-----------------------------------------------------------------------------
(* _cleanup_old_checkpoints on the files of one base, which differ in step. *)
Named(S) == /\ IsFiniteSet(S)
            /\ \A f \in S : f.step \in Nat
            /\ \A f, g \in S : f.step = g.step => f = g

LEMMA AfterFacts ==
  ASSUME NEW S, Named(S), NEW f \in S
  PROVE  /\ IsFiniteSet(SortedAfter(f, S)) /\ Cardinality(SortedAfter(f, S)) \in Nat
         /\ SortedAfter(f, S) \subseteq S
PROOF
<1>1. SortedAfter(f, S) \in SUBSET S
  BY DEF SortedAfter
<1>2. IsFiniteSet(SortedAfter(f, S))
  BY <1>1, FS_Subset DEF Named
<1> QED BY <1>1, <1>2, FS_CardinalityType

(* A file has fewer after it than a file before it has.                    *)
LEMMA AfterShrinks ==
  ASSUME NEW S, Named(S), NEW f \in S, NEW g \in S, Precedes(g.step, f.step)
  PROVE  Cardinality(SortedAfter(f, S)) < Cardinality(SortedAfter(g, S))
PROOF
<1> DEFINE A == SortedAfter(f, S)
           B == SortedAfter(g, S)
<1>1. /\ IsFiniteSet(A) /\ Cardinality(A) \in Nat
      /\ IsFiniteSet(B) /\ Cardinality(B) \in Nat
  BY AfterFacts
<1>2. \A x \in S : x.step \in Nat
  BY DEF Named
<1>3. f \notin A
  BY <1>2, PrecedesTotal DEF SortedAfter
<1>4. \A x \in A : x \in B
  BY <1>2, PrecedesTransitive DEF SortedAfter
<1>5. A \cup {f} \in SUBSET B
  BY <1>4 DEF SortedAfter
<1> HIDE DEF A, B
<1>6. Cardinality(A \cup {f}) = Cardinality(A) + 1
  BY <1>1, <1>3, FS_AddElement
<1>7. Cardinality(A \cup {f}) <= Cardinality(B)
  BY <1>1, <1>5, FS_Subset
<1> QED BY <1>1, <1>6, <1>7 DEF A, B

(* What stays is no more than is to be kept.                               *)
LEMMA AtMostKept ==
  ASSUME NEW S, Named(S), NEW keep \in Nat \ {0}
  PROVE  /\ IsFiniteSet(S \ Surplus(S, keep))
         /\ Cardinality(S \ Surplus(S, keep)) \in Nat
         /\ Cardinality(S \ Surplus(S, keep)) <= keep
PROOF
<1> DEFINE K == S \ Surplus(S, keep)
           after(f) == Cardinality(SortedAfter(f, S))
           Counts == {i \in Nat : \E f \in K : after(f) + i = keep}
<1>1. \A f \in K : f \in S /\ after(f) \in Nat /\ after(f) < keep
  BY AfterFacts DEF Surplus
<1>2. K \in SUBSET S /\ IsFiniteSet(K) /\ Cardinality(K) \in Nat
  BY FS_Subset, FS_CardinalityType DEF Named
<1> HIDE DEF K
<1>3. CASE K = {}
  BY <1>2, <1>3, FS_EmptySet DEF K
<1>4. CASE K # {}
  <2>1. PICK h \in K : TRUE
    BY <1>4
  <2>2. keep - after(h) \in Counts
    BY <1>1, <2>1
  <2>3. PICK i \in Counts : \A j \in Counts : i <= j
    <3>1. Counts \in SUBSET Nat /\ Counts # {}
      BY <2>2
    <3> HIDE DEF Counts
    <3> QED BY <3>1, LeastNumber
  <2>4. PICK f \in K : after(f) + i = keep
    BY <2>3
  <2>5. ASSUME NEW g \in K, g # f PROVE g \in SortedAfter(f, S)
    <3>1. /\ f \in S /\ g \in S /\ f.step \in Nat /\ g.step \in Nat /\ f.step # g.step
      BY <1>1, <2>5 DEF Named
    <3>2. ~Precedes(g.step, f.step)
      <4> SUFFICES ASSUME Precedes(g.step, f.step) PROVE FALSE
        OBVIOUS
      <4>1. after(f) < after(g)
        BY <3>1, AfterShrinks
      <4>2. after(g) < keep /\ after(f) \in Nat /\ after(g) \in Nat
        BY <1>1
      <4>3. keep - after(g) \in Counts
        BY <4>2
      <4> QED BY <2>3, <2>4, <4>1, <4>2, <4>3
    <3>3. Precedes(f.step, g.step)
      BY <3>1, <3>2, PrecedesTotal
    <3> QED BY <3>1, <3>3 DEF SortedAfter
  <2>6. K \ {f} \in SUBSET SortedAfter(f, S)
    BY <2>5
  <2>7. Cardinality(K \ {f}) <= after(f)
    BY <1>1, <2>6, AfterFacts, FS_Subset
  <2>8. Cardinality(K \ {f}) = Cardinality(K) - 1
    BY <1>2, <2>4, FS_RemoveElement
  <2>9. after(f) \in Nat /\ after(f) < keep
    BY <1>1
  <2>10. Cardinality(K) <= keep
    BY <1>2, <2>7, <2>8, <2>9
  <2> QED BY <1>2, <2>10 DEF K
<1> QED BY <1>3, <1>4

(* What is removed comes before all that stay.                             *)
LEMMA RemovedComesFirst ==
  ASSUME NEW S, Named(S), NEW keep \in Nat \ {0},
         NEW f \in Surplus(S, keep), NEW g \in S \ Surplus(S, keep)
  PROVE  Precedes(f.step, g.step)
PROOF
<1>1. f \in S /\ Cardinality(SortedAfter(f, S)) >= keep
  BY DEF Surplus
<1>2. g \in S /\ ~(Cardinality(SortedAfter(g, S)) >= keep)
  BY DEF Surplus
<1>3. Cardinality(SortedAfter(f, S)) \in Nat /\ Cardinality(SortedAfter(g, S)) \in Nat
  BY <1>1, <1>2, AfterFacts
<1>4. ~Precedes(g.step, f.step)
  BY <1>1, <1>2, <1>3, AfterShrinks
<1>5. f # g
  BY <1>1, <1>2
<1>6. f.step \in Nat /\ g.step \in Nat /\ f.step # g.step
  BY <1>1, <1>2, <1>5 DEF Named
<1> QED BY <1>4, <1>6, PrecedesTotal

(* The last file stays.                                                    *)
LEMMA LastStays ==
  ASSUME NEW S, Named(S), NEW keep \in Nat \ {0}, NEW f \in S,
         SortedAfter(f, S) = {}
  PROVE  f \notin Surplus(S, keep)
BY FS_EmptySet DEF Surplus

(* Of some files one sorts last.                                           *)
LEMMA LastIsOneOfThem ==
  ASSUME NEW S, Named(S), S # {}
  PROVE  LastByName(S) \in S
PROOF
<1> DEFINE after(f) == Cardinality(SortedAfter(f, S))
           Counts == {i \in Nat : \E f \in S : after(f) = i}
<1>1. \A f \in S : after(f) \in Nat /\ f.step \in Nat
  BY AfterFacts DEF Named
<1>2. PICK i \in Counts : \A j \in Counts : i <= j
  <2>1. Counts \in SUBSET Nat /\ Counts # {}
    BY <1>1
  <2> HIDE DEF Counts
  <2> QED BY <2>1, LeastNumber
<1>3. PICK f \in S : after(f) = i
  BY <1>2
<1>4. ASSUME NEW g \in SortedAfter(f, S) PROVE FALSE
  <2>1. g \in S /\ Precedes(f.step, g.step)
    BY <1>4 DEF SortedAfter
  <2>2. after(g) < after(f)
    BY <2>1, AfterShrinks
  <2>3. after(g) \in Counts
    BY <1>1, <2>1
  <2> HIDE DEF Counts, after
  <2> QED BY <1>1, <1>2, <1>3, <2>1, <2>2, <2>3
<1>5. \E h \in S : SortedAfter(h, S) = {}
  BY <1>4
<1> QED BY <1>5 DEF LastByName

-----------------------------------------------------------------------------
(* The strengthening for the counters.  What a file holds is what its name  *)
(* says, so a resumption takes counters that agree and are bounded; and at  *)
(* the start of a batch there is room for the step it may take.             *)
Fields == {"epoch", "gstep", "sched", "loss", "whole"}

FileHoldsItsStep(f) ==
  /\ DOMAIN disk[f] = Fields
  /\ f.step \in Nat /\ disk[f].gstep = f.step /\ disk[f].sched \in Nat
  /\ job.iterations = 1 => InStep(disk[f].sched, f.step)
  /\ f.step <= job.maxSteps + runs - 1

\* sft_best.pt may lack the scheduler.
ExportHoldsAStep ==
  sftBest # None =>
    /\ sftBest.gstep \in Nat /\ sftBest.gstep <= job.maxSteps + runs - 1
    /\ "sched" \in DOMAIN sftBest =>
         /\ sftBest.sched \in Nat
         /\ job.iterations = 1 => InStep(sftBest.sched, sftBest.gstep)

CountsInv ==
  /\ job \in Jobs /\ iteration \in Nat /\ gstep \in Nat /\ runs \in Nat
  /\ sched \in Nat /\ bare \in BOOLEAN
  /\ phase \notin Ended => runs >= 1
  /\ phase = "batch" => gstep <= job.maxSteps + runs - 2
  /\ phase = "write" => target.base \in Bases
  /\ StepsBounded
  /\ job.iterations = 1 => InStep(sched, gstep)

FilesNamed == IsFiniteSet(DOMAIN disk) /\ DOMAIN disk \subseteq [base : Bases, step : Nat]

FilesInv == /\ FilesNamed /\ ExportHoldsAStep
            /\ \A f \in DOMAIN disk : FileHoldsItsStep(f)

StepInv == CountsInv /\ FilesInv

(* What a job is.                                                           *)
LEMMA JobFacts ==
  ASSUME job \in Jobs
  PROVE  /\ job.batches \in Nat \ {0} /\ job.accum \in Nat \ {0}
         /\ job.maxSteps \in Nat \ {0} /\ job.iterations \in Nat \ {0}
BY JobsAssumption DEF Job

(* The files of one base are the files of a name.                           *)
LEMMA NamedFiles ==
  ASSUME FilesNamed, NEW b
  PROVE  /\ Named(Files(b)) /\ Cardinality(Files(b)) \in Nat
         /\ Files(b) \subseteq DOMAIN disk
PROOF
<1>1. Files(b) \in SUBSET DOMAIN disk
  BY DEF Files
<1>2. IsFiniteSet(Files(b)) /\ Cardinality(Files(b)) \in Nat
  BY <1>1, FS_Subset, FS_CardinalityType DEF FilesNamed
<1>3. \A f \in Files(b) : /\ f \in [base : Bases, step : Nat]
                          /\ f.base = b /\ f.step \in Nat
  BY DEF Files, FilesNamed
<1>4. ASSUME NEW f \in Files(b), NEW g \in Files(b), f.step = g.step PROVE f = g
  BY <1>3, <1>4
<1> QED BY <1>1, <1>2, <1>3, <1>4 DEF Named

LEMMA StepInit == Init => StepInv
PROOF
<1> SUFFICES ASSUME Init PROVE StepInv
  OBVIOUS
<1>1. job \in Jobs /\ job.maxSteps \in Nat \ {0}
  BY JobFacts DEF Init
<1>2. CountsInv
  <2>1. bare \in BOOLEAN
    BY Zenon DEF Init
  <2>2. sched = 0 /\ gstep = 0
    BY DEF Init
  <2>3. InStep(sched, gstep)
    BY <2>2 DEF InStep
  <2> QED BY <1>1, <2>1, <2>3 DEF Init, CountsInv, StepsBounded, Ended
<1>3. DOMAIN disk = {} /\ sftBest = None
  BY DEF Init
<1> QED BY <1>2, <1>3, FS_EmptySet DEF StepInv, FilesInv, FilesNamed, ExportHoldsAStep

(* The actions that leave the files alone keep FilesInv: a bound on the     *)
(* step of a file only grows with the number of runs, and what is asked of  *)
(* its scheduler only shrinks.                                              *)
LEMMA FilesKept ==
  ASSUME StepInv, disk' = disk, job' = job, runs' \in Nat, runs' >= runs,
         bare => bare', sftBest' = sftBest \/ ExportHoldsAStep'
  PROVE  FilesInv'
PROOF
<1>1. runs \in Nat /\ job.maxSteps \in Nat /\ FilesInv /\ (bare => bare')
  BY JobFacts DEF StepInv, CountsInv
<1>2. ASSUME NEW f \in DOMAIN disk PROVE FileHoldsItsStep(f)'
  <2>1. FileHoldsItsStep(f)
    BY <1>1 DEF FilesInv
  <2> QED BY <1>1, <2>1 DEF FileHoldsItsStep, InStep
<1>3. CASE sftBest' = sftBest
  <2>1. ExportHoldsAStep
    BY <1>1 DEF FilesInv
  <2>2. ExportHoldsAStep'
    BY <1>1, <1>3, <2>1 DEF ExportHoldsAStep, InStep
  <2> QED BY <1>1, <1>2, <2>2 DEF FilesInv, FilesNamed
<1>4. CASE ExportHoldsAStep'
  BY <1>1, <1>2, <1>4 DEF FilesInv, FilesNamed
<1> QED BY <1>3, <1>4

(* sft_best.pt is written from the weights and the step alone, or is a copy. *)
LEMMA WeightsHold ==
  ASSUME StepInv, runs' = runs, job' = job, bare' = bare, NEW w \in BOOLEAN,
         sftBest' = Weights(w)
  PROVE  ExportHoldsAStep'
BY DEF Weights, ExportHoldsAStep, StepInv, CountsInv, StepsBounded

LEMMA CopyHolds ==
  ASSUME StepInv, runs' = runs, job' = job, bare' = bare,
         NEW f \in DOMAIN disk, sftBest' = disk[f]
  PROVE  ExportHoldsAStep'
PROOF
<1>1. FileHoldsItsStep(f)
  BY DEF StepInv, FilesInv
<1> QED BY <1>1 DEF ExportHoldsAStep, FileHoldsItsStep, InStep

(* A launched process starts from counters that agree, and one run more     *)
(* has been counted.                                                        *)
LEMMA LaunchKeeps ==
  ASSUME StepInv, NEW e, NEW n \in Nat, NEW l, Launch(e, n, l),
         n <= job.maxSteps + runs - 1, l \in Nat,
         bare' \in BOOLEAN, bare => bare',
         job.iterations = 1 => l <= n /\ (~bare' => l = n)
  PROVE  StepInv'
PROOF
<1>1. /\ job' = job /\ disk' = disk /\ iteration' = 0 /\ gstep' = n /\ sched' = l
      /\ runs' = runs + 1 /\ phase' # "write" /\ sftBest' = sftBest
  BY DEF Launch, Enter
<1>2. job \in Jobs /\ runs \in Nat /\ job.maxSteps \in Nat
  BY JobFacts DEF StepInv, CountsInv
<1>3. CountsInv'
  BY <1>1, <1>2 DEF CountsInv, StepsBounded, InStep
<1>4. FilesInv'
  BY <1>1, <1>2, FilesKept
<1> QED BY <1>3, <1>4 DEF StepInv

LEMMA GoOnKeeps ==
  ASSUME StepInv, NEW c, GoOnFrom(c), c.gstep \in Nat, c.gstep <= job.maxSteps + runs - 1,
         "sched" \in DOMAIN c =>
           c.sched \in Nat /\ (job.iterations = 1 => InStep(c.sched, c.gstep))
  PROVE  StepInv'
PROOF
<1> DEFINE r == Restored(c)
<1>1. /\ Launch(r[1], r[2], r[3]) /\ r[2] = c.gstep /\ r[3] = Entry(c, "sched")
      /\ bare' = (bare \/ "sched" \notin DOMAIN c)
  BY DEF GoOnFrom, Restored
<1>2. bare \in BOOLEAN
  BY DEF StepInv, CountsInv
<1>3. Entry(c, "sched") \in Nat
  BY DEF Entry
<1>4. job.iterations = 1 =>
        Entry(c, "sched") <= c.gstep /\ (~bare' => Entry(c, "sched") = c.gstep)
  <2>1. CASE "sched" \in DOMAIN c
    <3>1. bare' = bare /\ Entry(c, "sched") = c.sched
      BY <1>1, <1>2, <2>1 DEF Entry
    <3> QED BY <2>1, <3>1 DEF InStep
  <2>2. CASE "sched" \notin DOMAIN c
    <3>1. bare' /\ Entry(c, "sched") = 0
      BY <1>1, <2>2 DEF Entry
    <3> QED BY <3>1
  <2> QED BY <2>1, <2>2
<1>5. bare' \in BOOLEAN /\ (bare => bare')
  BY <1>1, <1>2
<1> HIDE DEF r
<1> QED BY <1>1, <1>3, <1>4, <1>5, LaunchKeeps

(* A file that is begun has the process's counters and their name.          *)
LEMMA StartWritingKeeps ==
  ASSUME StepInv, NEW base \in Bases, NEW e, StartWriting(base, e), phase \notin Ended
  PROVE  StepInv'
PROOF
<1> DEFINE g == [base |-> base, step |-> gstep]
           c == [epoch |-> e, gstep |-> gstep, sched |-> sched,
                 loss |-> best', whole |-> FALSE]
<1>1. /\ job' = job /\ runs' = runs /\ iteration' = iteration
      /\ gstep' = gstep /\ sched' = sched /\ phase' = "write"
      /\ target'.base = base /\ sftBest' = sftBest /\ bare' = bare
      /\ disk' = [f \in DOMAIN disk \cup {g} |-> IF f = g THEN c ELSE disk[f]]
  BY DEF StartWriting
<1>2. CountsInv'
  BY <1>1 DEF StepInv, CountsInv, StepsBounded, InStep
<1>E. ExportHoldsAStep'
  BY <1>1 DEF StepInv, FilesInv, ExportHoldsAStep, InStep
<1>N. FilesNamed'
  <2>1. /\ DOMAIN disk' = DOMAIN disk \cup {g} /\ g \in [base : Bases, step : Nat]
        /\ FilesNamed
    BY <1>1 DEF StepInv, CountsInv, FilesInv
  <2> HIDE DEF g
  <2> QED BY <2>1, FS_AddElement DEF FilesNamed
<1>3. ASSUME NEW f \in DOMAIN disk' PROVE FileHoldsItsStep(f)'
  <2>1. CASE f = g
    <3>1. disk'[f] = c /\ f.step = gstep
      BY <1>1, <2>1
    <3> QED BY <1>1, <3>1 DEF FileHoldsItsStep, StepInv, CountsInv, StepsBounded, Fields, InStep
  <2>2. CASE f # g
    <3>1. f \in DOMAIN disk /\ disk'[f] = disk[f]
      BY <1>1, <2>2
    <3> QED BY <1>1, <3>1 DEF FileHoldsItsStep, StepInv, FilesInv, InStep
  <2> QED BY <2>1, <2>2
<1> QED BY <1>2, <1>E, <1>N, <1>3 DEF StepInv, FilesInv

(* Completing a file and removing others changes no counter of a file.      *)
LEMMA WrittenKeeps ==
  ASSUME StepInv, Written
  PROVE  StepInv'
PROOF
<1> DEFINE full == [disk EXCEPT ![target].whole = TRUE]
           kept == DOMAIN full \ Surplus(Files(target.base), KeepLastN)
<1>1. /\ job' = job /\ runs' = runs /\ iteration' = iteration
      /\ gstep' = gstep /\ sched' = sched /\ sftBest' = sftBest /\ bare' = bare
      /\ phase = "write" /\ phase' \in {"save", "next", "export", "done"}
      /\ disk' = [f \in kept |-> full[f]]
  <2>1. AfterEvaluation(gstep) \in {"save", "next"}
    BY DEF AfterEvaluation
  <2>2. target.base \in {"checkpoint", "checkpoint_best", "checkpoint_final"}
    BY DEF Written, StepInv, CountsInv, Bases
  <2>3. phase' \in {"save", "next", "export", "done"}
    BY <2>1, <2>2 DEF Written
  <2> QED BY <2>3 DEF Written
<1>2. CountsInv'
  BY <1>1 DEF StepInv, CountsInv, StepsBounded, Ended, InStep
<1>E. ExportHoldsAStep'
  BY <1>1 DEF StepInv, FilesInv, ExportHoldsAStep, InStep
<1>N. FilesNamed'
  <2>1. DOMAIN disk' = kept /\ FilesNamed
    BY <1>1 DEF StepInv, FilesInv
  <2>2. kept \in SUBSET DOMAIN disk
    OBVIOUS
  <2> HIDE DEF kept
  <2> QED BY <2>1, <2>2, FS_Subset DEF FilesNamed
<1>3. ASSUME NEW f \in DOMAIN disk' PROVE FileHoldsItsStep(f)'
  <2>1. f \in DOMAIN disk /\ disk'[f] = full[f]
    <3> DEFINE removed == Surplus(Files(target.base), KeepLastN)
    <3> HIDE DEF removed
    <3>1. f \in kept /\ kept = DOMAIN full \ removed
      BY <1>1 DEF removed
    <3>2. DOMAIN full = DOMAIN disk
      OBVIOUS
    <3> QED BY <1>1, <3>1, <3>2
  <2>2. FileHoldsItsStep(f)
    BY <2>1 DEF StepInv, FilesInv
  <2>3. CASE f = target
    <3>1. full[f] = [disk[f] EXCEPT !.whole = TRUE]
      BY <2>1, <2>3
    <3>2. DOMAIN full[f] = Fields /\ full[f].gstep = disk[f].gstep
          /\ full[f].sched = disk[f].sched
      BY <2>2, <3>1 DEF FileHoldsItsStep, Fields
    <3> QED BY <1>1, <2>1, <2>2, <3>2 DEF FileHoldsItsStep, InStep
  <2>4. CASE f # target
    <3>1. full[f] = disk[f]
      BY <2>1, <2>4
    <3> QED BY <1>1, <2>1, <2>2, <3>1 DEF FileHoldsItsStep, InStep
  <2> QED BY <2>3, <2>4
<1> QED BY <1>2, <1>E, <1>N, <1>3 DEF StepInv, FilesInv

(* Every action, and stuttering, keeps the invariant.                       *)
LEMMA StepKept == StepInv /\ [Next]_vars => StepInv'
PROOF
<1> SUFFICES ASSUME StepInv, [Next]_vars PROVE StepInv'
  OBVIOUS
<1>J. /\ job \in Jobs /\ runs \in Nat /\ iteration \in Nat /\ gstep \in Nat
      /\ job.maxSteps \in Nat \ {0} /\ job.iterations \in Nat \ {0}
      /\ bare \in BOOLEAN
  BY JobFacts DEF StepInv, CountsInv
<1>A. \A n : AfterEvaluation(n) \in {"save", "next"}
  BY DEF AfterEvaluation
<1>B. \A n : AfterStep(n) \in {"evaluate", "save", "next"}
  BY <1>A DEF AfterStep
<1>1. CASE Begin
  <2>1. 0 <= job.maxSteps + runs - 1 /\ Launch(0, 0, 0) /\ bare' = bare
    BY <1>1, <1>J DEF Begin
  <2> QED BY <1>J, <2>1, LaunchKeeps
<1>2. CASE \E f \in DOMAIN disk : Resume(f)
  <2>1. PICK f \in DOMAIN disk : GoOnFrom(disk[f])
    BY <1>2 DEF Resume
  <2>2. FileHoldsItsStep(f)
    BY DEF StepInv, FilesInv
  <2>3. "sched" \in DOMAIN disk[f]
    BY <2>2 DEF FileHoldsItsStep, Fields
  <2> QED BY <1>J, <2>1, <2>2, <2>3, GoOnKeeps DEF FileHoldsItsStep
<1>R. CASE ResumeExported
  <2>1. GoOnFrom(sftBest) /\ sftBest # None
    BY <1>R DEF ResumeExported
  <2>2. ExportHoldsAStep
    BY DEF StepInv, FilesInv
  <2> QED BY <1>J, <2>1, <2>2, GoOnKeeps DEF ExportHoldsAStep
<1>3. CASE DryRun
  <2>1. CountsInv'
    BY <1>3 DEF DryRun, StepInv, CountsInv, StepsBounded, InStep, Ended
  <2>2. FilesInv'
    BY <1>3, <1>J, FilesKept DEF DryRun
  <2> QED BY <2>1, <2>2 DEF StepInv
<1>4. CASE Accumulate
  <2>1. CountsInv'
    BY <1>4 DEF Accumulate, StepInv, CountsInv, StepsBounded, InStep, Ended
  <2>2. FilesInv'
    BY <1>4, <1>J, FilesKept DEF Accumulate
  <2> QED BY <2>1, <2>2 DEF StepInv
<1>5. CASE OptimizerStep
  <2>1. /\ job' = job /\ runs' = runs /\ iteration' = iteration /\ disk' = disk
        /\ sftBest' = sftBest /\ bare' = bare
        /\ gstep' = gstep + 1 /\ sched' = sched + 1 /\ phase = "batch"
        /\ phase' \in {"evaluate", "save", "next"}
    BY <1>5, <1>B DEF OptimizerStep
  <2>2. CountsInv'
    BY <2>1, <1>J DEF StepInv, CountsInv, StepsBounded, InStep, Ended
  <2>3. FilesInv'
    BY <2>1, <1>J, FilesKept
  <2> QED BY <2>2, <2>3 DEF StepInv
<1>6. CASE NextBatch
  <2>1. /\ job' = job /\ runs' = runs /\ iteration' = iteration /\ disk' = disk
        /\ sftBest' = sftBest /\ bare' = bare
        /\ gstep' = gstep /\ sched' = sched /\ phase = "next"
        /\ phase' = "batch" /\ gstep < job.maxSteps
    BY <1>6, <1>J DEF NextBatch, Reached
  <2>2. CountsInv'
    BY <2>1, <1>J DEF StepInv, CountsInv, StepsBounded, InStep, Ended
  <2>3. FilesInv'
    BY <2>1, <1>J, FilesKept
  <2> QED BY <2>2, <2>3 DEF StepInv
<1>7. CASE EndEpoch
  <2>1. /\ job' = job /\ runs' = runs /\ iteration' = iteration /\ disk' = disk
        /\ sftBest' = sftBest /\ bare' = bare
        /\ gstep' = gstep /\ sched' = sched /\ phase \in {"batch", "next"}
        /\ phase' \in {"batch", "ended"}
        /\ phase = "next" => phase' = "ended"
    BY <1>7 DEF EndEpoch
  <2>2. CountsInv'
    BY <2>1, <1>J DEF StepInv, CountsInv, StepsBounded, InStep, Ended
  <2>3. FilesInv'
    BY <2>1, <1>J, FilesKept
  <2> QED BY <2>2, <2>3 DEF StepInv
<1>8. CASE EndIteration
  <2>1. /\ job' = job /\ runs' = runs /\ disk' = disk /\ sched' = sched
        /\ sftBest' = sftBest /\ bare' = bare
        /\ phase = "ended"
    BY <1>8 DEF EndIteration
  <2>2. CASE iteration + 1 < job.iterations
    <3>1. /\ iteration' = iteration + 1 /\ phase' \in {"batch", "ended"}
          /\ job.iterations # 1
          /\ gstep' \in Nat /\ gstep' < job.maxSteps
      BY <1>8, <1>J, <2>2 DEF EndIteration, Enter, Reached
    <3>2. CountsInv'
      BY <2>1, <3>1, <1>J DEF StepInv, CountsInv, StepsBounded, InStep, Ended
    <3> QED BY <2>1, <3>2, <1>J, FilesKept DEF StepInv
  <2>3. CASE ~(iteration + 1 < job.iterations)
    <3>1. iteration' = iteration /\ gstep' = gstep /\ phase' = "final"
      BY <1>8, <2>3 DEF EndIteration
    <3>2. CountsInv'
      BY <2>1, <3>1, <1>J DEF StepInv, CountsInv, StepsBounded, InStep, Ended
    <3> QED BY <2>1, <3>2, <1>J, FilesKept DEF StepInv
  <2> QED BY <2>2, <2>3
<1>9. CASE \E loss \in Losses : Evaluate(loss)
  <2>1. PICK loss \in Losses : Evaluate(loss)
    BY <1>9
  <2>2. CASE StartWriting("checkpoint_best", epoch)
    BY <2>1, <2>2, StartWritingKeeps DEF Evaluate, Bases, Ended
  <2>3. CASE ~Improves(loss)
    <3>1. /\ job' = job /\ runs' = runs /\ iteration' = iteration /\ disk' = disk
        /\ sftBest' = sftBest /\ bare' = bare
          /\ gstep' = gstep /\ sched' = sched /\ phase = "evaluate"
          /\ phase' \in {"save", "next"}
      BY <2>1, <2>3, <1>A DEF Evaluate
    <3>2. CountsInv'
      BY <3>1, <1>J DEF StepInv, CountsInv, StepsBounded, InStep, Ended
    <3> QED BY <3>1, <3>2, <1>J, FilesKept DEF StepInv
  <2> QED BY <2>1, <2>2, <2>3 DEF Evaluate
<1>10. CASE Save
  BY <1>10, StartWritingKeeps DEF Save, Bases, Ended
<1>11. CASE SaveFinal
  BY <1>11, StartWritingKeeps DEF SaveFinal, Bases, Ended
<1>12. CASE Written
  BY <1>12, WrittenKeeps
<1>13. CASE Export
  <2>1. /\ job' = job /\ runs' = runs /\ iteration' = iteration /\ disk' = disk
        /\ gstep' = gstep /\ sched' = sched /\ phase = "export" /\ phase' = "done"
        /\ bare' = bare
    BY <1>13 DEF Export
  <2>2. CountsInv'
    BY <2>1, <1>J DEF StepInv, CountsInv, StepsBounded, InStep, Ended
  <2>3. ExportHoldsAStep'
    <3>1. CASE Files("checkpoint_best") = {}
      <4>1. sftBest' = Weights(TRUE)
        BY <1>13, <3>1 DEF Export
      <4> QED BY <2>1, <4>1, WeightsHold
    <3>2. CASE Files("checkpoint_best") # {}
      <4> DEFINE f == LastByName(Files("checkpoint_best"))
      <4>1. sftBest' = disk[f]
        BY <1>13, <3>2 DEF Export
      <4>2. f \in DOMAIN disk
        BY <3>2, NamedFiles, LastIsOneOfThem DEF StepInv, FilesInv
      <4> HIDE DEF f
      <4> QED BY <2>1, <4>1, <4>2, CopyHolds
    <3> QED BY <3>1, <3>2
  <2> QED BY <2>1, <2>2, <2>3, <1>J, FilesKept DEF StepInv
<1>14. CASE Crash
  <2>1. /\ job' = job /\ runs' = runs /\ iteration' = 0 /\ disk' = disk
        /\ gstep' = 0 /\ sched' = 0 /\ phase' = "down" /\ bare' = bare
    BY <1>14 DEF Crash, Idle
  <2>2. CountsInv'
    BY <2>1, <1>J DEF StepInv, CountsInv, StepsBounded, InStep, Ended
  <2>3. sftBest' = sftBest \/ ExportHoldsAStep'
    BY <1>14, <2>1, WeightsHold DEF Crash
  <2> QED BY <2>1, <2>2, <2>3, <1>J, FilesKept DEF StepInv
<1>15. CASE UNCHANGED vars
  BY <1>15 DEF vars, StepInv, CountsInv, FilesInv, FileHoldsItsStep, StepsBounded,
               ExportHoldsAStep, FilesNamed, InStep
<1> QED
  BY <1>1, <1>2, <1>R, <1>3, <1>4, <1>5, <1>6, <1>7, <1>8, <1>9, <1>10, <1>11,
     <1>12, <1>13, <1>14, <1>15 DEF Next, Train

LEMMA StepInvariant == Spec => []StepInv
PROOF
<1>1. Init => StepInv
  BY StepInit
<1>2. StepInv /\ [Next]_vars => StepInv'
  BY StepKept
<1> QED BY <1>1, <1>2, PTL DEF Spec

(* A file is named after the step it holds, and in the process and in every *)
(* checkpoint the scheduler is never ahead of the step counter; they are    *)
(* equal, over crashes, fresh starts and resumptions, until a process goes  *)
(* on from a sft_best.pt of weights alone (save_checkpoint and              *)
(* load_checkpoint of train_utils.py, the last lines of sft_train.py).      *)
THEOREM TrainingCounters == Spec => []CountersAgree
PROOF
<1>1. StepInv => CountersAgree
  BY DEF StepInv, CountsInv, FilesInv, FileHoldsItsStep, CountersAgree
<1> QED BY <1>1, StepInvariant, PTL

(* However often a run is killed or resumed, max_steps is passed by at most *)
(* one step for each resumption: a loop that is entered at its limit takes  *)
(* one step before it looks (the tests of max_steps follow the step).       *)
THEOREM TrainingSteps == Spec => []StepsBounded
PROOF
<1>1. StepInv => StepsBounded
  BY DEF StepInv, CountsInv
<1> QED BY <1>1, StepInvariant, PTL

-----------------------------------------------------------------------------
(* The strengthening for the gradient.  Of the batches of this epoch it     *)
(* holds those since the last boundary.  sft_train.py, which does not clear *)
(* it, holds besides, up to the first boundary, what the last epoch left;   *)
(* if an epoch is shorter than a window it only adds up, and never steps.   *)
CarriedOver ==
  /\ job.script = "sft"
  /\ \/ job.batches < job.accum
     \/ batch < job.accum /\ grad = batch + (job.batches % job.accum)

WindowInv ==
  /\ job \in Jobs /\ gstep \in Nat
  /\ batch \in Nat /\ batch <= job.batches /\ grad \in Nat
  /\ grad = batch % job.accum \/ CarriedOver

LEMMA WindowStart ==
  ASSUME job \in Jobs, batch = 0, grad = 0, gstep \in Nat
  PROVE  WindowInv
PROOF
<1>1. job.accum \in Nat \ {0} /\ job.batches \in Nat
  BY JobFacts
<1>2. 0 % job.accum = 0
  BY <1>1, RemainderSmall
<1> QED BY <1>1, <1>2 DEF WindowInv

(* A completed window holds its accum batches, and what was carried over.   *)
LEMMA WindowComplete ==
  ASSUME WindowInv, HasBatch, Boundary(batch + 1)
  PROVE  \/ grad + 1 = job.accum
         \/ job.script = "sft" /\ grad + 1 = job.accum + (job.batches % job.accum)
PROOF
<1>1. /\ job.accum \in Nat \ {0} /\ job.batches \in Nat \ {0}
      /\ batch \in Nat /\ batch < job.batches
  BY JobFacts DEF WindowInv, HasBatch
<1>2. (batch + 1) % job.accum = 0
  BY DEF Boundary
<1>3. (batch % job.accum) + 1 = job.accum
  BY <1>1, <1>2, RemainderStep
<1>4. ~(batch + 1 < job.accum)
  BY <1>1, <1>2, RemainderSmall
<1>5. CASE grad = batch % job.accum
  BY <1>3, <1>5
<1>6. CASE CarriedOver
  <2>1. ~(job.batches < job.accum)
    BY <1>1, <1>4
  <2>2. batch < job.accum /\ grad = batch + (job.batches % job.accum)
    BY <1>6, <2>1 DEF CarriedOver
  <2> DEFINE a == job.accum
             rest == job.batches % job.accum
  <2>3. a \in Nat \ {0} /\ rest \in Nat
    BY <1>1, RemainderStep
  <2>4. batch < a /\ ~(batch + 1 < a) /\ grad = batch + rest /\ batch \in Nat
    BY <1>1, <1>4, <2>2
  <2> HIDE DEF a, rest
  <2>5. grad + 1 = a + rest
    BY <2>3, <2>4
  <2> QED BY <1>6, <2>5 DEF CarriedOver, a, rest
<1> QED BY <1>5, <1>6 DEF WindowInv

LEMMA AccumulateKeepsWindow ==
  ASSUME WindowInv, Accumulate
  PROVE  WindowInv'
PROOF
<1>1. /\ job' = job /\ gstep' = gstep /\ batch' = batch + 1 /\ grad' = grad + 1
      /\ batch < job.batches /\ (batch + 1) % job.accum # 0
  BY DEF Accumulate, HasBatch, Boundary
<1>2. /\ job.accum \in Nat \ {0} /\ job.batches \in Nat \ {0}
      /\ batch \in Nat /\ grad \in Nat /\ gstep \in Nat /\ job \in Jobs
  BY JobFacts DEF WindowInv
<1>3. CASE grad = batch % job.accum
  <2>1. grad' = batch' % job.accum
    BY <1>1, <1>2, <1>3, RemainderStep
  <2> QED BY <1>1, <1>2, <2>1 DEF WindowInv
<1>4. CASE CarriedOver
  <2>1. batch + 1 # job.accum
    BY <1>1, <1>2, RemainderSmall
  <2>2. job.batches % job.accum \in Nat
    BY <1>2, RemainderStep
  <2> DEFINE a == job.accum
             rest == job.batches % job.accum
  <2>3. a \in Nat \ {0} /\ rest \in Nat /\ batch + 1 # a
    BY <1>2, <2>1, <2>2
  <2>4. job.batches < a \/ (batch < a /\ grad = batch + rest)
    BY <1>4 DEF CarriedOver
  <2>5. a' = a /\ rest' = rest /\ job.script = "sft"
    BY <1>1, <1>4 DEF CarriedOver
  <2> HIDE DEF a, rest
  <2>6. job.batches < a \/ (batch' < a /\ grad' = batch' + rest)
    BY <1>1, <1>2, <2>3, <2>4
  <2>7. CarriedOver'
    BY <1>1, <2>5, <2>6 DEF CarriedOver, a, rest
  <2> QED BY <1>1, <1>2, <2>7 DEF WindowInv
<1> QED BY <1>3, <1>4 DEF WindowInv

LEMMA OptimizerKeepsWindow ==
  ASSUME WindowInv, OptimizerStep
  PROVE  WindowInv'
PROOF
<1>1. /\ job' = job /\ gstep' = gstep + 1 /\ batch' = batch + 1 /\ grad' = 0
      /\ batch < job.batches /\ (batch + 1) % job.accum = 0
  BY DEF OptimizerStep, HasBatch, Boundary
<1>2. job.batches \in Nat /\ batch \in Nat /\ gstep \in Nat /\ job \in Jobs
  BY JobFacts DEF WindowInv
<1> QED BY <1>1, <1>2 DEF WindowInv

(* The rest of an epoch is cleared, or carried over by sft_train.py.        *)
LEMMA EpochKeepsWindow ==
  ASSUME WindowInv, EndEpoch
  PROVE  WindowInv'
PROOF
<1>1. job' = job /\ gstep' = gstep
  BY DEF EndEpoch
<1>2. /\ job.accum \in Nat \ {0} /\ job.batches \in Nat \ {0}
      /\ batch \in Nat /\ grad \in Nat /\ gstep \in Nat /\ job \in Jobs
  BY JobFacts DEF WindowInv
<1>3. CASE Reached \/ epoch + 1 >= EpochLimit
  <2>1. batch' = batch /\ grad' = grad
    BY <1>3 DEF EndEpoch
  <2> QED BY <1>1, <2>1 DEF WindowInv, CarriedOver
<1>4. CASE ~(Reached \/ epoch + 1 >= EpochLimit)
  <2>1. /\ batch' = 0 /\ grad' = GradientOfNewEpoch
        /\ ~HasBatch
    BY <1>4 DEF EndEpoch
  <2>2. batch = job.batches
    BY <1>2, <2>1 DEF WindowInv, HasBatch
  <2>3. 0 % job.accum = 0
    BY <1>2, RemainderSmall
  <2>4. CASE job.script # "sft"
    <3>1. grad' = 0
      BY <2>1, <2>4 DEF GradientOfNewEpoch
    <3> QED BY <1>1, <1>2, <2>1, <2>3, <3>1 DEF WindowInv
  <2>5. CASE job.script = "sft"
    <3>1. grad' = grad
      BY <2>1, <2>5 DEF GradientOfNewEpoch
    <3>2. grad = job.batches % job.accum \/ job.batches < job.accum
      BY <1>2, <2>2 DEF WindowInv, CarriedOver
    <3>3. CarriedOver'
      BY <1>1, <1>2, <2>1, <2>5, <3>1, <3>2 DEF CarriedOver
    <3> QED BY <1>1, <1>2, <2>1, <3>1, <3>3 DEF WindowInv
  <2> QED BY <2>4, <2>5
<1> QED BY <1>3, <1>4

(* Each step keeps the invariant; the steps of WindowKept that touch        *)
(* neither batch nor gradient need that a file stores a natural step only.  *)
LEMMA WindowKept == StepInv /\ StepInv' /\ WindowInv /\ [Next]_vars => WindowInv'
PROOF
<1> SUFFICES ASSUME StepInv, StepInv', WindowInv, [Next]_vars PROVE WindowInv'
  OBVIOUS
<1>J. job' \in Jobs /\ gstep' \in Nat
  BY DEF StepInv, CountsInv
<1>A. ASSUME job' = job, batch' = batch, grad' = grad PROVE WindowInv'
  BY <1>J, <1>A DEF WindowInv, CarriedOver
<1>B. ASSUME batch' = 0, grad' = 0 PROVE WindowInv'
  <2>1. job'.accum \in Nat \ {0} /\ job'.batches \in Nat
    BY <1>J, JobsAssumption DEF Job
  <2>2. 0 % job'.accum = 0
    BY <2>1, RemainderSmall
  <2> QED BY <1>J, <1>B, <2>1, <2>2 DEF WindowInv
<1>1. CASE Begin
  BY <1>1, <1>B DEF Begin, Launch
<1>2. CASE \E f \in DOMAIN disk : Resume(f)
  BY <1>2, <1>B DEF Resume, GoOnFrom, Launch
<1>R. CASE ResumeExported
  BY <1>R, <1>B DEF ResumeExported, GoOnFrom, Launch
<1>3. CASE DryRun
  BY <1>3, <1>A DEF DryRun
<1>4. CASE Accumulate
  BY <1>4, AccumulateKeepsWindow
<1>5. CASE OptimizerStep
  BY <1>5, OptimizerKeepsWindow
<1>6. CASE NextBatch
  BY <1>6, <1>A DEF NextBatch
<1>7. CASE EndEpoch
  BY <1>7, EpochKeepsWindow
<1>8. CASE EndIteration
  <2>1. job' = job
    BY <1>8 DEF EndIteration
  <2> QED BY <1>8, <2>1, <1>A, <1>B DEF EndIteration
<1>9. CASE \E loss \in Losses : Evaluate(loss)
  BY <1>9, <1>A DEF Evaluate, StartWriting
<1>10. CASE Save
  BY <1>10, <1>A DEF Save, StartWriting
<1>11. CASE SaveFinal
  BY <1>11, <1>A DEF SaveFinal, StartWriting
<1>12. CASE Written
  BY <1>12, <1>A DEF Written
<1>13. CASE Export
  BY <1>13, <1>A DEF Export
<1>14. CASE Crash
  BY <1>14, <1>B DEF Crash, Idle
<1>15. CASE UNCHANGED vars
  BY <1>15, <1>A DEF vars
<1> QED
  BY <1>1, <1>2, <1>R, <1>3, <1>4, <1>5, <1>6, <1>7, <1>8, <1>9, <1>10, <1>11,
     <1>12, <1>13, <1>14, <1>15 DEF Next, Train

(* A step from phase batch that counts is OptimizerStep.                    *)
LEMMA CountingSteps ==
  ASSUME StepInv, [Next]_vars, phase = "batch", gstep' = gstep + 1
  PROVE  OptimizerStep
PROOF
<1>1. gstep \in Nat /\ gstep' # gstep /\ gstep' # 0
  BY DEF StepInv, CountsInv
<1>2. phase \notin Ended
  BY DEF Ended
<1>3. ~Begin /\ ~DryRun /\ ~ResumeExported /\ ~(\E f \in DOMAIN disk : Resume(f))
  BY <1>2 DEF Begin, Resume, ResumeExported, GoOnFrom, Launch, DryRun
<1>4. ~Accumulate /\ ~NextBatch /\ ~EndEpoch /\ ~EndIteration /\ ~Export
  BY <1>1 DEF Accumulate, NextBatch, EndEpoch, EndIteration, Export
<1>5. ~Save /\ ~SaveFinal /\ ~Written /\ ~(\E loss \in Losses : Evaluate(loss))
  BY DEF Save, SaveFinal, Written, Evaluate
<1>6. ~Crash /\ ~UNCHANGED vars
  BY <1>1 DEF Crash, Idle, vars
<1> QED BY <1>3, <1>4, <1>5, <1>6 DEF Next, Train

(* An optimizer step takes the gradient of exactly one window, whatever     *)
(* crashes and resumptions came before; only sft_train.py adds the rest of  *)
(* the last epoch to an epoch's first window.                               *)
THEOREM TrainingWindows == Spec => WholeWindows
PROOF
<1> DEFINE Whole == phase = "batch" /\ gstep' = gstep + 1 =>
             \/ grad + 1 = job.accum
             \/ job.script = "sft" /\ grad + 1 = job.accum + (job.batches % job.accum)
<1>1. Init => WindowInv
  BY WindowStart DEF Init
<1>2. StepInv /\ StepInv' /\ WindowInv /\ [Next]_vars => WindowInv'
  BY WindowKept
<1>3. StepInv /\ WindowInv /\ [Next]_vars => [Whole]_vars
  <2> SUFFICES ASSUME StepInv, WindowInv, [Next]_vars,
                      phase = "batch", gstep' = gstep + 1
               PROVE  \/ grad + 1 = job.accum
                      \/ job.script = "sft"
                         /\ grad + 1 = job.accum + (job.batches % job.accum)
    OBVIOUS
  <2>1. OptimizerStep
    BY CountingSteps
  <2> QED BY <2>1, WindowComplete DEF OptimizerStep
<1> HIDE DEF Whole
<1>4. Spec => [][Whole]_vars
  BY <1>1, <1>2, <1>3, StepInvariant, PTL DEF Spec
<1> QED BY <1>4 DEF WholeWindows, Whole

-----------------------------------------------------------------------------
(* The strengthening for the directory.  A process that is between two     *)
(* saves has cleaned up after itself: of the runs files that may be there  *)
(* beyond those kept, its own counts only while it is being written.       *)
KeptOf(b) == IF job.script # "sft" /\ b = "checkpoint" THEN job.keep ELSE 5

Beyond(b) == IF phase \in Ended \/ (phase = "write" /\ target.base = b)
             THEN runs ELSE runs - 1

NamesInv ==
  /\ IsFiniteSet(DOMAIN disk) /\ DOMAIN disk \subseteq [base : Bases, step : Nat]
  /\ runs = 0 => DOMAIN disk = {}
  /\ phase = "write" => target \in DOMAIN disk
  /\ sched \in Nat /\ \A f \in DOMAIN disk : disk[f].sched \in Nat

RoomInv == \A b \in Bases : Cardinality(Files(b)) <= KeptOf(b) + Beyond(b)

DirInv == NamesInv /\ RoomInv

LEMMA FilesOfBase ==
  ASSUME NamesInv, NEW b
  PROVE  /\ Named(Files(b)) /\ Cardinality(Files(b)) \in Nat
         /\ Files(b) \subseteq DOMAIN disk
BY NamedFiles DEF NamesInv, FilesNamed

LEMMA KeptType ==
  ASSUME job \in Jobs, NEW b
  PROVE  KeptOf(b) \in Nat \ {0}
BY JobsAssumption DEF Job, KeptOf

(* The actions that leave the files alone.                                 *)
Quiet ==
  /\ disk' = disk /\ job' = job /\ runs' = runs
  /\ phase \in Ended => phase' \in Ended
  /\ phase' = "write" => phase = "write" /\ target' = target
  /\ phase = "write" => phase' \in {"write", "down"}
  /\ sched' \in {0, sched, sched + 1}

LEMMA StepKinds ==
  ASSUME StepInv, [Next]_vars
  PROVE  \/ Begin \/ ResumeExported \/ (\E f \in DOMAIN disk : Resume(f))
         \/ \E b \in Bases, e \in {epoch, start} :
               StartWriting(b, e) /\ phase \in {"evaluate", "save", "final"}
         \/ Written
         \/ Quiet
PROOF
<1>A. \A n : AfterEvaluation(n) \in {"save", "next"}
  BY DEF AfterEvaluation
<1>B. \A n : AfterStep(n) \in {"evaluate", "save", "next"}
  BY <1>A DEF AfterStep
<1>1. CASE DryRun
  BY <1>1 DEF DryRun, Quiet, Ended
<1>2. CASE Accumulate
  BY <1>2 DEF Accumulate, Quiet, Ended
<1>3. CASE OptimizerStep
  <2>1. phase = "batch" /\ phase' \in {"evaluate", "save", "next"}
    BY <1>3, <1>B DEF OptimizerStep
  <2> QED BY <1>3, <2>1 DEF OptimizerStep, Quiet, Ended
<1>4. CASE NextBatch
  BY <1>4 DEF NextBatch, Quiet, Ended
<1>5. CASE EndEpoch
  <2>1. phase \in {"batch", "next"} /\ phase' \in {"batch", "ended"}
    BY <1>5 DEF EndEpoch
  <2> QED BY <1>5, <2>1 DEF EndEpoch, Quiet, Ended
<1>6. CASE EndIteration
  <2>1. phase = "ended" /\ phase' \in {"batch", "ended", "final"}
    BY <1>6 DEF EndIteration, Enter
  <2> QED BY <1>6, <2>1 DEF EndIteration, Quiet, Ended
<1>7. CASE \E loss \in Losses : Evaluate(loss)
  <2>1. PICK loss \in Losses : Evaluate(loss)
    BY <1>7
  <2>2. CASE StartWriting("checkpoint_best", epoch)
    BY <2>1, <2>2 DEF Evaluate, Bases
  <2>3. CASE ~Improves(loss)
    <3>1. phase = "evaluate" /\ phase' \in {"save", "next"}
      BY <2>1, <2>3, <1>A DEF Evaluate
    <3> QED BY <2>1, <2>3, <3>1 DEF Evaluate, Quiet, Ended
  <2> QED BY <2>1, <2>2, <2>3 DEF Evaluate
<1>8. CASE Save
  BY <1>8 DEF Save, Bases
<1>9. CASE SaveFinal
  BY <1>9 DEF SaveFinal, Bases
<1>10. CASE Export
  BY <1>10 DEF Export, Quiet, Ended
<1>11. CASE Crash
  BY <1>11 DEF Crash, Idle, Quiet, Ended
<1>12. CASE UNCHANGED vars
  BY <1>12 DEF vars, Quiet
<1> QED
  BY <1>1, <1>2, <1>3, <1>4, <1>5, <1>6, <1>7, <1>8, <1>9, <1>10, <1>11,
     <1>12 DEF Next, Train

LEMMA DirInit == Init => DirInv
PROOF
<1> SUFFICES ASSUME Init PROVE DirInv
  OBVIOUS
<1>1. DOMAIN disk = {} /\ job \in Jobs /\ runs = 0 /\ phase = "down" /\ sched = 0
  BY DEF Init
<1>2. NamesInv
  BY <1>1, FS_EmptySet DEF NamesInv
<1>3. ASSUME NEW b \in Bases PROVE Cardinality(Files(b)) <= KeptOf(b) + Beyond(b)
  <2>1. Files(b) = {} /\ Beyond(b) = 0 /\ KeptOf(b) \in Nat
    BY <1>1, KeptType DEF Files, Beyond, Ended
  <2> QED BY <2>1, FS_EmptySet
<1> QED BY <1>2, <1>3 DEF DirInv, RoomInv

LEMMA LaunchKeepsDir ==
  ASSUME StepInv, DirInv, NEW e, NEW n, NEW l \in Nat, Launch(e, n, l)
  PROVE  DirInv'
PROOF
<1>1. /\ job' = job /\ disk' = disk /\ runs' = runs + 1 /\ sched' = l /\ phase \in Ended
      /\ phase' # "write"
  BY DEF Launch, Enter
<1>2. job \in Jobs /\ runs \in Nat
  BY DEF StepInv, CountsInv
<1>3. NamesInv'
  BY <1>1, <1>2 DEF DirInv, NamesInv
<1>4. ASSUME NEW b \in Bases PROVE (Cardinality(Files(b)) <= KeptOf(b) + Beyond(b))'
  <2>1. Files(b)' = Files(b) /\ KeptOf(b)' = KeptOf(b)
    BY <1>1 DEF Files, KeptOf
  <2>2. Beyond(b) = runs /\ Beyond(b)' \in {runs, runs + 1}
    BY <1>1, <1>2 DEF Beyond
  <2>3. Cardinality(Files(b)) <= KeptOf(b) + Beyond(b)
    BY DEF DirInv, RoomInv
  <2>4. Cardinality(Files(b)) \in Nat /\ KeptOf(b) \in Nat
    BY <1>2, FilesOfBase, KeptType DEF DirInv
  <2>5. Cardinality(Files(b)) <= KeptOf(b) + Beyond(b)'
    BY <1>2, <2>2, <2>3, <2>4
  <2> QED BY <2>1, <2>5
<1> QED BY <1>3, <1>4 DEF DirInv, RoomInv

LEMMA GoOnKeepsDir ==
  ASSUME StepInv, DirInv, NEW c, GoOnFrom(c), Entry(c, "sched") \in Nat
  PROVE  DirInv'
PROOF
<1> DEFINE r == Restored(c)
<1>1. Launch(r[1], r[2], r[3]) /\ r[3] \in Nat
  BY DEF GoOnFrom, Restored
<1> HIDE DEF r
<1> QED BY <1>1, LaunchKeepsDir

LEMMA QuietKeepsDir ==
  ASSUME StepInv, DirInv, Quiet
  PROVE  DirInv'
PROOF
<1>1. /\ job' = job /\ disk' = disk /\ runs' = runs /\ sched' \in {0, sched, sched + 1}
  BY DEF Quiet
<1>2. job \in Jobs /\ runs \in Nat
  BY DEF StepInv, CountsInv
<1>3. NamesInv'
  BY <1>1, <1>2 DEF DirInv, NamesInv, Quiet
<1>4. ASSUME NEW b \in Bases PROVE (Cardinality(Files(b)) <= KeptOf(b) + Beyond(b))'
  <2>1. Files(b)' = Files(b) /\ KeptOf(b)' = KeptOf(b)
    BY <1>1 DEF Files, KeptOf
  <2>2. Beyond(b) \in {runs, runs - 1} /\ (Beyond(b)' = Beyond(b) \/ Beyond(b)' = runs)
    BY <1>1, <1>2 DEF Beyond, Quiet, Ended
  <2>3. Cardinality(Files(b)) <= KeptOf(b) + Beyond(b)
    BY DEF DirInv, RoomInv
  <2>4. Cardinality(Files(b)) \in Nat /\ KeptOf(b) \in Nat
    BY <1>2, FilesOfBase, KeptType DEF DirInv
  <2>5. Cardinality(Files(b)) <= KeptOf(b) + Beyond(b)'
    BY <1>2, <2>2, <2>3, <2>4
  <2> QED BY <2>1, <2>5
<1> QED BY <1>3, <1>4 DEF DirInv, RoomInv

(* A save adds at most one file to its base.                               *)
LEMMA StartWritingKeepsDir ==
  ASSUME StepInv, DirInv, NEW base \in Bases, NEW e, StartWriting(base, e),
         phase \in {"evaluate", "save", "final"}
  PROVE  DirInv'
PROOF
<1> DEFINE f == [base |-> base, step |-> gstep]
           c == [epoch |-> e, gstep |-> gstep, sched |-> sched,
                 loss |-> best', whole |-> FALSE]
<1>1. /\ job' = job /\ runs' = runs /\ sched' = sched /\ phase' = "write" /\ target' = f
      /\ disk' = [g \in DOMAIN disk \cup {f} |-> IF g = f THEN c ELSE disk[g]]
  BY DEF StartWriting
<1>2. job \in Jobs /\ runs \in Nat /\ gstep \in Nat /\ runs >= 1 /\ phase \notin Ended
  BY DEF StepInv, CountsInv, Ended
<1>3. f \in [base : Bases, step : Nat] /\ f.base = base /\ c.sched = sched
  BY <1>2
<1>4. DOMAIN disk' = DOMAIN disk \cup {f}
  BY <1>1
<1>5. ASSUME NEW g \in DOMAIN disk' PROVE disk'[g].sched \in Nat
  <2>1. CASE g = f
    BY <1>1, <2>1 DEF DirInv, NamesInv
  <2>2. CASE g # f
    <3>1. g \in DOMAIN disk /\ disk'[g] = disk[g]
      BY <1>1, <2>2
    <3> QED BY <3>1 DEF DirInv, NamesInv
  <2> QED BY <2>1, <2>2
<1>6. NamesInv'
  <2>1. IsFiniteSet(DOMAIN disk \cup {f})
    BY FS_AddElement DEF DirInv, NamesInv
  <2> HIDE DEF f, c
  <2> QED BY <1>1, <1>2, <1>3, <1>4, <1>5, <2>1 DEF DirInv, NamesInv
<1> HIDE DEF f, c
<1>7. ASSUME NEW b \in Bases PROVE (Cardinality(Files(b)) <= KeptOf(b) + Beyond(b))'
  <2>1. KeptOf(b)' = KeptOf(b)
    BY <1>1 DEF KeptOf
  <2>2. Cardinality(Files(b)) \in Nat /\ KeptOf(b) \in Nat /\ IsFiniteSet(Files(b))
    BY <1>2, FilesOfBase, KeptType DEF DirInv, Named
  <2>3. Cardinality(Files(b)) <= KeptOf(b) + Beyond(b) /\ Beyond(b) = runs - 1
    BY <1>2 DEF DirInv, RoomInv, Beyond
  <2>4. CASE b = base
    <3>1. Files(b)' = Files(b) \cup {f}
      BY <1>3, <1>4, <2>4 DEF Files
    <3>2. /\ Cardinality(Files(b) \cup {f}) \in Nat
          /\ Cardinality(Files(b) \cup {f}) <= Cardinality(Files(b)) + 1
      <4>1. Cardinality(Files(b) \cup {f}) \in {Cardinality(Files(b)), Cardinality(Files(b)) + 1}
        BY <2>2, FS_AddElement
      <4> QED BY <2>2, <4>1
    <3>3. Beyond(b)' = runs
      BY <1>1, <1>3, <2>4 DEF Beyond
    <3>4. Cardinality(Files(b) \cup {f}) <= KeptOf(b) + runs
      BY <1>2, <2>2, <2>3, <3>2
    <3> QED BY <2>1, <3>1, <3>3, <3>4
  <2>5. CASE b # base
    <3>1. Files(b)' = Files(b)
      BY <1>3, <1>4, <2>5 DEF Files
    <3>2. Beyond(b)' = runs - 1
      BY <1>1, <1>3, <2>5 DEF Beyond, Ended
    <3> QED BY <2>1, <2>3, <3>1, <3>2
  <2> QED BY <2>4, <2>5
<1> QED BY <1>6, <1>7 DEF DirInv, RoomInv

(* What is on the disk when a save is complete.                            *)
LEMMA WrittenEffect ==
  ASSUME StepInv, DirInv, Written
  PROVE  /\ target.base \in Bases /\ target \in DOMAIN disk
         /\ KeepLastN = KeptOf(target.base)
         /\ DOMAIN disk' = DOMAIN disk \ Surplus(Files(target.base), KeepLastN)
         /\ \A g \in DOMAIN disk' :
              disk'[g] = IF g = target THEN [disk[g] EXCEPT !.whole = TRUE] ELSE disk[g]
         /\ job' = job /\ runs' = runs /\ sched' = sched /\ gstep' = gstep /\ best' = best
         /\ phase' \in {"save", "next", "export", "done"}
PROOF
<1> DEFINE full == [disk EXCEPT ![target].whole = TRUE]
           kept == DOMAIN full \ Surplus(Files(target.base), KeepLastN)
<1>1. /\ job' = job /\ runs' = runs /\ sched' = sched /\ gstep' = gstep /\ best' = best
      /\ disk' = [f \in kept |-> full[f]] /\ phase = "write"
  BY DEF Written
<1>2. target.base \in Bases /\ target \in DOMAIN disk
  BY <1>1 DEF StepInv, CountsInv, DirInv, NamesInv
<1>3. KeepLastN = KeptOf(target.base)
  BY DEF KeepLastN, KeptOf
<1>4. phase' \in {"save", "next", "export", "done"}
  <2>1. AfterEvaluation(gstep) \in {"save", "next"}
    BY DEF AfterEvaluation
  <2> QED BY <1>2, <2>1 DEF Written, Bases
<1>5. DOMAIN full = DOMAIN disk
  OBVIOUS
<1>6. \A g \in DOMAIN disk :
        full[g] = IF g = target THEN [disk[g] EXCEPT !.whole = TRUE] ELSE disk[g]
  BY <1>2
<1> HIDE DEF full
<1>7. DOMAIN disk' = DOMAIN disk \ Surplus(Files(target.base), KeepLastN)
  BY <1>1, <1>5
<1>8. \A g \in DOMAIN disk' : g \in DOMAIN disk /\ disk'[g] = full[g]
  BY <1>1, <1>5
<1> QED BY <1>1, <1>2, <1>3, <1>4, <1>6, <1>7, <1>8

LEMMA WrittenKeepsDir ==
  ASSUME StepInv, DirInv, Written
  PROVE  DirInv'
PROOF
<1> DEFINE gone == Surplus(Files(target.base), KeepLastN)
<1>1. /\ target.base \in Bases /\ target \in DOMAIN disk
      /\ KeepLastN = KeptOf(target.base)
      /\ DOMAIN disk' = DOMAIN disk \ gone
      /\ \A g \in DOMAIN disk' :
           disk'[g] = IF g = target THEN [disk[g] EXCEPT !.whole = TRUE] ELSE disk[g]
      /\ job' = job /\ runs' = runs /\ sched' = sched
      /\ phase' \in {"save", "next", "export", "done"}
  BY WrittenEffect
<1>2. job \in Jobs /\ runs \in Nat /\ runs >= 1 /\ phase = "write"
  BY DEF StepInv, CountsInv, Ended, Written
<1>3. gone \subseteq Files(target.base)
  BY DEF Surplus
<1>4. NamesInv'
  <2>1. DOMAIN disk' \in SUBSET DOMAIN disk
    BY <1>1
  <2>2. IsFiniteSet(DOMAIN disk')
    BY <2>1, FS_Subset DEF DirInv, NamesInv
  <2>3. ASSUME NEW g \in DOMAIN disk' PROVE disk'[g].sched \in Nat
    <3>1. g \in DOMAIN disk /\ disk[g].sched \in Nat /\ DOMAIN disk[g] = Fields
      BY <2>1 DEF DirInv, NamesInv, StepInv, FilesInv, FileHoldsItsStep
    <3>2. [disk[g] EXCEPT !.whole = TRUE].sched = disk[g].sched
      BY <3>1 DEF Fields
    <3> QED BY <1>1, <3>1, <3>2
  <2> QED BY <1>1, <1>2, <2>1, <2>2, <2>3 DEF DirInv, NamesInv
<1>5. ASSUME NEW b \in Bases PROVE (Cardinality(Files(b)) <= KeptOf(b) + Beyond(b))'
  <2>1. KeptOf(b)' = KeptOf(b) /\ KeptOf(b) \in Nat \ {0}
    BY <1>1, <1>2, KeptType DEF KeptOf
  <2>2. Named(Files(b)) /\ Cardinality(Files(b)) \in Nat
    BY FilesOfBase DEF DirInv
  <2>3. Cardinality(Files(b)) <= KeptOf(b) + Beyond(b)
    BY DEF DirInv, RoomInv
  <2>4. Beyond(b)' \in {runs, runs - 1}
    BY <1>1 DEF Beyond
  <2>5. CASE b = target.base
    <3>1. Files(b)' = Files(b) \ Surplus(Files(b), KeptOf(b))
      BY <1>1, <2>5 DEF Files
    <3>2. /\ Cardinality(Files(b) \ Surplus(Files(b), KeptOf(b))) \in Nat
          /\ Cardinality(Files(b) \ Surplus(Files(b), KeptOf(b))) <= KeptOf(b)
      BY <2>1, <2>2, AtMostKept
    <3>3. Cardinality(Files(b)') <= KeptOf(b) + Beyond(b)'
      BY <1>2, <2>1, <2>4, <3>1, <3>2
    <3> QED BY <2>1, <3>3
  <2>6. CASE b # target.base
    <3>1. Files(b)' = Files(b)
      BY <1>1, <1>3, <2>6 DEF Files
    <3>2. Beyond(b) = runs - 1
      BY <1>2, <2>6 DEF Beyond, Ended
    <3>3. Cardinality(Files(b)) <= KeptOf(b) + Beyond(b)'
      BY <1>2, <2>1, <2>2, <2>3, <2>4, <3>2
    <3> QED BY <2>1, <3>1, <3>3
  <2> QED BY <2>5, <2>6
<1> QED BY <1>4, <1>5 DEF DirInv, RoomInv

LEMMA DirKept == StepInv /\ DirInv /\ [Next]_vars => DirInv'
PROOF
<1> SUFFICES ASSUME StepInv, DirInv, [Next]_vars PROVE DirInv'
  OBVIOUS
<1>1. CASE Begin
  BY <1>1, LaunchKeepsDir DEF Begin
<1>2. CASE \E f \in DOMAIN disk : Resume(f)
  <2>1. PICK f \in DOMAIN disk : GoOnFrom(disk[f])
    BY <1>2 DEF Resume
  <2>2. Entry(disk[f], "sched") \in Nat
    BY DEF Entry, DirInv, NamesInv
  <2> QED BY <2>1, <2>2, GoOnKeepsDir
<1>R. CASE ResumeExported
  <2>1. sftBest # None /\ GoOnFrom(sftBest)
    BY <1>R DEF ResumeExported
  <2>2. Entry(sftBest, "sched") \in Nat
    BY <2>1 DEF Entry, StepInv, FilesInv, ExportHoldsAStep
  <2> QED BY <2>1, <2>2, GoOnKeepsDir
<1>3. CASE \E b \in Bases, e \in {epoch, start} :
             StartWriting(b, e) /\ phase \in {"evaluate", "save", "final"}
  BY <1>3, StartWritingKeepsDir
<1>4. CASE Written
  BY <1>4, WrittenKeepsDir
<1>5. CASE Quiet
  BY <1>5, QuietKeepsDir
<1> QED BY <1>1, <1>2, <1>R, <1>3, <1>4, <1>5, StepKinds

LEMMA DirInvariant == Spec => []DirInv
PROOF
<1>1. Init => DirInv
  BY DirInit
<1>2. StepInv /\ DirInv /\ [Next]_vars => DirInv'
  BY DirKept
<1> QED BY <1>1, <1>2, StepInvariant, PTL DEF Spec

(* However often a run is killed, started over or resumed, the directory   *)
(* holds of every base at most the files that are kept and one for each    *)
(* process, the one it was writing when it was killed.                     *)
THEOREM TrainingGrowth == Spec => []GrowthBounded
PROOF
<1>1. StepInv /\ DirInv => GrowthBounded
  <2> SUFFICES ASSUME StepInv, DirInv PROVE GrowthBounded
    OBVIOUS
  <2>1. StepsBounded /\ job \in Jobs /\ runs \in Nat
    BY DEF StepInv, CountsInv
  <2>2. ASSUME NEW b \in Bases PROVE Cardinality(Files(b)) <= runs + KeptOf(b)
    <3>1. Cardinality(Files(b)) <= KeptOf(b) + Beyond(b) /\ Beyond(b) \in {runs, runs - 1}
      BY DEF DirInv, RoomInv, Beyond
    <3>2. Cardinality(Files(b)) \in Nat /\ KeptOf(b) \in Nat
      BY <2>1, FilesOfBase, KeptType DEF DirInv
    <3> QED BY <2>1, <3>1, <3>2
  <2> QED BY <2>1, <2>2 DEF GrowthBounded, KeptOf
<1> QED BY <1>1, StepInvariant, DirInvariant, PTL

(* Cleanup never removes a file while an older one of the same base and    *)
(* number of digits stays, whatever files earlier processes left.          *)
THEOREM TrainingRemovesOldest == Spec => RemovesOldest
PROOF
<1> DEFINE Oldest == \A f \in DOMAIN disk \ DOMAIN disk', g \in DOMAIN disk' :
             f.base = g.base /\ Width(f.step) = Width(g.step) => f.step < g.step
<1>1. StepInv /\ DirInv /\ [Next]_vars => [Oldest]_vars
  <2> SUFFICES ASSUME StepInv, DirInv, [Next]_vars,
                      NEW f \in DOMAIN disk \ DOMAIN disk', NEW g \in DOMAIN disk',
                      f.base = g.base, Width(f.step) = Width(g.step)
               PROVE  f.step < g.step
    OBVIOUS
  <2>1. Written
    <3>1. ~Begin /\ ~ResumeExported /\ ~(\E h \in DOMAIN disk : Resume(h)) /\ ~Quiet
      BY DEF Begin, Resume, ResumeExported, GoOnFrom, Launch, Quiet
    <3>2. ~(\E b \in Bases, e \in {epoch, start} : StartWriting(b, e))
      BY DEF StartWriting
    <3> QED BY <3>1, <3>2, StepKinds
  <2> DEFINE S == Files(target.base)
             k == KeepLastN
  <2>2. /\ DOMAIN disk' = DOMAIN disk \ Surplus(S, k)
        /\ k \in Nat \ {0} /\ Named(S)
    <3>1. job \in Jobs
      BY DEF StepInv, CountsInv
    <3> QED BY <2>1, <3>1, WrittenEffect, KeptType, FilesOfBase DEF DirInv
  <2>3. f \in Surplus(S, k) /\ f.base = target.base
    BY <2>2 DEF Surplus, Files
  <2>4. g \in S \ Surplus(S, k)
    BY <2>2, <2>3 DEF Files
  <2> HIDE DEF S, k
  <2>5. Precedes(f.step, g.step)
    BY <2>2, <2>3, <2>4, RemovedComesFirst
  <2>6. f.step \in Nat /\ g.step \in Nat
    BY <2>2, <2>3, <2>4 DEF Named, Surplus
  <2> QED BY <2>5, <2>6, PrecedesTotal
<1> HIDE DEF Oldest
<1>2. Spec => [][Oldest]_vars
  BY <1>1, StepInvariant, DirInvariant, PTL DEF Spec
<1> QED BY <1>2 DEF RemovesOldest, Oldest

-----------------------------------------------------------------------------
(* The strengthening for sft_best.pt, in the first process of a directory: *)
(* the best files carry steps that were evaluated, and the last of them    *)
(* holds the lowest loss so far, complete or just being written.           *)
OneWidth == \A m, n \in EvaluatedSteps : Width(m) = Width(n)

BestFiles == Files("checkpoint_best")

HoldsBest(f) ==
  /\ f \in BestFiles /\ \A g \in BestFiles : g.step <= f.step
  /\ disk[f].loss = best
  /\ disk[f].whole \/ (phase = "write" /\ target = f)

BestSoFar == \/ BestFiles = {} /\ best = Inf
             \/ \E f \in BestFiles : HoldsBest(f)

FirstSft == runs = 1 /\ job.script = "sft" /\ phase \notin {"down", "raised", "checked"}

ExportsBest == sftBest.loss = best /\ sftBest.whole

BestInv ==
  FirstSft => /\ \A f \in BestFiles : f.step \in EvaluatedSteps
              /\ phase = "evaluate" => gstep \in EvaluatedSteps
              /\ OneWidth => BestSoFar /\ (phase = "done" => ExportsBest)

LEMMA EvaluatedGrow ==
  ASSUME StepInv, job' = job, gstep' \in {gstep, gstep + 1}
  PROVE  /\ \A n : n \in EvaluatedSteps => n \in EvaluatedSteps'
         /\ OneWidth' => OneWidth
PROOF
<1>1. gstep \in Nat
  BY DEF StepInv, CountsInv
<1>2. \A n : n \in EvaluatedSteps => n \in EvaluatedSteps'
  BY <1>1 DEF EvaluatedSteps
<1> HIDE DEF EvaluatedSteps
<1>3. OneWidth' => OneWidth
  BY <1>2 DEF OneWidth
<1> QED BY <1>2, <1>3

(* Steps that leave the best files and the lowest loss alone.              *)
LEMMA OthersKeepBest ==
  ASSUME StepInv, BestInv, FirstSft, job' = job, gstep' \in {gstep, gstep + 1},
         best' = best, BestFiles' = BestFiles,
         \A f \in BestFiles : disk'[f] = disk[f],
         phase = "write" => (target.base # "checkpoint_best"
                             \/ (phase' = "write" /\ target' = target)),
         phase' = "evaluate" => gstep' \in EvaluatedSteps',
         phase' = "done" => (OneWidth /\ BestSoFar => ExportsBest')
  PROVE  BestInv'
PROOF
<1>1. /\ \A n : n \in EvaluatedSteps => n \in EvaluatedSteps'
      /\ OneWidth' => OneWidth
  BY EvaluatedGrow
<1>2. /\ \A f \in BestFiles : f.step \in EvaluatedSteps
      /\ OneWidth => BestSoFar
  BY DEF BestInv
<1>3. \A f \in BestFiles' : f.step \in EvaluatedSteps'
  BY <1>1, <1>2
<1>4. BestSoFar => BestSoFar'
  <2>1. ASSUME NEW f \in BestFiles, HoldsBest(f) PROVE HoldsBest(f)'
    <3>1. f.base = "checkpoint_best"
      BY DEF BestFiles, Files
    <3> QED BY <2>1, <3>1 DEF HoldsBest
  <2> QED BY <2>1 DEF BestSoFar
<1> HIDE DEF EvaluatedSteps, OneWidth, BestSoFar, ExportsBest, BestFiles
<1> QED BY <1>1, <1>2, <1>3, <1>4 DEF BestInv

(* A lower loss starts the last of the best files.                         *)
LEMMA BestIsBegun ==
  ASSUME StepInv, DirInv, BestInv, FirstSft, phase = "evaluate",
         StartWriting("checkpoint_best", epoch)
  PROVE  BestInv'
PROOF
<1> DEFINE h == [base |-> "checkpoint_best", step |-> gstep]
           c == [epoch |-> epoch, gstep |-> gstep, sched |-> sched,
                 loss |-> best', whole |-> FALSE]
<1>1. /\ job' = job /\ gstep' = gstep /\ phase' = "write" /\ target' = h
      /\ disk' = [g \in DOMAIN disk \cup {h} |-> IF g = h THEN c ELSE disk[g]]
  BY DEF StartWriting
<1>2. h.base = "checkpoint_best" /\ h.step = gstep /\ c.loss = best'
  OBVIOUS
<1>A. h' = h
  BY <1>1
<1> HIDE DEF h, c
<1>3. BestFiles' = BestFiles \cup {h}
  BY <1>1, <1>2 DEF BestFiles, Files
<1>4. /\ \A f \in BestFiles : f.step \in EvaluatedSteps
      /\ gstep \in EvaluatedSteps
  BY DEF BestInv
<1>5. EvaluatedSteps' = EvaluatedSteps
  BY <1>1 DEF EvaluatedSteps
<1>6. \A f \in BestFiles' : f.step \in EvaluatedSteps'
  BY <1>2, <1>3, <1>4, <1>5
<1>7. HoldsBest(h)'
  <2>1. \A g \in BestFiles' : g.step <= h.step
    BY <1>2, <1>3, <1>4 DEF EvaluatedSteps
  <2>2. disk'[h] = c
    BY <1>1
  <2> QED BY <1>1, <1>2, <1>3, <1>A, <2>1, <2>2 DEF HoldsBest
<1>8. BestSoFar'
  BY <1>3, <1>7, <1>A DEF BestSoFar
<1> QED BY <1>1, <1>6, <1>8 DEF BestInv

(* The cleanup after a save leaves the last of the best files.             *)
LEMMA BestIsWritten ==
  ASSUME StepInv, DirInv, BestInv, FirstSft, Written
  PROVE  BestInv'
PROOF
<1> DEFINE S == Files(target.base)
           gone == Surplus(S, KeepLastN)
<1>1. /\ target.base \in Bases /\ target \in DOMAIN disk
      /\ KeepLastN = KeptOf(target.base)
      /\ DOMAIN disk' = DOMAIN disk \ gone
      /\ \A g \in DOMAIN disk' :
           disk'[g] = IF g = target THEN [disk[g] EXCEPT !.whole = TRUE] ELSE disk[g]
      /\ job' = job /\ gstep' = gstep /\ best' = best
  BY WrittenEffect
<1>2. phase = "write" /\ phase' \in {"save", "next", "export"}
  <2>1. AfterEvaluation(gstep) \in {"save", "next"}
    BY DEF AfterEvaluation
  <2> QED BY <1>1, <2>1 DEF Written, Bases, FirstSft
<1>3. gone \subseteq S
  BY DEF Surplus
<1>4. Named(S) /\ KeepLastN \in Nat \ {0}
  BY <1>1, FilesOfBase, KeptType DEF DirInv, StepInv, CountsInv
<1>5. CASE target.base # "checkpoint_best"
  <2>1. BestFiles' = BestFiles
    BY <1>1, <1>3, <1>5 DEF BestFiles, Files
  <2>2. \A f \in BestFiles : disk'[f] = disk[f]
    <3>1. \A f \in BestFiles : f.base = "checkpoint_best" /\ f \in DOMAIN disk'
      BY <2>1 DEF BestFiles, Files
    <3> QED BY <1>1, <1>5, <3>1
  <2> QED BY <1>1, <1>2, <1>5, <2>1, <2>2, OthersKeepBest
<1>6. CASE target.base = "checkpoint_best"
  <2>1. S = BestFiles /\ BestFiles' = BestFiles \ gone
    BY <1>1, <1>6 DEF BestFiles, Files
  <2>2. /\ \A f \in BestFiles : f.step \in EvaluatedSteps
        /\ OneWidth => BestSoFar
    BY DEF BestInv
  <2>3. EvaluatedSteps' = EvaluatedSteps /\ OneWidth' = OneWidth
    BY <1>1 DEF EvaluatedSteps, OneWidth
  <2>4. \A f \in BestFiles' : f.step \in EvaluatedSteps'
    BY <2>1, <2>2, <2>3
  <2>5. ASSUME OneWidth, NEW f \in BestFiles, HoldsBest(f)
        PROVE  f \in BestFiles' /\ HoldsBest(f)'
    <3>1. SortedAfter(f, BestFiles) = {}
      <4> SUFFICES ASSUME NEW g \in BestFiles, Precedes(f.step, g.step) PROVE FALSE
        BY DEF SortedAfter
      <4>1. Width(f.step) = Width(g.step) /\ f.step \in Nat /\ g.step \in Nat
        <5>1. f.step \in EvaluatedSteps /\ g.step \in EvaluatedSteps
          BY <2>2
        <5>2. Width(f.step) = Width(g.step)
          BY <2>5, <5>1 DEF OneWidth
        <5>3. f.step \in Nat /\ g.step \in Nat
          BY <5>1 DEF EvaluatedSteps
        <5> QED BY <5>2, <5>3
      <4>2. g.step <= f.step
        BY <2>5 DEF HoldsBest
      <4>3. f.step < g.step
        BY <4>1, PrecedesTotal
      <4> QED BY <4>1, <4>2, <4>3
    <3>2. f \in BestFiles'
      <4>1. f \notin gone
        BY <1>4, <2>1, <3>1, LastStays
      <4> QED BY <2>1, <4>1
    <3>3. disk[f].loss = best /\ DOMAIN disk[f] = Fields
          /\ (disk[f].whole \/ target = f)
      BY <2>5 DEF HoldsBest, StepInv, FilesInv, FileHoldsItsStep, BestFiles, Files
    <3>4. disk'[f].loss = disk[f].loss /\ disk'[f].whole
      <4>1. f \in DOMAIN disk'
        BY <3>2 DEF BestFiles, Files
      <4>2. CASE f = target
        <5>1. disk'[f] = [disk[f] EXCEPT !.whole = TRUE]
          BY <1>1, <4>1, <4>2
        <5> QED BY <3>3, <5>1 DEF Fields
      <4>3. CASE f # target
        BY <1>1, <3>3, <4>1, <4>3
      <4> QED BY <4>2, <4>3
    <3>5. \A g \in BestFiles' : g.step <= f.step
      BY <2>1, <2>5 DEF HoldsBest
    <3> QED BY <1>1, <3>2, <3>3, <3>4, <3>5 DEF HoldsBest
  <2>6. BestFiles = {} => BestFiles' = {}
    BY <2>1
  <2>7. OneWidth' => BestSoFar'
    <3>1. Inf' = Inf
      BY DEF Inf
    <3> QED BY <1>1, <2>2, <2>3, <2>5, <2>6, <3>1 DEF BestSoFar
  <2> HIDE DEF S, gone
  <2> QED BY <1>2, <2>4, <2>7 DEF BestInv
<1> QED BY <1>5, <1>6

(* sft_best.pt is copied from the last of the best files.                  *)
LEMMA BestIsCopied ==
  ASSUME StepInv, DirInv, BestInv, FirstSft, Export
  PROVE  BestInv'
PROOF
<1>1. /\ job' = job /\ gstep' = gstep /\ best' = best /\ disk' = disk
      /\ phase = "export" /\ phase' = "done"
      /\ sftBest' = IF BestFiles = {}
                    THEN Weights(TRUE) ELSE disk[LastByName(BestFiles)]
  BY DEF Export, BestFiles
<1>2. BestFiles' = BestFiles
  BY <1>1 DEF BestFiles, Files
<1>3. ASSUME OneWidth, BestSoFar PROVE ExportsBest'
  <2>1. CASE BestFiles = {} /\ best = Inf
    BY <1>1, <2>1 DEF ExportsBest, Weights
  <2>2. CASE \E f \in BestFiles : HoldsBest(f)
    <3>1. PICK f \in BestFiles : HoldsBest(f)
      BY <2>2
    <3>2. \A g \in BestFiles : /\ g.step \in Nat /\ Width(g.step) = Width(f.step)
                               /\ g.step = f.step => g = f
      <4>1. \A g \in BestFiles : g.step \in EvaluatedSteps
        BY DEF BestInv
      <4>2. \A g \in BestFiles : g.step \in Nat
        BY <4>1 DEF EvaluatedSteps
      <4>3. \A g \in BestFiles : Width(g.step) = Width(f.step)
        BY <1>3, <4>1 DEF OneWidth
      <4>4. \A g \in BestFiles : g.step = f.step => g = f
        BY FilesOfBase DEF DirInv, Named, BestFiles
      <4> QED BY <4>2, <4>3, <4>4
    <3>3. \A g \in BestFiles : g.step <= f.step
      BY <3>1 DEF HoldsBest
    <3>4. SortedAfter(f, BestFiles) = {}
      <4> SUFFICES ASSUME NEW g \in BestFiles, Precedes(f.step, g.step) PROVE FALSE
        BY DEF SortedAfter
      <4>1. f.step < g.step
        BY <3>2, PrecedesTotal
      <4> QED BY <3>2, <3>3, <4>1
    <3>5. ASSUME NEW g \in BestFiles, SortedAfter(g, BestFiles) = {} PROVE g = f
      <4>1. ~Precedes(g.step, f.step)
        BY <3>5 DEF SortedAfter
      <4>2. ~(g.step < f.step)
        BY <3>2, <4>1, PrecedesTotal
      <4> QED BY <3>2, <3>3, <4>2
    <3>6. LastByName(BestFiles) = f
      BY <3>4, <3>5 DEF LastByName
    <3>7. sftBest' = disk[f]
      BY <1>1, <3>6
    <3> QED BY <1>1, <3>1, <3>7 DEF HoldsBest, ExportsBest
  <2> QED BY <1>3, <2>1, <2>2 DEF BestSoFar
<1> QED BY <1>1, <1>2, <1>3, OthersKeepBest

LEMMA BestStart ==
  ASSUME StepInv, DirInv, NEW e, NEW n, NEW l, Launch(e, n, l)
  PROVE  BestInv'
PROOF
<1>1. /\ disk' = disk /\ runs' = runs + 1 /\ best' = Inf /\ job' = job /\ gstep' = n
      /\ phase' \in {"raised", "batch", "ended"}
  BY DEF Launch, Enter
<1>2. runs \in Nat
  BY DEF StepInv, CountsInv
<1>3. ASSUME FirstSft' PROVE BestFiles' = {} /\ best' = Inf' /\ phase' \notin {"evaluate", "done"}
  <2>1. runs = 0
    BY <1>1, <1>2, <1>3 DEF FirstSft
  <2>2. DOMAIN disk = {}
    BY <2>1 DEF DirInv, NamesInv
  <2> QED BY <1>1, <2>2 DEF BestFiles, Files, Inf
<1> QED BY <1>3 DEF BestInv, BestSoFar

LEMMA BestKept == StepInv /\ DirInv /\ BestInv /\ [Next]_vars => BestInv'
PROOF
<1> SUFFICES ASSUME StepInv, DirInv, BestInv, [Next]_vars PROVE BestInv'
  OBVIOUS
<1>1. CASE Begin
  BY <1>1, BestStart DEF Begin
<1>2. CASE ResumeExported \/ \E f \in DOMAIN disk : Resume(f)
  <2>1. PICK c : GoOnFrom(c)
    BY <1>2 DEF ResumeExported, Resume
  <2> DEFINE r == Restored(c)
  <2>2. Launch(r[1], r[2], r[3])
    BY <2>1 DEF GoOnFrom
  <2> HIDE DEF r
  <2> QED BY <2>2, BestStart
<1>3. CASE DryRun \/ Crash
  <2>1. phase' \in {"down", "raised", "checked"}
    BY <1>3 DEF DryRun, Crash
  <2> QED BY <2>1 DEF BestInv, FirstSft
<1>4. CASE Train \/ UNCHANGED vars
  <2>1. job' = job /\ runs' = runs
    BY <1>4 DEF Train, vars, Accumulate, OptimizerStep, NextBatch, EndEpoch, EndIteration,
                Evaluate, Save, SaveFinal, StartWriting, Written, Export
  <2> SUFFICES ASSUME FirstSft' PROVE BestInv'
    BY DEF BestInv
  <2>2. FirstSft
    <3>1. phase \notin {"down", "raised", "checked"}
      BY <1>4, <2>1 DEF FirstSft, Train, vars, Accumulate, OptimizerStep, NextBatch, EndEpoch,
                EndIteration, Evaluate, Save, SaveFinal, Written, Export
    <3> QED BY <2>1, <3>1 DEF FirstSft
  <2>A. \A n : AfterEvaluation(n) \in {"save", "next"}
    BY DEF AfterEvaluation
  <2>B. gstep \in Nat
    BY DEF StepInv, CountsInv
  <2>3. CASE \/ Accumulate \/ NextBatch \/ EndEpoch
             \/ UNCHANGED vars
    <3>1. /\ disk' = disk /\ gstep' = gstep /\ best' = best
          /\ \/ phase' \in {"batch", "ended"} /\ phase # "write"
             \/ phase' = phase /\ target' = target /\ sftBest' = sftBest
      BY <2>3 DEF Accumulate, NextBatch, EndEpoch, vars
    <3>2. BestFiles' = BestFiles
      BY <3>1 DEF BestFiles, Files
    <3>3. EvaluatedSteps' = EvaluatedSteps
      BY <2>1, <3>1 DEF EvaluatedSteps
    <3>4. phase = "evaluate" => gstep \in EvaluatedSteps
      BY <2>2 DEF BestInv
    <3>5. phase' = "done" => (OneWidth /\ BestSoFar => ExportsBest')
      BY <2>2, <3>1 DEF BestInv, ExportsBest
    <3> HIDE DEF EvaluatedSteps, BestFiles
    <3> QED BY <2>1, <2>2, <3>1, <3>2, <3>3, <3>4, <3>5, OthersKeepBest
  <2>4. CASE OptimizerStep
    <3>1. /\ disk' = disk /\ gstep' = gstep + 1 /\ best' = best
          /\ phase = "batch" /\ phase' \in {"evaluate", "save", "next"}
          /\ phase' = "evaluate" => (gstep + 1) % job.evalEvery = 0
      BY <2>4, <2>A DEF OptimizerStep, AfterStep
    <3>2. BestFiles' = BestFiles
      BY <3>1 DEF BestFiles, Files
    <3>3. phase' = "evaluate" => gstep' \in EvaluatedSteps'
      BY <2>1, <2>B, <3>1 DEF EvaluatedSteps
    <3> QED BY <2>1, <2>2, <3>1, <3>2, <3>3, OthersKeepBest
  <2>5. CASE EndIteration
    <3>1. job.iterations = 1 /\ iteration \in Nat
      BY <2>2, JobsAssumption DEF FirstSft, StepInv, CountsInv
    <3>2. /\ disk' = disk /\ gstep' = gstep /\ best' = best
          /\ phase = "ended" /\ phase' = "final"
      BY <2>5, <3>1 DEF EndIteration
    <3>3. BestFiles' = BestFiles
      BY <3>2 DEF BestFiles, Files
    <3> QED BY <2>1, <2>2, <3>2, <3>3, OthersKeepBest
  <2>6. CASE \E loss \in Losses : Evaluate(loss)
    <3>1. PICK loss \in Losses : Evaluate(loss)
      BY <2>6
    <3>2. CASE StartWriting("checkpoint_best", epoch)
      BY <2>2, <3>1, <3>2, BestIsBegun DEF Evaluate
    <3>3. CASE ~Improves(loss)
      <4>1. /\ disk' = disk /\ gstep' = gstep /\ best' = best
            /\ phase = "evaluate" /\ phase' \in {"save", "next"}
        BY <2>A, <3>1, <3>3 DEF Evaluate
      <4>2. BestFiles' = BestFiles
        BY <4>1 DEF BestFiles, Files
      <4> QED BY <2>1, <2>2, <4>1, <4>2, OthersKeepBest
    <3> QED BY <3>1, <3>2, <3>3 DEF Evaluate
  <2>7. CASE Save \/ SaveFinal
    <3>1. PICK b \in {"checkpoint", "checkpoint_final"}, e \in {epoch, start} :
            StartWriting(b, e) /\ best' = best /\ phase \in {"save", "final"}
      BY <2>7 DEF Save, SaveFinal
    <3> DEFINE h == [base |-> b, step |-> gstep]
               c == [epoch |-> e, gstep |-> gstep, sched |-> sched,
                     loss |-> best', whole |-> FALSE]
    <3>2. /\ gstep' = gstep /\ phase' = "write"
          /\ disk' = [g \in DOMAIN disk \cup {h} |-> IF g = h THEN c ELSE disk[g]]
      BY <3>1 DEF StartWriting
    <3>3. h.base # "checkpoint_best"
      BY <3>1
    <3> HIDE DEF h, c
    <3>4. BestFiles' = BestFiles
      BY <3>2, <3>3 DEF BestFiles, Files
    <3>5. \A f \in BestFiles : disk'[f] = disk[f]
      BY <3>2, <3>3 DEF BestFiles, Files
    <3> QED BY <2>1, <2>2, <3>1, <3>2, <3>4, <3>5, OthersKeepBest
  <2>8. CASE Written
    BY <2>2, <2>8, BestIsWritten
  <2>9. CASE Export
    BY <2>2, <2>9, BestIsCopied
  <2> QED BY <1>4, <2>3, <2>4, <2>5, <2>6, <2>7, <2>8, <2>9 DEF Train
<1> QED BY <1>1, <1>2, <1>3, <1>4 DEF Next

(* When the first run in a directory ends, sft_best.pt is the complete     *)
(* model of the lowest validation loss it saw, however many best files     *)
(* cleanup removed, as long as the evaluated steps have one width.         *)
THEOREM TrainingBest == Spec => []BestIsExported
PROOF
<1>1. Init => BestInv
  BY DEF Init, BestInv, FirstSft
<1>2. StepInv /\ DirInv /\ BestInv /\ [Next]_vars => BestInv'
  BY BestKept
<1>3. BestInv => BestIsExported
  BY DEF BestInv, FirstSft, BestIsExported, OneWidth, ExportsBest
<1> QED BY <1>1, <1>2, <1>3, StepInvariant, DirInvariant, PTL DEF Spec

-----------------------------------------------------------------------------
(* The learning rate around its peak.                                      *)
LEMMA HorizonType ==
  ASSUME job \in Jobs
  PROVE  Horizon \in Nat /\ job.warmup \in Nat
PROOF
<1>1. /\ job.batches \in Nat /\ job.accum \in Nat \ {0}
      /\ job.maxSteps \in Nat /\ job.warmup \in Nat
  BY JobsAssumption DEF Job
<1>2. job.batches \div job.accum \in Nat
  BY <1>1
<1> QED BY <1>1, <1>2 DEF Horizon

LEMMA HeightsInOrder ==
  ASSUME job \in Jobs, NEW n \in Nat, n + 1 <= Horizon, job.warmup < Horizon
  PROVE  IF n + 1 <= job.warmup THEN Height(n + 1) > Height(n)
         ELSE Height(n + 1) <= Height(n)
PROOF
<1> DEFINE H == Horizon
           w == job.warmup
           s == Span
           a == Warm
<1>1. H \in Nat /\ w \in Nat
  BY HorizonType
<1>2. n + 1 <= H /\ w < H /\ s = H - w /\ a = IF w = 0 THEN 1 ELSE w
  BY DEF Span, Warm
<1>3. \A k \in Nat : Height(k) =
        IF k < w THEN k * s
        ELSE LET p == (k - w) % (2 * s)
                 q == IF p <= s THEN p ELSE 2 * s - p
             IN a * (s - q)
  BY DEF Height
<1> HIDE DEF H, w, s, a
<1>4. s \in Nat \ {0} /\ a \in Nat \ {0}
  BY <1>1, <1>2
<1>5. ASSUME NEW k \in Nat, k >= w, k <= H PROVE Height(k) = a * (s - (k - w))
  <2>1. k - w \in Nat /\ k - w < 2 * s /\ k - w <= s /\ 2 * s \in Nat \ {0}
    BY <1>1, <1>2, <1>4, <1>5
  <2>2. (k - w) % (2 * s) = k - w
    BY <2>1, RemainderSmall
  <2>3. ~(k < w)
    BY <1>1, <1>5
  <2> QED BY <1>3, <2>1, <2>2, <2>3
<1>6. CASE n + 1 < w
  <2>1. Height(n) = n * s /\ Height(n + 1) = (n + 1) * s
    BY <1>1, <1>3, <1>6
  <2>2. (n + 1) * s = n * s + s /\ n * s \in Nat
    BY <1>4
  <2> QED BY <1>1, <1>4, <1>6, <2>1, <2>2 DEF w
<1>7. CASE n + 1 = w
  <2>1. Height(n) = n * s
    BY <1>1, <1>3, <1>7
  <2>2. Height(n + 1) = a * (s - ((n + 1) - w)) /\ a = n + 1
    BY <1>1, <1>2, <1>5, <1>7
  <2>3. s - ((n + 1) - w) = s
    BY <1>1, <1>4, <1>7
  <2>4. (n + 1) * s = n * s + s /\ n * s \in Nat
    BY <1>4
  <2>5. Height(n + 1) = (n + 1) * s
    BY <2>2, <2>3
  <2> QED BY <1>1, <1>4, <1>7, <2>1, <2>4, <2>5 DEF w
<1>8. CASE n + 1 > w
  <2>1. Height(n) = a * (s - (n - w)) /\ Height(n + 1) = a * (s - ((n + 1) - w))
    BY <1>1, <1>2, <1>5, <1>8
  <2> DEFINE r == s - ((n + 1) - w)
  <2>2. r \in Nat /\ s - (n - w) = r + 1
    BY <1>1, <1>2, <1>4, <1>8
  <2>3. Height(n) = a * (r + 1) /\ Height(n + 1) = a * r
    BY <2>1, <2>2
  <2> HIDE DEF r
  <2>4. a * (r + 1) = a * r + a /\ a * r \in Nat
    BY <1>4, <2>2
  <2> QED BY <1>1, <1>4, <1>8, <2>3, <2>4 DEF w
<1> QED BY <1>1, <1>6, <1>7, <1>8

(* Up to its horizon the schedule rises to its peak and then only falls,   *)
(* at every optimizer step, resumed or not.                                *)
THEOREM TrainingSchedule == Spec => WarmsUpThenDecays
PROOF
<1> DEFINE Ordered ==
      /\ phase = "batch" /\ sched' = sched + 1 /\ sched' <= Horizon
      /\ job.warmup < Horizon
      => IF sched' <= job.warmup THEN Height(sched') > Height(sched)
         ELSE Height(sched') <= Height(sched)
<1>1. StepInv /\ DirInv => [Ordered]_vars
  <2> SUFFICES ASSUME StepInv, DirInv, sched' = sched + 1, sched' <= Horizon,
                      job.warmup < Horizon
               PROVE  IF sched' <= job.warmup THEN Height(sched') > Height(sched)
                      ELSE Height(sched') <= Height(sched)
    OBVIOUS
  <2>1. job \in Jobs /\ sched \in Nat
    BY DEF StepInv, CountsInv, DirInv, NamesInv
  <2>2. PICK n : n = sched
    OBVIOUS
  <2>3. IF n + 1 <= job.warmup THEN Height(n + 1) > Height(n)
        ELSE Height(n + 1) <= Height(n)
    BY <2>1, <2>2, HeightsInOrder
  <2> QED BY <2>2, <2>3
<1> HIDE DEF Ordered
<1>2. Spec => [][Ordered]_vars
  BY <1>1, StepInvariant, DirInvariant, PTL DEF Spec
<1> QED BY <1>2 DEF WarmsUpThenDecays, Ordered

-----------------------------------------------------------------------------
(* The strengthening for the checkpoints, where every process went on from *)
(* the newest one.  Due is the last multiple of save_every at which the    *)
(* process has saved; of steps of one digit the checkpoint at Due is       *)
(* complete and no complete one lies beyond it, and every checkpoint that  *)
(* is cut has a complete one at most save_every before it.  Once steps     *)
(* have two digits, the last checkpoint of one digit stays complete until  *)
(* all of one digit are gone.                                              *)
LastSaveAt(n) == n - (n % job.saveEvery)

Saves == Files("checkpoint")

Pending == \/ phase \in {"evaluate", "save"}
           \/ phase = "write" /\ target.base # "checkpoint_final"

Due == IF Pending THEN LastSaveAt(gstep - 1) ELSE LastSaveAt(gstep)

TopKept == \/ \E f \in Saves : f.step = LastSaveAt(9) /\ disk[f].whole
           \/ \A f \in Saves : f.step > 9

Rungs ==
  /\ \A f \in Saves : f.step % job.saveEvery = 0 /\ f.step > 0
  /\ \A f \in Saves : job.saveEvery < f.step /\ f.step < 10
       => \E g \in Saves : disk[g].whole /\ g.step >= f.step - job.saveEvery
  /\ (\E f \in Saves : f.step > 9) => TopKept

DueKept ==
  /\ Due = 0 \/ \E f \in Saves : disk[f].whole /\ f.step = Due
  /\ \A f \in Saves : disk[f].whole => f.step <= Due
  /\ (\E f \in Saves : f.step > 9) => \E f \in Saves : f.step = LastSaveAt(9) /\ disk[f].whole

Position ==
  /\ phase = "write" => target.step = gstep
  /\ Pending => gstep > 0
  /\ (phase = "save" \/ (phase = "write" /\ target.base = "checkpoint"))
       => gstep % job.saveEvery = 0

OnTheWay == /\ phase \notin Ended /\ gstep < 10 => DueKept
            /\ phase \notin Ended /\ gstep > 9 => TopKept

LadderInv == ~strayed /\ job.iterations = 1 => Rungs /\ Position /\ OnTheWay

(* Multiples of save_every.                                                *)
LEMMA LastFacts ==
  ASSUME job \in Jobs, NEW n \in Nat
  PROVE  /\ LastSaveAt(n) \in Nat /\ LastSaveAt(n) <= n
         /\ n % job.saveEvery = 0 => LastSaveAt(n) = n
         /\ (n + 1) % job.saveEvery # 0 => LastSaveAt(n + 1) = LastSaveAt(n)
         /\ (n + 1) % job.saveEvery = 0
              => LastSaveAt(n + 1) = n + 1 /\ LastSaveAt(n) + job.saveEvery = n + 1
         /\ n + 1 <= LastSaveAt(n) + job.saveEvery
PROOF
<1> DEFINE s == job.saveEvery
           r == n % s
           t == (n + 1) % s
<1>1. s \in Nat \ {0}
  BY JobsAssumption DEF Job
<1>2. r \in 0..(s - 1) /\ t \in 0..(s - 1) /\ r <= n
  <2>1. r \in Nat /\ t \in Nat /\ r < s /\ t < s /\ r <= n
    BY <1>1, SMT
  <2> QED BY <1>1, <2>1
<1>3. (t = 0 => r + 1 = s) /\ (t # 0 => t = r + 1)
  BY <1>1, RemainderStep
<1>4. LastSaveAt(n) = n - r /\ LastSaveAt(n + 1) = (n + 1) - t
  BY DEF LastSaveAt
<1> SUFFICES /\ n - r \in Nat /\ n - r <= n
             /\ r = 0 => n - r = n
             /\ t # 0 => (n + 1) - t = n - r
             /\ t = 0 => (n + 1) - t = n + 1 /\ (n - r) + s = n + 1
             /\ n + 1 <= (n - r) + s
  BY <1>4
<1> HIDE DEF s, r, t
<1> QED BY <1>1, <1>2, <1>3

LEMMA LastOfMultiples ==
  ASSUME job \in Jobs, NEW m \in Nat, NEW n \in Nat, m <= n, m % job.saveEvery = 0
  PROVE  m <= LastSaveAt(n)
PROOF
<1> DEFINE s == job.saveEvery
           p == n \div s
           r == n % s
           q == m \div s
<1>1. s \in Nat \ {0}
  BY JobsAssumption DEF Job
<1>2. n = s * p + r /\ r \in 0..(s - 1) /\ p \in Nat
  BY <1>1, Division
<1>3. m = s * q /\ q \in Nat
  <2>1. m = s * q + (m % s) /\ q \in Nat
    BY <1>1, Division
  <2>2. s * q \in Nat
    BY <1>1, <2>1
  <2>3. m % s = 0
    OBVIOUS
  <2> QED BY <2>1, <2>2, <2>3
<1>4. LastSaveAt(n) = n - r
  BY DEF LastSaveAt
<1> HIDE DEF s, p, r, q
<1>5. q <= p
  <2> SUFFICES ASSUME q >= p + 1 PROVE FALSE
    BY <1>2, <1>3
  <2>1. s * q >= s * (p + 1)
    BY <1>1, <1>2, <1>3
  <2>2. s * (p + 1) = s * p + s /\ s * p \in Nat /\ s * q \in Nat
    BY <1>1, <1>2, <1>3
  <2> QED BY <1>1, <1>2, <1>3, <2>1, <2>2
<1>6. s * q <= s * p /\ s * p \in Nat /\ s * q \in Nat
  BY <1>1, <1>2, <1>3, <1>5
<1> QED BY <1>2, <1>3, <1>4, <1>6

LEMMA OneDigit ==
  ASSUME NEW n \in Nat
  PROVE  Width(n) = 1 <=> n < 10
PROOF
<1>1. Pow10[0] = 1 /\ Pow10[1] = 10
  <2>1. Pow10[0] = 1 /\ Pow10[0 + 1] = 10 * Pow10[0] /\ 0 + 1 = 1
    BY PowerOfTen
  <2> QED BY <2>1
<1>2. ASSUME n < 10, NEW w \in 1..(n + 1), w # 1 PROVE ~Fits(n, w)
  <2> DEFINE Tens == {k \in Nat : Pow10[k + 1] >= 10}
  <2>1. Tens = Nat
    <3>1. 0 \in Tens
      BY <1>1
    <3>2. ASSUME NEW k \in Tens PROVE k + 1 \in Tens
      <4>1. /\ k + 1 \in Nat /\ Pow10[k + 1] \in Nat
            /\ Pow10[(k + 1) + 1] = 10 * Pow10[k + 1] /\ Pow10[k + 1] >= 10
        BY PowerOfTen
      <4> QED BY <4>1
    <3>3. Tens \subseteq Nat
      OBVIOUS
    <3> HIDE DEF Tens
    <3> QED BY <3>1, <3>2, <3>3, NatInductionOnSets
  <2>2. w - 2 \in Nat /\ (w - 2) + 1 = w - 1
    BY <1>2
  <2>3. Pow10[w - 1] >= 10 /\ Pow10[w - 1] \in Nat
    <3>1. w - 2 \in Tens
      BY <2>1, <2>2
    <3>2. Pow10[(w - 2) + 1] >= 10
      BY <3>1
    <3> QED BY <2>2, <3>2, PowerOfTen
  <2> QED BY <1>2, <2>3 DEF Fits
<1>3. ASSUME n < 10 PROVE Width(n) = 1
  BY <1>2, <1>3, WidthFits
<1>4. ASSUME Width(n) = 1 PROVE n < 10
  BY <1>1, <1>4, WidthFits DEF Fits
<1> QED BY <1>3, <1>4

LEMMA SavesFacts ==
  ASSUME NamesInv
  PROVE  /\ \A f \in Saves : f \in DOMAIN disk /\ f.base = "checkpoint" /\ f.step \in Nat
         /\ \A f, g \in Saves : f.step = g.step => f = g
         /\ Named(Saves)
BY FilesOfBase DEF Saves, Files, Named

(* Steps that leave the checkpoints alone.                                 *)
LEMMA SavesAlone ==
  ASSUME LadderInv, ~strayed, job.iterations = 1, job' = job,
         Saves' = Saves, \A f \in Saves : disk'[f] = disk[f], Position',
         \/ phase' \in Ended
         \/ phase \notin Ended /\ gstep' = gstep /\ Due' = Due
  PROVE  LadderInv'
PROOF
<1>1. Rungs /\ OnTheWay
  BY DEF LadderInv
<1>2. TopKept => TopKept'
  BY DEF TopKept, LastSaveAt
<1>3. Rungs'
  BY <1>1, <1>2 DEF Rungs
<1>4. Due' = Due => (DueKept => DueKept')
  BY DEF DueKept, LastSaveAt
<1>5. OnTheWay'
  BY <1>1, <1>2, <1>4 DEF OnTheWay
<1> QED BY <1>3, <1>5 DEF LadderInv

LEMMA LadderBegins ==
  ASSUME StepInv, DirInv, LadderInv, Begin
  PROVE  LadderInv'
PROOF
<1>1. /\ job' = job /\ disk' = disk /\ gstep' = 0 /\ phase' \in {"raised", "batch", "ended"}
      /\ ~strayed' => DOMAIN disk = {}
  BY DEF Begin, Launch, Enter
<1> SUFFICES ASSUME ~strayed' PROVE (Rungs /\ Position /\ OnTheWay)'
  BY DEF LadderInv
<1>2. Saves' = {}
  BY <1>1 DEF Saves, Files
<1>3. Position' /\ ~Pending'
  BY <1>1 DEF Position, Pending
<1>4. Rungs'
  BY <1>2 DEF Rungs
<1>5. Due' = 0
  <2>1. LastSaveAt(0) = 0
    BY LastFacts DEF StepInv, CountsInv
  <2> QED BY <1>1, <1>3, <2>1 DEF Due, LastSaveAt
<1>6. DueKept'
  BY <1>2, <1>5 DEF DueKept
<1> QED BY <1>1, <1>3, <1>4, <1>6 DEF OnTheWay

LEMMA LadderResumes ==
  ASSUME StepInv, DirInv, LadderInv, NEW f \in DOMAIN disk, Resume(f)
  PROVE  LadderInv'
PROOF
<1>1. /\ job' = job /\ disk' = disk /\ gstep' = disk[f].gstep /\ disk[f].whole
      /\ phase' \in {"raised", "batch", "ended"}
      /\ ~strayed' => ~strayed /\ Newest(f)
  BY DEF Resume, GoOnFrom, Launch, Enter, Restored
<1>2. gstep' = f.step /\ f.step \in Nat /\ job \in Jobs
  BY <1>1 DEF StepInv, CountsInv, FilesInv, FileHoldsItsStep
<1> SUFFICES ASSUME ~strayed', job.iterations = 1 PROVE (Rungs /\ Position /\ OnTheWay)'
  BY <1>1 DEF LadderInv
<1>3. Rungs /\ f \in Saves /\ \A g \in Saves : disk[g].whole => g.step <= f.step
  BY <1>1 DEF LadderInv, Newest, Saves, Files
<1>4. Saves' = Saves
  BY <1>1 DEF Saves, Files
<1>5. TopKept' = TopKept
  BY <1>1, <1>4 DEF TopKept, LastSaveAt
<1>6. Rungs'
  BY <1>1, <1>3, <1>4, <1>5 DEF Rungs
<1>7. Position' /\ ~Pending'
  BY <1>1 DEF Position, Pending
<1>8. f.step % job.saveEvery = 0
  BY <1>3 DEF Rungs
<1>9. Due' = f.step
  <2>1. LastSaveAt(f.step) = f.step
    BY <1>2, <1>8, LastFacts
  <2> QED BY <1>1, <1>2, <1>7, <2>1 DEF Due, LastSaveAt
<1>10. ASSUME f.step < 10 PROVE DueKept'
  <2>1. (\E g \in Saves : g.step > 9) => \E g \in Saves : g.step = LastSaveAt(9) /\ disk[g].whole
    BY <1>2, <1>3, <1>10 DEF Rungs, TopKept
  <2>2. (\E g \in Saves : g.step > 9)' => (\E g \in Saves : g.step = LastSaveAt(9) /\ disk[g].whole)'
    BY <1>1, <1>4, <2>1 DEF LastSaveAt
  <2> QED BY <1>1, <1>3, <1>4, <1>9, <2>2 DEF DueKept
<1>11. f.step > 9 => TopKept'
  BY <1>3, <1>5 DEF Rungs
<1> QED BY <1>2, <1>6, <1>7, <1>10, <1>11 DEF OnTheWay

(* While a checkpoint of one digit is due, every other is behind it.       *)
LEMMA AllBehind ==
  ASSUME StepInv, DirInv, Rungs, DueKept, Pending, gstep > 0, gstep < 10,
         gstep % job.saveEvery = 0
  PROVE  /\ Due + job.saveEvery = gstep /\ Due \in Nat
         /\ \A f \in Saves : f.step <= gstep
PROOF
<1>1. job \in Jobs /\ gstep \in Nat /\ NamesInv
  BY DEF StepInv, CountsInv, DirInv
<1> DEFINE s == job.saveEvery
<1>2. s \in Nat \ {0}
  BY <1>1, JobsAssumption DEF Job
<1>3. Due + s = gstep /\ Due \in Nat
  <2> DEFINE n == gstep - 1
  <2>1. n \in Nat /\ n + 1 = gstep /\ Due = LastSaveAt(n)
    BY <1>1 DEF Due
  <2> HIDE DEF n
  <2>2. (n + 1) % s = 0
    BY <2>1
  <2> QED BY <1>1, <2>1, <2>2, LastFacts
<1>4. \A f \in Saves : f.step \in Nat
  BY <1>1, SavesFacts
<1>5. \A f \in Saves : ~(f.step > 9)
  <2> SUFFICES ASSUME NEW g \in Saves, g.step > 9 PROVE FALSE
    OBVIOUS
  <2>1. PICK f \in Saves : f.step = LastSaveAt(9) /\ disk[f].whole
    BY DEF DueKept
  <2>2. f.step <= Due
    BY <2>1 DEF DueKept
  <2>3. gstep <= LastSaveAt(9)
    BY <1>1, LastOfMultiples
  <2> DEFINE a == f.step
  <2>4. a \in Nat /\ a <= Due /\ gstep <= a
    BY <1>4, <2>1, <2>2, <2>3
  <2> HIDE DEF a, s
  <2> QED BY <1>1, <1>2, <1>3, <2>4
<1>6. ASSUME NEW f \in Saves PROVE f.step <= gstep
  <2> DEFINE a == f.step
  <2>1. a \in Nat /\ a < 10
    BY <1>4, <1>5
  <2>2. CASE s < a
    <3>1. PICK g \in Saves : disk[g].whole /\ g.step >= a - s
      BY <2>1, <2>2 DEF Rungs
    <3> DEFINE b == g.step
    <3>2. b \in Nat /\ b >= a - s /\ b <= Due
      BY <1>4, <3>1 DEF DueKept
    <3> HIDE DEF a, b, s
    <3>3. a <= gstep
      BY <1>1, <1>2, <1>3, <2>1, <3>2
    <3> QED BY <3>3 DEF a
  <2>3. CASE ~(s < a)
    <3> HIDE DEF a, s
    <3>1. a <= gstep
      BY <1>1, <1>2, <1>3, <2>1, <2>3
    <3> QED BY <3>1 DEF a
  <2> QED BY <2>2, <2>3
<1> QED BY <1>3, <1>6

(* A checkpoint that is begun is not one that is needed.                   *)
LEMMA SaveKeepsLadder ==
  ASSUME StepInv, DirInv, LadderInv, Save
  PROVE  LadderInv'
PROOF
<1> DEFINE h == [base |-> "checkpoint", step |-> gstep]
           c == [epoch |-> epoch, gstep |-> gstep, sched |-> sched,
                 loss |-> best', whole |-> FALSE]
<1>1. /\ job' = job /\ gstep' = gstep /\ phase = "save" /\ phase' = "write" /\ target' = h
      /\ strayed' = strayed
      /\ disk' = [g \in DOMAIN disk \cup {h} |-> IF g = h THEN c ELSE disk[g]]
  BY DEF Save, StartWriting
<1>2. h.base = "checkpoint" /\ h.step = gstep /\ c.whole = FALSE /\ h' = h
  BY <1>1
<1> SUFFICES ASSUME ~strayed, job.iterations = 1 PROVE (Rungs /\ Position /\ OnTheWay)'
  BY <1>1 DEF LadderInv
<1>3. Rungs /\ OnTheWay /\ Pending /\ gstep > 0 /\ gstep % job.saveEvery = 0
  BY <1>1 DEF LadderInv, Position, Pending
<1>4. job \in Jobs /\ gstep \in Nat /\ NamesInv /\ phase \notin Ended
  BY <1>1 DEF StepInv, CountsInv, DirInv, Ended
<1>5. job.saveEvery \in Nat \ {0}
  BY <1>4, JobsAssumption DEF Job
<1>6. /\ \A f \in Saves : f \in DOMAIN disk /\ f.base = "checkpoint" /\ f.step \in Nat
      /\ \A f, g \in Saves : f.step = g.step => f = g
  BY <1>4, SavesFacts
<1>7. Position' /\ Pending'
  <2>1. target'.base = "checkpoint" /\ target'.step = gstep
    BY <1>1, <1>2
  <2> HIDE DEF h
  <2> QED BY <1>1, <1>3, <2>1 DEF Position, Pending
<1> HIDE DEF h, c
<1>8. Due' = Due
  BY <1>1, <1>3, <1>7 DEF Due, LastSaveAt
<1>9. Saves' = Saves \cup {h}
  BY <1>1, <1>2 DEF Saves, Files
<1>10. /\ disk'[h] = c /\ ~disk'[h].whole
       /\ \A f \in Saves : f # h => disk'[f] = disk[f]
  BY <1>1, <1>2, <1>6
<1>11. CASE gstep < 10
  <2>1. DueKept
    BY <1>3, <1>4, <1>11 DEF OnTheWay
  <2>2. /\ Due + job.saveEvery = gstep /\ Due \in Nat
        /\ \A f \in Saves : f.step <= gstep
    BY <1>3, <1>11, <2>1, AllBehind
  <2>3. \A f \in Saves : disk[f].whole => f # h /\ disk'[f].whole /\ f \in Saves'
    <3>1. \A f \in Saves : disk[f].whole => f.step <= Due
      BY <2>1 DEF DueKept
    <3>2. ~(gstep <= Due)
      BY <1>4, <1>5, <2>2
    <3>3. \A f \in Saves : disk[f].whole => f # h
      BY <1>2, <3>1, <3>2
    <3> QED BY <1>9, <1>10, <3>3
  <2>4. \A f \in Saves' : f.step <= gstep
    BY <1>2, <1>4, <1>9, <2>2
  <2>5. \A f \in Saves' : ~(f.step > 9) /\ f.step \in Nat
    BY <1>2, <1>4, <1>6, <1>9, <1>11, <2>4
  <2>6. DueKept'
    <3>1. \A f \in Saves' : disk'[f].whole => f \in Saves /\ disk[f].whole
      BY <1>9, <1>10
    <3>2. Due = 0 \/ \E f \in Saves' : disk'[f].whole /\ f.step = Due
      BY <2>1, <2>3 DEF DueKept
    <3>3. \A f \in Saves' : disk'[f].whole => f.step <= Due
      BY <2>1, <3>1 DEF DueKept
    <3> QED BY <1>8, <2>5, <3>2, <3>3 DEF DueKept
  <2>7. Rungs'
    <3>1. ASSUME NEW f \in Saves', job.saveEvery < f.step
          PROVE  \E g \in Saves' : disk'[g].whole /\ g.step >= f.step - job.saveEvery
      <4>1. CASE f = h
        <5>1. f.step - job.saveEvery = Due /\ Due # 0
          BY <1>2, <1>4, <1>5, <2>2, <3>1, <4>1
        <5>2. PICK g \in Saves : disk[g].whole /\ g.step = Due
          BY <2>1, <5>1 DEF DueKept
        <5>3. Due >= Due
          BY <2>2
        <5> QED BY <2>3, <5>1, <5>2, <5>3
      <4>2. CASE f # h
        <5>1. f \in Saves /\ f.step < 10
          BY <1>9, <2>5, <4>2
        <5>2. PICK g \in Saves : disk[g].whole /\ g.step >= f.step - job.saveEvery
          BY <1>3, <3>1, <5>1 DEF Rungs
        <5> QED BY <2>3, <5>2
      <4> QED BY <4>1, <4>2
    <3>2. \A f \in Saves' : f.step % job.saveEvery = 0 /\ f.step > 0
      BY <1>2, <1>3, <1>9 DEF Rungs
    <3> QED BY <1>1, <2>5, <3>1, <3>2 DEF Rungs
  <2> QED BY <1>1, <1>4, <1>7, <1>11, <2>6, <2>7 DEF OnTheWay
<1>12. CASE ~(gstep < 10)
  <2>1. gstep > 9 /\ TopKept
    BY <1>3, <1>4, <1>12 DEF OnTheWay
  <2>2. LastSaveAt(9) \in Nat /\ LastSaveAt(9) <= 9
    BY <1>4, LastFacts
  <2>3. TopKept'
    <3>1. CASE \E f \in Saves : f.step = LastSaveAt(9) /\ disk[f].whole
      <4>1. PICK f \in Saves : f.step = LastSaveAt(9) /\ disk[f].whole
        BY <3>1
      <4>2. f # h
        BY <1>2, <1>4, <2>1, <2>2, <4>1
      <4>3. f \in Saves' /\ disk'[f].whole /\ LastSaveAt(9)' = LastSaveAt(9)
        BY <1>1, <1>9, <1>10, <4>1, <4>2 DEF LastSaveAt
      <4> QED BY <4>1, <4>3 DEF TopKept
    <3>2. CASE \A f \in Saves : f.step > 9
      BY <1>2, <1>9, <2>1, <3>2 DEF TopKept
    <3> QED BY <2>1, <3>1, <3>2 DEF TopKept
  <2>4. Rungs'
    <3>1. \A f \in Saves' : f.step % job.saveEvery = 0 /\ f.step > 0 /\ f.step \in Nat
      BY <1>2, <1>3, <1>4, <1>6, <1>9 DEF Rungs
    <3>2. ASSUME NEW f \in Saves', f.step < 10
          PROVE  \E g \in Saves' : disk'[g].whole /\ g.step >= f.step - job.saveEvery
      <4>1. ~(\A g \in Saves' : g.step > 9)
        BY <3>1, <3>2
      <4>2. PICK g \in Saves' : g.step = LastSaveAt(9) /\ disk'[g].whole
        BY <1>1, <2>3, <4>1 DEF TopKept, LastSaveAt
      <4>3. f.step <= LastSaveAt(9)
        BY <1>4, <3>1, <3>2, LastOfMultiples
      <4>4. LastSaveAt(9) >= f.step - job.saveEvery
        BY <1>5, <2>2, <3>1, <4>3
      <4> QED BY <4>2, <4>4
    <3> QED BY <1>1, <2>3, <3>1, <3>2 DEF Rungs
  <2> QED BY <1>1, <1>7, <1>12, <2>1, <2>3, <2>4 DEF OnTheWay
<1> QED BY <1>11, <1>12

(* The cleanup after a checkpoint leaves it, or what it was due after.     *)
LEMMA WrittenKeepsLadder ==
  ASSUME StepInv, DirInv, LadderInv, Written, target.base = "checkpoint"
  PROVE  LadderInv'
PROOF
<1> DEFINE gone == Surplus(Files(target.base), KeepLastN)
<1>1. /\ target \in DOMAIN disk /\ KeepLastN = KeptOf(target.base)
      /\ DOMAIN disk' = DOMAIN disk \ gone
      /\ \A g \in DOMAIN disk' :
           disk'[g] = IF g = target THEN [disk[g] EXCEPT !.whole = TRUE] ELSE disk[g]
      /\ job' = job /\ gstep' = gstep
  BY WrittenEffect
<1>2. phase = "write" /\ phase' = "next" /\ strayed' = strayed
  BY DEF Written
<1> SUFFICES ASSUME ~strayed, job.iterations = 1 PROVE (Rungs /\ Position /\ OnTheWay)'
  BY <1>1, <1>2 DEF LadderInv
<1>3. /\ Rungs /\ OnTheWay /\ Pending /\ gstep > 0 /\ gstep % job.saveEvery = 0
      /\ target.step = gstep
  BY <1>2 DEF LadderInv, Position, Pending
<1>4. job \in Jobs /\ gstep \in Nat /\ NamesInv /\ phase \notin Ended
  BY <1>2 DEF StepInv, CountsInv, DirInv, Ended
<1>5. job.saveEvery \in Nat \ {0} /\ KeepLastN \in Nat \ {0}
  BY <1>1, <1>4, JobsAssumption, KeptType DEF Job
<1>6. /\ \A f \in Saves : f \in DOMAIN disk /\ f.base = "checkpoint" /\ f.step \in Nat
      /\ \A f, g \in Saves : f.step = g.step => f = g
      /\ Named(Saves)
  BY <1>4, SavesFacts
<1>7. Position' /\ ~Pending'
  BY <1>2 DEF Position, Pending
<1>8. gone = Surplus(Saves, KeepLastN)
  BY DEF Saves
<1> HIDE DEF gone
<1>9. Saves' = Saves \ gone /\ target \in Saves
  BY <1>1 DEF Saves, Files
<1>10. \A f \in Saves' : (disk[f].whole => disk'[f].whole) /\ (f # target => disk'[f] = disk[f])
  <2>1. ASSUME NEW f \in Saves', disk[f].whole PROVE disk'[f].whole
    <3>1. f \in DOMAIN disk' /\ DOMAIN disk[f] = Fields
      BY <1>6, <1>9 DEF Saves, Files, StepInv, FilesInv, FileHoldsItsStep
    <3>2. [disk[f] EXCEPT !.whole = TRUE].whole
      BY <3>1 DEF Fields
    <3> QED BY <1>1, <2>1, <3>1, <3>2
  <2>2. \A f \in Saves' : f \in DOMAIN disk'
    BY DEF Saves, Files
  <2> QED BY <1>1, <2>1, <2>2
<1>11. target \in Saves' => disk'[target].whole
  <2> SUFFICES ASSUME target \in Saves' PROVE disk'[target].whole
    OBVIOUS
  <2>1. target \in DOMAIN disk' /\ DOMAIN disk[target] = Fields
    BY <1>1 DEF Saves, Files, StepInv, FilesInv, FileHoldsItsStep
  <2>2. [disk[target] EXCEPT !.whole = TRUE].whole
    BY <2>1 DEF Fields
  <2> QED BY <1>1, <2>1, <2>2
<1>12. CASE gstep < 10
  <2>1. DueKept
    BY <1>3, <1>4, <1>12 DEF OnTheWay
  <2>2. \A f \in Saves : f.step <= gstep
    BY <1>3, <1>12, <2>1, AllBehind
  <2>3. SortedAfter(target, Saves) = {}
    <3> SUFFICES ASSUME NEW g \in Saves, Precedes(target.step, g.step) PROVE FALSE
      BY DEF SortedAfter
    <3>1. g.step \in Nat /\ g.step <= gstep /\ g.step < 10
      BY <1>4, <1>6, <1>12, <2>2
    <3>2. Width(gstep) = Width(g.step)
      BY <1>4, <1>12, <3>1, OneDigit
    <3>3. gstep < g.step
      BY <1>3, <1>4, <3>1, <3>2, PrecedesTotal
    <3> QED BY <1>4, <3>1, <3>3
  <2>4. target \in Saves'
    BY <1>5, <1>6, <1>8, <1>9, <2>3, LastStays
  <2>5. \A f \in Saves' : f.step <= gstep /\ f.step \in Nat /\ ~(f.step > 9)
    BY <1>4, <1>6, <1>9, <1>12, <2>2
  <2>6. Due' = gstep
    <3>1. LastSaveAt(gstep) = gstep
      BY <1>3, <1>4, LastFacts
    <3> QED BY <1>1, <1>7, <3>1 DEF Due, LastSaveAt
  <2>7. DueKept'
    BY <1>3, <1>11, <2>4, <2>5, <2>6 DEF DueKept
  <2>8. Rungs'
    <3>1. \A f \in Saves' : f.step % job.saveEvery = 0 /\ f.step > 0
      BY <1>3, <1>9 DEF Rungs
    <3>2. \A f \in Saves' : gstep >= f.step - job.saveEvery
      BY <1>4, <1>5, <2>5
    <3> QED BY <1>1, <1>3, <1>11, <2>4, <2>5, <3>1, <3>2 DEF Rungs
  <2> QED BY <1>1, <1>4, <1>7, <1>12, <2>7, <2>8 DEF OnTheWay
<1>13. CASE ~(gstep < 10)
  <2>1. gstep > 9 /\ TopKept
    BY <1>3, <1>4, <1>13 DEF OnTheWay
  <2>2. LastSaveAt(9) \in Nat /\ LastSaveAt(9) <= 9 /\ LastSaveAt(9)' = LastSaveAt(9)
    BY <1>1, <1>4, LastFacts DEF LastSaveAt
  <2>3. \A f \in Saves : f.step < 10 => f.step <= LastSaveAt(9)
    <3> SUFFICES ASSUME NEW f \in Saves, f.step < 10 PROVE f.step <= LastSaveAt(9)
      OBVIOUS
    <3>1. f.step \in Nat /\ f.step <= 9 /\ f.step % job.saveEvery = 0
      BY <1>3, <1>6 DEF Rungs
    <3> QED BY <1>4, <3>1, LastOfMultiples
  <2>4. TopKept'
    <3>1. CASE \E f \in Saves : f.step = LastSaveAt(9) /\ disk[f].whole
      <4>1. PICK f \in Saves : f.step = LastSaveAt(9) /\ disk[f].whole
        BY <3>1
      <4>2. CASE f \notin gone
        BY <1>9, <1>10, <2>2, <4>1, <4>2 DEF TopKept
      <4>3. CASE f \in gone
        <5>1. ASSUME NEW g \in Saves', ~(g.step > 9) PROVE FALSE
          <6>1. g \in Saves \ Surplus(Saves, KeepLastN) /\ f \in Surplus(Saves, KeepLastN)
            BY <1>8, <1>9, <4>3
          <6>2. Precedes(f.step, g.step)
            BY <1>5, <1>6, <6>1, RemovedComesFirst
          <6>3. g.step \in Nat /\ f.step \in Nat /\ g.step < 10 /\ f.step < 10
            BY <1>6, <2>2, <4>1, <5>1, <6>1
          <6>4. Width(f.step) = Width(g.step)
            BY <6>3, OneDigit
          <6>5. f.step < g.step
            BY <6>2, <6>3, <6>4, PrecedesTotal
          <6>6. g.step <= f.step
            BY <2>3, <4>1, <6>1, <6>3
          <6> QED BY <6>3, <6>5, <6>6
        <5> QED BY <5>1 DEF TopKept
      <4> QED BY <4>2, <4>3
    <3>2. CASE \A f \in Saves : f.step > 9
      BY <1>9, <3>2 DEF TopKept
    <3> QED BY <2>1, <3>1, <3>2 DEF TopKept
  <2>5. Rungs'
    <3>1. \A f \in Saves' : /\ f.step % job.saveEvery = 0 /\ f.step > 0 /\ f.step \in Nat
                            /\ f.step < 10 => f.step <= LastSaveAt(9)
      BY <1>3, <1>6, <1>9, <2>3 DEF Rungs
    <3>2. ASSUME NEW f \in Saves', f.step < 10
          PROVE  \E g \in Saves' : disk'[g].whole /\ g.step >= f.step - job.saveEvery
      <4>1. ~(\A g \in Saves' : g.step > 9)
        BY <3>1, <3>2
      <4>2. PICK g \in Saves' : g.step = LastSaveAt(9) /\ disk'[g].whole
        BY <2>2, <2>4, <4>1 DEF TopKept
      <4>3. LastSaveAt(9) >= f.step - job.saveEvery
        BY <1>5, <2>2, <3>1, <3>2
      <4> QED BY <4>2, <4>3
    <3> QED BY <1>1, <2>4, <3>1, <3>2 DEF Rungs
  <2> QED BY <1>1, <1>7, <1>13, <2>1, <2>4, <2>5 DEF OnTheWay
<1> QED BY <1>12, <1>13

LEMMA LadderKept == StepInv /\ DirInv /\ LadderInv /\ [Next]_vars => LadderInv'
PROOF
<1> SUFFICES ASSUME StepInv, DirInv, LadderInv, [Next]_vars PROVE LadderInv'
  OBVIOUS
<1>1. CASE Begin
  BY <1>1, LadderBegins
<1>2. CASE \E f \in DOMAIN disk : Resume(f)
  BY <1>2, LadderResumes
<1>R. CASE ResumeExported
  BY <1>R DEF ResumeExported, LadderInv
<1>3. CASE UNCHANGED vars
  <2>1. Saves' = Saves /\ Pending' = Pending
    BY <1>3 DEF vars, Saves, Files, Pending
  <2>2. Due' = Due /\ TopKept' = TopKept
    BY <1>3, <2>1 DEF vars, Due, LastSaveAt, TopKept
  <2>3. DueKept' = DueKept
    BY <1>3, <2>1, <2>2 DEF vars, DueKept, LastSaveAt
  <2>4. Rungs' = Rungs
    BY <1>3, <2>1, <2>2 DEF vars, Rungs
  <2>5. Position' = Position
    BY <1>3, <2>1 DEF vars, Position
  <2> QED BY <1>3, <2>2, <2>3, <2>4, <2>5 DEF vars, LadderInv, OnTheWay
<1>4. CASE DryRun \/ Train \/ Crash
  <2>1. job' = job /\ strayed' = strayed
    BY <1>4 DEF DryRun, Crash, Train, Accumulate, OptimizerStep, NextBatch, EndEpoch,
                EndIteration, Evaluate, Save, SaveFinal, StartWriting, Written, Export
  <2> SUFFICES ASSUME ~strayed, job.iterations = 1 PROVE LadderInv'
    BY <2>1 DEF LadderInv
  <2>2. /\ job \in Jobs /\ gstep \in Nat /\ iteration \in Nat /\ NamesInv
        /\ job.saveEvery \in Nat \ {0}
    BY JobsAssumption DEF Job, StepInv, CountsInv, DirInv
  <2>3. Rungs /\ Position /\ OnTheWay
    BY DEF LadderInv
  <2>4. /\ \A n : AfterEvaluation(n) \in {"save", "next"}
        /\ \A n : AfterEvaluation(n) = "save" <=> n % job.saveEvery = 0
    BY DEF AfterEvaluation
  <2>5. ASSUME gstep > 0, gstep % job.saveEvery # 0 PROVE LastSaveAt(gstep) = LastSaveAt(gstep - 1)
    <3> DEFINE n == gstep - 1
    <3>1. n \in Nat /\ n + 1 = gstep
      BY <2>2, <2>5
    <3> HIDE DEF n
    <3>2. LastSaveAt(n + 1) = LastSaveAt(n)
      BY <2>2, <2>5, <3>1, LastFacts
    <3> QED BY <3>1, <3>2 DEF n
  <2>A. ASSUME disk' = disk PROVE Saves' = Saves /\ \A f \in Saves : disk'[f] = disk[f]
    BY <2>A DEF Saves, Files
  <2>6. CASE DryRun \/ Crash \/ Export
    <3>1. disk' = disk /\ phase' \in Ended /\ phase' \notin {"evaluate", "save", "write"}
      BY <2>6 DEF DryRun, Crash, Export, Ended
    <3>2. Position'
      BY <3>1 DEF Position, Pending
    <3> QED BY <2>1, <2>A, <3>1, <3>2, SavesAlone
  <2>7. CASE Accumulate \/ NextBatch \/ EndEpoch
    <3>1. /\ disk' = disk /\ gstep' = gstep /\ phase \in {"batch", "next"}
          /\ phase' \in {"batch", "ended"}
      BY <2>7 DEF Accumulate, NextBatch, EndEpoch
    <3>2. Position' /\ ~Pending /\ ~Pending' /\ phase \notin Ended
      BY <3>1 DEF Position, Pending, Ended
    <3>3. Due' = Due
      BY <2>1, <3>1, <3>2 DEF Due, LastSaveAt
    <3> QED BY <2>1, <2>A, <3>1, <3>2, <3>3, SavesAlone
  <2>8. CASE EndIteration
    <3>1. /\ disk' = disk /\ gstep' = gstep /\ phase = "ended" /\ phase' = "final"
      BY <2>2, <2>8 DEF EndIteration
    <3>2. Position' /\ ~Pending /\ ~Pending' /\ phase \notin Ended
      BY <3>1 DEF Position, Pending, Ended
    <3>3. Due' = Due
      BY <2>1, <3>1, <3>2 DEF Due, LastSaveAt
    <3> QED BY <2>1, <2>A, <3>1, <3>2, <3>3, SavesAlone
  <2>9. CASE OptimizerStep
    <3>1. /\ disk' = disk /\ gstep' = gstep + 1 /\ phase = "batch"
          /\ phase' = AfterStep(gstep + 1)
      BY <2>9 DEF OptimizerStep
    <3>2. /\ phase' \in {"evaluate", "save", "next"}
          /\ phase' = "save" => (gstep + 1) % job.saveEvery = 0
          /\ phase' = "next" => (gstep + 1) % job.saveEvery # 0
      BY <2>4, <3>1 DEF AfterStep
    <3>3. ~Pending /\ phase \notin Ended /\ Position'
      BY <2>1, <2>2, <3>1, <3>2 DEF Position, Pending, Ended
    <3>4. Due = LastSaveAt(gstep)
      BY <3>3 DEF Due
    <3>5. Due' = Due
      <4>1. CASE phase' = "next"
        <5>1. LastSaveAt(gstep + 1) = LastSaveAt(gstep) /\ ~Pending'
          BY <2>2, <3>2, <4>1, LastFacts DEF Pending
        <5> QED BY <2>1, <3>1, <3>4, <5>1 DEF Due, LastSaveAt
      <4>2. CASE phase' # "next"
        <5>1. Pending' /\ gstep' - 1 = gstep
          BY <2>2, <3>1, <3>2, <4>2 DEF Pending
        <5> QED BY <2>1, <3>4, <5>1 DEF Due, LastSaveAt
      <4> QED BY <4>1, <4>2
    <3>6. Saves' = Saves
      BY <2>A, <3>1
    <3>7. TopKept' = TopKept
      BY <2>1, <3>1, <3>6 DEF TopKept, LastSaveAt
    <3>8. DueKept' = DueKept
      BY <2>1, <3>1, <3>5, <3>6 DEF DueKept, LastSaveAt
    <3>9. Rungs'
      BY <2>1, <2>3, <3>1, <3>6, <3>7 DEF Rungs
    <3>10. CASE gstep + 1 < 10
      BY <2>2, <2>3, <3>1, <3>3, <3>8, <3>9, <3>10 DEF LadderInv, OnTheWay
    <3>11. CASE gstep > 9
      BY <2>2, <2>3, <3>1, <3>3, <3>7, <3>9, <3>11 DEF LadderInv, OnTheWay
    <3>12. CASE gstep = 9
      <4>1. DueKept /\ Due = LastSaveAt(9)
        BY <2>3, <3>3, <3>4, <3>12 DEF OnTheWay
      <4>2. TopKept
        <5>1. CASE \E f \in Saves : disk[f].whole /\ f.step = Due
          BY <4>1, <5>1 DEF TopKept
        <5>2. CASE Due = 0
          <6> SUFFICES ASSUME NEW f \in Saves, ~(f.step > 9) PROVE FALSE
            BY DEF TopKept
          <6>1. f.step \in Nat /\ f.step % job.saveEvery = 0 /\ f.step > 0
            BY <2>2, <2>3, SavesFacts DEF Rungs
          <6>2. f.step <= 9
            BY <6>1
          <6>3. f.step <= LastSaveAt(9)
            BY <2>2, <6>1, <6>2, LastOfMultiples
          <6> QED BY <4>1, <5>2, <6>1, <6>3
        <5> QED BY <4>1, <5>1, <5>2 DEF DueKept
      <4> QED BY <3>1, <3>3, <3>7, <3>9, <3>12, <4>2 DEF LadderInv, OnTheWay
    <3> QED BY <2>2, <3>10, <3>11, <3>12
  <2>10. CASE \E loss \in Losses : Evaluate(loss)
    <3>1. PICK loss \in Losses : Evaluate(loss)
      BY <2>10
    <3>2. phase = "evaluate" /\ Pending /\ phase \notin Ended /\ gstep > 0
      BY <2>3, <3>1 DEF Evaluate, Pending, Position, Ended
    <3>3. CASE StartWriting("checkpoint_best", epoch)
      <4> DEFINE h == [base |-> "checkpoint_best", step |-> gstep]
                 c == [epoch |-> epoch, gstep |-> gstep, sched |-> sched,
                       loss |-> best', whole |-> FALSE]
      <4>1. /\ gstep' = gstep /\ phase' = "write" /\ target' = h
            /\ disk' = [g \in DOMAIN disk \cup {h} |-> IF g = h THEN c ELSE disk[g]]
        BY <3>3 DEF StartWriting
      <4>2. h.base = "checkpoint_best" /\ h.step = gstep
        OBVIOUS
      <4> HIDE DEF h, c
      <4>3. Saves' = Saves /\ \A f \in Saves : disk'[f] = disk[f]
        BY <4>1, <4>2 DEF Saves, Files
      <4>4. Position' /\ Pending'
        BY <3>2, <4>1, <4>2 DEF Position, Pending
      <4>5. Due' = Due
        BY <2>1, <3>2, <4>1, <4>4 DEF Due, LastSaveAt
      <4> QED BY <2>1, <3>2, <4>1, <4>3, <4>4, <4>5, SavesAlone
    <3>4. CASE ~Improves(loss)
      <4>1. disk' = disk /\ gstep' = gstep /\ phase' = AfterEvaluation(gstep)
        BY <3>1, <3>4 DEF Evaluate
      <4>2. /\ phase' \in {"save", "next"}
            /\ phase' = "save" => gstep % job.saveEvery = 0
            /\ phase' = "next" => gstep % job.saveEvery # 0
        BY <2>4, <4>1
      <4>3. Position' /\ (Pending' <=> phase' = "save")
        BY <2>1, <3>2, <4>1, <4>2 DEF Position, Pending
      <4>4. Due' = Due
        BY <2>1, <2>5, <3>2, <4>1, <4>2, <4>3 DEF Due, LastSaveAt
      <4> QED BY <2>1, <2>A, <3>2, <4>1, <4>3, <4>4, SavesAlone
    <3> QED BY <3>1, <3>3, <3>4 DEF Evaluate
  <2>11. CASE Save
    BY <2>11, SaveKeepsLadder
  <2>12. CASE SaveFinal
    <3> DEFINE h == [base |-> "checkpoint_final", step |-> gstep]
               c == [epoch |-> start, gstep |-> gstep, sched |-> sched,
                     loss |-> best', whole |-> FALSE]
    <3>1. /\ gstep' = gstep /\ phase' = "write" /\ target' = h /\ phase = "final"
          /\ disk' = [g \in DOMAIN disk \cup {h} |-> IF g = h THEN c ELSE disk[g]]
      BY <2>12 DEF SaveFinal, StartWriting
    <3>2. h.base = "checkpoint_final" /\ h.step = gstep
      OBVIOUS
    <3> HIDE DEF h, c
    <3>3. Saves' = Saves /\ \A f \in Saves : disk'[f] = disk[f]
      BY <3>1, <3>2 DEF Saves, Files
    <3>4. Position' /\ ~Pending' /\ ~Pending /\ phase \notin Ended
      BY <3>1, <3>2 DEF Position, Pending, Ended
    <3>5. Due' = Due
      BY <2>1, <3>1, <3>4 DEF Due, LastSaveAt
    <3> QED BY <2>1, <3>1, <3>3, <3>4, <3>5, SavesAlone
  <2>13. CASE Written
    <3>1. CASE target.base = "checkpoint"
      BY <2>13, <3>1, WrittenKeepsLadder
    <3>2. CASE target.base # "checkpoint"
      <4> DEFINE gone == Surplus(Files(target.base), KeepLastN)
      <4>1. /\ target.base \in Bases
            /\ DOMAIN disk' = DOMAIN disk \ gone
            /\ \A g \in DOMAIN disk' :
                 disk'[g] = IF g = target THEN [disk[g] EXCEPT !.whole = TRUE] ELSE disk[g]
            /\ gstep' = gstep
        BY <2>13, WrittenEffect
      <4>2. gone \subseteq Files(target.base)
        BY DEF Surplus
      <4>3. Saves' = Saves
        BY <3>2, <4>1, <4>2 DEF Saves, Files
      <4>4. \A f \in Saves : disk'[f] = disk[f]
        <5>1. \A f \in Saves : f.base = "checkpoint" /\ f \in DOMAIN disk'
          BY <4>3 DEF Saves, Files
        <5> QED BY <3>2, <4>1, <5>1
      <4>5. phase = "write" /\ phase \notin Ended
        BY <2>13 DEF Written, Ended
      <4>6. CASE target.base = "checkpoint_best"
        <5>1. phase' = AfterEvaluation(gstep) /\ Pending /\ gstep > 0
          BY <2>3, <2>13, <4>5, <4>6 DEF Written, Pending, Position
        <5>2. /\ phase' \in {"save", "next"}
              /\ phase' = "save" => gstep % job.saveEvery = 0
              /\ phase' = "next" => gstep % job.saveEvery # 0
          BY <2>4, <5>1
        <5>3. Position' /\ (Pending' <=> phase' = "save")
          BY <2>1, <4>1, <5>1, <5>2 DEF Position, Pending
        <5>4. Due' = Due
          BY <2>1, <2>5, <4>1, <5>1, <5>2, <5>3 DEF Due, LastSaveAt
        <5> QED BY <2>1, <4>1, <4>3, <4>4, <4>5, <5>3, <5>4, SavesAlone
      <4>7. CASE target.base = "checkpoint_final"
        <5>1. phase' \in {"export", "done"}
          BY <2>13, <4>7 DEF Written
        <5>2. Position' /\ ~Pending /\ ~Pending'
          BY <4>5, <4>7, <5>1 DEF Position, Pending
        <5>3. Due' = Due
          BY <2>1, <4>1, <5>2 DEF Due, LastSaveAt
        <5> QED BY <2>1, <4>1, <4>3, <4>4, <4>5, <5>2, <5>3, SavesAlone
      <4> QED BY <3>2, <4>1, <4>6, <4>7 DEF Bases
    <3> QED BY <3>1, <3>2
  <2> QED BY <1>4, <2>6, <2>7, <2>8, <2>9, <2>10, <2>11, <2>12, <2>13 DEF Train
<1> QED BY <1>1, <1>2, <1>R, <1>3, <1>4 DEF Next

(* While steps have one digit, a run whose processes all went on from the  *)
(* newest checkpoint has a complete checkpoint at most save_every steps    *)
(* back, however often it is killed, inside torch.save too.                *)
THEOREM TrainingProgress == Spec => []ProgressKept
PROOF
<1>1. Init => LadderInv
  <2> SUFFICES ASSUME Init PROVE Rungs /\ Position /\ OnTheWay
    BY DEF LadderInv
  <2>1. DOMAIN disk = {} /\ phase = "down"
    BY DEF Init
  <2>2. Saves = {}
    BY <2>1 DEF Saves, Files
  <2> QED BY <2>1, <2>2 DEF Rungs, Position, Pending, OnTheWay, Ended
<1>2. StepInv /\ DirInv /\ LadderInv /\ [Next]_vars => LadderInv'
  BY LadderKept
<1>3. StepInv /\ DirInv /\ LadderInv => ProgressKept
  <2> SUFFICES ASSUME StepInv, DirInv, LadderInv, phase \notin Ended, ~strayed,
                      job.iterations = 1, gstep > job.saveEvery, Width(gstep) = 1
               PROVE  \E f \in Files("checkpoint") :
                        disk[f].whole /\ f.step >= gstep - job.saveEvery
    BY DEF ProgressKept
  <2>1. job \in Jobs /\ gstep \in Nat /\ job.saveEvery \in Nat \ {0}
    BY JobsAssumption DEF Job, StepInv, CountsInv
  <2>2. DueKept
    BY <2>1, OneDigit DEF LadderInv, OnTheWay
  <2>3. Due \in Nat /\ gstep <= Due + job.saveEvery
    <3>1. CASE Pending
      <4> DEFINE n == gstep - 1
      <4>1. n \in Nat /\ n + 1 = gstep /\ Due = LastSaveAt(n)
        BY <2>1, <3>1 DEF Due
      <4> HIDE DEF n
      <4> QED BY <2>1, <4>1, LastFacts
    <3>2. CASE ~Pending
      <4>1. Due = LastSaveAt(gstep) /\ LastSaveAt(gstep) \in Nat /\ gstep + 1 <= LastSaveAt(gstep) + job.saveEvery
        BY <2>1, <3>2, LastFacts DEF Due
      <4> QED BY <2>1, <4>1
    <3> QED BY <3>1, <3>2
  <2>4. Due # 0 /\ Due >= gstep - job.saveEvery
    BY <2>1, <2>3
  <2>5. PICK f \in Saves : disk[f].whole /\ f.step = Due
    BY <2>2, <2>4 DEF DueKept
  <2> QED BY <2>4, <2>5 DEF Saves
<1> QED BY <1>1, <1>2, <1>3, StepInvariant, DirInvariant, PTL DEF Spec
=============================================================================
