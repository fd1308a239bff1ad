------------------------------- MODULE TtyProofs ------------------------------
(***************************************************************************)
(* Proofs about module Tty for a ring of any size, any set of bytes and    *)
(* readers: its types, the agreement of its counters, that a single reader *)
(* loses no wake, and that it implements LineQueue.                        *)
(***************************************************************************)
EXTENDS Tty, FiniteSetTheorems, SequenceTheorems, TLAPS

(* The bytes in the ring from tail on.                                     *)
Byte == [k \in 1..N |-> ring[Wrap(tail + k - 1)]]

(* The line ends among the committed bytes.                                *)
LineEnds == {k \in 1..committed : Byte[k] = NL}

(* CountersAgree, byte by byte.                                            *)
Indices == head = Wrap(tail + committed + edit) /\ committed + edit < N
Ended == committed > 0 => Byte[committed] = NL
EditHasNoNL == \A k \in 1..edit : Byte[committed + k] # NL

(* A reader inside tty_read asked for at least one byte.                   *)
WantsSome == \A r \in Readers : st[r] # "user" => want[r] \in 1..MaxSize

TtyInv ==
  /\ TypeOK
  /\ Indices
  /\ lines = Cardinality(LineEnds)
  /\ Ended
  /\ EditHasNoNL
  /\ WantsSome

LEMMA PendingIsByte == \A k \in 1..N : Pending(k) = Byte[k]
BY DEF Pending, Byte

LEMMA CountersOfInv ==
  ASSUME TypeOK, Indices
  PROVE  CountersAgree <=> /\ lines = Cardinality(LineEnds)
                           /\ Ended
                           /\ EditHasNoNL
PROOF
<1>0. committed \in Nat /\ edit \in Nat /\ committed + edit < N
  BY DEF TypeOK, Indices
<1>1. \A k \in 1..committed : Committed[k] = Byte[k]
  BY <1>0, PendingIsByte, TtyAssumption DEF Committed
<1>2. \A k \in 1..edit : Editing[k] = Byte[committed + k]
  BY <1>0, PendingIsByte, TtyAssumption DEF Editing
<1>3. {k \in 1..committed : Committed[k] = NL} = LineEnds
  BY <1>1 DEF LineEnds
<1>4. (committed > 0 => Committed[committed] = NL) <=> Ended
  BY <1>0, <1>1 DEF Ended
<1>5. (\A k \in 1..edit : Editing[k] # NL) <=> EditHasNoNL
  BY <1>2 DEF EditHasNoNL
<1> QED BY <1>3, <1>4, <1>5 DEF CountersAgree, Indices

(* Positions in the window between tail and head are distinct slots.       *)
LEMMA Slot ==
  ASSUME NEW t \in 0..(N - 1)
  PROVE  /\ \A k \in 1..N : Wrap(t + k - 1) \in 0..(N - 1)
         /\ \A j, k \in 1..N : Wrap(t + j - 1) = Wrap(t + k - 1) => j = k
         /\ \A k \in 0..(N - 1) : Wrap(t + k) \in 0..(N - 1)
BY TtyAssumption DEF Wrap

(* After k bytes are read, the window begins k bytes later.                *)
LEMMA Shift ==
  ASSUME NEW t \in 0..(N - 1), NEW k \in 0..(N - 1), NEW j \in 1..N, k + j <= N
  PROVE  Wrap(Wrap(t + k) + j - 1) = Wrap(t + (k + j) - 1)
BY TtyAssumption DEF Wrap

LEMMA LineEndsFinite ==
  ASSUME committed \in Nat
  PROVE  IsFiniteSet(LineEnds)
PROOF
<1>1. IsFiniteSet(1..committed)
  BY FS_Interval
<1> QED BY <1>1, FS_Subset DEF LineEnds

(* The invariant depends on the buffer and on the readers apart.           *)
LEMMA SameBuffer ==
  ASSUME UNCHANGED <<ring, indices>>
  PROVE  /\ Byte' = Byte
         /\ Indices => Indices'
         /\ lines = Cardinality(LineEnds) => (lines = Cardinality(LineEnds))'
         /\ Ended => Ended'
         /\ EditHasNoNL => EditHasNoNL'
PROOF
<1>1. UNCHANGED <<ring, head, tail, committed, lines, edit>>
  BY DEF indices
<1>2. Byte' = Byte
  BY <1>1 DEF Byte, Wrap
<1>3. LineEnds' = LineEnds
  BY <1>1, <1>2 DEF LineEnds
<1> QED BY <1>1, <1>2, <1>3 DEF Indices, Wrap, Ended, EditHasNoNL

LEMMA TtyInit == Init => TtyInv
PROOF
<1> SUFFICES ASSUME Init PROVE TtyInv
  OBVIOUS
<1>1. TypeOK
  BY TtyAssumption DEF Init, TypeOK
<1>2. Indices
  BY TtyAssumption DEF Init, Indices, Wrap
<1>3. LineEnds = {}
  BY DEF Init, LineEnds
<1>4. lines = Cardinality(LineEnds)
  BY <1>3, FS_EmptySet DEF Init
<1> QED BY <1>1, <1>2, <1>4 DEF TtyInv, Init, Ended, EditHasNoNL, WantsSome

-----------------------------------------------------------------------------
LEMMA TtyErase == TtyInv /\ Erase => TtyInv'
PROOF
<1> SUFFICES ASSUME TtyInv, Erase PROVE TtyInv'
  OBVIOUS
<1> USE TtyAssumption
<1>1. /\ edit' = edit - 1 /\ edit > 0 /\ head' = Wrap(head + N - 1)
      /\ UNCHANGED <<ring, tail, committed, lines, waiter, st, want, got>>
  BY DEF Erase, readerVars
<1>2. TypeOK'
  BY <1>1 DEF TtyInv, TypeOK, Wrap
<1>3. Indices'
  BY <1>1 DEF TtyInv, TypeOK, Indices, Wrap
<1>4. Byte' = Byte
  BY <1>1 DEF Byte, Wrap
<1>5. LineEnds' = LineEnds
  BY <1>1, <1>4 DEF LineEnds
<1>6. Ended' /\ EditHasNoNL'
  BY <1>1, <1>4 DEF TtyInv, TypeOK, Ended, EditHasNoNL
<1> QED BY <1>1, <1>2, <1>3, <1>5, <1>6 DEF TtyInv, WantsSome

(* Put writes one byte behind the window and leaves the window as it was.  *)
LEMMA PutFacts ==
  ASSUME TtyInv, NEW c \in Chars, Put(c)
  PROVE  /\ ring' \in [0..(N - 1) -> Chars]
         /\ head' = Wrap(tail + (committed + edit + 1))
         /\ head' \in 0..(N - 1)
         /\ committed + edit + 1 < N
         /\ tail' = tail
         /\ \A k \in 1..(committed + edit) : Byte'[k] = Byte[k]
         /\ Byte'[committed + edit + 1] = c
PROOF
<1> USE TtyAssumption
<1>1. /\ ring' = [ring EXCEPT ![head] = c] /\ head' = Wrap(head + 1) /\ tail' = tail
      /\ Wrap(head + 1) # tail
  BY DEF Put, Full
<1>2. /\ head = Wrap(tail + committed + edit) /\ committed + edit < N
      /\ committed \in Nat /\ edit \in Nat /\ head \in 0..(N - 1) /\ tail \in 0..(N - 1)
      /\ ring \in [0..(N - 1) -> Chars]
  BY DEF TtyInv, TypeOK, Indices
<1>3. /\ head' = Wrap(tail + (committed + edit + 1)) /\ head' \in 0..(N - 1)
      /\ committed + edit + 1 < N
  BY <1>1, <1>2 DEF Wrap
<1>4. head = Wrap(tail + (committed + edit + 1) - 1)
  BY <1>2
<1>5. \A k \in 1..(committed + edit) : Wrap(tail + k - 1) \in 0..(N - 1) /\ Wrap(tail + k - 1) # head
  BY <1>2, <1>4 DEF Wrap
<1>6. \A k \in 1..N : Byte[k] = ring[Wrap(tail + k - 1)] /\ Byte'[k] = ring'[Wrap(tail + k - 1)]
  BY <1>1 DEF Byte, Wrap
<1>7. \A k \in 1..(committed + edit) : Byte'[k] = Byte[k]
  BY <1>1, <1>2, <1>5, <1>6, SMTT(30)
<1>8. Byte'[committed + edit + 1] = c
  BY <1>1, <1>2, <1>3, <1>4, <1>6
<1> QED BY <1>1, <1>2, <1>3, <1>7, <1>8

LEMMA TtyType == ASSUME TtyInv, NEW c \in Chars, Type(c) PROVE TtyInv'
PROOF
<1> USE TtyAssumption
<1>1. /\ c # NL /\ Put(c) /\ edit' = edit + 1
      /\ UNCHANGED <<tail, want, got, committed, lines, waiter, st>>
  BY DEF Type, Put
<1>2. committed \in Nat /\ edit \in Nat /\ lines \in Nat
  BY DEF TtyInv, TypeOK
<1>3. TypeOK'
  BY <1>1, <1>2, PutFacts DEF TtyInv, TypeOK
<1>4. Indices'
  <2>1. head' = Wrap(tail + (committed + edit + 1)) /\ committed + edit + 1 < N /\ tail' = tail
    BY <1>1, PutFacts
  <2>2. tail' \in Nat /\ N \in Nat
    BY <1>3, TtyAssumption DEF TypeOK
  <2>3. committed' + edit' = committed + edit + 1 /\ tail' + committed' + edit' = tail + (committed + edit + 1)
    BY <1>1, <1>2, <2>1, <2>2
  <2> QED BY <2>1, <2>3 DEF Indices, Wrap
<1>5. \A k \in 1..(committed + edit) : Byte'[k] = Byte[k]
  BY <1>1, PutFacts
<1>6. LineEnds' = LineEnds
  BY <1>1, <1>2, <1>5 DEF LineEnds
<1>7. Ended'
  BY <1>1, <1>2, <1>5 DEF TtyInv, Ended
<1>8. EditHasNoNL'
  <2>1. Byte'[committed + edit + 1] # NL
    BY <1>1, PutFacts
  <2> QED BY <1>1, <1>2, <1>5, <2>1 DEF TtyInv, EditHasNoNL
<1> QED BY <1>1, <1>3, <1>4, <1>6, <1>7, <1>8 DEF TtyInv, WantsSome

LEMMA WakeWaiterFacts ==
  ASSUME TypeOK
  PROVE  /\ WakeWaiter \in [Readers -> {"user", "READY", "BLOCKED"}]
         /\ \A r \in Readers : WakeWaiter[r] = "user" <=> st[r] = "user"
         /\ \A r \in Readers : WakeWaiter[r] = "BLOCKED" => st[r] = "BLOCKED" /\ r # waiter
BY TtyAssumption DEF TypeOK, WakeWaiter

LEMMA TtyEnter == TtyInv /\ Enter => TtyInv'
PROOF
<1> USE TtyAssumption
<1> SUFFICES ASSUME TtyInv, Enter PROVE TtyInv'
  OBVIOUS
<1>1. /\ Put(NL) /\ committed' = committed + (edit + 1) /\ edit' = 0 /\ lines' = lines + 1
      /\ waiter' = NULL /\ st' = WakeWaiter /\ tail' = tail /\ want' = want
  BY DEF Enter, Put, LineBytes
<1>2. committed \in Nat /\ edit \in Nat /\ lines \in Nat /\ TypeOK
  BY DEF TtyInv, TypeOK
<1>3. TypeOK'
  BY <1>1, <1>2, PutFacts, WakeWaiterFacts DEF TypeOK
<1>4. Indices'
  <2>1. head' = Wrap(tail + (committed + edit + 1)) /\ committed + edit + 1 < N /\ tail' = tail
    BY <1>1, PutFacts
  <2>2. tail' \in Nat /\ N \in Nat
    BY <1>3, TtyAssumption DEF TypeOK
  <2>3. committed' + edit' = committed + edit + 1 /\ tail' + committed' + edit' = tail + (committed + edit + 1)
    BY <1>1, <1>2, <2>1, <2>2
  <2> QED BY <2>1, <2>3 DEF Indices, Wrap
<1>5. /\ \A k \in 1..(committed + edit) : Byte'[k] = Byte[k]
      /\ Byte'[committed + edit + 1] = NL
  BY <1>1, PutFacts
<1>6. LineEnds' = LineEnds \cup {committed + edit + 1}
  <2>1. \A k \in 1..(committed + edit) : Byte'[k] = NL <=> k \in LineEnds
    <3> TAKE k \in 1..(committed + edit)
    <3>1. CASE k \in 1..committed
      BY <1>2, <1>5, <3>1 DEF LineEnds
    <3>2. CASE k > committed
      <4>1. k - committed \in 1..edit /\ committed + (k - committed) = k
        BY <1>2, <3>2
      <4>2. Byte[k] # NL
        BY <4>1 DEF TtyInv, EditHasNoNL
      <4> QED BY <1>2, <1>5, <3>2, <4>2 DEF LineEnds
    <3> QED BY <1>2, <3>1, <3>2
  <2> QED BY <1>1, <1>2, <1>5, <2>1 DEF LineEnds
<1>7. committed + edit + 1 \notin LineEnds
  BY <1>2 DEF LineEnds
<1>8. (lines = Cardinality(LineEnds))'
  BY <1>1, <1>2, <1>6, <1>7, LineEndsFinite, FS_AddElement DEF TtyInv
<1>9. Ended'
  BY <1>1, <1>2, <1>5 DEF Ended
<1>10. EditHasNoNL'
  BY <1>1 DEF EditHasNoNL
<1>11. WantsSome'
  BY <1>1, <1>2, WakeWaiterFacts DEF TtyInv, WantsSome
<1> QED BY <1>3, <1>4, <1>8, <1>9, <1>10, <1>11 DEF TtyInv

-----------------------------------------------------------------------------
(* What is known of the k at which a copy loop stops.                      *)
CopyOf(r, size, k) ==
  /\ k \in 1..committed
  /\ Stops(k, size)
  /\ \A j \in 1..(k - 1) : ~Stops(j, size)
  /\ got' = [got EXCEPT ![r] = [j \in 1..k |-> Pending(j)]]
  /\ tail' = Wrap(tail + k)
  /\ committed' = committed - k
  /\ lines' = IF Pending(k) = NL THEN lines - 1 ELSE lines
  /\ st' = [st EXCEPT ![r] = "user"]
  /\ UNCHANGED <<ring, head, edit, waiter>>

LEMMA CopyOutIsCopyOf ==
  ASSUME NEW r, NEW size, CopyOut(r, size)
  PROVE  \E k : CopyOf(r, size, k)
BY DEF CopyOut, CopyOf

(* The window after a copy of k bytes is the window before, from k on.     *)
LEMMA CopyWindow ==
  ASSUME TtyInv, NEW r, NEW size \in 1..MaxSize, NEW k, CopyOf(r, size, k)
  PROVE  /\ k \in Nat /\ k >= 1 /\ k <= committed /\ committed < N
         /\ committed \in Nat /\ edit \in Nat /\ lines \in Nat
         /\ committed' = committed - k /\ edit' = edit
         /\ lines' = IF Byte[k] = NL THEN lines - 1 ELSE lines
         /\ tail' \in 0..(N - 1)
         /\ \A j \in 1..(N - k) : Byte'[j] = Byte[k + j]
         /\ \A j \in 1..(k - 1) : Byte[j] # NL
         /\ \A j \in 1..(k - 1) : j < size
         /\ k <= size
         /\ Byte[k] = NL \/ k = size \/ k = committed
PROOF
<1> USE TtyAssumption
<1>1. /\ committed \in Nat /\ edit \in Nat /\ lines \in Nat /\ tail \in 0..(N - 1)
      /\ committed + edit < N /\ committed < N
  BY DEF TtyInv, TypeOK, Indices
<1>2. /\ k \in 1..committed /\ Stops(k, size)
      /\ \A j \in 1..(k - 1) : ~Stops(j, size)
      /\ tail' = Wrap(tail + k) /\ committed' = committed - k
      /\ lines' = IF Pending(k) = NL THEN lines - 1 ELSE lines
      /\ ring' = ring /\ edit' = edit
  BY DEF CopyOf
<1>3. \A j \in 1..committed : Pending(j) = Byte[j]
  BY <1>1, PendingIsByte
<1>4. tail' \in 0..(N - 1)
  BY <1>1, <1>2 DEF Wrap
<1>5. \A j \in 1..(N - k) : Byte'[j] = Byte[k + j]
  <2> TAKE j \in 1..(N - k)
  <2>1. j \in 1..N /\ k + j \in 1..N
    BY <1>1, <1>2
  <2>2. Byte'[j] = ring[Wrap(Wrap(tail + k) + j - 1)]
    BY <1>2, <2>1 DEF Byte, Wrap
  <2>3. Byte[k + j] = ring[Wrap(tail + (k + j) - 1)]
    BY <2>1 DEF Byte
  <2>4. Wrap(Wrap(tail + k) + j - 1) = Wrap(tail + (k + j) - 1)
    BY <1>1, <1>2 DEF Wrap
  <2> QED BY <2>2, <2>3, <2>4
<1>6. \A j \in 1..(k - 1) : j # size /\ Byte[j] # NL
  BY <1>1, <1>2, <1>3 DEF Stops
<1>7. k <= size
  <2> SUFFICES ASSUME k > size PROVE FALSE
    BY <1>2
  <2>1. size \in 1..(k - 1)
    BY <1>1, <1>2
  <2> QED BY <1>6, <2>1
<1>8. Byte[k] = NL \/ k = size \/ k = committed
  BY <1>2, <1>3 DEF Stops
<1> QED BY <1>1, <1>2, <1>3, <1>4, <1>5, <1>6, <1>7, <1>8

LEMMA CopyBytes ==
  ASSUME TtyInv, NEW r, NEW size \in 1..MaxSize, NEW k, CopyOf(r, size, k)
  PROVE  \A j \in 1..(N - k) : Byte'[j] = Byte[k + j]
BY CopyWindow

(* Shifting a set of positions by k keeps its size.                        *)
LEMMA ShiftedCardinality ==
  ASSUME NEW k \in Nat, NEW S, IsFiniteSet(S), S \subseteq Nat,
         NEW T, T = {k + j : j \in S}
  PROVE  IsFiniteSet(T) /\ Cardinality(T) = Cardinality(S)
PROOF
<1> DEFINE f == [j \in S |-> k + j]
<1>1. f \in Bijection(S, T)
  <2>1. f \in [S -> T]
    OBVIOUS
  <2>2. \A i, j \in S : f[i] = f[j] => i = j
    OBVIOUS
  <2>3. \A t \in T : \E j \in S : f[j] = t
    OBVIOUS
  <2> QED BY <2>1, <2>2, <2>3 DEF Bijection, Injection, Surjection, IsInjective
<1>2. ExistsBijection(S, T)
  BY <1>1 DEF ExistsBijection
<1> QED BY <1>2, FS_Bijection

LEMMA CopyLines ==
  ASSUME TtyInv, NEW r, NEW size \in 1..MaxSize, NEW k, CopyOf(r, size, k)
  PROVE  /\ (lines = Cardinality(LineEnds))'
         /\ lines' \in Nat
PROOF
<1> DEFINE T == {j \in (k + 1)..committed : Byte[j] = NL}
<1>0. lines = Cardinality(LineEnds)
  BY DEF TtyInv
<1>1. /\ k \in Nat /\ k >= 1 /\ k <= committed /\ committed < N /\ committed \in Nat
      /\ committed' = committed - k /\ lines \in Nat
      /\ lines' = IF Byte[k] = NL THEN lines - 1 ELSE lines
      /\ \A j \in 1..(N - k) : Byte'[j] = Byte[k + j]
      /\ \A j \in 1..(k - 1) : Byte[j] # NL
  <2>1. /\ k \in Nat /\ k >= 1 /\ k <= committed /\ committed < N /\ committed \in Nat
        /\ committed' = committed - k /\ lines \in Nat
    BY CopyWindow
  <2>2. lines' = IF Byte[k] = NL THEN lines - 1 ELSE lines
    BY CopyWindow
  <2>3. \A j \in 1..(N - k) : Byte'[j] = Byte[k + j]
    BY CopyWindow
  <2>4. \A j \in 1..(k - 1) : Byte[j] # NL
    BY CopyWindow
  <2> QED BY <2>1, <2>2, <2>3, <2>4
<1> USE TtyAssumption
<1>2. LineEnds' \subseteq Nat /\ committed' \in Nat
  BY <1>1 DEF LineEnds
<1>3. T = {k + j : j \in LineEnds'}
  <2>1. ASSUME NEW j \in LineEnds' PROVE k + j \in T
    BY <1>1, <2>1 DEF LineEnds
  <2>2. ASSUME NEW t \in T PROVE \E j \in LineEnds' : t = k + j
    <3>1. t - k \in 1..committed' /\ t = k + (t - k) /\ t - k \in 1..(N - k)
      BY <1>1, <2>2
    <3>2. Byte'[t - k] = NL
      BY <1>1, <2>2, <3>1
    <3>3. t - k \in LineEnds'
      BY <3>1, <3>2 DEF LineEnds
    <3> QED BY <3>1, <3>3
  <2> QED BY <2>1, <2>2
<1>4. IsFiniteSet(LineEnds')
  <2>1. IsFiniteSet(1..committed')
    BY <1>2, FS_Interval
  <2>2. LineEnds' \subseteq 1..committed'
    BY DEF LineEnds
  <2> QED BY <2>1, <2>2, FS_Subset
<1>5. IsFiniteSet(T) /\ Cardinality(T) = Cardinality(LineEnds')
  <2>1. k \in Nat /\ LineEnds' \subseteq Nat /\ IsFiniteSet(LineEnds')
    BY <1>1, <1>2, <1>4
  <2> HIDE DEF T
  <2> QED BY ONLY <1>3, <2>1, ShiftedCardinality
<1>6. LineEnds = T \cup (IF Byte[k] = NL THEN {k} ELSE {})
  <2>1. \A j \in 1..committed : j \in 1..(k - 1) \/ j = k \/ j \in (k + 1)..committed
    BY <1>1
  <2> QED BY <1>1, <2>1 DEF LineEnds
<1>7. k \notin T
  BY <1>1
<1>8. Cardinality(LineEnds') \in Nat
  BY <1>4, FS_CardinalityType
<1>9. CASE Byte[k] = NL
  <2>1. Cardinality(LineEnds) = Cardinality(T) + 1
    <3>1. LineEnds = T \cup {k}
      BY <1>6, <1>9
    <3> HIDE DEF T
    <3> QED BY <1>5, <1>7, <3>1, FS_AddElement
  <2> QED BY <1>0, <1>1, <1>5, <1>8, <1>9, <2>1
<1>10. CASE Byte[k] # NL
  <2>1. LineEnds = T
    BY <1>6, <1>10
  <2> QED BY <1>0, <1>1, <1>5, <1>8, <1>10, <2>1
<1> QED BY <1>9, <1>10

LEMMA TtyCopyOut ==
  ASSUME TtyInv, NEW r \in Readers, NEW size \in 1..MaxSize, CopyOut(r, size),
         want' \in [Readers -> Nat],
         \A q \in Readers \ {r} : want'[q] = want[q]
  PROVE  TtyInv'
PROOF
<1>1. PICK k : CopyOf(r, size, k)
  BY CopyOutIsCopyOf
<1>2. /\ k \in Nat /\ k >= 1 /\ k <= committed /\ committed < N
      /\ committed \in Nat /\ edit \in Nat /\ lines \in Nat
      /\ committed' = committed - k /\ edit' = edit
      /\ tail' \in 0..(N - 1)
      /\ \A j \in 1..(N - k) : Byte'[j] = Byte[k + j]
  <2>1. /\ k \in Nat /\ k >= 1 /\ k <= committed /\ committed < N
        /\ committed \in Nat /\ edit \in Nat /\ lines \in Nat
    BY <1>1, CopyWindow
  <2>2. committed' = committed - k /\ edit' = edit /\ tail' \in 0..(N - 1)
    BY <1>1, CopyWindow
  <2>3. \A j \in 1..(N - k) : Byte'[j] = Byte[k + j]
    BY <1>1, CopyBytes
  <2> QED BY <2>1, <2>2, <2>3
<1> USE TtyAssumption
<1>3. /\ tail' = Wrap(tail + k) /\ UNCHANGED <<ring, head, edit, waiter>>
      /\ st' = [st EXCEPT ![r] = "user"]
  BY <1>1 DEF CopyOf
<1>4. lines' \in Nat /\ (lines = Cardinality(LineEnds))'
  BY <1>1, CopyLines
<1>5. TypeOK'
  BY <1>2, <1>3, <1>4 DEF TtyInv, TypeOK
<1>6. Indices'
  <2>1. /\ head = Wrap(tail + committed + edit) /\ committed + edit < N
        /\ tail \in 0..(N - 1) /\ head' = head
    BY <1>3 DEF TtyInv, TypeOK, Indices
  <2>2. Wrap(tail + committed + edit) = Wrap(Wrap(tail + k) + (committed - k) + edit)
    BY <1>2, <2>1 DEF Wrap
  <2> QED BY <1>2, <1>3, <2>1, <2>2 DEF Indices, Wrap
<1>7. Ended'
  BY <1>2 DEF TtyInv, Ended
<1>8. EditHasNoNL'
  <2>1. committed + edit < N
    BY DEF TtyInv, Indices
  <2>2. ASSUME NEW j \in 1..edit PROVE Byte'[committed' + j] = Byte[committed + j]
    <3>1. committed' + j \in 1..(N - k) /\ k + (committed' + j) = committed + j
      BY <1>2, <2>1
    <3> QED BY <1>2, <3>1
  <2> QED BY <1>2, <2>2 DEF TtyInv, EditHasNoNL
<1>9. WantsSome'
  BY <1>3 DEF TtyInv, TypeOK, WantsSome
<1> QED BY <1>4, <1>5, <1>6, <1>7, <1>8, <1>9 DEF TtyInv

LEMMA TtySleep ==
  ASSUME TtyInv, NEW r \in Readers, Sleep(r),
         want' \in [Readers -> Nat], want'[r] \in 1..MaxSize,
         \A q \in Readers \ {r} : want'[q] = want[q]
  PROVE  TtyInv'
PROOF
<1>1. /\ UNCHANGED <<ring, indices>> /\ waiter' = r /\ st' = [st EXCEPT ![r] = "BLOCKED"]
  BY DEF Sleep
<1>2. TypeOK'
  BY <1>1 DEF TtyInv, TypeOK, indices
<1>3. WantsSome'
  BY <1>1 DEF TtyInv, TypeOK, WantsSome
<1> QED BY <1>1, <1>2, <1>3, SameBuffer DEF TtyInv

LEMMA TtyReadLoop ==
  ASSUME TtyInv, NEW r \in Readers, NEW size \in 1..MaxSize, ReadLoop(r, size),
         want' \in [Readers -> Nat], want'[r] \in 1..MaxSize,
         \A q \in Readers \ {r} : want'[q] = want[q]
  PROVE  TtyInv'
PROOF
<1>1. CASE Sleep(r)
  BY <1>1, TtySleep
<1>2. CASE CopyOut(r, size)
  BY <1>2, TtyCopyOut
<1> QED BY <1>1, <1>2 DEF ReadLoop

LEMMA TtyRead ==
  ASSUME TtyInv, NEW r \in Readers, NEW size \in 0..MaxSize, Read(r, size)
  PROVE  TtyInv'
PROOF
<1>1. size \in 1..MaxSize /\ want' = [want EXCEPT ![r] = size] /\ ReadLoop(r, size)
  BY TtyAssumption DEF Read
<1>2. want \in [Readers -> Nat]
  BY DEF TtyInv, TypeOK
<1>3. /\ want' \in [Readers -> Nat] /\ want'[r] \in 1..MaxSize
      /\ \A q \in Readers \ {r} : want'[q] = want[q]
  BY <1>1, <1>2
<1> QED BY <1>1, <1>3, TtyReadLoop

LEMMA TtyResume ==
  ASSUME TtyInv, NEW r \in Readers, Resume(r)
  PROVE  TtyInv'
PROOF
<1>1. st[r] = "READY" /\ want' = want /\ ReadLoop(r, want[r])
  BY DEF Resume
<1>2. want \in [Readers -> Nat] /\ want[r] \in 1..MaxSize
  BY <1>1 DEF TtyInv, TypeOK, WantsSome
<1> QED BY <1>1, <1>2, TtyReadLoop

LEMMA TtyNext == TtyInv /\ [Next]_vars => TtyInv'
PROOF
<1> SUFFICES ASSUME TtyInv, [Next]_vars PROVE TtyInv'
  OBVIOUS
<1>1. CASE Erase
  BY <1>1, TtyErase
<1>2. ASSUME NEW c \in Chars, Feed(c) PROVE TtyInv'
  BY <1>2, TtyEnter, TtyType DEF Feed
<1>3. ASSUME NEW r \in Readers, NEW size \in 0..MaxSize, Read(r, size) PROVE TtyInv'
  BY <1>3, TtyRead
<1>4. ASSUME NEW r \in Readers, Resume(r) PROVE TtyInv'
  BY <1>4, TtyResume
<1>5. CASE UNCHANGED vars
  <2>1. UNCHANGED <<ring, indices>> /\ UNCHANGED <<head, tail, committed, lines, edit>>
        /\ UNCHANGED <<waiter, st, want>>
    BY <1>5 DEF vars, indices, readerVars
  <2> QED BY <2>1, <1>5, SameBuffer DEF TtyInv, TypeOK, WantsSome, vars
<1> QED BY <1>1, <1>2, <1>3, <1>4, <1>5 DEF Next

(* The inductive invariant of tty.c holds in every state.                  *)
THEOREM TtyInvariant == Spec => []TtyInv
BY TtyInit, TtyNext, PTL DEF Spec

(* Types of tty.c: no index leaves the ring, whatever its size.            *)
THEOREM TtyTypes == Spec => []TypeOK
PROOF
<1>1. TtyInv => TypeOK
  BY DEF TtyInv
<1> QED BY <1>1, TtyInvariant, PTL

(* The counters of tty.c agree after any bytes, edits and reads.           *)
THEOREM TtyCounters == Spec => []CountersAgree
PROOF
<1>1. TtyInv => CountersAgree
  BY CountersOfInv DEF TtyInv
<1> QED BY <1>1, TtyInvariant, PTL

-----------------------------------------------------------------------------
(* A single reader is woken by the line end it sleeps for.                 *)
OneReader == \A r, s \in Readers : r = s

LEMMA AwaitedNext ==
  ASSUME OneReader, TtyInv, SleeperIsAwaited, [Next]_vars
  PROVE  SleeperIsAwaited'
PROOF
<1>1. st \in [Readers -> {"user", "READY", "BLOCKED"}] /\ TypeOK
  BY DEF TtyInv, TypeOK
<1>2. CASE UNCHANGED <<st, waiter, lines>>
  BY <1>2 DEF SleeperIsAwaited
<1>3. CASE Erase
  BY <1>2, <1>3 DEF Erase, readerVars
<1>4. ASSUME NEW c \in Chars, Feed(c) PROVE SleeperIsAwaited'
  <2>1. CASE Type(c)
    BY <1>2, <2>1 DEF Type
  <2>2. CASE Enter
    <3>1. st' = WakeWaiter
      BY <2>2 DEF Enter
    <3> QED BY <1>1, <3>1, WakeWaiterFacts DEF SleeperIsAwaited
  <2> QED BY <1>4, <2>1, <2>2 DEF Feed
<1>5. ASSUME NEW r \in Readers, NEW size, ReadLoop(r, size) PROVE SleeperIsAwaited'
  <2>1. CASE lines = 0
    <3>1. /\ waiter' = r /\ st' = [st EXCEPT ![r] = "BLOCKED"] /\ lines' = lines
      BY <1>5, <2>1 DEF ReadLoop, Sleep, indices
    <3> QED BY <2>1, <3>1 DEF SleeperIsAwaited, OneReader
  <2>2. CASE lines # 0
    <3>1. st' = [st EXCEPT ![r] = "user"]
      BY <1>5, <2>2 DEF ReadLoop, CopyOut
    <3> QED BY <1>1, <3>1 DEF SleeperIsAwaited, OneReader
  <2> QED BY <2>1, <2>2
<1>6. CASE UNCHANGED vars
  BY <1>2, <1>6 DEF vars, indices, readerVars
<1> QED BY <1>3, <1>4, <1>5, <1>6 DEF Next, Read, Resume

(* With one reader tty_read and tty_feed lose no wake.                     *)
THEOREM TtyNoLostWake == OneReader => (Spec => []SleeperIsAwaited)
PROOF
<1> SUFFICES ASSUME OneReader PROVE Spec => []SleeperIsAwaited
  OBVIOUS
<1>1. Init => SleeperIsAwaited
  BY DEF Init, SleeperIsAwaited
<1>2. TtyInv /\ TtyInv' /\ SleeperIsAwaited /\ [Next]_vars => SleeperIsAwaited'
  BY AwaitedNext
<1> QED BY <1>1, <1>2, TtyInvariant, PTL DEF Spec

-----------------------------------------------------------------------------
(* The refinement.  Committed and Editing are sequences cut out of Byte.   *)
LEMMA SequenceOf ==
  ASSUME NEW n \in Nat, NEW S, NEW s \in [1..n -> S]
  PROVE  s \in Seq(S) /\ Len(s) = n
OBVIOUS

(* The two sequences of the abstract terminal, as the ring holds them.     *)
Abstracted ==
  /\ Committed \in Seq(Chars) /\ Len(Committed) = committed
  /\ \A k \in 1..committed : Committed[k] = Byte[k]
  /\ Editing \in Seq(Chars) /\ Len(Editing) = edit
  /\ \A k \in 1..edit : Editing[k] = Byte[committed + k]
  /\ committed \in Nat /\ edit \in Nat /\ committed + edit < N

LEMMA AbstractState == TtyInv => Abstracted
PROOF
<1> SUFFICES ASSUME TtyInv PROVE Abstracted
  OBVIOUS
<1>1. /\ committed \in Nat /\ edit \in Nat /\ committed + edit < N
      /\ tail \in 0..(N - 1) /\ ring \in [0..(N - 1) -> Chars]
  BY DEF TtyInv, TypeOK, Indices
<1>2. \A k \in 1..N : Byte[k] \in Chars /\ Pending(k) = Byte[k]
  BY <1>1, Slot, PendingIsByte DEF Byte
<1>3. \A k \in 1..committed : k \in 1..N
  BY <1>1, TtyAssumption
<1>4. \A k \in 1..edit : committed + k \in 1..N
  BY <1>1, TtyAssumption
<1>5. Committed \in [1..committed -> Chars] /\ \A k \in 1..committed : Committed[k] = Byte[k]
  BY <1>2, <1>3 DEF Committed
<1>6. Editing \in [1..edit -> Chars] /\ \A k \in 1..edit : Editing[k] = Byte[committed + k]
  BY <1>2, <1>4 DEF Editing
<1> QED BY <1>1, <1>5, <1>6, SequenceOf DEF Abstracted

LEMMA RefineInit == Init => Abstract!Init
PROOF
<1> SUFFICES ASSUME Init PROVE Abstract!Init
  OBVIOUS
<1>1. TtyInv /\ committed = 0 /\ edit = 0 /\ got = [r \in Readers |-> <<>>]
  BY TtyInit DEF Init
<1>2. Committed = <<>> /\ Editing = <<>>
  BY <1>1, AbstractState DEF Abstracted
<1> QED BY <1>1, <1>2 DEF Abstract!Init

(* Sequences over Chars with the same bytes are the same.                  *)
LEMMA SameSequence ==
  ASSUME NEW s \in Seq(Chars), NEW t \in Seq(Chars), Len(s) = Len(t),
         \A k \in 1..Len(s) : s[k] = t[k]
  PROVE  s = t
BY SeqEqual

LEMMA AppendFacts ==
  ASSUME NEW s \in Seq(Chars), NEW c \in Chars
  PROVE  /\ Append(s, c) \in Seq(Chars) /\ Len(Append(s, c)) = Len(s) + 1
         /\ \A k \in 1..Len(s) : Append(s, c)[k] = s[k]
         /\ Append(s, c)[Len(s) + 1] = c
BY AppendProperties

LEMMA ConcatFacts ==
  ASSUME NEW s \in Seq(Chars), NEW t \in Seq(Chars)
  PROVE  /\ s \o t \in Seq(Chars) /\ Len(s \o t) = Len(s) + Len(t)
         /\ \A k \in 1..Len(s) : (s \o t)[k] = s[k]
         /\ \A k \in 1..Len(t) : (s \o t)[Len(s) + k] = t[k]
PROOF
<1>1. Len(s) \in Nat /\ Len(t) \in Nat
  OBVIOUS
<1>2. s \o t \in Seq(Chars) /\ Len(s \o t) = Len(s) + Len(t)
  BY ConcatProperties
<1>3. \A i \in 1..(Len(s) + Len(t)) : (s \o t)[i] = IF i <= Len(s) THEN s[i] ELSE t[i - Len(s)]
  BY ConcatProperties
<1>4. \A k \in 1..Len(s) : (s \o t)[k] = s[k]
  BY <1>1, <1>3
<1>5. \A k \in 1..Len(t) : (s \o t)[Len(s) + k] = t[k]
  <2> TAKE k \in 1..Len(t)
  <2>1. Len(s) + k \in 1..(Len(s) + Len(t)) /\ ~(Len(s) + k <= Len(s)) /\ Len(s) + k - Len(s) = k
    BY <1>1
  <2> QED BY <1>3, <2>1
<1> QED BY <1>2, <1>4, <1>5

LEMMA RefineErase ==
  ASSUME Abstracted, Abstracted', Erase
  PROVE  Abstract!Erase
PROOF
<1>1. /\ edit > 0 /\ edit' = edit - 1 /\ committed' = committed /\ Byte' = Byte /\ got' = got
  BY DEF Erase, readerVars, Byte, Wrap
<1>2. /\ Committed \in Seq(Chars) /\ Len(Committed) = committed
      /\ Committed' \in Seq(Chars) /\ Len(Committed') = committed'
      /\ Editing \in Seq(Chars) /\ Len(Editing) = edit
      /\ Editing' \in Seq(Chars) /\ Len(Editing') = edit'
      /\ \A k \in 1..committed : Committed[k] = Byte[k]
      /\ \A k \in 1..committed' : Committed'[k] = Byte'[k]
      /\ \A k \in 1..edit : Editing[k] = Byte[committed + k]
      /\ \A k \in 1..edit' : Editing'[k] = Byte'[committed' + k]
      /\ committed \in Nat /\ edit \in Nat
  BY DEF Abstracted
<1>3. Committed' = Committed
  BY <1>1, <1>2, SameSequence
<1>4. Editing' = SubSeq(Editing, 1, Len(Editing) - 1)
  <2>1. SubSeq(Editing, 1, Len(Editing) - 1) \in Seq(Chars)
    BY <1>2
  <2>2. Len(SubSeq(Editing, 1, Len(Editing) - 1)) = edit - 1
    BY <1>1, <1>2
  <2>3. \A k \in 1..(edit - 1) : SubSeq(Editing, 1, Len(Editing) - 1)[k] = Editing[k]
    BY <1>1, <1>2
  <2>4. \A k \in 1..Len(Editing') : Editing'[k] = SubSeq(Editing, 1, Len(Editing) - 1)[k]
    BY <1>1, <1>2, <2>3
  <2> QED BY <1>1, <1>2, <2>1, <2>2, <2>4, SameSequence
<1>5. Editing # <<>>
  BY <1>1, <1>2
<1> QED BY <1>1, <1>3, <1>4, <1>5 DEF Abstract!Erase

LEMMA RefineType ==
  ASSUME TtyInv, Abstracted, Abstracted', NEW c \in Chars, Type(c)
  PROVE  c \in Chars \ {NL} /\ Abstract!Type(c)
PROOF
<1>1. c # NL /\ Put(c) /\ edit' = edit + 1 /\ committed' = committed /\ got' = got
  BY DEF Type, Put
<1>2. /\ Committed \in Seq(Chars) /\ Len(Committed) = committed
      /\ Committed' \in Seq(Chars) /\ Len(Committed') = committed'
      /\ Editing \in Seq(Chars) /\ Len(Editing) = edit
      /\ Editing' \in Seq(Chars) /\ Len(Editing') = edit'
      /\ \A k \in 1..committed : Committed[k] = Byte[k]
      /\ \A k \in 1..committed' : Committed'[k] = Byte'[k]
      /\ \A k \in 1..edit : Editing[k] = Byte[committed + k]
      /\ \A k \in 1..edit' : Editing'[k] = Byte'[committed' + k]
      /\ committed \in Nat /\ edit \in Nat
  BY DEF Abstracted
<1>3. /\ \A k \in 1..(committed + edit) : Byte'[k] = Byte[k]
      /\ Byte'[committed + edit + 1] = c
      /\ committed + edit + 1 < N
  BY <1>1, PutFacts
<1>4. Committed' = Committed
  BY <1>1, <1>2, <1>3, SameSequence, SMTT(30)
<1>5. Editing' = Append(Editing, c)
  <2>1. /\ Append(Editing, c) \in Seq(Chars) /\ Len(Append(Editing, c)) = edit + 1
        /\ \A k \in 1..edit : Append(Editing, c)[k] = Editing[k]
        /\ Append(Editing, c)[edit + 1] = c
    BY <1>2, AppendFacts
  <2>2. \A k \in 1..edit : Editing'[k] = Editing[k]
    <3> TAKE k \in 1..edit
    <3>1. k \in 1..edit' /\ committed + k \in 1..(committed + edit)
      BY <1>1, <1>2
    <3>2. Editing'[k] = Byte'[committed + k] /\ Editing[k] = Byte[committed + k]
      BY <1>1, <1>2, <3>1
    <3> QED BY <1>3, <3>1, <3>2
  <2>3. Editing'[edit + 1] = c
    BY <1>1, <1>2, <1>3
  <2>4. Editing' \in Seq(Chars) /\ Len(Editing') = edit + 1
    BY <1>1, <1>2
  <2>5. \A k \in 1..(edit + 1) : k \in 1..edit \/ k = edit + 1
    BY <1>2
  <2>6. \A k \in 1..(edit + 1) : Editing'[k] = Append(Editing, c)[k]
    BY <2>1, <2>2, <2>3, <2>5
  <2>7. \A k \in 1..Len(Editing') : Editing'[k] = Append(Editing, c)[k]
    BY <2>4, <2>6
  <2>8. Len(Editing') = Len(Append(Editing, c))
    BY <2>1, <2>4
  <2> QED BY <2>1, <2>4, <2>7, <2>8, SameSequence
<1>6. Abstract!Room
  BY <1>2, <1>3, TtyAssumption DEF Abstract!Room
<1> QED BY <1>1, <1>4, <1>5, <1>6 DEF Abstract!Type

LEMMA RefineEnter ==
  ASSUME TtyInv, Abstracted, Abstracted', Enter
  PROVE  Abstract!Enter
PROOF
<1>1. Put(NL) /\ edit' = 0 /\ committed' = committed + (edit + 1) /\ got' = got
  BY DEF Enter, Put, LineBytes
<1>2. /\ Committed \in Seq(Chars) /\ Len(Committed) = committed
      /\ Committed' \in Seq(Chars) /\ Len(Committed') = committed'
      /\ Editing \in Seq(Chars) /\ Len(Editing) = edit
      /\ Editing' \in Seq(Chars) /\ Len(Editing') = edit'
      /\ \A k \in 1..committed : Committed[k] = Byte[k]
      /\ \A k \in 1..committed' : Committed'[k] = Byte'[k]
      /\ \A k \in 1..edit : Editing[k] = Byte[committed + k]
      /\ committed \in Nat /\ edit \in Nat
  BY DEF Abstracted
<1>3. /\ \A k \in 1..(committed + edit) : Byte'[k] = Byte[k]
      /\ Byte'[committed + edit + 1] = NL
      /\ committed + edit + 1 < N
  BY <1>1, TtyAssumption, PutFacts
<1> DEFINE line == Append(Editing, NL)
<1>4. /\ line \in Seq(Chars) /\ Len(line) = edit + 1
      /\ \A k \in 1..edit : line[k] = Editing[k]
      /\ line[edit + 1] = NL
  BY <1>2, TtyAssumption, AppendFacts
<1>5. /\ Committed \o line \in Seq(Chars) /\ Len(Committed \o line) = committed + (edit + 1)
      /\ \A k \in 1..committed : (Committed \o line)[k] = Committed[k]
      /\ \A k \in 1..(edit + 1) : (Committed \o line)[committed + k] = line[k]
  <2> HIDE DEF line
  <2>1. Committed \in Seq(Chars) /\ line \in Seq(Chars) /\ Len(Committed) = committed /\ Len(line) = edit + 1
    BY <1>2, <1>4
  <2>2. Committed \o line \in Seq(Chars) /\ Len(Committed \o line) = Len(Committed) + Len(line)
    BY <2>1, ConcatFacts
  <2>3. \A k \in 1..Len(Committed) : (Committed \o line)[k] = Committed[k]
    BY <2>1, ConcatFacts
  <2>4. \A k \in 1..Len(line) : (Committed \o line)[Len(Committed) + k] = line[k]
    BY <2>1, ConcatFacts
  <2>5. \A k \in 1..committed : (Committed \o line)[k] = Committed[k]
    BY <2>1, <2>3
  <2>6. \A k \in 1..(edit + 1) : (Committed \o line)[committed + k] = line[k]
    BY <2>1, <2>4
  <2>7. Len(Committed \o line) = committed + (edit + 1)
    BY <2>1, <2>2
  <2> QED BY <2>2, <2>5, <2>6, <2>7
<1>6. \A k \in 1..(committed + edit + 1) : Committed'[k] = (Committed \o line)[k]
  <2> HIDE DEF line
  <2>1. \A k \in 1..(committed + edit + 1) : Committed'[k] = Byte'[k]
    BY <1>1, <1>2
  <2> SUFFICES ASSUME NEW k \in 1..(committed + edit + 1)
               PROVE  Byte'[k] = (Committed \o line)[k]
    BY <2>1
  <2>2. CASE k \in 1..committed
    <3>1. Byte'[k] = Byte[k]
      BY <1>2, <1>3, <2>2
    <3> QED BY <1>2, <1>5, <2>2, <3>1
  <2>3. CASE k \in (committed + 1)..(committed + edit)
    <3>1. k - committed \in 1..edit /\ k - committed \in 1..(edit + 1) /\ k = committed + (k - committed)
      BY <1>2, <2>3
    <3>2. (Committed \o line)[k] = Editing[k - committed]
      BY <1>4, <1>5, <3>1
    <3>3. Editing[k - committed] = Byte[k]
      BY <1>2, <3>1
    <3>4. Byte'[k] = Byte[k]
      BY <1>2, <1>3, <2>3
    <3> QED BY <3>2, <3>3, <3>4
  <2>4. CASE k = committed + (edit + 1)
    <3>1. edit + 1 \in 1..(edit + 1) /\ k = committed + edit + 1
      BY <1>2, <2>4
    <3>2. (Committed \o line)[k] = NL
      BY <1>4, <1>5, <2>4, <3>1
    <3> QED BY <1>3, <3>1, <3>2
  <2>5. \/ k \in 1..committed
        \/ k \in (committed + 1)..(committed + edit)
        \/ k = committed + (edit + 1)
    <3>1. committed \in Nat /\ edit \in Nat
      BY <1>2
    <3> QED BY <3>1
  <2> QED BY <2>2, <2>3, <2>4, <2>5
<1>7. Committed' = Committed \o line
  <2> HIDE DEF line
  <2> QED BY <1>1, <1>2, <1>5, <1>6, SameSequence
<1>8. Editing' = <<>>
  BY <1>1, <1>2
<1>9. Abstract!Room
  BY <1>2, <1>3, TtyAssumption DEF Abstract!Room
<1> QED BY <1>1, <1>7, <1>8, <1>9 DEF Abstract!Enter

(* A copy of tty_read takes the longest piece the abstract read can.       *)
LEMMA RefineCopy ==
  ASSUME TtyInv, Abstracted, Abstracted',
         NEW r \in Readers, NEW size \in 1..MaxSize, NEW k, CopyOf(r, size, k)
  PROVE  Abstract!Read(r, size)
PROOF
<1>1. /\ k \in Nat /\ k >= 1 /\ k <= committed /\ committed < N
      /\ committed \in Nat /\ edit \in Nat
  BY CopyWindow
<1>2. committed' = committed - k /\ edit' = edit
  BY CopyWindow
<1>3. \A j \in 1..(N - k) : Byte'[j] = Byte[k + j]
  BY CopyBytes
<1>4. \A j \in 1..(k - 1) : Byte[j] # NL
  BY CopyWindow
<1>5. k <= size /\ (Byte[k] = NL \/ k = size \/ k = committed)
  <2>1. k <= size
    BY CopyWindow
  <2>2. k \in 1..N /\ Stops(k, size)
    BY <1>1, TtyAssumption DEF CopyOf
  <2>3. Byte[k] = NL \/ k = size \/ k = committed
    BY <2>2, PendingIsByte DEF Stops
  <2> QED BY <2>1, <2>3
<1>6. /\ Committed \in Seq(Chars) /\ Len(Committed) = committed
      /\ Committed' \in Seq(Chars) /\ Len(Committed') = committed'
      /\ Editing \in Seq(Chars) /\ Len(Editing) = edit
      /\ Editing' \in Seq(Chars) /\ Len(Editing') = edit'
  BY DEF Abstracted
<1>7. \A j \in 1..committed : Committed[j] = Byte[j]
  BY DEF Abstracted
<1>8. \A j \in 1..committed' : Committed'[j] = Byte'[j]
  BY DEF Abstracted
<1>9. (\A j \in 1..edit : Editing[j] = Byte[committed + j]) /\ committed + edit < N
  BY DEF Abstracted
<1>10. \A j \in 1..edit' : Editing'[j] = Byte'[committed' + j]
  BY DEF Abstracted
<1> USE TtyAssumption
<1>11. k \in Abstract!Piece(Committed, size)
  <2>1. \A j \in 1..(k - 1) : Committed[j] # NL
    BY <1>1, <1>4, <1>7
  <2> QED BY <1>1, <1>5, <1>6, <2>1 DEF Abstract!Piece
<1>12. \A j \in Abstract!Piece(Committed, size) : j <= k
  <2> SUFFICES ASSUME NEW j \in Abstract!Piece(Committed, size), j > k PROVE FALSE
    BY <1>1, <1>6, SMTT(30) DEF Abstract!Piece
  <2>1. j \in 1..committed /\ j <= size /\ \A i \in 1..(j - 1) : Committed[i] # NL
    BY <1>6 DEF Abstract!Piece
  <2>2. k \in 1..(j - 1) /\ k \in 1..committed
    BY <1>1, <2>1
  <2>3. Byte[k] # NL
    BY <1>7, <2>1, <2>2
  <2> QED BY <1>1, <1>5, <2>1, <2>3
<1>13. [j \in 1..k |-> Pending(j)] = SubSeq(Committed, 1, k)
  <2>1. /\ SubSeq(Committed, 1, k) \in Seq(Chars) /\ Len(SubSeq(Committed, 1, k)) = k
        /\ \A j \in 1..k : SubSeq(Committed, 1, k)[j] = Committed[j]
    BY <1>1, <1>6, SubSeqProperties
  <2>2. \A j \in 1..k : Pending(j) = Committed[j] /\ Committed[j] \in Chars
    BY <1>1, <1>6, <1>7, PendingIsByte
  <2> DEFINE copy == [j \in 1..k |-> Pending(j)]
  <2>3. copy \in [1..k -> Chars] /\ \A j \in 1..k : copy[j] = Committed[j]
    BY <2>2
  <2> HIDE DEF copy
  <2>4. copy \in Seq(Chars) /\ Len(copy) = k
    BY <1>1, <2>3, SequenceOf
  <2>5. \A j \in 1..Len(copy) : copy[j] = SubSeq(Committed, 1, k)[j]
    BY <2>1, <2>3, <2>4
  <2>6. copy = SubSeq(Committed, 1, k)
    BY <2>1, <2>4, <2>5, SameSequence
  <2> QED BY <2>6 DEF copy
<1>14. got' = [got EXCEPT ![r] = SubSeq(Committed, 1, k)]
  BY <1>13 DEF CopyOf
<1>15. Committed' = SubSeq(Committed, k + 1, Len(Committed))
  <2> DEFINE rest == SubSeq(Committed, k + 1, Len(Committed))
  <2>1. /\ rest \in Seq(Chars) /\ Len(rest) = committed - k
        /\ \A j \in 1..(committed - k) : rest[j] = Committed[k + j]
    BY <1>1, <1>6, SubSeqProperties
  <2>2. \A j \in 1..(committed - k) : Committed'[j] = Committed[k + j]
    <3> TAKE j \in 1..(committed - k)
    <3>1. j \in 1..(N - k) /\ k + j \in 1..committed /\ j \in 1..committed'
      BY <1>1, <1>2
    <3> QED BY <1>3, <1>7, <1>8, <3>1
  <2> HIDE DEF rest
  <2>3. \A j \in 1..Len(Committed') : Committed'[j] = rest[j]
    BY <1>2, <1>6, <2>1, <2>2
  <2>4. Len(Committed') = Len(rest)
    BY <1>2, <1>6, <2>1
  <2>5. Committed' = rest
    BY <1>6, <2>1, <2>3, <2>4, SameSequence
  <2> QED BY <2>5 DEF rest
<1>16. Editing' = Editing
  <2>1. \A j \in 1..edit : Editing'[j] = Editing[j]
    <3> TAKE j \in 1..edit
    <3>1. /\ committed' + j \in 1..(N - k) /\ k + (committed' + j) = committed + j
          /\ j \in 1..edit'
      BY <1>1, <1>2, <1>9
    <3>2. Byte'[committed' + j] = Byte[committed + j]
      BY <1>3, <3>1
    <3> QED BY <1>9, <1>10, <3>1, <3>2
  <2>2. Len(Editing') = Len(Editing) /\ \A j \in 1..Len(Editing') : Editing'[j] = Editing[j]
    BY <1>2, <1>6, <2>1
  <2> QED BY <1>6, <2>2, SameSequence
<1> QED BY <1>11, <1>12, <1>14, <1>15, <1>16 DEF Abstract!Read

LEMMA RefineReadLoop ==
  ASSUME TtyInv, Abstracted, Abstracted',
         NEW r \in Readers, NEW size \in 1..MaxSize, ReadLoop(r, size)
  PROVE  [Abstract!Next]_(Abstract!vars)
PROOF
<1>1. CASE Sleep(r)
  <2>1. UNCHANGED <<ring, tail, committed, edit, got>>
    BY <1>1 DEF Sleep, indices
  <2>2. Committed' = Committed /\ Editing' = Editing
    BY <2>1 DEF Committed, Editing, Pending, Wrap
  <2> QED BY <2>1, <2>2 DEF Abstract!vars
<1>2. CASE CopyOut(r, size)
  <2>1. PICK k : CopyOf(r, size, k)
    BY <1>2, CopyOutIsCopyOf
  <2>2. Abstract!Read(r, size)
    BY <2>1, RefineCopy
  <2> QED BY <2>2 DEF Abstract!Next
<1> QED BY <1>1, <1>2 DEF ReadLoop

LEMMA RefineNext ==
  TtyInv /\ Abstracted /\ Abstracted' /\ [Next]_vars => [Abstract!Next]_(Abstract!vars)
PROOF
<1> SUFFICES ASSUME TtyInv, Abstracted, Abstracted', [Next]_vars
             PROVE  [Abstract!Next]_(Abstract!vars)
  OBVIOUS
<1>1. CASE Erase
  BY <1>1, RefineErase DEF Abstract!Next
<1>2. ASSUME NEW c \in Chars, Feed(c) PROVE [Abstract!Next]_(Abstract!vars)
  <2>1. CASE Type(c)
    BY <2>1, RefineType DEF Abstract!Next
  <2>2. CASE Enter
    BY <2>2, RefineEnter DEF Abstract!Next
  <2> QED BY <1>2, <2>1, <2>2 DEF Feed
<1>3. ASSUME NEW r \in Readers, NEW size \in 0..MaxSize, Read(r, size)
      PROVE [Abstract!Next]_(Abstract!vars)
  <2>1. size \in 1..MaxSize /\ ReadLoop(r, size)
    BY <1>3, TtyAssumption DEF Read
  <2> QED BY <2>1, RefineReadLoop
<1>4. ASSUME NEW r \in Readers, Resume(r) PROVE [Abstract!Next]_(Abstract!vars)
  <2>1. ReadLoop(r, want[r]) /\ want[r] \in 1..MaxSize
    BY <1>4 DEF Resume, TtyInv, WantsSome
  <2> QED BY <2>1, RefineReadLoop
<1>5. CASE UNCHANGED vars
  <2>1. UNCHANGED <<ring, tail, committed, edit, got>>
    BY <1>5 DEF vars, indices, readerVars
  <2>2. Committed' = Committed /\ Editing' = Editing
    BY <2>1 DEF Committed, Editing, Pending, Wrap
  <2> QED BY <2>1, <2>2 DEF Abstract!vars
<1> QED BY <1>1, <1>2, <1>3, <1>4, <1>5 DEF Next

(* The ring buffer of tty.c implements the line queue: bytes are read      *)
(* once, in the order typed, a line at a time, whatever the ring's size.   *)
THEOREM TtyImplementsLineQueue == Spec => ImplementsLineQueue
PROOF
<1>1. TtyInv => Abstracted
  BY AbstractState
<1>2. Init => Abstract!Init
  BY RefineInit
<1>3. TtyInv /\ Abstracted /\ Abstracted' /\ [Next]_vars => [Abstract!Next]_(Abstract!vars)
  BY RefineNext
<1> QED BY <1>1, <1>2, <1>3, TtyInvariant, PTL DEF Spec, ImplementsLineQueue, Abstract!Spec
=============================================================================
