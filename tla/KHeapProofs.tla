----------------------------- MODULE KHeapProofs ----------------------------
(***************************************************************************)
(* Proofs about module KHeap: for any sizes asked for, any page and table  *)
(* geometry and any number of frames, the blocks tile the heap, no two     *)
(* free blocks are neighbours, frames are accounted for, and kmalloc and   *)
(* kfree implement the pieces of Allocator.                                *)
(***************************************************************************)
EXTENDS KHeap, CommonLemmas, FiniteSetTheorems, TLAPS

(* The heap without its links: a block ends where the next one begins, or  *)
(* at the top, and the links say no more than the addresses do.            *)
Header == [size : Nat, next : Nat \cup {NULL}, prev : Nat \cup {NULL}, free : BOOLEAN]

End(h, b) == b + H + h[b].size

Typed(h) == /\ DOMAIN h \subseteq Nat /\ head \in DOMAIN h
            /\ \A b \in DOMAIN h : h[b] \in Header

Tiled(h, top) ==
  /\ \A b \in DOMAIN h :
       /\ End(h, b) <= top
       /\ End(h, b) < top => End(h, b) \in DOMAIN h
       /\ h[b].next = IF End(h, b) < top THEN End(h, b) ELSE NULL
       /\ b = head => h[b].prev = NULL
       /\ b # head => h[b].prev \in DOMAIN h /\ End(h, h[b].prev) = b
  /\ \A b, c \in DOMAIN h : b < c => End(h, b) <= c

Heap(h, top) == top \in Nat /\ Typed(h) /\ Tiled(h, top)

Separated(h) ==
  \A b \in DOMAIN h : h[b].free /\ h[b].next # NULL => ~h[h[b].next].free

(* The facts about one block that the steps below use.                     *)
LEMMA BlockFacts ==
  ASSUME NEW h, NEW top, Heap(h, top), NEW b \in DOMAIN h
  PROVE  /\ b \in Nat /\ h[b].size \in Nat /\ h[b].free \in BOOLEAN
         /\ h[b].next \in Nat \cup {NULL} /\ h[b].prev \in Nat \cup {NULL}
         /\ End(h, b) \in Nat /\ End(h, b) = b + 1 + h[b].size
         /\ b < End(h, b) /\ End(h, b) <= top /\ b < top
         /\ h[b].next # NULL => /\ h[b].next = End(h, b) /\ h[b].next \in DOMAIN h
                                /\ b < h[b].next /\ h[b].next # head
         /\ h[b].next = NULL => End(h, b) = top
         /\ h[b].prev # NULL => /\ h[b].prev \in DOMAIN h /\ End(h, h[b].prev) = b
                                /\ h[h[b].prev].next = b /\ b # head
         /\ h[b].prev = NULL <=> b = head
PROOF
<1>1. /\ top \in Nat /\ b \in Nat /\ h[b] \in Header
  BY DEF Heap, Typed
<1>2. /\ h[b].size \in Nat /\ h[b].free \in BOOLEAN
      /\ h[b].next \in Nat \cup {NULL} /\ h[b].prev \in Nat \cup {NULL}
  BY <1>1 DEF Header
<1>3. End(h, b) \in Nat /\ End(h, b) = b + 1 + h[b].size /\ b < End(h, b)
  BY <1>1, <1>2 DEF End, H
<1>4. End(h, b) <= top /\ b < top
  BY <1>1, <1>3 DEF Heap, Tiled
<1>5. h[b].next # NULL => /\ h[b].next = End(h, b) /\ h[b].next \in DOMAIN h
                          /\ b < h[b].next /\ h[b].next # head
  BY <1>1, <1>3 DEF Heap, Tiled, head
<1>6. h[b].next = NULL => End(h, b) = top
  BY <1>1, <1>3, <1>4 DEF Heap, Tiled, NULL
<1>7. h[b].prev = NULL <=> b = head
  BY <1>1, <1>2 DEF Heap, Tiled, Typed, NULL
<1>8. ASSUME h[b].prev # NULL
      PROVE  /\ h[b].prev \in DOMAIN h /\ End(h, h[b].prev) = b
             /\ h[h[b].prev].next = b /\ b # head
  <2>1. b # head
    BY <1>7, <1>8
  <2>2. h[b].prev \in DOMAIN h /\ End(h, h[b].prev) = b
    BY <2>1 DEF Heap, Tiled
  <2>3. h[h[b].prev].next = b
    BY <1>4, <2>2 DEF Heap, Tiled
  <2> QED BY <2>1, <2>2, <2>3
<1> QED BY <1>1, <1>2, <1>3, <1>4, <1>5, <1>6, <1>7, <1>8

(* No two blocks end at one place.                                         *)
LEMMA OneEnd ==
  ASSUME NEW h, NEW top, Heap(h, top), NEW a \in DOMAIN h, NEW c \in DOMAIN h,
         End(h, a) = End(h, c)
  PROVE  a = c
PROOF
<1>1. /\ a \in Nat /\ c \in Nat /\ End(h, a) \in Nat
      /\ a < End(h, a) /\ c < End(h, c)
  BY BlockFacts
<1>2. (a < c => End(h, a) <= c) /\ (c < a => End(h, c) <= a)
  BY DEF Heap, Tiled
<1> QED BY <1>1, <1>2

(* The previous block of a block's successor is the block.                 *)
LEMMA NextThenPrev ==
  ASSUME NEW h, NEW top, Heap(h, top), NEW b \in DOMAIN h, h[b].next # NULL
  PROVE  h[h[b].next].prev = b
PROOF
<1> DEFINE n == h[b].next
<1>1. n \in DOMAIN h /\ n = End(h, b) /\ n # head
  BY BlockFacts
<1>2. h[n].prev \in DOMAIN h /\ End(h, h[n].prev) = n
  BY <1>1, BlockFacts
<1> QED BY <1>1, <1>2, OneEnd

(* heap_check: a heap in this sense passes it.                             *)
LEMMA HeapPasses ==
  ASSUME Heap(hdr, brk)
  PROVE  ListTilesHeap
PROOF
<1>1. ASSUME NEW b \in DOMAIN hdr
      PROVE  /\ hdr[b].next = NextAdjacent(hdr, b, brk)
             /\ b + H + hdr[b].size <= brk
             /\ hdr[b].next # NULL => hdr[b].next \in DOMAIN hdr /\ hdr[hdr[b].next].prev = b
             /\ hdr[b].prev # NULL => hdr[b].prev \in DOMAIN hdr /\ hdr[hdr[b].prev].next = b
             /\ hdr[b].prev = NULL <=> b = head
             /\ hdr[b].next = NULL => b + H + hdr[b].size = brk
  <2>1. /\ hdr[b].next = IF End(hdr, b) < brk THEN End(hdr, b) ELSE NULL
        /\ End(hdr, b) \in Nat /\ brk \in Nat
    BY BlockFacts DEF Heap, Tiled
  <2>2. hdr[b].next = NextAdjacent(hdr, b, brk)
    BY <2>1 DEF NextAdjacent, End
  <2> QED BY <2>2, BlockFacts, NextThenPrev DEF End
<1>2. \A b, c \in DOMAIN hdr : b < c => b + H + hdr[b].size <= c
  BY DEF Heap, Tiled, End
<1> QED BY <1>1, <1>2 DEF ListTilesHeap

-----------------------------------------------------------------------------
(* coalesce_next, when b swallows its successor n.                         *)
Merged(h, b, n) ==
  [a \in DOMAIN h \ {n} |->
     CASE a = b -> [h[b] EXCEPT !.size = @ + H + h[n].size, !.next = h[n].next]
       [] a = h[n].next -> [h[a] EXCEPT !.prev = b]
       [] OTHER -> h[a]]

LEMMA MergedFields ==
  ASSUME NEW h, NEW top, Heap(h, top), NEW b \in DOMAIN h,
         NEW n \in DOMAIN h, n = h[b].next
  PROVE  LET m == Merged(h, b, n)
         IN /\ DOMAIN m = DOMAIN h \ {n}
            /\ m[b] \in Header /\ b \in DOMAIN m
            /\ m[b].size = h[b].size + 1 + h[n].size
            /\ m[b].next = h[n].next /\ m[b].prev = h[b].prev /\ m[b].free = h[b].free
            /\ \A a \in DOMAIN m \ {b} :
                 /\ m[a] \in Header
                 /\ m[a].size = h[a].size /\ m[a].next = h[a].next /\ m[a].free = h[a].free
                 /\ m[a].prev = IF a = h[n].next THEN b ELSE h[a].prev
PROOF
<1> DEFINE m == Merged(h, b, n)
<1>1. /\ h[b] \in Header /\ h[n] \in Header /\ n # b /\ b \in Nat /\ n # NULL
      /\ h[n].next # b /\ h[n].next \in Nat \cup {NULL}
      /\ \A a \in DOMAIN h : h[a] \in Header
  <2>1. b < n /\ b \in Nat /\ n \in Nat
    BY BlockFacts DEF NULL, Heap, Typed
  <2>2. h[n].next # NULL => n < h[n].next
    BY BlockFacts
  <2>3. h[n].next # b
    BY <2>1, <2>2 DEF NULL
  <2> QED BY <2>1, <2>3, BlockFacts DEF Heap, Typed, NULL
<1>2. DOMAIN m = DOMAIN h \ {n} /\ b \in DOMAIN m
  BY <1>1 DEF Merged
<1>3. m[b] = [h[b] EXCEPT !.size = h[b].size + H + h[n].size, !.next = h[n].next]
  BY <1>1, <1>2 DEF Merged
<1> DEFINE sum == h[b].size + H + h[n].size
<1>4. sum \in Nat /\ sum = h[b].size + 1 + h[n].size
  BY <1>1 DEF Header, H
<1>6. m[b] = [h[b] EXCEPT !.size = sum, !.next = h[n].next]
  BY <1>3
<1> HIDE DEF sum, m
<1>7. /\ m[b] \in Header /\ m[b].size = sum
      /\ m[b].next = h[n].next /\ m[b].prev = h[b].prev /\ m[b].free = h[b].free
  BY <1>1, <1>4, <1>6 DEF Header
<1>5. ASSUME NEW a \in DOMAIN m \ {b}
      PROVE  /\ m[a] \in Header
             /\ m[a].size = h[a].size /\ m[a].next = h[a].next /\ m[a].free = h[a].free
             /\ m[a].prev = IF a = h[n].next THEN b ELSE h[a].prev
  <2>1. m[a] = IF a = h[n].next THEN [h[a] EXCEPT !.prev = b] ELSE h[a]
    BY <1>2 DEF Merged, m
  <2>2. h[a] \in Header /\ b \in Nat
    BY <1>1, <1>2
  <2> QED BY <2>1, <2>2 DEF Header
<1> QED BY <1>2, <1>4, <1>5, <1>7 DEF m

LEMMA MergeKeepsHeap ==
  ASSUME NEW h, NEW top, Heap(h, top), NEW b \in DOMAIN h,
         NEW n \in DOMAIN h, n = h[b].next
  PROVE  Heap(Merged(h, b, n), top)
PROOF
<1> DEFINE m == Merged(h, b, n)
<1>1. /\ DOMAIN m = DOMAIN h \ {n}
      /\ m[b] \in Header /\ b \in DOMAIN m
      /\ m[b].size = h[b].size + 1 + h[n].size
      /\ m[b].next = h[n].next /\ m[b].prev = h[b].prev
      /\ \A a \in DOMAIN m \ {b} :
           /\ m[a] \in Header
           /\ m[a].size = h[a].size /\ m[a].next = h[a].next
           /\ m[a].prev = IF a = h[n].next THEN b ELSE h[a].prev
  BY MergedFields
<1>2. /\ top \in Nat /\ b \in Nat /\ n \in Nat /\ n = End(h, b) /\ n # head /\ b < n
      /\ n # NULL /\ b # n /\ End(h, n) \in Nat /\ End(h, n) <= top
  BY BlockFacts DEF NULL, Heap, Typed
<1>3. h[n].next # b /\ h[n].next # n
  BY <1>2, BlockFacts DEF NULL
<1> HIDE DEF m
<1>4. End(m, b) = End(h, n)
  <2>1. End(h, n) = n + 1 + h[n].size /\ n = b + 1 + h[b].size /\ h[b].size \in Nat /\ h[n].size \in Nat
    BY <1>2, BlockFacts
  <2>2. End(m, b) = b + 1 + (h[b].size + 1 + h[n].size)
    BY <1>1, <1>2, <2>1 DEF End, H
  <2> QED BY <1>2, <2>1, <2>2
<1>5. \A a \in DOMAIN m \ {b} : End(m, a) = End(h, a) /\ a \in DOMAIN h
  BY <1>1 DEF End
<1>6. Typed(m)
  <2>1. DOMAIN h \subseteq Nat /\ head \in DOMAIN h
    BY DEF Heap, Typed
  <2> QED BY <1>1, <1>2, <2>1 DEF Typed
<1>7. \A a \in DOMAIN h : a # b => End(h, a) # n
  BY <1>2, OneEnd
<1>8. \A a \in DOMAIN h : /\ End(h, a) <= top /\ (End(h, a) < top => End(h, a) \in DOMAIN h)
                          /\ h[a].next = IF End(h, a) < top THEN End(h, a) ELSE NULL
                          /\ a = head => h[a].prev = NULL
                          /\ a # head => h[a].prev \in DOMAIN h /\ End(h, h[a].prev) = a
                          /\ a \in Nat /\ End(h, a) \in Nat /\ a < End(h, a)
  BY BlockFacts DEF Heap, Tiled
<1>9. ASSUME NEW a \in DOMAIN m
      PROVE  /\ End(m, a) <= top
             /\ End(m, a) < top => End(m, a) \in DOMAIN m
             /\ m[a].next = IF End(m, a) < top THEN End(m, a) ELSE NULL
  <2>1. CASE a = b
    <3>1. End(h, n) # n
      BY <1>8
    <3> QED BY <1>1, <1>4, <1>8, <2>1, <3>1
  <2>2. CASE a # b
    BY <1>1, <1>5, <1>7, <1>8, <2>2
  <2> QED BY <2>1, <2>2
<1>10. ASSUME NEW a \in DOMAIN m
       PROVE  /\ a = head => m[a].prev = NULL
              /\ a # head => m[a].prev \in DOMAIN m /\ End(m, m[a].prev) = a
  <2>1. CASE a = head
    <3>1. h[n].next # head
      BY <1>8, BlockFacts DEF NULL, head
    <3> QED BY <1>1, <1>5, <1>8, <2>1, <3>1
  <2>2. CASE a # head /\ a # b /\ a = h[n].next
    <3>1. a \in Nat /\ a = h[n].next
      BY <1>1, <1>8, <2>2
    <3>2. End(h, n) = a
      BY <3>1, <1>8 DEF NULL
    <3> QED BY <1>1, <1>4, <2>2, <3>2
  <2>3. CASE a # head /\ (a = b \/ a # h[n].next)
    <3> DEFINE q == h[a].prev
    <3>1. m[a].prev = q /\ q \in DOMAIN h /\ End(h, q) = a /\ a # n /\ a \in DOMAIN h
      BY <1>1, <1>5, <1>8, <2>3
    <3>2. a < top
      BY <3>1, <1>8, <1>2
    <3>3. h[q].next = a
      BY <3>1, <3>2, <1>8
    <3> HIDE DEF q
    <3>4. q # n
      BY <3>3, <2>3, <1>3
    <3>5. q # b
      BY <3>1, <1>2
    <3> QED BY <3>1, <3>4, <3>5, <1>1, <1>5, <2>3
  <2> QED BY <2>1, <2>2, <2>3
<1>11. ASSUME NEW a \in DOMAIN m, NEW c \in DOMAIN m, a < c
       PROVE  End(m, a) <= c
  <2>1. \A x, y \in DOMAIN h : x < y => End(h, x) <= y
    BY DEF Heap, Tiled
  <2>2. CASE a = b
    <3>1. c \in DOMAIN h /\ c # n /\ n <= c /\ c \in Nat
      BY <1>1, <1>2, <1>8, <2>1, <2>2, <1>11
    <3>2. End(h, n) <= c
      BY <1>2, <3>1, <2>1
    <3> QED BY <1>4, <2>2, <3>2
  <2>3. CASE a # b
    BY <1>1, <1>5, <2>1, <2>3, <1>11
  <2> QED BY <2>2, <2>3
<1>12. Tiled(m, top)
  BY <1>9, <1>10, <1>11 DEF Tiled
<1> QED BY <1>2, <1>6, <1>12 DEF Heap, m

(* What coalesce_next does to a heap: nothing, or b swallows a free         *)
(* successor.                                                               *)
LEMMA CoalesceCases ==
  ASSUME NEW h, NEW top, Heap(h, top), NEW b \in DOMAIN h
  PROVE  LET n == h[b].next
         IN  /\ (n = NULL \/ ~h[n].free) => CoalesceNext(h, b, top) = h
             /\ (n # NULL /\ h[n].free) => /\ n \in DOMAIN h
                                           /\ CoalesceNext(h, b, top) = Merged(h, b, n)
PROOF
<1> DEFINE n == h[b].next
<1>1. n # NULL => n \in DOMAIN h /\ n = End(h, b) /\ n < top
  <2>1. n # NULL => n \in DOMAIN h /\ n = End(h, b)
    BY BlockFacts
  <2> QED BY <2>1, BlockFacts
<1>2. n # NULL => NextAdjacent(h, b, top) = n
  BY <1>1, BlockFacts DEF NextAdjacent, End, Heap
<1>3. CASE n = NULL \/ ~h[n].free
  BY <1>3 DEF CoalesceNext, NULL
<1>4. CASE n # NULL /\ h[n].free
  BY <1>1, <1>2, <1>4 DEF CoalesceNext, Merged
<1> QED BY <1>1, <1>3, <1>4

(* Free blocks are apart, but for b before its successor and but for those *)
(* before x.                                                               *)
ApartBut(h, b, x) ==
  \A a \in DOMAIN h \ {b} :
    h[a].free /\ h[a].next # NULL /\ h[a].next # x => ~h[h[a].next].free

ApartBefore(h, x) ==
  \A a \in DOMAIN h :
    h[a].free /\ h[a].next # NULL /\ h[a].next # x => ~h[h[a].next].free

(* The blocks in use.                                                      *)
InUse(h) == {b \in DOMAIN h : ~h[b].free}

SameSizes(h, m) == \A b \in InUse(m) : b \in DOMAIN h /\ m[b].size = h[b].size

(* A free block coalesced with its successor keeps the heap, is apart from *)
(* its new successor, and leaves the blocks in use as they are.            *)
LEMMA CoalesceKeeps ==
  ASSUME NEW h, NEW top, Heap(h, top), NEW b \in DOMAIN h, h[b].free,
         NEW x, ApartBut(h, b, x)
  PROVE  LET m == CoalesceNext(h, b, top)
         IN /\ Heap(m, top) /\ b \in DOMAIN m /\ m[b].free /\ m[b].prev = h[b].prev
            /\ ApartBefore(m, x)
            /\ InUse(m) = InUse(h) /\ SameSizes(h, m)
PROOF
<1> DEFINE n == h[b].next
<1>1. CASE n = NULL \/ ~h[n].free
  <2>1. CoalesceNext(h, b, top) = h
    BY <1>1, CoalesceCases
  <2> QED BY <1>1, <2>1 DEF ApartBut, ApartBefore, InUse, SameSizes
<1>2. CASE n # NULL /\ h[n].free
  <2> DEFINE m == Merged(h, b, n)
  <2>1. n \in DOMAIN h /\ CoalesceNext(h, b, top) = m /\ n = h[b].next
    BY <1>2, CoalesceCases
  <2> HIDE DEF n
  <2>2. /\ DOMAIN m = DOMAIN h \ {n}
        /\ m[b] \in Header /\ b \in DOMAIN m
        /\ m[b].size = h[b].size + 1 + h[n].size
        /\ m[b].next = h[n].next /\ m[b].prev = h[b].prev /\ m[b].free = h[b].free
        /\ \A a \in DOMAIN m \ {b} :
             /\ m[a] \in Header
             /\ m[a].size = h[a].size /\ m[a].next = h[a].next /\ m[a].free = h[a].free
             /\ m[a].prev = IF a = h[n].next THEN b ELSE h[a].prev
    BY ONLY <2>1, MergedFields, Heap(h, top), b \in DOMAIN h
  <2>3. Heap(m, top)
    BY <2>1, MergeKeepsHeap
  <2> HIDE DEF m
  <2>4. n # b /\ n = End(h, b) /\ b < n
    BY <1>2, <2>1, BlockFacts
  <2>5. ASSUME NEW a \in DOMAIN m, m[a].free, m[a].next # NULL, m[a].next # x
        PROVE  ~m[m[a].next].free
    <3>1. m[a].next \in DOMAIN m
      BY <2>3, <2>5, BlockFacts
    <3>2. a \in DOMAIN h
      BY <2>2
    <3>3. m[a].next # b => m[m[a].next].free = h[m[a].next].free
      BY <2>2, <3>1
    <3>4. CASE a = b
      <4>1. h[n].next # NULL /\ h[n].next # x /\ h[n].next = m[a].next
        BY <2>2, <2>5, <3>4
      <4>2. ~h[h[n].next].free
        BY <1>2, <2>1, <2>4, <4>1 DEF ApartBut
      <4> QED BY <3>3, <4>1, <4>2
    <3>5. CASE a # b
      <4>1. ~h[h[a].next].free /\ h[a].next = m[a].next
        BY <2>2, <2>5, <3>2, <3>5 DEF ApartBut
      <4> QED BY <3>3, <4>1
    <3> QED BY <3>4, <3>5
  <2>6. InUse(m) = InUse(h)
    BY <1>2, <2>2 DEF InUse
  <2>7. SameSizes(h, m)
    BY <2>2 DEF SameSizes, InUse
  <2> QED BY <2>1, <2>2, <2>3, <2>5, <2>6, <2>7 DEF ApartBefore, m
<1> QED BY <1>1, <1>2

-----------------------------------------------------------------------------
(* kfree.                                                                  *)
LEMMA FlagKeepsHeap ==
  ASSUME NEW h, NEW top, Heap(h, top), NEW b \in DOMAIN h, NEW v \in BOOLEAN
  PROVE  LET m == [h EXCEPT ![b].free = v]
         IN /\ Heap(m, top) /\ DOMAIN m = DOMAIN h /\ m[b].free = v
            /\ \A a \in DOMAIN h : /\ m[a].size = h[a].size /\ m[a].next = h[a].next
                                   /\ m[a].prev = h[a].prev
                                   /\ a # b => m[a].free = h[a].free
PROOF
<1> DEFINE m == [h EXCEPT ![b].free = v]
<1>1. DOMAIN m = DOMAIN h /\ m[b] = [h[b] EXCEPT !.free = v]
  OBVIOUS
<1>2. \A a \in DOMAIN h : h[a] \in Header /\ (a # b => m[a] = h[a])
  BY DEF Heap, Typed
<1> HIDE DEF m
<1>3. /\ m[b] \in Header /\ m[b].size = h[b].size /\ m[b].next = h[b].next
      /\ m[b].prev = h[b].prev /\ m[b].free = v
  BY <1>1, <1>2 DEF Header
<1>4. \A a \in DOMAIN h : /\ m[a] \in Header /\ m[a].size = h[a].size /\ m[a].next = h[a].next
                          /\ m[a].prev = h[a].prev
                          /\ a # b => m[a].free = h[a].free
  BY <1>2, <1>3
<1>5. \A a \in DOMAIN h : End(m, a) = End(h, a)
  BY <1>4 DEF End
<1>6. Tiled(m, top)
  BY <1>1, <1>4, <1>5 DEF Heap, Tiled
<1>7. Typed(m)
  BY <1>1, <1>4 DEF Heap, Typed
<1> QED BY <1>1, <1>3, <1>4, <1>6, <1>7 DEF Heap, m

LEMMA ReleaseKeeps ==
  ASSUME Heap(hdr, brk), Separated(hdr), NEW b \in DOMAIN hdr, ~hdr[b].free
  PROVE  LET m == Release(hdr, b)
         IN /\ Heap(m, brk) /\ Separated(m)
            /\ InUse(m) = InUse(hdr) \ {b} /\ SameSizes(hdr, m)
PROOF
<1> DEFINE f == [hdr EXCEPT ![b].free = TRUE]
           g == CoalesceNext(f, b, brk)
           p == g[b].prev
<1>1. /\ Heap(f, brk) /\ DOMAIN f = DOMAIN hdr /\ f[b].free = TRUE
      /\ \A a \in DOMAIN hdr : /\ f[a].size = hdr[a].size /\ f[a].next = hdr[a].next
                               /\ a # b => f[a].free = hdr[a].free
  BY FlagKeepsHeap
<1> HIDE DEF f
<1>2. ApartBut(f, b, b)
  BY <1>1, BlockFacts DEF Separated, ApartBut
<1>3. /\ Heap(g, brk) /\ b \in DOMAIN g /\ g[b].free
      /\ ApartBefore(g, b) /\ InUse(g) = InUse(f) /\ SameSizes(f, g)
  BY <1>1, <1>2, CoalesceKeeps
<1>4. InUse(f) = InUse(hdr) \ {b} /\ SameSizes(hdr, g)
  BY <1>1, <1>3 DEF InUse, SameSizes
<1> HIDE DEF g
<1>5. \A a \in DOMAIN g : g[a].next = b => a = p
  <2>1. b \in Nat /\ b # NULL
    BY <1>3, BlockFacts DEF NULL
  <2> QED BY <1>3, <2>1, NextThenPrev
<1>6. CASE p = NULL \/ ~g[p].free
  <2>1. Release(hdr, b) = g
    BY <1>6 DEF Release, f, g
  <2>2. Separated(g)
    <3>1. \A a \in DOMAIN g : g[a].next = b => a = p /\ p # NULL
      <4>1. \A a \in DOMAIN g : a # NULL
        BY <1>3, BlockFacts DEF NULL
      <4> QED BY <1>5, <4>1
    <3> QED BY <1>3, <1>6, <3>1 DEF Separated, ApartBefore
  <2> QED BY <1>3, <1>4, <2>1, <2>2
<1>7. CASE p # NULL /\ g[p].free
  <2> DEFINE r == CoalesceNext(g, p, brk)
  <2>1. Release(hdr, b) = r
    BY <1>7 DEF Release, f, g
  <2>2. p \in DOMAIN g
    BY <1>3, <1>7, BlockFacts
  <2>3. ApartBut(g, p, NULL)
    BY <1>3, <1>5 DEF ApartBut, ApartBefore
  <2>4. Heap(r, brk) /\ ApartBefore(r, NULL) /\ InUse(r) = InUse(g) /\ SameSizes(g, r)
    BY <1>3, <1>7, <2>2, <2>3, CoalesceKeeps
  <2> HIDE DEF r, p
  <2>5. Separated(r)
    BY <2>4 DEF Separated, ApartBefore
  <2>6. InUse(r) = InUse(hdr) \ {b}
    BY <1>3, <1>4, <2>4
  <2>7. SameSizes(hdr, r)
    BY <1>4, <2>4 DEF SameSizes
  <2> QED BY <2>1, <2>4, <2>5, <2>6, <2>7
<1> QED BY <1>6, <1>7

-----------------------------------------------------------------------------
(* split_block, when b is large enough: s is the header of what is left.   *)
Cut(h, b, n) ==
  [a \in DOMAIN h \cup {b + H + n} |->
     CASE a = b + H + n -> Block(h[b].size - n - H, h[b].next, b, TRUE)
       [] a = b -> [h[b] EXCEPT !.size = n, !.next = b + H + n]
       [] a = h[b].next -> [h[a] EXCEPT !.prev = b + H + n]
       [] OTHER -> h[a]]

CutEffect(h, m, b, n, s) ==
  /\ DOMAIN m = DOMAIN h \cup {s} /\ s \notin DOMAIN h
  /\ m[s] \in Header /\ m[s].size = h[b].size - n - 1
  /\ m[s].next = h[b].next /\ m[s].prev = b /\ m[s].free = TRUE
  /\ m[b] \in Header /\ m[b].size = n
  /\ m[b].next = s /\ m[b].prev = h[b].prev /\ m[b].free = h[b].free
  /\ \A a \in DOMAIN h \ {b} :
       /\ m[a] \in Header
       /\ m[a].size = h[a].size /\ m[a].next = h[a].next /\ m[a].free = h[a].free
       /\ m[a].prev = IF a = h[b].next THEN s ELSE h[a].prev

LEMMA CutFields ==
  ASSUME NEW h, NEW top, Heap(h, top), NEW b \in DOMAIN h, NEW n \in Nat,
         h[b].size >= n + 2
  PROVE  CutEffect(h, Cut(h, b, n), b, n, b + 1 + n)
PROOF
<1> DEFINE m == Cut(h, b, n)
           sz == h[b].size
           rest == sz - n - 1
           s == b + 1 + n
<1>1. /\ h[b] \in Header /\ b \in Nat /\ s \in Nat /\ sz \in Nat
      /\ b < s /\ s < End(h, b) /\ End(h, b) \in Nat /\ rest \in Nat
      /\ \A a \in DOMAIN h : h[a] \in Header /\ a \in Nat
  BY BlockFacts DEF Heap, Typed
<1>2. s \notin DOMAIN h
  BY <1>1 DEF Heap, Tiled
<1>3. s = b + H + n /\ rest = h[b].size - n - H /\ b # s
  BY <1>1 DEF H
<1>12. s # h[b].next /\ b # h[b].next
  BY <1>1, <1>2, BlockFacts DEF NULL
<1>11. DOMAIN m = DOMAIN h \cup {s}
  BY <1>3 DEF Cut
<1> HIDE DEF rest, s
<1>4. m[s] = Block(rest, h[b].next, b, TRUE)
  BY <1>3, <1>12 DEF Cut
<1>5. m[b] = [h[b] EXCEPT !.size = n, !.next = s]
  BY <1>3, <1>12 DEF Cut
<1>6. \A a \in DOMAIN h \ {b} :
        m[a] = IF a = h[b].next THEN [h[a] EXCEPT !.prev = s] ELSE h[a]
  BY <1>2, <1>3 DEF Cut
<1> HIDE DEF m, sz
<1>7. /\ m[s] \in Header /\ m[s].size = rest
      /\ m[s].next = h[b].next /\ m[s].prev = b /\ m[s].free = TRUE
  BY <1>1, <1>4 DEF Header, Block
<1>8. /\ m[b] \in Header /\ m[b].size = n
      /\ m[b].next = s /\ m[b].prev = h[b].prev /\ m[b].free = h[b].free
  BY <1>1, <1>5 DEF Header
<1>9. \A a \in DOMAIN h \ {b} :
        /\ m[a] \in Header
        /\ m[a].size = h[a].size /\ m[a].next = h[a].next /\ m[a].free = h[a].free
        /\ m[a].prev = IF a = h[b].next THEN s ELSE h[a].prev
  <2> SUFFICES ASSUME NEW a \in DOMAIN h \ {b}
               PROVE  /\ m[a] \in Header
                      /\ m[a].size = h[a].size /\ m[a].next = h[a].next /\ m[a].free = h[a].free
                      /\ m[a].prev = IF a = h[b].next THEN s ELSE h[a].prev
    OBVIOUS
  <2>1. m[a] = IF a = h[b].next THEN [h[a] EXCEPT !.prev = s] ELSE h[a]
    BY <1>6
  <2> QED BY <1>1, <2>1 DEF Header
<1>10. rest = h[b].size - n - 1
  BY DEF rest, sz
<1> QED BY <1>2, <1>11, <1>7, <1>8, <1>9, <1>10 DEF CutEffect, m, s

LEMMA CutKeepsHeap ==
  ASSUME NEW h, NEW top, Heap(h, top), NEW b \in DOMAIN h, NEW n \in Nat,
         h[b].size >= n + 2
  PROVE  Heap(Cut(h, b, n), top)
PROOF
<1> DEFINE m == Cut(h, b, n)
           s == b + 1 + n
<1>0. CutEffect(h, m, b, n, s)
  BY CutFields
<1> HIDE DEF m, s
<1>1. /\ DOMAIN m = DOMAIN h \cup {s} /\ s \notin DOMAIN h
      /\ m[s] \in Header /\ m[s].size = h[b].size - n - 1
      /\ m[s].next = h[b].next /\ m[s].prev = b
      /\ m[b] \in Header /\ m[b].size = n
      /\ m[b].next = s /\ m[b].prev = h[b].prev
      /\ \A a \in DOMAIN h \ {b} :
           /\ m[a] \in Header
           /\ m[a].size = h[a].size /\ m[a].next = h[a].next
           /\ m[a].prev = IF a = h[b].next THEN s ELSE h[a].prev
  BY <1>0 DEF CutEffect
<1>2. /\ top \in Nat /\ b \in Nat /\ s \in Nat /\ h[b].size \in Nat
      /\ b < s /\ s < End(h, b) /\ End(h, b) \in Nat /\ End(h, b) = b + 1 + h[b].size
      /\ End(h, b) <= top /\ s = b + 1 + n /\ s # b
  BY BlockFacts DEF Heap, s
<1>3. End(m, b) = s /\ End(m, s) = End(h, b)
  <2>1. End(m, b) = b + 1 + n
    BY <1>1 DEF End, H
  <2>2. End(m, s) = s + 1 + (h[b].size - n - 1)
    BY <1>1 DEF End, H
  <2> QED BY <1>2, <2>1, <2>2
<1>4. \A a \in DOMAIN h \ {b} : End(m, a) = End(h, a)
  BY <1>1 DEF End
<1>5. Typed(m)
  BY <1>1, <1>2 DEF Heap, Typed
<1>6. \A a \in DOMAIN h : /\ End(h, a) <= top /\ (End(h, a) < top => End(h, a) \in DOMAIN h)
                          /\ h[a].next = IF End(h, a) < top THEN End(h, a) ELSE NULL
                          /\ a = head => h[a].prev = NULL
                          /\ a # head => h[a].prev \in DOMAIN h /\ End(h, h[a].prev) = a
                          /\ a \in Nat /\ End(h, a) \in Nat /\ a < End(h, a)
  BY BlockFacts DEF Heap, Tiled
<1>7. ASSUME NEW a \in DOMAIN m
      PROVE  /\ End(m, a) <= top
             /\ End(m, a) < top => End(m, a) \in DOMAIN m
             /\ m[a].next = IF End(m, a) < top THEN End(m, a) ELSE NULL
  <2>1. CASE a = b
    BY <1>1, <1>2, <1>3, <2>1
  <2>2. CASE a = s
    BY <1>1, <1>2, <1>3, <1>6, <2>2
  <2>3. CASE a # b /\ a # s
    BY <1>1, <1>4, <1>6, <2>3
  <2> QED BY <2>1, <2>2, <2>3
<1>8. ASSUME NEW a \in DOMAIN m
      PROVE  /\ a = head => m[a].prev = NULL
             /\ a # head => m[a].prev \in DOMAIN m /\ End(m, m[a].prev) = a
  <2>0. h[b].next # head /\ h[b].next # b /\ head # s
    BY <1>2, <1>6 DEF NULL, head
  <2>1. CASE a = s
    BY <1>1, <1>3, <2>0, <2>1
  <2>2. CASE a # s /\ a # b /\ a = h[b].next
    <3>1. a = End(h, b)
      BY <1>1, <1>6, <2>2 DEF NULL
    <3> QED BY <1>1, <1>3, <2>0, <2>2, <3>1
  <2>3. CASE a # s /\ (a = b \/ a # h[b].next)
    <3>1. a \in DOMAIN h /\ m[a].prev = h[a].prev
      BY <1>1, <2>3
    <3>2. CASE a = head
      BY <1>6, <3>1, <3>2
    <3>3. CASE a # head
      <4> DEFINE q == h[a].prev
      <4>1. q \in DOMAIN h /\ End(h, q) = a
        BY <1>6, <3>1, <3>3
      <4>2. a < top
        BY <1>2, <1>6, <3>1
      <4>3. h[q].next = a
        BY <1>6, <4>1, <4>2
      <4> HIDE DEF q
      <4>4. q # b
        BY <2>0, <2>3, <4>3
      <4>5. End(m, q) = a /\ q \in DOMAIN m
        BY <1>1, <1>4, <4>1, <4>4
      <4>6. m[a].prev = q
        BY <3>1 DEF q
      <4> QED BY <3>3, <4>5, <4>6
    <3> QED BY <3>2, <3>3
  <2> QED BY <2>1, <2>2, <2>3, <1>1
<1>9. ASSUME NEW a \in DOMAIN m, NEW c \in DOMAIN m, a < c
      PROVE  End(m, a) <= c
  <2>1. \A x, y \in DOMAIN h : x < y => End(h, x) <= y
    BY DEF Heap, Tiled
  <2>2. CASE a = b
    BY <1>1, <1>2, <1>3, <1>6, <1>9, <2>1, <2>2
  <2>3. CASE a = s
    BY <1>1, <1>2, <1>3, <1>6, <1>9, <2>1, <2>3
  <2>4. CASE a # b /\ a # s /\ c = s
    <3>1. a < b
      BY <1>1, <1>2, <1>6, <1>9, <2>1, <2>4, SMTT(30)
    <3> QED BY <1>1, <1>2, <1>4, <1>6, <2>1, <2>4, <3>1
  <2>5. CASE a # b /\ a # s /\ c # s
    BY <1>1, <1>4, <1>9, <2>1, <2>5
  <2> QED BY <2>2, <2>3, <2>4, <2>5
<1>10. Tiled(m, top)
  BY <1>7, <1>8, <1>9 DEF Tiled
<1> QED BY <1>2, <1>5, <1>10 DEF Heap, m

(* kmalloc on a block that fits: the heap stays one, only b comes into use, *)
(* and it is at most a unit larger than asked for.                         *)
TakeEffect(h, t, top, b, n) ==
  /\ Heap(t, top) /\ Separated(t)
  /\ InUse(t) = InUse(h) \cup {b} /\ b \notin InUse(h)
  /\ t[b].size \in n..(n + 1)
  /\ \A a \in InUse(h) : t[a].size = h[a].size

LEMMA TakeKeeps ==
  ASSUME NEW h, NEW top, Heap(h, top), Separated(h), NEW b \in DOMAIN h,
         NEW n \in Nat, h[b].free, h[b].size >= n
  PROVE  TakeEffect(h, Take(h, b, n), top, b, n)
PROOF
<1> DEFINE m == Split(h, b, n)
           t == [m EXCEPT ![b].free = FALSE]
           s == b + 1 + n
<1>1. b \in Nat /\ s \in Nat /\ b # s /\ h[b].size \in Nat /\ h[b].free \in BOOLEAN
  BY BlockFacts
<1>2. \/ m = h /\ h[b].size \in n..(n + 1)
      \/ CutEffect(h, m, b, n, s) /\ Heap(m, top)
  <2>1. CASE h[b].size - n < 2
    BY <1>1, <2>1 DEF Split, H, MinSplit
  <2>2. CASE ~(h[b].size - n < 2)
    <3>1. m = Cut(h, b, n)
      BY <1>1, <2>2 DEF Split, H, MinSplit, Cut
    <3>2. h[b].size >= n + 2
      BY <1>1, <2>2
    <3> QED BY <3>1, <3>2, CutFields, CutKeepsHeap
  <2> QED BY <2>1, <2>2
<1> HIDE DEF m, s
<1>3. Take(h, b, n) = t
  BY DEF Take, m
<1>4. Heap(m, top) /\ b \in DOMAIN m
  BY <1>2 DEF CutEffect
<1>5. /\ Heap(t, top) /\ DOMAIN t = DOMAIN m /\ t[b].free = FALSE
      /\ \A a \in DOMAIN m : /\ t[a].size = m[a].size /\ t[a].next = m[a].next
                             /\ a # b => t[a].free = m[a].free
  BY <1>4, FlagKeepsHeap
<1> HIDE DEF t
<1>6. CASE m = h /\ h[b].size \in n..(n + 1)
  <2>1. Separated(t)
    <3>1. \A a \in DOMAIN h : h[a].next # NULL => h[a].next \in DOMAIN h
      BY BlockFacts
    <3> QED BY <1>5, <1>6, <3>1 DEF Separated
  <2>2. InUse(t) = InUse(h) \cup {b} /\ b \notin InUse(h)
    BY <1>5, <1>6 DEF InUse
  <2>3. \A a \in InUse(h) : t[a].size = h[a].size
    BY <1>5, <1>6 DEF InUse
  <2>4. t[b].size \in n..(n + 1)
    BY <1>5, <1>6
  <2> QED BY <1>3, <1>5, <2>1, <2>2, <2>3, <2>4 DEF TakeEffect
<1>7. CASE CutEffect(h, m, b, n, s) /\ Heap(m, top)
  <2>1. /\ DOMAIN m = DOMAIN h \cup {s} /\ s \notin DOMAIN h
        /\ m[s].next = h[b].next /\ m[s].free = TRUE
        /\ m[b].size = n /\ m[b].next = s
        /\ \A a \in DOMAIN h \ {b} :
             m[a].size = h[a].size /\ m[a].next = h[a].next /\ m[a].free = h[a].free
    BY <1>7 DEF CutEffect
  <2>2. /\ DOMAIN t = DOMAIN h \cup {s} /\ s \notin DOMAIN h /\ b # s
        /\ t[s].next = h[b].next /\ t[s].free = TRUE
        /\ t[b].size = n /\ t[b].free = FALSE
        /\ \A a \in DOMAIN h \ {b} :
             t[a].size = h[a].size /\ t[a].next = h[a].next /\ t[a].free = h[a].free
    BY <1>1, <1>5, <2>1
  <2>3. \A a \in DOMAIN h : h[a].next # NULL => h[a].next \in DOMAIN h
    BY BlockFacts
  <2>4. ASSUME NEW a \in DOMAIN t, t[a].free, t[a].next # NULL
        PROVE  ~t[t[a].next].free
    <3>1. PICK c \in DOMAIN h : t[a].next = h[c].next /\ h[c].free
      <4>1. CASE a = s
        BY <2>2, <4>1
      <4>2. CASE a # s
        BY <2>2, <2>4, <4>2
      <4> QED BY <4>1, <4>2
    <3>2. h[c].next \in DOMAIN h /\ ~h[h[c].next].free
      BY <2>3, <2>4, <3>1 DEF Separated
    <3> QED BY <2>2, <3>1, <3>2
  <2>5. Separated(t)
    BY <2>4 DEF Separated
  <2>6. InUse(t) = InUse(h) \cup {b} /\ b \notin InUse(h)
    BY <2>2 DEF InUse
  <2>7. \A a \in InUse(h) : t[a].size = h[a].size
    BY <2>2 DEF InUse
  <2>8. t[b].size \in n..(n + 1)
    BY <2>2
  <2> QED BY <1>3, <1>5, <2>5, <2>6, <2>7, <2>8 DEF TakeEffect
<1> QED BY <1>2, <1>6, <1>7

-----------------------------------------------------------------------------
(* The list from heap_head.                                                *)
LEMMA WalkEquation ==
  ASSUME NEW h, NEW top, Heap(h, top)
  PROVE  /\ Walk(h) \in [Nat -> DOMAIN h \cup {NULL}]
         /\ Walk(h)[0] = head
         /\ \A k \in Nat : Walk(h)[k] = NULL => Walk(h)[k + 1] = NULL
         /\ \A k \in Nat : Walk(h)[k] # NULL => Walk(h)[k + 1] = h[Walk(h)[k]].next
PROOF
<1> DEFINE T == DOMAIN h \cup {NULL}
           g == [kb \in Nat \X T |-> IF kb[2] = NULL THEN NULL ELSE h[kb[2]].next]
           Def(at) == at = [k \in Nat |->
                        IF k = 0 THEN head
                        ELSE LET b == at[k - 1] IN IF b = NULL THEN NULL ELSE h[b].next]
<1>1. head \in T /\ \A b \in T \ {NULL} : h[b].next \in T
  BY BlockFacts DEF Heap, Typed
<1>2. g \in [Nat \X T -> T]
  BY <1>1
<1>3. \A k \in Nat, b \in T : g[<<k, b>>] = IF b = NULL THEN NULL ELSE h[b].next
  OBVIOUS
<1> HIDE DEF T, g
<1>4. \E f : Recursion(f, T, head, g)
  <2>1. StepOf(T, g)
    BY <1>2 DEF StepOf
  <2> QED BY <1>1, <2>1, NatRecursion
<1>13. PICK f : f \in [Nat -> T] /\ f[0] = head /\ \A k \in Nat \ {0} : f[k] = g[<<k, f[k - 1]>>]
  BY <1>4 DEF Recursion
<1>5. Def(f)
  <2>1. ASSUME NEW k \in Nat \ {0}
        PROVE  f[k] = IF f[k - 1] = NULL THEN NULL ELSE h[f[k - 1]].next
    <3>1. k - 1 \in Nat
      OBVIOUS
    <3> QED BY <3>1, <1>3, <1>13
  <2>2. \A k \in Nat : f[k] = IF k = 0 THEN head
                              ELSE LET b == f[k - 1] IN IF b = NULL THEN NULL ELSE h[b].next
    BY <2>1, <1>13
  <2> QED BY <1>13, <2>2
<1>6. Walk(h) = CHOOSE at : Def(at)
  BY DEF Walk
<1>7. Def(Walk(h))
  BY <1>5, <1>6
<1> DEFINE w == Walk(h)
<1>8. w[0] = head /\ \A k \in Nat \ {0} : w[k] = IF w[k - 1] = NULL THEN NULL ELSE h[w[k - 1]].next
  BY <1>7
<1>9. DOMAIN w = Nat /\ w = [k \in Nat |-> w[k]]
  BY <1>7
<1> HIDE DEF w
<1>10. \A k \in Nat : w[k + 1] = IF w[k] = NULL THEN NULL ELSE h[w[k]].next
  <2> SUFFICES ASSUME NEW k \in Nat PROVE w[k + 1] = IF w[k] = NULL THEN NULL ELSE h[w[k]].next
    OBVIOUS
  <2>1. k + 1 \in Nat \ {0} /\ (k + 1) - 1 = k
    OBVIOUS
  <2> QED BY <2>1, <1>8
<1>11. {k \in Nat : w[k] \in T} = Nat
  <2> DEFINE S == {k \in Nat : w[k] \in T}
  <2>1. 0 \in S
    BY <1>1, <1>8
  <2>2. \A k \in S : k + 1 \in S
    BY <1>1, <1>10 DEF T
  <2> HIDE DEF S
  <2>3. S = Nat
    <3>1. S \subseteq Nat BY DEF S
    <3> QED BY <2>1, <2>2, <3>1, NatInductionOnSets
  <2> QED BY <2>3 DEF S
<1>12. w \in [Nat -> T]
  BY <1>9, <1>11
<1> QED BY <1>8, <1>10, <1>12 DEF w, T

LEMMA HeapFinite ==
  ASSUME NEW h, NEW top, Heap(h, top)
  PROVE  IsFiniteSet(DOMAIN h)
PROOF
<1>1. DOMAIN h \subseteq 0..top
  BY BlockFacts DEF Heap
<1>2. IsFiniteSet(0..top)
  BY FS_Interval DEF Heap
<1> QED BY <1>1, <1>2, FS_Subset

(* After k steps the list is k blocks up the heap, or at its end.          *)
LEMMA WalkClimbs ==
  ASSUME NEW h, NEW top, Heap(h, top), NEW k \in Nat, Walk(h)[k] # NULL
  PROVE  Cardinality({a \in DOMAIN h : a < Walk(h)[k]}) = k
PROOF
<1> DEFINE w == Walk(h)
           Below(b) == {a \in DOMAIN h : a < b}
           S == {i \in Nat : w[i] # NULL => Cardinality(Below(w[i])) = i}
<1>1. /\ w \in [Nat -> DOMAIN h \cup {NULL}] /\ w[0] = head
      /\ \A i \in Nat : w[i] = NULL => w[i + 1] = NULL
      /\ \A i \in Nat : w[i] # NULL => w[i + 1] = h[w[i]].next
  BY WalkEquation
<1> HIDE DEF w
<1>2. IsFiniteSet(DOMAIN h) /\ DOMAIN h \subseteq Nat
  BY HeapFinite DEF Heap, Typed
<1>3. 0 \in S
  <2>1. Below(head) = {}
    BY <1>2 DEF head
  <2> QED BY <1>1, <2>1, FS_EmptySet
<1>4. ASSUME NEW i \in S PROVE i + 1 \in S
  <2> SUFFICES ASSUME w[i + 1] # NULL PROVE Cardinality(Below(w[i + 1])) = i + 1
    OBVIOUS
  <2> DEFINE b == w[i]
             n == w[i + 1]
  <2>1. b # NULL /\ b \in DOMAIN h /\ n = h[b].next /\ Cardinality(Below(b)) = i
    BY <1>1
  <2>2. n = End(h, b) /\ b < n /\ b \in Nat /\ n \in Nat
    BY <2>1, BlockFacts
  <2> HIDE DEF b, n
  <2>3. Below(n) = Below(b) \cup {b} /\ b \notin Below(b)
    <3>1. \A a \in DOMAIN h : b < a => n <= a
      BY <2>1, <2>2 DEF Heap, Tiled
    <3>2. \A a \in DOMAIN h : a < n => (a < b \/ a = b)
      BY <1>2, <2>2, <3>1
    <3>3. \A a \in DOMAIN h : (a < b \/ a = b) => a < n
      BY <1>2, <2>2
    <3> QED BY <2>1, <2>2, <3>2, <3>3
  <2>4. IsFiniteSet(Below(b))
    BY <1>2, FS_Subset
  <2>5. Cardinality(Below(b) \cup {b}) = Cardinality(Below(b)) + 1
    BY <2>3, <2>4, FS_AddElement
  <2> QED BY <2>1, <2>3, <2>5 DEF n
<1>5. S = Nat
  <2> HIDE DEF S
  <2>1. S \subseteq Nat BY DEF S
  <2> QED BY <1>3, <1>4, <2>1, NatInductionOnSets
<1> QED BY <1>5 DEF w

(* So it ends, and there is a last block.                                  *)
LEMMA LastExists ==
  ASSUME NEW h, NEW top, Heap(h, top)
  PROVE  \E b \in DOMAIN h : IsLast(h, b)
PROOF
<1> DEFINE w == Walk(h)
           N == Cardinality(DOMAIN h)
           Nulls == {k \in Nat : w[k] = NULL}
<1>1. /\ w \in [Nat -> DOMAIN h \cup {NULL}] /\ w[0] = head
      /\ \A i \in Nat : w[i] # NULL => w[i + 1] = h[w[i]].next
  BY WalkEquation
<1>2. IsFiniteSet(DOMAIN h) /\ N \in Nat /\ DOMAIN h \subseteq Nat
  BY HeapFinite, FS_CardinalityType DEF Heap, Typed
<1>3. N \in Nulls
  <2> SUFFICES ASSUME w[N] # NULL PROVE FALSE
    BY <1>2
  <2> DEFINE B == {a \in DOMAIN h : a < w[N]}
  <2>1. Cardinality(B) = N
    BY <1>2, WalkClimbs
  <2>2. w[N] \in DOMAIN h /\ w[N] \in Nat
    BY <1>1, <1>2
  <2>3. w[N] \notin B /\ B \subseteq DOMAIN h
    BY <2>2
  <2> QED BY <1>2, <2>1, <2>2, <2>3, FS_Subset
<1> HIDE DEF w, N
<1>4. PICK k \in Nulls : \A j \in Nulls : k <= j
  <2>1. Nulls \in SUBSET Nat /\ Nulls # {}
    BY <1>3
  <2> HIDE DEF Nulls
  <2> QED BY <2>1, LeastNumber
<1>5. k \in Nat /\ k # 0 /\ k <= N
  <2>1. w[0] # NULL
    BY <1>1 DEF head, NULL
  <2> QED BY <1>3, <1>4, <2>1
<1>6. k - 1 \in Nat /\ k - 1 \in 0..N /\ (k - 1) + 1 = k /\ k - 1 \notin Nulls
  BY <1>2, <1>4, <1>5
<1>7. w[k - 1] \in DOMAIN h /\ w[k - 1] # NULL /\ h[w[k - 1]].next = NULL
  <2>1. w[k] = NULL
    BY <1>4
  <2> QED BY <1>1, <1>6, <2>1
<1>8. IsLast(h, w[k - 1])
  BY <1>6, <1>7 DEF IsLast, w, N
<1> QED BY <1>7, <1>8

-----------------------------------------------------------------------------
(* grow_heap: the heap with the new block behind the last one.             *)
AppendEffect(h, g, top) ==
  /\ Heap(g, top) /\ Separated(g)
  /\ InUse(g) = InUse(h) /\ SameSizes(h, g)

LEMMA AppendKeeps ==
  ASSUME Heap(hdr, brk), Separated(hdr), NEW size \in Nat, size >= 1
  PROVE  AppendEffect(hdr, AppendBlock(hdr, size), brk + size)
PROOF
<1> DEFINE h == hdr
           t == CHOOSE b \in DOMAIN hdr : IsLast(hdr, b)
           top == brk + size
           rest == size - H
           l == [a \in DOMAIN h \cup {brk} |->
                   CASE a = brk -> Block(size - H, NULL, t, TRUE)
                     [] a = t -> [h[t] EXCEPT !.next = brk]
                     [] OTHER -> h[a]]
<1>1. t \in DOMAIN h /\ IsLast(h, t)
  BY LastExists
<1>2. AppendBlock(hdr, size) = IF h[t].free THEN CoalesceNext(l, t, top) ELSE l
  BY DEF AppendBlock
<1> HIDE DEF t, top, h
<1>3. Heap(h, brk) /\ Separated(h) /\ h = hdr
  BY DEF h
<1>4. /\ brk \in Nat /\ top \in Nat /\ brk < top /\ rest \in Nat
      /\ h[t] \in Header /\ t \in Nat /\ h[t].next = NULL /\ End(h, t) = brk /\ t < brk
  BY <1>1, <1>3, BlockFacts DEF top, H, IsLast, Heap, Typed
<1>5. \A a \in DOMAIN h : /\ End(h, a) <= brk /\ (End(h, a) < brk => End(h, a) \in DOMAIN h)
                          /\ h[a].next = IF End(h, a) < brk THEN End(h, a) ELSE NULL
                          /\ a = head => h[a].prev = NULL
                          /\ a # head => h[a].prev \in DOMAIN h /\ End(h, h[a].prev) = a
                          /\ a \in Nat /\ End(h, a) \in Nat /\ a < End(h, a) /\ a < brk
                          /\ h[a] \in Header
  <2>1. \A a \in DOMAIN h : a \in Nat /\ End(h, a) \in Nat /\ a < End(h, a) /\ a < brk
    BY <1>3, BlockFacts
  <2>2. \A a \in DOMAIN h : /\ End(h, a) <= brk /\ (End(h, a) < brk => End(h, a) \in DOMAIN h)
                            /\ h[a].next = IF End(h, a) < brk THEN End(h, a) ELSE NULL
                            /\ a = head => h[a].prev = NULL
                            /\ a # head => h[a].prev \in DOMAIN h /\ End(h, h[a].prev) = a
                            /\ h[a] \in Header
    BY <1>3 DEF Heap, Tiled, Typed
  <2> QED BY <2>1, <2>2
<1>6. brk \notin DOMAIN h /\ head \in DOMAIN h /\ brk # head
  BY <1>3, <1>4, <1>5 DEF Heap, Typed
<1>7. /\ DOMAIN l = DOMAIN h \cup {brk}
      /\ l[brk] = Block(rest, NULL, t, TRUE)
      /\ l[t] = [h[t] EXCEPT !.next = brk]
      /\ \A a \in DOMAIN h \ {t} : l[a] = h[a]
  BY <1>1, <1>4, <1>6
<1> HIDE DEF l
<1>8. /\ l[brk] \in Header /\ l[brk].size = rest /\ l[brk].next = NULL
      /\ l[brk].prev = t /\ l[brk].free = TRUE
  BY <1>4, <1>7 DEF Header, Block
<1>9. /\ l[t] \in Header /\ l[t].size = h[t].size /\ l[t].next = brk
      /\ l[t].prev = h[t].prev /\ l[t].free = h[t].free
  BY <1>4, <1>7 DEF Header
<1>10. End(l, brk) = top
  BY <1>4, <1>8 DEF End, top, H, rest
<1>11. \A a \in DOMAIN h : End(l, a) = End(h, a)
  BY <1>7, <1>9 DEF End
<1>12. Typed(l)
  BY <1>4, <1>5, <1>6, <1>7, <1>8, <1>9 DEF Typed
<1>13. ASSUME NEW a \in DOMAIN l
       PROVE  /\ End(l, a) <= top
              /\ End(l, a) < top => End(l, a) \in DOMAIN l
              /\ l[a].next = IF End(l, a) < top THEN End(l, a) ELSE NULL
  <2>1. CASE a = brk
    <3>1. End(l, a) = top /\ l[a].next = NULL
      BY <1>8, <1>10, <2>1
    <3> QED BY <1>4, <3>1
  <2>2. CASE a = t
    <3>1. End(l, a) = brk /\ l[a].next = brk
      BY <1>1, <1>4, <1>9, <1>11, <2>2
    <3> QED BY <1>4, <1>7, <3>1
  <2>3. CASE a # brk /\ a # t
    <3>1. a \in DOMAIN h /\ l[a] = h[a] /\ End(l, a) = End(h, a)
      BY <1>7, <1>11, <2>3
    <3>2. End(h, a) # brk
      BY <1>1, <1>3, <1>4, <2>3, <3>1, OneEnd
    <3>3. End(h, a) < brk
      BY <1>4, <1>5, <3>1, <3>2
    <3> QED BY <1>4, <1>5, <1>7, <3>1, <3>3
  <2> QED BY <2>1, <2>2, <2>3
<1>14. ASSUME NEW a \in DOMAIN l
       PROVE  /\ a = head => l[a].prev = NULL
              /\ a # head => l[a].prev \in DOMAIN l /\ End(l, l[a].prev) = a
  <2>1. CASE a = brk
    BY <1>1, <1>4, <1>6, <1>7, <1>8, <1>11, <2>1
  <2>2. CASE a # brk
    <3>1. a \in DOMAIN h /\ l[a].prev = h[a].prev
      BY <1>7, <1>9, <2>2
    <3> QED BY <1>5, <1>7, <1>11, <3>1
  <2> QED BY <2>1, <2>2
<1>15. ASSUME NEW a \in DOMAIN l, NEW c \in DOMAIN l, a < c
       PROVE  End(l, a) <= c
  <2>1. a \in DOMAIN h
    BY <1>4, <1>5, <1>7, <1>15
  <2>2. \A x, y \in DOMAIN h : x < y => End(h, x) <= y
    BY <1>3 DEF Heap, Tiled
  <2> QED BY <1>5, <1>7, <1>11, <1>15, <2>1, <2>2
<1>16. Heap(l, top)
  BY <1>4, <1>12, <1>13, <1>14, <1>15 DEF Heap, Tiled
<1>17. ApartBut(l, t, NULL)
  <2> SUFFICES ASSUME NEW a \in DOMAIN l \ {t}, l[a].free, l[a].next # NULL
               PROVE  ~l[l[a].next].free
    BY DEF ApartBut
  <2>1. a \in DOMAIN h /\ l[a] = h[a]
    BY <1>7, <1>8
  <2>2. h[a].next \in DOMAIN h /\ ~h[h[a].next].free
    BY <1>3, <2>1, BlockFacts DEF Separated
  <2> QED BY <1>7, <1>9, <2>1, <2>2
<1>18. InUse(l) = InUse(h) /\ SameSizes(h, l)
  BY <1>6, <1>7, <1>8, <1>9, ZenonT(60) DEF InUse, SameSizes
<1>19. CASE h[t].free
  <2> DEFINE m == CoalesceNext(l, t, top)
  <2>1. t \in DOMAIN l /\ l[t].free
    BY <1>1, <1>7, <1>9, <1>19
  <2>2. /\ Heap(m, top) /\ ApartBefore(m, NULL)
        /\ InUse(m) = InUse(l) /\ SameSizes(l, m)
    BY <1>16, <1>17, <2>1, CoalesceKeeps
  <2>3. AppendBlock(hdr, size) = m
    BY <1>2, <1>19
  <2> HIDE DEF m
  <2>4. Separated(m)
    BY <2>2 DEF Separated, ApartBefore
  <2>5. InUse(m) = InUse(h) /\ SameSizes(h, m)
    BY <1>18, <2>2 DEF SameSizes
  <2> QED BY <1>3, <2>2, <2>3, <2>4, <2>5 DEF AppendEffect, top
<1>20. CASE ~h[t].free
  <2>1. AppendBlock(hdr, size) = l
    BY <1>2, <1>20
  <2>2. Separated(l)
    BY <1>9, <1>17, <1>20 DEF ApartBut, Separated
  <2> QED BY <1>3, <1>16, <1>18, <2>1, <2>2 DEF AppendEffect, top
<1> QED BY <1>19, <1>20

-----------------------------------------------------------------------------
(* Growth in pages.                                                        *)
LEMMA AlignUpFacts ==
  ASSUME NEW v \in Nat, NEW a \in Nat \ {0}
  PROVE  /\ AlignUp(v, a) \in Nat /\ AlignUp(v, a) >= v
         /\ AlignUp(v, a) % a = 0
PROOF
<1> DEFINE w == v + a - 1
           q == w \div a
           r == w % a
<1>1. w \in Nat /\ w = a * q + r /\ r \in 0..(a - 1) /\ q \in Nat
  <2>1. w \in Nat
    OBVIOUS
  <2> HIDE DEF w
  <2> QED BY <2>1, SMT
<1>2. AlignUp(v, a) = q * a
  BY DEF AlignUp
<1>3. w = v + a - 1
  OBVIOUS
<1> HIDE DEF w, q, r
<1>4. q * a = a * q /\ q * a \in Nat
  BY <1>1
<1>5. q * a >= v
  BY <1>1, <1>3, <1>4
<1>6. (q * a) % a = 0
  BY <1>1, <1>4, QuotientUnique
<1> QED BY <1>2, <1>4, <1>5, <1>6

LEMMA GrowSizeFacts ==
  ASSUME NEW n \in Sizes
  PROVE  /\ GrowSize(n) \in Nat /\ GrowSize(n) >= 2
         /\ GrowSize(n) % Page = 0
PROOF
<1>1. n \in Nat \ {0} /\ H + n \in Nat /\ H + n >= 2 /\ Page \in Nat \ {0}
      /\ Initial \in Nat /\ Initial > 1 /\ Initial % Page = 0
  BY KHeapAssumption DEF H
<1> DEFINE up == AlignUp(H + n, Page)
<1>2. up \in Nat /\ up >= H + n /\ up % Page = 0
  BY <1>1, AlignUpFacts
<1>3. GrowSize(n) = IF up < Initial THEN Initial ELSE up
  BY DEF GrowSize
<1> HIDE DEF up
<1> QED BY <1>1, <1>2, <1>3

(* Mapping adds to the page tables what it takes for them.                 *)
LEMMA NewTablesFacts ==
  ASSUME brk \in Nat, IsFiniteSet(tables), tables \subseteq Nat, NEW i \in Nat
  PROVE  /\ Cardinality(NewTables(i)) \in Nat /\ Cost(i) = i + Cardinality(NewTables(i))
         /\ IsFiniteSet(tables \cup NewTables(i)) /\ tables \cup NewTables(i) \subseteq Nat
         /\ Cardinality(tables \cup NewTables(i))
              = Cardinality(tables) + Cardinality(NewTables(i))
         /\ Cardinality(tables) \in Nat
PROOF
<1> DEFINE S == NewTables(i)
           p == brk \div Page
<1>1. Page \in Nat \ {0} /\ Span \in Nat \ {0} /\ p \in Nat
  BY KHeapAssumption, QuotientSmall
<1>2. S = {(p + j) \div Span : j \in 0..(i - 1)} \ tables
  BY DEF NewTables
<1> HIDE DEF p, S
<1>3. \A j \in 0..(i - 1) : (p + j) \div Span \in Nat /\ (p + j) \div Span <= p + i
  <2> SUFFICES ASSUME NEW j \in 0..(i - 1)
               PROVE  (p + j) \div Span \in Nat /\ (p + j) \div Span <= p + i
    OBVIOUS
  <2> DEFINE b == p + j
  <2>1. b \in Nat /\ b <= p + i
    BY <1>1
  <2> HIDE DEF b
  <2>2. b \div Span \in Nat /\ b \div Span <= b
    BY <1>1, <2>1, QuotientSmall
  <2>3. b \div Span <= p + i
    BY <1>1, <2>1, <2>2
  <2> QED BY <2>2, <2>3 DEF b
<1>4. S \in SUBSET Nat /\ p + i \in Nat /\ \A x \in S : x <= p + i
  BY <1>1, <1>2, <1>3
<1>5. IsFiniteSet(S)
  BY <1>4, FS_BoundedSetOfNaturals
<1>6. tables \cap S = {}
  BY <1>2
<1>7. /\ IsFiniteSet(tables \cup S)
      /\ Cardinality(tables \cup S) = Cardinality(tables) + Cardinality(S) - Cardinality({})
  BY <1>5, <1>6, FS_Union
<1>8. Cardinality({}) = 0 /\ Cardinality(S) \in Nat /\ Cardinality(tables) \in Nat
  BY <1>5, FS_EmptySet, FS_CardinalityType
<1>9. Cost(i) = i + Cardinality(S)
  BY DEF Cost, S
<1>10. Cardinality(tables \cup S) = Cardinality(tables) + Cardinality(S)
  BY <1>7, <1>8
<1>11. tables \cup S \subseteq Nat
  BY <1>4
<1> QED BY <1>7, <1>8, <1>9, <1>10, <1>11 DEF S

-----------------------------------------------------------------------------
(* The inductive invariant: the blocks tile the heap, free blocks are      *)
(* apart, the heap is whole pages below its limit, and the frames add up.  *)
HeapInv ==
  /\ Heap(hdr, brk) /\ Separated(hdr)
  /\ (brk % Page) = 0 /\ brk <= MaxSize
  /\ IsFiniteSet(tables) /\ tables \subseteq Nat
  /\ frames \in Nat /\ others \in Nat /\ halted \in BOOLEAN
  /\ FramesAccounted

LEMMA HeapInvInit ==
  ASSUME Init
  PROVE  HeapInv
PROOF
<1> DEFINE P == Initial \div Page
<1>1. /\ Initial \in Nat /\ Initial > 1 /\ (Initial % Page) = 0 /\ Initial <= MaxSize
      /\ Page \in Nat \ {0} /\ Span \in Nat \ {0} /\ Frames \in Nat
      /\ P + Cardinality({p \div Span : p \in 0..(P - 1)}) <= Frames
  BY KHeapAssumption
<1>2. P \in Nat
  BY <1>1, QuotientSmall
<1>3. /\ hdr = [a \in {head} |-> Block(Initial - H, NULL, NULL, TRUE)] /\ brk = Initial
      /\ tables = {p \div Span : p \in 0..(P - 1)}
      /\ frames = Frames - P - Cardinality(tables) /\ others = 0 /\ halted = FALSE
  BY DEF Init
<1> HIDE DEF P
<1>4. tables \subseteq Nat /\ IsFiniteSet(tables)
  <2>1. \A p \in 0..(P - 1) : p \div Span \in Nat /\ p \div Span <= P
    <3> SUFFICES ASSUME NEW p \in 0..(P - 1) PROVE p \div Span \in Nat /\ p \div Span <= P
      OBVIOUS
    <3>1. p \in Nat /\ p <= P
      BY <1>2
    <3>2. p \div Span \in Nat /\ p \div Span <= p
      BY <1>1, <3>1, QuotientSmall
    <3> QED BY <1>2, <3>1, <3>2
  <2>2. tables \in SUBSET Nat /\ \A x \in tables : x <= P
    BY <1>3, <2>1
  <2> QED BY <1>2, <2>2, FS_BoundedSetOfNaturals
<1>5. Cardinality(tables) \in Nat
  BY <1>4, FS_CardinalityType
<1>6. frames \in Nat /\ frames + others + P + Cardinality(tables) = Frames
  BY <1>1, <1>2, <1>3, <1>5
<1>7. Heap(hdr, brk) /\ Separated(hdr)
  <2> DEFINE rest == Initial - H
  <2>1. rest \in Nat /\ 0 + H + rest = Initial
    BY <1>1 DEF H
  <2>2. DOMAIN hdr = {head} /\ hdr[head] = Block(rest, NULL, NULL, TRUE)
    BY <1>3
  <2> HIDE DEF rest
  <2>3. /\ hdr[head] \in Header /\ hdr[head].size = rest
        /\ hdr[head].next = NULL /\ hdr[head].prev = NULL
    BY <2>1, <2>2 DEF Block, Header
  <2>4. End(hdr, head) = brk
    BY <1>3, <2>1, <2>3 DEF End, head
  <2>8. head \in Nat /\ \A b \in DOMAIN hdr : b = head
    BY <2>2 DEF head
  <2>5. Typed(hdr)
    BY <2>2, <2>3, <2>8 DEF Typed
  <2>6. Tiled(hdr, brk)
    <3>1. \A b, c \in DOMAIN hdr : ~(b < c)
      BY <2>8
    <3>2. brk \in Nat
      BY <1>1, <1>3
    <3>3. \A b \in DOMAIN hdr : /\ End(hdr, b) = brk /\ hdr[b].next = NULL
                               /\ hdr[b].prev = NULL
      BY <2>3, <2>4, <2>8
    <3> QED BY <2>8, <3>1, <3>2, <3>3 DEF Tiled
  <2>7. Separated(hdr)
    BY <2>2, <2>3 DEF Separated
  <2> QED BY <1>1, <1>3, <2>5, <2>6, <2>7 DEF Heap
<1> QED BY <1>1, <1>3, <1>4, <1>6, <1>7 DEF HeapInv, FramesAccounted, P

-----------------------------------------------------------------------------
(* What a step does to the blocks in use.                                  *)
Grants(n) ==
  \E b : /\ InUse(hdr') = InUse(hdr) \cup {b} /\ b \notin InUse(hdr)
         /\ hdr'[b].size \in n..(n + 1)
         /\ \A a \in InUse(hdr) : hdr'[a].size = hdr[a].size

TakesBack(b) ==
  InUse(hdr') = InUse(hdr) \ {b} /\ SameSizes(hdr, hdr')

LEMMA KmallocFitsKeeps ==
  ASSUME HeapInv, NEW n \in Sizes, KmallocFits(n)
  PROVE  HeapInv' /\ Grants(n)
PROOF
<1>1. PICK b \in DOMAIN hdr : FirstFit(hdr, n, b) /\ hdr' = Take(hdr, b, n)
  BY DEF KmallocFits
<1>2. hdr[b].free /\ hdr[b].size >= n /\ n \in Nat
  BY <1>1, KHeapAssumption DEF FirstFit, Fits
<1>3. Heap(hdr, brk) /\ Separated(hdr)
  BY DEF HeapInv
<1>4. TakeEffect(hdr, hdr', brk, b, n)
  BY <1>1, <1>2, <1>3, TakeKeeps
<1>5. UNCHANGED <<brk, frames, tables, others, halted>>
  BY DEF KmallocFits
<1>6. HeapInv'
  BY <1>4, <1>5 DEF HeapInv, TakeEffect, FramesAccounted
<1>7. Grants(n)
  BY <1>4 DEF TakeEffect, Grants
<1> QED BY <1>6, <1>7

LEMMA KmallocGrowsKeeps ==
  ASSUME HeapInv, NEW n \in Sizes, KmallocGrows(n)
  PROVE  HeapInv' /\ (Grants(n) \/ UNCHANGED hdr)
PROOF
<1> DEFINE size == GrowSize(n)
           pages == size \div Page
<1>1. size \in Nat /\ size >= 2 /\ (size % Page) = 0 /\ Page \in Nat \ {0} /\ n \in Nat
  BY GrowSizeFacts, KHeapAssumption
<1>2. /\ Heap(hdr, brk) /\ Separated(hdr) /\ brk \in Nat /\ (brk % Page) = 0
      /\ IsFiniteSet(tables) /\ tables \subseteq Nat
      /\ frames \in Nat /\ others \in Nat /\ FramesAccounted
  BY DEF HeapInv, Heap
<1> HIDE DEF size
<1>3. /\ ((brk + size) % Page) = 0 /\ (brk + size) \div Page = brk \div Page + pages
      /\ brk \div Page \in Nat /\ pages \in Nat
  BY <1>1, <1>2, MultiplesAdd
<1> HIDE DEF pages
<1>4. ~halted /\ brk + size <= MaxSize /\ others' = others
  BY DEF KmallocGrows, size
<1>5. CASE /\ MapAll(pages) /\ brk' = brk + size
           /\ \E b \in DOMAIN AppendBlock(hdr, size) :
                FirstFit(AppendBlock(hdr, size), n, b)
                /\ hdr' = Take(AppendBlock(hdr, size), b, n)
  <2> DEFINE g == AppendBlock(hdr, size)
  <2>1. PICK b \in DOMAIN g : FirstFit(g, n, b) /\ hdr' = Take(g, b, n)
    BY <1>5
  <2>2. AppendEffect(hdr, g, brk')
    <3>1. size >= 1
      BY <1>1
    <3> QED BY <1>1, <1>2, <1>5, <3>1, AppendKeeps
  <2> HIDE DEF g
  <2>3. /\ Heap(g, brk') /\ Separated(g)
        /\ InUse(g) = InUse(hdr) /\ SameSizes(hdr, g)
    BY <2>2 DEF AppendEffect
  <2>4. g[b].free /\ g[b].size >= n
    BY <2>1 DEF FirstFit, Fits
  <2>5. TakeEffect(g, hdr', brk', b, n)
    BY <1>1, <2>1, <2>3, <2>4, TakeKeeps
  <2>6. Grants(n)
    BY <2>3, <2>5 DEF TakeEffect, Grants, SameSizes
  <2>7. /\ Cost(pages) <= frames /\ frames' = frames - Cost(pages)
        /\ tables' = tables \cup NewTables(pages) /\ halted' = halted
    BY <1>5 DEF MapAll
  <2>8. /\ Cardinality(NewTables(pages)) \in Nat
        /\ Cost(pages) = pages + Cardinality(NewTables(pages))
        /\ IsFiniteSet(tables') /\ tables' \subseteq Nat
        /\ Cardinality(tables') = Cardinality(tables) + Cardinality(NewTables(pages))
        /\ Cardinality(tables) \in Nat
    BY <1>2, <1>3, <2>7, NewTablesFacts
  <2>9. frames' \in Nat
    BY <1>2, <1>3, <2>7, <2>8
  <2>10. (brk' % Page) = 0 /\ brk' \div Page = brk \div Page + pages /\ brk' <= MaxSize
    BY <1>3, <1>4, <1>5
  <2>11. FramesAccounted'
    <3>1. frames + others + brk \div Page + Cardinality(tables) = Frames
      BY <1>2, <1>4 DEF FramesAccounted
    <3>2. frames' + others' + (brk' \div Page) + Cardinality(tables') = Frames
      BY <1>2, <1>3, <1>4, <2>7, <2>8, <2>10, <3>1
    <3> QED BY <2>9, <3>2 DEF FramesAccounted
  <2>12. Heap(hdr', brk') /\ Separated(hdr')
    BY <2>5 DEF TakeEffect
  <2> QED BY <1>2, <1>4, <2>6, <2>7, <2>8, <2>9, <2>10, <2>11, <2>12 DEF HeapInv
<1>6. CASE MapFails(pages) /\ UNCHANGED <<hdr, brk>>
  <2>1. PICK i \in 0..(pages - 1) : /\ Cost(i) = frames /\ RollBack(i)
                                    /\ tables' = tables \cup NewTables(i)
                                    /\ halted' = halted
    BY <1>6 DEF MapFails
  <2>2. i \in Nat
    BY <1>3
  <2>3. /\ Cardinality(NewTables(i)) \in Nat /\ Cost(i) = i + Cardinality(NewTables(i))
        /\ IsFiniteSet(tables') /\ tables' \subseteq Nat
        /\ Cardinality(tables') = Cardinality(tables) + Cardinality(NewTables(i))
        /\ Cardinality(tables) \in Nat
    BY <1>2, <2>1, <2>2, NewTablesFacts
  <2>4. frames' = frames - Cost(i) + i
    BY <2>1 DEF RollBack
  <2>5. frames' \in Nat
    BY <1>2, <2>1, <2>2, <2>4
  <2>6. FramesAccounted'
    <3>1. frames + others + brk \div Page + Cardinality(tables) = Frames
      BY <1>2, <1>4 DEF FramesAccounted
    <3>2. brk' \div Page = brk \div Page
      <4>1. brk' = brk
        BY <1>6
      <4> QED BY <1>1, <1>2, <4>1
    <3>5. frames \in Nat /\ Cost(i) = frames
      BY <1>2, <2>1
    <3>6. frames' = i
      BY <2>2, <2>4, <3>5
    <3>7. frames = i + Cardinality(NewTables(i))
      BY <2>3, <3>5
    <3>3. frames' = i /\ frames = i + Cardinality(NewTables(i)) /\ others' = others
      BY <1>4, <3>6, <3>7
    <3>4. frames' + others' + (brk' \div Page) + Cardinality(tables') = Frames
      BY <1>2, <1>3, <2>2, <2>3, <3>1, <3>2, <3>3
    <3> QED BY <2>5, <3>4 DEF FramesAccounted
  <2>7. HeapInv'
    BY <1>4, <1>6, <2>1, <2>3, <2>5, <2>6 DEF HeapInv
  <2> QED BY <1>6, <2>7
<1>7. CASE MapHalts(pages) /\ UNCHANGED <<hdr, brk>>
  <2>1. PICK i \in 0..(pages - 1) : /\ frames' = 0 /\ tables' = tables \cup NewTables(i)
                                    /\ halted' = TRUE
    BY <1>7 DEF MapHalts
  <2>2. IsFiniteSet(tables') /\ tables' \subseteq Nat
    <3>1. i \in Nat
      BY <1>3
    <3> QED BY <1>2, <2>1, <3>1, NewTablesFacts
  <2>3. HeapInv'
    BY <1>4, <1>7, <2>1, <2>2 DEF HeapInv, FramesAccounted
  <2> QED BY <1>7, <2>3
<1> QED BY <1>5, <1>6, <1>7 DEF KmallocGrows, size, pages

LEMMA KfreeKeeps ==
  ASSUME HeapInv, NEW b \in DOMAIN hdr, Kfree(b)
  PROVE  HeapInv' /\ TakesBack(b)
PROOF
<1>1. Heap(hdr, brk) /\ Separated(hdr)
  BY DEF HeapInv
<1>2. ~hdr[b].free /\ hdr' = Release(hdr, b) /\ UNCHANGED <<brk, frames, tables, others, halted>>
  BY DEF Kfree
<1>3. /\ Heap(hdr', brk) /\ Separated(hdr')
      /\ InUse(hdr') = InUse(hdr) \ {b} /\ SameSizes(hdr, hdr')
  BY <1>1, <1>2, ReleaseKeeps
<1>4. HeapInv'
  BY <1>2, <1>3 DEF HeapInv, FramesAccounted
<1> QED BY <1>3, <1>4 DEF TakesBack

LEMMA HeapInvNext ==
  ASSUME HeapInv, [Next]_vars
  PROVE  HeapInv'
PROOF
<1>1. CASE \E n \in Sizes : KmallocFits(n) \/ KmallocGrows(n)
  BY <1>1, KmallocFitsKeeps, KmallocGrowsKeeps
<1>2. CASE \E b \in DOMAIN hdr : Kfree(b)
  BY <1>2, KfreeKeeps
<1>3. CASE OtherAlloc \/ OtherFree
  <2>1. /\ UNCHANGED <<hdr, brk, tables, halted>>
        /\ frames' \in Nat /\ others' \in Nat /\ frames' + others' = frames + others
    BY <1>3 DEF OtherAlloc, OtherFree, HeapInv
  <2>2. FramesAccounted'
    <3>1. brk \in Nat /\ brk \div Page \in Nat /\ Cardinality(tables) \in Nat
      BY KHeapAssumption, QuotientSmall, FS_CardinalityType DEF HeapInv, Heap
    <3> QED BY <2>1, <3>1 DEF HeapInv, FramesAccounted
  <2> QED BY <2>1, <2>2 DEF HeapInv
<1>4. CASE UNCHANGED vars
  BY <1>4 DEF vars, HeapInv, FramesAccounted
<1> QED BY <1>1, <1>2, <1>3, <1>4 DEF Next

LEMMA HeapAlways == Spec => []HeapInv
PROOF
<1> QED BY HeapInvInit, HeapInvNext, PTL DEF Spec

-----------------------------------------------------------------------------
(* The state of kheap.c keeps its types, whatever is asked of the heap.    *)
THEOREM KHeapTypes == Spec => []TypeOK
PROOF
<1>1. HeapInv => TypeOK
  BY DEF HeapInv, Heap, Typed, Header, TypeOK
<1> QED BY <1>1, HeapAlways, PTL

(* After any calls of kmalloc and kfree, heap_check finds every header on  *)
(* the list and the blocks end to end from KHEAP_BASE to heap_brk.         *)
THEOREM HeapChecks == Spec => []ListTilesHeap
PROOF
<1>1. HeapInv => ListTilesHeap
  BY HeapPasses DEF HeapInv
<1> QED BY <1>1, HeapAlways, PTL

(* kfree and grow_heap leave no two free blocks side by side.              *)
THEOREM FreeBlocksMerge == Spec => []NoFreeNeighbours
PROOF
<1>1. HeapInv => NoFreeNeighbours
  BY DEF HeapInv, Separated, NoFreeNeighbours
<1> QED BY <1>1, HeapAlways, PTL

(* A growth that fails half way gives back all it mapped but page tables,  *)
(* and none takes more frames than pmm.c has.                              *)
THEOREM FramesAddUp == Spec => []FramesAccounted
PROOF
<1>1. HeapInv => FramesAccounted
  BY DEF HeapInv
<1> QED BY <1>1, HeapAlways, PTL

-----------------------------------------------------------------------------
(* The refinement: block b in use is piece b + H.                          *)
Pieces == [p \in {b + H : b \in Used} |-> hdr[p - H].size]

PiecesMapped ==
  /\ DOMAIN Pieces = {b + 1 : b \in InUse(hdr)}
  /\ \A b \in InUse(hdr) : /\ b \in Nat /\ hdr[b].size \in Nat
                           /\ b + 1 \in DOMAIN Pieces /\ Pieces[b + 1] = hdr[b].size
                           /\ b + 1 + hdr[b].size <= MaxSize
  /\ \A b, c \in InUse(hdr) : b < c => b + 1 + hdr[b].size <= c

LEMMA PiecesFacts ==
  ASSUME HeapInv
  PROVE  PiecesMapped
PROOF
<1>1. Used = InUse(hdr) /\ H = 1
  BY DEF Used, InUse, H
<1>2. \A b \in InUse(hdr) : /\ b \in DOMAIN hdr /\ b \in Nat /\ hdr[b].size \in Nat
                            /\ b + 1 + hdr[b].size <= MaxSize
  <2> SUFFICES ASSUME NEW b \in InUse(hdr)
               PROVE  /\ b \in DOMAIN hdr /\ b \in Nat /\ hdr[b].size \in Nat
                      /\ b + 1 + hdr[b].size <= MaxSize
    OBVIOUS
  <2>1. b \in DOMAIN hdr /\ Heap(hdr, brk) /\ brk <= MaxSize /\ brk \in Nat
    BY DEF InUse, HeapInv, Heap
  <2>2. /\ b \in Nat /\ hdr[b].size \in Nat /\ End(hdr, b) = b + 1 + hdr[b].size
        /\ End(hdr, b) <= brk
    BY <2>1, BlockFacts
  <2> QED BY <2>1, <2>2, KHeapAssumption
<1>3. \A b, c \in InUse(hdr) : b < c => b + 1 + hdr[b].size <= c
  BY <1>1 DEF HeapInv, Heap, Tiled, End, InUse
<1>4. \A b \in InUse(hdr) : (b + 1) - 1 = b
  BY <1>2
<1>5. \A b \in InUse(hdr) : b + 1 \in DOMAIN Pieces /\ Pieces[b + 1] = hdr[b].size
  BY <1>1, <1>4 DEF Pieces
<1>6. DOMAIN Pieces = {b + 1 : b \in InUse(hdr)}
  BY <1>1 DEF Pieces
<1> QED BY <1>2, <1>3, <1>5, <1>6 DEF PiecesMapped

LEMMA GrantIsAlloc ==
  ASSUME PiecesMapped, PiecesMapped', NEW n \in Sizes, Grants(n)
  PROVE  Abstract!Next
PROOF
<1>1. PICK b : /\ InUse(hdr') = InUse(hdr) \cup {b} /\ b \notin InUse(hdr)
               /\ hdr'[b].size \in n..(n + 1)
               /\ \A a \in InUse(hdr) : hdr'[a].size = hdr[a].size
  BY DEF Grants
<1>0. PICK m : m = hdr'[b].size
  OBVIOUS
<1> DEFINE p == b + 1
<1>2. /\ DOMAIN Pieces = {a + 1 : a \in InUse(hdr)}
      /\ \A a \in InUse(hdr) : /\ a \in Nat /\ hdr[a].size \in Nat
                               /\ a + 1 \in DOMAIN Pieces /\ Pieces[a + 1] = hdr[a].size
  BY DEF PiecesMapped
<1>3. /\ DOMAIN Pieces' = {a + 1 : a \in InUse(hdr')}
      /\ \A a \in InUse(hdr') : /\ a \in Nat /\ hdr'[a].size \in Nat
                                /\ a + 1 \in DOMAIN Pieces' /\ Pieces'[a + 1] = hdr'[a].size
                                /\ a + 1 + hdr'[a].size <= MaxSize
      /\ \A a, c \in InUse(hdr') : a < c => a + 1 + hdr'[a].size <= c
  BY DEF PiecesMapped
<1>4. n \in Nat /\ MaxSize \in Nat /\ H = 1 /\ H + MinSplit - 1 = 1
  BY KHeapAssumption DEF H, MinSplit
<1>5. b \in InUse(hdr') /\ b \in Nat /\ m \in Nat /\ p \in Nat /\ p + m <= MaxSize /\ p <= MaxSize
  <2>1. b \in InUse(hdr') /\ b \in Nat /\ m \in Nat /\ b + 1 + m <= MaxSize
    BY <1>0, <1>1, <1>3
  <2> QED BY <1>4, <2>1
<1>6. m \in n..(n + 1)
  BY <1>0, <1>1, Zenon
<1>7. p \notin DOMAIN Pieces
  <2> SUFFICES ASSUME p \in DOMAIN Pieces PROVE FALSE
    OBVIOUS
  <2>1. PICK c \in InUse(hdr) : b + 1 = c + 1
    BY <1>2
  <2>2. c = b
    <3>1. c \in Nat /\ b \in Nat
      BY <1>2, <1>5
    <3> QED BY <2>1, <3>1
  <2> QED BY <1>1, <2>1, <2>2
<1>8. \A q \in DOMAIN Pieces : Abstract!Apart(p, m, q, Pieces[q])
  <2> SUFFICES ASSUME NEW q \in DOMAIN Pieces PROVE Abstract!Apart(p, m, q, Pieces[q])
    OBVIOUS
  <2>1. PICK c \in InUse(hdr) : q = c + 1
    BY <1>2
  <2>2. c \in InUse(hdr') /\ c # b /\ c \in Nat /\ Pieces[q] = hdr[c].size /\ hdr[c].size \in Nat
    BY <1>1, <1>2, <2>1
  <2>3. (c < b => c + 1 + hdr[c].size <= b) /\ (b < c => b + 1 + m <= c)
    BY <1>0, <1>1, <1>3, <1>5, <2>2
  <2>4. p + m + H <= q \/ q + Pieces[q] + H <= p
    BY <1>4, <1>5, <2>1, <2>2, <2>3
  <2> QED BY <2>4 DEF Abstract!Apart
<1>9. Pieces' = [q \in DOMAIN Pieces \cup {p} |-> IF q = p THEN m ELSE Pieces[q]]
  <2>1. DOMAIN Pieces' = DOMAIN Pieces \cup {p}
    BY <1>1, <1>2, <1>3
  <2>2. \A q \in DOMAIN Pieces' : Pieces'[q] = IF q = p THEN m ELSE Pieces[q]
    <3> SUFFICES ASSUME NEW q \in DOMAIN Pieces'
                 PROVE  Pieces'[q] = IF q = p THEN m ELSE Pieces[q]
      OBVIOUS
    <3>1. PICK c \in InUse(hdr') : q = c + 1
      BY <1>3
    <3>2. c \in Nat /\ Pieces'[q] = hdr'[c].size
      BY <1>3, <3>1
    <3>3. CASE c = b
      BY <1>0, <3>1, <3>2, <3>3
    <3>4. CASE c # b
      BY <1>1, <1>2, <1>5, <3>1, <3>2, <3>4
    <3> QED BY <3>3, <3>4
  <2>3. Pieces' = [q \in DOMAIN Pieces' |-> Pieces'[q]]
    BY DEF Pieces
  <2> QED BY <2>1, <2>2, <2>3
<1> HIDE DEF p
<1>10. p >= H
  BY <1>4, <1>5 DEF p
<1>11. Abstract!Alloc(p, m)
  BY <1>5, <1>7, <1>8, <1>9, <1>10 DEF Abstract!Alloc, Pieces
<1>12. p \in 0..MaxSize /\ m \in n..(n + (H + MinSplit - 1))
  BY <1>4, <1>5, <1>6
<1> QED BY <1>11, <1>12 DEF Abstract!Next

LEMMA FreeIsFree ==
  ASSUME PiecesMapped, PiecesMapped', NEW b \in InUse(hdr), TakesBack(b)
  PROVE  Abstract!Next
PROOF
<1> DEFINE p == b + 1
<1>1. InUse(hdr') = InUse(hdr) \ {b} /\ \A a \in InUse(hdr') : hdr'[a].size = hdr[a].size
  BY DEF TakesBack, SameSizes
<1>2. /\ DOMAIN Pieces = {a + 1 : a \in InUse(hdr)}
      /\ \A a \in InUse(hdr) : /\ a \in Nat /\ hdr[a].size \in Nat
                               /\ a + 1 \in DOMAIN Pieces /\ Pieces[a + 1] = hdr[a].size
  BY DEF PiecesMapped
<1>3. /\ DOMAIN Pieces' = {a + 1 : a \in InUse(hdr')}
      /\ \A a \in InUse(hdr') : /\ a \in Nat /\ hdr'[a].size \in Nat
                                /\ a + 1 \in DOMAIN Pieces' /\ Pieces'[a + 1] = hdr'[a].size
  BY DEF PiecesMapped
<1>4. DOMAIN Pieces' = DOMAIN Pieces \ {p}
  BY <1>1, <1>2, <1>3
<1>5. \A q \in DOMAIN Pieces' : Pieces'[q] = Pieces[q]
  BY <1>1, <1>2, <1>3
<1>6. Pieces' = [q \in DOMAIN Pieces' |-> Pieces'[q]]
  BY DEF Pieces
<1>7. Pieces' = [q \in DOMAIN Pieces \ {p} |-> Pieces[q]]
  BY <1>4, <1>5, <1>6
<1>8. p \in DOMAIN Pieces
  BY <1>2
<1>9. Abstract!Free(p)
  BY <1>7 DEF Abstract!Free, Pieces
<1> QED BY <1>8, <1>9 DEF Abstract!Next, Pieces

LEMMA StepRefines ==
  ASSUME HeapInv, PiecesMapped, PiecesMapped', [Next]_vars
  PROVE  [Abstract!Next]_Pieces
PROOF
<1>1. CASE \E n \in Sizes : KmallocFits(n) \/ KmallocGrows(n)
  <2>1. (\E n \in Sizes : Grants(n)) \/ UNCHANGED hdr
    BY <1>1, KmallocFitsKeeps, KmallocGrowsKeeps
  <2>2. UNCHANGED hdr => UNCHANGED Pieces
    BY DEF Pieces, Used
  <2> QED BY <2>1, <2>2, GrantIsAlloc
<1>2. CASE \E b \in DOMAIN hdr : Kfree(b)
  <2>1. PICK b \in DOMAIN hdr : Kfree(b)
    BY <1>2
  <2>2. b \in InUse(hdr) /\ TakesBack(b)
    BY <2>1, KfreeKeeps DEF InUse, Kfree
  <2> QED BY <2>2, FreeIsFree
<1>3. CASE OtherAlloc \/ OtherFree \/ UNCHANGED vars
  BY <1>3 DEF OtherAlloc, OtherFree, vars, Pieces, Used
<1> QED BY <1>1, <1>2, <1>3 DEF Next

(* The heap hands out disjoint pieces of at least the size asked for and   *)
(* at most a unit more, and takes back one piece at a time; splitting,     *)
(* merging, growing and failing to grow show in none of the others.        *)
THEOREM HeapIsAllocator == Spec => ImplementsAllocator
PROOF
<1>1. Init => Abstract!Init
  <2> SUFFICES ASSUME Init PROVE Abstract!Init
    OBVIOUS
  <2>1. Used = {}
    BY DEF Init, Used, Block
  <2>2. {b + H : b \in Used} = {}
    BY <2>1
  <2>3. [p \in {b + H : b \in Used} |-> hdr[p - H].size] = [p \in {} |-> 0]
    BY <2>2
  <2> QED BY <2>3 DEF Abstract!Init
<1>2. HeapInv /\ PiecesMapped /\ PiecesMapped' /\ [Next]_vars => [Abstract!Next]_Pieces
  BY StepRefines
<1>4. HeapInv => PiecesMapped
  BY PiecesFacts
<1>3. [][Abstract!Next]_Pieces /\ Abstract!Init => Abstract!Spec
  BY PTL DEF Abstract!Spec, Pieces
<1> QED BY <1>1, <1>2, <1>3, <1>4, HeapAlways, PTL DEF Spec, ImplementsAllocator
=============================================================================
