-------------------------------- MODULE KHeap --------------------------------
(***************************************************************************)
(* The kernel heap, src/kernel/kheap.c: a doubly linked list of headers    *)
(* laid over [KHEAP_BASE, heap_brk), first fit, split on allocation,       *)
(* coalesced on both sides when freed, grown by whole pages that are       *)
(* mapped one frame at a time.                                             *)
(*                                                                         *)
(* kmalloc and kfree run with interrupts off and are one step each.        *)
(* Addresses and sizes are in units of KHEAP_ALIGN from KHEAP_BASE on, so  *)
(* align_up(size, KHEAP_ALIGN) has been applied to a size, and a header,   *)
(* 32 bytes rounded up, is one unit, as is KHEAP_MIN_SPLIT.                *)
(***************************************************************************)
EXTENDS Integers, FiniteSets

CONSTANTS
  Sizes,     \* sizes asked for, in units
  Page,      \* PAGE_SIZE
  Initial,   \* KHEAP_INITIAL_SIZE
  MaxSize,   \* KHEAP_MAX_SIZE
  Span,      \* heap pages under one page table
  Frames,    \* frames of the machine
  MaxOthers  \* bound: frames the rest of the kernel takes

ASSUME KHeapAssumption ==
  /\ Sizes \subseteq Nat \ {0}
  /\ Page \in Nat \ {0} /\ Initial \in Nat /\ MaxSize \in Nat
  /\ Initial % Page = 0 /\ Initial > 1 /\ Initial <= MaxSize
  /\ Span \in Nat \ {0}
  /\ Frames \in Nat /\ MaxOthers \in Nat
  \* kheap_init maps the initial heap, or the kernel halts
  /\ Initial \div Page + Cardinality({p \div Span : p \in 0..(Initial \div Page - 1)}) <= Frames

VARIABLES
  hdr,    \* address -> heap_block_t, for the headers whose magic is valid
  brk,    \* heap_brk
  frames, \* free frames of the pmm
  tables, \* page tables that exist below the heap's directory
  others, \* frames the rest of the kernel has
  halted  \* the kernel has stopped in alloc_table

vars == <<hdr, brk, frames, tables, others, halted>>

H == 1        \* header_size()
MinSplit == 1 \* KHEAP_MIN_SPLIT
NULL == -1    \* the null heap_block_t pointer
head == 0     \* heap_head, KHEAP_BASE from kheap_init on

Block(size, next, prev, free) ==
  [size |-> size, next |-> next, prev |-> prev, free |-> free]

-----------------------------------------------------------------------------
(* The operations on the list.                                             *)
NextAdjacent(h, b, top) ==
  IF b + H + h[b].size >= top THEN NULL ELSE b + H + h[b].size

(* coalesce_next: b swallows its free successor, whose magic goes.         *)
CoalesceNext(h, b, top) ==
  LET n == h[b].next
  IN IF n = NULL \/ NextAdjacent(h, b, top) # n \/ ~h[n].free
     THEN h
     ELSE [a \in DOMAIN h \ {n} |->
             CASE a = b -> [h[b] EXCEPT !.size = @ + H + h[n].size,
                                        !.next = h[n].next]
               [] a = h[n].next -> [h[a] EXCEPT !.prev = b]
               [] OTHER -> h[a]]

SplitKeepsPrev(h, b, n) == \* mutant
  IF h[b].size - n < H + MinSplit
  THEN h
  ELSE [a \in DOMAIN h \cup {b + H + n} |->
          CASE a = b + H + n -> Block(h[b].size - n - H, h[b].next, b, TRUE)
            [] a = b -> [h[b] EXCEPT !.size = n, !.next = b + H + n]
            [] OTHER -> h[a]]

(* split_block: b keeps n units, what is left becomes a free block.        *)
Split(h, b, n) ==
  IF h[b].size - n < H + MinSplit
  THEN h
  ELSE [a \in DOMAIN h \cup {b + H + n} |->
          CASE a = b + H + n -> Block(h[b].size - n - H, h[b].next, b, TRUE)
            [] a = b -> [h[b] EXCEPT !.size = n, !.next = b + H + n]
            [] a = h[b].next -> [h[a] EXCEPT !.prev = b + H + n]
            [] OTHER -> h[a]]

(* The list from heap_head, NULL after its end.                            *)
Walk(h) ==
  LET at[k \in Nat] ==
        IF k = 0 THEN head
        ELSE LET b == at[k - 1] IN IF b = NULL THEN NULL ELSE h[b].next
  IN at

FitsShort(h, n, b) == b # NULL /\ h[b].free /\ h[b].size + H >= n \* mutant

Fits(h, n, b) == b # NULL /\ h[b].free /\ h[b].size >= n

(* find_free_block returns b.                                              *)
FirstFit(h, n, b) ==
  \E k \in 0..Cardinality(DOMAIN h) :
    /\ b = Walk(h)[k]
    /\ Fits(h, n, b)
    /\ \A j \in 0..(k - 1) : ~Fits(h, n, Walk(h)[j])

(* last_block returns b.                                                   *)
IsLast(h, b) ==
  /\ b # NULL /\ h[b].next = NULL
  /\ \E k \in 0..Cardinality(DOMAIN h) : b = Walk(h)[k]

Take(h, b, n) == [Split(h, b, n) EXCEPT ![b].free = FALSE]

ReleaseForwardOnly(h, b) == \* mutant
  CoalesceNext([h EXCEPT ![b].free = TRUE], b, brk)

(* kfree(b + H).                                                           *)
Release(h, b) ==
  LET freed == CoalesceNext([h EXCEPT ![b].free = TRUE], b, brk)
      p == freed[b].prev
  IN IF p # NULL /\ freed[p].free THEN CoalesceNext(freed, p, brk) ELSE freed

-----------------------------------------------------------------------------
(* Growth.                                                                 *)
AlignUp(v, a) == ((v + a - 1) \div a) * a

GrowSize(n) ==
  IF AlignUp(H + n, Page) < Initial THEN Initial ELSE AlignUp(H + n, Page)

(* The page tables that mapping the next i pages creates, and the frames   *)
(* those pages and tables take.                                            *)
NewTables(i) == {(brk \div Page + j) \div Span : j \in 0..(i - 1)} \ tables
Cost(i) == i + Cardinality(NewTables(i))

KeepPages(i) == frames' = frames - Cost(i) \* mutant

(* The i pages mapped so far go back, the tables under them stay.          *)
RollBack(i) == frames' = frames - Cost(i) + i

(* map_heap_pages for n pages: all of them, or none because a frame for    *)
(* page i could not be had, or the kernel stops because the frame for its  *)
(* page table could not.                                                   *)
MapAll(n) ==
  /\ Cost(n) <= frames
  /\ frames' = frames - Cost(n)
  /\ tables' = tables \cup NewTables(n)
  /\ UNCHANGED halted

MapFails(n) ==
  \E i \in 0..(n - 1) :
    /\ Cost(i) = frames
    /\ RollBack(i)
    /\ tables' = tables \cup NewTables(i)
    /\ UNCHANGED halted

MapHalts(n) ==
  \E i \in 0..(n - 1) :
    /\ Cost(i) + 1 = frames /\ Cost(i + 1) > frames
    /\ frames' = 0
    /\ tables' = tables \cup NewTables(i)
    /\ halted' = TRUE

(* The new block behind the last one, which swallows it when free.         *)
AppendBlock(h, size) ==
  LET t == CHOOSE b \in DOMAIN h : IsLast(h, b)
      linked == [a \in DOMAIN h \cup {brk} |->
                   CASE a = brk -> Block(size - H, NULL, t, TRUE)
                     [] a = t -> [h[t] EXCEPT !.next = brk]
                     [] OTHER -> h[a]]
  IN IF h[t].free THEN CoalesceNext(linked, t, brk + size) ELSE linked

-----------------------------------------------------------------------------
(* The state kheap_init leaves.                                            *)
Init ==
  /\ hdr = [a \in {head} |-> Block(Initial - H, NULL, NULL, TRUE)]
  /\ brk = Initial
  /\ tables = {p \div Span : p \in 0..(Initial \div Page - 1)}
  /\ frames = Frames - Initial \div Page - Cardinality(tables)
  /\ others = 0
  /\ halted = FALSE

(* kmalloc(n) when a block fits.                                           *)
KmallocFits(n) ==
  /\ ~halted
  /\ \E b \in DOMAIN hdr : FirstFit(hdr, n, b) /\ hdr' = Take(hdr, b, n)
  /\ UNCHANGED <<brk, frames, tables, others, halted>>

(* kmalloc(n) through grow_heap.  At heap_limit it returns 0 and changes   *)
(* nothing.                                                                *)
KmallocGrows(n) ==
  LET size == GrowSize(n)
      pages == size \div Page
  IN /\ ~halted
     /\ \A b \in DOMAIN hdr : ~FirstFit(hdr, n, b)
     /\ brk + size <= MaxSize
     /\ UNCHANGED others
     /\ \/ /\ MapAll(pages)
           /\ brk' = brk + size
           /\ LET grown == AppendBlock(hdr, size)
              IN \E b \in DOMAIN grown :
                   FirstFit(grown, n, b) /\ hdr' = Take(grown, b, n)
        \/ MapFails(pages) /\ UNCHANGED <<hdr, brk>>
        \/ MapHalts(pages) /\ UNCHANGED <<hdr, brk>>

Kfree(b) ==
  /\ ~halted
  /\ ~hdr[b].free
  /\ hdr' = Release(hdr, b)
  /\ UNCHANGED <<brk, frames, tables, others, halted>>

(* The rest of the kernel takes a frame or gives one back.                 *)
OtherAlloc ==
  /\ ~halted
  /\ frames > 0 /\ others < MaxOthers
  /\ frames' = frames - 1 /\ others' = others + 1
  /\ UNCHANGED <<hdr, brk, tables, halted>>

OtherFree ==
  /\ ~halted
  /\ others > 0
  /\ frames' = frames + 1 /\ others' = others - 1
  /\ UNCHANGED <<hdr, brk, tables, halted>>

Next ==
  \/ \E n \in Sizes : KmallocFits(n) \/ KmallocGrows(n)
  \/ \E b \in DOMAIN hdr : Kfree(b)
  \/ OtherAlloc
  \/ OtherFree

Spec == Init /\ [][Next]_vars

-----------------------------------------------------------------------------
(* Types of the state of kheap.c.                                          *)
TypeOK ==
  /\ DOMAIN hdr \subseteq Nat /\ head \in DOMAIN hdr
  /\ \A b \in DOMAIN hdr :
       hdr[b] \in [size : Nat, next : Nat \cup {NULL},
                   prev : Nat \cup {NULL}, free : BOOLEAN]
  /\ brk \in Nat /\ frames \in Nat /\ others \in Nat
  /\ tables \subseteq Nat
  /\ halted \in BOOLEAN

(* heap_check: after any history of calls every header in the heap is on   *)
(* the list, next and prev mirror one another, and the blocks follow each  *)
(* other without gap or overlap from KHEAP_BASE to heap_brk.  So the       *)
(* corruption checks that stop the kernel never do.                        *)
ListTilesHeap ==
  /\ \A b \in DOMAIN hdr :
       /\ hdr[b].next = NextAdjacent(hdr, b, brk)
       /\ b + H + hdr[b].size <= brk
       /\ hdr[b].next # NULL => hdr[b].next \in DOMAIN hdr /\ hdr[hdr[b].next].prev = b
       /\ hdr[b].prev # NULL => hdr[b].prev \in DOMAIN hdr /\ hdr[hdr[b].prev].next = b
       /\ hdr[b].prev = NULL <=> b = head
       /\ hdr[b].next = NULL => b + H + hdr[b].size = brk
  /\ \A b, c \in DOMAIN hdr : b < c => b + H + hdr[b].size <= c

(* Two free blocks never stand side by side, so free memory is as large a  *)
(* block as it can be: when everything is freed one block is left, the     *)
(* last test of kheap_self_test.                                           *)
NoFreeNeighbours ==
  \A b \in DOMAIN hdr :
    hdr[b].free /\ hdr[b].next # NULL => ~hdr[hdr[b].next].free

(* Frames are the heap's pages, their page tables, other owners' or free:  *)
(* a growth that fails half way gives back every frame it mapped, and what *)
(* stays is a page table the next growth uses; kmalloc never takes more    *)
(* frames than pmm.c has.  When alloc_table stops the kernel, the pages of *)
(* the growth it was in are not counted any more.                          *)
FramesAccounted ==
  /\ frames \in Nat
  /\ ~halted => frames + others + brk \div Page + Cardinality(tables) = Frames

(* kmalloc adds one piece as large as asked for and disjoint from all      *)
(* others, kfree removes one, nothing else touches a block in use: KHeap   *)
(* implements Allocator.                                                   *)
Used == {b \in DOMAIN hdr : ~hdr[b].free}

Abstract == INSTANCE Allocator WITH
  pieces <- [p \in {b + H : b \in Used} |-> hdr[p - H].size],
  Limit <- MaxSize, Gap <- H, Slack <- H + MinSplit - 1

ImplementsAllocator == Abstract!Spec
=============================================================================
