--------------------------------- MODULE Tty ---------------------------------
(***************************************************************************)
(* The line discipline of MominOS, src/drivers/tty.c: tty_feed, called for *)
(* every byte of the keyboard and of COM1 from their interrupts, and       *)
(* tty_read, called by SYS_READ on descriptor 0.                           *)
(*                                                                         *)
(* Both run with interrupts off on the only CPU, so a tty_feed is one step *)
(* and a tty_read is one step up to sched_block_locked and one from there  *)
(* on.  Of the scheduler this module keeps whether a reader is BLOCKED,    *)
(* woken (READY) or out of tty_read; module Sched has the rest.            *)
(***************************************************************************)
EXTENDS Naturals, Sequences, FiniteSets

CONSTANTS
  N,       \* TTY_BUF_SIZE
  Chars,   \* bytes that reach the buffer; '\r' arrives as NL
  NL,      \* the byte '\n'
  Zero,    \* the byte 0, what the static buffer holds at boot
  Readers, \* threads that call tty_read
  NULL,    \* the null struct thread pointer
  MaxSize  \* bound: largest size passed to tty_read

ASSUME TtyAssumption ==
  /\ N \in Nat /\ N >= 2
  /\ NL \in Chars /\ Zero \in Chars /\ Zero # NL
  /\ NULL \notin Readers
  /\ MaxSize \in Nat

VARIABLES
  ring,      \* ring
  head,      \* head, the write index
  tail,      \* tail, the read index
  committed, \* committed, bytes available to readers
  lines,     \* lines, complete lines available
  edit,      \* edit, bytes of the line in progress
  waiter,    \* waiter
  st,        \* "user", or READY or BLOCKED inside tty_read
  want,      \* the size argument of a reader inside tty_read
  got        \* what the last tty_read of each reader copied to its buffer

indices == <<head, tail, committed, lines, edit>>
readerVars == <<st, want, got>>
vars == <<ring, indices, waiter, readerVars>>

WrapNever(i) == i \* mutant

Wrap(i) == IF i >= N THEN i - N ELSE i

Full == Wrap(head + 1) = tail

Init ==
  /\ ring = [i \in 0..(N - 1) |-> Zero]
  /\ head = 0 /\ tail = 0 /\ committed = 0 /\ lines = 0 /\ edit = 0
  /\ waiter = NULL
  /\ st = [r \in Readers |-> "user"]
  /\ want = [r \in Readers |-> 0]
  /\ got = [r \in Readers |-> <<>>]

-----------------------------------------------------------------------------
(* tty_feed.  A backspace with nothing to erase, and any other byte when   *)
(* the buffer is full, the line end included, change nothing.              *)
Erase ==
  /\ edit > 0
  /\ head' = Wrap(head + N - 1)
  /\ edit' = edit - 1
  /\ UNCHANGED <<ring, tail, committed, lines, waiter, readerVars>>

Put(c) ==
  /\ ~Full
  /\ ring' = [ring EXCEPT ![head] = c]
  /\ head' = Wrap(head + 1)
  /\ UNCHANGED <<tail, want, got>>

Type(c) ==
  /\ c # NL
  /\ Put(c)
  /\ edit' = edit + 1
  /\ UNCHANGED <<committed, lines, waiter, st>>

LineBytesWithoutNL == edit \* mutant

LineBytes == edit + 1

WakeNobody == st \* mutant

(* sched_wake(waiter).                                                     *)
WakeWaiter ==
  IF waiter # NULL /\ st[waiter] = "BLOCKED"
  THEN [st EXCEPT ![waiter] = "READY"] ELSE st

Enter ==
  /\ Put(NL)
  /\ committed' = committed + LineBytes
  /\ edit' = 0
  /\ lines' = lines + 1
  /\ waiter' = NULL
  /\ st' = WakeWaiter

Feed(c) == IF c = NL THEN Enter ELSE Type(c)

-----------------------------------------------------------------------------
Pending(k) == ring[Wrap(tail + k - 1)]

StopsPastLineEnd(k, size) == k = size \/ k = committed \* mutant

(* The copy loop ends at its first byte that is a line end, the last byte  *)
(* of the buffer or the last byte committed.                               *)
Stops(k, size) == k = size \/ k = committed \/ Pending(k) = NL

CopyOut(r, size) ==
  \E k \in 1..committed :
    /\ Stops(k, size)
    /\ \A j \in 1..(k - 1) : ~Stops(j, size)
    /\ got' = [got EXCEPT ![r] = [j \in 1..k |-> Pending(j)]]
    /\ tail' = Wrap(tail + k)
    /\ committed' = committed - k
    /\ lines' = IF Pending(k) = NL THEN lines - 1 ELSE lines
    /\ st' = [st EXCEPT ![r] = "user"]
    /\ UNCHANGED <<ring, head, edit, waiter>>

SleepUnregistered(r) == \* mutant
  /\ st' = [st EXCEPT ![r] = "BLOCKED"]
  /\ UNCHANGED <<ring, indices, waiter, got>>

Sleep(r) ==
  /\ waiter' = r
  /\ st' = [st EXCEPT ![r] = "BLOCKED"]
  /\ UNCHANGED <<ring, indices, got>>

(* The `while (lines == 0)' of tty_read and what follows it.               *)
ReadLoop(r, size) == IF lines = 0 THEN Sleep(r) ELSE CopyOut(r, size)

Read(r, size) ==
  /\ st[r] = "user"
  /\ size > 0
  /\ want' = [want EXCEPT ![r] = size]
  /\ ReadLoop(r, size)

(* sched_block_locked returns to a woken reader.                           *)
Resume(r) ==
  /\ st[r] = "READY"
  /\ ReadLoop(r, want[r])
  /\ UNCHANGED want

Next ==
  \/ Erase
  \/ \E c \in Chars : Feed(c)
  \/ \E r \in Readers, size \in 0..MaxSize : Read(r, size)
  \/ \E r \in Readers : Resume(r)

Spec == Init /\ [][Next]_vars

(* The scheduler runs every READY thread: property ReadyRuns of Sched.     *)
Fairness == \A r \in Readers : WF_vars(Resume(r))

FairSpec == Spec /\ Fairness

-----------------------------------------------------------------------------
(* Types of the variables of tty.c; the indices stay inside the buffer.    *)
TypeOK ==
  /\ ring \in [0..(N - 1) -> Chars]
  /\ head \in 0..(N - 1) /\ tail \in 0..(N - 1)
  /\ committed \in Nat /\ lines \in Nat /\ edit \in Nat
  /\ waiter \in Readers \cup {NULL}
  /\ st \in [Readers -> {"user", "READY", "BLOCKED"}]
  /\ want \in [Readers -> Nat]

Committed == [k \in 1..committed |-> Pending(k)]
Editing == [k \in 1..edit |-> Pending(committed + k)]

(* The five counters of tty.c agree: committed bytes and the line being    *)
(* edited are exactly what lies between tail and head, `lines' counts the  *)
(* line ends among the committed bytes, which end in one, and the editor   *)
(* holds none.  So the copy loop of tty_read, entered with lines # 0,      *)
(* always copies something and never decrements a counter that is 0.       *)
CountersAgree ==
  /\ head = Wrap(tail + committed + edit) /\ committed + edit < N
  /\ lines = Cardinality({k \in 1..committed : Committed[k] = NL})
  /\ committed > 0 => Committed[committed] = NL
  /\ \A k \in 1..edit : Editing[k] # NL

(* tty_read, the comment on its loop: the check of `lines' and the block   *)
(* lose no wake.  No reader sleeps over a complete line, and the one that  *)
(* sleeps is the one the next line end will wake.                          *)
SleeperIsAwaited ==
  \A r \in Readers : st[r] = "BLOCKED" => lines = 0 /\ waiter = r

(* Bytes are read once, in the order they were typed, a line at a time,    *)
(* and editing touches the last line only: Tty implements LineQueue.       *)
Abstract == INSTANCE LineQueue WITH
  queue <- Committed, line <- Editing, Capacity <- N - 1

ImplementsLineQueue == Abstract!Spec

(* tty.c, the comment on ring: "A reader is released once at least one     *)
(* complete line ('\n') has been committed to the buffer."                 *)
ReaderReleased ==
  \A r \in Readers : (st[r] # "user" /\ lines > 0) ~> st[r] = "user"
=============================================================================
