------------------------------ MODULE LineQueue ------------------------------
(***************************************************************************)
(* What the terminal of MominOS promises, without its ring buffer: a line  *)
(* being edited, a queue of the bytes of complete lines, and reads that    *)
(* take bytes from the front of the queue, never past a line end.  Module  *)
(* Tty is shown to implement it.                                           *)
(***************************************************************************)
EXTENDS Naturals, Sequences

CONSTANTS
  Chars,    \* bytes a line can hold, the line end among them
  NL,       \* the line end
  Readers,  \* threads that read the terminal
  Capacity, \* most bytes kept for the readers and the editor together
  MaxSize   \* largest read

VARIABLES
  queue, \* bytes of complete lines, oldest first
  line,  \* bytes of the line being edited
  got    \* what the last read of each reader returned

vars == <<queue, line, got>>

Room == Len(queue) + Len(line) < Capacity

Init ==
  /\ queue = <<>>
  /\ line = <<>>
  /\ got = [r \in Readers |-> <<>>]

Erase ==
  /\ line # <<>>
  /\ line' = SubSeq(line, 1, Len(line) - 1)
  /\ UNCHANGED <<queue, got>>

Type(c) ==
  /\ Room
  /\ line' = Append(line, c)
  /\ UNCHANGED <<queue, got>>

Enter ==
  /\ Room
  /\ queue' = queue \o Append(line, NL)
  /\ line' = <<>>
  /\ UNCHANGED got

(* A read of size n returns the longest piece of at most n bytes that does *)
(* not pass the end of the first line.                                     *)
Piece(q, n) ==
  {k \in 1..Len(q) : k <= n /\ \A j \in 1..(k - 1) : q[j] # NL}

Read(r, n) ==
  \E k \in Piece(queue, n) :
    /\ \A j \in Piece(queue, n) : j <= k
    /\ got' = [got EXCEPT ![r] = SubSeq(queue, 1, k)]
    /\ queue' = SubSeq(queue, k + 1, Len(queue))
    /\ UNCHANGED line

Next ==
  \/ Erase
  \/ \E c \in Chars \ {NL} : Type(c)
  \/ Enter
  \/ \E r \in Readers, n \in 1..MaxSize : Read(r, n)

Spec == Init /\ [][Next]_vars
=============================================================================
