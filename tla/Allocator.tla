------------------------------ MODULE Allocator ------------------------------
(***************************************************************************)
(* What kmalloc and kfree promise: pieces of memory that do not overlap,   *)
(* each as large as asked for, each given back whole and alone.  Module    *)
(* KHeap is shown to implement it.                                         *)
(***************************************************************************)
EXTENDS Naturals

CONSTANTS
  Limit, \* addresses are 0..(Limit - 1)
  Gap,   \* units kept free before a piece and never granted
  Slack, \* most units a piece may be larger than asked for
  Sizes  \* sizes asked for

VARIABLE pieces \* address -> size of every piece in use

Apart(p, m, q, n) == p + m + Gap <= q \/ q + n + Gap <= p

Init == pieces = [p \in {} |-> 0]

Alloc(p, m) ==
  /\ p \notin DOMAIN pieces
  /\ p >= Gap /\ p + m <= Limit
  /\ \A q \in DOMAIN pieces : Apart(p, m, q, pieces[q])
  /\ pieces' = [q \in DOMAIN pieces \cup {p} |-> IF q = p THEN m ELSE pieces[q]]

Free(p) == pieces' = [q \in DOMAIN pieces \ {p} |-> pieces[q]]

Next ==
  \/ \E n \in Sizes : \E p \in 0..Limit, m \in n..(n + Slack) : Alloc(p, m)
  \/ \E p \in DOMAIN pieces : Free(p)

Spec == Init /\ [][Next]_pieces
=============================================================================
