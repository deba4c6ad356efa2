------------------------------- MODULE Queues -------------------------------
(***************************************************************************)
(* What the histories of the queue locks need of sequences.                *)
(***************************************************************************)
EXTENDS Naturals, Sequences

\* The queue q after t, wherever it stands in q, has left it.
Without(q, t) ==
  LET i == CHOOSE i \in 1..Len(q) : q[i] = t
  IN  SubSeq(q, 1, i - 1) \o SubSeq(q, i + 1, Len(q))
=============================================================================
