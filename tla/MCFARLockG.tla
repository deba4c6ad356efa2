----------------------------- MODULE MCFARLockG -----------------------------
(***************************************************************************)
(* Instances of FARLockG for TLC: threads a* run on node n0, which holds   *)
(* the lock l0, threads b* on node n1.                                     *)
(***************************************************************************)
EXTENDS FARLockG, TLC

CONSTANTS n0, n1, a1, a2, a3, b1, b2, b3, l0

MCNodes == {n0, n1}
MCNodeOf == [t \in Threads |-> IF t \in {a1, a2, a3} THEN n0 ELSE n1]
MCHome == [l \in Locks |-> n0]

\* The threads of a node are interchangeable.
MCSymmetry ==
  Permutations({a1, a2, a3} \cap Threads) \cup Permutations({b1, b2, b3} \cap Threads)
=============================================================================
