------------------------------ MODULE MCFARLock ------------------------------
(***************************************************************************)
(* Instances of FARLock for TLC: threads a* run on node n0, b* on node n1; *)
(* lock l0 lives on n0, l1 on n1.                                          *)
(***************************************************************************)
EXTENDS FARLockInv, TLC

CONSTANTS n0, n1, a1, a2, b1, b2, l0, l1

MCNodes == {n0, n1}
MCNodeOf == [t \in Threads |-> IF t \in {a1, a2} THEN n0 ELSE n1]
MCHome == [l \in Locks |-> IF l = l0 THEN n0 ELSE n1]

\* The threads of a node are interchangeable.
MCSymmetry == Permutations({a1, a2} \cap Threads) \cup Permutations({b1, b2} \cap Threads)
=============================================================================
