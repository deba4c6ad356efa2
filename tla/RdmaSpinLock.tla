---------------------------- MODULE RdmaSpinLock ----------------------------
(***************************************************************************)
(* The spin lock, src/include/third_party/locks/rdma_spin_lock.h: all      *)
(* threads compare-and-swap one word of the lock by RDMA.                  *)
(***************************************************************************)
EXTENDS FiniteSets

CONSTANTS
  Threads, Locks,
  None       \* no lock

VARIABLES
  word,      \* struct RdmaSpinLock: "UNLOCKED" or "LOCKED", per lock
  pc,        \* each thread's program counter
  lk         \* lock_ of the thread's handle; it outlives Unlock

vars == <<word, pc, lk>>

Init ==
  /\ word = [l \in Locks |-> "UNLOCKED"]
  /\ pc = [t \in Threads |-> "idle"]
  /\ lk = [t \in Threads |-> None]

\* Mistakes, not part of Next: a failed compare-and-swap is not noticed; the
\* compare-and-swap has its operands swapped.
TakeAnyway(t) ==
  /\ pc[t] = "try"
  /\ word' = [word EXCEPT ![lk[t]] = "LOCKED"]
  /\ pc' = [pc EXCEPT ![t] = "cs"]
  /\ UNCHANGED lk

SwapOperands(t) ==
  /\ pc[t] = "try"
  /\ IF word[lk[t]] = "LOCKED"
     THEN /\ word' = [word EXCEPT ![lk[t]] = "UNLOCKED"]
          /\ pc' = [pc EXCEPT ![t] = "cs"]
     ELSE UNCHANGED <<word, pc>>
  /\ UNCHANGED lk

-----------------------------------------------------------------------------
\* Lock is called.
Lock(t, l) ==
  /\ pc[t] = "idle"
  /\ pc' = [pc EXCEPT ![t] = "try"]
  /\ lk' = [lk EXCEPT ![t] = l]
  /\ UNCHANGED word

\* The successful CompareAndSwap; the others change nothing.
CompareAndSwap(t) ==
  /\ pc[t] = "try"
  /\ word[lk[t]] = "UNLOCKED"
  /\ word' = [word EXCEPT ![lk[t]] = "LOCKED"]
  /\ pc' = [pc EXCEPT ![t] = "cs"]
  /\ UNCHANGED lk

\* Unlock writes the word of the lock that Lock remembered.
Unlock(t) ==
  /\ pc[t] = "cs"
  /\ word' = [word EXCEPT ![lk[t]] = "UNLOCKED"]
  /\ pc' = [pc EXCEPT ![t] = "idle"]
  /\ UNCHANGED lk

Next == \E t \in Threads : CompareAndSwap(t) \/ Unlock(t) \/ \E l \in Locks : Lock(t, l)

\* A thread that has called Lock keeps trying, and critical sections end.
Spec == Init /\ [][Next]_vars /\ \A t \in Threads : WF_vars(CompareAndSwap(t) \/ Unlock(t))

-----------------------------------------------------------------------------
\* The word says LOCKED, which IsLocked tests, exactly while one thread is
\* between its successful CompareAndSwap and Unlock's write; never are two.
WordTellsHolder ==
  \A l \in Locks :
    Cardinality({t \in Threads : pc[t] = "cs" /\ lk[t] = l}) = IF word[l] = "LOCKED" THEN 1 ELSE 0

\* The lock is not fair, but not idle either: while threads try to get a lock,
\* one does.
SomeoneEnters ==
  \A l \in Locks :
    (\E t \in Threads : pc[t] = "try" /\ lk[t] = l) ~> (\E t \in Threads : pc[t] = "cs" /\ lk[t] = l)
=============================================================================
