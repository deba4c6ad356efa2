---------------------------- MODULE RdmaWordLocks ----------------------------
(***************************************************************************)
(* The programs of the two locks that are words polled by RDMA,            *)
(* src/benchmark/rdma_ticket_lock.cc and rdma_spin_lock.cc: a benchmark    *)
(* runs one of them on all its nodes.                                      *)
(***************************************************************************)
EXTENDS RdmaTicketLock

VARIABLES
  program,               \* the program that was started
  word, spin_pc, spin_lk \* the spin lock's word, pc and lk

SpinLock == INSTANCE RdmaSpinLock WITH pc <- spin_pc, lk <- spin_lk

InitProgram ==
  /\ program \in {"rdma_ticket_lock", "rdma_spin_lock"}
  /\ Init /\ SpinLock!Init

NextOfProgram ==
  \/ /\ program = "rdma_ticket_lock" /\ Next
     /\ UNCHANGED <<program, word, spin_pc, spin_lk>>
  \/ /\ program = "rdma_spin_lock" /\ SpinLock!Next
     /\ UNCHANGED <<program, vars>>

SpecOfProgram ==
  /\ InitProgram /\ [][NextOfProgram]_<<program, vars, word, spin_pc, spin_lk>>
  /\ \A t \in Threads : WF_vars(Spin(t) \/ Unlock(t))
  /\ \A t \in Threads : WF_(SpinLock!vars)(SpinLock!CompareAndSwap(t) \/ SpinLock!Unlock(t))

-----------------------------------------------------------------------------
\* The spin lock's word says LOCKED, which IsLocked tests, exactly while one
\* thread is between its successful CompareAndSwap and Unlock's write; never
\* are two.
WordTellsHolder == SpinLock!WordTellsHolder

\* The spin lock is not fair, but not idle either: while threads try to get a
\* lock, one does.
SomeoneEnters == SpinLock!SomeoneEnters
=============================================================================
