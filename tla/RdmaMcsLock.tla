---------------------------- MODULE RdmaMcsLock ----------------------------
(***************************************************************************)
(* The MCS lock over RDMA, src/include/third_party/locks/rdma_mcs_lock.h.  *)
(* All threads reach the lock's tail, and each other's descriptors, by     *)
(* RDMA; a thread polls its own descriptor.  One step is one access to     *)
(* memory that another thread can reach.                                   *)
(***************************************************************************)
EXTENDS Queues

CONSTANTS
  Threads, Locks,
  None       \* nullptr, and no lock

ASSUME NoneAssumption == None \notin Threads \cup Locks

UNLOCKED == 0
LOCKED == 1

VARIABLES
  tail,           \* the word tail_pointer_ points to, per lock
  locked, next,   \* each thread's descriptor
  pc, lk,         \* each thread: program counter; lock_ of its handle
  prev,           \* Lock's local variable
  queue           \* history: the threads in a lock's queue, in swap order

vars == <<tail, locked, next, pc, lk, prev, queue>>

Init ==
  /\ tail = [l \in Locks |-> None]
  /\ locked = [t \in Threads |-> UNLOCKED]
  /\ next = [t \in Threads |-> None]
  /\ pc = [t \in Threads |-> "idle"]
  /\ lk = [t \in Threads |-> None]
  /\ prev = [t \in Threads |-> None]
  /\ queue = [l \in Locks |-> <<>>]

Goto(t, from, to) == pc[t] = from /\ pc' = [pc EXCEPT ![t] = to]

\* Unlock returns.
Return(t) ==
  /\ lk' = [lk EXCEPT ![t] = None]
  /\ queue' = [queue EXCEPT ![lk[t]] = Without(@, t)]

-----------------------------------------------------------------------------
(***************************************************************************)
(* Mistakes that the code could contain; none is part of Next.             *)
(***************************************************************************)
\* The tail is cleared by a write, whoever is there.
WriteTail(t) ==
  /\ Goto(t, "cs", "idle")
  /\ tail' = [tail EXCEPT ![lk[t]] = None]
  /\ Return(t)
  /\ UNCHANGED <<locked, next, prev>>

\* The descriptor keeps the next_ of the last operation.
KeepNext(t, l) ==
  /\ Goto(t, "idle", "swap")
  /\ lk' = [lk EXCEPT ![t] = l]
  /\ locked' = [locked EXCEPT ![t] = UNLOCKED]
  /\ UNCHANGED <<tail, next, prev, queue>>

-----------------------------------------------------------------------------
\* Lock is called: the descriptor is reset.
Lock(t, l) ==
  /\ Goto(t, "idle", "swap")
  /\ lk' = [lk EXCEPT ![t] = l]
  /\ locked' = [locked EXCEPT ![t] = UNLOCKED]
  /\ next' = [next EXCEPT ![t] = None]
  /\ UNCHANGED <<tail, prev, queue>>

\* prev = AtomicSwap(tail): a loop of compare-and-swaps that takes effect at
\* its last.
SwapTail(t) ==
  /\ Goto(t, "swap", IF tail[lk[t]] = None THEN "acquired" ELSE "mark")
  /\ prev' = [prev EXCEPT ![t] = tail[lk[t]]]
  /\ tail' = [tail EXCEPT ![lk[t]] = t]
  /\ queue' = [queue EXCEPT ![lk[t]] = Append(@, t)]
  /\ UNCHANGED <<locked, next, lk>>

\* descriptor_->locked = LOCKED
MarkLocked(t) ==
  /\ Goto(t, "mark", "link")
  /\ locked' = [locked EXCEPT ![t] = LOCKED]
  /\ UNCHANGED <<tail, next, lk, prev, queue>>

\* The RDMA write of prev's next field.
LinkPrev(t) ==
  /\ Goto(t, "link", "spin")
  /\ next' = [next EXCEPT ![prev[t]] = t]
  /\ prev' = [prev EXCEPT ![t] = None]
  /\ UNCHANGED <<tail, locked, lk, queue>>

\* while (descriptor_->locked == LOCKED)
Spin(t) ==
  /\ Goto(t, "spin", "acquired")
  /\ locked[t] # LOCKED
  /\ UNCHANGED <<tail, locked, next, lk, prev, queue>>

LockReturns(t) ==
  /\ Goto(t, "acquired", "cs")
  /\ UNCHANGED <<tail, locked, next, lk, prev, queue>>

-----------------------------------------------------------------------------
\* Unlock: CompareAndSwap of the tail from this descriptor to 0.
CasTail(t) ==
  \/ /\ Goto(t, "cs", "idle")
     /\ tail[lk[t]] = t
     /\ tail' = [tail EXCEPT ![lk[t]] = None]
     /\ Return(t)
     /\ UNCHANGED <<locked, next, prev>>
  \/ /\ Goto(t, "cs", "waitnext")
     /\ tail[lk[t]] # t
     /\ UNCHANGED <<tail, locked, next, lk, prev, queue>>

\* while (descriptor_->next == nullptr)
AwaitNext(t) ==
  /\ Goto(t, "waitnext", "handover")
  /\ next[t] # None
  /\ UNCHANGED <<tail, locked, next, lk, prev, queue>>

\* The RDMA write of the successor's locked field.
HandOver(t) ==
  /\ Goto(t, "handover", "idle")
  /\ locked' = [locked EXCEPT ![next[t]] = UNLOCKED]
  /\ Return(t)
  /\ UNCHANGED <<tail, next, prev>>

Step(t) ==
  \/ SwapTail(t) \/ MarkLocked(t) \/ LinkPrev(t) \/ Spin(t) \/ LockReturns(t)
  \/ CasTail(t) \/ AwaitNext(t) \/ HandOver(t)

Next == \E t \in Threads : Step(t) \/ \E l \in Locks : Lock(t, l)

\* Threads spin and are not stopped; critical sections end.
Spec == Init /\ [][Next]_vars /\ \A t \in Threads : WF_vars(Step(t))

-----------------------------------------------------------------------------
\* The descriptor a thread is about to write, prev's next or next's locked, is
\* that of its neighbour in the queue, in the operation in which the two
\* became neighbours: a descriptor serves all Lock calls of its owner, and
\* nothing of an earlier call reaches a later one.
NoStaleAccess ==
  \A l \in Locks : \A i \in DOMAIN queue[l] :
    LET t == queue[l][i] IN
    /\ pc[t] \in {"mark", "link"} => i > 1 /\ queue[l][i - 1] = prev[t]
    /\ pc[t] = "handover" => i < Len(queue[l]) /\ queue[l][i + 1] = next[t]

Held == [l \in Locks |-> \E t \in Threads : pc[t] \in {"cs", "waitnext", "handover"} /\ lk[t] = l]

Fair == INSTANCE FairLock WITH line <- queue, held <- Held

\* The MCS lock implements FairLock: one thread holds a lock at a time, threads
\* enter and leave in the order of their swaps on the tail, and the line moves on although Unlock may wait for a successor
\* that has not linked itself yet.
ImplementsFairLock == Fair!FairSpec
=============================================================================
