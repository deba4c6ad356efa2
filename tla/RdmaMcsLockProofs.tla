-------------------------- MODULE RdmaMcsLockProofs --------------------------
(***************************************************************************)
(* The MCS lock over RDMA, for every set of threads and locks: no write to *)
(* another thread's descriptor is stale, and the lock implements the       *)
(* safety part of FairLock.                                                *)
(*                                                                         *)
(* The invariant describes each queue thread by thread: only the first can *)
(* be past the wait, so only the first leaves; a thread still writes to a  *)
(* predecessor only while that one stands just ahead of it, because a      *)
(* predecessor leaves with its next_ set, and only by clearing the         *)
(* successor's locked_, which is the wait's end.                           *)
(***************************************************************************)
EXTENDS RdmaMcsLock, TLAPS

\* A leaf that names no prover is tried with SMT, then with Zenon.
USE SMTT(30), ZenonT(30)

-----------------------------------------------------------------------------
(***************************************************************************)
(* The invariant                                                           *)
(***************************************************************************)
\* Program counters, and those only the first thread of a queue can have.
PCs == {"idle", "swap", "mark", "link", "spin", "acquired", "cs", "waitnext", "handover"}
Owning == {"cs", "waitnext", "handover"}
Front == {"acquired"} \cup Owning

\* t is in the queue of its lock.
InQ(t) == pc[t] \notin {"idle", "swap"}

\* The type of every variable.
TypeOK ==
  /\ tail \in [Locks -> Threads \cup {None}]
  /\ locked \in [Threads -> {UNLOCKED, LOCKED}]
  /\ next \in [Threads -> Threads \cup {None}]
  /\ pc \in [Threads -> PCs]
  /\ lk \in [Threads -> Locks \cup {None}]
  /\ prev \in [Threads -> Threads \cup {None}]
  /\ queue \in [Locks -> Seq(Threads)]

\* A queue holds the threads that work on its lock between the swap of the tail
\* and the end of Unlock, each of them once.
QueueInv ==
  /\ \A t \in Threads : pc[t] # "idle" => lk[t] \in Locks
  /\ \A l \in Locks : \A i \in 1..Len(queue[l]) :
       /\ InQ(queue[l][i]) /\ lk[queue[l][i]] = l
       /\ \A j \in 1..Len(queue[l]) : queue[l][i] = queue[l][j] => i = j
  /\ \A t \in Threads : InQ(t) => \E i \in 1..Len(queue[lk[t]]) : queue[lk[t]][i] = t

\* The tail is the last thread of the queue.
TailInv ==
  \A l \in Locks : tail[l] = IF queue[l] = <<>> THEN None ELSE queue[l][Len(queue[l])]

\* The i-th thread of a queue: only the first is past the wait, the others link
\* themselves or wait with locked_ set; next_ is the successor, once it has
\* linked itself.
Placed(l, i) ==
  LET t == queue[l][i] IN
  /\ i = 1 => pc[t] \notin {"mark", "link"}
  /\ i > 1 => pc[t] \in {"mark", "link", "spin"} /\ (pc[t] # "mark" => locked[t] = LOCKED)
  /\ pc[t] \in {"mark", "link"} => prev[t] = queue[l][i - 1]
  /\ pc[t] = "spin" /\ i > 1 => next[queue[l][i - 1]] = t
  /\ next[t] # None => i < Len(queue[l]) /\ next[t] = queue[l][i + 1] /\ pc[next[t]] = "spin"
  /\ pc[t] = "handover" => next[t] # None

\* Every thread is placed, and one that has yet to swap has a reset descriptor.
PlaceInv ==
  /\ \A t \in Threads : pc[t] = "swap" => next[t] = None
  /\ \A l \in Locks : \A i \in 1..Len(queue[l]) : Placed(l, i)

\* The invariant of all the proofs.
Inv == TypeOK /\ QueueInv /\ TailInv /\ PlaceInv

-----------------------------------------------------------------------------
(***************************************************************************)
(* Facts about sequences and the queues                                    *)
(***************************************************************************)
\* A queue's first thread leaves behind the queue's tail.
LEMMA WithoutHead ==
  ASSUME NEW S, NEW q \in Seq(S), Len(q) >= 1, NEW t, q[1] = t,
         \A i \in 1..Len(q) : q[i] = t => i = 1
  PROVE  Without(q, t) = Tail(q)
<1> DEFINE i == CHOOSE i \in 1..Len(q) : q[i] = t
<1>1. i = 1
  OBVIOUS
<1>2. Without(q, t) = SubSeq(q, 1, i - 1) \o SubSeq(q, i + 1, Len(q))
  BY Zenon DEF Without
<1> HIDE DEF i
<1>3. i - 1 = 0 /\ i + 1 = 2
  BY <1>1
<1>4. SubSeq(q, 1, 0) \o SubSeq(q, 2, Len(q)) = Tail(q)
  OBVIOUS
<1> QED
  BY <1>2, <1>3, <1>4, Zenon

\* What the queue's tail holds, and that a queue of length 0 is empty.
LEMMA TailFacts ==
  ASSUME NEW S, NEW q \in Seq(S)
  PROVE  /\ Len(q) = 0 => q = <<>>
         /\ Len(q) >= 1 => /\ Tail(q) \in Seq(S) /\ Len(Tail(q)) = Len(q) - 1
                           /\ \A i \in 1..(Len(q) - 1) : Tail(q)[i] = q[i + 1]
<1>1. Len(q) = 0 => q = <<>>
  OBVIOUS
<1>2. Len(q) >= 1 => Tail(q) \in Seq(S) /\ Len(Tail(q)) = Len(q) - 1
  OBVIOUS
<1>3. Len(q) >= 1 => \A i \in 1..(Len(q) - 1) : Tail(q)[i] = q[i + 1]
  OBVIOUS
<1> QED
  BY <1>1, <1>2, <1>3, Zenon

\* The threads in a queue work on its lock.
LEMMA Places ==
  ASSUME Inv, NEW l \in Locks
  PROVE  /\ queue[l] \in Seq(Threads) /\ Len(queue[l]) \in Nat
         /\ \A i \in 1..Len(queue[l]) :
              queue[l][i] \in Threads /\ InQ(queue[l][i]) /\ lk[queue[l][i]] = l
         /\ \A i, j \in 1..Len(queue[l]) : queue[l][i] = queue[l][j] => i = j
<1>1. queue[l] \in Seq(Threads)
  BY Zenon DEF Inv, TypeOK
<1>2. Len(queue[l]) \in Nat /\ \A i \in 1..Len(queue[l]) : queue[l][i] \in Threads
  BY <1>1
<1> QED
  BY <1>1, <1>2, Zenon DEF Inv, QueueInv

\* A thread past the wait, or about to end it, is the first of its queue.
LEMMA Heads ==
  ASSUME Inv, NEW t \in Threads, pc[t] \in Front \/ (pc[t] = "spin" /\ locked[t] # LOCKED)
  PROVE  /\ InQ(t) /\ lk[t] \in Locks /\ queue[lk[t]] \in Seq(Threads) /\ Len(queue[lk[t]]) \in Nat
         /\ Len(queue[lk[t]]) >= 1 /\ queue[lk[t]][1] = t
<1>1. InQ(t) /\ pc[t] # "idle"
  BY Zenon DEF InQ, Front, Owning
<1>2. lk[t] \in Locks
  BY <1>1, Zenon DEF Inv, QueueInv
<1>3. PICK i \in 1..Len(queue[lk[t]]) : queue[lk[t]][i] = t
  BY <1>1, Zenon DEF Inv, QueueInv
<1>4. queue[lk[t]] \in Seq(Threads) /\ Len(queue[lk[t]]) \in Nat
  BY <1>2, Places, Zenon
<1>5. Placed(lk[t], i)
  BY <1>2, <1>3, Zenon DEF Inv, PlaceInv
<1>6. ~(i > 1)
  BY <1>3, <1>5, Zenon DEF Placed, Front, Owning
<1>7. i = 1 /\ Len(queue[lk[t]]) >= 1
  BY <1>4, <1>6
<1> QED
  BY <1>1, <1>2, <1>3, <1>4, <1>7, Zenon

\* So at most one thread is past the wait for a lock.
LEMMA OneHead ==
  ASSUME Inv, NEW t \in Threads, NEW u \in Threads, lk[t] = lk[u], pc[t] \in Front, pc[u] \in Front
  PROVE  t = u
BY Heads, Zenon

-----------------------------------------------------------------------------
(***************************************************************************)
(* Every step preserves the invariant                                      *)
(***************************************************************************)
\* A thread moves on in its queue: it has set its locked_, or it is the first.
LEMMA MoveInv ==
  ASSUME Inv, NEW t \in Threads, NEW p, pc' = [pc EXCEPT ![t] = p],
         UNCHANGED <<tail, next, lk, prev, queue>>,
         locked' \in [Threads -> {UNLOCKED, LOCKED}],
         \A u \in Threads : u # t => locked'[u] = locked[u],
         \/ pc[t] = "mark" /\ p = "link" /\ locked'[t] = LOCKED
         \/ /\ pc[t] \in Front \/ (pc[t] = "spin" /\ locked[t] # LOCKED)
            /\ p \in Front /\ (p = "handover" => next[t] # None)
  PROVE  Inv'
<1>1. pc \in [Threads -> PCs] /\ p \in PCs /\ p \notin {"idle", "swap", "mark", "spin"} /\ InQ(t)
  BY Zenon DEF Inv, TypeOK, PCs, Front, Owning, InQ
<1>2. pc'[t] = p /\ \A u \in Threads : u # t => pc'[u] = pc[u]
  BY <1>1, Zenon
<1>3. TypeOK'
  BY <1>1, Zenon DEF Inv, TypeOK
<1>4. \A u \in Threads : (InQ(u)' <=> InQ(u)) /\ (pc'[u] # "idle" => pc[u] # "idle")
  BY <1>1, <1>2, Zenon DEF InQ
<1>5. QueueInv' /\ TailInv'
  <2>1. \A l \in Locks : \A i \in 1..Len(queue[l]) : queue[l][i] \in Threads
    BY Places, Zenon
  <2> QED
    BY <1>4, <2>1, Zenon DEF Inv, QueueInv, TailInv
<1>6. ASSUME NEW l \in Locks, NEW i \in 1..Len(queue[l])
      PROVE  Placed(l, i)'
  <2> DEFINE u == queue[l][i]
  <2>1. Placed(l, i) /\ u \in Threads
    BY <1>6, Places, Zenon DEF Inv, PlaceInv
  \* No linked successor moves: it waits with locked_ set.
  <2>2. next[u] # None => next[u] \in Threads /\ next[u] # t
    <3>1. SUFFICES ASSUME next[u] # None PROVE next[u] \in Threads /\ next[u] # t
      OBVIOUS
    <3>2. i < Len(queue[l]) /\ next[u] = queue[l][i + 1] /\ pc[next[u]] = "spin"
      BY <2>1, <3>1, Zenon DEF Placed
    <3>3. i + 1 \in 1..Len(queue[l]) /\ i + 1 > 1
      BY <1>6, <3>2, Places
    <3>4. next[u] \in Threads /\ Placed(l, i + 1)
      BY <3>2, <3>3, Places, Zenon DEF Inv, PlaceInv
    <3>5. locked[queue[l][i + 1]] = LOCKED
      BY <3>2, <3>3, <3>4, Zenon DEF Placed
    <3> QED
      BY <3>2, <3>4, <3>5, Zenon DEF Front, Owning
  <2>3. CASE u = t /\ pc[t] = "mark"
    BY <1>2, <2>1, <2>2, <2>3, Zenon DEF Placed, Front, Owning
  <2>4. CASE u = t /\ pc[t] # "mark"
    <3>1. ~(i > 1)
      BY <2>1, <2>4, Zenon DEF Placed, Front, Owning
    <3>2. p \in Front /\ p \notin {"mark", "link", "spin"}
      BY <2>4, Zenon DEF Front, Owning
    <3> QED
      BY <1>2, <2>1, <2>2, <2>4, <3>1, <3>2, Zenon DEF Placed
  <2>5. CASE u # t
    BY <1>2, <2>1, <2>2, <2>5, Zenon DEF Placed
  <2> QED
    BY <2>3, <2>4, <2>5, Zenon
<1>7. PlaceInv'
  BY <1>1, <1>2, <1>6, Zenon DEF Inv, PlaceInv
<1> QED
  BY <1>3, <1>5, <1>7, Zenon DEF Inv

\* The steps that move on in the queue.
LEMMA MovesInv ==
  ASSUME Inv, NEW t \in Threads,
         MarkLocked(t) \/ Spin(t) \/ LockReturns(t) \/ AwaitNext(t) \/ (CasTail(t) /\ tail[lk[t]] # t)
  PROVE  Inv'
<1>1. locked \in [Threads -> {UNLOCKED, LOCKED}]
  BY Zenon DEF Inv, TypeOK
<1>2. CASE MarkLocked(t)
  <2>1. locked' \in [Threads -> {UNLOCKED, LOCKED}] /\ locked'[t] = LOCKED
        /\ \A u \in Threads : u # t => locked'[u] = locked[u]
    BY <1>1, <1>2, Zenon DEF MarkLocked
  <2> QED
    BY <1>2, <2>1, MoveInv, Zenon DEF MarkLocked, Goto
<1>3. CASE Spin(t)
  BY <1>1, <1>3, MoveInv, Zenon DEF Spin, Goto, Front
<1>4. CASE LockReturns(t)
  BY <1>1, <1>4, MoveInv, Zenon DEF LockReturns, Goto, Front, Owning
<1>5. CASE AwaitNext(t)
  BY <1>1, <1>5, MoveInv, Zenon DEF AwaitNext, Goto, Front, Owning
<1>6. CASE CasTail(t) /\ tail[lk[t]] # t
  BY <1>1, <1>6, MoveInv, Zenon DEF CasTail, Goto, Front, Owning
<1> QED
  BY <1>2, <1>3, <1>4, <1>5, <1>6, Zenon

\* The reset of a descriptor that is in no queue.
LEMMA LockInv ==
  ASSUME Inv, NEW t \in Threads, NEW m \in Locks, Lock(t, m)
  PROVE  Inv'
<1>1. /\ pc[t] = "idle" /\ pc' = [pc EXCEPT ![t] = "swap"] /\ lk' = [lk EXCEPT ![t] = m]
      /\ locked' = [locked EXCEPT ![t] = UNLOCKED] /\ next' = [next EXCEPT ![t] = None]
      /\ UNCHANGED <<tail, prev, queue>>
  BY Zenon DEF Lock, Goto
<1>2. /\ pc \in [Threads -> PCs] /\ lk \in [Threads -> Locks \cup {None}]
      /\ locked \in [Threads -> {UNLOCKED, LOCKED}] /\ next \in [Threads -> Threads \cup {None}]
  BY Zenon DEF Inv, TypeOK
<1>3. /\ pc'[t] = "swap" /\ lk'[t] = m /\ next'[t] = None
      /\ \A u \in Threads : u # t =>
           pc'[u] = pc[u] /\ lk'[u] = lk[u] /\ locked'[u] = locked[u] /\ next'[u] = next[u]
  BY <1>1, <1>2, Zenon
<1>4. TypeOK'
  <2>1. pc' \in [Threads -> PCs] /\ lk' \in [Threads -> Locks \cup {None}]
    BY <1>1, <1>2, Zenon DEF PCs
  <2>2. locked' \in [Threads -> {UNLOCKED, LOCKED}] /\ next' \in [Threads -> Threads \cup {None}]
    BY <1>1, <1>2, Zenon
  <2> QED
    BY <1>1, <2>1, <2>2, Zenon DEF Inv, TypeOK
<1>5. \A u \in Threads : (InQ(u)' <=> InQ(u)) /\ (InQ(u) => u # t)
  BY <1>1, <1>3, Zenon DEF InQ
<1>6. \A l \in Locks : \A i \in 1..Len(queue[l]) : queue[l][i] \in Threads /\ queue[l][i] # t
  BY <1>5, Places, Zenon
<1>7. QueueInv' /\ TailInv'
  <2>1. \A u \in Threads : pc'[u] # "idle" => lk'[u] \in Locks
    BY <1>3, Zenon DEF Inv, QueueInv
  <2>2. ASSUME NEW l \in Locks, NEW i \in 1..Len(queue[l])
        PROVE  /\ InQ(queue[l][i])' /\ lk'[queue[l][i]] = l
               /\ \A j \in 1..Len(queue[l]) : queue[l][i] = queue[l][j] => i = j
    <3>1. queue[l][i] \in Threads /\ queue[l][i] # t /\ InQ(queue[l][i]) /\ lk[queue[l][i]] = l
      BY <1>6, <2>2, Places, Zenon
    <3>2. InQ(queue[l][i])' /\ lk'[queue[l][i]] = l
      BY <1>1, <1>3, <3>1, Zenon DEF InQ
    <3> QED
      BY <2>2, <3>2, Places, Zenon
  <2>3. \A u \in Threads : InQ(u)' => \E i \in 1..Len(queue'[lk'[u]]) : queue'[lk'[u]][i] = u
    <3>1. SUFFICES ASSUME NEW u \in Threads, InQ(u)'
                   PROVE  \E i \in 1..Len(queue'[lk'[u]]) : queue'[lk'[u]][i] = u
      OBVIOUS
    <3>2. InQ(u) /\ lk'[u] = lk[u]
      BY <1>3, <1>5, <3>1, Zenon
    <3>3. \E i \in 1..Len(queue[lk[u]]) : queue[lk[u]][i] = u
      BY <3>2, Zenon DEF Inv, QueueInv
    <3> QED
      BY <1>1, <3>2, <3>3, Zenon
  <2>4. TailInv'
    BY <1>1, Zenon DEF Inv, TailInv
  <2> QED
    BY <1>1, <2>1, <2>2, <2>3, <2>4 DEF QueueInv
<1>8. ASSUME NEW l \in Locks, NEW i \in 1..Len(queue[l])
      PROVE  Placed(l, i)'
  <2>1. Placed(l, i)
    BY <1>8, Zenon DEF Inv, PlaceInv
  <2>2. /\ i > 1 => i - 1 \in 1..Len(queue[l])
        /\ i < Len(queue[l]) => i + 1 \in 1..Len(queue[l])
    BY <1>8, Places
  <2> DEFINE u == queue[l][i]
  <2>3. u # t /\ pc'[u] = pc[u] /\ locked'[u] = locked[u] /\ next'[u] = next[u]
    BY <1>3, <1>6, <1>8, Zenon
  <2>4. i > 1 => next'[queue[l][i - 1]] = next[queue[l][i - 1]]
    BY <1>3, <1>6, <2>2, Zenon
  <2>5. i < Len(queue[l]) => pc'[queue[l][i + 1]] = pc[queue[l][i + 1]]
    BY <1>3, <1>6, <2>2, Zenon
  <2> QED
    BY <1>1, <2>1, <2>3, <2>4, <2>5, Zenon DEF Placed
<1>9. PlaceInv'
  BY <1>1, <1>3, <1>8, Zenon DEF Inv, PlaceInv
<1> QED
  BY <1>4, <1>7, <1>9, Zenon DEF Inv

\* A thread joins the queue at its end: alone it is past the wait, behind others
\* it has the last one as its predecessor.
LEMMA SwapTailInv ==
  ASSUME Inv, NEW t \in Threads, SwapTail(t)
  PROVE  Inv'
<1>1. PICK m \in Locks : m = lk[t]
  BY Zenon DEF SwapTail, Goto, Inv, QueueInv
<1> DEFINE p == IF tail[m] = None THEN "acquired" ELSE "mark"
<1>2. /\ pc[t] = "swap" /\ pc' = [pc EXCEPT ![t] = p]
      /\ prev' = [prev EXCEPT ![t] = tail[m]] /\ tail' = [tail EXCEPT ![m] = t]
      /\ queue' = [queue EXCEPT ![m] = Append(@, t)] /\ UNCHANGED <<locked, next, lk>>
  BY <1>1, Zenon DEF SwapTail, Goto
<1>3. /\ pc \in [Threads -> PCs] /\ prev \in [Threads -> Threads \cup {None}]
      /\ tail \in [Locks -> Threads \cup {None}] /\ queue \in [Locks -> Seq(Threads)]
  BY Zenon DEF Inv, TypeOK
<1>4. /\ pc'[t] = p /\ prev'[t] = tail[m] /\ tail'[m] = t /\ queue'[m] = Append(queue[m], t)
      /\ \A u \in Threads : u # t => pc'[u] = pc[u] /\ prev'[u] = prev[u]
      /\ \A l \in Locks : l # m => tail'[l] = tail[l] /\ queue'[l] = queue[l]
  BY <1>2, <1>3, Zenon
<1>5. PICK n \in Nat : n = Len(queue[m]) /\ queue[m] \in Seq(Threads)
  BY <1>3
<1>6. /\ queue'[m] \in Seq(Threads) /\ Len(queue'[m]) = n + 1 /\ queue'[m][n + 1] = t
      /\ \A i \in 1..n : queue'[m][i] = queue[m][i] /\ queue'[m] # <<>>
  BY <1>4, <1>5
<1>7. TypeOK'
  <2>1. p \in PCs /\ tail[m] \in Threads \cup {None}
    BY <1>3, Zenon DEF PCs
  <2>2. pc' \in [Threads -> PCs] /\ prev' \in [Threads -> Threads \cup {None}]
        /\ tail' \in [Locks -> Threads \cup {None}]
    BY <1>2, <1>3, <2>1, Zenon
  <2>3. queue' \in [Locks -> Seq(Threads)]
    BY <1>2, <1>3, <1>4, <1>6, Zenon
  <2> QED
    BY <1>2, <2>2, <2>3, Zenon DEF Inv, TypeOK
<1>8. \A l \in Locks : \A i \in 1..Len(queue[l]) : queue[l][i] \in Threads /\ queue[l][i] # t
  BY <1>2, Places DEF InQ
<1>9. InQ(t)' /\ ~InQ(t) /\ \A u \in Threads : u # t => (InQ(u)' <=> InQ(u))
  BY <1>2, <1>4 DEF InQ
<1>10. QueueInv'
  <2>1. \A u \in Threads : pc'[u] # "idle" => lk'[u] \in Locks
    BY <1>1, <1>2, <1>4, Zenon DEF Inv, QueueInv
  <2>2. ASSUME NEW l \in Locks, NEW i \in 1..Len(queue'[l])
        PROVE  /\ InQ(queue[l][i])' /\ lk'[queue'[l][i]] = l
               /\ \A j \in 1..Len(queue'[l]) : queue'[l][i] = queue'[l][j] => i = j
    <3>1. CASE l # m
      BY <1>2, <1>4, <1>8, <1>9, <2>2, <3>1 DEF Inv, QueueInv
    <3>2. CASE l = m /\ i = n + 1
      <4>1. \A j \in 1..Len(queue'[m]) : j # n + 1 => j \in 1..n
        BY <1>5, <1>6
      <4> QED
        BY <1>1, <1>2, <1>6, <1>8, <1>9, <3>2, <4>1
    <3>3. CASE l = m /\ i # n + 1
      <4>1. i \in 1..n
        BY <1>5, <1>6, <2>2, <3>3
      <4>2. \A j \in 1..Len(queue'[m]) : j = n + 1 \/ j \in 1..n
        BY <1>5, <1>6
      <4> QED
        BY <1>2, <1>6, <1>8, <1>9, <3>3, <4>1, <4>2 DEF Inv, QueueInv
    <3> QED
      BY <3>1, <3>2, <3>3, Zenon
  <2>3. ASSUME NEW u \in Threads, InQ(u)'
        PROVE  \E i \in 1..Len(queue'[lk'[u]]) : queue'[lk'[u]][i] = u
    <3>1. CASE u = t
      BY <1>1, <1>2, <1>5, <1>6, <3>1
    <3>2. CASE u # t
      <4>1. InQ(u) /\ lk[u] \in Locks /\ \E i \in 1..Len(queue[lk[u]]) : queue[lk[u]][i] = u
        BY <1>9, <2>3, <3>2, Zenon DEF Inv, QueueInv, InQ
      <4>2. CASE lk[u] # m
        BY <1>2, <1>4, <4>1, <4>2
      <4>3. CASE lk[u] = m
        <5>1. \A i \in 1..n : i \in 1..(n + 1)
          BY <1>5
        <5> QED
          BY <1>2, <1>5, <1>6, <4>1, <4>3, <5>1, Zenon
      <4> QED
        BY <4>2, <4>3, Zenon
    <3> QED
      BY <3>1, <3>2, Zenon
  <2> QED
    BY <2>1, <2>2, <2>3, Zenon DEF QueueInv
<1>11. TailInv'
  <2>1. tail'[m] = queue'[m][Len(queue'[m])] /\ queue'[m] # <<>>
    BY <1>4, <1>5, <1>6
  <2> QED
    BY <1>4, <2>1, Zenon DEF Inv, TailInv
<1>12. ASSUME NEW l \in Locks, NEW i \in 1..Len(queue[l])
       PROVE  Placed(l, i)'
  <2> DEFINE u == queue[l][i]
  <2>1. Placed(l, i) /\ u \in Threads /\ u # t
    BY <1>8, <1>12, Zenon DEF Inv, PlaceInv
  <2>2. /\ queue'[l][i] = u
        /\ i > 1 => queue'[l][i - 1] = queue[l][i - 1]
        /\ i < Len(queue[l]) =>
             /\ i < Len(queue'[l]) /\ queue'[l][i + 1] = queue[l][i + 1]
             /\ queue[l][i + 1] \in Threads /\ queue[l][i + 1] # t
    <3>1. i - 1 \in 1..Len(queue[l]) \/ ~(i > 1)
      BY <1>12, Places
    <3>2. i < Len(queue[l]) => i + 1 \in 1..Len(queue[l])
      BY <1>12, Places
    <3>3. l = m => (i < Len(queue[l]) => i < n + 1)
      BY <1>5, <1>12
    <3> QED
      BY <1>4, <1>5, <1>6, <1>8, <1>12, <3>1, <3>2, <3>3, Zenon
  <2> QED
    BY <1>2, <1>4, <2>1, <2>2 DEF Placed
<1>13. Placed(m, n + 1)'
  <2>1. next'[t] = None
    BY <1>2, Zenon DEF Inv, PlaceInv
  <2>2. CASE n = 0
    <3>1. tail[m] = None
      <4>1. queue[m] = <<>>
        BY <1>5, <2>2, TailFacts, Zenon
      <4>2. tail[m] = IF queue[m] = <<>> THEN None ELSE queue[m][Len(queue[m])]
        BY Zenon DEF Inv, TailInv
      <4> QED
        BY <4>1, <4>2, Zenon
    <3>2. p = "acquired" /\ ~(n + 1 > 1)
      BY <2>2, <3>1
    <3> QED
      BY <1>4, <1>6, <2>1, <3>2, Zenon DEF Placed
  <2>3. CASE n > 0
    <3>1. tail[m] = queue[m][n] /\ n \in 1..n /\ queue[m][n] \in Threads
      BY <1>5, <2>3 DEF Inv, TailInv
    <3>2. pc'[t] = "mark"
      BY <1>4, <3>1, NoneAssumption, Zenon
    <3>3. queue'[m][n + 1 - 1] = queue[m][n] /\ n + 1 # 1
      BY <1>5, <1>6, <3>1
    <3> QED
      BY <1>4, <1>6, <2>1, <3>1, <3>2, <3>3 DEF Placed
  <2> QED
    BY <1>5, <2>2, <2>3
<1>14. PlaceInv'
  <2>1. \A u \in Threads : pc'[u] = "swap" => next'[u] = None
    BY <1>2, <1>4, Zenon DEF Inv, PlaceInv
  <2>2. \A i \in 1..Len(queue'[m]) : i = n + 1 \/ i \in 1..n
    BY <1>5, <1>6
  <2>3. ASSUME NEW l \in Locks, NEW i \in 1..Len(queue'[l])
        PROVE  Placed(l, i)'
    BY <1>4, <1>5, <1>12, <1>13, <2>2, Zenon
  <2> QED
    BY <2>1, <2>3, Zenon DEF PlaceInv
<1> QED
  BY <1>7, <1>10, <1>11, <1>14, Zenon DEF Inv

\* A thread writes itself into the descriptor of its predecessor, which stands
\* just ahead of it.
LEMMA LinkPrevInv ==
  ASSUME Inv, NEW t \in Threads, LinkPrev(t)
  PROVE  Inv'
<1>1. /\ pc[t] = "link" /\ pc' = [pc EXCEPT ![t] = "spin"]
      /\ next' = [next EXCEPT ![prev[t]] = t] /\ prev' = [prev EXCEPT ![t] = None]
      /\ UNCHANGED <<tail, locked, lk, queue>>
  BY Zenon DEF LinkPrev, Goto
<1>2. PICK m \in Locks : m = lk[t]
  BY <1>1, Zenon DEF Inv, QueueInv
<1>3. PICK k \in 1..Len(queue[m]) : queue[m][k] = t
  BY <1>1, <1>2, Zenon DEF Inv, QueueInv, InQ
<1>4. Placed(m, k)
  BY Zenon DEF Inv, PlaceInv
<1>5. k > 1 /\ k - 1 \in 1..Len(queue[m])
  BY <1>1, <1>3, <1>4, Places DEF Placed
<1>6. PICK q \in Threads : q = prev[t] /\ q = queue[m][k - 1] /\ q # t
  BY <1>1, <1>3, <1>4, <1>5, Places DEF Placed
<1>7. /\ pc \in [Threads -> PCs] /\ prev \in [Threads -> Threads \cup {None}]
      /\ next \in [Threads -> Threads \cup {None}]
  BY Zenon DEF Inv, TypeOK
<1>8. /\ pc'[t] = "spin" /\ next'[q] = t
      /\ \A u \in Threads : u # t => pc'[u] = pc[u] /\ prev'[u] = prev[u]
      /\ \A u \in Threads : u # q => next'[u] = next[u]
  BY <1>1, <1>6, <1>7, Zenon
<1>9. TypeOK'
  BY <1>1, <1>6, <1>7, Zenon DEF Inv, TypeOK, PCs
<1>10. \A u \in Threads : (InQ(u)' <=> InQ(u)) /\ (pc'[u] # "idle" => pc[u] # "idle")
  BY <1>1, <1>8, Zenon DEF InQ
<1>11. QueueInv' /\ TailInv'
  <2>1. \A l \in Locks : \A i \in 1..Len(queue[l]) : queue[l][i] \in Threads
    BY Places, Zenon
  <2> QED
    BY <1>1, <1>10, <2>1, ZenonT(30) DEF Inv, QueueInv, TailInv
<1>12. \A l \in Locks : \A i \in 1..Len(queue[l]) :
         (queue[l][i] = t => l = m /\ i = k) /\ (queue[l][i] = q => l = m /\ i = k - 1)
  BY <1>3, <1>5, <1>6, Places
<1>13. ASSUME NEW l \in Locks, NEW i \in 1..Len(queue[l])
       PROVE  Placed(l, i)'
  <2> DEFINE u == queue[l][i]
  <2>1. Placed(l, i) /\ u \in Threads
    BY <1>13, Places, Zenon DEF Inv, PlaceInv
  <2>2. i > 1 => i - 1 \in 1..Len(queue[l]) /\ queue[l][i - 1] \in Threads
    BY <1>13, Places
  <2>3. next[u] # None => next[u] \in Threads /\ pc'[next[u]] = "spin"
    BY <1>7, <1>8, <2>1, Zenon DEF Placed
  <2>4. CASE u = t
    <3>1. l = m /\ i = k /\ i > 1
      BY <1>5, <1>12, <1>13, <2>4, Zenon
    <3>2. locked[t] = LOCKED /\ next'[t] = next[t] /\ i # 1
      BY <1>1, <1>6, <1>8, <2>1, <2>4, <3>1, Zenon DEF Placed
    <3> QED
      BY <1>1, <1>6, <1>8, <2>1, <2>3, <2>4, <3>1, <3>2 DEF Placed
  <2>5. CASE u = q
    <3>1. l = m /\ i = k - 1 /\ i < Len(queue[l]) /\ queue[l][i + 1] = t
      BY <1>3, <1>5, <1>12, <1>13, <2>5, Places
    <3>2. pc'[u] = pc[u] /\ prev'[u] = prev[u] /\ next'[u] = t
      BY <1>6, <1>8, <2>5, Zenon
    <3>3. i > 1 => next'[queue[l][i - 1]] = next[queue[l][i - 1]]
      <4>1. i > 1 => i - 1 # k - 1
        BY <1>13, <3>1, Places
      <4> QED
        BY <1>8, <1>12, <2>2, <3>1, <4>1, Zenon
    <3> QED
      BY <1>1, <1>8, <2>1, <3>1, <3>2, <3>3, NoneAssumption DEF Placed
  <2>6. CASE u # t /\ u # q
    <3>1. pc'[u] = pc[u] /\ prev'[u] = prev[u] /\ next'[u] = next[u]
      BY <1>8, <2>1, <2>6, Zenon
    <3>2. i > 1 => next'[queue[l][i - 1]] = next[queue[l][i - 1]]
      <4>1. l = m => i # k
        BY <1>3, <2>6, Zenon
      <4>2. l = m /\ i > 1 => i - 1 # k - 1
        BY <1>13, <4>1, Places
      <4> QED
        BY <1>8, <1>12, <2>2, <4>2, Zenon
    <3> QED
      BY <1>1, <2>1, <2>3, <3>1, <3>2, Zenon DEF Placed
  <2> QED
    BY <2>4, <2>5, <2>6, Zenon
<1>14. \A u \in Threads : pc'[u] = "swap" => next'[u] = None
  <2>1. InQ(q)
    BY <1>5, <1>6, Places
  <2> QED
    BY <1>6, <1>8, <2>1, Zenon DEF Inv, PlaceInv, InQ
<1> QED
  BY <1>1, <1>9, <1>11, <1>13, <1>14, Zenon DEF Inv, PlaceInv

\* The first thread of a queue leaves it: alone it leaves the queue empty; else
\* it has cleared the locked_ of its successor, which waits as the new first.
LEMMA LeaveInv ==
  ASSUME Inv, NEW t \in Threads, pc[t] \in Owning, pc' = [pc EXCEPT ![t] = "idle"], Return(t),
         UNCHANGED <<next, prev>>,
         \/ tail[lk[t]] = t /\ tail' = [tail EXCEPT ![lk[t]] = None] /\ locked' = locked
         \/ next[t] # None /\ tail' = tail /\ locked' = [locked EXCEPT ![next[t]] = UNLOCKED]
  PROVE  Inv' /\ queue' = [queue EXCEPT ![lk[t]] = Tail(@)]
<1>1. PICK m \in Locks : m = lk[t] /\ Len(queue[m]) >= 1 /\ queue[m][1] = t /\ InQ(t)
  BY Heads, Zenon DEF Front
<1>2. PICK n \in Nat : n = Len(queue[m]) /\ queue[m] \in Seq(Threads)
  BY Places, Zenon
<1>3. n >= 1 /\ 1 \in 1..n
  BY <1>1, <1>2
<1>4. \A i \in 1..n : queue[m][i] = t => i = 1
  <2>1. \A i, j \in 1..n : queue[m][i] = queue[m][j] => i = j
    BY <1>2, Places, Zenon
  <2> QED
    BY <1>1, <1>3, <2>1, Zenon
<1>5. Without(queue[m], t) = Tail(queue[m])
  BY <1>1, <1>2, <1>4, WithoutHead, Zenon
<1>6. queue \in [Locks -> Seq(Threads)] /\ pc \in [Threads -> PCs] /\ lk \in [Threads -> Locks \cup {None}]
      /\ tail \in [Locks -> Threads \cup {None}] /\ locked \in [Threads -> {UNLOCKED, LOCKED}]
      /\ next \in [Threads -> Threads \cup {None}]
  BY Zenon DEF Inv, TypeOK
<1>7. /\ queue' = [queue EXCEPT ![m] = Tail(@)] /\ queue'[m] = Tail(queue[m])
      /\ \A l \in Locks : l # m => queue'[l] = queue[l]
  BY <1>1, <1>5, <1>6, Zenon DEF Return
<1>8. /\ pc'[t] = "idle" /\ \A u \in Threads : u # t => pc'[u] = pc[u] /\ lk'[u] = lk[u]
      /\ lk' = [lk EXCEPT ![t] = None]
  BY <1>6, Zenon DEF Return
<1>9. /\ queue'[m] \in Seq(Threads) /\ Len(queue'[m]) = n - 1
      /\ \A i \in 1..(n - 1) : queue'[m][i] = queue[m][i + 1]
      /\ \A i \in 1..(n - 1) : i + 1 \in 1..n /\ i + 1 # 1
  <2>1. \A i \in 1..(n - 1) : i + 1 \in 1..n /\ i + 1 # 1
    BY <1>3
  <2>2. /\ Tail(queue[m]) \in Seq(Threads) /\ Len(Tail(queue[m])) = n - 1
        /\ \A i \in 1..(n - 1) : Tail(queue[m])[i] = queue[m][i + 1]
    BY <1>2, <1>3, TailFacts, Zenon
  <2> QED
    BY <1>7, <2>1, <2>2, Zenon
<1>10. Placed(m, 1)
  BY <1>2, <1>3, Zenon DEF Inv, PlaceInv
<1>11. next[t] # None => next[t] \in Threads /\ n >= 2 /\ next[t] = queue[m][2] /\ pc[next[t]] = "spin"
  <2>1. next[t] # None => 1 < n /\ next[t] = queue[m][1 + 1] /\ pc[next[t]] = "spin"
    BY <1>1, <1>2, <1>10, Zenon DEF Placed
  <2> QED
    BY <1>6, <2>1
<1>12. tail[m] = IF queue[m] = <<>> THEN None ELSE queue[m][n]
  BY <1>2, Zenon DEF Inv, TailInv
<1>13. tail[m] = t => n = 1
  <2>1. queue[m] # <<>> /\ n \in 1..n
    BY <1>2, <1>3
  <2> QED
    BY <1>4, <1>12, <2>1, Zenon
<1>14. TypeOK'
  <2>1. pc' \in [Threads -> PCs] /\ lk' \in [Threads -> Locks \cup {None}]
    BY <1>6, <1>8, Zenon DEF PCs
  <2>2. tail' \in [Locks -> Threads \cup {None}] /\ locked' \in [Threads -> {UNLOCKED, LOCKED}]
    BY <1>6, Zenon
  <2>3. queue' \in [Locks -> Seq(Threads)]
    BY <1>6, <1>7, <1>9, Zenon
  <2> QED
    BY <2>1, <2>2, <2>3, Zenon DEF Inv, TypeOK
<1>15. ~InQ(t)' /\ \A u \in Threads : u # t => (InQ(u)' <=> InQ(u))
  BY <1>8, Zenon DEF InQ
<1>16. \A l \in Locks : \A i \in 1..Len(queue[l]) :
         queue[l][i] \in Threads /\ (queue[l][i] = t => l = m /\ i = 1)
  <2>1. ASSUME NEW l \in Locks, NEW i \in 1..Len(queue[l]), queue[l][i] = t
        PROVE  l = m /\ i = 1
    <3>1. l = m
      BY <1>1, <2>1, Places, Zenon
    <3> QED
      BY <1>2, <1>4, <2>1, <3>1, Zenon
  <2> QED
    BY <2>1, Places, Zenon
<1>17. QueueInv'
  <2>1. \A u \in Threads : pc'[u] # "idle" => lk'[u] \in Locks
    BY <1>8, Zenon DEF Inv, QueueInv
  <2>2. ASSUME NEW l \in Locks, NEW i \in 1..Len(queue'[l])
        PROVE  /\ InQ(queue[l][i])' /\ lk'[queue'[l][i]] = l
               /\ \A j \in 1..Len(queue'[l]) : queue'[l][i] = queue'[l][j] => i = j
    <3>1. CASE l # m
      BY <1>7, <1>8, <1>15, <1>16, <2>2, <3>1 DEF Inv, QueueInv
    <3>2. CASE l = m
      <4>1. i \in 1..(n - 1) /\ i + 1 \in 1..n /\ queue'[m][i] = queue[m][i + 1] /\ i + 1 # 1
        BY <1>9, <2>2, <3>2, Zenon
      <4>2. queue[m][i + 1] \in Threads /\ queue[m][i + 1] # t
        BY <1>2, <1>16, <4>1, Zenon
      <4>3. InQ(queue[m][i + 1]) /\ lk[queue[m][i + 1]] = m
        BY <1>2, <4>1, Places, Zenon
      <4>4. ASSUME NEW j \in 1..Len(queue'[m]), queue'[m][i] = queue'[m][j]
            PROVE  i = j
        <5>1. j \in 1..(n - 1) /\ j + 1 \in 1..n /\ queue'[m][j] = queue[m][j + 1]
          BY <1>9, <4>4, Zenon
        <5>2. i + 1 = j + 1
          BY <1>2, <4>1, <4>4, <5>1, Places, Zenon
        <5> QED
          BY <4>1, <5>1, <5>2
      <4>5. pc'[queue[m][i + 1]] = pc[queue[m][i + 1]] /\ lk'[queue[m][i + 1]] = m
        BY <1>8, <4>2, <4>3, Zenon
      <4> QED
        BY <3>2, <4>1, <4>3, <4>4, <4>5, Zenon DEF InQ
    <3> QED
      BY <3>1, <3>2, Zenon
  <2>3. ASSUME NEW u \in Threads, InQ(u)'
        PROVE  \E i \in 1..Len(queue'[lk'[u]]) : queue'[lk'[u]][i] = u
    <3>1. u # t /\ InQ(u) /\ lk'[u] = lk[u] /\ lk[u] \in Locks
      BY <1>8, <1>15, <2>3, Zenon DEF Inv, QueueInv, InQ
    <3>2. PICK i \in 1..Len(queue[lk[u]]) : queue[lk[u]][i] = u
      BY <3>1, Zenon DEF Inv, QueueInv
    <3>3. CASE lk[u] # m
      BY <1>7, <3>1, <3>2, <3>3, Zenon
    <3>4. CASE lk[u] = m
      <4>1. i # 1
        BY <1>1, <3>1, <3>2, <3>4, Zenon
      <4>2. i - 1 \in 1..(n - 1) /\ (i - 1) + 1 = i
        BY <1>2, <3>2, <3>4, <4>1
      <4> QED
        <5>1. queue'[m][i - 1] = u
          BY <1>9, <3>2, <3>4, <4>2, Zenon
        <5> QED
          BY <1>9, <3>1, <3>4, <4>2, <5>1, Zenon
    <3> QED
      BY <3>3, <3>4, Zenon
  <2> QED
    BY <2>1, <2>2, <2>3, Zenon DEF QueueInv
<1>18. TailInv'
  <2>1. CASE tail[m] = t /\ tail' = [tail EXCEPT ![m] = None]
    <3>1. queue'[m] = <<>>
      BY <1>9, <1>13, <2>1
    <3>2. tail'[m] = None /\ \A l \in Locks : l # m => tail'[l] = tail[l]
      BY <1>6, <2>1, Zenon
    <3>3. \A l \in Locks : l # m => tail'[l] = IF queue'[l] = <<>> THEN None ELSE queue'[l][Len(queue'[l])]
      BY <1>7, <3>2, Zenon DEF Inv, TailInv
    <3> QED
      BY <3>1, <3>2, <3>3, Zenon DEF TailInv
  <2>2. CASE next[t] # None /\ tail' = tail
    <3>1. queue'[m] # <<>> /\ queue'[m][Len(queue'[m])] = queue[m][n] /\ queue[m] # <<>>
      BY <1>2, <1>9, <1>11, <2>2
    <3>2. \A l \in Locks : l # m => tail'[l] = IF queue'[l] = <<>> THEN None ELSE queue'[l][Len(queue'[l])]
      BY <1>7, <2>2, Zenon DEF Inv, TailInv
    <3> QED
      BY <1>12, <2>2, <3>1, <3>2, Zenon DEF TailInv
  <2> QED
    BY <1>1, <2>1, <2>2, Zenon
<1>19. ASSUME NEW l \in Locks, NEW i \in 1..Len(queue'[l])
       PROVE  Placed(l, i)'
  \* Only the successor's locked_ changes, and only the predecessor's next_ went away.
  <2>1. \A u \in Threads : u # next[t] => locked'[u] = locked[u]
    BY <1>6, Zenon
  <2>2. CASE l # m
    <3>1. Placed(l, i) /\ i \in 1..Len(queue[l]) /\ queue'[l] = queue[l]
      BY <1>7, <1>19, <2>2, Zenon DEF Inv, PlaceInv
    <3>2. queue[l][i] \in Threads /\ queue[l][i] # t /\ lk[queue[l][i]] = l
      BY <1>16, <2>2, <3>1, Places, Zenon
    <3>3. queue[l][i] # next[t]
      <4>1. next[t] # None => lk[next[t]] = m
        <5>1. next[t] # None => 2 \in 1..n
          BY <1>11
        <5> QED
          BY <1>2, <1>11, <5>1, Places
      <4> QED
        BY <2>2, <3>2, <4>1, NoneAssumption, Zenon
    <3>4. next[queue[l][i]] # None => pc'[next[queue[l][i]]] = pc[next[queue[l][i]]]
      <4>1. next[queue[l][i]] # None => next[queue[l][i]] \in Threads /\ pc[next[queue[l][i]]] = "spin"
        BY <1>6, <3>1, <3>2, Zenon DEF Placed
      <4> QED
        BY <1>8, <4>1, Zenon DEF Owning
    <3> QED
      BY <1>8, <2>1, <3>1, <3>2, <3>3, <3>4, ZenonT(30) DEF Placed
  <2>3. CASE l = m
    <3> DEFINE u == queue[m][i + 1]
    <3>1. i \in 1..(n - 1) /\ i + 1 \in 1..n /\ queue'[m][i] = u /\ i + 1 # 1
      BY <1>9, <1>19, <2>3, Zenon
    <3>2. Placed(m, i + 1) /\ u \in Threads /\ u # t /\ pc'[u] = pc[u]
      BY <1>2, <1>8, <1>16, <3>1, Zenon DEF Inv, PlaceInv
    <3>3. next[u] # None => pc'[next[u]] = pc[next[u]]
      <4>1. next[u] # None => next[u] \in Threads /\ pc[next[u]] = "spin"
        BY <1>6, <3>2, Zenon DEF Placed
      <4> QED
        BY <1>8, <4>1, Zenon DEF Owning
    <3>4. next[u] # None => i < Len(queue'[m]) /\ next[u] = queue'[m][i + 1]
      <4>1. next[u] # None => i + 1 < n /\ next[u] = queue[m][(i + 1) + 1]
        BY <1>2, <3>2, Zenon DEF Placed
      <4>2. i + 1 < n => i < n - 1 /\ i + 1 \in 1..(n - 1)
        BY <1>2, <3>1
      <4> QED
        BY <1>9, <4>1, <4>2, Zenon
    <3>5. i + 1 > 1 /\ (i + 1) - 1 = i
      BY <3>1
    <3>6. pc[u] \in {"mark", "link", "spin"}
      BY <3>2, <3>5, Zenon DEF Placed
    <3>7. CASE i = 1
      \* The successor: it has linked itself, or t could not leave.
      <4>1. next[t] # None /\ u = next[t] /\ pc[u] = "spin"
        <5>1. n # 1 /\ i + 1 = 2
          BY <1>2, <3>1, <3>7
        <5> QED
          BY <1>1, <1>11, <1>13, <5>1, Zenon
      <4>2. ~(i > 1)
        BY <3>7
      <4> QED
        BY <2>3, <3>1, <3>2, <3>3, <3>4, <4>1, <4>2, Zenon DEF Placed
    <3>8. CASE i # 1
      <4>1. i > 1 /\ i - 1 \in 1..(n - 1) /\ (i - 1) + 1 = i
        BY <1>2, <3>1, <3>8
      <4>2. queue'[m][i - 1] = queue[m][i]
        BY <1>9, <4>1, Zenon
      <4>3. u # next[t]
        <5>1. n >= 2 => 2 \in 1..n /\ i + 1 # 2
          BY <1>2, <3>1, <3>8
        <5> QED
          BY <1>2, <1>11, <3>1, <3>2, <5>1, NoneAssumption, Places
      <4>4. locked'[u] = locked[u]
        BY <2>1, <3>2, <4>3, Zenon
      <4>5. /\ pc[u] # "mark" => locked[u] = LOCKED
            /\ pc[u] \in {"mark", "link"} => prev[u] = queue[m][i]
            /\ pc[u] = "spin" => next[queue[m][i]] = u
            /\ pc[u] = "handover" => next[u] # None
        BY <3>2, <3>5, Zenon DEF Placed
      <4> QED
        BY <2>3, <3>1, <3>2, <3>3, <3>4, <3>6, <3>8, <4>1, <4>2, <4>4, <4>5, Zenon DEF Placed
    <3> QED
      BY <3>7, <3>8, Zenon
  <2> QED
    BY <2>2, <2>3, Zenon
<1>20. \A u \in Threads : pc'[u] = "swap" => next'[u] = None
  BY <1>8, Zenon DEF Inv, PlaceInv
<1> QED
  BY <1>1, <1>7, <1>14, <1>17, <1>18, <1>19, <1>20, Zenon DEF Inv, PlaceInv

\* The two ways Unlock ends.
LEMMA UnlockInv ==
  ASSUME Inv, NEW t \in Threads, HandOver(t) \/ (CasTail(t) /\ tail[lk[t]] = t)
  PROVE  Inv' /\ queue' = [queue EXCEPT ![lk[t]] = Tail(@)]
<1>1. CASE HandOver(t)
  <2>1. next[t] # None
    <3>1. pc[t] = "handover" /\ pc[t] \in Front
      BY <1>1, Zenon DEF HandOver, Goto, Front, Owning
    <3>2. lk[t] \in Locks /\ 1 \in 1..Len(queue[lk[t]]) /\ queue[lk[t]][1] = t
      BY <3>1, Heads
    <3>3. Placed(lk[t], 1)
      BY <3>2, Zenon DEF Inv, PlaceInv
    <3> QED
      BY <3>1, <3>2, <3>3, Zenon DEF Placed
  <2> QED
    BY <1>1, <2>1, LeaveInv, Zenon DEF HandOver, Goto, Owning
<1>2. CASE CasTail(t) /\ tail[lk[t]] = t
  BY <1>2, LeaveInv, Zenon DEF CasTail, Goto, Owning
<1> QED
  BY <1>1, <1>2, Zenon

LEMMA InitInv == Init => Inv
<1> SUFFICES ASSUME Init PROVE Inv
  OBVIOUS
<1>1. /\ \A t \in Threads : pc[t] = "idle"
      /\ \A l \in Locks : queue[l] = <<>> /\ tail[l] = None /\ Len(queue[l]) = 0
  BY Zenon DEF Init
<1>2. TypeOK
  BY DEF Init, TypeOK, PCs
<1>3. QueueInv /\ PlaceInv
  <2>1. \A l \in Locks : 1..Len(queue[l]) = {}
    BY <1>1
  <2> QED
    BY <1>1, <2>1, Zenon DEF QueueInv, PlaceInv, InQ
<1>4. TailInv
  BY <1>1, Zenon DEF TailInv
<1> QED
  BY <1>2, <1>3, <1>4, Zenon DEF Inv

LEMMA StutterInv ==
  ASSUME Inv, UNCHANGED vars
  PROVE  Inv'
<1>1. UNCHANGED <<tail, locked, next, pc, lk, prev, queue>>
  BY Zenon DEF vars
<1>2. TypeOK' /\ QueueInv' /\ TailInv'
  BY <1>1, ZenonT(30) DEF Inv, TypeOK, QueueInv, TailInv, InQ
<1>3. PlaceInv'
  BY <1>1 DEF Inv, PlaceInv, Placed
<1> QED
  BY <1>2, <1>3, Zenon DEF Inv

LEMMA NextInv ==
  ASSUME Inv, [Next]_vars
  PROVE  Inv'
<1>1. CASE UNCHANGED vars
  BY <1>1, StutterInv, Zenon
<1>2. ASSUME NEW t \in Threads, NEW l \in Locks, Lock(t, l) PROVE Inv'
  BY <1>2, LockInv, Zenon
<1>3. ASSUME NEW t \in Threads, Step(t) PROVE Inv'
  BY <1>3, SwapTailInv, LinkPrevInv, MovesInv, UnlockInv, Zenon DEF Step
<1> QED
  BY <1>1, <1>2, <1>3, Zenon DEF Next

-----------------------------------------------------------------------------
(***************************************************************************)
(* The theorems                                                            *)
(***************************************************************************)
\* The invariant holds for every set of threads and every set of locks,
\* however often the descriptors are reused.
THEOREM Invariance == Spec => []Inv
<1>1. Inv /\ [Next]_vars => Inv'
  BY NextInv, Zenon
<1> QED
  BY <1>1, InitInv, PTL DEF Spec

\* The write of prev's next_ and the write of next's locked_ reach the
\* neighbour in the queue, never a descriptor that has gone on to a later call.
THEOREM McsNoStaleAccess == Spec => []NoStaleAccess
<1>1. Inv => NoStaleAccess
  <2> SUFFICES ASSUME Inv, NEW l \in Locks, NEW i \in 1..Len(queue[l])
               PROVE  LET t == queue[l][i] IN
                      /\ pc[t] \in {"mark", "link"} => i > 1 /\ queue[l][i - 1] = prev[t]
                      /\ pc[t] = "handover" => i < Len(queue[l]) /\ queue[l][i + 1] = next[t]
    <3>1. Inv => \A l \in Locks : DOMAIN queue[l] = 1..Len(queue[l])
      <4>1. Inv => \A l \in Locks : queue[l] \in Seq(Threads)
        BY Places, Zenon
      <4> QED
        BY <4>1
    <3> QED
      BY <3>1, Zenon DEF NoStaleAccess
  <2>1. Placed(l, i)
    BY Zenon DEF Inv, PlaceInv
  <2>2. i = 1 \/ i > 1
    BY Places
  <2> QED
    BY <2>1, <2>2, Zenon DEF Placed
<1> QED
  BY <1>1, Invariance, PTL

\* Held as the invariant's terms say it.
LEMMA HeldTells ==
  /\ Held = [l \in Locks |-> Held[l]] /\ Held' = [l \in Locks |-> Held'[l]]
  /\ \A l \in Locks : Held[l] = \E u \in Threads : pc[u] \in Owning /\ lk[u] = l
  /\ \A l \in Locks : Held'[l] = \E u \in Threads : pc'[u] \in Owning /\ lk'[u] = l
BY Zenon DEF Held, Owning

\* Held is the same when no one comes to own a lock and no one ceases to.
LEMMA HeldSame ==
  ASSUME \A u \in Threads : /\ pc'[u] \in Owning <=> pc[u] \in Owning
                            /\ pc[u] \in Owning => lk'[u] = lk[u]
  PROVE  Held' = Held
<1>1. ASSUME NEW l \in Locks
      PROVE  (\E u \in Threads : pc'[u] \in Owning /\ lk'[u] = l)
               <=> (\E u \in Threads : pc[u] \in Owning /\ lk[u] = l)
  BY Zenon
<1>2. \A l \in Locks : Held'[l] = Held[l]
  BY <1>1, HeldTells, Zenon
<1> QED
  BY <1>2, HeldTells, Zenon

\* Held when one thread comes to own a lock, or ceases to: OneHead says that it
\* is the only one that can.
LEMMA HeldSet ==
  ASSUME Inv, NEW t \in Threads, NEW m \in Locks, lk[t] = m, pc[t] \in Front,
         \A u \in Threads : u # t => pc'[u] = pc[u] /\ lk'[u] = lk[u],
         pc'[t] \in Owning => lk'[t] = m
  PROVE  /\ Held[m] <=> pc[t] \in Owning
         /\ pc'[t] \in Owning => Held' = [Held EXCEPT ![m] = TRUE]
         /\ pc'[t] \notin Owning => Held' = [Held EXCEPT ![m] = FALSE]
<1>1. \A u \in Threads : pc[u] \in Owning /\ lk[u] = m => u = t
  BY OneHead, Zenon DEF Front
<1>2. Held[m] <=> pc[t] \in Owning
  <2>1. (\E u \in Threads : pc[u] \in Owning /\ lk[u] = m) <=> pc[t] \in Owning
    BY <1>1, Zenon
  <2> QED
    BY <2>1, HeldTells, Zenon
<1>3. (pc'[t] \in Owning => Held'[m] = TRUE) /\ (pc'[t] \notin Owning => Held'[m] = FALSE)
  <2>1. (\E u \in Threads : pc'[u] \in Owning /\ lk'[u] = m) <=> pc'[t] \in Owning
    BY <1>1, Zenon
  <2>2. Held'[m] \in BOOLEAN /\ (Held'[m] <=> \E u \in Threads : pc'[u] \in Owning /\ lk'[u] = m)
    BY HeldTells, Zenon
  <2> QED
    BY <2>1, <2>2, Zenon
<1>4. ASSUME NEW l \in Locks, l # m
      PROVE  Held'[l] = Held[l]
  <2>1. (\E u \in Threads : pc'[u] \in Owning /\ lk'[u] = l)
          <=> (\E u \in Threads : pc[u] \in Owning /\ lk[u] = l)
    BY <1>4, Zenon
  <2> QED
    BY <2>1, HeldTells, Zenon
<1>5. ASSUME NEW b, Held'[m] = b
      PROVE  Held' = [Held EXCEPT ![m] = b]
  BY <1>4, <1>5, HeldTells, Zenon
<1> QED
  BY <1>2, <1>3, <1>5, Zenon

\* The MCS lock implements FairLock's safety part: the swap of the tail is
\* FairLock's Join, the return from Lock its Enter, the end of Unlock its
\* Leave, and every other step leaves the line and its holder alone.
LEMMA FairStep ==
  ASSUME Inv, [Next]_vars
  PROVE  [Fair!Next]_<<queue, Held>>
<1>1. CASE UNCHANGED vars
  BY <1>1, Zenon DEF vars, Held
<1>2. ASSUME NEW t \in Threads, NEW l \in Locks, Lock(t, l)
      PROVE  UNCHANGED <<queue, Held>>
  <2>1. \A u \in Threads :
          \/ pc'[u] = pc[u] /\ lk'[u] = lk[u]
          \/ u = t /\ pc'[u] = "swap" /\ pc[u] = "idle"
    BY <1>2, Zenon DEF Lock, Goto, Inv, TypeOK
  <2>2. Held' = Held
    BY <2>1, HeldSame, Zenon DEF Owning
  <2> QED
    BY <1>2, <2>2, Zenon DEF Lock
<1>3. ASSUME NEW t \in Threads,
             MarkLocked(t) \/ LinkPrev(t) \/ Spin(t) \/ AwaitNext(t) \/ (CasTail(t) /\ tail[lk[t]] # t)
      PROVE  UNCHANGED <<queue, Held>>
  <2>1. lk' = lk /\ queue' = queue
    BY <1>3, Zenon DEF MarkLocked, LinkPrev, Spin, AwaitNext, CasTail
  <2>2. \E p : /\ pc' = [pc EXCEPT ![t] = p]
               /\ (pc[t] \in Owning /\ p \in Owning) \/ (pc[t] \notin Owning /\ p \notin Owning)
    BY <1>3, Zenon DEF MarkLocked, LinkPrev, Spin, AwaitNext, CasTail, Goto, Owning
  <2>3. \A u \in Threads : pc'[u] \in Owning <=> pc[u] \in Owning
    BY <2>2, Zenon DEF Inv, TypeOK
  <2> QED
    BY <2>1, <2>3, HeldSame, Zenon
<1>4. ASSUME NEW t \in Threads, SwapTail(t)
      PROVE  \E l \in Locks : Fair!Join(t, l)
  <2>1. pc[t] = "swap" /\ lk[t] \in Locks /\ lk' = lk
        /\ queue' = [queue EXCEPT ![lk[t]] = Append(@, t)]
    BY <1>4, Zenon DEF SwapTail, Goto, Inv, QueueInv
  <2>2. Held' = Held
    <3>1. pc'[t] \notin Owning /\ \A u \in Threads : u # t => pc'[u] = pc[u]
      BY <1>4, Zenon DEF SwapTail, Goto, Inv, TypeOK, Owning
    <3> QED
      BY <2>1, <3>1, HeldSame, Zenon DEF Owning
  <2>3. \A m \in Locks : ~Fair!InLine(t, m)
    BY <2>1, Places DEF Fair!InLine, InQ
  <2> QED
    BY <2>1, <2>2, <2>3, Zenon DEF Fair!Join
<1>5. ASSUME NEW t \in Threads, LockReturns(t)
      PROVE  \E l \in Locks : Fair!Enter(l)
  <2>1. pc[t] = "acquired" /\ lk[t] \in Locks /\ lk' = lk /\ queue' = queue
        /\ pc' = [pc EXCEPT ![t] = "cs"]
    BY <1>5, Zenon DEF LockReturns, Goto, Inv, QueueInv
  <2>2. queue[lk[t]] # <<>>
    BY <2>1, Heads DEF Front
  <2>3. ~Held[lk[t]] /\ Held' = [Held EXCEPT ![lk[t]] = TRUE]
    <3>1. pc'[t] \in Owning /\ pc[t] \notin Owning /\ pc[t] \in Front
          /\ \A u \in Threads : u # t => pc'[u] = pc[u]
      BY <2>1, Zenon DEF Inv, TypeOK, Owning, Front
    <3> QED
      BY <2>1, <3>1, HeldSet, Zenon
  <2> QED
    BY <2>1, <2>2, <2>3, Zenon DEF Fair!Enter
<1>6. ASSUME NEW t \in Threads, HandOver(t) \/ (CasTail(t) /\ tail[lk[t]] = t)
      PROVE  \E l \in Locks : Fair!Leave(l)
  <2>1. pc[t] \in Owning /\ pc' = [pc EXCEPT ![t] = "idle"] /\ lk' = [lk EXCEPT ![t] = None]
    BY <1>6, Zenon DEF HandOver, CasTail, Goto, Return, Owning
  <2>2. lk[t] \in Locks /\ \A u \in Threads : u # t => lk'[u] = lk[u]
    BY <2>1, ZenonT(40) DEF Inv, QueueInv, TypeOK, Owning
  <2>3. queue' = [queue EXCEPT ![lk[t]] = Tail(@)]
    BY <1>6, UnlockInv, Zenon
  <2>4. Held[lk[t]] /\ Held' = [Held EXCEPT ![lk[t]] = FALSE]
    <3>1. pc'[t] = "idle" /\ pc[t] \in Front /\ \A u \in Threads : u # t => pc'[u] = pc[u]
      BY <2>1, Zenon DEF Inv, TypeOK, Front
    <3>2. pc'[t] \notin Owning
      BY <3>1, Zenon DEF Owning
    <3> QED
      BY <2>1, <2>2, <3>1, <3>2, HeldSet
  <2> QED
    BY <2>2, <2>3, <2>4, Zenon DEF Fair!Leave
<1>7. ASSUME NEW t \in Threads, Step(t)
      PROVE  [Fair!Next]_<<queue, Held>>
  BY <1>3, <1>4, <1>5, <1>6, <1>7, Zenon DEF Step, Fair!Next
<1> QED
  BY <1>1, <1>2, <1>7, Zenon DEF Next

\* The MCS lock implements FairLock's safety part: one thread holds a lock at a
\* time, and threads enter and leave in the order of their swaps on the tail.
THEOREM ImplementsFairLockSafety == Spec => Fair!Spec
<1>1. Init => Fair!Init
  BY Zenon DEF Init, Fair!Init, Held
<1>2. Inv /\ [Next]_vars => [Fair!Next]_(Fair!fairVars)
  BY FairStep, Zenon DEF Fair!fairVars
<1> QED
  BY <1>1, <1>2, Invariance, PTL DEF Spec, Fair!Spec
=============================================================================
