------------------------ MODULE RdmaTicketSpinProofs ------------------------
(***************************************************************************)
(* Proofs about the two locks that are words polled by RDMA, for any       *)
(* number of threads and locks: the ticket lock (rdma_ticket_lock.h)       *)
(* serves its threads in the order of their fetch-and-adds, whatever the   *)
(* width of its words, and the word of the spin lock (rdma_spin_lock.h)    *)
(* tells whether the lock is held.  The ticket lock's proofs rest on TInv: *)
(* the tickets from turn_ up to ticket_, counted around the end of the     *)
(* words, are held by one thread each.                                     *)
(***************************************************************************)
EXTENDS RdmaWordLocks, FiniteSetTheorems, SequenceTheorems, TLAPS

USE SMTT(30), ZenonT(30)

-----------------------------------------------------------------------------
\* Arithmetic of words that wrap around.
Words == 0..(W - 1)

\* How far the word x is ahead of the word a, counting upwards and around.
Ahead(a, x) == IF a <= x THEN x - a ELSE x + W - a

\* Below 2 * W, the remainder takes W away at most once.
LEMMA Wrap ==
  ASSUME NEW x \in Nat, W \in Nat, x < W + W
  PROVE  x % W = IF x < W THEN x ELSE x - W
OBVIOUS

\* A word plus one, modulo W.
Succ(x) == (x + 1) % W

\* There are words, and more than one when there are threads.
LEMMA WordsExist == W \in Nat /\ (Threads # {} => W > 1) /\ W > 0
<1>1. Cardinality(Threads) \in Nat /\ (Threads # {} => Cardinality(Threads) # 0)
  BY WordAssumption, FS_CardinalityType, FS_EmptySet, Zenon
<1> QED
  BY <1>1, WordAssumption

\* The successor of a word, without the remainder.
LEMMA SuccType == \A x \in Words : Succ(x) \in Words /\ Succ(x) = IF x + 1 = W THEN 0 ELSE x + 1
<1> SUFFICES ASSUME NEW x \in Words
             PROVE  Succ(x) \in Words /\ Succ(x) = IF x + 1 = W THEN 0 ELSE x + 1
  OBVIOUS
<1>1. W \in Nat /\ x \in Nat /\ x + 1 \in Nat /\ x + 1 < W + W /\ x < W
  BY WordsExist DEF Words
<1>2. Succ(x) = IF x + 1 < W THEN x + 1 ELSE x + 1 - W
  BY <1>1, Wrap DEF Succ
<1> QED
  BY <1>1, <1>2 DEF Words

\* Ahead is a number of words, and what Outstanding computes.
LEMMA AheadType ==
  \A a, x \in Words : /\ Ahead(a, x) \in Nat /\ Ahead(a, x) < W
                      /\ (Ahead(a, x) = 0 <=> x = a) /\ Ahead(a, x) = (x + W - a) % W
<1> SUFFICES ASSUME NEW a \in Words, NEW x \in Words
             PROVE  /\ Ahead(a, x) \in Nat /\ Ahead(a, x) < W
                    /\ (Ahead(a, x) = 0 <=> x = a) /\ Ahead(a, x) = (x + W - a) % W
  OBVIOUS
<1>1. W \in Nat /\ a \in Nat /\ x \in Nat /\ a < W /\ x < W
  BY WordsExist DEF Words
<1>2. x + W - a \in Nat /\ x + W - a < W + W
  BY <1>1
<1>3. (x + W - a) % W = IF x + W - a < W THEN x + W - a ELSE x + W - a - W
  BY <1>1, <1>2, Wrap
<1> QED
  BY <1>1, <1>3 DEF Ahead

\* Different words are not equally far ahead.
LEMMA AheadInjective ==
  \A a, x, y \in Words : Ahead(a, x) = Ahead(a, y) => x = y
BY WordsExist DEF Words, Ahead

\* Counting i words from a leads to the word that is i ahead.
LEMMA AheadOf ==
  ASSUME NEW a \in Words, NEW i \in Nat, i < W
  PROVE  (a + i) % W \in Words /\ Ahead(a, (a + i) % W) = i
<1>1. W \in Nat /\ a \in Nat /\ a < W /\ a + i \in Nat /\ a + i < W + W
  BY WordsExist DEF Words
<1>2. (a + i) % W = IF a + i < W THEN a + i ELSE a + i - W
  BY <1>1, Wrap
<1> QED
  BY <1>1, <1>2 DEF Words, Ahead

\* Moving the far end up by one.
LEMMA AheadGrows ==
  \A a, b \in Words : Ahead(a, b) + 1 < W => Ahead(a, Succ(b)) = Ahead(a, b) + 1
<1> SUFFICES ASSUME NEW a \in Words, NEW b \in Words, Ahead(a, b) + 1 < W
             PROVE  Ahead(a, Succ(b)) = Ahead(a, b) + 1
  OBVIOUS
<1>1. W \in Nat /\ a \in Nat /\ b \in Nat /\ a < W /\ b < W
  BY WordsExist DEF Words
<1> QED
  BY <1>1, SuccType DEF Ahead

\* Moving the near end up by one.
LEMMA AheadShrinks ==
  \A a, x \in Words : /\ x # a => Ahead(Succ(a), x) = Ahead(a, x) - 1
                      /\ Ahead(Succ(a), a) = W - 1
<1> SUFFICES ASSUME NEW a \in Words, NEW x \in Words
             PROVE  /\ x # a => Ahead(Succ(a), x) = Ahead(a, x) - 1
                    /\ Ahead(Succ(a), a) = W - 1
  OBVIOUS
<1>1. W \in Nat /\ a \in Nat /\ x \in Nat /\ a < W /\ x < W
  BY WordsExist DEF Words
<1> QED
  BY <1>1, SuccType DEF Ahead

-----------------------------------------------------------------------------
\* Types, and a thread has a lock from its fetch-and-add until Unlock.
TypeOK ==
  /\ ticket \in [Locks -> Words] /\ turn \in [Locks -> Words]
  /\ pc \in [Threads -> {"idle", "spin", "cs"}]
  /\ lk \in [Threads -> Locks \union {None}]
  /\ my_ticket \in [Threads -> Words]
  /\ \A t \in Threads : pc[t] = "idle" <=> lk[t] = None

\* The threads that have a ticket of l, and the number of tickets out.
At(l) == {t \in Threads : lk[t] = l}
Waits(l) == Ahead(turn[l], ticket[l])

\* As many tickets are out as threads have one; each thread's is one of them; no
\* two threads have the same; and each of them is some thread's.
Counted(l) == Cardinality(At(l)) = Waits(l)
Drawn(l) == \A t \in Threads : lk[t] = l => Ahead(turn[l], my_ticket[t]) < Waits(l)
Distinct(l) ==
  \A t, u \in Threads : lk[t] = l /\ lk[u] = l /\ my_ticket[t] = my_ticket[u] => t = u
Kept(l) ==
  \A k \in Words : Ahead(turn[l], k) < Waits(l) => \E t \in Threads : lk[t] = l /\ my_ticket[t] = k

TicketsOut == \A l \in Locks : Counted(l) /\ Drawn(l) /\ Distinct(l) /\ Kept(l)

\* Who is in its critical section has the ticket that turn_ shows.
InTurn == \A t \in Threads : pc[t] = "cs" => my_ticket[t] = turn[lk[t]]

\* The inductive invariant.
TInv == TypeOK /\ TicketsOut /\ InTurn

\* At first no ticket is out.
LEMMA InitInv == Init => TInv
<1> SUFFICES ASSUME Init PROVE TInv
  OBVIOUS
<1>1. 0 \in Words
  BY WordsExist DEF Words
<1>2. TypeOK
  BY <1>1, NoLockAssumption, Zenon DEF Init, TypeOK
<1>3. InTurn
  BY Zenon DEF Init, InTurn
<1>4. ASSUME NEW l \in Locks PROVE Waits(l) = 0 /\ At(l) = {} /\ ticket[l] = 0 /\ turn[l] = 0
  <2>1. ticket[l] = 0 /\ turn[l] = 0 /\ \A t \in Threads : lk[t] # l
    BY NoLockAssumption, Zenon DEF Init
  <2>2. Waits(l) = 0
    BY <1>1, <2>1, AheadType, Zenon DEF Waits
  <2> QED
    BY <2>1, <2>2, Zenon DEF At
<1>5. \A k \in Words : ~(Ahead(0, k) < 0)
  BY <1>1, AheadType
<1>6. TicketsOut
  <2> SUFFICES ASSUME NEW l \in Locks
               PROVE  /\ Cardinality(At(l)) = Waits(l) /\ \A t \in Threads : lk[t] # l
                      /\ \A k \in Words : ~(Ahead(turn[l], k) < Waits(l))
    BY Zenon DEF TicketsOut, Counted, Drawn, Distinct, Kept
  <2>1. Waits(l) = 0 /\ At(l) = {} /\ ticket[l] = 0 /\ turn[l] = 0
    BY <1>4, Zenon
  <2> QED
    BY <1>5, <2>1, FS_EmptySet, Zenon DEF At
<1> QED
  BY <1>2, <1>3, <1>6, Zenon DEF TInv

\* There are finitely many threads to have a ticket.
LEMMA AtFinite ==
  \A l : /\ IsFiniteSet(At(l)) /\ Cardinality(At(l)) \in Nat
         /\ Cardinality(At(l)) <= Cardinality(Threads)
<1> SUFFICES ASSUME NEW l
             PROVE  /\ IsFiniteSet(At(l)) /\ Cardinality(At(l)) \in Nat
                    /\ Cardinality(At(l)) <= Cardinality(Threads)
  OBVIOUS
<1>1. At(l) \subseteq Threads
  BY Zenon DEF At
<1> QED
  BY <1>1, WordAssumption, FS_Subset, FS_CardinalityType, Zenon

\* A thread without a lock leaves room for one more ticket.
LEMMA RoomForOne ==
  ASSUME TInv, NEW t \in Threads, NEW l \in Locks, lk[t] # l
  PROVE  /\ Cardinality(At(l) \union {t}) = Waits(l) + 1 /\ Waits(l) + 1 < W
         /\ Waits(l) \in Nat
<1>1. t \notin At(l) /\ At(l) \union {t} \subseteq Threads
  BY Zenon DEF At
<1>2. Cardinality(At(l) \union {t}) = Cardinality(At(l)) + 1
  BY <1>1, AtFinite, FS_AddElement
<1>3. Cardinality(At(l) \union {t}) <= Cardinality(Threads)
  BY <1>1, WordAssumption, FS_Subset, Zenon
<1>4. Cardinality(At(l)) = Waits(l)
  BY Zenon DEF TInv, TicketsOut, Counted
<1>5. Cardinality(Threads) \in Nat /\ Cardinality(At(l)) \in Nat
  BY AtFinite, WordAssumption, FS_CardinalityType, Zenon
<1> QED
  BY <1>2, <1>3, <1>4, <1>5, WordAssumption

\* A lock nobody touches keeps its tickets.
LEMMA SameTickets ==
  ASSUME TicketsOut, NEW l \in Locks, ticket'[l] = ticket[l], turn'[l] = turn[l],
         \A t \in Threads : lk[t] = l \/ lk'[t] = l => lk'[t] = lk[t] /\ my_ticket'[t] = my_ticket[t]
  PROVE  Counted(l)' /\ Drawn(l)' /\ Distinct(l)' /\ Kept(l)'
<1>0. Counted(l) /\ Drawn(l) /\ Distinct(l) /\ Kept(l)
  BY Zenon DEF TicketsOut
<1>1. At(l)' = At(l)
  BY Zenon DEF At
<1>2. Waits(l)' = Waits(l)
  BY Zenon DEF Waits
<1>3. Counted(l)'
  BY <1>0, <1>1, <1>2, Zenon DEF Counted
<1>4. Drawn(l)'
  BY <1>0, <1>2, Zenon DEF Drawn
<1>5. Distinct(l)'
  BY <1>0, Zenon DEF Distinct
<1>6. Kept(l)'
  BY <1>0, <1>2, Zenon DEF Kept
<1> QED
  BY <1>3, <1>4, <1>5, <1>6, Zenon

\* The fetch-and-add of ticket_ gives out the first free ticket.
LEMMA LockInv ==
  ASSUME TInv, NEW t \in Threads, NEW l \in Locks, Lock(t, l)
  PROVE  TInv'
<1>1. /\ pc[t] = "idle" /\ pc'[t] = "spin" /\ lk[t] = None /\ lk'[t] = l
      /\ my_ticket'[t] = ticket[l] /\ ticket'[l] = Succ(ticket[l]) /\ turn' = turn
      /\ \A u \in Threads : u # t =>
           pc'[u] = pc[u] /\ lk'[u] = lk[u] /\ my_ticket'[u] = my_ticket[u]
      /\ \A m \in Locks : m # l => ticket'[m] = ticket[m]
      /\ l # None /\ ticket[l] \in Words /\ turn[l] \in Words
  BY NoLockAssumption, Zenon DEF Lock, TInv, TypeOK, Succ
<1>2. TypeOK'
  <2>1. Succ(ticket[l]) \in Words
    BY <1>1, SuccType, Zenon
  <2>2. /\ ticket' \in [Locks -> Words] /\ turn' \in [Locks -> Words]
        /\ my_ticket' \in [Threads -> Words]
    BY <1>1, <2>1, Zenon DEF Lock, TInv, TypeOK, Succ
  <2>3. pc' \in [Threads -> {"idle", "spin", "cs"}] /\ lk' \in [Threads -> Locks \union {None}]
    BY <1>1, Zenon DEF Lock, TInv, TypeOK
  <2>4. \A u \in Threads : pc'[u] = "idle" <=> lk'[u] = None
    <3>1. \A u \in Threads : pc[u] = "idle" <=> lk[u] = None
      BY Zenon DEF TInv, TypeOK
    <3>2. pc'[t] = "idle" <=> lk'[t] = None
      BY <1>1, Zenon
    <3> QED
      BY <1>1, <3>1, <3>2, Zenon
  <2> QED
    BY <2>2, <2>3, <2>4, Zenon DEF TypeOK
<1>3. InTurn'
  BY <1>1, Zenon DEF TInv, InTurn
<1>4. /\ Cardinality(At(l) \union {t}) = Waits(l) + 1 /\ Waits(l) + 1 < W /\ Waits(l) \in Nat
  BY <1>1, RoomForOne, Zenon
<1>5. Waits(l)' = Waits(l) + 1
  BY <1>1, <1>4, AheadGrows, Zenon DEF Waits
<1>6. At(l)' = At(l) \union {t}
  BY <1>1, Zenon DEF At
<1>7. ASSUME NEW u \in Threads, u # t, lk[u] = l
      PROVE  my_ticket[u] # ticket[l] /\ Ahead(turn[l], my_ticket[u]) < Waits(l) + 1
  <2>1. Ahead(turn[l], my_ticket[u]) < Ahead(turn[l], ticket[l]) /\ my_ticket[u] \in Words
    BY <1>7, Zenon DEF TInv, TicketsOut, Drawn, TypeOK, Waits
  <2>2. Ahead(turn[l], my_ticket[u]) \in Nat /\ Ahead(turn[l], ticket[l]) \in Nat
    BY <1>1, <2>1, AheadType, Zenon
  <2> QED
    BY <2>1, <2>2 DEF Waits
<1>8. \A k \in Words : Ahead(turn[l], k) < Waits(l) + 1 =>
        k = ticket[l] \/ Ahead(turn[l], k) < Waits(l)
  <2> SUFFICES ASSUME NEW k \in Words, Ahead(turn[l], k) < Waits(l) + 1, k # ticket[l]
               PROVE  Ahead(turn[l], k) < Waits(l)
    BY Zenon
  <2>1. Ahead(turn[l], k) # Waits(l) /\ Ahead(turn[l], k) \in Nat
    BY <1>1, AheadInjective, AheadType DEF Waits
  <2> QED
    BY <1>4, <2>1
<1>9. Ahead(turn[l], ticket[l]) < Waits(l) + 1
  BY <1>4 DEF Waits
<1>10. TicketsOut'
  <2> SUFFICES ASSUME NEW m \in Locks PROVE Counted(m)' /\ Drawn(m)' /\ Distinct(m)' /\ Kept(m)'
    BY Zenon DEF TicketsOut
  <2>1. CASE m # l
    <3>1. \A u \in Threads : lk[u] = m \/ lk'[u] = m => u # t
      BY <1>1, <2>1, NoLockAssumption, Zenon
    <3> QED
      BY <1>1, <2>1, <3>1, SameTickets, Zenon DEF TInv
  <2>2. CASE m = l
    <3>0. Distinct(l)
      BY Zenon DEF TInv, TicketsOut
    <3>1. Cardinality(At(m)') = Waits(m)'
      BY <1>4, <1>5, <1>6, <2>2, Zenon
    <3>2. \A u \in Threads : lk'[u] = m => Ahead(turn'[m], my_ticket'[u]) < Waits(m)'
      BY <1>1, <1>5, <1>7, <1>9, <2>2, Zenon
    <3>3. \A u, v \in Threads :
            lk'[u] = m /\ lk'[v] = m /\ my_ticket'[u] = my_ticket'[v] => u = v
      <4> SUFFICES ASSUME NEW u \in Threads, NEW v \in Threads,
                          lk'[u] = m, lk'[v] = m, my_ticket'[u] = my_ticket'[v]
                   PROVE  u = v
        BY Zenon
      <4>1. ASSUME NEW w \in Threads, w # t, lk'[w] = m PROVE my_ticket'[w] # my_ticket'[t]
        BY <1>1, <1>7, <2>2, <4>1, Zenon
      <4>2. CASE u # t /\ v # t
        BY <1>1, <2>2, <3>0, <4>2, Zenon DEF Distinct
      <4> QED
        BY <4>1, <4>2, Zenon
    <3>4. ASSUME NEW k \in Words, Ahead(turn'[m], k) < Waits(m)'
          PROVE  \E u \in Threads : lk'[u] = m /\ my_ticket'[u] = k
      <4>1. CASE k = ticket[l]
        BY <1>1, <2>2, <4>1, Zenon
      <4>2. CASE k # ticket[l]
        <5>1. Ahead(turn[l], k) < Waits(l)
          BY <1>1, <1>5, <1>8, <2>2, <3>4, <4>2, Zenon
        <5>2. PICK u \in Threads : lk[u] = l /\ my_ticket[u] = k
          BY <5>1, Zenon DEF TInv, TicketsOut, Kept
        <5> QED
          BY <1>1, <2>2, <5>2, Zenon
      <4> QED
        BY <4>1, <4>2, Zenon
    <3> QED
      BY <3>1, <3>2, <3>3, <3>4, Zenon DEF Counted, Drawn, Distinct, Kept
  <2> QED
    BY <2>1, <2>2, Zenon
<1> QED
  BY <1>2, <1>3, <1>10, Zenon DEF TInv

\* Only the holder of the ticket turn_ shows leaves the loop.
LEMMA SpinInv ==
  ASSUME TInv, NEW t \in Threads, Spin(t)
  PROVE  TInv'
<1>1. /\ pc[t] = "spin" /\ pc'[t] = "cs" /\ turn[lk[t]] = my_ticket[t]
      /\ \A u \in Threads : u # t => pc'[u] = pc[u]
      /\ ticket' = ticket /\ turn' = turn /\ lk' = lk /\ my_ticket' = my_ticket
  BY Zenon DEF Spin, TInv, TypeOK
<1>2. TypeOK'
  <2>1. pc' \in [Threads -> {"idle", "spin", "cs"}]
    BY Zenon DEF Spin, TInv, TypeOK
  <2> QED
    BY <1>1, <2>1, Zenon DEF TInv, TypeOK
<1>3. InTurn'
  BY <1>1, Zenon DEF TInv, InTurn
<1>4. TicketsOut'
  BY <1>1, SameTickets, Zenon DEF TInv, TicketsOut
<1> QED
  BY <1>2, <1>3, <1>4, Zenon DEF TInv

\* Two threads cannot both hold the ticket turn_ shows.
LEMMA OneInTurn ==
  ASSUME TInv, NEW t \in Threads, NEW u \in Threads,
         pc[t] # "idle", my_ticket[t] = turn[lk[t]], pc[u] = "cs", lk[u] = lk[t]
  PROVE  u = t
<1>1. lk[t] \in Locks /\ my_ticket[u] = my_ticket[t]
  BY Zenon DEF TInv, TypeOK, InTurn
<1>2. Distinct(lk[t])
  BY <1>1, Zenon DEF TInv, TicketsOut
<1> QED
  BY <1>1, <1>2, Zenon DEF Distinct

\* The fetch-and-add of turn_ retires the ticket of the thread that leaves.
LEMMA UnlockInv ==
  ASSUME TInv, NEW t \in Threads, Unlock(t)
  PROVE  TInv'
<1>0. PICK l \in Locks : l = lk[t]
  BY Zenon DEF Unlock, TInv, TypeOK
<1>1. /\ pc[t] = "cs" /\ pc'[t] = "idle" /\ lk'[t] = None /\ my_ticket[t] = turn[l]
      /\ turn'[l] = Succ(turn[l]) /\ ticket' = ticket
      /\ \A u \in Threads : u # t =>
           pc'[u] = pc[u] /\ lk'[u] = lk[u] /\ my_ticket'[u] = my_ticket[u]
      /\ \A m \in Locks : m # l => turn'[m] = turn[m]
      /\ l # None /\ ticket[l] \in Words /\ turn[l] \in Words
  BY <1>0, NoLockAssumption, Zenon DEF Unlock, TInv, TypeOK, InTurn, Succ
<1>2. TypeOK'
  <2>1. Succ(turn[l]) \in Words /\ 0 \in Words
    BY <1>1, SuccType, WordsExist DEF Words
  <2>2. /\ ticket' \in [Locks -> Words] /\ turn' \in [Locks -> Words]
        /\ my_ticket' \in [Threads -> Words]
    BY <1>0, <1>1, <2>1, Zenon DEF Unlock, TInv, TypeOK, Succ
  <2>3. pc' \in [Threads -> {"idle", "spin", "cs"}] /\ lk' \in [Threads -> Locks \union {None}]
    BY <1>1, Zenon DEF Unlock, TInv, TypeOK
  <2>4. \A u \in Threads : pc'[u] = "idle" <=> lk'[u] = None
    <3>1. \A u \in Threads : pc[u] = "idle" <=> lk[u] = None
      BY Zenon DEF TInv, TypeOK
    <3>2. pc'[t] = "idle" <=> lk'[t] = None
      BY <1>1, Zenon
    <3> QED
      BY <1>1, <3>1, <3>2, Zenon
  <2> QED
    BY <2>2, <2>3, <2>4, Zenon DEF TypeOK
<1>3. ASSUME NEW u \in Threads, u # t, lk[u] = l PROVE pc[u] # "cs" /\ my_ticket[u] # turn[l]
  <2>1. Distinct(l)
    BY Zenon DEF TInv, TicketsOut
  <2>2. my_ticket[u] # turn[l]
    BY <1>0, <1>1, <1>3, <2>1, Zenon DEF Distinct
  <2> QED
    BY <1>3, <2>2, Zenon DEF TInv, InTurn
<1>4. InTurn'
  <2> SUFFICES ASSUME NEW u \in Threads, pc'[u] = "cs" PROVE my_ticket'[u] = turn'[lk'[u]]
    BY Zenon DEF InTurn
  <2>1. u # t /\ pc[u] = "cs" /\ lk'[u] = lk[u] /\ my_ticket'[u] = my_ticket[u]
    BY <1>1, Zenon
  <2>2. lk[u] # l /\ lk[u] \in Locks
    BY <1>3, <2>1, Zenon DEF TInv, TypeOK
  <2> QED
    BY <1>1, <2>1, <2>2, Zenon DEF TInv, InTurn
<1>5. Waits(l) \in Nat /\ Waits(l) < W /\ Waits(l) > 0 /\ ticket[l] # turn[l] /\ W \in Nat
  <2>1. Ahead(turn[l], turn[l]) < Waits(l) /\ Ahead(turn[l], turn[l]) = 0
    BY <1>0, <1>1, AheadType, Zenon DEF TInv, TicketsOut, Drawn
  <2>2. Waits(l) \in Nat /\ Waits(l) < W
    BY <1>1, AheadType, Zenon DEF Waits
  <2>3. ticket[l] # turn[l]
    BY <2>1, <2>2 DEF Waits
  <2> QED
    BY <2>1, <2>2, <2>3, WordAssumption
<1>6. Waits(l)' = Waits(l) - 1
  BY <1>1, <1>5, AheadShrinks, Zenon DEF Waits
<1>7. Cardinality(At(l)') = Waits(l) - 1
  <2>1. At(l)' = At(l) \ {t} /\ t \in At(l)
    BY <1>0, <1>1, Zenon DEF At
  <2>2. Cardinality(At(l) \ {t}) = Cardinality(At(l)) - 1
    BY <2>1, AtFinite, FS_RemoveElement, Zenon
  <2> QED
    BY <2>1, <2>2, Zenon DEF TInv, TicketsOut, Counted
<1>8. \A k \in Words : Ahead(Succ(turn[l]), k) < Waits(l) - 1 <=>
                         (k # turn[l] /\ Ahead(turn[l], k) < Waits(l))
  <2> SUFFICES ASSUME NEW k \in Words
               PROVE  Ahead(Succ(turn[l]), k) < Waits(l) - 1 <=>
                        (k # turn[l] /\ Ahead(turn[l], k) < Waits(l))
    BY Zenon
  <2>1. Ahead(turn[l], k) \in Nat
    BY <1>1, AheadType, Zenon
  <2>2. /\ k # turn[l] => Ahead(Succ(turn[l]), k) = Ahead(turn[l], k) - 1
        /\ k = turn[l] => Ahead(Succ(turn[l]), k) = W - 1
    BY <1>1, AheadShrinks, Zenon
  <2> QED
    BY <1>5, <2>1, <2>2
<1>9. TicketsOut'
  <2> SUFFICES ASSUME NEW m \in Locks PROVE Counted(m)' /\ Drawn(m)' /\ Distinct(m)' /\ Kept(m)'
    BY Zenon DEF TicketsOut
  <2>1. CASE m # l
    <3>1. \A u \in Threads : lk[u] = m \/ lk'[u] = m => u # t
      BY <1>0, <1>1, <2>1, NoLockAssumption, Zenon
    <3> QED
      BY <1>1, <2>1, <3>1, SameTickets, Zenon DEF TInv
  <2>2. CASE m = l
    <3>0. \A u \in Threads : lk'[u] = l => u # t /\ lk[u] = l /\ my_ticket'[u] = my_ticket[u]
      BY <1>1, Zenon
    <3>1. Cardinality(At(m)') = Waits(m)'
      BY <1>6, <1>7, <2>2, Zenon
    <3>2. ASSUME NEW u \in Threads, lk'[u] = m PROVE Ahead(turn'[m], my_ticket'[u]) < Waits(m)'
      <4>1. u # t /\ lk[u] = l /\ my_ticket'[u] = my_ticket[u] /\ my_ticket[u] \in Words
        BY <2>2, <3>0, <3>2, Zenon DEF TInv, TypeOK
      <4>2. my_ticket[u] # turn[l] /\ Ahead(turn[l], my_ticket[u]) < Waits(l)
        BY <1>3, <4>1, Zenon DEF TInv, TicketsOut, Drawn
      <4> QED
        BY <1>1, <1>6, <1>8, <2>2, <4>1, <4>2, Zenon
    <3>3. \A u, v \in Threads :
            lk'[u] = m /\ lk'[v] = m /\ my_ticket'[u] = my_ticket'[v] => u = v
      <4>1. Distinct(l)
        BY Zenon DEF TInv, TicketsOut
      <4> QED
        BY <2>2, <3>0, <4>1, Zenon DEF Distinct
    <3>4. ASSUME NEW k \in Words, Ahead(turn'[m], k) < Waits(m)'
          PROVE  \E u \in Threads : lk'[u] = m /\ my_ticket'[u] = k
      <4>1. k # turn[l] /\ Ahead(turn[l], k) < Waits(l)
        BY <1>1, <1>6, <1>8, <2>2, <3>4, Zenon
      <4>2. PICK u \in Threads : lk[u] = l /\ my_ticket[u] = k
        BY <4>1, Zenon DEF TInv, TicketsOut, Kept
      <4> QED
        BY <1>1, <2>2, <4>1, <4>2, Zenon
    <3> QED
      BY <3>1, <3>2, <3>3, <3>4, Zenon DEF Counted, Drawn, Distinct, Kept
  <2> QED
    BY <2>1, <2>2, Zenon
<1> QED
  BY <1>2, <1>4, <1>9, Zenon DEF TInv

\* Every step of every thread keeps the invariant.
LEMMA StepInv == TInv /\ [Next]_vars => TInv'
<1> SUFFICES ASSUME TInv, [Next]_vars PROVE TInv'
  OBVIOUS
<1>1. CASE UNCHANGED vars
  <2>1. ticket' = ticket /\ turn' = turn /\ pc' = pc /\ lk' = lk /\ my_ticket' = my_ticket
    BY <1>1, Zenon DEF vars
  <2>2. TypeOK' /\ InTurn'
    BY <2>1, Zenon DEF TInv, TypeOK, InTurn
  <2>3. TicketsOut'
    BY <2>1, SameTickets, Zenon DEF TInv, TicketsOut
  <2> QED
    BY <2>2, <2>3, Zenon DEF TInv
<1>2. CASE Next
  BY <1>2, LockInv, SpinInv, UnlockInv, Zenon DEF Next
<1> QED
  BY <1>1, <1>2, Zenon

\* The tickets that Lock's fetch-and-add gave out and Unlock's has not retired yet
\* are distinct, one for each thread between the two, also when the words wrap
\* around; who is past the loop in Lock has the ticket that turn_ shows.
THEOREM TicketsAreCounted == Spec => []TInv
<1> QED
  BY InitInv, StepInv, PTL DEF Spec

-----------------------------------------------------------------------------
\* The waiting line holds the threads with a ticket, each as far from the front
\* as its ticket is ahead of turn_.
LineInv ==
  \A l \in Locks :
    /\ Line[l] \in Seq(Threads) /\ Len(Line[l]) = Waits(l)
    /\ \A i \in 1..Waits(l) : \E t \in Threads :
         Line[l][i] = t /\ lk[t] = l /\ Ahead(turn[l], my_ticket[t]) = i - 1

\* Each place of the line belongs to the holder of its ticket.
LEMMA LineExact == TInv => LineInv
<1> SUFFICES ASSUME TInv, NEW l \in Locks
             PROVE  /\ Line[l] \in Seq(Threads) /\ Len(Line[l]) = Waits(l)
                    /\ \A i \in 1..Waits(l) : \E t \in Threads :
                         Line[l][i] = t /\ lk[t] = l /\ Ahead(turn[l], my_ticket[t]) = i - 1
  BY Zenon DEF LineInv
<1> DEFINE n == Waits(l)
           H(i) == Holder(l, (turn[l] + i - 1) % W)
<1>1. turn[l] \in Words /\ ticket[l] \in Words
  BY Zenon DEF TInv, TypeOK
<1>2. n \in Nat /\ n < W /\ Outstanding(l) = n
  BY <1>1, AheadType, Zenon DEF Outstanding, Waits
<1>3. Line[l] = [i \in 1..n |-> H(i)]
  BY <1>2, Zenon DEF Line
<1>4. ASSUME NEW i \in 1..n
      PROVE  H(i) \in Threads /\ lk[H(i)] = l /\ Ahead(turn[l], my_ticket[H(i)]) = i - 1
  <2>0. PICK k : k = (turn[l] + i - 1) % W
    BY Zenon
  <2>1. i - 1 \in Nat /\ i - 1 < n /\ i - 1 < W /\ turn[l] + i - 1 = turn[l] + (i - 1)
    BY <1>1, <1>2, WordsExist DEF Words
  <2>2. k \in Words /\ Ahead(turn[l], k) = i - 1
    BY <1>1, <2>0, <2>1, AheadOf, Zenon
  <2>3. \E t \in Threads : lk[t] = l /\ my_ticket[t] = k
    <3>1. Kept(l)
      BY Zenon DEF TInv, TicketsOut
    <3> QED
      BY <2>1, <2>2, <3>1, Zenon DEF Kept
  <2>4. Holder(l, k) \in Threads /\ lk[Holder(l, k)] = l /\ my_ticket[Holder(l, k)] = k
    BY <2>3, Zenon DEF Holder
  <2>5. H(i) = Holder(l, k)
    BY <2>0, Zenon
  <2> QED
    BY <2>2, <2>4, <2>5, Zenon
<1> HIDE DEF n, H
<1>5. [i \in 1..n |-> H(i)] \in [1..n -> Threads]
  BY <1>4, Zenon
<1>6. Line[l] \in Seq(Threads) /\ Len(Line[l]) = n /\ \A i \in 1..n : Line[l][i] = H(i)
  BY <1>2, <1>3, <1>5
<1> QED
  BY <1>4, <1>6, Zenon DEF n

\* A thread stands where its ticket says, in the state after a step.
LEMMA PlaceAfter ==
  ASSUME TInv', LineInv', NEW l \in Locks, NEW j \in 1..Len(Line'[l]), NEW t \in Threads,
         lk'[t] = l, Ahead(turn'[l], my_ticket'[t]) = j - 1
  PROVE  Line'[l][j] = t
<1>1. Len(Line'[l]) = Waits(l)'
  BY Zenon DEF LineInv
<1>2. PICK u \in Threads : Line'[l][j] = u /\ lk'[u] = l /\ Ahead(turn'[l], my_ticket'[u]) = j - 1
  BY <1>1, Zenon DEF LineInv
<1>3. turn'[l] \in Words /\ my_ticket'[u] \in Words /\ my_ticket'[t] \in Words
  BY Zenon DEF TInv, TypeOK
<1>4. my_ticket'[u] = my_ticket'[t]
  BY <1>2, <1>3, AheadInjective
<1>5. Distinct(l)'
  BY Zenon DEF TInv, TicketsOut
<1> QED
  BY <1>2, <1>4, <1>5, Zenon DEF Distinct

\* A place of the line before a step has a thread.
LEMMA PlaceBefore ==
  ASSUME LineInv, NEW l \in Locks, NEW i \in 1..Len(Line[l])
  PROVE  \E u \in Threads : Line[l][i] = u /\ lk[u] = l /\ Ahead(turn[l], my_ticket[u]) = i - 1
<1>1. Len(Line[l]) = Waits(l)
  BY Zenon DEF LineInv
<1> QED
  BY <1>1, Zenon DEF LineInv

\* A line whose tickets all stay with their holders does not change.
LEMMA SameLine ==
  ASSUME TInv', LineInv, LineInv', NEW l \in Locks, ticket'[l] = ticket[l], turn'[l] = turn[l],
         \A u \in Threads : lk[u] = l => lk'[u] = l /\ my_ticket'[u] = my_ticket[u]
  PROVE  Line'[l] = Line[l]
<1>1. /\ Line[l] \in Seq(Threads) /\ Line'[l] \in Seq(Threads)
      /\ Len(Line[l]) = Waits(l) /\ Len(Line'[l]) = Len(Line[l])
  <2>1. Waits(l)' = Waits(l)
    BY Zenon DEF Waits
  <2>2. Line[l] \in Seq(Threads) /\ Len(Line[l]) = Waits(l)
    BY Zenon DEF LineInv
  <2>3. Line'[l] \in Seq(Threads) /\ Len(Line'[l]) = Waits(l)'
    BY Zenon DEF LineInv
  <2> QED
    BY <2>1, <2>2, <2>3, Zenon
<1>2. ASSUME NEW i \in 1..Len(Line[l]) PROVE Line'[l][i] = Line[l][i]
  <2>1. PICK u \in Threads : Line[l][i] = u /\ lk[u] = l /\ Ahead(turn[l], my_ticket[u]) = i - 1
    BY PlaceBefore, Zenon
  <2> QED
    BY <1>1, <2>1, PlaceAfter, Zenon
<1> QED
  BY <1>1, <1>2, SeqEqual, Zenon

\* Line is a function on the locks, before and after a step.
LEMMA LineFunction ==
  Line = [l \in Locks |-> Line[l]] /\ Line' = [l \in Locks |-> Line'[l]]
BY Zenon DEF Line

\* So is Held.
LEMMA HeldFunction ==
  Held = [l \in Locks |-> Held[l]] /\ Held' = [l \in Locks |-> Held'[l]]
BY Zenon DEF Held

\* Held changes only where a thread enters or leaves "cs".
LEMMA HeldUnchanged ==
  ASSUME NEW l \in Locks,
         \A u \in Threads : (pc[u] = "cs" /\ lk[u] = l) <=> (pc'[u] = "cs" /\ lk'[u] = l)
  PROVE  Held'[l] = Held[l]
BY Zenon DEF Held

\* Lock's fetch-and-add joins the end of the line.
LEMMA LockJoins ==
  ASSUME TInv, TInv', LineInv, LineInv', NEW t \in Threads, NEW l \in Locks, Lock(t, l)
  PROVE  Fair!Join(t, l)
<1>1. /\ pc[t] = "idle" /\ pc'[t] = "spin" /\ lk[t] = None /\ lk'[t] = l
      /\ my_ticket'[t] = ticket[l] /\ ticket'[l] = Succ(ticket[l]) /\ turn' = turn
      /\ \A u \in Threads : u # t =>
           pc'[u] = pc[u] /\ lk'[u] = lk[u] /\ my_ticket'[u] = my_ticket[u]
      /\ \A m \in Locks : m # l => ticket'[m] = ticket[m]
      /\ None \notin Locks /\ ticket[l] \in Words /\ turn[l] \in Words
  BY NoLockAssumption, Zenon DEF Lock, TInv, TypeOK, Succ
<1>2. \A m \in Locks : \A u \in Threads :
        lk[u] = m => u # t /\ lk'[u] = m /\ my_ticket'[u] = my_ticket[u]
  BY <1>1, Zenon
<1>3. ASSUME NEW m \in Locks, m # l PROVE Line'[m] = Line[m]
  BY <1>1, <1>2, <1>3, SameLine, Zenon
<1>4. Line'[l] = Append(Line[l], t)
  <2> DEFINE n == Len(Line[l])
  <2>1. Waits(l)' = Waits(l) + 1 /\ Waits(l) \in Nat
    <3>1. Waits(l) + 1 < W /\ Waits(l) \in Nat
      BY <1>1, RoomForOne, Zenon
    <3> QED
      BY <1>1, <3>1, AheadGrows, Zenon DEF Waits
  <2>2. /\ Line[l] \in Seq(Threads) /\ Line'[l] \in Seq(Threads)
        /\ n = Waits(l) /\ n \in Nat /\ Len(Line'[l]) = n + 1
    BY <2>1, Zenon DEF LineInv
  <2>3. /\ Append(Line[l], t) \in Seq(Threads) /\ Len(Append(Line[l], t)) = n + 1
        /\ \A i \in 1..n : Append(Line[l], t)[i] = Line[l][i]
        /\ Append(Line[l], t)[n + 1] = t
    BY <2>2, AppendProperties
  <2>4. ASSUME NEW i \in 1..n PROVE Line'[l][i] = Line[l][i]
    <3>1. i \in 1..Len(Line'[l])
      BY <2>2
    <3> QED
      <4>1. PICK u \in Threads : Line[l][i] = u /\ lk[u] = l /\ Ahead(turn[l], my_ticket[u]) = i - 1
        BY PlaceBefore, Zenon
      <4>2. lk'[u] = l /\ Ahead(turn'[l], my_ticket'[u]) = i - 1
        BY <1>1, <1>2, <4>1, Zenon
      <4> QED
        BY <3>1, <4>1, <4>2, PlaceAfter, Zenon
  <2>5. Line'[l][n + 1] = t
    <3>1. n + 1 \in 1..Len(Line'[l]) /\ (n + 1) - 1 = n
      BY <2>2
    <3>2. Ahead(turn'[l], my_ticket'[t]) = n
      BY <1>1, <2>2, Zenon DEF Waits
    <3> QED
      BY <1>1, <3>1, <3>2, PlaceAfter, Zenon
  <2> HIDE DEF n
  <2>6. \A i \in 1..(n + 1) : Line'[l][i] = Append(Line[l], t)[i]
    BY <2>2, <2>3, <2>4, <2>5
  <2> QED
    BY <2>2, <2>3, <2>6, SeqEqual, Zenon
<1>5. Line' = [Line EXCEPT ![l] = Append(Line[l], t)]
  BY <1>3, <1>4, LineFunction, Zenon
<1>6. Held' = Held
  <2>1. \A u \in Threads : \A m \in Locks :
          (pc[u] = "cs" /\ lk[u] = m) <=> (pc'[u] = "cs" /\ lk'[u] = m)
    BY <1>1, Zenon
  <2>2. \A m \in Locks : Held'[m] = Held[m]
    BY <2>1, HeldUnchanged, Zenon
  <2> QED
    BY <2>2, HeldFunction, Zenon
<1>7. \A m \in Locks : \A i \in 1..Len(Line[m]) : Line[m][i] # t
  <2> SUFFICES ASSUME NEW m \in Locks, NEW i \in 1..Len(Line[m]) PROVE Line[m][i] # t
    BY Zenon
  <2>1. PICK u \in Threads : Line[m][i] = u /\ lk[u] = m
    BY PlaceBefore, Zenon
  <2> QED
    BY <1>2, <2>1, Zenon
<1> QED
  BY <1>5, <1>6, <1>7, Zenon DEF Fair!Join, Fair!InLine

\* Leaving the loop is the entry of the thread at the front.
LEMMA SpinEnters ==
  ASSUME TInv, TInv', LineInv, LineInv', NEW t \in Threads, Spin(t)
  PROVE  lk[t] \in Locks /\ Fair!Enter(lk[t])
<1>0. PICK l \in Locks : l = lk[t]
  BY Zenon DEF Spin, TInv, TypeOK
<1>1. /\ pc[t] = "spin" /\ pc'[t] = "cs" /\ turn[l] = my_ticket[t]
      /\ \A u \in Threads : u # t => pc'[u] = pc[u]
      /\ ticket' = ticket /\ turn' = turn /\ lk' = lk /\ my_ticket' = my_ticket
  BY <1>0, Zenon DEF Spin, TInv, TypeOK
<1>2. \A m \in Locks : Line'[m] = Line[m]
  BY <1>1, SameLine, Zenon
<1>3. Line' = Line
  BY <1>2, LineFunction, Zenon
<1>4. Line[l] # <<>>
  <2>1. Ahead(turn[l], my_ticket[t]) < Waits(l)
    BY <1>0, Zenon DEF TInv, TicketsOut, Drawn
  <2>2. Ahead(turn[l], my_ticket[t]) \in Nat /\ Waits(l) \in Nat
    BY AheadType, Zenon DEF TInv, TypeOK, Waits
  <2>3. Waits(l) # 0
    BY <2>1, <2>2
  <2> QED
    BY <2>3, EmptySeq, Zenon DEF LineInv
<1>5. ~Held[l]
  <2>1. \A u \in Threads : ~(pc[u] = "cs" /\ lk[u] = l)
    BY <1>0, <1>1, OneInTurn, Zenon
  <2> QED
    BY <2>1, Zenon DEF Held
<1>6. Held' = [Held EXCEPT ![l] = TRUE]
  <2>1. Held'[l] = TRUE
    BY <1>0, <1>1, Zenon DEF Held
  <2>2. ASSUME NEW m \in Locks, m # l PROVE Held'[m] = Held[m]
    BY <1>0, <1>1, <2>2, HeldUnchanged, Zenon
  <2> QED
    BY <2>1, <2>2, HeldFunction, Zenon
<1> QED
  BY <1>0, <1>3, <1>4, <1>5, <1>6, Zenon DEF Fair!Enter

\* Unlock's fetch-and-add takes the front of the line away.
LEMMA UnlockLeaves ==
  ASSUME TInv, TInv', LineInv, LineInv', NEW t \in Threads, Unlock(t)
  PROVE  lk[t] \in Locks /\ Fair!Leave(lk[t])
<1>0. PICK l \in Locks : l = lk[t]
  BY Zenon DEF Unlock, TInv, TypeOK
<1>1. /\ pc[t] = "cs" /\ pc'[t] = "idle" /\ lk'[t] = None /\ my_ticket[t] = turn[l]
      /\ turn'[l] = Succ(turn[l]) /\ ticket' = ticket
      /\ \A u \in Threads : u # t =>
           pc'[u] = pc[u] /\ lk'[u] = lk[u] /\ my_ticket'[u] = my_ticket[u]
      /\ \A m \in Locks : m # l => turn'[m] = turn[m]
      /\ None \notin Locks /\ ticket[l] \in Words /\ turn[l] \in Words
  BY <1>0, NoLockAssumption, Zenon DEF Unlock, TInv, TypeOK, InTurn, Succ
<1>2. ASSUME NEW m \in Locks, m # l PROVE Line'[m] = Line[m]
  <2>1. \A u \in Threads : lk[u] = m => lk'[u] = m /\ my_ticket'[u] = my_ticket[u]
    BY <1>0, <1>1, <1>2, Zenon
  <2> QED
    BY <1>1, <1>2, <2>1, SameLine, Zenon
<1>3. Line'[l] = Tail(Line[l])
  <2> DEFINE n == Len(Line[l])
  <2>1. /\ Line[l] \in Seq(Threads) /\ n = Waits(l)
        /\ Line'[l] \in Seq(Threads) /\ Len(Line'[l]) = Waits(l)'
    BY Zenon DEF LineInv
  <2>2. n \in Nat /\ n > 0 /\ ticket[l] # turn[l]
    <3>1. Ahead(turn[l], turn[l]) < Waits(l) /\ Ahead(turn[l], turn[l]) = 0 /\ Waits(l) \in Nat
      BY <1>0, <1>1, AheadType, Zenon DEF TInv, TicketsOut, Drawn, Waits
    <3> QED
      BY <2>1, <3>1 DEF Waits
  <2>3. Len(Line'[l]) = n - 1
    BY <1>1, <2>1, <2>2, AheadShrinks, Zenon DEF Waits
  <2>4. /\ Tail(Line[l]) \in Seq(Threads) /\ Len(Tail(Line[l])) = n - 1
        /\ \A i \in 1..(n - 1) : Tail(Line[l])[i] = Line[l][i + 1]
    <3>1. Line[l] # <<>>
      BY <2>1, <2>2, EmptySeq
    <3>2. /\ Tail(Line[l]) \in Seq(Threads) /\ Len(Tail(Line[l])) = Len(Line[l]) - 1
          /\ \A i \in 1..Len(Tail(Line[l])) : Tail(Line[l])[i] = Line[l][i + 1]
      BY <2>1, <3>1, HeadTailProperties, Zenon
    <3> QED
      BY <3>2, Zenon
  <2>5. ASSUME NEW i \in 1..(n - 1) PROVE Line'[l][i] = Line[l][i + 1]
    <3>1. /\ i \in 1..Len(Line'[l]) /\ i + 1 \in 1..Len(Line[l])
          /\ (i + 1) - 1 = i /\ i # 0 /\ i \in Nat
      BY <2>2, <2>3
    <3>2. PICK u \in Threads : Line[l][i + 1] = u /\ lk[u] = l /\ Ahead(turn[l], my_ticket[u]) = i
      <4>1. PICK j \in 1..Len(Line[l]) : j = i + 1
        BY <3>1, Zenon
      <4>2. \E u \in Threads : Line[l][j] = u /\ lk[u] = l /\ Ahead(turn[l], my_ticket[u]) = j - 1
        BY PlaceBefore, Zenon
      <4> QED
        BY <3>1, <4>1, <4>2, Zenon
    <3>3. my_ticket[u] \in Words /\ my_ticket[u] # turn[l]
      <4>1. my_ticket[u] \in Words /\ Ahead(turn[l], turn[l]) = 0
        BY <1>1, AheadType, Zenon DEF TInv, TypeOK
      <4> QED
        BY <3>1, <3>2, <4>1, Zenon
    <3>4. u # t /\ lk'[u] = l /\ my_ticket'[u] = my_ticket[u]
      BY <1>1, <3>2, <3>3, Zenon
    <3>5. Ahead(turn'[l], my_ticket'[u]) = i - 1
      BY <1>1, <3>2, <3>3, <3>4, AheadShrinks, Zenon
    <3> QED
      BY <3>1, <3>2, <3>4, <3>5, PlaceAfter, Zenon
  <2> HIDE DEF n
  <2>6. \A i \in 1..Len(Line'[l]) : Line'[l][i] = Tail(Line[l])[i]
    BY <2>3, <2>4, <2>5, Zenon
  <2> QED
    BY <2>1, <2>3, <2>4, <2>6, SeqEqual, Zenon
<1>4. Line' = [Line EXCEPT ![l] = Tail(Line[l])]
  BY <1>2, <1>3, LineFunction, Zenon
<1>5. Held[l]
  BY <1>0, <1>1, Zenon DEF Held
<1>6. Held' = [Held EXCEPT ![l] = FALSE]
  <2>1. Held'[l] = FALSE
    <3>1. \A u \in Threads : pc[u] = "cs" /\ lk[u] = l => u = t
      BY <1>0, <1>1, OneInTurn, Zenon
    <3>2. \A u \in Threads : ~(pc'[u] = "cs" /\ lk'[u] = l)
      BY <1>1, <3>1, Zenon
    <3> QED
      BY <3>2, Zenon DEF Held
  <2>2. ASSUME NEW m \in Locks, m # l PROVE Held'[m] = Held[m]
    <3>1. \A u \in Threads : (pc[u] = "cs" /\ lk[u] = m) <=> (pc'[u] = "cs" /\ lk'[u] = m)
      BY <1>0, <1>1, <2>2, Zenon
    <3> QED
      BY <3>1, HeldUnchanged, Zenon
  <2> QED
    BY <2>1, <2>2, HeldFunction, Zenon
<1> QED
  BY <1>0, <1>4, <1>5, <1>6, Zenon DEF Fair!Leave

\* The line is empty at first.
LEMMA InitRefines == Init => Fair!Init
<1> SUFFICES ASSUME Init PROVE Fair!Init
  OBVIOUS
<1>1. TInv /\ LineInv
  BY InitInv, LineExact, Zenon
<1>2. ASSUME NEW l \in Locks PROVE Line[l] = <<>> /\ Held[l] = FALSE
  <2>1. Waits(l) = 0
    <3>1. ticket[l] = turn[l] /\ ticket[l] \in Words
      BY <1>1, Zenon DEF Init, TInv, TypeOK
    <3> QED
      BY <3>1, AheadType, Zenon DEF Waits
  <2>2. Line[l] = <<>>
    BY <1>1, <2>1, EmptySeq, Zenon DEF LineInv
  <2> QED
    BY <2>2, Zenon DEF Init, Held
<1> QED
  BY <1>2, LineFunction, HeldFunction, Zenon DEF Fair!Init

\* Every step is a step of FairLock or leaves line and lock alone.
LEMMA StepRefines ==
  ASSUME TInv, TInv', [Next]_vars
  PROVE  [Fair!Next]_(Fair!fairVars)
<1>1. LineInv /\ LineInv'
  <2>1. LineInv
    BY LineExact, Zenon
  <2>2. LineInv'
    BY LineExact, PTL
  <2> QED
    BY <2>1, <2>2, Zenon
<1>2. CASE UNCHANGED vars
  <2>1. ticket' = ticket /\ turn' = turn /\ pc' = pc /\ lk' = lk /\ my_ticket' = my_ticket
    BY <1>2, Zenon DEF vars
  <2>2. \A l \in Locks : Line'[l] = Line[l]
    BY <1>1, <2>1, SameLine, Zenon
  <2>3. \A l \in Locks : Held'[l] = Held[l]
    BY <2>1, HeldUnchanged, Zenon
  <2> QED
    BY <2>2, <2>3, LineFunction, HeldFunction, Zenon DEF Fair!fairVars
<1>3. CASE Next
  BY <1>1, <1>3, LockJoins, SpinEnters, UnlockLeaves, Zenon DEF Next, Fair!Next
<1> QED
  BY <1>2, <1>3, Zenon

\* The ticket lock does only what FairLock allows: Lock's fetch-and-add joins the
\* line, only its front leaves the loop, and Unlock lets the next one in, also
\* when ticket_ and turn_ wrap around.
THEOREM ImplementsFairLockSafety == Spec => Fair!Spec
<1> QED
  BY TicketsAreCounted, InitRefines, StepRefines, PTL DEF Spec, Fair!Spec

-----------------------------------------------------------------------------
\* The spin lock.

\* The threads between a successful CompareAndSwap on l and Unlock.
SpinHolders(l) == {t \in Threads : spin_pc[t] = "cs" /\ spin_lk[t] = l}

\* A word is LOCKED exactly while one thread is in its critical section, and no
\* two threads are in the critical sections of one lock.
SpinType ==
  /\ word \in [Locks -> {"UNLOCKED", "LOCKED"}]
  /\ spin_pc \in [Threads -> {"idle", "try", "cs"}] /\ spin_lk \in [Threads -> Locks \union {None}]
  /\ \A t \in Threads : spin_pc[t] # "idle" => spin_lk[t] \in Locks
HolderLocks == \A t \in Threads : spin_pc[t] = "cs" => word[spin_lk[t]] = "LOCKED"
LockedHasHolder ==
  \A l \in Locks : word[l] = "LOCKED" => \E t \in Threads : spin_pc[t] = "cs" /\ spin_lk[t] = l
OneHolder == \A t, u \in Threads : spin_pc[t] = "cs" /\ spin_pc[u] = "cs" /\ spin_lk[t] = spin_lk[u] => t = u

WordInv == SpinType /\ HolderLocks /\ LockedHasHolder /\ OneHolder

\* Calling Lock touches no word.
LEMMA SpinLockInv ==
  ASSUME WordInv, NEW t \in Threads, NEW l \in Locks, SpinLock!Lock(t, l)
  PROVE  WordInv'
<1>1. /\ spin_pc[t] = "idle" /\ spin_pc'[t] = "try" /\ spin_lk'[t] = l /\ word' = word
      /\ \A u \in Threads : u # t => spin_pc'[u] = spin_pc[u] /\ spin_lk'[u] = spin_lk[u]
      /\ spin_pc' \in [Threads -> {"idle", "try", "cs"}] /\ spin_lk' \in [Threads -> Locks \union {None}]
  BY Zenon DEF WordInv, SpinType, SpinLock!Lock
<1>2. \A u \in Threads : (spin_pc'[u] = "cs" \/ spin_pc[u] = "cs") =>
        spin_pc'[u] = spin_pc[u] /\ spin_lk'[u] = spin_lk[u]
  BY <1>1, Zenon
<1>3. \A u \in Threads : spin_pc'[u] # "idle" => spin_lk'[u] \in Locks
  BY <1>1, Zenon DEF WordInv, SpinType
<1>4. LockedHasHolder /\ OneHolder /\ HolderLocks
  BY Zenon DEF WordInv
<1>5. LockedHasHolder'
  <2> SUFFICES ASSUME NEW m \in Locks, word'[m] = "LOCKED"
               PROVE  \E u \in Threads : spin_pc'[u] = "cs" /\ spin_lk'[u] = m
    BY Zenon DEF LockedHasHolder
  <2>1. PICK u \in Threads : spin_pc[u] = "cs" /\ spin_lk[u] = m
    BY <1>1, <1>4, Zenon DEF LockedHasHolder
  <2> QED
    BY <1>2, <2>1, Zenon
<1>6. OneHolder'
  BY <1>2, <1>4, Zenon DEF OneHolder
<1>7. HolderLocks'
  BY <1>1, <1>2, <1>4, Zenon DEF HolderLocks
<1> QED
  BY <1>1, <1>3, <1>5, <1>6, <1>7, Zenon DEF WordInv, SpinType

\* A CompareAndSwap succeeds only on a word nobody holds.
LEMMA SpinCasInv ==
  ASSUME WordInv, NEW t \in Threads, SpinLock!CompareAndSwap(t)
  PROVE  WordInv'
<1>0. PICK l \in Locks : l = spin_lk[t]
  BY Zenon DEF WordInv, SpinType, SpinLock!CompareAndSwap
<1>1. /\ spin_pc[t] = "try" /\ spin_pc'[t] = "cs" /\ spin_lk' = spin_lk /\ word[l] = "UNLOCKED" /\ word'[l] = "LOCKED"
      /\ \A u \in Threads : u # t => spin_pc'[u] = spin_pc[u]
      /\ \A m \in Locks : m # l => word'[m] = word[m]
      /\ spin_pc' \in [Threads -> {"idle", "try", "cs"}] /\ word' \in [Locks -> {"UNLOCKED", "LOCKED"}]
  BY <1>0, Zenon DEF WordInv, SpinType, SpinLock!CompareAndSwap
<1>2. \A u \in Threads : spin_pc[u] = "cs" => spin_lk[u] # l /\ spin_lk[u] \in Locks /\ u # t
  BY <1>1, Zenon DEF WordInv, SpinType, HolderLocks
<1>3. \A u \in Threads : spin_pc'[u] = "cs" => u = t \/ (u # t /\ spin_pc[u] = "cs")
  BY <1>1, Zenon
<1>4. \A u \in Threads : spin_pc'[u] # "idle" => spin_lk'[u] \in Locks
  BY <1>0, <1>1, Zenon DEF WordInv, SpinType
<1>5. \A u \in Threads : spin_pc'[u] = "cs" => word'[spin_lk'[u]] = "LOCKED"
  BY <1>0, <1>1, <1>2, <1>3, Zenon DEF WordInv, HolderLocks
<1>6. ASSUME NEW m \in Locks, word'[m] = "LOCKED"
      PROVE  \E u \in Threads : spin_pc'[u] = "cs" /\ spin_lk'[u] = m
  <2>1. CASE m = l
    BY <1>0, <1>1, <2>1, Zenon
  <2>2. CASE m # l
    <3>1. PICK u \in Threads : spin_pc[u] = "cs" /\ spin_lk[u] = m
      BY <1>1, <1>6, <2>2, Zenon DEF WordInv, LockedHasHolder
    <3> QED
      BY <1>1, <1>2, <3>1, Zenon
  <2> QED
    BY <2>1, <2>2, Zenon
<1>7. \A u, v \in Threads : spin_pc'[u] = "cs" /\ spin_pc'[v] = "cs" /\ spin_lk'[u] = spin_lk'[v] =>
        u = v
  <2>1. OneHolder
    BY Zenon DEF WordInv
  <2> QED
    BY <1>0, <1>1, <1>2, <1>3, <2>1, Zenon DEF OneHolder
<1>8. SpinType'
  BY <1>1, <1>4, Zenon DEF WordInv, SpinType
<1> QED
  BY <1>5, <1>6, <1>7, <1>8, Zenon DEF WordInv, HolderLocks, LockedHasHolder, OneHolder

\* Unlock frees the word its thread had locked, and no other thread held it.
LEMMA SpinUnlockInv ==
  ASSUME WordInv, NEW t \in Threads, SpinLock!Unlock(t)
  PROVE  WordInv'
<1>0. PICK l \in Locks : l = spin_lk[t]
  BY Zenon DEF WordInv, SpinType, SpinLock!Unlock
<1>1. /\ spin_pc[t] = "cs" /\ spin_pc'[t] = "idle" /\ spin_lk' = spin_lk /\ word'[l] = "UNLOCKED"
      /\ \A u \in Threads : u # t => spin_pc'[u] = spin_pc[u]
      /\ \A m \in Locks : m # l => word'[m] = word[m]
      /\ spin_pc' \in [Threads -> {"idle", "try", "cs"}] /\ word' \in [Locks -> {"UNLOCKED", "LOCKED"}]
  BY <1>0, Zenon DEF WordInv, SpinType, SpinLock!Unlock
<1>2. \A u \in Threads : spin_pc'[u] = "cs" =>
        u # t /\ spin_pc[u] = "cs" /\ spin_lk[u] # l /\ spin_lk[u] \in Locks
  <2>1. \A u \in Threads : spin_pc'[u] = "cs" => u # t /\ spin_pc[u] = "cs" /\ spin_lk[u] \in Locks
    BY <1>1, Zenon DEF WordInv, SpinType
  <2>2. OneHolder
    BY Zenon DEF WordInv
  <2> QED
    BY <1>0, <1>1, <2>1, <2>2, Zenon DEF OneHolder
<1>3. \A u \in Threads : spin_pc'[u] # "idle" => spin_lk'[u] \in Locks
  BY <1>1, Zenon DEF WordInv, SpinType
<1>4. \A u \in Threads : spin_pc'[u] = "cs" => word'[spin_lk'[u]] = "LOCKED"
  BY <1>1, <1>2, Zenon DEF WordInv, HolderLocks
<1>5. ASSUME NEW m \in Locks, word'[m] = "LOCKED"
      PROVE  \E u \in Threads : spin_pc'[u] = "cs" /\ spin_lk'[u] = m
  <2>1. m # l
    BY <1>1, <1>5, Zenon
  <2>2. PICK u \in Threads : spin_pc[u] = "cs" /\ spin_lk[u] = m
    BY <1>1, <1>5, <2>1, Zenon DEF WordInv, LockedHasHolder
  <2> QED
    BY <1>0, <1>1, <2>1, <2>2, Zenon
<1>6. \A u, v \in Threads : spin_pc'[u] = "cs" /\ spin_pc'[v] = "cs" /\ spin_lk'[u] = spin_lk'[v] =>
        u = v
  <2>1. OneHolder
    BY Zenon DEF WordInv
  <2> QED
    BY <1>1, <1>2, <2>1, Zenon DEF OneHolder
<1>7. SpinType'
  BY <1>1, <1>3, Zenon DEF WordInv, SpinType
<1> QED
  BY <1>4, <1>5, <1>6, <1>7, Zenon DEF WordInv, HolderLocks, LockedHasHolder, OneHolder

\* What the invariant says of the words.
LEMMA SpinTells == WordInv => WordTellsHolder
<1>1. ASSUME WordInv, NEW l \in Locks
      PROVE  Cardinality(SpinHolders(l)) = IF word[l] = "LOCKED" THEN 1 ELSE 0
  <2>1. CASE word[l] = "LOCKED"
    <3>1. PICK t \in Threads : spin_pc[t] = "cs" /\ spin_lk[t] = l
      BY <1>1, <2>1, Zenon DEF WordInv, LockedHasHolder
    <3>2. OneHolder
      BY <1>1, Zenon DEF WordInv
    <3>3. \A u \in Threads : spin_pc[u] = "cs" /\ spin_lk[u] = l <=> u = t
      BY <3>1, <3>2, Zenon DEF OneHolder
    <3>4. SpinHolders(l) = {t}
      BY <3>3, Zenon DEF SpinHolders
    <3> QED
      BY <2>1, <3>4, FS_Singleton, Zenon
  <2>2. CASE word[l] # "LOCKED"
    <3>1. SpinHolders(l) = {}
      BY <1>1, <2>2, Zenon DEF WordInv, HolderLocks, SpinHolders
    <3> QED
      BY <2>2, <3>1, FS_EmptySet, Zenon
  <2> QED
    BY <2>1, <2>2, Zenon
<1>2. (\A l \in Locks : Cardinality(SpinHolders(l)) = IF word[l] = "LOCKED" THEN 1 ELSE 0)
        => WordTellsHolder
  <2>1. \A S : SpinLock!Cardinality(S) = Cardinality(S)
    BY Zenon DEF Cardinality, SpinLock!Cardinality
  <2> QED
    BY <2>1, Zenon DEF WordTellsHolder, SpinLock!WordTellsHolder, SpinHolders
<1> QED
  BY <1>1, <1>2, Zenon

\* IsLocked tells the truth: the word is LOCKED exactly while one thread is
\* between its successful CompareAndSwap and Unlock's write, and never are two.
THEOREM SpinWordTellsHolder == SpinLock!Spec => []WordTellsHolder
<1>1. SpinLock!Init => WordInv
  BY Zenon DEF SpinLock!Init, WordInv, SpinType, HolderLocks, LockedHasHolder, OneHolder
<1>2. WordInv /\ [SpinLock!Next]_(SpinLock!vars) => WordInv'
  <2> SUFFICES ASSUME WordInv, [SpinLock!Next]_(SpinLock!vars) PROVE WordInv'
    OBVIOUS
  <2>1. CASE UNCHANGED SpinLock!vars
    BY <2>1, Zenon DEF SpinLock!vars, WordInv, SpinType, HolderLocks, LockedHasHolder, OneHolder
  <2>2. CASE SpinLock!Next
    BY <2>2, SpinLockInv, SpinCasInv, SpinUnlockInv, Zenon DEF SpinLock!Next
  <2> QED
    BY <2>1, <2>2, Zenon
<1> QED
  BY <1>1, <1>2, SpinTells, PTL DEF SpinLock!Spec
=============================================================================
