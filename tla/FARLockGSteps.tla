---------------------------- MODULE FARLockGSteps -----------------------------
(***************************************************************************)
(* The queues of FARLockG: QInv is an invariant, and with it the order in  *)
(* which a cohort is served and the safety of every access to another      *)
(* thread's descriptor.  Then the steps of a thread that has joined and is *)
(* to draw a ticket, and those with which it takes what its predecessor    *)
(* left, keep BInv; FARLockGProofs has the other steps and combines all.   *)
(***************************************************************************)
EXTENDS FARLockGInv, TLAPS

\* A leaf that names no prover is tried with SMT, then with Zenon.
USE SMTT(30), ZenonT(30)

\* A thread takes the local or the remote path of Lock and Unlock.
LEMMA CohType == \A t \in Threads : Coh(t) \in Cohorts
BY Zenon DEF Coh, CohortOf, Cohorts

\* The path of a thread does not change while it works on a lock.
LEMMA CohStable ==
  ASSUME NEW t, lk'[t] = lk[t]
  PROVE  Coh(t)' = Coh(t)
BY Zenon DEF Coh, CohortOf, IsLocal

LEMMA InitQInv == Init => QInv
<1> SUFFICES ASSUME Init PROVE QInv
  OBVIOUS
<1>1. TypeOK
  BY DEF Init, TypeOK, Bit, kFalse, PCs, NoBudget
<1>2. \A t \in Threads : pc[t] = "idle" /\ lk[t] = None /\ ~Queued(t) /\ Coh(t) \in Cohorts
  BY CohType, Zenon DEF Init, Queued
<1>3. \A l \in Locks : \A c \in Cohorts : tail[l][c] = None
  BY Zenon DEF Init
<1>4. None \notin Threads /\ None \notin Locks
  BY NoneAssumption, Zenon
<1>5. LkInv /\ SwapInv /\ PosInv /\ TailInv
  BY <1>2, <1>3, <1>4, Zenon DEF LkInv, SwapInv, PosInv, TailInv
<1>6. HeadInv /\ PrevInv /\ NextInv /\ ReleaseInv
  BY <1>2, Zenon DEF HeadInv, PrevInv, NextInv, ReleaseInv, Linking, Leaving
<1> QED
  BY <1>1, <1>5, <1>6, Zenon DEF QInv

LEMMA StutterQInv ==
  ASSUME QInv, UNCHANGED vars
  PROVE  QInv'
<1>1. UNCHANGED <<tail, flag, victim, next_ticket, current_ticket>>
      /\ UNCHANGED <<next, ticket_valid, batch_ticket, budget, granted, releasable>>
      /\ UNCHANGED <<pc, lk, prev, tk, from_prev, vbuf, ops, arrivals, pos, uses, seen>>
  BY Zenon DEF vars, lockVars, descVars, threadVars, history
<1>2. \A t \in Threads : Coh(t)' = Coh(t)
  BY <1>1, CohStable, Zenon
<1>3. \A t \in Threads : Queued(t)' <=> Queued(t)
  BY <1>1, Zenon DEF Queued
<1>4. \A t, u \in Threads : SameQueue(t, u)' <=> SameQueue(t, u)
  BY <1>1, <1>2, Zenon DEF SameQueue
<1>5. TypeOK' /\ LkInv'
  BY <1>1, Zenon DEF QInv, TypeOK, LkInv
<1>6. SwapInv' /\ PosInv'
  BY <1>1, <1>2, <1>3, <1>4, Zenon DEF QInv, SwapInv, PosInv
<1>9. TailInv'
  BY <1>1, <1>2, <1>3 DEF QInv, TailInv
<1>7. HeadInv' /\ PrevInv'
  BY <1>1, <1>2, <1>3, <1>4, Zenon DEF QInv, HeadInv, PrevInv, TypeOK
<1>8. NextInv' /\ ReleaseInv'
  BY <1>1, <1>2, <1>3, <1>4 DEF QInv, NextInv, ReleaseInv
<1> QED
  BY <1>5, <1>6, <1>7, <1>8, <1>9, Zenon DEF QInv

\* A step of a queued thread t to q that writes no tail_, next_, granted_ or
\* releasable_, to a point that its place in the queue allows.
Calm(t, q) ==
  /\ Queued(t) /\ pc' = [pc EXCEPT ![t] = q] /\ q \in PCs \ {"idle", "swap", "link"}
  /\ q \in {"readvalid", "release"} => pc[t] \in {"readvalid", "release"}
  /\ q \in {"waitbudget", "gotbudget"} => pc[t] \in Linking \cup {"waitbudget", "gotbudget"}
  /\ q \in Succeeded => next[Coh(t)][t] # None
  /\ q = "grant" => releasable[Coh(t)][t] = kTrue
  /\ q \in {"waitturn", "cs"} \cup Leaving => prev[t] = None \/ granted[Coh(t)][t] = kTrue
  /\ UNCHANGED <<tail, next, granted, releasable, lk, prev, arrivals, pos>>

\* Such a step keeps the shape of the queues.
LEMMA CalmInv ==
  ASSUME QInv, TypeOK', NEW t \in Threads, NEW q, Calm(t, q)
  PROVE  QInv'
<1>1. \A u \in Threads : Coh(u)' = Coh(u) /\ Coh(u) \in Cohorts
  BY CohStable, CohType, Zenon DEF Calm
<1>2. \A u \in Threads : Queued(u)' <=> Queued(u)
  BY Zenon DEF Calm, Queued, QInv, TypeOK
<1>3. \A u \in Threads : u # t => pc'[u] = pc[u]
  BY Zenon DEF Calm, QInv, TypeOK
<1>4. pc'[t] = q /\ q # "swap" /\ q # "idle" /\ q # "link" /\ pc[t] # "idle"
  BY Zenon DEF Calm, Queued, QInv, TypeOK
<1>5. \A u, v \in Threads : SameQueue(u, v)' <=> SameQueue(u, v)
  BY <1>1, Zenon DEF Calm, SameQueue
<1>6. UNCHANGED <<tail, next, granted, releasable, lk, prev, arrivals, pos>>
  BY Zenon DEF Calm
<1>a. LkInv'
  BY <1>3, <1>4, <1>6, Zenon DEF QInv, LkInv
<1>b. SwapInv'
  BY <1>1, <1>3, <1>4, <1>6, Zenon DEF QInv, SwapInv
<1>c. PosInv'
  BY <1>1, <1>2, <1>5, <1>6, Zenon DEF QInv, PosInv
<1>d. TailInv'
  BY <1>1, <1>2, <1>6 DEF QInv, TailInv
<1>e. HeadInv'
  BY <1>1, <1>2, <1>3, <1>4, <1>5, <1>6, Zenon DEF Calm, QInv, HeadInv
<1>f. PrevInv'
  BY <1>1, <1>2, <1>3, <1>4, <1>5, <1>6 DEF Calm, QInv, PrevInv, TypeOK, Linking
<1>g. NextInv'
  <2> SUFFICES ASSUME NEW u \in Threads, Queued(u)
               PROVE  /\ \A v \in Threads : next[Coh(u)][u] = v =>
                          /\ Queued(v) /\ SameQueue(u, v) /\ prev[v] = u /\ pos[v] = pos[u] + 1
                          /\ pc'[v] # "link" /\ granted[Coh(u)][v] = kFalse
                      /\ pc'[u] \in Succeeded => next[Coh(u)][u] # None
    BY <1>1, <1>2, <1>5, <1>6 DEF NextInv
  <2> QED
    BY <1>3, <1>4 DEF Calm, QInv, NextInv
<1>h. ReleaseInv'
  BY <1>1, <1>2, <1>3, <1>4, <1>6 DEF Calm, QInv, ReleaseInv, TypeOK, Linking
<1> QED
  BY <1>a, <1>b, <1>c, <1>d, <1>e, <1>f, <1>g, <1>h, Zenon DEF QInv

-----------------------------------------------------------------------------
(***************************************************************************)
(* The steps that join a queue.                                            *)
(***************************************************************************)
\* The reset of a descriptor at the start of Lock touches no queue: its owner is
\* in none, and no other thread holds a pointer to it that it will still use.
LEMMA LockQInv ==
  ASSUME QInv, NEW t \in Threads, NEW l \in Locks, Lock(t, l)
  PROVE  QInv'
<1> DEFINE c == CohortOf(t, l)
<1>1. /\ c \in Cohorts /\ pc[t] = "idle" /\ pc' = [pc EXCEPT ![t] = "swap"]
      /\ lk' = [lk EXCEPT ![t] = l] /\ ops' = [ops EXCEPT ![t] = @ + 1]
      /\ next' = [next EXCEPT ![c][t] = None]
      /\ ticket_valid' = [ticket_valid EXCEPT ![c][t] = kFalse]
      /\ budget' = [budget EXCEPT ![c][t] = NoBudget]
      /\ granted' = [granted EXCEPT ![c][t] = kFalse]
      /\ releasable' = [releasable EXCEPT ![c][t] = kFalse]
      /\ UNCHANGED <<tail, flag, victim, next_ticket, current_ticket, batch_ticket, prev, tk,
                     from_prev, vbuf, arrivals, pos, uses, seen>>
  BY Zenon DEF Lock, Goto, CohortOf, Cohorts, lockVars, history
<1>2. /\ pc'[t] = "swap" /\ lk'[t] = l /\ Coh(t)' = c
      /\ next'[c][t] = None /\ granted'[c][t] = kFalse /\ releasable'[c][t] = kFalse
  BY <1>1, Zenon DEF QInv, TypeOK, Coh, CohortOf, IsLocal
<1> HIDE DEF c
<1>3. \A u \in Threads : u # t =>
        /\ pc'[u] = pc[u] /\ lk'[u] = lk[u] /\ Coh(u)' = Coh(u)
        /\ \A d \in Cohorts :
             /\ next'[d][u] = next[d][u] /\ granted'[d][u] = granted[d][u]
             /\ releasable'[d][u] = releasable[d][u]
  BY <1>1, CohStable, Zenon DEF QInv, TypeOK
<1>4. ~Queued(t) /\ ~Queued(t)' /\ \A u \in Threads : u # t => (Queued(u)' <=> Queued(u))
  BY <1>1, <1>2, <1>3, Zenon DEF Queued
<1>5. \A u \in Threads : Coh(u) \in Cohorts
  BY CohType, Zenon
<1>6. None \notin Threads
  BY NoneAssumption, Zenon
<1>y. TypeOK'
  BY <1>1 DEF QInv, TypeOK, PCs, Bit, NoBudget
<1>a. LkInv'
  BY <1>2, <1>3, Zenon DEF QInv, LkInv
<1>b. SwapInv'
  BY <1>2, <1>3, <1>5 DEF QInv, SwapInv
<1>c. PosInv'
  BY <1>1, <1>3, <1>4, Zenon DEF QInv, PosInv, SameQueue
<1>d. TailInv'
  BY <1>1, <1>3, <1>4 DEF QInv, TailInv
<1>e. HeadInv'
  <2>1. pc'[t] \notin {"waitturn", "cs"} \cup Leaving
    BY <1>2, Zenon DEF Leaving
  <2> QED
    BY <1>1, <1>3, <1>4, <1>5, <2>1 DEF QInv, HeadInv, SameQueue
<1>f. PrevInv'
  <2>1. ASSUME NEW u \in Threads, u # t, Queued(u), prev[u] # None, granted[Coh(u)][u] = kFalse
        PROVE  /\ prev[u] \in Threads \ {t} /\ Queued(prev[u]) /\ SameQueue(u, prev[u])
               /\ pos[u] = pos[prev[u]] + 1
    BY <1>4, <2>1, Zenon DEF QInv, TypeOK, PrevInv
  <2>2. ASSUME NEW u \in Threads
        PROVE  (Queued(u) /\ prev[u] # None /\ granted[Coh(u)][u] = kFalse =>
                  Queued(prev[u]) /\ SameQueue(u, prev[u]) /\ pos[u] = pos[prev[u]] + 1)'
    BY <1>1, <1>3, <1>4, <1>5, <2>1 DEF SameQueue
  <2>3. ASSUME NEW u \in Threads
        PROVE  (/\ pc[u] \in Linking \cup {"waitbudget", "gotbudget"} => prev[u] # None
                /\ pc[u] \in Linking => granted[Coh(u)][u] = kFalse)'
    BY <1>1, <1>2, <1>3, <1>5 DEF QInv, PrevInv, Linking
  <2>4. ASSUME NEW u \in Threads, pc'[u] \in {"readvalid", "release"}
        PROVE  next'[Coh(u)'][prev'[u]] = u
    <3>1. u # t /\ Queued(u) /\ prev[u] # None /\ granted[Coh(u)][u] = kFalse /\ next[Coh(u)][prev[u]] = u
      BY <1>2, <1>3, <2>4, Zenon DEF QInv, PrevInv, Queued, Linking
    <3> QED
      BY <1>1, <1>3, <1>5, <2>1, <3>1
  <2> QED
    BY <2>2, <2>3, <2>4, Zenon DEF PrevInv
<1>g. NextInv'
  <2>1. ASSUME NEW u \in Threads, Queued(u)', NEW v \in Threads, next'[Coh(u)'][u] = v
        PROVE  u # t /\ v # t /\ Queued(u) /\ Queued(v) /\ SameQueue(u, v) /\ prev[v] = u
               /\ pos[v] = pos[u] + 1 /\ pc[v] # "link" /\ granted[Coh(u)][v] = kFalse
    BY <1>3, <1>4, <1>5, <2>1 DEF QInv, NextInv
  <2>2. ASSUME NEW u \in Threads, Queued(u)', pc'[u] \in Succeeded
        PROVE  next'[Coh(u)'][u] # None
    BY <1>3, <1>4, <1>5, <2>2 DEF QInv, NextInv
  <2> QED
    BY <1>1, <1>3, <1>4, <1>5, <2>1, <2>2 DEF NextInv, SameQueue
<1>h. ReleaseInv'
  <2> SUFFICES ASSUME NEW u \in Threads, Queued(u)'
               PROVE  (/\ releasable[Coh(u)][u] = kTrue =>
                           next[Coh(u)][u] # None /\ pc[next[Coh(u)][u]] \notin Linking
                       /\ pc[u] = "grant" => releasable[Coh(u)][u] = kTrue)'
    BY Zenon DEF ReleaseInv
  <2>1. /\ Queued(u) /\ pc'[u] = pc[u] /\ Coh(u)' = Coh(u)
        /\ releasable'[Coh(u)][u] = releasable[Coh(u)][u]
        /\ next'[Coh(u)][u] = next[Coh(u)][u] /\ next[Coh(u)][u] \in Threads \cup {None}
    BY <1>3, <1>4, <1>5 DEF QInv, TypeOK
  <2>2. next[Coh(u)][u] # None => next[Coh(u)][u] \in Threads \ {t}
    BY <1>4, <2>1, Zenon DEF QInv, NextInv
  <2> QED
    BY <1>3, <2>1, <2>2 DEF QInv, ReleaseInv
<1> QED
  BY <1>y, <1>a, <1>b, <1>c, <1>d, <1>e, <1>f, <1>g, <1>h, Zenon DEF QInv

\* The exchange on the tail appends the thread to its queue.
LEMMA SwapTailQInv ==
  ASSUME QInv, NEW t \in Threads, SwapTail(t)
  PROVE  QInv'
<1>1. /\ lk[t] \in Locks /\ Coh(t) \in Cohorts /\ pc[t] = "swap"
      /\ tail' = [tail EXCEPT ![lk[t]][Coh(t)] = t]
      /\ pc' = [pc EXCEPT ![t] = IF tail[lk[t]][Coh(t)] = None THEN "setbudget" ELSE "link"]
      /\ prev' = [prev EXCEPT ![t] = tail[lk[t]][Coh(t)]]
      /\ arrivals' = [arrivals EXCEPT ![lk[t]][Coh(t)] = @ + 1]
      /\ pos' = [pos EXCEPT ![t] = arrivals[lk[t]][Coh(t)]]
      /\ UNCHANGED <<flag, victim, next_ticket, current_ticket, next, ticket_valid, batch_ticket,
                     budget, granted, releasable, lk, tk, from_prev, vbuf, ops, uses, seen>>
  BY CohType, Zenon DEF SwapTail, Goto, QInv, LkInv, descVars
<1>2. \A u \in Threads : Coh(u)' = Coh(u) /\ Coh(u) \in Cohorts /\ (u # t => pc'[u] = pc[u])
  BY <1>1, CohStable, CohType, Zenon DEF QInv, TypeOK
<1>3. None \notin Threads
  BY NoneAssumption, Zenon
<1>4. \A u \in Threads : u # t => (Queued(u)' <=> Queued(u)) /\ pos'[u] = pos[u] /\ prev'[u] = prev[u]
  BY <1>1, <1>2, Zenon DEF Queued, QInv, TypeOK
<1>5. /\ ~Queued(t) /\ Queued(t)' /\ pos'[t] = arrivals[lk[t]][Coh(t)]
      /\ prev'[t] = tail[lk[t]][Coh(t)] /\ tail[lk[t]][Coh(t)] \in Threads \cup {None}
      /\ pc'[t] = (IF tail[lk[t]][Coh(t)] = None THEN "setbudget" ELSE "link")
      /\ next[Coh(t)][t] = None /\ granted[Coh(t)][t] = kFalse /\ releasable[Coh(t)][t] = kFalse
  <2>1. ~Queued(t) /\ Queued(t)'
    BY <1>1, Zenon DEF Queued, QInv, TypeOK
  <2> QED
    BY <1>1, <2>1 DEF QInv, TypeOK, SwapInv
<1>y. TypeOK'
  BY <1>1 DEF QInv, TypeOK, PCs, Arriving
<1>a. LkInv'
  BY <1>1, <1>2, <1>3, Zenon DEF QInv, TypeOK, LkInv
<1>b. SwapInv'
  BY <1>1, <1>2, <1>3, Zenon DEF QInv, TypeOK, SwapInv
<1>c. PosInv'
  BY <1>1, <1>2, <1>3, <1>4, <1>5 DEF QInv, TypeOK, PosInv, SameQueue
<1>d. TailInv'
  <2> SUFFICES ASSUME NEW l \in Locks, NEW c \in Cohorts PROVE
       /\ \A u \in Threads : tail'[l][c] = u =>
         Queued(u)' /\ lk'[u] = l /\ Coh(u)' = c /\ pos'[u] + 1 = arrivals'[l][c]
       /\ tail'[l][c] = None => \A u \in Threads : ~(Queued(u)' /\ lk'[u] = l /\ Coh(u)' = c)
    BY Zenon DEF TailInv
  <2>1. CASE l = lk[t] /\ c = Coh(t)
    BY <1>1, <1>2, <1>3, <1>5, <2>1 DEF QInv, TypeOK
  <2>2. CASE ~(l = lk[t] /\ c = Coh(t))
    <3>2. tail'[l][c] = tail[l][c] /\ arrivals'[l][c] = arrivals[l][c] /\ lk' = lk
      BY <1>1, <2>2, Zenon DEF QInv, TypeOK
    <3> QED
      BY <1>2, <1>4, <1>5, <2>2, <3>2 DEF QInv, TailInv
  <2> QED BY <2>1, <2>2, Zenon
<1>e. HeadInv'
  <2>1. pc'[t] \notin {"waitturn", "cs"} \cup Leaving
    BY <1>5, Zenon DEF Leaving
  <2>2. \A u \in Threads : Queued(u) /\ SameQueue(t, u) =>
          tail[lk[t]][Coh(t)] # None /\ pos[u] < arrivals[lk[t]][Coh(t)]
    BY <1>1 DEF QInv, TailInv, PosInv, SameQueue
  <2>3. /\ kFalse # kTrue /\ arrivals[lk[t]][Coh(t)] \in Nat
        /\ \A u, v \in Threads : SameQueue(u, v)' <=> SameQueue(u, v)
    BY <1>1, <1>2 DEF QInv, TypeOK, kTrue, kFalse, SameQueue
  <2>4. \A u \in Threads : pos[u] \in Nat
    BY Zenon DEF QInv, TypeOK
  <2> QED
    BY <1>1, <1>2, <1>4, <1>5, <2>1, <2>2, <2>3, <2>4 DEF QInv, HeadInv, SameQueue
<1>f. PrevInv'
  <2>3. ASSUME NEW p \in Threads, tail[lk[t]][Coh(t)] = p
        PROVE  p # t /\ Queued(p)' /\ SameQueue(t, p)' /\ pos'[t] = pos'[p] + 1
    <3>1. Queued(p) /\ lk[p] = lk[t] /\ Coh(p) = Coh(t) /\ pos[p] + 1 = arrivals[lk[t]][Coh(t)]
      BY <1>1, <1>2, <2>3 DEF QInv, TailInv
    <3>2. p # t
      BY <1>5, <3>1, Zenon
    <3> QED
      BY <1>1, <1>2, <1>4, <1>5, <3>1, <3>2, Zenon DEF SameQueue
  <2>5. ASSUME NEW u \in Threads, u # t, Queued(u), prev[u] # None, granted[Coh(u)][u] = kFalse
        PROVE  prev[u] # t /\ prev[u] \in Threads /\ Queued(prev[u])'
               /\ lk'[u] = lk'[prev[u]] /\ Coh(u) = Coh(prev[u]) /\ pos'[u] = pos'[prev[u]] + 1
    <3>1. /\ prev[u] \in Threads /\ Queued(prev[u]) /\ SameQueue(u, prev[u])
          /\ pos[u] = pos[prev[u]] + 1 /\ prev[u] # t
      BY <1>5, <2>5, Zenon DEF QInv, TypeOK, PrevInv
    <3> QED
      BY <1>1, <1>4, <2>5, <3>1, Zenon DEF SameQueue
  <2>6. ASSUME NEW u \in Threads
        PROVE  (Queued(u) /\ prev[u] # None /\ granted[Coh(u)][u] = kFalse =>
                 Queued(prev[u]) /\ SameQueue(u, prev[u]) /\ pos[u] = pos[prev[u]] + 1)'
    <3>1. CASE u = t
      BY <1>3, <1>5, <2>3, <3>1, Zenon DEF Queued, SameQueue
    <3>2. CASE u # t
      BY <1>1, <1>2, <1>4, <2>5, <3>2 DEF Queued, SameQueue
    <3> QED BY <3>1, <3>2, Zenon
  <2>7. ASSUME NEW u \in Threads
        PROVE  /\ pc'[u] \in Linking \cup {"waitbudget", "gotbudget"} => prev'[u] # None
               /\ pc'[u] \in Linking => granted'[Coh(u)'][u] = kFalse
               /\ pc'[u] \in {"readvalid", "release"} => next'[Coh(u)'][prev'[u]] = u
    BY <1>1, <1>2, <1>3, <1>4, <1>5 DEF QInv, PrevInv, Linking
  <2> QED
    BY <2>6, <2>7, Zenon DEF PrevInv
<1>g. NextInv'
  <2>3. ASSUME NEW u \in Threads, Queued(u)', NEW v \in Threads, next[Coh(u)][u] = v
        PROVE  u # t /\ v # t /\ Queued(u) /\ Queued(v) /\ SameQueue(u, v) /\ prev[v] = u
               /\ pos[v] = pos[u] + 1 /\ pc[v] # "link" /\ granted[Coh(u)][v] = kFalse
    BY <1>3, <1>4, <1>5, <2>3, Zenon DEF QInv, NextInv
  <2>4. ASSUME NEW u \in Threads, Queued(u)', pc'[u] \in Succeeded
        PROVE  next[Coh(u)][u] # None
    BY <1>2, <1>4, <1>5, <2>4, Zenon DEF QInv, NextInv, Succeeded
  <2> QED
    BY <1>1, <1>2, <1>4, <2>3, <2>4 DEF NextInv, SameQueue
<1>h. ReleaseInv'
  <2> SUFFICES ASSUME NEW u \in Threads, Queued(u)'
               PROVE  /\ releasable[Coh(u)][u] = kTrue =>
                          next[Coh(u)][u] # None /\ pc'[next[Coh(u)][u]] \notin Linking
                      /\ pc'[u] = "grant" => releasable[Coh(u)][u] = kTrue
    BY <1>1, <1>2, Zenon DEF ReleaseInv
  <2>1. CASE u = t
    BY <1>5, <2>1 DEF kTrue, kFalse
  <2>2. CASE u # t
    <3>1. Queued(u) /\ pc'[u] = pc[u] /\ next[Coh(u)][u] \in Threads \cup {None}
      BY <1>2, <1>4, <2>2 DEF QInv, TypeOK
    <3>2. next[Coh(u)][u] # t
      BY <1>5, <3>1, Zenon DEF QInv, NextInv
    <3> QED
      BY <1>2, <3>1, <3>2, Zenon DEF QInv, ReleaseInv
  <2> QED BY <2>1, <2>2, Zenon
<1> QED
  BY <1>y, <1>a, <1>b, <1>c, <1>d, <1>e, <1>f, <1>g, <1>h, Zenon DEF QInv

\* Writing prev->next_ links the thread behind the predecessor it swapped out.
LEMMA LinkPrevQInv ==
  ASSUME QInv, NEW t \in Threads, LinkPrev(t)
  PROVE  QInv'
<1>1. /\ lk[t] \in Locks /\ Coh(t) \in Cohorts /\ pc[t] = "link"
      /\ next' = [next EXCEPT ![Coh(t)][prev[t]] = t]
      /\ pc' = [pc EXCEPT ![t] = "readvalid"]
      /\ UNCHANGED <<tail, flag, victim, next_ticket, current_ticket, ticket_valid, batch_ticket,
                     budget, granted, releasable, lk, prev, tk, from_prev, vbuf, ops, arrivals,
                     pos, uses, seen>>
  BY CohType, Zenon DEF LinkPrev, Goto, QInv, LkInv, lockVars, threadVars, history
<1>2. \A u \in Threads : Coh(u)' = Coh(u) /\ Coh(u) \in Cohorts /\ (u # t => pc'[u] = pc[u])
  BY <1>1, CohStable, CohType, Zenon DEF QInv, TypeOK
<1>3. None \notin Threads
  BY NoneAssumption, Zenon
<1>4. /\ prev[t] \in Threads /\ Queued(prev[t]) /\ SameQueue(t, prev[t])
      /\ pos[t] = pos[prev[t]] + 1 /\ Queued(t) /\ granted[Coh(t)][t] = kFalse
  BY <1>1, <1>3, Zenon DEF QInv, TypeOK, PrevInv, Queued, Linking
<1>5. \A u \in Threads : next'[Coh(u)][u] = IF u = prev[t] THEN t ELSE next[Coh(u)][u]
  BY <1>1, <1>2, <1>4, Zenon DEF QInv, TypeOK, SameQueue
<1>6. \A u \in Threads : Queued(u)' <=> Queued(u)
  BY <1>1, <1>2, Zenon DEF Queued, QInv, TypeOK
<1>7. pc'[t] = "readvalid"
  BY <1>1, Zenon DEF QInv, TypeOK
<1>8. \A u \in Threads : u # t /\ Queued(u) /\ SameQueue(u, t) => pos[u] # pos[t]
  BY <1>4, Zenon DEF QInv, PosInv
<1>y. TypeOK'
  BY <1>1, Zenon DEF QInv, TypeOK, PCs, Arriving
<1>a. LkInv'
  BY <1>1, <1>2, <1>3, Zenon DEF QInv, TypeOK, LkInv
<1>b. SwapInv'
  BY <1>1, <1>2, <1>4, <1>5, <1>7, Zenon DEF QInv, SwapInv, Queued
<1>c. PosInv'
  BY <1>1, <1>2, <1>6, Zenon DEF QInv, PosInv, SameQueue
<1>d. TailInv'
  BY <1>1, <1>2, <1>6 DEF QInv, TailInv
<1>e. HeadInv'
  BY <1>1, <1>2, <1>6, <1>7, Zenon DEF QInv, HeadInv, SameQueue, Leaving
<1>f. PrevInv'
  <2>1. ASSUME NEW u \in Threads, pc'[u] \in {"readvalid", "release"}
        PROVE  next'[Coh(u)][prev[u]] = u
    <3>1. CASE u = t
      BY <1>4, <1>5, <3>1, Zenon DEF SameQueue
    <3>2. CASE u # t
      <4>1. pc[u] \in {"readvalid", "release"} /\ Queued(u)
            /\ prev[u] \in Threads /\ SameQueue(u, prev[u]) /\ pos[u] = pos[prev[u]] + 1
        BY <1>2, <2>1, <3>2, <1>3, Zenon DEF QInv, TypeOK, PrevInv, Queued, Linking
      <4>2. prev[u] # prev[t]
        BY <1>4, <1>8, <3>2, <4>1, Zenon DEF SameQueue
      <4> QED
        BY <1>2, <1>5, <4>1, <4>2 DEF QInv, PrevInv, SameQueue
    <3> QED BY <3>1, <3>2, Zenon
  <2>2. ASSUME NEW u \in Threads, Queued(u), prev[u] # None, granted[Coh(u)][u] = kFalse
        PROVE  /\ prev[u] \in Threads /\ Queued(prev[u]) /\ SameQueue(u, prev[u])
               /\ pos[u] = pos[prev[u]] + 1
    BY <2>2, Zenon DEF QInv, TypeOK, PrevInv
  <2>3. ASSUME NEW u \in Threads
        PROVE  (Queued(u) /\ prev[u] # None /\ granted[Coh(u)][u] = kFalse =>
                  Queued(prev[u]) /\ SameQueue(u, prev[u]) /\ pos[u] = pos[prev[u]] + 1)'
    BY <1>1, <1>2, <1>6, <2>2, Zenon DEF SameQueue
  <2>4. ASSUME NEW u \in Threads
        PROVE  (/\ pc[u] \in Linking \cup {"waitbudget", "gotbudget"} => prev[u] # None
                /\ pc[u] \in Linking => granted[Coh(u)][u] = kFalse)'
    BY <1>1, <1>2, <1>3, <1>4, <1>7, Zenon DEF QInv, PrevInv, Linking
  <2> QED
    BY <1>1, <1>2, <2>1, <2>3, <2>4, Zenon DEF PrevInv
<1>g. NextInv'
  <2> SUFFICES ASSUME NEW u \in Threads, Queued(u)
               PROVE  /\ \A v \in Threads : next'[Coh(u)][u] = v =>
                          /\ Queued(v) /\ SameQueue(u, v) /\ prev[v] = u /\ pos[v] = pos[u] + 1
                          /\ pc'[v] # "link" /\ granted[Coh(u)][v] = kFalse
                      /\ pc'[u] \in Succeeded => next'[Coh(u)][u] # None
    BY <1>1, <1>2, <1>6 DEF NextInv, SameQueue
  <2>1. CASE u = prev[t]
    BY <1>1, <1>2, <1>3, <1>4, <1>5, <1>7, <2>1 DEF SameQueue
  <2>2. CASE u # prev[t]
    BY <1>1, <1>2, <1>5, <1>7, <2>2 DEF QInv, NextInv, Succeeded
  <2> QED BY <2>1, <2>2, Zenon
<1>h. ReleaseInv'
  <2> SUFFICES ASSUME NEW u \in Threads, Queued(u)
               PROVE  /\ releasable[Coh(u)][u] = kTrue =>
                          next'[Coh(u)][u] # None /\ pc'[next'[Coh(u)][u]] \notin Linking
                      /\ pc'[u] = "grant" => releasable[Coh(u)][u] = kTrue
    BY <1>1, <1>2, <1>6, Zenon DEF ReleaseInv
  <2>1. CASE u = prev[t]
    <3>1. releasable[Coh(u)][u] # kTrue
      <4> SUFFICES ASSUME releasable[Coh(u)][u] = kTrue PROVE FALSE
        OBVIOUS
      <4>1. PICK v \in Threads : v = next[Coh(u)][u]
        BY <1>2 DEF QInv, TypeOK, ReleaseInv
      <4>2. Queued(v) /\ SameQueue(u, v) /\ pos[v] = pos[u] + 1 /\ pc[v] # "link"
        BY <4>1, Zenon DEF QInv, NextInv
      <4> QED
        BY <1>1, <1>4, <1>8, <2>1, <4>2, Zenon DEF SameQueue
    <3> QED
      BY <1>1, <1>2, <1>4, <1>7, <2>1, <3>1, Zenon DEF QInv, ReleaseInv
  <2>2. CASE u # prev[t]
    BY <1>1, <1>2, <1>3, <1>5, <1>7, <2>2 DEF QInv, TypeOK, ReleaseInv, Linking
  <2> QED BY <2>1, <2>2, Zenon
<1> QED
  BY <1>y, <1>a, <1>b, <1>c, <1>d, <1>e, <1>f, <1>g, <1>h, Zenon DEF QInv

\* prev->releasable_ is written by the linked successor, its last access to prev.
LEMMA ReleasePrevQInv ==
  ASSUME QInv, NEW t \in Threads, ReleasePrev(t)
  PROVE  QInv'
<1>1. /\ lk[t] \in Locks /\ Coh(t) \in Cohorts /\ pc[t] = "release"
      /\ releasable' = [releasable EXCEPT ![Coh(t)][prev[t]] = kTrue]
      /\ pc' = [pc EXCEPT ![t] = IF tk[t] # kTrue THEN "waitbudget" ELSE "setbudget"]
      /\ tk' = [tk EXCEPT ![t] = 0]
      /\ UNCHANGED <<tail, flag, victim, next_ticket, current_ticket, next, ticket_valid,
                     batch_ticket, budget, granted, lk, prev, from_prev, vbuf, ops, arrivals, pos,
                     uses, seen>>
  BY CohType, Zenon DEF ReleasePrev, Goto, QInv, LkInv, lockVars, history
<1>2. \A u \in Threads : Coh(u)' = Coh(u) /\ Coh(u) \in Cohorts /\ (u # t => pc'[u] = pc[u])
  BY <1>1, CohStable, CohType, Zenon DEF QInv, TypeOK
<1>3. None \notin Threads
  BY NoneAssumption, Zenon
<1>4. /\ prev[t] \in Threads /\ Queued(prev[t]) /\ SameQueue(t, prev[t]) /\ Queued(t)
      /\ pos[t] = pos[prev[t]] + 1 /\ prev[t] # None /\ next[Coh(t)][prev[t]] = t
  BY <1>1, <1>3, Zenon DEF QInv, TypeOK, PrevInv, Queued, Linking
<1>5. \A u \in Threads : releasable'[Coh(u)][u] = IF u = prev[t] THEN kTrue ELSE releasable[Coh(u)][u]
  BY <1>1, <1>2, <1>4, Zenon DEF QInv, TypeOK, SameQueue
<1>6. \A u \in Threads : Queued(u)' <=> Queued(u)
  BY <1>1, <1>2, Zenon DEF Queued, QInv, TypeOK
<1>7. pc'[t] \in {"waitbudget", "setbudget"}
  BY <1>1, Zenon DEF QInv, TypeOK
<1>y. TypeOK'
  BY <1>1, Zenon DEF QInv, TypeOK, PCs, Arriving, Bit
<1>a. LkInv'
  BY <1>1, <1>2, <1>3, Zenon DEF QInv, TypeOK, LkInv
<1>b. SwapInv'
  BY <1>1, <1>2, <1>4, <1>5, <1>7, Zenon DEF QInv, SwapInv, Queued
<1>c. PosInv'
  BY <1>1, <1>2, <1>6, Zenon DEF QInv, PosInv, SameQueue
<1>d. TailInv'
  BY <1>1, <1>2, <1>6 DEF QInv, TailInv
<1>e. HeadInv'
  BY <1>1, <1>2, <1>6, <1>7 DEF QInv, HeadInv, SameQueue, Leaving
<1>f. PrevInv'
  <2>2. ASSUME NEW u \in Threads, Queued(u), prev[u] # None, granted[Coh(u)][u] = kFalse
        PROVE  /\ prev[u] \in Threads /\ Queued(prev[u]) /\ SameQueue(u, prev[u])
               /\ pos[u] = pos[prev[u]] + 1
    BY <2>2, Zenon DEF QInv, TypeOK, PrevInv
  <2>3. ASSUME NEW u \in Threads
        PROVE  (Queued(u) /\ prev[u] # None /\ granted[Coh(u)][u] = kFalse =>
                  Queued(prev[u]) /\ SameQueue(u, prev[u]) /\ pos[u] = pos[prev[u]] + 1)'
    BY <1>1, <1>2, <1>6, <2>2, Zenon DEF SameQueue
  <2>4. ASSUME NEW u \in Threads
        PROVE  (/\ pc[u] \in Linking \cup {"waitbudget", "gotbudget"} => prev[u] # None
                /\ pc[u] \in Linking => granted[Coh(u)][u] = kFalse
                /\ pc[u] \in {"readvalid", "release"} => next[Coh(u)][prev[u]] = u)'
    BY <1>1, <1>2, <1>3, <1>4, <1>7, Zenon DEF QInv, PrevInv, Linking
  <2> QED
    BY <2>3, <2>4, Zenon DEF PrevInv
<1>g. NextInv'
  <2> SUFFICES ASSUME NEW u \in Threads, Queued(u)
               PROVE  /\ \A v \in Threads : next[Coh(u)][u] = v =>
                          /\ Queued(v) /\ SameQueue(u, v) /\ prev[v] = u /\ pos[v] = pos[u] + 1
                          /\ pc'[v] # "link" /\ granted[Coh(u)][v] = kFalse
                      /\ pc'[u] \in Succeeded => next[Coh(u)][u] # None
    BY <1>1, <1>2, <1>6 DEF NextInv, SameQueue
  <2> QED
    BY <1>2, <1>7 DEF QInv, NextInv, Succeeded
<1>h. ReleaseInv'
  <2> SUFFICES ASSUME NEW u \in Threads, Queued(u)
               PROVE  /\ releasable'[Coh(u)][u] = kTrue =>
                          next[Coh(u)][u] # None /\ pc'[next[Coh(u)][u]] \notin Linking
                      /\ pc'[u] = "grant" => releasable'[Coh(u)][u] = kTrue
    BY <1>1, <1>2, <1>6, Zenon DEF ReleaseInv
  <2>1. CASE u = prev[t]
    BY <1>1, <1>2, <1>3, <1>4, <1>5, <1>7, <2>1, Zenon DEF SameQueue, Linking
  <2>2. CASE u # prev[t]
    BY <1>1, <1>2, <1>3, <1>5, <1>7, <2>2 DEF QInv, TypeOK, ReleaseInv, Linking
  <2> QED BY <2>1, <2>2, Zenon
<1> QED
  BY <1>y, <1>a, <1>b, <1>c, <1>d, <1>e, <1>f, <1>g, <1>h, Zenon DEF QInv

-----------------------------------------------------------------------------
(***************************************************************************)
(* The steps that leave a queue.                                           *)
(***************************************************************************)
\* A thread whose Unlock returns was the first of its queue, so no one's
\* successor.
LEMMA LeaveQ ==
  ASSUME QInv, NEW t \in Threads, pc[t] \in Leaving,
         pc' = [pc EXCEPT ![t] = "idle"], Return(t),
         UNCHANGED <<next, releasable, arrivals, pos>>
  PROVE  /\ \A u \in Threads : u # t =>
              /\ pc'[u] = pc[u] /\ lk'[u] = lk[u] /\ prev'[u] = prev[u] /\ Coh(u)' = Coh(u)
              /\ Queued(u)' <=> Queued(u)
         /\ Queued(t) /\ ~Queued(t)' /\ pc'[t] = "idle" /\ lk'[t] = None
         /\ \A u \in Threads : Queued(u) /\ SameQueue(t, u) => pos[t] <= pos[u]
         /\ \A u \in Threads : Queued(u) => next[Coh(u)][u] # t
         /\ LkInv' /\ PosInv' /\ ReleaseInv'
<1>1. \A u \in Threads : u # t =>
        /\ pc'[u] = pc[u] /\ lk'[u] = lk[u] /\ prev'[u] = prev[u] /\ Coh(u)' = Coh(u)
        /\ Queued(u)' <=> Queued(u)
  BY CohStable, Zenon DEF Return, QInv, TypeOK, Queued
<1>2. Queued(t) /\ ~Queued(t)' /\ pc'[t] = "idle" /\ lk'[t] = None
  BY Zenon DEF Return, QInv, TypeOK, Queued, Leaving
<1>3. \A u \in Threads : Queued(u) /\ SameQueue(t, u) => pos[t] <= pos[u]
  BY <1>2, Zenon DEF QInv, HeadInv
<1>4. \A u \in Threads : Queued(u) => next[Coh(u)][u] # t
  <2> SUFFICES ASSUME NEW u \in Threads, Queued(u), next[Coh(u)][u] = t PROVE FALSE
    OBVIOUS
  <2>1. SameQueue(t, u) /\ pos[t] = pos[u] + 1
    BY Zenon DEF QInv, NextInv, SameQueue
  <2>2. pos[t] \in Nat /\ pos[u] \in Nat
    BY Zenon DEF QInv, TypeOK
  <2> QED
    BY <1>3, <2>1, <2>2
<1>5. LkInv'
  BY <1>1, <1>2, NoneAssumption, Zenon DEF QInv, LkInv
<1>6. PosInv'
  BY <1>1, <1>2, Zenon DEF QInv, PosInv, SameQueue
<1>7. ReleaseInv'
  <2> SUFFICES ASSUME NEW u \in Threads, Queued(u)'
               PROVE  (/\ releasable[Coh(u)][u] = kTrue =>
                           next[Coh(u)][u] # None /\ pc[next[Coh(u)][u]] \notin Linking
                       /\ pc[u] = "grant" => releasable[Coh(u)][u] = kTrue)'
    BY Zenon DEF ReleaseInv
  <2>1. u # t /\ Queued(u) /\ pc'[u] = pc[u] /\ Coh(u)' = Coh(u)
    BY <1>1, <1>2, Zenon
  <2>2. next[Coh(u)][u] \in Threads \cup {None}
    BY CohType DEF QInv, TypeOK
  <2> QED
    BY <1>1, <1>4, <2>1, <2>2, Zenon DEF QInv, ReleaseInv
<1> QED
  BY <1>1, <1>2, <1>3, <1>4, <1>5, <1>6, <1>7, Zenon

\* The compare-and-swap succeeds only for a thread that is alone in its queue.
LEMMA CasTailQInv ==
  ASSUME QInv, NEW t \in Threads, CasTail(t), tail[lk[t]][Coh(t)] = t
  PROVE  QInv'
<1>1. /\ lk[t] \in Locks /\ Coh(t) \in Cohorts /\ pc[t] = "cas" /\ Return(t)
      /\ pc' = [pc EXCEPT ![t] = "idle"] /\ tail' = [tail EXCEPT ![lk[t]][Coh(t)] = None]
      /\ UNCHANGED <<flag, victim, next_ticket, current_ticket, next, ticket_valid, batch_ticket,
                     budget, granted, releasable, vbuf, ops, arrivals, pos, uses, seen>>
  BY CohType, Zenon DEF CasTail, Goto, QInv, LkInv, descVars, history
<1>y. TypeOK'
  BY <1>1, Zenon DEF QInv, TypeOK, PCs, Return
<1>2. /\ \A u \in Threads : u # t =>
           /\ pc'[u] = pc[u] /\ lk'[u] = lk[u] /\ prev'[u] = prev[u] /\ Coh(u)' = Coh(u)
           /\ Queued(u)' <=> Queued(u)
      /\ Queued(t) /\ ~Queued(t)' /\ pc'[t] = "idle" /\ lk'[t] = None
      /\ \A u \in Threads : Queued(u) /\ SameQueue(t, u) => pos[t] <= pos[u]
      /\ \A u \in Threads : Queued(u) => next[Coh(u)][u] # t
      /\ LkInv' /\ PosInv' /\ ReleaseInv'
  BY <1>1, LeaveQ, Zenon DEF Leaving
<1>3. \A u \in Threads : Coh(u) \in Cohorts /\ pos[u] \in Nat
  BY CohType, Zenon DEF QInv, TypeOK
<1>4. \A u \in Threads : Queued(u) /\ SameQueue(t, u) => u = t
  <2> SUFFICES ASSUME NEW u \in Threads, Queued(u), SameQueue(t, u) PROVE u = t
    OBVIOUS
  <2>1. pos[t] + 1 = arrivals[lk[t]][Coh(t)]
    BY <1>1 DEF QInv, TailInv
  <2>2. pos[t] <= pos[u] /\ pos[u] < pos[t] + 1
    BY <1>2, <2>1 DEF QInv, PosInv, SameQueue
  <2>3. pos[u] = pos[t]
    BY <1>3, <2>2
  <2> QED
    BY <1>2, <2>3, Zenon DEF QInv, PosInv
<1>5. \A m \in Locks, d \in Cohorts :
        tail'[m][d] = IF m = lk[t] /\ d = Coh(t) THEN None ELSE tail[m][d]
  BY <1>1, Zenon DEF QInv, TypeOK
<1>b. SwapInv'
  BY <1>1, <1>2, Zenon DEF QInv, SwapInv
<1>d. TailInv'
  <2> SUFFICES ASSUME NEW m \in Locks, NEW d \in Cohorts
               PROVE  /\ \A u \in Threads : tail'[m][d] = u =>
                           Queued(u)' /\ lk'[u] = m /\ Coh(u)' = d /\ pos'[u] + 1 = arrivals'[m][d]
                      /\ tail'[m][d] = None =>
                           \A u \in Threads : ~(Queued(u)' /\ lk'[u] = m /\ Coh(u)' = d)
    BY Zenon DEF TailInv
  <2>1. CASE m = lk[t] /\ d = Coh(t)
    BY <1>2, <1>4, <1>5, <2>1, NoneAssumption DEF SameQueue
  <2>2. CASE ~(m = lk[t] /\ d = Coh(t))
    BY <1>1, <1>2, <1>5, <2>2 DEF QInv, TailInv
  <2> QED BY <2>1, <2>2, Zenon
<1>e. HeadInv'
  <2>1. "idle" \notin {"waitturn", "cs"} \cup Leaving
    BY Zenon DEF Leaving
  <2> QED
    BY <1>1, <1>2, <2>1 DEF QInv, HeadInv, SameQueue
<1>f. PrevInv'
  <2>1. ASSUME NEW u \in Threads, u # t, Queued(u), prev[u] # None, granted[Coh(u)][u] = kFalse
        PROVE  /\ prev[u] \in Threads \ {t} /\ Queued(prev[u]) /\ SameQueue(u, prev[u])
               /\ pos[u] = pos[prev[u]] + 1
    BY <1>4, <2>1 DEF QInv, TypeOK, PrevInv, SameQueue
  <2>2. ASSUME NEW u \in Threads
        PROVE  (Queued(u) /\ prev[u] # None /\ granted[Coh(u)][u] = kFalse =>
                  Queued(prev[u]) /\ SameQueue(u, prev[u]) /\ pos[u] = pos[prev[u]] + 1)'
    BY <1>1, <1>2, <2>1 DEF SameQueue
  <2>3. ASSUME NEW u \in Threads
        PROVE  (/\ pc[u] \in Linking \cup {"waitbudget", "gotbudget"} => prev[u] # None
                /\ pc[u] \in Linking => granted[Coh(u)][u] = kFalse
                /\ pc[u] \in {"readvalid", "release"} => next[Coh(u)][prev[u]] = u)'
    BY <1>1, <1>2, Zenon DEF QInv, PrevInv, Linking
  <2> QED
    BY <2>2, <2>3, Zenon DEF PrevInv
<1>g. NextInv'
  <2>1. ASSUME NEW u \in Threads, Queued(u)', NEW v \in Threads, next[Coh(u)][u] = v
        PROVE  u # t /\ v # t /\ Queued(u) /\ Queued(v) /\ SameQueue(u, v) /\ prev[v] = u
               /\ pos[v] = pos[u] + 1 /\ pc[v] # "link" /\ granted[Coh(u)][v] = kFalse
    BY <1>2, <2>1 DEF QInv, NextInv
  <2>2. ASSUME NEW u \in Threads, Queued(u)', pc'[u] \in Succeeded PROVE next[Coh(u)][u] # None
    BY <1>2, <2>2, Zenon DEF QInv, NextInv
  <2> QED
    BY <1>1, <1>2, <2>1, <2>2 DEF NextInv, SameQueue
<1> QED
  BY <1>y, <1>2, <1>b, <1>d, <1>e, <1>f, <1>g, Zenon DEF QInv

\* Granting hands the front of the queue to the immediate successor.
LEMMA GrantNextQInv ==
  ASSUME QInv, NEW t \in Threads, GrantNext(t)
  PROVE  QInv'
<1>1. /\ lk[t] \in Locks /\ Coh(t) \in Cohorts /\ pc[t] = "grant" /\ Return(t)
      /\ pc' = [pc EXCEPT ![t] = "idle"]
      /\ granted' = [granted EXCEPT ![Coh(t)][next[Coh(t)][t]] = kTrue]
      /\ UNCHANGED <<tail, flag, victim, next_ticket, current_ticket, next, ticket_valid,
                     batch_ticket, budget, releasable, vbuf, ops, arrivals, pos, uses, seen>>
  BY CohType, Zenon DEF GrantNext, Goto, QInv, LkInv, lockVars, history
<1>y. TypeOK'
  BY <1>1, Zenon DEF QInv, TypeOK, PCs, Bit, Return
<1>2. /\ \A u \in Threads : u # t =>
           /\ pc'[u] = pc[u] /\ lk'[u] = lk[u] /\ prev'[u] = prev[u] /\ Coh(u)' = Coh(u)
           /\ Queued(u)' <=> Queued(u)
      /\ Queued(t) /\ ~Queued(t)' /\ pc'[t] = "idle" /\ lk'[t] = None
      /\ \A u \in Threads : Queued(u) /\ SameQueue(t, u) => pos[t] <= pos[u]
      /\ \A u \in Threads : Queued(u) => next[Coh(u)][u] # t
      /\ LkInv' /\ PosInv' /\ ReleaseInv'
  BY <1>1, LeaveQ, Zenon DEF Leaving
<1>3. \A u \in Threads : Coh(u) \in Cohorts /\ pos[u] \in Nat
  BY CohType, Zenon DEF QInv, TypeOK
<1>4. PICK n \in Threads : n = next[Coh(t)][t] /\ pc[n] \notin Linking
  BY <1>1, <1>2 DEF QInv, TypeOK, ReleaseInv
<1>5. n # t /\ Queued(n) /\ SameQueue(t, n) /\ prev[n] = t /\ pos[n] = pos[t] + 1
  BY <1>2, <1>4, Zenon DEF QInv, NextInv
<1>6. \A u \in Threads : granted'[Coh(u)][u] = IF u = n THEN kTrue ELSE granted[Coh(u)][u]
  BY <1>1, <1>3, <1>4, <1>5, Zenon DEF QInv, TypeOK, SameQueue
\* The successor becomes the first of the queue.
<1>7. \A u \in Threads : u # t /\ Queued(u) /\ SameQueue(t, u) => pos[n] <= pos[u]
  <2> SUFFICES ASSUME NEW u \in Threads, u # t, Queued(u), SameQueue(t, u) PROVE pos[n] <= pos[u]
    OBVIOUS
  <2>1. pos[u] # pos[t] /\ pos[t] <= pos[u]
    BY <1>2, Zenon DEF QInv, PosInv
  <2> QED
    BY <1>3, <1>5, <2>1
<1>9. None \notin Threads /\ kTrue # kFalse
  BY NoneAssumption DEF kTrue, kFalse
<1>b. SwapInv'
  <2>1. pc[n] # "swap"
    BY <1>5, Zenon DEF Queued
  <2> QED
    BY <1>1, <1>2, <1>6, <2>1 DEF QInv, SwapInv
<1>d. TailInv'
  <2>1. \A m \in Locks, d \in Cohorts : tail[m][d] # t
    <3> SUFFICES ASSUME NEW m \in Locks, NEW d \in Cohorts, tail[m][d] = t PROVE FALSE
      OBVIOUS
    <3>1. pos[t] + 1 = arrivals[lk[t]][Coh(t)]
      BY DEF QInv, TailInv
    <3>2. pos[n] < arrivals[lk[t]][Coh(t)]
      BY <1>5, Zenon DEF QInv, PosInv, SameQueue
    <3> QED
      BY <1>3, <1>5, <3>1, <3>2
  <2> QED
    BY <1>1, <1>2, <2>1 DEF QInv, TailInv
<1>e. HeadInv'
  <2> SUFFICES ASSUME NEW u \in Threads
               PROVE  (/\ Queued(u) /\ (prev[u] = None \/ granted[Coh(u)][u] = kTrue) =>
                            \A v \in Threads : Queued(v) /\ SameQueue(u, v) => pos[u] <= pos[v]
                       /\ pc[u] \in {"waitturn", "cs"} \cup Leaving =>
                            prev[u] = None \/ granted[Coh(u)][u] = kTrue)'
    BY Zenon DEF HeadInv
  <2>1. CASE u = t
    BY <1>2, <2>1, Zenon DEF Leaving
  <2>2. CASE u = n
    BY <1>1, <1>2, <1>5, <1>6, <1>7, <2>2 DEF SameQueue
  <2>3. CASE u # t /\ u # n
    BY <1>1, <1>2, <1>6, <2>3 DEF QInv, HeadInv, SameQueue
  <2> QED BY <2>1, <2>2, <2>3, Zenon
<1>f. PrevInv'
  <2>1. ASSUME NEW u \in Threads, u # t, u # n, Queued(u), prev[u] # None, granted[Coh(u)][u] = kFalse
        PROVE  /\ prev[u] \in Threads \ {t} /\ Queued(prev[u]) /\ SameQueue(u, prev[u])
               /\ pos[u] = pos[prev[u]] + 1
    <3>1. prev[u] \in Threads /\ Queued(prev[u]) /\ SameQueue(u, prev[u]) /\ pos[u] = pos[prev[u]] + 1
      BY <2>1, Zenon DEF QInv, TypeOK, PrevInv
    <3>2. prev[u] # t
      BY <1>5, <2>1, <3>1, Zenon DEF QInv, PosInv, SameQueue
    <3> QED BY <3>1, <3>2, Zenon
  <2>2. ASSUME NEW u \in Threads
        PROVE  (Queued(u) /\ prev[u] # None /\ granted[Coh(u)][u] = kFalse =>
                  Queued(prev[u]) /\ SameQueue(u, prev[u]) /\ pos[u] = pos[prev[u]] + 1)'
    BY <1>1, <1>2, <1>6, <1>9, <2>1 DEF SameQueue
  <2>3. ASSUME NEW u \in Threads
        PROVE  (/\ pc[u] \in Linking \cup {"waitbudget", "gotbudget"} => prev[u] # None
                /\ pc[u] \in Linking => granted[Coh(u)][u] = kFalse
                /\ pc[u] \in {"readvalid", "release"} => next[Coh(u)][prev[u]] = u)'
    BY <1>1, <1>2, <1>4, <1>6, Zenon DEF QInv, PrevInv, Linking
  <2> QED
    BY <2>2, <2>3, Zenon DEF PrevInv
<1>g. NextInv'
  <2>1. ASSUME NEW u \in Threads, Queued(u)', NEW v \in Threads, next[Coh(u)][u] = v
        PROVE  u # t /\ v # t /\ v # n /\ Queued(u) /\ Queued(v) /\ SameQueue(u, v) /\ prev[v] = u
               /\ pos[v] = pos[u] + 1 /\ pc[v] # "link" /\ granted[Coh(u)][v] = kFalse
    <3>1. u # t /\ Queued(u)
      BY <1>2, <2>1, Zenon
    <3>2. /\ Queued(v) /\ SameQueue(u, v) /\ prev[v] = u /\ pos[v] = pos[u] + 1
          /\ pc[v] # "link" /\ granted[Coh(u)][v] = kFalse
      BY <2>1, <3>1, Zenon DEF QInv, NextInv
    <3> QED
      BY <1>2, <1>5, <2>1, <3>1, <3>2, Zenon
  <2>2. ASSUME NEW u \in Threads, Queued(u)', pc'[u] \in Succeeded PROVE next[Coh(u)][u] # None
    BY <1>2, <2>2, Zenon DEF QInv, NextInv
  <2>3. \A u, v \in Threads : v # n /\ SameQueue(u, v) => granted'[Coh(u)][v] = granted[Coh(u)][v]
    BY <1>6, Zenon DEF SameQueue
  <2> QED
    BY <1>1, <1>2, <2>1, <2>2, <2>3 DEF NextInv, SameQueue
<1> QED
  BY <1>y, <1>2, <1>b, <1>d, <1>e, <1>f, <1>g, Zenon DEF QInv

-----------------------------------------------------------------------------
(***************************************************************************)
(* All other steps leave the queues alone.                                 *)
(***************************************************************************)
\* The rest of Lock and Unlock moves a thread on at its place in the queue.
LEMMA RestQInv ==
  ASSUME QInv, NEW t \in Threads,
         \/ ReadPrevValid(t) \/ AwaitBudget(t) \/ TakeBatch(t) \/ SetBudget(t)
         \/ RaiseFlag(t) \/ SetVictim(t) \/ SpinLocal(t) \/ SpinRemote(t)
         \/ FetchAddLocal(t) \/ FetchAddRemote(t) \/ CheckNext(t) \/ PassTicket(t)
         \/ PassBudget(t) \/ UnlockPetersons(t) \/ SetValid(t) \/ RecheckNext(t)
         \/ GiveBudget(t) \/ AwaitPredecessor(t) \/ AwaitTicket(t) \/ BumpCurrent(t)
         \/ UnlockCheckNext(t) \/ AwaitReleasable(t)
         \/ (CasTail(t) /\ tail[lk[t]][Coh(t)] # t)
  PROVE  QInv'
<1> USE DEF Goto, lockVars, descVars, threadVars, history, Queued
<1>0. /\ Coh(t) \in Cohorts /\ budget[Coh(t)][t] \in Int /\ batch_ticket[Coh(t)][t] \in Nat
      /\ Budget(Coh(t)) \in Int /\ tk[t] \in Nat
  BY CohType, BudgetAssumption DEF QInv, TypeOK, Budget
<1>a. /\ pc[t] # "idle" => lk[t] \in Locks
      /\ pc[t] = "readvalid" => prev[t] \in Threads
  BY Zenon DEF QInv, TypeOK, LkInv, PrevInv, Linking
<1>b. \A q : Calm(t, q) => pc' \in [Threads -> PCs]
  BY DEF Calm, QInv, TypeOK
<1>1. ASSUME ReadPrevValid(t) PROVE QInv'
  <2>1. Calm(t, "release")
    BY <1>1, Zenon DEF ReadPrevValid, Calm, PCs, QInv, TypeOK, Arriving, Peterson, Leaving,
       Succeeded, Linking
  <2>2. tk' \in [Threads -> Nat]
    <3>1. ticket_valid[Coh(t)][prev[t]] \in Bit /\ tk \in [Threads -> Nat]
      BY <1>0, <1>a, <1>1, Zenon DEF ReadPrevValid, QInv, TypeOK
    <3> QED BY <1>1, <3>1 DEF ReadPrevValid, Bit, kTrue, kFalse
  <2> QED
    <3>1. TypeOK'
      BY <1>1, <1>b, <2>1, <2>2, Zenon DEF ReadPrevValid, QInv, TypeOK
    <3> QED BY <2>1, <3>1, CalmInv, Zenon
<1>2. ASSUME AwaitBudget(t) PROVE QInv'
  <2>1. Calm(t, "gotbudget")
    BY <1>2, Zenon DEF AwaitBudget, Calm, PCs, QInv, TypeOK, Arriving, Peterson, Leaving,
       Succeeded, Linking
  <2> QED
    <3>1. TypeOK'
      BY <1>2, <1>b, <2>1, Zenon DEF AwaitBudget, QInv, TypeOK
    <3> QED BY <2>1, <3>1, CalmInv, Zenon
<1>3. ASSUME TakeBatch(t) PROVE QInv'
  <2>1. Calm(t, "checknext") \/ Calm(t, "setbudget")
    BY <1>3, Zenon DEF TakeBatch, Calm, PCs, QInv, TypeOK, Arriving, Peterson, Leaving,
       Succeeded, Linking
  <2>2. tk' \in [Threads -> Nat]
    BY <1>0, <1>a, <1>3, Zenon DEF TakeBatch, QInv, TypeOK
  <2>3. from_prev' \in [Threads -> BOOLEAN]
    BY <1>0, <1>a, <1>3, Zenon DEF TakeBatch, QInv, TypeOK
  <2> QED
    <3>1. TypeOK'
      BY <1>3, <1>b, <2>1, <2>2, <2>3, Zenon DEF TakeBatch, QInv, TypeOK
    <3> QED BY <2>1, <3>1, CalmInv, Zenon
<1>4. ASSUME SetBudget(t) PROVE QInv'
  <2>1. Calm(t, "flag")
    BY <1>4, Zenon DEF SetBudget, Calm, PCs, QInv, TypeOK, Arriving, Peterson, Leaving,
       Succeeded, Linking
  <2>2. budget' \in [Cohorts -> [Threads -> Int]]
    BY <1>0, <1>a, <1>4, Zenon DEF SetBudget, QInv, TypeOK
  <2> QED
    <3>1. TypeOK'
      BY <1>4, <1>b, <2>1, <2>2, Zenon DEF SetBudget, QInv, TypeOK
    <3> QED BY <2>1, <3>1, CalmInv, Zenon
<1>5. ASSUME RaiseFlag(t) PROVE QInv'
  <2>1. Calm(t, "victim")
    BY <1>5, Zenon DEF RaiseFlag, Calm, PCs, QInv, TypeOK, Arriving, Peterson, Leaving,
       Succeeded, Linking
  <2>2. flag' \in [Locks -> [Cohorts -> Bit]]
    BY <1>0, <1>a, <1>5, Zenon DEF RaiseFlag, QInv, TypeOK, Bit
  <2> QED
    <3>1. TypeOK'
      BY <1>5, <1>b, <2>1, <2>2, Zenon DEF RaiseFlag, QInv, TypeOK
    <3> QED BY <2>1, <3>1, CalmInv, Zenon
<1>6. ASSUME SetVictim(t) PROVE QInv'
  <2>1. Calm(t, "spin1")
    BY <1>6, Zenon DEF SetVictim, Calm, PCs, QInv, TypeOK, Arriving, Peterson, Leaving,
       Succeeded, Linking
  <2>2. victim' \in [Locks -> Cohorts \cup {None}]
    BY <1>0, <1>a, <1>6, Zenon DEF SetVictim, QInv, TypeOK
  <2>3. seen' \in [Threads -> Nat]
    BY <1>0, <1>a, <1>6, Zenon DEF SetVictim, QInv, TypeOK
  <2> QED
    <3>1. TypeOK'
      BY <1>6, <1>b, <2>1, <2>2, <2>3, Zenon DEF SetVictim, QInv, TypeOK
    <3> QED BY <2>1, <3>1, CalmInv, Zenon
<1>7. ASSUME SpinLocal(t) PROVE QInv'
  <2>1. Calm(t, "spin1") \/ Calm(t, "spin2") \/ Calm(t, "faa")
    BY <1>7, Zenon DEF SpinLocal, Calm, PCs, QInv, TypeOK, Arriving, Peterson, Leaving,
       Succeeded, Linking
  <2> QED
    <3>1. TypeOK'
      BY <1>7, <1>b, <2>1, Zenon DEF SpinLocal, QInv, TypeOK
    <3> QED BY <2>1, <3>1, CalmInv, Zenon
<1>8. ASSUME SpinRemote(t) PROVE QInv'
  <2>1. Calm(t, "spin1") \/ Calm(t, "spin2") \/ Calm(t, "faa")
    BY <1>8, Zenon DEF SpinRemote, Calm, PCs, QInv, TypeOK, Arriving, Peterson, Leaving,
       Succeeded, Linking
  <2>2. vbuf' \in [Threads -> Cohorts \cup {None}]
    <3>1. victim[lk[t]] \in Cohorts \cup {None} /\ vbuf \in [Threads -> Cohorts \cup {None}]
      BY <1>0, <1>a, <1>8, Zenon DEF SpinRemote, QInv, TypeOK
    <3> QED BY <1>8, <3>1, Zenon DEF SpinRemote
  <2> QED
    <3>1. TypeOK'
      BY <1>8, <1>b, <2>1, <2>2, Zenon DEF SpinRemote, QInv, TypeOK
    <3> QED BY <2>1, <3>1, CalmInv, Zenon
<1>9. ASSUME FetchAddLocal(t) PROVE QInv'
  <2>1. Calm(t, "checknext")
    BY <1>9, Zenon DEF FetchAddLocal, Calm, PCs, QInv, TypeOK, Arriving, Peterson, Leaving,
       Succeeded, Linking
  <2>2. tk' \in [Threads -> Nat]
    BY <1>0, <1>a, <1>9, Zenon DEF FetchAddLocal, QInv, TypeOK
  <2>3. next_ticket' \in [Locks -> Nat]
    BY <1>0, <1>a, <1>9 DEF FetchAddLocal, QInv, TypeOK
  <2> QED
    <3>1. TypeOK'
      BY <1>9, <1>b, <2>1, <2>2, <2>3, Zenon DEF FetchAddLocal, QInv, TypeOK
    <3> QED BY <2>1, <3>1, CalmInv, Zenon
<1>10. ASSUME FetchAddRemote(t) PROVE QInv'
  <2>1. Calm(t, "faawrite") \/ Calm(t, "checknext")
    BY <1>10, Zenon DEF FetchAddRemote, Calm, PCs, QInv, TypeOK, Arriving, Peterson, Leaving,
       Succeeded, Linking
  <2>2. tk' \in [Threads -> Nat]
    <3>1. next_ticket[lk[t]] \in Nat /\ tk \in [Threads -> Nat]
      BY <1>0, <1>a, <1>10, Zenon DEF FetchAddRemote, QInv, TypeOK
    <3> QED BY <1>10, <3>1, Zenon DEF FetchAddRemote
  <2>3. next_ticket' \in [Locks -> Nat]
    <3>1. tk[t] + 1 \in Nat /\ next_ticket \in [Locks -> Nat]
      BY <1>0, <1>a, <1>10 DEF FetchAddRemote, QInv, TypeOK
    <3> QED BY <1>10, <3>1, Zenon DEF FetchAddRemote
  <2> QED
    <3>1. TypeOK'
      BY <1>10, <1>b, <2>1, <2>2, <2>3, Zenon DEF FetchAddRemote, QInv, TypeOK
    <3> QED BY <2>1, <3>1, CalmInv, Zenon
<1>11. ASSUME CheckNext(t) PROVE QInv'
  <2>1. Calm(t, "clear") \/ Calm(t, "clearlast") \/ Calm(t, "passticket")
    BY <1>11, Zenon DEF CheckNext, Calm, PCs, QInv, TypeOK, Arriving, Peterson, Leaving,
       Succeeded, Linking
  <2> QED
    <3>1. TypeOK'
      BY <1>11, <1>b, <2>1, Zenon DEF CheckNext, QInv, TypeOK
    <3> QED BY <2>1, <3>1, CalmInv, Zenon
<1>12. ASSUME PassTicket(t) PROVE QInv'
  <2>1. Calm(t, "passbudget")
    BY <1>12, Zenon DEF PassTicket, Calm, PCs, QInv, TypeOK, Arriving, Peterson, Leaving,
       Succeeded, Linking, NextInv
  <2>2. batch_ticket' \in [Cohorts -> [Threads -> Nat]]
    BY <1>0, <1>a, <1>12, Zenon DEF PassTicket, QInv, TypeOK
  <2> QED
    <3>1. TypeOK'
      BY <1>12, <1>b, <2>1, <2>2, Zenon DEF PassTicket, QInv, TypeOK
    <3> QED BY <2>1, <3>1, CalmInv, Zenon
<1>13. ASSUME PassBudget(t) PROVE QInv'
  <2>1. Calm(t, "waitgrant") \/ Calm(t, "waitturn")
    BY <1>13, Zenon DEF PassBudget, Calm, PCs, QInv, TypeOK, Arriving, Peterson, Leaving,
       Succeeded, Linking, AfterTicket
  <2>2. budget' \in [Cohorts -> [Threads -> Int]]
    <3>1. budget \in [Cohorts -> [Threads -> Int]] /\ budget[Coh(t)][t] - 1 \in Int
      BY <1>0 DEF QInv, TypeOK
    <3> QED BY <1>13, <3>1, Zenon DEF PassBudget
  <2> QED
    <3>1. TypeOK'
      BY <1>13, <1>b, <2>1, <2>2, Zenon DEF PassBudget, QInv, TypeOK
    <3> QED BY <2>1, <3>1, CalmInv, Zenon
<1>14. ASSUME UnlockPetersons(t) PROVE QInv'
  <2>1. Calm(t, "valid") \/ Calm(t, "validlast")
    BY <1>14, Zenon DEF UnlockPetersons, Calm, PCs, QInv, TypeOK, Arriving, Peterson, Leaving,
       Succeeded, Linking, NextInv
  <2>2. flag' \in [Locks -> [Cohorts -> Bit]]
    BY <1>0, <1>a, <1>14, Zenon DEF UnlockPetersons, QInv, TypeOK, Bit
  <2> QED
    <3>1. TypeOK'
      BY <1>14, <1>b, <2>1, <2>2, Zenon DEF UnlockPetersons, QInv, TypeOK
    <3> QED BY <2>1, <3>1, CalmInv, Zenon
<1>15. ASSUME SetValid(t) PROVE QInv'
  <2>1. Calm(t, "recheck") \/ Calm(t, "give")
    BY <1>15, Zenon DEF SetValid, Calm, PCs, QInv, TypeOK, Arriving, Peterson, Leaving,
       Succeeded, Linking, NextInv
  <2>2. ticket_valid' \in [Cohorts -> [Threads -> Bit]]
    BY <1>0, <1>a, <1>15, Zenon DEF SetValid, QInv, TypeOK, Bit
  <2> QED
    <3>1. TypeOK'
      BY <1>15, <1>b, <2>1, <2>2, Zenon DEF SetValid, QInv, TypeOK
    <3> QED BY <2>1, <3>1, CalmInv, Zenon
<1>16. ASSUME RecheckNext(t) PROVE QInv'
  <2>1. Calm(t, "give") \/ Calm(t, "waitgrant") \/ Calm(t, "waitturn")
    BY <1>16, Zenon DEF RecheckNext, Calm, PCs, QInv, TypeOK, Arriving, Peterson, Leaving,
       Succeeded, Linking, AfterTicket
  <2> QED
    <3>1. TypeOK'
      BY <1>16, <1>b, <2>1, Zenon DEF RecheckNext, QInv, TypeOK
    <3> QED BY <2>1, <3>1, CalmInv, Zenon
<1>17. ASSUME GiveBudget(t) PROVE QInv'
  <2>1. Calm(t, "waitgrant") \/ Calm(t, "waitturn")
    BY <1>17, Zenon DEF GiveBudget, Calm, PCs, QInv, TypeOK, Arriving, Peterson, Leaving,
       Succeeded, Linking, AfterTicket
  <2>2. budget' \in [Cohorts -> [Threads -> Int]]
    BY <1>0, <1>a, <1>17, Zenon DEF GiveBudget, QInv, TypeOK
  <2> QED
    <3>1. TypeOK'
      BY <1>17, <1>b, <2>1, <2>2, Zenon DEF GiveBudget, QInv, TypeOK
    <3> QED BY <2>1, <3>1, CalmInv, Zenon
<1>18. ASSUME AwaitPredecessor(t) PROVE QInv'
  <2>1. Calm(t, "cs") \/ Calm(t, "waitturn")
    BY <1>18, Zenon DEF AwaitPredecessor, Calm, PCs, QInv, TypeOK, Arriving, Peterson, Leaving,
       Succeeded, Linking
  <2>2. uses' \in [Locks -> Nat]
    BY <1>0, <1>a, <1>18 DEF AwaitPredecessor, QInv, TypeOK
  <2> QED
    <3>1. TypeOK'
      BY <1>18, <1>b, <2>1, <2>2, Zenon DEF AwaitPredecessor, QInv, TypeOK
    <3> QED BY <2>1, <3>1, CalmInv, Zenon
<1>19. ASSUME AwaitTicket(t) PROVE QInv'
  <2>1. Calm(t, "cs")
    BY <1>19, Zenon DEF AwaitTicket, Calm, PCs, QInv, TypeOK, Arriving, Peterson, Leaving,
       Succeeded, Linking, HeadInv
  <2>2. batch_ticket' \in [Cohorts -> [Threads -> Nat]]
    BY <1>0, <1>a, <1>19, Zenon DEF AwaitTicket, QInv, TypeOK
  <2>3. uses' \in [Locks -> Nat]
    BY <1>0, <1>a, <1>19 DEF AwaitTicket, QInv, TypeOK
  <2> QED
    <3>1. TypeOK'
      BY <1>19, <1>b, <2>1, <2>2, <2>3, Zenon DEF AwaitTicket, QInv, TypeOK
    <3> QED BY <2>1, <3>1, CalmInv, Zenon
<1>20. ASSUME BumpCurrent(t) PROVE QInv'
  <2>1. Calm(t, "ulnext")
    BY <1>20, Zenon DEF BumpCurrent, Calm, PCs, QInv, TypeOK, Arriving, Peterson, Leaving,
       Succeeded, Linking, HeadInv
  <2>2. current_ticket' \in [Locks -> Nat]
    BY <1>0, <1>a, <1>20 DEF BumpCurrent, QInv, TypeOK
  <2>3. uses' \in [Locks -> Nat]
    BY <1>0, <1>a, <1>20, Zenon DEF BumpCurrent, QInv, TypeOK
  <2> QED
    <3>1. TypeOK'
      BY <1>20, <1>b, <2>1, <2>2, <2>3, Zenon DEF BumpCurrent, QInv, TypeOK
    <3> QED BY <2>1, <3>1, CalmInv, Zenon
<1>21. ASSUME UnlockCheckNext(t) PROVE QInv'
  <2>1. Calm(t, "cas") \/ Calm(t, "waitrel")
    BY <1>21, Zenon DEF UnlockCheckNext, Calm, PCs, QInv, TypeOK, Arriving, Peterson, Leaving,
       Succeeded, Linking, HeadInv
  <2> QED
    <3>1. TypeOK'
      BY <1>21, <1>b, <2>1, Zenon DEF UnlockCheckNext, QInv, TypeOK
    <3> QED BY <2>1, <3>1, CalmInv, Zenon
<1>22. ASSUME AwaitReleasable(t) PROVE QInv'
  <2>1. Calm(t, "grant")
    BY <1>22, Zenon DEF AwaitReleasable, Calm, PCs, QInv, TypeOK, Arriving, Peterson, Leaving,
       Succeeded, Linking, HeadInv
  <2> QED
    <3>1. TypeOK'
      BY <1>22, <1>b, <2>1, Zenon DEF AwaitReleasable, QInv, TypeOK
    <3> QED BY <2>1, <3>1, CalmInv, Zenon
<1>23. ASSUME CasTail(t), tail[lk[t]][Coh(t)] # t PROVE QInv'
  <2>1. Calm(t, "waitrel")
    BY <1>23, Zenon DEF CasTail, Calm, PCs, QInv, TypeOK, Arriving, Peterson, Leaving,
       Succeeded, Linking, HeadInv
  <2> QED
    <3>1. TypeOK'
      BY <1>23, <1>b, <2>1, Zenon DEF CasTail, QInv, TypeOK
    <3> QED BY <2>1, <3>1, CalmInv, Zenon
<1> QED BY <1>1, <1>2, <1>3, <1>4, <1>5, <1>6, <1>7, <1>8, <1>9, <1>10, <1>11, <1>12,
           <1>13, <1>14, <1>15, <1>16, <1>17, <1>18, <1>19, <1>20, <1>21, <1>22, <1>23, Zenon

\* Every step of Next keeps the queues' invariant.
LEMMA NextQInv == QInv /\ [Next]_vars => QInv'
<1> SUFFICES ASSUME QInv, [Next]_vars PROVE QInv'
  OBVIOUS
<1>1. CASE UNCHANGED vars
  BY <1>1, StutterQInv, Zenon
<1>2. ASSUME NEW t \in Threads, NEW l \in Locks, Lock(t, l) PROVE QInv'
  BY <1>2, LockQInv, Zenon
<1>3. ASSUME NEW t \in Threads, LockLocal(t) \/ LockRemote(t) PROVE QInv'
  BY <1>3, SwapTailQInv, LinkPrevQInv, ReleasePrevQInv, RestQInv, Zenon
     DEF LockLocal, LockRemote, LockSteps, LockPetersonsLocal, LockPetersonsRemote
<1>4. ASSUME NEW t \in Threads, UnlockLocal(t) \/ UnlockRemote(t) PROVE QInv'
  BY <1>4, CasTailQInv, GrantNextQInv, RestQInv, Zenon DEF UnlockLocal, UnlockRemote, UnlockSteps
<1> QED
  BY <1>1, <1>2, <1>3, <1>4, Zenon DEF Next, Done

-----------------------------------------------------------------------------
\* The queues keep their shape, for any threads, locks and budgets.
THEOREM QueuesKeepShape == Spec => []QInv
BY InitQInv, NextQInv, PTL DEF Spec

LEMMA QInvFIFO == QInv => CohortFIFO
<1> SUFFICES ASSUME QInv, NEW t \in Threads, NEW u \in Threads,
                    Queued(t), Queued(u), SameQueue(t, u), pos[t] < pos[u]
             PROVE  pc[u] \notin {"cs"} \cup Leaving
  BY Zenon DEF CohortFIFO
<1>1. pos[t] \in Nat /\ pos[u] \in Nat /\ ~(pos[u] <= pos[t])
  BY DEF QInv, TypeOK
<1> QED
  BY <1>1, Zenon DEF QInv, HeadInv, SameQueue

\* Threads of a cohort enter in the order of their tail swaps (CohortFIFO):
\* of two in a queue only the earlier can be past its wait for granted_, in a
\* batch as between batches.
THEOREM ServedInArrivalOrder == Spec => []CohortFIFO
BY QueuesKeepShape, QInvFIFO, PTL

LEMMA QInvNoStale == QInv => NoStaleAccess
<1> SUFFICES ASSUME QInv, NEW t \in Threads, NEW u \in Touches(t)
             PROVE  /\ u \in Threads /\ Queued(u) /\ SameQueue(t, u)
                    /\ pos[u] = IF pc[t] \in {"link", "readvalid", "release"}
                                THEN pos[t] - 1 ELSE pos[t] + 1
  BY Zenon DEF NoStaleAccess
<1>1. CASE pc[t] \in Linking
  <2>1. u = prev[t] /\ Queued(t)
    BY <1>1, Zenon DEF Touches, Linking, Queued
  <2>2. u \in Threads /\ Queued(u) /\ SameQueue(t, u) /\ pos[t] = pos[u] + 1
    BY <1>1, <2>1, Zenon DEF QInv, TypeOK, PrevInv
  <2> QED
    BY <1>1, <2>2 DEF QInv, TypeOK, Linking
<1>2. CASE pc[t] \in {"passticket", "passbudget", "give", "grant"}
  <2>1. u = next[Coh(t)][t] /\ Queued(t) /\ Coh(t) \in Cohorts
    BY <1>2, CohType, Zenon DEF Touches, Queued
  <2>2. u # None
    BY <1>2, <2>1, NoneAssumption, Zenon DEF QInv, NextInv, ReleaseInv, Succeeded
  <2>3. u \in Threads
    BY <2>1, <2>2 DEF QInv, TypeOK
  <2> QED
    BY <1>2, <2>1, <2>3, Zenon DEF QInv, NextInv
<1> QED
  BY <1>1, <1>2, Zenon DEF Touches, Linking

\* Whoever is about to access another thread's descriptor finds its owner at the
\* neighbouring place of the queue, in the same operation (NoStaleAccess): the
\* wait for releasable_ covers a successor's late read of ticket_valid_, and
\* granted_ comes last, so a late gift of a budget still finds its receiver.
THEOREM DescriptorSafety == Spec => []NoStaleAccess
BY QueuesKeepShape, QInvNoStale, PTL

-----------------------------------------------------------------------------
\* All that BInv says of a thread, its neighbours' state apart, stays.
Same(u) ==
  /\ pc'[u] = pc[u] /\ lk'[u] = lk[u] /\ prev'[u] = prev[u] /\ pos'[u] = pos[u]
  /\ tk'[u] = tk[u] /\ from_prev'[u] = from_prev[u] /\ vbuf'[u] = vbuf[u]
  /\ Bud(u)' = Bud(u) /\ Valid(u)' = Valid(u) /\ Bt(u)' = Bt(u)

View(u) ==
  /\ Coh(u)' = Coh(u) /\ Tk(u)' = Tk(u)
  /\ Queued(u)' <=> Queued(u)
  /\ Blocked(u)' <=> Blocked(u)
  /\ Batch(u)' <=> Batch(u)
  /\ HasTk(u)' <=> HasTk(u)
  /\ Sec(u)' <=> Sec(u)
  /\ Holding(u)' <=> Holding(u)
  /\ Over(u)' <=> Over(u)

LEMMA SameView ==
  ASSUME NEW u, Same(u)
  PROVE  View(u)
<1>1. Coh(u)' = Coh(u)
  BY CohStable, Zenon DEF Same
<1>2. Passed(u)' <=> Passed(u)
  BY <1>1, Zenon DEF Same, Passed
<1>3. (Queued(u)' <=> Queued(u)) /\ (Blocked(u)' <=> Blocked(u)) /\ Tk(u)' = Tk(u)
  BY Zenon DEF Same, Queued, Blocked, Tk
<1>4. (Batch(u)' <=> Batch(u)) /\ (HasTk(u)' <=> HasTk(u)) /\ (Sec(u)' <=> Sec(u))
  BY <1>2, Zenon DEF Same, Batch, HasTk, Sec
<1>5. (Holding(u)' <=> Holding(u)) /\ (Over(u)' <=> Over(u))
  BY Zenon DEF Same, Holding, Over
<1> QED
  BY <1>1, <1>3, <1>4, <1>5, Zenon DEF View

LEMMA SameBudget ==
  ASSUME NEW u, Same(u), BudgetOf(u)
  PROVE  BudgetOf(u)'
<1>1. Coh(u)' = Coh(u) /\ (Queued(u)' <=> Queued(u))
  BY SameView, Zenon DEF View
<1>2. /\ pc'[u] = pc[u] /\ from_prev'[u] = from_prev[u] /\ tk'[u] = tk[u]
      /\ Bud(u)' = Bud(u) /\ Bt(u)' = Bt(u)
  BY Zenon DEF Same
<1> QED
  BY <1>1, <1>2, Zenon DEF BudgetOf

\* A step of a queued thread t that writes no descriptor but its own.
Local(t) ==
  /\ Queued(t) /\ Queued(t)'
  /\ \A u \in Threads : u # t => Same(u)
  /\ UNCHANGED <<next, granted, lk, prev, pos>>

LEMMA LocalView ==
  ASSUME NEW t \in Threads, Local(t)
  PROVE  /\ \A u \in Threads : u # t => Same(u) /\ View(u)
         /\ \A u \in Threads :
              /\ Coh(u)' = Coh(u) /\ Suc(u)' = Suc(u) /\ (Granted(u)' <=> Granted(u))
              /\ lk'[u] = lk[u] /\ prev'[u] = prev[u] /\ pos'[u] = pos[u]
              /\ Queued(u)' <=> Queued(u)
         /\ \A u, v \in Threads : SameQueue(u, v)' <=> SameQueue(u, v)
<1>1. \A u \in Threads : u # t => Same(u) /\ View(u)
  BY SameView, Zenon DEF Local
<1>2. \A u \in Threads : Coh(u)' = Coh(u)
  BY CohStable, Zenon DEF Local
<1>3. \A u \in Threads :
        /\ Coh(u)' = Coh(u) /\ Suc(u)' = Suc(u) /\ (Granted(u)' <=> Granted(u))
        /\ lk'[u] = lk[u] /\ prev'[u] = prev[u] /\ pos'[u] = pos[u]
  BY <1>2, Zenon DEF Local, Suc, Granted
<1>4. \A u \in Threads : Queued(u)' <=> Queued(u)
  BY <1>1, Zenon DEF Local, View
<1>5. \A u, v \in Threads : SameQueue(u, v)' <=> SameQueue(u, v)
  BY <1>3, Zenon DEF SameQueue
<1> QED
  BY <1>1, <1>3, <1>4, <1>5, Zenon

-----------------------------------------------------------------------------
(***************************************************************************)
(* What a step of t leaves true if it keeps certain facts about t.         *)
(***************************************************************************)
LEMMA KeepOrder ==
  ASSUME NEW t \in Threads, Local(t), OrderInv,
         pc[t] \in Past => pc'[t] \in Past, Blocked(t) => Blocked(t)'
  PROVE  OrderInv'
<1>1. \A u \in Threads : (pc[u] \in Past => pc'[u] \in Past) /\ (Blocked(u) => Blocked(u)')
  BY LocalView, Zenon DEF Same, View
<1> QED
  BY <1>1, LocalView, Zenon DEF OrderInv

LEMMA KeepValid ==
  ASSUME QInv, NEW t \in Threads, Local(t), ValidInv,
         Valid(t)' = Valid(t), pc[t] \in Past => pc'[t] \in Past, Batch(t)' => Batch(t),
         pc'[t] \notin {"swap", "link"},
         pc'[t] \in {"recheck", "give"} => Valid(t) = kTrue,
         pc'[t] = "release" /\ tk'[t] = kTrue => pc[t] = "readvalid" /\ Valid(prev[t]) = kTrue
  PROVE  ValidInv'
<1>1. \A u \in Threads : /\ Valid(u)' = Valid(u) /\ (Batch(u)' => Batch(u))
                         /\ pc[u] \in Past => pc'[u] \in Past
  BY LocalView, Zenon DEF Same, View
<1>2. \A u \in Threads : pc[u] \in {"readvalid", "release"} => prev[u] \in Threads
  BY Zenon DEF QInv, TypeOK, PrevInv, Linking
<1>3. \A u \in Threads : pc'[u] = "release" /\ tk'[u] = kTrue =>
        prev[u] \in Threads /\ Valid(prev[u]) = kTrue
  <2>1. \A u \in Threads : u # t => pc'[u] = pc[u] /\ tk'[u] = tk[u]
    BY LocalView, Zenon DEF Same
  <2> QED
    BY <1>2, <2>1, Zenon DEF ValidInv
<1>4. \A u \in Threads : pc'[u] = "release" /\ tk'[u] = kTrue => Valid(prev[u])' = kTrue
  <2>1. \A u \in Threads : prev'[u] = prev[u]
    BY LocalView, Zenon
  <2>2. ASSUME NEW u \in Threads, pc'[u] = "release", tk'[u] = kTrue PROVE Valid(prev[u])' = kTrue
    <3>1. PICK p \in Threads : p = prev[u] /\ Valid(p) = kTrue
      BY <1>3, <2>2, Zenon
    <3> QED
      BY <1>1, <2>1, <3>1, Zenon
  <2> QED BY <2>2, Zenon
<1>5. \A u \in Threads :
        /\ pc'[u] \in {"swap", "link"} => Valid(u)' = kFalse /\ Bud(u)' = NoBudget
        /\ pc'[u] \in {"recheck", "give"} => Valid(u)' = kTrue
  <2>1. \A u \in Threads : u # t => pc'[u] = pc[u] /\ Bud(u)' = Bud(u)
    BY LocalView, Zenon DEF Same
  <2> QED
    BY <1>1, <2>1, Zenon DEF ValidInv
<1>6. \A u \in Threads : Queued(u)' /\ Valid(u)' = kTrue =>
        pc'[u] \in Past /\ \A v \in Threads : Suc(u)' = v => ~Batch(v)'
  BY <1>1, LocalView, Zenon DEF ValidInv
<1> QED
  BY <1>4, <1>5, <1>6, Zenon DEF ValidInv

LEMMA KeepBudget ==
  ASSUME NEW t \in Threads, Local(t), BudgetInv, BudgetOf(t)',
         Bt(t)' = Bt(t) \/ \A u \in Threads : pc[u] = "passbudget" => Suc(u) # t,
         pc'[t] = "passbudget" => \A u \in Threads : Suc(t) = u => Bt(u)' = tk'[t]
  PROVE  BudgetInv'
<1>1. \A u \in Threads : u # t => BudgetOf(u)'
  BY LocalView, SameBudget, Zenon DEF BudgetInv
<1>2. ASSUME NEW u \in Threads, u # t, pc'[u] = "passbudget", NEW v \in Threads, Suc(u)' = v
      PROVE  Bt(v)' = tk'[u]
  <2>1. pc[u] = "passbudget" /\ tk'[u] = tk[u] /\ Suc(u) = v
    BY <1>2, LocalView, Zenon DEF Same
  <2>2. Bt(v)' = Bt(v)
    BY <2>1, LocalView, Zenon DEF Same
  <2> QED
    BY <2>1, <2>2, Zenon DEF BudgetInv
<1> QED
  BY <1>1, <1>2, LocalView, Zenon DEF BudgetInv

LEMMA KeepChain ==
  ASSUME QInv, NEW t \in Threads, Local(t), ChainInv, UNCHANGED <<current_ticket, uses>>,
         Batch(t)' => Batch(t) /\ Tk(t)' = Tk(t) /\ Bud(t)' = Bud(t),
         pc[t] \in Past => /\ pc'[t] \in Past /\ tk'[t] = tk[t]
                           /\ Bud(t)' = Bud(t) /\ Valid(t)' = Valid(t),
         pc[t] \in Holds => pc'[t] \in Holds
  PROVE  ChainInv'
<1> SUFFICES ASSUME NEW u \in Threads, Batch(u)'
             PROVE  (/\ prev[u] # None
                     /\ ~Granted(u) =>
                          /\ pc[prev[u]] \in Past /\ Valid(prev[u]) = kFalse
                          /\ tk[prev[u]] = Tk(u) /\ Bud(prev[u]) = Bud(u) + 1
                     /\ Granted(u) /\ pc[u] \notin Holds =>
                          Tk(u) = current_ticket[lk[u]] /\ uses[lk[u]] = Budget(Coh(u)) - Bud(u))'
  BY Zenon DEF ChainInv
<1>1. Batch(u) /\ Tk(u)' = Tk(u) /\ Bud(u)' = Bud(u) /\ (pc[u] \in Holds => pc'[u] \in Holds)
  BY LocalView, Zenon DEF Same, View
<1>2. PICK p \in Threads : p = prev[u]
  BY <1>1, Zenon DEF ChainInv, QInv, TypeOK
<1>3. pc[p] \in Past => /\ pc'[p] \in Past /\ tk'[p] = tk[p]
                        /\ Bud(p)' = Bud(p) /\ Valid(p)' = Valid(p)
  BY LocalView, Zenon DEF Same
<1>4. /\ Coh(u)' = Coh(u) /\ (Granted(u)' <=> Granted(u)) /\ lk'[u] = lk[u] /\ p = prev'[u]
      /\ Bud(prev[u])' = Bud(p)' /\ Valid(prev[u])' = Valid(p)'
  BY <1>2, LocalView, Zenon
<1> QED
  BY <1>1, <1>2, <1>3, <1>4, Zenon DEF ChainInv

LEMMA KeepHold ==
  ASSUME NEW t \in Threads, Local(t), HoldInv, UNCHANGED <<current_ticket, uses>>,
         Holding(t)' => /\ Holding(t) /\ tk'[t] = tk[t]
                        /\ Bt(t)' = Bt(t) /\ Bud(t)' = Bud(t)
  PROVE  HoldInv'
<1>v. \A u \in Threads :
        /\ Coh(u)' = Coh(u) /\ lk'[u] = lk[u] /\ prev'[u] = prev[u] /\ pos'[u] = pos[u]
        /\ Suc(u)' = Suc(u) /\ (Granted(u)' <=> Granted(u)) /\ (Queued(u)' <=> Queued(u))
  BY LocalView, Zenon
<1>1. \A u \in Threads :
        Holding(u)' => /\ Holding(u) /\ tk'[u] = tk[u] /\ Bt(u)' = Bt(u) /\ Bud(u)' = Bud(u)
  BY LocalView, Zenon DEF Same, View
<1> QED
  BY <1>v, <1>1, Zenon DEF HoldInv

\* The three invariants about all threads of a lock, where their state is kept
LEMMA TicketKept ==
  ASSUME TicketInv, UNCHANGED <<next_ticket, current_ticket, uses>>,
         \A u \in Threads :
           /\ HasTk(u)' => /\ HasTk(u) /\ Tk(u)' = Tk(u) /\ lk'[u] = lk[u]
                           /\ (Batch(u) => Batch(u)') /\ (Over(u) => Over(u)')
                           /\ (pc[u] \in Holds => pc'[u] \in Holds)
           /\ pc'[u] = "faawrite" =>
                pc[u] = "faawrite" /\ tk'[u] = tk[u] /\ lk'[u] = lk[u] /\ Coh(u)' = Coh(u)
  PROVE  TicketInv'
<1>1. \A l \in Locks : (/\ current_ticket[l] <= next_ticket[l]
                        /\ current_ticket[l] = next_ticket[l] => uses[l] = 0)'
  BY Zenon DEF TicketInv
<1>2. ASSUME NEW u \in Threads, pc'[u] = "faawrite"
      PROVE  (tk[u] = next_ticket[lk[u]] /\ Coh(u) = "remote")'
  <2>1. tk[u] = next_ticket[lk[u]] /\ Coh(u) = "remote"
    BY <1>2, Zenon DEF TicketInv
  <2> QED
    BY <1>2, <2>1, Zenon
<1>3. ASSUME NEW u \in Threads, HasTk(u)'
      PROVE  (/\ Tk(u) < next_ticket[lk[u]]
              /\ ~Over(u) => current_ticket[lk[u]] <= Tk(u)
              /\ ~Batch(u) /\ pc[u] \notin Holds /\ Tk(u) = current_ticket[lk[u]] =>
                   uses[lk[u]] = 0)'
  <2>1. HasTk(u) /\ Tk(u)' = Tk(u) /\ lk'[u] = lk[u]
    BY <1>3, Zenon
  <2>2. /\ Tk(u) < next_ticket[lk[u]]
        /\ ~Over(u) => current_ticket[lk[u]] <= Tk(u)
        /\ ~Batch(u) /\ pc[u] \notin Holds /\ Tk(u) = current_ticket[lk[u]] => uses[lk[u]] = 0
    BY <2>1, Zenon DEF TicketInv
  <2> QED
    BY <1>3, <2>1, <2>2, Zenon
<1> QED
  BY <1>1, <1>2, <1>3, Zenon DEF TicketInv

LEMMA ShareKept ==
  ASSUME ShareInv,
         \A u \in Threads : HasTk(u)' =>
           /\ HasTk(u) /\ Tk(u)' = Tk(u) /\ (Batch(u) <=> Batch(u)') /\ lk'[u] = lk[u]
           /\ pos'[u] = pos[u] /\ Coh(u)' = Coh(u) /\ Valid(u)' = Valid(u)
  PROVE  ShareInv'
<1>1. ASSUME NEW u \in Threads, NEW v \in Threads,
             (HasTk(u) /\ HasTk(v) /\ lk[u] = lk[v] /\ Tk(u) = Tk(v))'
      PROVE  (/\ Coh(u) = Coh(v)
              /\ ~Batch(u) /\ ~Batch(v) => u = v
              /\ ~Batch(u) /\ Batch(v) => pos[u] < pos[v]
              /\ pos[u] < pos[v] => Valid(u) = kFalse)'
  <2>1. /\ HasTk(u) /\ Tk(u)' = Tk(u) /\ (Batch(u) <=> Batch(u)') /\ lk'[u] = lk[u]
        /\ pos'[u] = pos[u] /\ Coh(u)' = Coh(u) /\ Valid(u)' = Valid(u)
    BY <1>1, Zenon
  <2>2. /\ HasTk(v) /\ Tk(v)' = Tk(v) /\ (Batch(v) <=> Batch(v)') /\ lk'[v] = lk[v]
        /\ pos'[v] = pos[v] /\ Coh(v)' = Coh(v)
    BY <1>1, Zenon
  <2>3. lk[u] = lk[v] /\ Tk(u) = Tk(v)
    BY <1>1, <2>1, <2>2, Zenon
  <2>4. /\ Coh(u) = Coh(v)
        /\ ~Batch(u) /\ ~Batch(v) => u = v
        /\ ~Batch(u) /\ Batch(v) => pos[u] < pos[v]
        /\ pos[u] < pos[v] => Valid(u) = kFalse
    BY <2>1, <2>2, <2>3, Zenon DEF ShareInv
  <2> QED
    BY <2>1, <2>2, <2>4, Zenon
<1> QED
  BY <1>1, Zenon DEF ShareInv

LEMMA PetersonKept ==
  ASSUME PetersonInv, UNCHANGED <<flag, victim>>,
         \A u \in Threads :
           /\ Contends(u)' => Contends(u) /\ lk'[u] = lk[u] /\ Coh(u)' = Coh(u)
           /\ Sec(u)' => Sec(u) /\ lk'[u] = lk[u] /\ Coh(u)' = Coh(u)
           /\ pc'[u] \in {"spin1", "spin2"} =>
                pc'[u] = pc[u] /\ lk'[u] = lk[u] /\ Coh(u)' = Coh(u) /\ vbuf'[u] = vbuf[u]
  PROVE  PetersonInv'
<1>1. ASSUME NEW u \in Threads, Contends(u)' PROVE (flag[lk[u]][Coh(u)] = kTrue)'
  <2>1. flag[lk[u]][Coh(u)] = kTrue /\ lk'[u] = lk[u] /\ Coh(u)' = Coh(u)
    BY <1>1, Zenon DEF PetersonInv
  <2> QED
    BY <2>1, Zenon
<1>2. ASSUME NEW u \in Threads, NEW v \in Threads, (lk[u] = lk[v] /\ Coh(u) # Coh(v) /\ Sec(u))'
      PROVE  (~Sec(v) /\ (pc[v] \in {"spin1", "spin2"} => victim[lk[v]] = Coh(v)))'
  <2>1. Sec(u) /\ lk'[u] = lk[u] /\ Coh(u)' = Coh(u)
    BY <1>2, Zenon
  <2>2. ~Sec(v)'
    BY <1>2, <2>1, Zenon DEF PetersonInv
  <2>3. ASSUME pc'[v] \in {"spin1", "spin2"} PROVE victim'[lk'[v]] = Coh(v)'
    <3>1. pc[v] \in {"spin1", "spin2"} /\ lk'[v] = lk[v] /\ Coh(v)' = Coh(v)
      BY <2>3, Zenon
    <3>2. lk[u] = lk[v] /\ Coh(u) # Coh(v)
      BY <1>2, <2>1, <3>1, Zenon
    <3>3. victim[lk[v]] = Coh(v)
      BY <2>1, <3>1, <3>2, Zenon DEF PetersonInv
    <3> QED
      BY <3>1, <3>3, Zenon
  <2> QED
    BY <2>2, <2>3, Zenon
<1>3. ASSUME NEW u \in Threads, pc'[u] \in {"spin1", "spin2"}
      PROVE  (/\ victim[lk[u]] \in Cohorts
              /\ pc[u] = "spin2" /\ Coh(u) = "remote" =>
                   vbuf[u] \in Cohorts /\ (vbuf[u] = "local" => victim[lk[u]] = "local"))'
  <2>1. pc'[u] = pc[u] /\ lk'[u] = lk[u] /\ Coh(u)' = Coh(u) /\ vbuf'[u] = vbuf[u]
    BY <1>3, Zenon
  <2>2. /\ victim[lk[u]] \in Cohorts
        /\ pc[u] = "spin2" /\ Coh(u) = "remote" =>
             vbuf[u] \in Cohorts /\ (vbuf[u] = "local" => victim[lk[u]] = "local")
    BY <1>3, <2>1, Zenon DEF PetersonInv
  <2> QED
    BY <2>1, <2>2, Zenon
<1> QED
  BY <1>1, <1>2, <1>3, Zenon DEF PetersonInv

LEMMA KeepTicket ==
  ASSUME NEW t \in Threads, Local(t), TicketInv, UNCHANGED <<next_ticket, current_ticket, uses>>,
         HasTk(t)' => HasTk(t) /\ Tk(t)' = Tk(t) /\ (Batch(t) => Batch(t)') /\ (Over(t) => Over(t)'),
         pc[t] \in Holds => pc'[t] \in Holds, pc'[t] # "faawrite"
  PROVE  TicketInv'
<1>v. \A u \in Threads :
        /\ Coh(u)' = Coh(u) /\ lk'[u] = lk[u] /\ prev'[u] = prev[u] /\ pos'[u] = pos[u]
        /\ Suc(u)' = Suc(u) /\ (Granted(u)' <=> Granted(u)) /\ (Queued(u)' <=> Queued(u))
  BY LocalView, Zenon
<1>1. \A u \in Threads :
        /\ HasTk(u)' => /\ HasTk(u) /\ Tk(u)' = Tk(u)
                        /\ (Batch(u) => Batch(u)') /\ (Over(u) => Over(u)')
        /\ pc[u] \in Holds => pc'[u] \in Holds
        /\ pc'[u] = "faawrite" => pc[u] = "faawrite" /\ tk'[u] = tk[u]
  BY LocalView, Zenon DEF Same, View
<1> QED
  BY <1>v, <1>1, TicketKept, Zenon

LEMMA KeepShare ==
  ASSUME NEW t \in Threads, Local(t), ShareInv, Valid(t)' = Valid(t),
         HasTk(t)' => HasTk(t) /\ Tk(t)' = Tk(t) /\ (Batch(t) <=> Batch(t)')
  PROVE  ShareInv'
<1>v. \A u \in Threads :
        /\ Coh(u)' = Coh(u) /\ lk'[u] = lk[u] /\ prev'[u] = prev[u] /\ pos'[u] = pos[u]
        /\ Suc(u)' = Suc(u) /\ (Granted(u)' <=> Granted(u)) /\ (Queued(u)' <=> Queued(u))
  BY LocalView, Zenon
<1>1. \A u \in Threads :
        /\ HasTk(u)' => HasTk(u) /\ Tk(u)' = Tk(u) /\ (Batch(u) <=> Batch(u)')
        /\ Valid(u)' = Valid(u)
  BY LocalView, Zenon DEF Same, View
<1> QED
  BY <1>v, <1>1, ShareKept, Zenon

LEMMA KeepPeterson ==
  ASSUME NEW t \in Threads, Local(t), PetersonInv, UNCHANGED <<flag, victim>>,
         Sec(t)' => Sec(t), pc'[t] \notin {"victim", "spin1", "spin2"}
  PROVE  PetersonInv'
<1>v. \A u \in Threads :
        /\ Coh(u)' = Coh(u) /\ lk'[u] = lk[u] /\ prev'[u] = prev[u] /\ pos'[u] = pos[u]
        /\ Suc(u)' = Suc(u) /\ (Granted(u)' <=> Granted(u)) /\ (Queued(u)' <=> Queued(u))
  BY LocalView, Zenon
<1>1. \A u \in Threads :
        /\ Sec(u)' => Sec(u)
        /\ pc'[u] \in {"victim", "spin1", "spin2"} => pc'[u] = pc[u] /\ vbuf'[u] = vbuf[u]
  BY LocalView, Zenon DEF Same, View
<1> QED
  <2>1. \A u \in Threads : Contends(u)' => Contends(u)
    BY <1>1, Zenon DEF Contends
  <2> QED
    BY <1>v, <1>1, <2>1, PetersonKept, Zenon

-----------------------------------------------------------------------------
(***************************************************************************)
(* Threads of one queue.                                                   *)
(***************************************************************************)
\* If a thread may draw or pass on, those ahead of it are past that and those
\* behind it are blocked.
LEMMA Alone ==
  ASSUME QInv, OrderInv, NEW t \in Threads, NEW u \in Threads,
         Queued(t), Queued(u), SameQueue(t, u), t # u, pc[t] \notin Past, ~Blocked(t)
  PROVE  (pos[t] < pos[u] /\ Blocked(u)) \/ (pos[u] < pos[t] /\ pc[u] \in Past)
<1>1. pos[t] \in Nat /\ pos[u] \in Nat /\ pos[t] # pos[u]
  BY Zenon DEF QInv, TypeOK, PosInv
<1>2. pos[t] < pos[u] \/ pos[u] < pos[t]
  BY <1>1
<1>3. SameQueue(u, t)
  BY Zenon DEF SameQueue
<1> QED
  BY <1>2, <1>3, Zenon DEF OrderInv

\* What a blocked thread is not.
LEMMA BlockedIsOut ==
  ASSUME BudgetInv, NEW u \in Threads, Blocked(u)
  PROVE  /\ ~Batch(u) /\ ~HasTk(u) /\ ~Sec(u) /\ Queued(u)
         /\ pc[u] \in Waits \cup {"link"} /\ pc[u] \notin Past
<1>1. pc[u] \in Waits \cup {"link"} /\ ~Passed(u)
  BY Zenon DEF Blocked, Passed, Waits
<1>2. pc[u] \notin Drawn \cup Past
  BY <1>1, Zenon DEF Drawn, Past, Holds, Leaving, Waits
<1>3. ~Batch(u)
  BY <1>1, <1>2, Zenon DEF Batch, BudgetInv, BudgetOf
<1> QED
  BY <1>1, <1>2, <1>3, Zenon DEF HasTk, Sec, Queued, Waits

\* A queue has one first thread.
LEMMA OneHead ==
  ASSUME QInv, NEW t \in Threads, NEW u \in Threads, Queued(t), Queued(u), SameQueue(t, u),
         prev[t] = None \/ Granted(t)
  PROVE  /\ t = u \/ pos[t] < pos[u]
         /\ prev[u] = None \/ Granted(u) => t = u
<1>1. pos[t] \in Nat /\ pos[u] \in Nat /\ (pos[t] = pos[u] => t = u)
  BY Zenon DEF QInv, TypeOK, PosInv
<1>2. pos[t] <= pos[u]
  BY Zenon DEF QInv, HeadInv, Granted
<1>3. prev[u] = None \/ Granted(u) => pos[u] <= pos[t]
  BY Zenon DEF QInv, HeadInv, Granted, SameQueue
<1> QED
  BY <1>1, <1>2, <1>3

LEMMA HolderIsHead ==
  ASSUME QInv, NEW t \in Threads, pc[t] \in {"waitturn"} \cup Holds
  PROVE  Queued(t) /\ (prev[t] = None \/ Granted(t))
BY Zenon DEF QInv, HeadInv, Granted, Holds, Leaving, Queued

-----------------------------------------------------------------------------
(***************************************************************************)
(* Steps that keep a thread's share in a batch.                            *)
(***************************************************************************)
Kept(t) ==
  /\ Batch(t)' <=> Batch(t)
  /\ HasTk(t)' <=> HasTk(t)
  /\ HasTk(t) => Tk(t)' = Tk(t)
  /\ Holding(t)' <=> Holding(t)
  /\ Over(t)' <=> Over(t)
  /\ pc'[t] \in Holds <=> pc[t] \in Holds
  /\ pc[t] \in Past => pc'[t] \in Past /\ tk'[t] = tk[t] /\ Bt(t)' = Bt(t) /\ Bud(t)' = Bud(t)
  /\ Batch(t) => Bud(t)' = Bud(t)
  /\ Valid(t)' = Valid(t)

LEMMA HasTkIf ==
  ASSUME NEW t
  PROVE  /\ Batch(t) /\ BudgetOf(t) => HasTk(t)
         /\ Holding(t) \/ Over(t) => pc[t] \in Past /\ pc[t] \in Holds
         /\ pc[t] \in Past => HasTk(t) /\ Queued(t) /\ Tk(t) = tk[t]
BY Zenon DEF Batch, HasTk, BudgetOf, Holding, Over, Past, Holds, Leaving, Queued, Tk, Waits

LEMMA KeptInv ==
  ASSUME QInv, BInv, NEW t \in Threads, Local(t), Kept(t), BudgetOf(t)',
         UNCHANGED <<next_ticket, current_ticket, uses>>,
         Blocked(t) => Blocked(t)',
         pc'[t] \notin {"swap", "link", "faawrite"},
         pc'[t] \in {"recheck", "give"} => Valid(t) = kTrue,
         pc'[t] = "release" => tk'[t] # kTrue,
         Bt(t)' = Bt(t),
         pc'[t] # "passbudget"
  PROVE  (/\ OrderInv /\ ValidInv /\ BudgetInv /\ ChainInv /\ HoldInv /\ TicketInv /\ ShareInv)'
<1>1. OrderInv /\ ValidInv /\ BudgetInv /\ ChainInv /\ HoldInv /\ TicketInv /\ ShareInv
  BY Zenon DEF BInv
<1>2. BudgetOf(t) /\ (Batch(t) => HasTk(t))
  BY <1>1, HasTkIf, Zenon DEF BudgetInv
<1>3. OrderInv'
  BY <1>1, KeepOrder, Zenon DEF Kept
<1>4. ValidInv'
  BY <1>1, KeepValid, Zenon DEF Kept
<1>5. BudgetInv'
  BY <1>1, KeepBudget, Zenon
<1>6. ChainInv'
  BY <1>1, <1>2, KeepChain, Zenon DEF Kept
<1>7. HoldInv'
  BY <1>1, HasTkIf, KeepHold, Zenon DEF Kept
<1>8. TicketInv'
  BY <1>1, KeepTicket, Zenon DEF Kept
<1>9. ShareInv'
  BY <1>1, KeepShare, Zenon DEF Kept
<1> QED
  BY <1>3, <1>4, <1>5, <1>6, <1>7, <1>8, <1>9, Zenon

Own(t) ==
  /\ Coh(t)' = Coh(t) /\ Bud(t)' = Bud(t) /\ Valid(t)' = Valid(t) /\ Bt(t)' = Bt(t)
  /\ tk'[t] = tk[t] /\ from_prev'[t] = from_prev[t]

\* A step of t that writes no descriptor.
LEMMA MoveOn ==
  ASSUME QInv, NEW t \in Threads, NEW q, Queued(t), pc' = [pc EXCEPT ![t] = q],
         q \notin {"idle", "swap"}, \A u \in Threads : u # t => vbuf'[u] = vbuf[u],
         UNCHANGED <<next, ticket_valid, batch_ticket, budget, granted, lk, prev, tk, from_prev, pos>>
  PROVE  Local(t) /\ Own(t) /\ pc'[t] = q
<1>1. pc'[t] = q /\ \A u \in Threads : u # t => pc'[u] = pc[u]
  BY Zenon DEF QInv, TypeOK
<1>2. \A u \in Threads : Coh(u)' = Coh(u)
  BY CohStable, Zenon
<1>3. \A u \in Threads : Bud(u)' = Bud(u) /\ Valid(u)' = Valid(u) /\ Bt(u)' = Bt(u)
  BY <1>2, Zenon DEF Bud, Valid, Bt
<1> QED
  BY <1>1, <1>2, <1>3, Zenon DEF Local, Own, Same, Queued

LEMMA MovedKept ==
  ASSUME NEW t, Own(t), pc[t] \in Waits <=> pc'[t] \in Waits,
         pc[t] \in Drawn \cup Past <=> pc'[t] \in Drawn \cup Past,
         pc[t] \in Past => pc'[t] \in Past,
         pc[t] = "cs" <=> pc'[t] = "cs", pc[t] \in Leaving <=> pc'[t] \in Leaving
  PROVE  Kept(t) /\ (Passed(t)' <=> Passed(t))
<1>1. Passed(t)' <=> Passed(t)
  BY Zenon DEF Own, Passed
<1>2. /\ Batch(t)' <=> Batch(t)
      /\ HasTk(t)' <=> HasTk(t)
      /\ Tk(t)' = Tk(t)
  BY <1>1, Zenon DEF Own, Batch, HasTk, Tk
<1>3. /\ Holding(t)' <=> Holding(t)
      /\ Over(t)' <=> Over(t)
      /\ pc'[t] \in Holds <=> pc[t] \in Holds
  BY Zenon DEF Own, Holding, Over, Holds
<1> QED
  BY <1>1, <1>2, <1>3, Zenon DEF Own, Kept

\* Steps that look at the budget, at a successor or at releasable_, and those of
\* Peterson's algorithm.
Looks(t, q) ==
  \/ pc[t] = "waitbudget" /\ q = "gotbudget" /\ Bud(t) # NoBudget
  \/ pc[t] = "checknext" /\ (q \in {"clear", "clearlast"} \/ (q = "passticket" /\ Bud(t) # 1))
  \/ pc[t] \in {"recheck", "waitgrant"} /\ q \in {"waitgrant", "waitturn"}
  \/ pc[t] = "recheck" /\ q = "give"
  \/ pc[t] \in Leaving /\ q \in Leaving

Moves(t, q) ==
  \/ Looks(t, q)
  \/ pc[t] \in Peterson /\ q \in {"victim", "spin1", "spin2", "faa"}
  \/ pc[t] \in {"clear", "clearlast"} /\ q \in {"valid", "validlast"}

LEMMA MovesInv ==
  ASSUME QInv, BInv, NEW t \in Threads, NEW q, Moves(t, q), pc' = [pc EXCEPT ![t] = q],
         \A u \in Threads : u # t => vbuf'[u] = vbuf[u],
         UNCHANGED <<next_ticket, current_ticket, next, ticket_valid, batch_ticket,
                     budget, granted, lk, prev, tk, from_prev, pos, uses>>
  PROVE  /\ Queued(t) /\ Local(t) /\ Own(t) /\ pc'[t] = q /\ (Passed(t)' <=> Passed(t))
         /\ (/\ OrderInv /\ ValidInv /\ BudgetInv /\ ChainInv /\ HoldInv /\ TicketInv /\ ShareInv)'
<1>1. Queued(t) /\ q \notin {"idle", "swap"}
  BY Zenon DEF Moves, Looks, Queued, Leaving, Peterson
<1>2. Local(t) /\ Own(t) /\ pc'[t] = q
  BY <1>1, MoveOn, Zenon
<1>3. /\ pc[t] \in Waits <=> pc'[t] \in Waits
      /\ pc[t] \in Drawn \cup Past <=> pc'[t] \in Drawn \cup Past
      /\ pc[t] \in Past <=> pc'[t] \in Past
      /\ pc[t] = "cs" <=> pc'[t] = "cs"
      /\ pc[t] \in Leaving <=> pc'[t] \in Leaving
  BY <1>2, Zenon DEF Moves, Looks, Waits, Drawn, Past, Holds, Leaving, Peterson
<1>4. Kept(t) /\ (Passed(t)' <=> Passed(t))
  BY <1>2, <1>3, MovedKept, Zenon
<1>5. BudgetOf(t)
  BY Zenon DEF BInv, BudgetInv
<1>6. /\ pc'[t] = "gotbudget" => Bud(t) # NoBudget
      /\ pc'[t] \in Peterson \cup {"faa", "faawrite"} => pc[t] \in Peterson
      /\ pc'[t] \in {"passticket", "passbudget"} => Bud(t) # 1
  BY <1>2, Zenon DEF Moves, Looks, Peterson, Leaving
<1>7. BudgetOf(t)'
  BY <1>1, <1>2, <1>3, <1>5, <1>6, Zenon DEF BudgetOf, Own
<1>8. Blocked(t) => Blocked(t)'
  BY <1>2, Zenon DEF Moves, Looks, Blocked, Own, Waits, Leaving, Peterson
<1>9. /\ pc'[t] \notin {"swap", "link", "faawrite", "release", "passbudget"}
      /\ pc'[t] \in {"recheck", "give"} => pc[t] = "recheck"
  BY <1>2, Zenon DEF Moves, Looks, Leaving
<1>10. pc'[t] \in {"recheck", "give"} => Valid(t) = kTrue
  BY <1>9, Zenon DEF BInv, ValidInv
<1>11. (/\ OrderInv /\ ValidInv /\ BudgetInv /\ ChainInv /\ HoldInv /\ TicketInv /\ ShareInv)'
  BY <1>2, <1>4, <1>7, <1>8, <1>9, <1>10, KeptInv, Zenon DEF Own
<1> QED
  BY <1>1, <1>2, <1>4, <1>11, Zenon

LEMMA LooksInv ==
  ASSUME QInv, BInv, NEW t \in Threads, NEW q, Looks(t, q), pc' = [pc EXCEPT ![t] = q],
         UNCHANGED <<flag, victim, next_ticket, current_ticket, next, ticket_valid, batch_ticket,
                     budget, granted, lk, prev, tk, from_prev, vbuf, pos, uses>>
  PROVE  BInv'
<1>1. /\ Local(t) /\ pc'[t] = q /\ (Passed(t)' <=> Passed(t))
      /\ (/\ OrderInv /\ ValidInv /\ BudgetInv /\ ChainInv /\ HoldInv /\ TicketInv /\ ShareInv)'
  BY MovesInv, Zenon DEF Moves
<1>2. pc'[t] \notin {"victim", "spin1", "spin2"} /\ (Sec(t)' => Sec(t))
  BY <1>1, Zenon DEF Looks, Sec, Leaving
<1>3. PetersonInv'
  BY <1>1, <1>2, KeepPeterson, Zenon DEF BInv
<1> QED
  BY <1>1, <1>3, Zenon DEF BInv

-----------------------------------------------------------------------------
(***************************************************************************)
(* Peterson's algorithm.                                                   *)
(***************************************************************************)
\* One thread of a queue is in Peterson's algorithm or section.
LEMMA OneContender ==
  ASSUME QInv, BInv, NEW t \in Threads, NEW u \in Threads, t # u, lk[t] = lk[u], Coh(t) = Coh(u),
         pc[t] \in Peterson \cup {"faa", "faawrite"} \cup Drawn
  PROVE  ~Contends(u)
<1>1. Queued(t) /\ pc[t] \notin Past /\ ~Blocked(t) /\ SameQueue(t, u)
  BY Zenon DEF Queued, Past, Holds, Leaving, Blocked, Waits, Peterson, Drawn, SameQueue
<1>2. Contends(u) => Queued(u) /\ pc[u] \notin Past /\ ~Blocked(u)
  <2>1. Passed(u) => Queued(u) /\ pc[u] \notin Past /\ ~Blocked(u)
    BY Zenon DEF Passed, Queued, Past, Holds, Leaving, Blocked, Waits
  <2> QED
    BY <2>1, Zenon DEF Contends, Sec, Queued, Past, Holds, Leaving, Blocked, Waits
<1> QED
  BY <1>1, <1>2, Alone, Zenon DEF BInv

LEMMA RaiseFlagBInv ==
  ASSUME QInv, BInv, NEW t \in Threads, RaiseFlag(t)
  PROVE  BInv'
<1>1. /\ pc[t] = "flag" /\ pc' = [pc EXCEPT ![t] = "victim"]
      /\ flag' = [flag EXCEPT ![lk[t]][Coh(t)] = kTrue]
      /\ UNCHANGED <<victim, next_ticket, current_ticket, next, ticket_valid, batch_ticket,
                     budget, granted, lk, prev, tk, from_prev, vbuf, pos, uses>>
  BY Zenon DEF RaiseFlag, Goto, descVars, threadVars, history
<1>2. /\ Local(t) /\ pc'[t] = "victim" /\ (Passed(t)' <=> Passed(t))
      /\ (/\ OrderInv /\ ValidInv /\ BudgetInv /\ ChainInv /\ HoldInv /\ TicketInv /\ ShareInv)'
  BY <1>1, MovesInv, Zenon DEF Moves, Peterson
<1>3. \A u \in Threads :
        /\ Coh(u)' = Coh(u) /\ lk'[u] = lk[u] /\ (Sec(u)' => Sec(u))
        /\ u # t => pc'[u] = pc[u] /\ vbuf'[u] = vbuf[u]
  BY <1>1, <1>2, LocalView, Zenon DEF View, Same, Sec, Passed, Waits
<1>4. \A u \in Threads : Contends(u)' => flag'[lk[u]][Coh(u)] = kTrue
  <2>1. lk[t] \in Locks /\ Coh(t) \in Cohorts
    BY <1>1, CohType, Zenon DEF QInv, LkInv
  <2>2. \A u \in Threads : flag[lk[u]][Coh(u)] = kTrue => flag'[lk[u]][Coh(u)] = kTrue
    BY <1>1, <2>1 DEF QInv, TypeOK
  <2>3. flag'[lk[t]][Coh(t)] = kTrue
    BY <1>1, <2>1, Zenon DEF QInv, TypeOK
  <2> QED
    BY <1>2, <1>3, <2>2, <2>3, Zenon DEF Contends, BInv, PetersonInv
<1>5. PetersonInv'
  BY <1>1, <1>2, <1>3, <1>4 DEF BInv, PetersonInv
<1> QED
  BY <1>2, <1>5, Zenon DEF BInv

LEMMA SetVictimBInv ==
  ASSUME QInv, BInv, NEW t \in Threads, SetVictim(t)
  PROVE  BInv'
<1>1. /\ pc[t] = "victim" /\ pc' = [pc EXCEPT ![t] = "spin1"]
      /\ victim' = [victim EXCEPT ![lk[t]] = Coh(t)]
      /\ UNCHANGED <<flag, next_ticket, current_ticket, next, ticket_valid, batch_ticket,
                     budget, granted, lk, prev, tk, from_prev, vbuf, pos, uses>>
  BY Zenon DEF SetVictim, Goto, descVars, threadVars
<1>2. /\ Local(t) /\ pc'[t] = "spin1" /\ (Passed(t)' <=> Passed(t))
      /\ (/\ OrderInv /\ ValidInv /\ BudgetInv /\ ChainInv /\ HoldInv /\ TicketInv /\ ShareInv)'
  BY <1>1, MovesInv, Zenon DEF Moves, Peterson
<1>3. \A u \in Threads :
        /\ Coh(u)' = Coh(u) /\ lk'[u] = lk[u] /\ (Sec(u)' => Sec(u))
        /\ u # t => pc'[u] = pc[u] /\ vbuf'[u] = vbuf[u]
  BY <1>1, <1>2, LocalView, Zenon DEF View, Same, Sec, Passed, Waits
<1>4. \A u \in Threads : Contends(u)' => Contends(u)
  BY <1>1, <1>3, Zenon DEF Contends
<1>5. /\ \A u \in Threads : u # t /\ lk[u] = lk[t] /\ Contends(u) => Coh(u) # Coh(t)
      /\ ~Sec(t)
  BY <1>1, OneContender, Zenon DEF Peterson, Sec, Passed, Waits
<1>6. /\ lk[t] \in Locks /\ \A u \in Threads : Coh(u) \in Cohorts
      /\ victim'[lk[t]] = Coh(t) /\ \A l \in Locks : l # lk[t] => victim'[l] = victim[l]
      /\ \A u \in Threads : pc[u] \in {"spin1", "spin2"} => lk[u] \in Locks
  BY <1>1, CohType, Zenon DEF QInv, LkInv, TypeOK
<1>7. PetersonInv
  BY Zenon DEF BInv
<1>8. ASSUME NEW u \in Threads, pc'[u] \in {"spin1", "spin2"}
      PROVE  /\ victim'[lk[u]] \in Cohorts
             /\ pc'[u] = "spin2" /\ Coh(u) = "remote" =>
                  vbuf'[u] \in Cohorts /\ (vbuf'[u] = "local" => victim'[lk[u]] = "local")
             /\ \A v \in Threads : lk[v] = lk[u] /\ Coh(v) # Coh(u) /\ Sec(v) =>
                  victim'[lk[u]] = Coh(u)
  <2>1. CASE u = t
    BY <1>2, <1>6, <2>1, Zenon
  <2>2. CASE u # t /\ lk[u] # lk[t]
    BY <1>3, <1>6, <1>7, <1>8, <2>2, Zenon DEF PetersonInv
  <2>3. CASE u # t /\ lk[u] = lk[t]
    <3>1. Coh(u) # Coh(t) /\ pc[u] = pc'[u] /\ vbuf'[u] = vbuf[u]
      BY <1>3, <1>5, <1>8, <2>3, Zenon DEF Contends
    <3>2. \A v \in Threads : lk[v] = lk[u] /\ Coh(v) # Coh(u) => ~Sec(v)
      BY <1>5, <1>6, <2>3, <3>1, Zenon DEF Contends, Cohorts
    <3> QED
      BY <1>6, <1>7, <1>8, <2>3, <3>1, <3>2, Zenon DEF PetersonInv, Cohorts
  <2> QED BY <2>1, <2>2, <2>3, Zenon
<1>9. PetersonInv'
  <2>1. \A u \in Threads : Contends(u)' => flag'[lk'[u]][Coh(u)'] = kTrue
    <3> SUFFICES ASSUME NEW u \in Threads, Contends(u)'
                 PROVE  flag'[lk'[u]][Coh(u)'] = kTrue
      OBVIOUS
    <3>1. Contends(u) /\ flag' = flag /\ lk'[u] = lk[u] /\ Coh(u)' = Coh(u)
      BY <1>1, <1>3, <1>4, Zenon
    <3>2. flag[lk[u]][Coh(u)] = kTrue
      BY <1>7, <3>1, Zenon DEF PetersonInv
    <3> QED
      BY <3>1, <3>2, Zenon
  <2>2. \A u, v \in Threads :
          lk'[u] = lk'[v] /\ Coh(u)' # Coh(v)' /\ Sec(u)' =>
            /\ ~Sec(v)'
            /\ pc'[v] \in {"spin1", "spin2"} => victim'[lk'[v]] = Coh(v)'
    <3> SUFFICES ASSUME NEW u \in Threads, NEW v \in Threads,
                        lk'[u] = lk'[v], Coh(u)' # Coh(v)', Sec(u)'
                 PROVE  /\ ~Sec(v)'
                        /\ pc'[v] \in {"spin1", "spin2"} => victim'[lk'[v]] = Coh(v)'
      OBVIOUS
    <3>1. lk[u] = lk[v] /\ Coh(u) # Coh(v) /\ Sec(u) /\ lk'[v] = lk[v] /\ Coh(v)' = Coh(v)
      BY <1>3, Zenon
    <3>2. ~Sec(v)'
      BY <1>3, <1>7, <3>1, Zenon DEF PetersonInv
    <3> QED
      BY <1>8, <3>1, <3>2, Zenon
  <2>3. \A u \in Threads :
          /\ pc'[u] \in {"spin1", "spin2"} => victim'[lk'[u]] \in Cohorts
          /\ pc'[u] = "spin2" /\ Coh(u)' = "remote" =>
               vbuf'[u] \in Cohorts /\ (vbuf'[u] = "local" => victim'[lk'[u]] = "local")
    BY <1>3, <1>8, Zenon
  <2> QED
    BY <2>1, <2>2, <2>3, Zenon DEF PetersonInv, Cohorts
<1> QED
  BY <1>2, <1>9, Zenon DEF BInv

\* The other cohort has neither won nor can win before t gives up the section.
Wins(t) ==
  \A u \in Threads : lk[u] = lk[t] /\ Coh(u) # Coh(t) =>
    /\ ~Sec(u)
    /\ pc[u] \in {"spin1", "spin2"} => victim[lk[t]] = Coh(u)

\* A turn of the wait loop.
Turn(t, q) ==
  /\ pc[t] \in {"spin1", "spin2"} /\ pc' = [pc EXCEPT ![t] = q]
  /\ q \in {"spin1", "spin2", "faa"}
  /\ q = "faa" => Wins(t)
  /\ q = "spin2" /\ Coh(t) = "remote" => vbuf'[t] = victim[lk[t]]
  /\ \A u \in Threads : u # t => vbuf'[u] = vbuf[u]
  /\ UNCHANGED <<flag, victim, next_ticket, current_ticket, next, ticket_valid, batch_ticket,
                 budget, granted, lk, prev, tk, from_prev, pos, uses>>

LEMMA SpinBInv ==
  ASSUME QInv, BInv, NEW t \in Threads, NEW q, Turn(t, q)
  PROVE  BInv'
<1>1. /\ pc[t] \in {"spin1", "spin2"} /\ pc' = [pc EXCEPT ![t] = q]
      /\ q \in {"spin1", "spin2", "faa"}
      /\ q = "faa" => Wins(t)
      /\ q = "spin2" /\ Coh(t) = "remote" => vbuf'[t] = victim[lk[t]]
      /\ \A u \in Threads : u # t => vbuf'[u] = vbuf[u]
      /\ UNCHANGED <<flag, victim, next_ticket, current_ticket, next, ticket_valid, batch_ticket,
                     budget, granted, lk, prev, tk, from_prev, pos, uses>>
  BY Zenon DEF Turn
<1>2. /\ Local(t) /\ pc'[t] = q /\ (Passed(t)' <=> Passed(t))
      /\ (/\ OrderInv /\ ValidInv /\ BudgetInv /\ ChainInv /\ HoldInv /\ TicketInv /\ ShareInv)'
  BY <1>1, MovesInv, Zenon DEF Moves, Peterson
<1>3. \A u \in Threads :
        /\ Coh(u)' = Coh(u) /\ lk'[u] = lk[u]
        /\ u # t => pc'[u] = pc[u] /\ vbuf'[u] = vbuf[u] /\ (Sec(u)' => Sec(u))
  BY <1>2, LocalView, Zenon DEF View, Same
<1>4. /\ Sec(t)' <=> q = "faa"
      /\ Contends(t)
  BY <1>1, <1>2, Zenon DEF Sec, Passed, Waits, Contends
<1>5. \A u \in Threads : Contends(u)' => Contends(u)
  BY <1>3, <1>4, Zenon DEF Contends
<1>6. PetersonInv
  BY Zenon DEF BInv
<1>7. ASSUME NEW u \in Threads, NEW v \in Threads, lk[u] = lk[v], Coh(u) # Coh(v), Sec(u)'
      PROVE  /\ ~Sec(v)'
             /\ pc'[v] \in {"spin1", "spin2"} => victim[lk[v]] = Coh(v)
  <2>1. CASE u = t
    BY <1>1, <1>2, <1>3, <1>4, <1>7, <2>1, Zenon DEF Wins
  <2>2. CASE v = t
    BY <1>1, <1>2, <1>3, <1>4, <1>6, <1>7, <2>2, Zenon DEF PetersonInv, Wins
  <2>3. CASE u # t /\ v # t
    BY <1>3, <1>6, <1>7, <2>3, Zenon DEF PetersonInv
  <2> QED BY <2>1, <2>2, <2>3, Zenon
<1>8. ASSUME NEW u \in Threads
      PROVE  /\ Contends(u)' => flag[lk[u]][Coh(u)] = kTrue
             /\ pc'[u] \in {"spin1", "spin2"} => victim[lk[u]] \in Cohorts
             /\ pc'[u] = "spin2" /\ Coh(u) = "remote" =>
                  vbuf'[u] \in Cohorts /\ (vbuf'[u] = "local" => victim[lk[u]] = "local")
  <2>1. CASE u = t
    BY <1>1, <1>2, <1>5, <1>6, <2>1, Zenon DEF PetersonInv
  <2>2. CASE u # t
    BY <1>3, <1>5, <1>6, <2>2, Zenon DEF PetersonInv
  <2> QED BY <2>1, <2>2, Zenon
<1>9. PetersonInv'
  <2>1. \A u \in Threads : lk'[u] = lk[u] /\ Coh(u)' = Coh(u)
    BY <1>3, Zenon
  <2>2. victim' = victim /\ flag' = flag
    BY <1>1, Zenon
  <2>3. \A u \in Threads : Contends(u)' => flag'[lk'[u]][Coh(u)'] = kTrue
    BY <1>8, <2>1, <2>2, Zenon
  <2>4. \A u, v \in Threads :
          lk'[u] = lk'[v] /\ Coh(u)' # Coh(v)' /\ Sec(u)' =>
            /\ ~Sec(v)'
            /\ pc'[v] \in {"spin1", "spin2"} => victim'[lk'[v]] = Coh(v)'
    <3> SUFFICES ASSUME NEW u \in Threads, NEW v \in Threads,
                        lk'[u] = lk'[v], Coh(u)' # Coh(v)', Sec(u)'
                 PROVE  /\ ~Sec(v)'
                        /\ pc'[v] \in {"spin1", "spin2"} => victim'[lk'[v]] = Coh(v)'
      OBVIOUS
    <3>1. lk[u] = lk[v] /\ Coh(u) # Coh(v) /\ lk'[v] = lk[v] /\ Coh(v)' = Coh(v)
      BY <2>1, Zenon
    <3> QED
      BY <1>7, <2>2, <3>1, Zenon
  <2>5. \A u \in Threads :
          /\ pc'[u] \in {"spin1", "spin2"} => victim'[lk'[u]] \in Cohorts
          /\ pc'[u] = "spin2" /\ Coh(u)' = "remote" =>
               vbuf'[u] \in Cohorts /\ (vbuf'[u] = "local" => victim'[lk'[u]] = "local")
    BY <1>8, <2>1, <2>2, Zenon
  <2> QED
    BY <2>3, <2>4, <2>5, Zenon DEF PetersonInv, Cohorts
<1> QED
  BY <1>2, <1>9, Zenon DEF BInv

LEMMA SpinLocalBInv ==
  ASSUME QInv, BInv, NEW t \in Threads, Coh(t) = "local", SpinLocal(t)
  PROVE  BInv'
<1>1. UNCHANGED <<flag, victim, next_ticket, current_ticket, next, ticket_valid, batch_ticket,
                  budget, granted, lk, prev, tk, from_prev, vbuf, pos, uses>>
  BY Zenon DEF SpinLocal, lockVars, descVars, threadVars, history
<1>2. \A u \in Threads : Coh(u) # Coh(t) => Coh(u) = "remote"
  BY CohType, Zenon DEF Cohorts
<1>3. PetersonInv
  BY Zenon DEF BInv
<1>4. CASE pc[t] = "spin1" /\ flag[lk[t]]["remote"] = kTrue
  <2>1. pc' = [pc EXCEPT ![t] = "spin2"]
    BY <1>4, Zenon DEF SpinLocal, Goto
  <2>t. Turn(t, "spin2")
    BY <1>1, <1>4, <2>1, Zenon DEF Turn
  <2> QED BY <2>t, SpinBInv, Zenon
<1>5. CASE pc[t] = "spin1" /\ flag[lk[t]]["remote"] # kTrue
  <2>1. pc' = [pc EXCEPT ![t] = "faa"]
    BY <1>5, Zenon DEF SpinLocal, Goto
  <2>2. \A u \in Threads : lk[u] = lk[t] /\ Coh(u) # Coh(t) => ~Contends(u)
    BY <1>2, <1>3, <1>5, Zenon DEF PetersonInv
  <2>3. Wins(t)
    BY <2>2, Zenon DEF Contends, Wins
  <2>t. Turn(t, "faa")
    BY <1>1, <1>5, <2>1, <2>3, Zenon DEF Turn
  <2> QED BY <2>t, SpinBInv, Zenon
<1>6. CASE pc[t] = "spin2" /\ victim[lk[t]] = "local"
  <2>1. pc' = [pc EXCEPT ![t] = "spin1"]
    BY <1>6, Zenon DEF SpinLocal, Goto
  <2>t. Turn(t, "spin1")
    BY <1>1, <1>6, <2>1, Zenon DEF Turn
  <2> QED BY <2>t, SpinBInv, Zenon
<1>7. CASE pc[t] = "spin2" /\ victim[lk[t]] # "local"
  <2>1. pc' = [pc EXCEPT ![t] = "faa"]
    BY <1>7, Zenon DEF SpinLocal, Goto
  <2>2. victim[lk[t]] = "remote"
    BY <1>3, <1>7, Zenon DEF PetersonInv, Cohorts
  <2>3. \A u \in Threads : lk[u] = lk[t] /\ Coh(u) # Coh(t) => ~Sec(u)
    BY <1>3, <1>7, Zenon DEF PetersonInv
  <2>4. Wins(t)
    BY <1>2, <2>2, <2>3, Zenon DEF Wins
  <2>t. Turn(t, "faa")
    BY <1>1, <1>7, <2>1, <2>4, Zenon DEF Turn
  <2> QED BY <2>t, SpinBInv, Zenon
<1> QED
  BY <1>4, <1>5, <1>6, <1>7, Zenon DEF SpinLocal, Goto

LEMMA SpinRemoteBInv ==
  ASSUME QInv, BInv, NEW t \in Threads, Coh(t) = "remote", SpinRemote(t)
  PROVE  BInv'
<1>1. UNCHANGED <<flag, victim, next_ticket, current_ticket, next, ticket_valid, batch_ticket,
                  budget, granted, lk, prev, tk, from_prev, pos, uses>>
  BY Zenon DEF SpinRemote, lockVars, descVars, history
<1>2. \A u \in Threads : Coh(u) # Coh(t) => Coh(u) = "local"
  BY CohType, Zenon DEF Cohorts
<1>3. PetersonInv
  BY Zenon DEF BInv
<1>4. \A u \in Threads : u # t => vbuf'[u] = vbuf[u]
  BY Zenon DEF SpinRemote, QInv, TypeOK
<1>5. CASE pc[t] = "spin1"
  <2>1. pc' = [pc EXCEPT ![t] = "spin2"] /\ vbuf'[t] = victim[lk[t]]
    BY <1>5, Zenon DEF SpinRemote, Goto, QInv, TypeOK
  <2>t. Turn(t, "spin2")
    BY <1>1, <1>4, <1>5, <2>1, Zenon DEF Turn
  <2> QED BY <2>t, SpinBInv, Zenon
<1>6. CASE pc[t] = "spin2" /\ flag[lk[t]]["local"] # kTrue
  <2>1. pc' = [pc EXCEPT ![t] = "faa"]
    BY <1>6, Zenon DEF SpinRemote, Goto
  <2>2. \A u \in Threads : lk[u] = lk[t] /\ Coh(u) # Coh(t) => ~Contends(u)
    BY <1>2, <1>3, <1>6, Zenon DEF PetersonInv
  <2>3. Wins(t)
    BY <2>2, Zenon DEF Contends, Wins
  <2>t. Turn(t, "faa")
    BY <1>1, <1>4, <1>6, <2>1, <2>3, Zenon DEF Turn
  <2> QED BY <2>t, SpinBInv, Zenon
<1>7. CASE pc[t] = "spin2" /\ vbuf[t] # "remote"
  <2>1. pc' = [pc EXCEPT ![t] = "faa"]
    BY <1>7, Zenon DEF SpinRemote, Goto
  <2>2. victim[lk[t]] = "local"
    BY <1>3, <1>7, Zenon DEF PetersonInv, Cohorts
  <2>3. \A u \in Threads : lk[u] = lk[t] /\ Coh(u) # Coh(t) => ~Sec(u)
    BY <1>3, <1>7, <2>2, Zenon DEF PetersonInv
  <2>4. Wins(t)
    BY <1>2, <2>2, <2>3, Zenon DEF Wins
  <2>t. Turn(t, "faa")
    BY <1>1, <1>4, <1>7, <2>1, <2>4, Zenon DEF Turn
  <2> QED BY <2>t, SpinBInv, Zenon
<1>8. CASE pc[t] = "spin2" /\ flag[lk[t]]["local"] = kTrue /\ vbuf[t] = "remote"
  <2>1. pc' = [pc EXCEPT ![t] = "spin1"]
    BY <1>8, Zenon DEF SpinRemote, Goto
  <2>t. Turn(t, "spin1")
    BY <1>1, <1>4, <1>8, <2>1, Zenon DEF Turn
  <2> QED BY <2>t, SpinBInv, Zenon
<1> QED
  BY <1>5, <1>6, <1>7, <1>8, Zenon DEF SpinRemote, Goto

\* The flag goes down with the last of a batch, the only contender of its queue.
LEMMA UnlockPetersonsBInv ==
  ASSUME QInv, BInv, NEW t \in Threads, UnlockPetersons(t)
  PROVE  BInv'
<1>1. /\ pc[t] \in {"clear", "clearlast"}
      /\ flag' = [flag EXCEPT ![lk[t]][Coh(t)] = kFalse]
      /\ UNCHANGED <<victim, next_ticket, current_ticket, next, ticket_valid, batch_ticket,
                     budget, granted, lk, prev, tk, from_prev, vbuf, pos, uses>>
  BY Zenon DEF UnlockPetersons, Goto, descVars, threadVars, history
<1>2. PICK q \in {"valid", "validlast"} : pc' = [pc EXCEPT ![t] = q]
  BY Zenon DEF UnlockPetersons, Goto
<1>3. /\ Local(t) /\ pc'[t] = q /\ (Passed(t)' <=> Passed(t))
      /\ (/\ OrderInv /\ ValidInv /\ BudgetInv /\ ChainInv /\ HoldInv /\ TicketInv /\ ShareInv)'
  BY <1>1, <1>2, MovesInv, Zenon DEF Moves
<1>4. /\ \A u \in Threads :
           /\ Coh(u)' = Coh(u) /\ lk'[u] = lk[u]
           /\ u # t => pc'[u] = pc[u] /\ vbuf'[u] = vbuf[u] /\ (Sec(u)' => Sec(u))
      /\ ~Contends(t)' /\ ~Sec(t)'
  BY <1>1, <1>3, LocalView, Zenon DEF View, Same, Sec, Passed, Waits, Contends
<1>5. \A u \in Threads : Contends(u)' => Contends(u) /\ ~(lk[u] = lk[t] /\ Coh(u) = Coh(t))
  BY <1>1, <1>4, OneContender, Zenon DEF Contends, Drawn
<1>6. \A u \in Threads : ~(lk[u] = lk[t] /\ Coh(u) = Coh(t)) =>
        flag'[lk[u]][Coh(u)] = flag[lk[u]][Coh(u)]
  <2>1. \A u \in Threads : Coh(u) \in Cohorts
    BY CohType, Zenon
  <2> QED
    BY <1>1, <2>1 DEF QInv, TypeOK
<1>7. PetersonInv'
  BY <1>1, <1>3, <1>4, <1>5, <1>6 DEF BInv, PetersonInv
<1> QED
  BY <1>3, <1>7, Zenon DEF BInv

-----------------------------------------------------------------------------
(***************************************************************************)
(* Steps that only look.                                                   *)
(***************************************************************************)
LEMMA LookBInv ==
  ASSUME QInv, BInv, NEW t \in Threads,
         AwaitBudget(t) \/ CheckNext(t) \/ RecheckNext(t) \/ UnlockCheckNext(t) \/ AwaitReleasable(t)
  PROVE  BInv'
<1>1. UNCHANGED <<flag, victim, next_ticket, current_ticket, next, ticket_valid, batch_ticket,
                  budget, granted, lk, prev, tk, from_prev, vbuf, pos, uses>>
  BY Zenon DEF AwaitBudget, CheckNext, RecheckNext, UnlockCheckNext, AwaitReleasable,
               lockVars, descVars, threadVars, history
<1>2. CASE AwaitBudget(t)
  <2>1. Looks(t, "gotbudget") /\ pc' = [pc EXCEPT ![t] = "gotbudget"]
    BY <1>2, Zenon DEF AwaitBudget, Goto, Looks, Bud
  <2> QED BY <1>1, <2>1, LooksInv, Zenon
<1>3. CASE CheckNext(t)
  <2>1. CASE next[Coh(t)][t] = None
    <3>1. Looks(t, "clear") /\ pc' = [pc EXCEPT ![t] = "clear"]
      BY <1>3, <2>1, Zenon DEF CheckNext, Goto, Looks
    <3> QED BY <1>1, <3>1, LooksInv, Zenon
  <2>2. CASE next[Coh(t)][t] # None /\ budget[Coh(t)][t] = 1
    <3>1. Looks(t, "clearlast") /\ pc' = [pc EXCEPT ![t] = "clearlast"]
      BY <1>3, <2>2, Zenon DEF CheckNext, Goto, Looks
    <3> QED BY <1>1, <3>1, LooksInv, Zenon
  <2>3. CASE next[Coh(t)][t] # None /\ budget[Coh(t)][t] # 1
    <3>1. Looks(t, "passticket") /\ pc' = [pc EXCEPT ![t] = "passticket"]
      BY <1>3, <2>3, Zenon DEF CheckNext, Goto, Looks, Bud
    <3> QED BY <1>1, <3>1, LooksInv, Zenon
  <2> QED BY <2>1, <2>2, <2>3, Zenon
<1>4. CASE RecheckNext(t)
  <2>1. PICK q : Looks(t, q) /\ pc' = [pc EXCEPT ![t] = q]
    BY <1>4, Zenon DEF RecheckNext, Goto, Looks, AfterTicket
  <2> QED BY <1>1, <2>1, LooksInv, Zenon
<1>5. CASE UnlockCheckNext(t)
  <2>1. PICK q : Looks(t, q) /\ pc' = [pc EXCEPT ![t] = q]
    BY <1>5, Zenon DEF UnlockCheckNext, Goto, Looks, Leaving
  <2> QED BY <1>1, <2>1, LooksInv, Zenon
<1>6. CASE AwaitReleasable(t)
  <2>1. Looks(t, "grant") /\ pc' = [pc EXCEPT ![t] = "grant"]
    BY <1>6, Zenon DEF AwaitReleasable, Goto, Looks, Leaving
  <2> QED BY <1>1, <2>1, LooksInv, Zenon
<1> QED
  BY <1>2, <1>3, <1>4, <1>5, <1>6, Zenon

\* The compare-and-swap fails, or a granted thread goes on to wait for its turn.
LEMMA WaitOnBInv ==
  ASSUME QInv, BInv, NEW t \in Threads,
         \/ CasTail(t) /\ tail[lk[t]][Coh(t)] # t
         \/ AwaitPredecessor(t) /\ ~from_prev[t]
  PROVE  BInv'
<1>1. CASE CasTail(t) /\ tail[lk[t]][Coh(t)] # t
  <2>1. /\ pc[t] = "cas" /\ pc' = [pc EXCEPT ![t] = "waitrel"]
        /\ UNCHANGED <<flag, victim, next_ticket, current_ticket, next, ticket_valid, batch_ticket,
                       budget, granted, lk, prev, tk, from_prev, vbuf, pos, uses>>
    BY <1>1, Zenon DEF CasTail, Goto, descVars, history
  <2>2. Looks(t, "waitrel")
    BY <2>1, Zenon DEF Looks, Leaving
  <2> QED BY <2>1, <2>2, LooksInv, Zenon
<1>2. CASE AwaitPredecessor(t) /\ ~from_prev[t]
  <2>1. /\ pc[t] = "waitgrant" /\ pc' = [pc EXCEPT ![t] = "waitturn"]
        /\ UNCHANGED <<flag, victim, next_ticket, current_ticket, next, ticket_valid, batch_ticket,
                       budget, granted, lk, prev, tk, from_prev, vbuf, pos>>
        /\ uses' = [uses EXCEPT ![lk[t]] = IF from_prev[t] THEN @ + 1 ELSE @]
    BY <1>2, Zenon DEF AwaitPredecessor, Goto, lockVars, descVars, threadVars
  <2>2. uses' = uses
    BY <1>2, <2>1, Zenon DEF QInv, TypeOK
  <2>3. Looks(t, "waitturn")
    BY <2>1, Zenon DEF Looks
  <2> QED BY <2>1, <2>2, <2>3, LooksInv, Zenon
<1> QED
  BY <1>1, <1>2, Zenon

-----------------------------------------------------------------------------
(***************************************************************************)
(* Arrival: what a thread learns of its predecessor.                       *)
(***************************************************************************)
\* A predecessor with ticket_valid_ set is past drawing, and so are all ahead
\* of it: the thread that saw this is the next to draw.
LEMMA ReadPrevValidBInv ==
  ASSUME QInv, BInv, NEW t \in Threads, ReadPrevValid(t)
  PROVE  BInv'
<1>1. /\ pc[t] = "readvalid" /\ pc' = [pc EXCEPT ![t] = "release"]
      /\ tk' = [tk EXCEPT ![t] = ticket_valid[Coh(t)][prev[t]]]
      /\ UNCHANGED <<flag, victim, next_ticket, current_ticket, next, ticket_valid, batch_ticket,
                     budget, granted, lk, prev, from_prev, vbuf, pos, uses>>
  BY Zenon DEF ReadPrevValid, Goto, lockVars, descVars, history
<1>2. PICK p \in Threads : p = prev[t] /\ Queued(p) /\ SameQueue(t, p) /\ pos[t] = pos[p] + 1
  <2>1. Queued(t) /\ prev[t] # None /\ granted[Coh(t)][t] = kFalse
    BY <1>1, Zenon DEF Queued, QInv, PrevInv, Linking
  <2> QED
    BY <2>1, Zenon DEF QInv, TypeOK, PrevInv
<1>3. Coh(p) = Coh(t) /\ tk'[t] = Valid(p) /\ pc'[t] = "release"
  BY <1>1, <1>2, Zenon DEF SameQueue, Valid, QInv, TypeOK
<1>4. Local(t) /\ (\A u \in Threads : Bud(u)' = Bud(u) /\ Valid(u)' = Valid(u) /\ Bt(u)' = Bt(u))
  <2>1. \A u \in Threads : Coh(u)' = Coh(u)
    BY <1>1, CohStable, Zenon
  <2>2. \A u \in Threads : Bud(u)' = Bud(u) /\ Valid(u)' = Valid(u) /\ Bt(u)' = Bt(u)
    BY <1>1, <2>1, Zenon DEF Bud, Valid, Bt
  <2>3. \A u \in Threads : u # t => pc'[u] = pc[u] /\ tk'[u] = tk[u]
    BY <1>1, Zenon DEF QInv, TypeOK
  <2> QED
    BY <1>1, <1>3, <2>2, <2>3, Zenon DEF Local, Same, Queued
<1>5. /\ Bud(t)' = Bud(t) /\ Valid(t)' = Valid(t) /\ Bt(t)' = Bt(t) /\ from_prev'[t] = from_prev[t]
      /\ Coh(t)' = Coh(t)
  BY <1>1, <1>4, LocalView, Zenon
<1>6. OrderInv /\ ValidInv /\ BudgetInv /\ ChainInv /\ HoldInv /\ TicketInv /\ ShareInv /\ PetersonInv
  BY Zenon DEF BInv
<1>7. pc[t] \in Waits /\ pc'[t] \in Waits /\ pc[t] \notin Drawn \cup Past /\ pc'[t] \notin Drawn \cup Past
  BY <1>1, <1>3, Zenon DEF Waits, Drawn, Past, Holds, Leaving
<1>8. (Passed(t)' <=> Passed(t)) /\ Tk(t)' = Tk(t)
  BY <1>5, <1>7, Zenon DEF Passed, Tk
<1>9. /\ Batch(t)' <=> Batch(t)
      /\ HasTk(t)' <=> HasTk(t)
      /\ ~Holding(t)' /\ ~Over(t) /\ ~Over(t)' /\ pc[t] \notin Holds
  BY <1>1, <1>3, <1>5, <1>7, <1>8, Zenon DEF Batch, HasTk, Holding, Over, Past, Leaving, Holds
<1>10. Sec(t)' => Sec(t)
  BY <1>3, <1>8, Zenon DEF Sec
<1>11. BudgetOf(t)'
  <2>1. ~from_prev[t] /\ BudgetOf(t) /\ Queued(t)
    BY <1>1, <1>6, <1>7, Zenon DEF BudgetInv, BudgetOf, Queued
  <2>2. pc'[t] \notin Peterson \cup {"faa", "faawrite", "gotbudget", "passticket", "passbudget"}
    BY <1>3, Zenon DEF Peterson
  <2> QED
    BY <1>5, <1>7, <2>1, <2>2, Zenon DEF BudgetOf
<1>12. OrderInv'
  <2>1. CASE Valid(p) # kTrue
    <3>1. Blocked(t) => Blocked(t)'
      BY <1>1, <1>3, <1>5, <2>1, Zenon DEF Blocked, Waits
    <3> QED BY <1>4, <1>6, <1>7, <3>1, KeepOrder, Zenon
  <2>2. CASE Valid(p) = kTrue
    <3>1. pc[p] \in Past
      BY <1>2, <1>6, <2>2, Zenon DEF ValidInv
    <3>2. \A u \in Threads : u # t => (pc'[u] = pc[u] /\ (Blocked(u)' <=> Blocked(u)))
      BY <1>4, LocalView, Zenon DEF Same, View
    <3>3. \A u \in Threads : Queued(u) /\ SameQueue(u, t) /\ pos[u] < pos[t] => pc[u] \in Past
      <4>1. ASSUME NEW u \in Threads, Queued(u), SameQueue(u, t), pos[u] < pos[t] PROVE pc[u] \in Past
        <5>1. pos[u] \in Nat /\ pos[p] \in Nat /\ pos[t] \in Nat /\ SameQueue(u, p)
          BY <1>2, <4>1, Zenon DEF QInv, TypeOK, SameQueue
        <5>2. u = p \/ pos[u] < pos[p]
          <6>1. pos[u] = pos[p] => u = p
            BY <1>2, <4>1, <5>1, Zenon DEF QInv, PosInv
          <6> QED BY <1>2, <4>1, <5>1, <6>1
        <5>3. ~Blocked(p)
          BY <1>6, <3>1, BlockedIsOut, Zenon
        <5> QED
          BY <1>2, <1>6, <3>1, <4>1, <5>1, <5>2, <5>3, Zenon DEF OrderInv
      <4> QED BY <4>1, Zenon
    <3>4. \A u, v \in Threads :
            /\ (SameQueue(u, v)' <=> SameQueue(u, v)) /\ pos'[u] = pos[u]
            /\ (Queued(u)' <=> Queued(u))
      BY <1>4, LocalView, Zenon
    <3> QED
      BY <1>6, <1>7, <3>2, <3>3, <3>4, Zenon DEF OrderInv
  <2> QED BY <2>1, <2>2, Zenon
<1>13. ValidInv'
  BY <1>1, <1>2, <1>3, <1>4, <1>5, <1>6, <1>7, <1>9, KeepValid, Zenon
<1>14. BudgetInv'
  BY <1>3, <1>4, <1>5, <1>6, <1>11, KeepBudget, Zenon
<1>15. ChainInv'
  BY <1>1, <1>4, <1>5, <1>6, <1>7, <1>8, <1>9, KeepChain, Zenon
<1>16. HoldInv' /\ ShareInv'
  <2>1. HoldInv'
    BY <1>1, <1>4, <1>6, <1>9, KeepHold, Zenon
  <2>2. ShareInv'
    BY <1>4, <1>5, <1>6, <1>8, <1>9, KeepShare, Zenon
  <2> QED BY <2>1, <2>2, Zenon
<1>17. TicketInv'
  BY <1>1, <1>3, <1>4, <1>6, <1>8, <1>9, KeepTicket, Zenon
<1>18. PetersonInv'
  BY <1>1, <1>3, <1>4, <1>6, <1>10, KeepPeterson, Zenon
<1> QED
  BY <1>12, <1>13, <1>14, <1>15, <1>16, <1>17, <1>18, Zenon DEF BInv

\* A step of t that writes no descriptor but its own.
LEMMA OwnStep ==
  ASSUME QInv, NEW t \in Threads, NEW q, Queued(t), pc' = [pc EXCEPT ![t] = q],
         q \notin {"idle", "swap"},
         \A u \in Threads : u # t =>
           /\ tk'[u] = tk[u] /\ from_prev'[u] = from_prev[u] /\ vbuf'[u] = vbuf[u]
           /\ \A c \in Cohorts : /\ ticket_valid'[c][u] = ticket_valid[c][u]
                                 /\ batch_ticket'[c][u] = batch_ticket[c][u]
                                 /\ budget'[c][u] = budget[c][u],
         UNCHANGED <<next, granted, lk, prev, pos>>
  PROVE  Local(t) /\ pc'[t] = q /\ Coh(t)' = Coh(t)
<1>1. pc'[t] = q /\ \A u \in Threads : u # t => pc'[u] = pc[u]
  BY Zenon DEF QInv, TypeOK
<1>2. \A u \in Threads : Coh(u)' = Coh(u) /\ Coh(u) \in Cohorts
  BY CohStable, CohType, Zenon
<1>3. ASSUME NEW u \in Threads, u # t
      PROVE  Bud(u)' = Bud(u) /\ Valid(u)' = Valid(u) /\ Bt(u)' = Bt(u)
  <2>1. PICK c \in Cohorts : Coh(u) = c /\ Coh(u)' = c
    BY <1>2, Zenon
  <2>2. /\ ticket_valid'[c][u] = ticket_valid[c][u] /\ budget'[c][u] = budget[c][u]
        /\ batch_ticket'[c][u] = batch_ticket[c][u]
    BY <1>3, Zenon
  <2> QED
    BY <2>1, <2>2, Zenon DEF Bud, Valid, Bt
<1> QED
  BY <1>1, <1>2, <1>3, Zenon DEF Local, Same, Queued

\* After it has seen ticket_valid_, a thread goes on to draw: it cannot also have
\* been passed a batch.
LEMMA ReleasePrevBInv ==
  ASSUME QInv, BInv, NEW t \in Threads, ReleasePrev(t)
  PROVE  BInv'
<1>1. /\ pc[t] = "release" /\ pc' = [pc EXCEPT ![t] = IF tk[t] # kTrue THEN "waitbudget" ELSE "setbudget"]
      /\ tk' = [tk EXCEPT ![t] = 0]
      /\ UNCHANGED <<flag, victim, next_ticket, current_ticket, next, ticket_valid, batch_ticket,
                     budget, granted, lk, prev, from_prev, vbuf, pos, uses>>
  BY Zenon DEF ReleasePrev, Goto, lockVars, history
<1>2. Queued(t) /\ \A u \in Threads : u # t => tk'[u] = tk[u]
  BY <1>1, Zenon DEF Queued, QInv, TypeOK
<1>3. PICK q \in {"waitbudget", "setbudget"} :
        pc' = [pc EXCEPT ![t] = q] /\ (q = "setbudget" <=> tk[t] = kTrue)
  BY <1>1, Zenon
<1>4. Local(t) /\ pc'[t] = q /\ Coh(t)' = Coh(t)
  BY <1>1, <1>2, <1>3, OwnStep, Zenon
<1>5. Bud(t)' = Bud(t) /\ Valid(t)' = Valid(t) /\ Bt(t)' = Bt(t) /\ from_prev'[t] = from_prev[t]
  BY <1>1, <1>4, Zenon DEF Bud, Valid, Bt
<1>6. BudgetOf(t) /\ BudgetInv /\ PetersonInv /\ ~from_prev[t]
  <2>1. BudgetOf(t) /\ BudgetInv /\ PetersonInv
    BY Zenon DEF BInv, BudgetInv
  <2> QED
    BY <1>1, <2>1, Zenon DEF BudgetOf, Past, Drawn, Holds, Leaving
<1>7. tk[t] = kTrue => ~Passed(t)
  <2>1. /\ prev[t] \in Threads /\ Queued(prev[t]) /\ Coh(prev[t]) = Coh(t)
        /\ next[Coh(t)][prev[t]] = t
    BY <1>1, <1>2, ZenonT(40) DEF QInv, TypeOK, PrevInv, Linking, SameQueue
  <2>2. tk[t] = kTrue => Valid(prev[t]) = kTrue
    BY <1>1, Zenon DEF BInv, ValidInv
  <2> QED
    BY <2>1, <2>2, Zenon DEF BInv, ValidInv, Suc, Batch
<1>8. /\ pc[t] \in Waits /\ pc[t] \notin Drawn \cup Past \cup Holds
      /\ pc'[t] \notin Drawn \cup Past \cup Holds \cup Peterson
      /\ pc'[t] \in Waits <=> q = "waitbudget"
  BY <1>1, <1>4, Zenon DEF Waits, Drawn, Past, Holds, Leaving, Peterson
<1>9. Passed(t)' <=> Passed(t)
  BY <1>3, <1>4, <1>5, <1>7, <1>8, Zenon DEF Passed
<1>10. Kept(t)
  <2>1. (Batch(t)' <=> Batch(t)) /\ (HasTk(t)' <=> HasTk(t))
    BY <1>5, <1>8, <1>9, Zenon DEF Batch, HasTk
  <2>2. HasTk(t) => Tk(t)' = Tk(t)
    BY <1>5, <1>8, <1>9, Zenon DEF HasTk, Tk, Passed
  <2>3. (Holding(t)' <=> Holding(t)) /\ (Over(t)' <=> Over(t))
    BY <1>8, Zenon DEF Holding, Over, Holds
  <2> QED
    BY <1>5, <1>8, <2>1, <2>2, <2>3, Zenon DEF Kept
<1>11. BudgetOf(t)'
  <2>1. pc'[t] \notin {"faa", "faawrite", "gotbudget", "passticket", "passbudget"}
    BY <1>4, Zenon
  <2> QED
    BY <1>2, <1>4, <1>5, <1>6, <1>8, <2>1, Zenon DEF BudgetOf
<1>12. Blocked(t) => Blocked(t)'
  BY <1>1, <1>3, <1>4, <1>5, <1>8, Zenon DEF Blocked
<1>13. (/\ OrderInv /\ ValidInv /\ BudgetInv /\ ChainInv /\ HoldInv /\ TicketInv /\ ShareInv)'
  BY <1>1, <1>4, <1>5, <1>8, <1>10, <1>11, <1>12, KeptInv, Zenon
<1>14. PetersonInv'
  <2>1. Sec(t)' => Sec(t)
    BY <1>4, <1>9, Zenon DEF Sec
  <2> QED
    BY <1>1, <1>4, <1>6, <2>1, KeepPeterson, Zenon
<1> QED
  BY <1>13, <1>14, Zenon DEF BInv

LEMMA TakeBatchBInv ==
  ASSUME QInv, BInv, NEW t \in Threads, TakeBatch(t)
  PROVE  BInv'
<1>1. /\ pc[t] = "gotbudget"
      /\ UNCHANGED <<flag, victim, next_ticket, current_ticket, next, ticket_valid, batch_ticket,
                     budget, granted, lk, prev, vbuf, pos, uses>>
      /\ Bud(t) # Budget(Coh(t)) =>
           /\ pc' = [pc EXCEPT ![t] = "checknext"]
           /\ tk' = [tk EXCEPT ![t] = Bt(t)] /\ from_prev' = [from_prev EXCEPT ![t] = TRUE]
      /\ Bud(t) = Budget(Coh(t)) =>
           /\ pc' = [pc EXCEPT ![t] = "setbudget"]
           /\ tk' = [tk EXCEPT ![t] = tk[t]] /\ from_prev' = [from_prev EXCEPT ![t] = FALSE]
  BY Zenon DEF TakeBatch, Goto, lockVars, descVars, history, Bud, Bt
<1>2. Queued(t) /\ \A u \in Threads : u # t => tk'[u] = tk[u] /\ from_prev'[u] = from_prev[u]
  BY <1>1, Zenon DEF Queued, QInv, TypeOK
<1>3. PICK q \in {"checknext", "setbudget"} :
        /\ pc' = [pc EXCEPT ![t] = q] /\ from_prev'[t] = (q = "checknext")
        /\ q = "checknext" <=> Bud(t) # Budget(Coh(t))
        /\ q = "checknext" => tk'[t] = Bt(t)
  <2>1. CASE Bud(t) # Budget(Coh(t))
    BY <1>1, <2>1, Zenon DEF QInv, TypeOK
  <2>2. CASE Bud(t) = Budget(Coh(t))
    BY <1>1, <2>2, Zenon DEF QInv, TypeOK
  <2> QED BY <2>1, <2>2, Zenon
<1>4. Local(t) /\ pc'[t] = q /\ Coh(t)' = Coh(t)
  BY <1>1, <1>2, <1>3, OwnStep, Zenon
<1>5. Bud(t)' = Bud(t) /\ Valid(t)' = Valid(t) /\ Bt(t)' = Bt(t)
  BY <1>1, <1>4, Zenon DEF Bud, Valid, Bt
<1>6. BudgetOf(t) /\ BudgetInv /\ PetersonInv /\ ~from_prev[t] /\ Bud(t) # NoBudget
  <2>1. BudgetOf(t) /\ BudgetInv /\ PetersonInv
    BY Zenon DEF BInv, BudgetInv
  <2> QED
    BY <1>1, <2>1, Zenon DEF BudgetOf, Past, Drawn, Holds, Leaving
<1>8. /\ pc[t] \in Waits /\ pc[t] \notin Drawn \cup Past \cup Holds
      /\ pc'[t] \notin Past \cup Holds \cup Peterson \cup Waits
      /\ pc'[t] \in Drawn <=> q = "checknext"
  BY <1>1, <1>4, Zenon DEF Waits, Drawn, Past, Holds, Leaving, Peterson
<1>9. (Passed(t) <=> q = "checknext") /\ ~Passed(t)'
  BY <1>3, <1>4, <1>6, <1>8, Zenon DEF Passed
<1>10. Kept(t)
  <2>1. (Batch(t)' <=> Batch(t)) /\ (HasTk(t)' <=> HasTk(t))
    BY <1>3, <1>6, <1>8, <1>9, Zenon DEF Batch, HasTk
  <2>2. HasTk(t) => Tk(t)' = Tk(t)
    BY <1>3, <1>8, <1>9, Zenon DEF HasTk, Tk
  <2>3. (Holding(t)' <=> Holding(t)) /\ (Over(t)' <=> Over(t))
    BY <1>8, Zenon DEF Holding, Over, Holds
  <2> QED
    BY <1>5, <1>8, <2>1, <2>2, <2>3, Zenon DEF Kept
<1>11. BudgetOf(t)'
  <2>1. pc'[t] \notin {"faa", "faawrite", "gotbudget", "passticket", "passbudget"}
    BY <1>4, Zenon
  <2> QED
    BY <1>2, <1>3, <1>4, <1>5, <1>6, <1>8, <2>1, Zenon DEF BudgetOf
<1>12. ~Blocked(t) /\ pc'[t] \notin {"swap", "link", "faawrite", "recheck", "give", "release", "passbudget"}
  BY <1>1, <1>4, <1>6, Zenon DEF Blocked, Waits
<1>13. (/\ OrderInv /\ ValidInv /\ BudgetInv /\ ChainInv /\ HoldInv /\ TicketInv /\ ShareInv)'
  BY <1>1, <1>4, <1>5, <1>10, <1>11, <1>12, KeptInv, Zenon
<1>14. PetersonInv'
  <2>1. Sec(t)' => Sec(t)
    BY <1>4, <1>9, Zenon DEF Sec
  <2>2. pc'[t] \notin {"victim", "spin1", "spin2"}
    BY <1>4, Zenon
  <2> QED
    BY <1>1, <1>4, <1>6, <2>1, <2>2, KeepPeterson, Zenon
<1> QED
  BY <1>13, <1>14, Zenon DEF BInv

LEMMA SetBudgetBInv ==
  ASSUME QInv, BInv, NEW t \in Threads, SetBudget(t)
  PROVE  BInv'
<1>1. /\ pc[t] = "setbudget" /\ pc' = [pc EXCEPT ![t] = "flag"]
      /\ budget' = [budget EXCEPT ![Coh(t)][t] = Budget(Coh(t))]
      /\ UNCHANGED <<flag, victim, next_ticket, current_ticket, next, ticket_valid, batch_ticket,
                     granted, lk, prev, tk, from_prev, vbuf, pos, uses>>
  BY Zenon DEF SetBudget, Goto, lockVars, threadVars, history
<1>2. /\ Queued(t) /\ budget'[Coh(t)][t] = Budget(Coh(t))
      /\ \A u \in Threads : u # t => \A c \in Cohorts : budget'[c][u] = budget[c][u]
  BY <1>1, CohType, Zenon DEF Queued, QInv, TypeOK
<1>3. "flag" \notin {"idle", "swap"}
  BY Zenon
<1>4. Local(t) /\ pc'[t] = "flag" /\ Coh(t)' = Coh(t)
  BY <1>1, <1>2, <1>3, OwnStep, Zenon
<1>5. /\ Bud(t)' = Budget(Coh(t)) /\ Valid(t)' = Valid(t) /\ Bt(t)' = Bt(t)
      /\ tk'[t] = tk[t] /\ from_prev'[t] = from_prev[t]
  BY <1>1, <1>2, <1>4, Zenon DEF Bud, Valid, Bt
<1>6. BudgetOf(t) /\ BudgetInv /\ PetersonInv /\ ~from_prev[t]
  <2>1. BudgetOf(t) /\ BudgetInv /\ PetersonInv
    BY Zenon DEF BInv, BudgetInv
  <2> QED
    BY <1>1, <2>1, Zenon DEF BudgetOf, Past, Drawn, Holds, Leaving
<1>8. /\ pc[t] \notin Waits \cup Drawn \cup Past \cup Holds
      /\ pc'[t] \notin Waits \cup Drawn \cup Past \cup Holds
  BY <1>1, <1>4, Zenon DEF Waits, Drawn, Past, Holds, Leaving, Peterson
<1>9. ~Passed(t) /\ ~Passed(t)'
  BY <1>8, Zenon DEF Passed
<1>10. Kept(t)
  <2>1. ~Batch(t)' /\ ~Batch(t) /\ ~HasTk(t)' /\ ~HasTk(t)
    BY <1>5, <1>6, <1>8, <1>9, Zenon DEF Batch, HasTk
  <2>3. (Holding(t)' <=> Holding(t)) /\ (Over(t)' <=> Over(t))
    BY <1>8, Zenon DEF Holding, Over, Holds
  <2> QED
    BY <1>5, <1>8, <2>1, <2>3, Zenon DEF Kept
<1>11. BudgetOf(t)'
  <2>1. 1 <= Budget(Coh(t)) /\ Budget(Coh(t)) <= Budget(Coh(t))
    BY BudgetAssumption DEF Budget
  <2>2. pc'[t] \notin {"gotbudget", "passticket", "passbudget"}
    BY <1>4, Zenon
  <2> QED
    BY <1>4, <1>5, <1>6, <1>8, <2>1, <2>2, Zenon DEF BudgetOf
<1>12. ~Blocked(t) /\ pc'[t] \notin {"swap", "link", "faawrite", "recheck", "give", "release", "passbudget"}
  BY <1>1, <1>4, Zenon DEF Blocked, Waits
<1>13. (/\ OrderInv /\ ValidInv /\ BudgetInv /\ ChainInv /\ HoldInv /\ TicketInv /\ ShareInv)'
  BY <1>1, <1>4, <1>5, <1>10, <1>11, <1>12, KeptInv, Zenon
<1>14. PetersonInv'
  <2>1. ~Sec(t)' /\ pc'[t] \notin {"victim", "spin1", "spin2"}
    BY <1>4, <1>9, Zenon DEF Sec
  <2> QED
    BY <1>1, <1>4, <1>6, <2>1, KeepPeterson, Zenon
<1> QED
  BY <1>13, <1>14, Zenon DEF BInv

-----------------------------------------------------------------------------
(***************************************************************************)
(* The end of a batch, and the start of one.                               *)
(***************************************************************************)
\* Those behind the thread that ends a batch are blocked: none of them shares
\* its ticket.
LEMMA SetValidBInv ==
  ASSUME QInv, BInv, NEW t \in Threads, SetValid(t)
  PROVE  BInv'
<1>1. /\ ticket_valid' = [ticket_valid EXCEPT ![Coh(t)][t] = kTrue]
      /\ UNCHANGED <<flag, victim, next_ticket, current_ticket, next, batch_ticket, budget,
                     granted, lk, prev, tk, from_prev, vbuf, pos, uses>>
  BY Zenon DEF SetValid, lockVars, threadVars, history
<1>2. PICK q \in {"recheck", "give"} : pc' = [pc EXCEPT ![t] = q] /\ pc[t] \in {"valid", "validlast"}
  BY Zenon DEF SetValid, Goto
<1>3. /\ Queued(t) /\ ticket_valid'[Coh(t)][t] = kTrue
      /\ \A u \in Threads : u # t => \A c \in Cohorts : ticket_valid'[c][u] = ticket_valid[c][u]
  BY <1>1, <1>2, CohType, Zenon DEF Queued, QInv, TypeOK
<1>4. Local(t) /\ pc'[t] = q /\ Coh(t)' = Coh(t)
  BY <1>1, <1>2, <1>3, OwnStep, Zenon
<1>5. /\ Bud(t)' = Bud(t) /\ Valid(t)' = kTrue /\ Bt(t)' = Bt(t)
      /\ tk'[t] = tk[t] /\ from_prev'[t] = from_prev[t]
  BY <1>1, <1>3, <1>4, Zenon DEF Bud, Valid, Bt
<1>6. OrderInv /\ ValidInv /\ BudgetInv /\ ChainInv /\ HoldInv /\ TicketInv /\ ShareInv /\ PetersonInv
  BY Zenon DEF BInv
<1>7. /\ pc[t] \in Drawn /\ pc[t] \notin Waits \cup Past \cup Holds
      /\ pc'[t] \in Past /\ pc'[t] \notin Waits \cup Drawn \cup Holds
  BY <1>2, <1>4, Zenon DEF Waits, Drawn, Past, Holds, Leaving
<1>8. ~Passed(t) /\ ~Passed(t)' /\ ~Blocked(t)
  BY <1>2, <1>7, Zenon DEF Passed, Blocked
<1>9. /\ Batch(t)' <=> Batch(t)
      /\ HasTk(t) /\ HasTk(t)' /\ Tk(t)' = Tk(t)
      /\ ~Holding(t)' /\ ~Over(t)
  BY <1>5, <1>7, <1>8, Zenon DEF Batch, HasTk, Tk, Holding, Over, Holds
<1>10. \A u \in Threads : Queued(u) /\ SameQueue(t, u) /\ pos[t] < pos[u] =>
         ~Batch(u) /\ ~HasTk(u)
  BY <1>3, <1>6, <1>7, BlockedIsOut, Zenon DEF OrderInv
<1>11. \A u \in Threads : u # t => Same(u) /\ View(u)
  BY <1>4, LocalView, Zenon
<1>12. \A u \in Threads :
         /\ Coh(u)' = Coh(u) /\ Suc(u)' = Suc(u) /\ (Granted(u)' <=> Granted(u))
         /\ lk'[u] = lk[u] /\ prev'[u] = prev[u] /\ pos'[u] = pos[u] /\ (Queued(u)' <=> Queued(u))
         /\ Batch(u)' <=> Batch(u)
  BY <1>4, <1>9, <1>11, LocalView, Zenon DEF View
<1>13. OrderInv'
  BY <1>4, <1>6, <1>7, <1>8, KeepOrder, Zenon
<1>14. ValidInv'
  <2>1. \A v \in Threads : Suc(t) = v => ~Batch(v)
    <3>1. ASSUME NEW v \in Threads, Suc(t) = v PROVE ~Batch(v)
      <4>1. Queued(v) /\ SameQueue(t, v) /\ pos[v] = pos[t] + 1 /\ pos[t] \in Nat
        BY <1>3, <3>1, Zenon DEF Suc, QInv, TypeOK, NextInv
      <4>2. pos[t] < pos[v]
        BY <4>1
      <4> QED BY <1>10, <4>1, <4>2, Zenon
    <3> QED BY <3>1, Zenon
  <2>2. ASSUME NEW u \in Threads
        PROVE  (/\ pc[u] \in {"swap", "link"} => Valid(u) = kFalse /\ Bud(u) = NoBudget
                /\ pc[u] \in {"recheck", "give"} => Valid(u) = kTrue
                /\ Queued(u) /\ Valid(u) = kTrue =>
                     pc[u] \in Past /\ \A v \in Threads : Suc(u) = v => ~Batch(v))'
    <3>1. CASE u = t
      <4>1. pc'[t] \notin {"swap", "link"}
        BY <1>4, Zenon
      <4> QED
        BY <1>5, <1>7, <1>12, <2>1, <3>1, <4>1, Zenon
    <3>2. CASE u # t
      BY <1>6, <1>11, <1>12, <3>2, Zenon DEF Same, ValidInv
    <3> QED BY <3>1, <3>2, Zenon
  <2>3. ASSUME NEW u \in Threads, pc'[u] = "release", tk'[u] = kTrue
        PROVE  Valid(prev[u])' = kTrue
    <3>1. u # t /\ pc[u] = "release" /\ tk[u] = kTrue
      BY <1>4, <1>11, <2>3, Zenon DEF Same
    <3>2. PICK p \in Threads : p = prev[u] /\ Valid(p) = kTrue
      <4>1. prev[u] \in Threads
        BY <3>1, Zenon DEF QInv, TypeOK, PrevInv, Linking
      <4>2. Valid(prev[u]) = kTrue
        BY <1>6, <3>1, Zenon DEF ValidInv
      <4> QED BY <4>1, <4>2, Zenon
    <3>3. Valid(p)' = kTrue
      BY <1>5, <1>11, <3>2, Zenon DEF Same
    <3> QED BY <1>12, <3>2, <3>3, Zenon
  <2> QED BY <2>2, <2>3, Zenon DEF ValidInv
<1>15. BudgetInv'
  <2>1. BudgetOf(t)
    BY <1>6, Zenon DEF BudgetInv
  <2>2. pc'[t] \notin Peterson \cup {"faa", "faawrite", "gotbudget", "passticket", "passbudget"}
    BY <1>4, Zenon DEF Peterson
  <2>3. BudgetOf(t)'
    BY <1>3, <1>4, <1>5, <1>7, <2>1, <2>2, Zenon DEF BudgetOf
  <2> QED
    BY <1>4, <1>5, <1>6, <2>2, <2>3, KeepBudget, Zenon
<1>16. ChainInv'
  BY <1>1, <1>4, <1>5, <1>6, <1>7, <1>9, KeepChain, Zenon
<1>17. HoldInv'
  BY <1>1, <1>4, <1>6, <1>9, KeepHold, Zenon
<1>18. TicketInv'
  <2>1. pc'[t] # "faawrite"
    BY <1>4, Zenon
  <2> QED
    BY <1>1, <1>4, <1>6, <1>7, <1>9, <2>1, KeepTicket, Zenon
<1>19. ShareInv'
  <2>1. \A u \in Threads :
          (HasTk(u)' <=> HasTk(u)) /\ Tk(u)' = Tk(u) /\ (u # t => Valid(u)' = Valid(u))
    BY <1>9, <1>11, Zenon DEF View, Same
  <2>2. ASSUME NEW u \in Threads, HasTk(u), lk[t] = lk[u], Tk(t) = Tk(u) PROVE ~(pos[t] < pos[u])
    <3>1. Coh(t) = Coh(u)
      BY <1>6, <1>9, <2>2, Zenon DEF ShareInv
    <3>2. Queued(u)
      BY <2>2, Zenon DEF HasTk, Passed, Queued, Waits, Drawn, Past, Holds, Leaving
    <3> QED BY <1>10, <2>2, <3>1, <3>2, Zenon DEF SameQueue
  <2> QED
    BY <1>6, <1>9, <1>12, <2>1, <2>2, Zenon DEF ShareInv
<1>20. PetersonInv'
  <2>1. ~Sec(t)' /\ pc'[t] \notin {"victim", "spin1", "spin2"}
    BY <1>4, <1>8, Zenon DEF Sec
  <2> QED
    BY <1>1, <1>4, <1>6, <2>1, KeepPeterson, Zenon
<1> QED
  BY <1>13, <1>14, <1>15, <1>16, <1>17, <1>18, <1>19, <1>20, Zenon DEF BInv

\* The read of the NIC's fetch-and-add.
LEMMA FetchBInv ==
  ASSUME QInv, BInv, NEW t \in Threads, FetchAddRemote(t), pc[t] = "faa"
  PROVE  BInv'
<1>1. /\ pc' = [pc EXCEPT ![t] = "faawrite"] /\ Coh(t) = "remote"
      /\ tk' = [tk EXCEPT ![t] = next_ticket[lk[t]]]
      /\ UNCHANGED <<flag, victim, next_ticket, current_ticket, next, ticket_valid, batch_ticket,
                     budget, granted, lk, prev, from_prev, vbuf, pos, uses>>
  BY Zenon DEF FetchAddRemote, Goto, descVars, history
<1>2. /\ Queued(t) /\ tk'[t] = next_ticket[lk[t]] /\ \A u \in Threads : u # t => tk'[u] = tk[u]
      /\ "faawrite" \notin {"idle", "swap"}
  BY <1>1, Zenon DEF Queued, QInv, TypeOK
<1>4. Local(t) /\ pc'[t] = "faawrite" /\ Coh(t)' = Coh(t)
  BY <1>1, <1>2, OwnStep, Zenon
<1>5. Bud(t)' = Bud(t) /\ Valid(t)' = Valid(t) /\ Bt(t)' = Bt(t) /\ from_prev'[t] = from_prev[t]
  BY <1>1, <1>4, Zenon DEF Bud, Valid, Bt
<1>6. OrderInv /\ ValidInv /\ BudgetInv /\ ChainInv /\ HoldInv /\ TicketInv /\ ShareInv /\ PetersonInv
  BY Zenon DEF BInv
<1>7. /\ pc[t] \notin Waits \cup Past \cup Holds \cup Drawn
      /\ pc'[t] \notin Waits \cup Past \cup Holds \cup Drawn
  BY <1>4, Zenon DEF Waits, Drawn, Past, Holds, Leaving
<1>8. BudgetOf(t) /\ ~from_prev[t] /\ Bud(t) = Budget(Coh(t))
  <2>1. BudgetOf(t)
    BY <1>6, Zenon DEF BudgetInv
  <2> QED BY <1>7, <2>1, Zenon DEF BudgetOf
<1>9. ~Batch(t)' /\ ~HasTk(t)' /\ ~Holding(t)' /\ ~Blocked(t) /\ Sec(t)
  BY <1>4, <1>5, <1>7, <1>8, Zenon DEF Batch, Passed, HasTk, Holding, Holds, Blocked, Sec
<1>10. BudgetInv'
  <2>1. pc'[t] \notin {"gotbudget", "passticket", "passbudget"}
    BY <1>4, Zenon
  <2>2. BudgetOf(t)'
    BY <1>2, <1>4, <1>5, <1>7, <1>8, <2>1, Zenon DEF BudgetOf
  <2> QED BY <1>4, <1>5, <1>6, <2>1, <2>2, KeepBudget, Zenon
<1>11. OrderInv'
  BY <1>4, <1>6, <1>7, <1>9, KeepOrder, Zenon
<1>12. ValidInv'
  <2>1. pc'[t] \notin {"swap", "link", "recheck", "give", "release"}
    BY <1>4, Zenon
  <2> QED BY <1>4, <1>5, <1>6, <1>7, <1>9, <2>1, KeepValid, Zenon
<1>13. ChainInv'
  BY <1>1, <1>4, <1>6, <1>7, <1>9, KeepChain, Zenon
<1>14. HoldInv'
  BY <1>1, <1>4, <1>6, <1>9, KeepHold, Zenon
<1>15. ShareInv'
  BY <1>4, <1>5, <1>6, <1>9, KeepShare, Zenon
<1>16. TicketInv'
  <2>1. \A u \in Threads :
          /\ lk'[u] = lk[u] /\ Coh(u)' = Coh(u)
          /\ u # t => /\ pc'[u] = pc[u] /\ tk'[u] = tk[u] /\ (HasTk(u)' <=> HasTk(u))
                      /\ Tk(u)' = Tk(u) /\ (Batch(u)' <=> Batch(u)) /\ (Over(u)' <=> Over(u))
    BY <1>4, LocalView, Zenon DEF Same, View
  <2>2. \A u \in Threads : HasTk(u)' => u # t
    BY <1>9, Zenon
  <2> QED
    <3>1. \A l \in Locks : (/\ current_ticket[l] <= next_ticket[l]
                            /\ current_ticket[l] = next_ticket[l] => uses[l] = 0)'
      BY <1>1, <1>6, Zenon DEF TicketInv
    <3>2. ASSUME NEW u \in Threads, pc'[u] = "faawrite"
          PROVE  (tk[u] = next_ticket[lk[u]] /\ Coh(u) = "remote")'
      <4>1. CASE u = t
        BY <1>1, <1>2, <2>1, <4>1, Zenon
      <4>2. CASE u # t
        BY <1>1, <1>6, <2>1, <3>2, <4>2, Zenon DEF TicketInv
      <4> QED
        BY <4>1, <4>2, Zenon
    <3>3. ASSUME NEW u \in Threads, HasTk(u)'
          PROVE  (/\ Tk(u) < next_ticket[lk[u]]
                  /\ ~Over(u) => current_ticket[lk[u]] <= Tk(u)
                  /\ ~Batch(u) /\ pc[u] \notin Holds /\ Tk(u) = current_ticket[lk[u]] =>
                       uses[lk[u]] = 0)'
      <4>1. u # t /\ HasTk(u)
        BY <2>1, <2>2, <3>3, Zenon
      <4>2. /\ Tk(u) < next_ticket[lk[u]]
            /\ ~Over(u) => current_ticket[lk[u]] <= Tk(u)
            /\ ~Batch(u) /\ pc[u] \notin Holds /\ Tk(u) = current_ticket[lk[u]] =>
                 uses[lk[u]] = 0
        BY <1>6, <4>1, Zenon DEF TicketInv
      <4> QED
        BY <1>1, <2>1, <4>1, <4>2, Zenon
    <3> QED
      BY <3>1, <3>2, <3>3, Zenon DEF TicketInv
<1>17. PetersonInv'
  <2>1. pc'[t] \notin {"victim", "spin1", "spin2"}
    BY <1>4, Zenon
  <2> QED
    BY <1>1, <1>4, <1>6, <1>9, <2>1, KeepPeterson, Zenon
<1> QED
  BY <1>10, <1>11, <1>12, <1>13, <1>14, <1>15, <1>16, <1>17, Zenon DEF BInv

LEMMA Issues ==
  /\ \A n \in Nat : n < n + 1
  /\ \A c, n \in Nat : c < n => c < n + 1 /\ c # n
OBVIOUS

LEMMA NotYetIssued ==
  ASSUME NEW c \in Nat, NEW n \in Nat, c <= n
  PROVE  c <= n + 1 /\ c # n + 1
OBVIOUS

\* Whoever draws a ticket is alone in doing so, and the ticket is new.
LEMMA DrawBInv ==
  ASSUME QInv, BInv, NEW t \in Threads,
         pc[t] \in {"faa", "faawrite"}, pc' = [pc EXCEPT ![t] = "checknext"],
         tk'[t] = next_ticket[lk[t]], \A u \in Threads : u # t => tk'[u] = tk[u],
         next_ticket' = [next_ticket EXCEPT ![lk[t]] = next_ticket[lk[t]] + 1],
         UNCHANGED <<flag, victim, current_ticket, next, ticket_valid, batch_ticket,
                     budget, granted, lk, prev, from_prev, vbuf, pos, uses>>
  PROVE  BInv'
<1>2. Queued(t) /\ lk[t] \in Locks /\ "checknext" \notin {"idle", "swap"}
  BY Zenon DEF Queued, QInv, LkInv
<1>4. Local(t) /\ pc'[t] = "checknext" /\ Coh(t)' = Coh(t)
  BY <1>2, OwnStep, Zenon
<1>5. Bud(t)' = Bud(t) /\ Valid(t)' = Valid(t) /\ Bt(t)' = Bt(t) /\ from_prev'[t] = from_prev[t]
  BY <1>4, Zenon DEF Bud, Valid, Bt
<1>6. OrderInv /\ ValidInv /\ BudgetInv /\ ChainInv /\ HoldInv /\ TicketInv /\ ShareInv /\ PetersonInv
  BY Zenon DEF BInv
<1>7. /\ pc[t] \notin Waits \cup Past \cup Holds \cup Drawn
      /\ pc'[t] \in Drawn /\ pc'[t] \notin Waits \cup Past \cup Holds
  BY <1>4, Zenon DEF Waits, Drawn, Past, Holds, Leaving
<1>8. BudgetOf(t) /\ ~from_prev[t] /\ Bud(t) = Budget(Coh(t))
  <2>1. BudgetOf(t)
    BY <1>6, Zenon DEF BudgetInv
  <2> QED BY <1>7, <2>1, Zenon DEF BudgetOf
<1>9. /\ ~Batch(t)' /\ ~Holding(t)' /\ ~Over(t)' /\ ~Blocked(t) /\ Sec(t)
      /\ HasTk(t)' /\ Tk(t)' = next_ticket[lk[t]]
  BY <1>4, <1>5, <1>7, <1>8, Zenon
     DEF Batch, Passed, HasTk, Tk, Holding, Over, Holds, Blocked, Sec
<1>10. BudgetInv'
  <2>1. pc'[t] \notin Peterson \cup {"faa", "faawrite", "gotbudget", "passticket", "passbudget"}
    BY <1>4, Zenon DEF Peterson
  <2>2. BudgetOf(t)'
    BY <1>2, <1>4, <1>5, <1>7, <1>8, <2>1, Zenon DEF BudgetOf
  <2> QED BY <1>4, <1>5, <1>6, <2>1, <2>2, KeepBudget, Zenon
<1>11. OrderInv'
  BY <1>4, <1>6, <1>7, <1>9, KeepOrder, Zenon
<1>12. ValidInv'
  <2>1. pc'[t] \notin {"swap", "link", "recheck", "give", "release"}
    BY <1>4, Zenon
  <2> QED BY <1>4, <1>5, <1>6, <1>7, <1>9, <2>1, KeepValid, Zenon
<1>13. ChainInv'
  BY <1>4, <1>6, <1>7, <1>9, KeepChain, Zenon
<1>14. HoldInv'
  BY <1>4, <1>6, <1>9, KeepHold, Zenon
<1>v. \A u \in Threads :
        /\ lk'[u] = lk[u] /\ Coh(u)' = Coh(u) /\ pos'[u] = pos[u]
        /\ u # t => /\ pc'[u] = pc[u] /\ tk'[u] = tk[u] /\ (HasTk(u)' <=> HasTk(u))
                    /\ Tk(u)' = Tk(u) /\ (Batch(u)' <=> Batch(u)) /\ (Over(u)' <=> Over(u))
                    /\ Valid(u)' = Valid(u)
  BY <1>4, LocalView, Zenon DEF Same, View
<1>n. /\ \A l \in Locks : next_ticket[l] \in Nat /\ current_ticket[l] \in Nat
      /\ \A l \in Locks : next_ticket'[l] = IF l = lk[t] THEN next_ticket[l] + 1 ELSE next_ticket[l]
      /\ \A u \in Threads : tk[u] \in Nat /\ Tk(u) \in Nat
  BY CohType, Zenon DEF QInv, TypeOK, Tk, Bt
<1>h. \A u \in Threads : HasTk(u) => lk[u] \in Locks
  BY Zenon DEF HasTk, Passed, Waits, Drawn, Past, Holds, Leaving, QInv, LkInv
<1>15. ASSUME NEW u \in Threads, u # t, HasTk(u), lk[u] = lk[t] PROVE Tk(u) # next_ticket[lk[t]]
  <2>1. Tk(u) < next_ticket[lk[t]]
    BY <1>6, <1>15, Zenon DEF TicketInv
  <2>2. PICK a, b : a = Tk(u) /\ b = next_ticket[lk[t]]
    BY Zenon
  <2>3. a \in Nat /\ b \in Nat /\ a < b
    BY <1>2, <1>n, <2>1, <2>2, Zenon
  <2>4. a # b
    BY <2>3, Issues, Zenon
  <2> QED BY <2>2, <2>4, Zenon
<1>16. ShareInv'
  <2>1. ASSUME NEW u \in Threads, NEW v \in Threads, HasTk(u)', HasTk(v)', lk'[u] = lk'[v], Tk(u)' = Tk(v)'
        PROVE  (/\ Coh(u) = Coh(v)
                /\ ~Batch(u) /\ ~Batch(v) => u = v
                /\ ~Batch(u) /\ Batch(v) => pos[u] < pos[v]
                /\ pos[u] < pos[v] => Valid(u) = kFalse)'
    <3>1. CASE u = t /\ v = t
      <4>1. ~(pos'[t] < pos'[t])
        BY <1>v DEF QInv, TypeOK
      <4> QED BY <1>9, <3>1, <4>1, Zenon
    <3>2. CASE u # t /\ v # t
      <4>1. HasTk(u) /\ HasTk(v) /\ lk[u] = lk[v] /\ Tk(u) = Tk(v)
        BY <1>v, <2>1, <3>2, Zenon
      <4>2. /\ Coh(u) = Coh(v)
            /\ ~Batch(u) /\ ~Batch(v) => u = v
            /\ ~Batch(u) /\ Batch(v) => pos[u] < pos[v]
            /\ pos[u] < pos[v] => Valid(u) = kFalse
        BY <1>6, <4>1, Zenon DEF ShareInv
      <4> QED BY <1>v, <3>2, <4>2, Zenon
    <3>3. CASE u = t /\ v # t
      <4>1. HasTk(v) /\ lk[v] = lk[t] /\ Tk(v) = next_ticket[lk[t]]
        BY <1>9, <1>v, <2>1, <3>3, Zenon
      <4> QED BY <1>15, <3>3, <4>1, Zenon
    <3>4. CASE u # t /\ v = t
      <4>1. HasTk(u) /\ lk[u] = lk[t] /\ Tk(u) = next_ticket[lk[t]]
        BY <1>9, <1>v, <2>1, <3>4, Zenon
      <4> QED BY <1>15, <3>4, <4>1, Zenon
    <3> QED BY <3>1, <3>2, <3>3, <3>4, Zenon
  <2> QED BY <2>1, Zenon DEF ShareInv
<1>17. TicketInv'
  <2>1. \A u \in Threads : u # t /\ pc[u] = "faawrite" => lk[u] # lk[t]
    <3>1. ASSUME NEW u \in Threads, u # t, pc[u] = "faawrite", lk[u] = lk[t] PROVE FALSE
      <4>1. Sec(u) /\ Contends(u)
        BY <3>1, Zenon DEF Sec, Contends
      <4>2. Coh(u) # Coh(t)
        BY <3>1, <4>1, OneContender, Zenon
      <4> QED BY <1>6, <1>9, <3>1, <4>1, <4>2, Zenon DEF PetersonInv
    <3> QED BY <3>1, Zenon
  <2>2. pc'[t] # "faawrite"
    BY <1>4, Zenon
  <2>3. \A l \in Locks :
          /\ current_ticket'[l] <= next_ticket'[l]
          /\ current_ticket'[l] = next_ticket'[l] => uses'[l] = 0
    <3> TAKE l \in Locks
    <3>1. /\ current_ticket[l] <= next_ticket[l]
          /\ current_ticket[l] = next_ticket[l] => uses[l] = 0
      BY <1>6, Zenon DEF TicketInv
    <3>2. /\ next_ticket[l] \in Nat /\ current_ticket[l] \in Nat
          /\ next_ticket'[l] = next_ticket[l] + 1 \/ next_ticket'[l] = next_ticket[l]
      BY <1>n, Zenon
    <3>3. current_ticket'[l] = current_ticket[l] /\ uses'[l] = uses[l]
      BY Zenon
    <3>4. PICK c, n, x : c = current_ticket[l] /\ n = next_ticket[l] /\ x = next_ticket'[l]
      BY Zenon
    <3>5. c <= x /\ (c = x => c = n)
      <4>1. c \in Nat /\ n \in Nat /\ (x = n + 1 \/ x = n) /\ c <= n
        BY <3>1, <3>2, <3>4, Zenon
      <4> QED
        BY <4>1, NotYetIssued, Zenon
    <3> QED
      BY <3>1, <3>3, <3>4, <3>5, Zenon
  <2>4. \A u \in Threads :
          /\ pc'[u] = "faawrite" => tk'[u] = next_ticket'[lk'[u]] /\ Coh(u)' = "remote"
    <3>1. \A u \in Threads : pc[u] = "faawrite" => lk[u] \in Locks
      BY Zenon DEF QInv, LkInv
    <3> SUFFICES ASSUME NEW u \in Threads, pc'[u] = "faawrite"
                 PROVE  tk'[u] = next_ticket'[lk'[u]] /\ Coh(u)' = "remote"
      BY Zenon
    <3>2. u # t /\ pc[u] = "faawrite" /\ tk'[u] = tk[u] /\ lk'[u] = lk[u] /\ Coh(u)' = Coh(u)
      BY <1>v, <2>2, Zenon
    <3>3. next_ticket'[lk[u]] = next_ticket[lk[u]]
      BY <1>n, <2>1, <3>1, <3>2, Zenon
    <3> QED BY <1>6, <3>2, <3>3, Zenon DEF TicketInv
  <2>5. ASSUME NEW u \in Threads, HasTk(u)'
        PROVE  (/\ Tk(u) < next_ticket[lk[u]]
                /\ ~Over(u) => current_ticket[lk[u]] <= Tk(u)
                /\ ~Batch(u) /\ pc[u] \notin Holds /\ Tk(u) = current_ticket[lk[u]] =>
                     uses[lk[u]] = 0)'
    <3>1. CASE u = t
      <4>1. current_ticket[lk[t]] <= next_ticket[lk[t]]
        BY <1>2, <1>6, Zenon DEF TicketInv
      <4>2. current_ticket[lk[t]] = next_ticket[lk[t]] => uses[lk[t]] = 0
        BY <1>2, <1>6, Zenon DEF TicketInv
      <4>3. next_ticket'[lk[t]] = next_ticket[lk[t]] + 1 /\ next_ticket[lk[t]] \in Nat
        BY <1>2, <1>n, Zenon
      <4>4. next_ticket[lk[t]] < next_ticket[lk[t]] + 1
        BY <4>3, Issues, Zenon
      <4> QED BY <1>9, <1>v, <3>1, <4>1, <4>2, <4>3, <4>4, Zenon
    <3>2. CASE u # t
      <4>1. HasTk(u) /\ lk[u] \in Locks
        BY <1>h, <1>v, <2>5, <3>2, Zenon
      <4>2. /\ Tk(u) < next_ticket[lk[u]]
            /\ ~Over(u) => current_ticket[lk[u]] <= Tk(u)
            /\ ~Batch(u) /\ pc[u] \notin Holds /\ Tk(u) = current_ticket[lk[u]] =>
                 uses[lk[u]] = 0
        BY <1>6, <4>1, Zenon DEF TicketInv
      <4>3. Tk(u) < next_ticket'[lk[u]]
        <5>1. PICK a, b, c : a = Tk(u) /\ b = next_ticket[lk[u]] /\ c = next_ticket'[lk[u]]
          BY Zenon
        <5>2. a \in Nat /\ b \in Nat /\ a < b /\ (c = b + 1 \/ c = b)
          BY <1>n, <4>1, <4>2, <5>1, Zenon
        <5>3. a < c
          BY <5>2, Issues, Zenon
        <5> QED
          BY <5>1, <5>3, Zenon
      <4> QED BY <1>v, <3>2, <4>2, <4>3, Zenon
    <3> QED BY <3>1, <3>2, Zenon
  <2> QED BY <2>3, <2>4, <2>5, Zenon DEF TicketInv
<1>18. PetersonInv'
  <2>1. pc'[t] \notin {"victim", "spin1", "spin2"}
    BY <1>4, Zenon
  <2> QED
    BY <1>4, <1>6, <1>9, <2>1, KeepPeterson, Zenon
<1> QED
  BY <1>10, <1>11, <1>12, <1>13, <1>14, <1>16, <1>17, <1>18, Zenon DEF BInv

LEMMA FetchAddBInv ==
  ASSUME QInv, BInv, NEW t \in Threads, FetchAddLocal(t) \/ FetchAddRemote(t)
  PROVE  BInv'
<1>1. CASE FetchAddLocal(t)
  <2>1. /\ pc[t] = "faa" /\ pc' = [pc EXCEPT ![t] = "checknext"]
        /\ tk' = [tk EXCEPT ![t] = next_ticket[lk[t]]]
        /\ next_ticket' = [next_ticket EXCEPT ![lk[t]] = next_ticket[lk[t]] + 1]
        /\ UNCHANGED <<flag, victim, current_ticket, next, ticket_valid, batch_ticket,
                       budget, granted, lk, prev, from_prev, vbuf, pos, uses>>
    BY <1>1, Zenon DEF FetchAddLocal, Goto, descVars, history
  <2>2. tk'[t] = next_ticket[lk[t]] /\ \A u \in Threads : u # t => tk'[u] = tk[u]
    BY <2>1, Zenon DEF QInv, TypeOK
  <2> QED BY <2>1, <2>2, DrawBInv, Zenon
<1>2. CASE FetchAddRemote(t) /\ pc[t] = "faa"
  BY <1>2, FetchBInv, Zenon
<1>3. CASE FetchAddRemote(t) /\ pc[t] # "faa"
  <2>1. /\ pc[t] = "faawrite" /\ pc' = [pc EXCEPT ![t] = "checknext"] /\ tk' = tk
        /\ next_ticket' = [next_ticket EXCEPT ![lk[t]] = tk[t] + 1]
        /\ UNCHANGED <<flag, victim, current_ticket, next, ticket_valid, batch_ticket,
                       budget, granted, lk, prev, from_prev, vbuf, pos, uses>>
    BY <1>3, Zenon DEF FetchAddRemote, Goto, descVars, history
  <2>2. tk[t] = next_ticket[lk[t]]
    BY <2>1, Zenon DEF BInv, TicketInv
  <2> QED BY <2>1, <2>2, DrawBInv, Zenon
<1> QED
  BY <1>1, <1>2, <1>3, Zenon
=============================================================================
