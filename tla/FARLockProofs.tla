---------------------------- MODULE FARLockProofs -----------------------------
(***************************************************************************)
(* The theorems about FARLock, for any number of threads, locks, nodes and *)
(* operations.                                                             *)
(*                                                                         *)
(* The invariant IInv is made of four concerns: the shape of the queues,   *)
(* the order in which a queue's tickets are drawn, Peterson's section, the *)
(* tickets. A frame lemma for each concern says when a step keeps it, so   *)
(* that the proof for an action argues only about the concerns the action  *)
(* disturbs. Order and bypass, relative to IInv, come next, then that      *)
(* FARLock implements FairLock, and last what IsLocked answers.            *)
(***************************************************************************)
EXTENDS FARLockInv, FARLockIsLocked, SequenceTheorems, TLAPS

\* A leaf that names no prover is tried with SMT, then with Zenon.
USE SMTT(30), ZenonT(30)

\* A thread takes the local or the remote path of Lock and Unlock.
LEMMA CohType == \A t \in Threads : Coh(t) \in Cohorts
BY Zenon DEF Coh, CohortOf, Cohorts

\* The path of a thread does not change while it works on a lock.
LEMMA CohStable ==
  ASSUME NEW t, lk'[t] = lk[t]
  PROVE  Coh(t)' = Coh(t)
BY Zenon DEF Coh, CohortOf, IsLocal

\* A step of a queued thread that writes no tail_, next_, granted_ or releasable_
\* keeps the shape of the queues, if the point it moves to is one its place in
\* the queue allows.
LEMMA QueueFrame ==
  ASSUME IInv, NEW t \in Threads, NEW q \in Queued \ {"link"},
         pc[t] \in Queued, pc' = [pc EXCEPT ![t] = q],
         q \in Arriving => pc[t] \in Arriving,
         q \in {"readticket", "release"} => pc[t] \in {"readticket", "release"},
         q = "wake" => next[Coh(t)][t] # None,
         q = "grant" => releasable[Coh(t)][t] = kTrue,
         q \in {"waitturn", "cs"} \cup Leaving =>
           prev[t] = None \/ granted[Coh(t)][t] = kTrue,
         \A u \in Threads : pc[u] = "swap" =>
           /\ ticket'[Coh(u)][u] = ticket[Coh(u)][u]
           /\ to_get_ticket'[Coh(u)][u] = to_get_ticket[Coh(u)][u],
         UNCHANGED <<tail, next, granted, releasable, lk, prev, arrivals, pos>>
  PROVE  LkInv' /\ SwapInv' /\ PosInv' /\ TailInv' /\ HeadInv' /\ PrevInv' /\ NextInv'
         /\ ReleaseInv'
<1>1. \A u \in Threads : Coh(u)' = Coh(u) /\ Coh(u) \in Cohorts
  BY CohStable, CohType, Zenon
<1>2. \A u \in Threads : InQ(u)' <=> InQ(u)
  BY Zenon DEF InQ, IInv, TypeOK
<1>3. \A u \in Threads : u # t => pc'[u] = pc[u]
  BY Zenon DEF IInv, TypeOK
<1>4. pc'[t] = q /\ q # "swap" /\ q # "idle" /\ pc[t] # "idle"
  BY Zenon DEF IInv, TypeOK, Queued, Eligible, Section, Drawing, Arriving, Waiting, Leaving
<1>5. \A u, v \in Threads : SameQueue(u, v)' <=> SameQueue(u, v)
  BY <1>1, Zenon DEF SameQueue
<1>a. LkInv'
  BY <1>3, <1>4, Zenon DEF IInv, LkInv
<1>b. SwapInv'
  BY <1>1, <1>3, <1>4, Zenon DEF IInv, SwapInv
<1>c. PosInv'
  BY <1>1, <1>2, <1>5, Zenon DEF IInv, PosInv
<1>d. TailInv'
  BY <1>1, <1>2, <1>5 DEF IInv, TailInv
<1>e. HeadInv'
  BY <1>1, <1>2, <1>3, <1>4, <1>5, Zenon DEF IInv, HeadInv
<1>f. PrevInv'
  BY <1>1, <1>2, <1>3, <1>4, <1>5 DEF IInv, PrevInv, TypeOK
<1>g. NextInv'
  <2> SUFFICES ASSUME NEW u \in Threads, InQ(u)'
               PROVE  /\ \A v \in Threads : next'[Coh(u)'][u] = v =>
                          /\ InQ(v)' /\ SameQueue(u, v)' /\ prev'[v] = u /\ pos'[v] = pos'[u] + 1
                          /\ pc'[v] # "link" /\ granted'[Coh(u)'][v] = kFalse
                      /\ pc'[u] = "wake" => next'[Coh(u)'][u] # None
    BY Zenon DEF NextInv
  <2> QED
    BY <1>1, <1>2, <1>3, <1>4, <1>5 DEF IInv, NextInv
<1>h. ReleaseInv'
  BY <1>1, <1>2, <1>3, <1>4, <1>5 DEF IInv, ReleaseInv, TypeOK
<1> QED
  BY <1>a, <1>b, <1>c, <1>d, <1>e, <1>f, <1>g, <1>h, Zenon

\* A step that stays within one phase (arriving, drawing a ticket, having drawn
\* one) keeps the order in which the tickets of a queue are drawn.
LEMMA ServedFrame ==
  ASSUME IInv, NEW t \in Threads, NEW q, pc' = [pc EXCEPT ![t] = q],
         \/ pc[t] \in Arriving /\ q \in Arriving \ {"release"}
         \/ pc[t] \in Eligible /\ q \in Eligible
         \/ pc[t] \in Waiting \cup Leaving /\ q \in Waiting \cup Leaving,
         \A u \in Threads : u # t => tk'[u] = tk[u],
         UNCHANGED <<tail, ticket, to_get_ticket, lk, arrivals, served, pos>>
  PROVE  ServedInv'
<1>1. \A u \in Threads : Coh(u)' = Coh(u) /\ Coh(u) \in Cohorts
  BY CohStable, CohType, Zenon
<1>2. \A u \in Threads : u # t => pc'[u] = pc[u]
  BY Zenon DEF IInv, TypeOK
<1>3. /\ pc'[t] = q
      /\ pc[t] \in Arriving => q \in Arriving \ {"release"}
      /\ q \in Arriving => pc[t] \in Arriving
      /\ pc[t] \in Eligible <=> q \in Eligible
      /\ pc[t] \in Waiting \cup Leaving <=> q \in Waiting \cup Leaving
      /\ pc[t] \in Queued /\ q \in Queued /\ q # "release"
  BY Zenon DEF IInv, TypeOK, Queued, Eligible, Section, Drawing, Arriving, Waiting, Leaving
<1>4. \A u \in Threads : InQ(u)' <=> InQ(u)
  BY <1>2, <1>3, Zenon DEF InQ
<1> QED
  BY <1>1, <1>2, <1>3, <1>4 DEF IInv, ServedInv

\* A step that leaves Peterson's section, or happens outside it, and writes
\* neither flag keeps what the two cohorts know of each other there.
LEMMA PetersonFrame ==
  ASSUME IInv, NEW t \in Threads, NEW q, pc' = [pc EXCEPT ![t] = q],
         q \notin Section,
         \A u \in Threads : u # t => lk'[u] = lk[u],
         UNCHANGED <<flag, victim, vbuf>>
  PROVE  PetersonInv'
<1>1. \A u \in Threads : u # t => pc'[u] = pc[u] /\ Coh(u)' = Coh(u) /\ lk'[u] = lk[u]
  BY CohStable, Zenon DEF IInv, TypeOK
<1>2. pc'[t] \notin Section
  BY Zenon DEF IInv, TypeOK
<1>3. {"spin1", "spin2"} \subseteq Section /\ Drawing \subseteq Section
  BY Zenon DEF Section
<1> QED
  BY <1>1, <1>2, <1>3 DEF IInv, PetersonInv

\* A step that draws no ticket and keeps the one it has keeps tickets distinct.
LEMMA TicketFrame ==
  ASSUME IInv, NEW t \in Threads, NEW q, pc' = [pc EXCEPT ![t] = q],
         \/ q \notin HasTicket \cup {"faawrite"}
         \/ /\ pc[t] \in HasTicket /\ q \in HasTicket /\ lk'[t] = lk[t]
            /\ Tick(t)' = Tick(t)
            /\ q = "cs" => Tick(t) = current_ticket[lk[t]],
         \A u \in Threads : u # t =>
           /\ lk'[u] = lk[u] /\ tk'[u] = tk[u] 
           /\ ticket'[Coh(u)][u] = ticket[Coh(u)][u],
         UNCHANGED <<next_ticket, current_ticket>>
  PROVE  TicketInv'
<1>1. \A u \in Threads : u # t =>
        pc'[u] = pc[u] /\ Coh(u)' = Coh(u) /\ lk'[u] = lk[u] /\ tk'[u] = tk[u] 
  BY CohStable, Zenon DEF IInv, TypeOK
<1>2. \A u \in Threads : u # t => Tick(u)' = Tick(u)
  BY <1>1, Zenon DEF Tick
<1>3. pc'[t] = q
  BY Zenon DEF IInv, TypeOK
<1>4. "cs" \in HasTicket /\ "faawrite" \notin HasTicket
  BY Zenon DEF HasTicket, Waiting
<1> QED
  BY <1>1, <1>2, <1>3, <1>4 DEF IInv, TicketInv

\* A thread whose Unlock returns was the first of its queue.
LEMMA LeaveFrame ==
  ASSUME IInv, NEW t \in Threads, pc[t] \in Leaving, lk[t] \in Locks,
         pc' = [pc EXCEPT ![t] = "idle"],
         lk' = [lk EXCEPT ![t] = None], prev' = [prev EXCEPT ![t] = None],
         UNCHANGED <<flag, victim, next_ticket, current_ticket, next, ticket, to_get_ticket,
                     releasable, tk, vbuf, arrivals, served, pos>>
  PROVE  /\ \A u \in Threads : u # t =>
              /\ pc'[u] = pc[u] /\ lk'[u] = lk[u] /\ prev'[u] = prev[u] /\ Coh(u)' = Coh(u)
              /\ InQ(u)' <=> InQ(u)
         /\ InQ(t) /\ ~InQ(t)' /\ pc'[t] = "idle" /\ lk'[t] = None
         /\ \A u \in Threads : InQ(u) /\ SameQueue(t, u) => pos[t] <= pos[u]
         /\ LkInv' /\ PosInv' /\ PetersonInv' /\ TicketInv'
<1>1. \A u \in Threads : u # t =>
        /\ pc'[u] = pc[u] /\ lk'[u] = lk[u] /\ prev'[u] = prev[u] /\ Coh(u)' = Coh(u)
        /\ InQ(u)' <=> InQ(u)
  BY CohStable, Zenon DEF IInv, TypeOK, InQ
<1>2. InQ(t) /\ ~InQ(t)' /\ pc'[t] = "idle" /\ lk'[t] = None
  BY Zenon DEF IInv, TypeOK, InQ, Queued, Eligible, Section, Drawing, Arriving, Waiting, Leaving
<1>3. \A u \in Threads : InQ(u) /\ SameQueue(t, u) => pos[t] <= pos[u]
  BY <1>2, Zenon DEF IInv, HeadInv
<1>4. LkInv'
  BY <1>1, <1>2, NoneAssumption, Zenon DEF IInv, LkInv
<1>5. PosInv'
  BY <1>1, <1>2, Zenon DEF IInv, PosInv, SameQueue
<1>6. PetersonInv'
  <2>1. "idle" \notin Section
    BY Zenon DEF Section, Drawing
  <2> QED
    BY <1>1, <2>1, PetersonFrame, Zenon
<1>7. TicketInv'
  <2>1. "idle" \notin HasTicket \cup {"faawrite"}
    BY Zenon DEF HasTicket, Waiting
  <2> QED
    BY <1>1, <2>1, TicketFrame, Zenon
<1> QED
  BY <1>1, <1>2, <1>3, <1>4, <1>5, <1>6, <1>7, Zenon

\* In each queue at most one thread may draw a ticket: the first without one.
LEMMA OneEligible ==
  ASSUME IInv, NEW t \in Threads, NEW u \in Threads,
         pc[t] \in Eligible, pc[u] \in Eligible, SameQueue(t, u)
  PROVE  t = u
BY Zenon DEF IInv, ServedInv, PosInv, InQ, Queued, SameQueue

\* The invariant gives exclusion around next_ticket_: threads of one cohort are
\* kept apart by the queue, of different cohorts by Peterson's algorithm.
LEMMA OneDrawing == IInv => TicketSectionExclusion
<1> SUFFICES ASSUME IInv, NEW t \in Threads, NEW u \in Threads,
                    pc[t] \in Drawing, pc[u] \in Drawing, lk[t] = lk[u]
             PROVE  t = u
  BY Zenon DEF TicketSectionExclusion
<1>1. Coh(t) = Coh(u)
  BY Zenon DEF IInv, PetersonInv
<1> QED
  BY <1>1, OneEligible, Zenon DEF SameQueue, Eligible, Section

-----------------------------------------------------------------------------
(***************************************************************************)
(* The steps of Lock that join a queue.                                    *)
(***************************************************************************)
\* The reset of a descriptor at the start of Lock touches no queue: its owner is
\* in none, and no other thread holds a pointer to it that it will still use.
LEMMA LockInv ==
  ASSUME IInv, NEW t \in Threads, NEW l \in Locks, Lock(t, l)
  PROVE  IInv'
<1> DEFINE c == CohortOf(t, l)
<1>1. /\ c \in Cohorts /\ pc[t] = "idle" /\ pc' = [pc EXCEPT ![t] = "swap"]
      /\ lk' = [lk EXCEPT ![t] = l] /\ ops' = [ops EXCEPT ![t] = @ + 1]
      /\ next' = [next EXCEPT ![c][t] = None]
      /\ ticket' = [ticket EXCEPT ![c][t] = kInvalidTicket]
      /\ to_get_ticket' = [to_get_ticket EXCEPT ![c][t] = kFalse]
      /\ granted' = [granted EXCEPT ![c][t] = kFalse]
      /\ releasable' = [releasable EXCEPT ![c][t] = kFalse]
      /\ UNCHANGED <<tail, flag, victim, next_ticket, current_ticket, prev, tk, vbuf,
                     arrivals, served, pos, seen>>
  BY Zenon DEF Lock, Goto, CohortOf, Cohorts, lockVars, history
<1>2. /\ pc'[t] = "swap" /\ lk'[t] = l /\ Coh(t)' = c
      /\ next'[c][t] = None /\ ticket'[c][t] = kInvalidTicket /\ to_get_ticket'[c][t] = kFalse
      /\ granted'[c][t] = kFalse /\ releasable'[c][t] = kFalse
  BY <1>1, Zenon DEF IInv, TypeOK, Coh, CohortOf, IsLocal
<1> HIDE DEF c
<1>3. \A u \in Threads : u # t =>
        /\ pc'[u] = pc[u] /\ lk'[u] = lk[u] /\ Coh(u)' = Coh(u)
        /\ \A d \in Cohorts :
             /\ next'[d][u] = next[d][u] /\ ticket'[d][u] = ticket[d][u]
             /\ to_get_ticket'[d][u] = to_get_ticket[d][u]
             /\ granted'[d][u] = granted[d][u] /\ releasable'[d][u] = releasable[d][u]
  BY <1>1, CohStable, Zenon DEF IInv, TypeOK
<1>4. ~InQ(t) /\ ~InQ(t)' /\ \A u \in Threads : u # t => (InQ(u)' <=> InQ(u))
  BY <1>1, <1>2, <1>3, Zenon DEF InQ, Queued, Eligible, Section, Drawing, Arriving, Waiting, Leaving
<1>5. \A u \in Threads : Coh(u) \in Cohorts
  BY CohType, Zenon
<1>6. None \notin Threads
  BY NoneAssumption, Zenon
<1>y. TypeOK'
  BY <1>1 DEF IInv, TypeOK, PCs, Ticket, Bit
<1>a. LkInv'
  BY <1>2, <1>3, Zenon DEF IInv, LkInv
<1>b. SwapInv'
  BY <1>2, <1>3, <1>5 DEF IInv, SwapInv
<1>c. PosInv'
  BY <1>1, <1>3, <1>4, Zenon DEF IInv, PosInv, SameQueue
<1>d. TailInv'
  BY <1>1, <1>3, <1>4 DEF IInv, TailInv
<1>e. HeadInv'
  <2>1. pc'[t] \notin {"waitturn", "cs"} \cup Leaving
    BY <1>2, Zenon DEF Leaving
  <2> QED
    BY <1>1, <1>3, <1>4, <1>5, <2>1 DEF IInv, HeadInv, SameQueue
<1>f. PrevInv'
  <2>1. ASSUME NEW u \in Threads, u # t, InQ(u), prev[u] # None, granted[Coh(u)][u] = kFalse
        PROVE  prev[u] \in Threads \ {t} /\ InQ(prev[u]) /\ SameQueue(u, prev[u]) /\ pos[u] = pos[prev[u]] + 1
    BY <1>4, <2>1, Zenon DEF IInv, TypeOK, PrevInv
  <2>2. ASSUME NEW u \in Threads
        PROVE  (InQ(u) /\ prev[u] # None /\ granted[Coh(u)][u] = kFalse =>
                  InQ(prev[u]) /\ SameQueue(u, prev[u]) /\ pos[u] = pos[prev[u]] + 1)'
    BY <1>1, <1>3, <1>4, <1>5, <2>1 DEF SameQueue
  <2>3. ASSUME NEW u \in Threads
        PROVE  (/\ pc[u] \in Arriving => prev[u] # None
                /\ pc[u] \in {"link", "readticket", "release"} => granted[Coh(u)][u] = kFalse)'
    BY <1>1, <1>2, <1>3, <1>5 DEF IInv, PrevInv, Arriving
  <2>4. ASSUME NEW u \in Threads, pc'[u] \in {"readticket", "release"}
        PROVE  next'[Coh(u)'][prev'[u]] = u
    <3>1. u # t /\ InQ(u) /\ prev[u] # None /\ granted[Coh(u)][u] = kFalse /\ next[Coh(u)][prev[u]] = u
      BY <1>2, <1>3, <2>4, Zenon DEF IInv, PrevInv, InQ, Queued, Arriving
    <3> QED
      BY <1>1, <1>3, <1>5, <2>1, <3>1
  <2> QED
    BY <2>2, <2>3, <2>4, Zenon DEF PrevInv
<1>g. NextInv'
  <2>1. ASSUME NEW u \in Threads, InQ(u)', NEW v \in Threads, next'[Coh(u)'][u] = v
        PROVE  u # t /\ v # t /\ InQ(u) /\ InQ(v) /\ SameQueue(u, v) /\ prev[v] = u /\ pos[v] = pos[u] + 1
               /\ pc[v] # "link" /\ granted[Coh(u)][v] = kFalse
    BY <1>3, <1>4, <1>5, <2>1 DEF IInv, NextInv
  <2>2. ASSUME NEW u \in Threads, InQ(u)', pc'[u] = "wake"
        PROVE  next'[Coh(u)'][u] # None
    BY <1>3, <1>4, <1>5, <2>2 DEF IInv, NextInv
  <2> QED
    BY <1>1, <1>3, <1>4, <1>5, <2>1, <2>2 DEF NextInv, SameQueue
<1>h. ReleaseInv'
  <2> SUFFICES ASSUME NEW u \in Threads, InQ(u)'
               PROVE  (/\ releasable[Coh(u)][u] = kTrue =>
                           /\ next[Coh(u)][u] # None
                           /\ pc[next[Coh(u)][u]] \notin {"link", "readticket", "release"}
                       /\ pc[u] = "grant" => releasable[Coh(u)][u] = kTrue)'
    BY Zenon DEF ReleaseInv
  <2>1. /\ InQ(u) /\ pc'[u] = pc[u] /\ Coh(u)' = Coh(u) /\ releasable'[Coh(u)][u] = releasable[Coh(u)][u]
        /\ next'[Coh(u)][u] = next[Coh(u)][u] /\ next[Coh(u)][u] \in Threads \cup {None}
    BY <1>3, <1>4, <1>5 DEF IInv, TypeOK
  <2>2. next[Coh(u)][u] # None => next[Coh(u)][u] \in Threads \ {t}
    BY <1>4, <2>1, Zenon DEF IInv, NextInv
  <2> QED
    BY <1>3, <2>1, <2>2 DEF IInv, ReleaseInv
<1>s. ServedInv'
  <2>1. pc'[t] \notin Arriving \cup Eligible \cup Waiting \cup Leaving \cup {"release"}
    BY <1>2, Zenon DEF Eligible, Section, Drawing, Arriving, Waiting, Leaving
  <2> QED
    BY <1>1, <1>3, <1>4, <1>5, <2>1 DEF IInv, ServedInv
<1>p. PetersonInv'
  <2>1. "swap" \notin Section
    BY Zenon DEF Section, Drawing
  <2> QED
    BY <1>1, <1>3, <2>1, PetersonFrame, Zenon
<1>t. TicketInv'
  <2>1. "swap" \notin HasTicket \cup {"faawrite"}
    BY Zenon DEF HasTicket, Waiting
  <2>2. \A u \in Threads : u # t =>
          lk'[u] = lk[u] /\ tk'[u] = tk[u] /\ ticket'[Coh(u)][u] = ticket[Coh(u)][u]
    BY <1>1, <1>3, <1>5, Zenon
  <2> QED
    BY <1>1, <2>1, <2>2, TicketFrame, Zenon
<1> QED
  BY <1>y, <1>a, <1>b, <1>c, <1>d, <1>e, <1>f, <1>g, <1>h, <1>s, <1>p, <1>t, Zenon DEF IInv

\* The exchange on the tail appends the thread to its queue.
LEMMA SwapTailInv ==
  ASSUME IInv, NEW t \in Threads, SwapTail(t)
  PROVE  IInv'
<1>1. /\ lk[t] \in Locks /\ Coh(t) \in Cohorts
      /\ pc[t] = "swap"
      /\ tail' = [tail EXCEPT ![lk[t]][Coh(t)] = t]
      /\ pc' = [pc EXCEPT ![t] = IF tail[lk[t]][Coh(t)] = None THEN "flag" ELSE "link"]
      /\ prev' = [prev EXCEPT ![t] = tail[lk[t]][Coh(t)]]
      /\ arrivals' = [arrivals EXCEPT ![lk[t]][Coh(t)] = @ + 1]
      /\ pos' = [pos EXCEPT ![t] = arrivals[lk[t]][Coh(t)]]
      /\ UNCHANGED <<flag, victim, next_ticket, current_ticket, next, ticket,
                      to_get_ticket, granted, releasable, lk, tk, vbuf, ops,
                      served, seen>>
  BY CohType, Zenon DEF SwapTail, Goto, AfterTicket, IInv, LkInv, lockVars, descVars, history
<1>2. \A u \in Threads : Coh(u)' = Coh(u) /\ Coh(u) \in Cohorts /\ (u # t => pc'[u] = pc[u])
  BY <1>1, CohStable, CohType, Zenon DEF IInv, TypeOK
<1>3. None \notin Threads
  BY NoneAssumption, Zenon
<1>y. TypeOK'
  BY <1>1 DEF IInv, TypeOK, PCs, Ticket, Bit, kTrue, kFalse, kInvalidTicket
<1>a. LkInv'
  BY <1>1, <1>2, <1>3, Zenon DEF IInv, TypeOK, LkInv
<1>b. SwapInv'
  BY <1>1, <1>2, <1>3, Zenon DEF IInv, TypeOK, SwapInv
<1>c. PosInv'
  BY <1>1, <1>2, <1>3
     DEF IInv, TypeOK, PosInv, SameQueue, InQ, Queued, Eligible, Section, Drawing, Arriving,
         Waiting, Leaving
<1>d. TailInv'
  <2> SUFFICES ASSUME NEW l \in Locks, NEW c \in Cohorts PROVE
       /\ \A u \in Threads : tail'[l][c] = u =>
         InQ(u)' /\ lk'[u] = l /\ Coh(u)' = c /\ pos'[u] + 1 = arrivals'[l][c]
       /\ tail'[l][c] = None => \A u \in Threads : ~(InQ(u)' /\ lk'[u] = l /\ Coh(u)' = c)
    BY Zenon DEF TailInv
  <2>1. CASE l = lk[t] /\ c = Coh(t)
    BY <1>1, <1>2, <1>3, <2>1, Zenon DEF IInv, TypeOK, InQ, Queued, Arriving, Eligible
  <2>2. CASE ~(l = lk[t] /\ c = Coh(t))
    <3>1. \A u \in Threads : u # t => (InQ(u)' <=> InQ(u)) /\ pos'[u] = pos[u]
      BY <1>1, <1>2, Zenon DEF InQ, IInv, TypeOK
    <3>2. tail'[l][c] = tail[l][c] /\ arrivals'[l][c] = arrivals[l][c] /\ lk' = lk
      BY <1>1, <2>2, Zenon DEF IInv, TypeOK
    <3>3. ~InQ(t)
      BY <1>1, Zenon DEF InQ, Queued, Eligible, Section, Drawing, Arriving, Waiting, Leaving
    <3> QED
      BY <1>2, <2>2, <3>1, <3>2, <3>3 DEF IInv, TailInv
  <2> QED BY <2>1, <2>2, Zenon
<1>e. HeadInv'
  BY <1>1, <1>2, <1>3
     DEF IInv, TypeOK, HeadInv, PosInv, TailInv, SwapInv, SameQueue, kTrue, kFalse, InQ, Queued,
         Eligible, Section, Drawing, Arriving, Waiting, Leaving
<1>f. PrevInv'
  <2>1. \A u \in Threads : u # t => (InQ(u)' <=> InQ(u)) /\ pos'[u] = pos[u] /\ prev'[u] = prev[u]
    BY <1>1, <1>2, Zenon DEF InQ, IInv, TypeOK
  <2>2. ~InQ(t)
    BY <1>1, Zenon DEF InQ, Queued, Eligible, Section, Drawing, Arriving, Waiting, Leaving
  <2>3. ASSUME NEW p \in Threads, tail[lk[t]][Coh(t)] = p
        PROVE  p # t /\ InQ(p)' /\ SameQueue(t, p)' /\ pos'[t] = pos'[p] + 1
    <3>1. InQ(p) /\ lk[p] = lk[t] /\ Coh(p) = Coh(t) /\ pos[p] + 1 = arrivals[lk[t]][Coh(t)]
      BY <1>1, <1>2, <2>3 DEF IInv, TailInv
    <3>2. p # t
      BY <2>2, <3>1, Zenon
    <3>3. pos'[t] = arrivals[lk[t]][Coh(t)]
      BY <1>1, Zenon DEF IInv, TypeOK
    <3> QED
      BY <1>1, <1>2, <2>1, <3>1, <3>2, <3>3, Zenon DEF SameQueue
  <2>4. prev'[t] = tail[lk[t]][Coh(t)] /\ tail[lk[t]][Coh(t)] \in Threads \cup {None}
        /\ pc'[t] = (IF tail[lk[t]][Coh(t)] = None THEN "flag" ELSE "link") /\ granted'[Coh(t)'][t] = kFalse
    BY <1>1, <1>2 DEF IInv, TypeOK, SwapInv
  <2>5. ASSUME NEW u \in Threads, u # t, InQ(u), prev[u] # None, granted[Coh(u)][u] = kFalse
        PROVE  prev[u] # t /\ prev[u] \in Threads /\ pc'[prev[u]] \in Queued
               /\ lk'[u] = lk'[prev[u]] /\ Coh(u) = Coh(prev[u]) /\ pos'[u] = pos'[prev[u]] + 1
    BY <1>1, <1>2, <2>1, <2>2, <2>5 DEF IInv, TypeOK, PrevInv, SameQueue, InQ
  <2>6. ASSUME NEW u \in Threads
        PROVE  (InQ(u) /\ prev[u] # None /\ granted[Coh(u)][u] = kFalse =>
                 InQ(prev[u]) /\ SameQueue(u, prev[u]) /\ pos[u] = pos[prev[u]] + 1)'
    <3>1. CASE u = t
      BY <1>3, <2>3, <2>4, <3>1, Zenon DEF InQ, SameQueue
    <3>2. CASE u # t
      BY <1>1, <1>2, <2>1, <2>5, <3>2 DEF InQ, SameQueue
    <3> QED BY <3>1, <3>2, Zenon
  <2>7. ASSUME NEW u \in Threads
        PROVE  /\ pc'[u] \in Arriving => prev'[u] # None
               /\ pc'[u] \in {"link", "readticket", "release"} => granted'[Coh(u)'][u] = kFalse
               /\ pc'[u] \in {"readticket", "release"} => next'[Coh(u)'][prev'[u]] = u
    BY <1>1, <1>2, <1>3, <2>1, <2>4 DEF IInv, PrevInv, Arriving
  <2> QED
    BY <2>6, <2>7, Zenon DEF PrevInv
<1>g. NextInv'
  <2>1. \A u \in Threads : u # t => (InQ(u)' <=> InQ(u)) /\ pos'[u] = pos[u] /\ prev'[u] = prev[u]
    BY <1>1, <1>2, Zenon DEF InQ, IInv, TypeOK
  <2>2. ~InQ(t) /\ pc'[t] # "wake" /\ next[Coh(t)][t] = None
    BY <1>1, Zenon
       DEF IInv, SwapInv, TypeOK, InQ, Queued, Eligible, Section, Drawing, Arriving, Waiting,
           Leaving
  <2>3. ASSUME NEW u \in Threads, InQ(u)', NEW v \in Threads, next[Coh(u)][u] = v
        PROVE  u # t /\ v # t /\ InQ(u) /\ InQ(v) /\ SameQueue(u, v) /\ prev[v] = u /\ pos[v] = pos[u] + 1
               /\ pc[v] # "link" /\ granted[Coh(u)][v] = kFalse
    BY <1>3, <2>1, <2>2, <2>3, Zenon DEF IInv, NextInv
  <2>4. ASSUME NEW u \in Threads, InQ(u)', pc'[u] = "wake"
        PROVE  next[Coh(u)][u] # None
    BY <1>2, <2>1, <2>2, <2>4, Zenon DEF IInv, NextInv
  <2> QED
    BY <1>1, <1>2, <2>1, <2>3, <2>4 DEF NextInv, SameQueue
<1>h. ReleaseInv'
  BY <1>1, <1>2, <1>3
     DEF IInv, TypeOK, ReleaseInv, NextInv, SwapInv, SameQueue, kTrue, kFalse, InQ, Queued,
         Eligible, Section, Drawing, Arriving, Waiting, Leaving
<1>s. ServedInv'
  BY <1>1, <1>2, <1>3
     DEF IInv, TypeOK, ServedInv, TailInv, PosInv, SwapInv, kTrue, kFalse, InQ, Queued,
         Eligible, Section, Drawing, Arriving, Waiting, Leaving
<1>p. PetersonInv'
  BY <1>1, PetersonFrame, Zenon DEF Section, Drawing
<1>t. TicketInv'
  BY <1>1, TicketFrame, Zenon DEF HasTicket, Waiting, IInv, TypeOK
<1> QED
  BY <1>y, <1>a, <1>b, <1>c, <1>d, <1>e, <1>f, <1>g, <1>h, <1>s, <1>p, <1>t, Zenon DEF IInv

\* Writing prev->next_ links the thread behind the predecessor it swapped out.
LEMMA LinkPrevInv ==
  ASSUME IInv, NEW t \in Threads, LinkPrev(t)
  PROVE  IInv'
<1>1. /\ lk[t] \in Locks /\ Coh(t) \in Cohorts
      /\ pc[t] = "link"
      /\ next' = [next EXCEPT ![Coh(t)][prev[t]] = t]
      /\ pc' = [pc EXCEPT ![t] = "readticket"]
      /\ UNCHANGED <<tail, flag, victim, next_ticket, current_ticket, ticket,
                      to_get_ticket, granted, releasable, lk, prev, tk, vbuf, ops,
                      arrivals, served, pos, seen>>
  BY CohType, Zenon DEF LinkPrev, Goto, AfterTicket, IInv, LkInv, lockVars, descVars, history
<1>2. \A u \in Threads : Coh(u)' = Coh(u) /\ Coh(u) \in Cohorts /\ (u # t => pc'[u] = pc[u])
  BY <1>1, CohStable, CohType, Zenon DEF IInv, TypeOK
<1>3. None \notin Threads
  BY NoneAssumption, Zenon
<1>y. TypeOK'
  BY <1>1, Zenon DEF IInv, TypeOK, PCs, Ticket, Bit, kTrue, kFalse, kInvalidTicket
<1>4. prev[t] \in Threads /\ InQ(prev[t]) /\ SameQueue(t, prev[t]) /\ pos[t] = pos[prev[t]] + 1
      /\ InQ(t) /\ granted[Coh(t)][t] = kFalse
  BY <1>1, <1>3, Zenon DEF IInv, TypeOK, PrevInv, InQ, Queued, Arriving
<1>5. \A u \in Threads : next'[Coh(u)][u] = IF u = prev[t] THEN t ELSE next[Coh(u)][u]
  BY <1>1, <1>2, <1>4, Zenon DEF IInv, TypeOK, SameQueue
<1>6. \A u \in Threads : InQ(u)' <=> InQ(u)
  BY <1>1, <1>2, Zenon DEF InQ, Queued, Arriving, IInv, TypeOK
<1>7. pc'[t] = "readticket"
  BY <1>1, Zenon DEF IInv, TypeOK
<1>8. \A u \in Threads : u # t /\ InQ(u) /\ SameQueue(u, t) => pos[u] # pos[t]
  BY <1>4, Zenon DEF IInv, PosInv
<1>a. LkInv'
  BY <1>1, <1>2, <1>3, Zenon DEF IInv, TypeOK, LkInv
<1>b. SwapInv'
  BY <1>1, <1>2, <1>4, <1>5, <1>7, Zenon
     DEF IInv, SwapInv, InQ, Queued, Eligible, Section, Drawing, Arriving, Waiting, Leaving
<1>c. PosInv'
  BY <1>1, <1>2, <1>6, Zenon DEF IInv, PosInv, SameQueue
<1>d. TailInv'
  BY <1>1, <1>2, <1>6 DEF IInv, TailInv
<1>e. HeadInv'
  BY <1>1, <1>2, <1>6, <1>7, Zenon DEF IInv, HeadInv, SameQueue, Leaving
<1>f. PrevInv'
  <2>1. ASSUME NEW u \in Threads, pc'[u] \in {"readticket", "release"}
        PROVE  next'[Coh(u)][prev[u]] = u
    <3>1. CASE u = t
      BY <1>4, <1>5, <3>1, Zenon DEF SameQueue
    <3>2. CASE u # t
      <4>1. pc[u] \in {"readticket", "release"} /\ InQ(u)
            /\ prev[u] \in Threads /\ SameQueue(u, prev[u]) /\ pos[u] = pos[prev[u]] + 1
        BY <1>2, <2>1, <3>2, <1>3, Zenon DEF IInv, TypeOK, PrevInv, InQ, Queued, Arriving
      <4>2. prev[u] # prev[t]
        BY <1>4, <1>8, <3>2, <4>1, Zenon DEF SameQueue
      <4> QED
        BY <1>2, <1>5, <4>1, <4>2, ZenonT(40) DEF IInv, PrevInv, SameQueue
    <3> QED BY <3>1, <3>2, Zenon
  <2>2. ASSUME NEW u \in Threads, InQ(u), prev[u] # None, granted[Coh(u)][u] = kFalse
        PROVE  prev[u] \in Threads /\ InQ(prev[u]) /\ SameQueue(u, prev[u]) /\ pos[u] = pos[prev[u]] + 1
    BY <2>2, Zenon DEF IInv, TypeOK, PrevInv
  <2>3. ASSUME NEW u \in Threads
        PROVE  (InQ(u) /\ prev[u] # None /\ granted[Coh(u)][u] = kFalse =>
                  InQ(prev[u]) /\ SameQueue(u, prev[u]) /\ pos[u] = pos[prev[u]] + 1)'
    BY <1>1, <1>2, <1>6, <2>2, Zenon DEF SameQueue
  <2>4. ASSUME NEW u \in Threads
        PROVE  (/\ pc[u] \in Arriving => prev[u] # None
                /\ pc[u] \in {"link", "readticket", "release"} => granted[Coh(u)][u] = kFalse)'
    BY <1>1, <1>2, <1>3, <1>4, <1>7, Zenon DEF IInv, PrevInv, Arriving
  <2> QED
    BY <1>1, <1>2, <2>1, <2>3, <2>4, Zenon DEF PrevInv
<1>g. NextInv'
  <2> SUFFICES ASSUME NEW u \in Threads, InQ(u)
               PROVE  /\ \A v \in Threads : next'[Coh(u)][u] = v =>
                          /\ InQ(v) /\ SameQueue(u, v) /\ prev[v] = u /\ pos[v] = pos[u] + 1
                          /\ pc'[v] # "link" /\ granted[Coh(u)][v] = kFalse
                      /\ pc'[u] = "wake" => next'[Coh(u)][u] # None
    BY <1>1, <1>2, <1>6 DEF NextInv, SameQueue
  <2>1. CASE u = prev[t]
    BY <1>1, <1>2, <1>3, <1>4, <1>5, <1>7, <2>1, ZenonT(40) DEF SameQueue
  <2>2. CASE u # prev[t]
    BY <1>1, <1>2, <1>5, <1>7, <2>2 DEF IInv, NextInv
  <2> QED BY <2>1, <2>2, Zenon
<1>h. ReleaseInv'
  <2> SUFFICES ASSUME NEW u \in Threads, InQ(u)
               PROVE  /\ releasable[Coh(u)][u] = kTrue =>
                          /\ next'[Coh(u)][u] # None
                          /\ pc'[next'[Coh(u)][u]] \notin {"link", "readticket", "release"}
                      /\ pc'[u] = "grant" => releasable[Coh(u)][u] = kTrue
    BY <1>1, <1>2, <1>6, Zenon DEF ReleaseInv
  <2>1. CASE u = prev[t]
    <3>1. releasable[Coh(u)][u] # kTrue
      <4> SUFFICES ASSUME releasable[Coh(u)][u] = kTrue PROVE FALSE
        OBVIOUS
      <4>1. PICK v \in Threads : v = next[Coh(u)][u]
        BY <1>2 DEF IInv, TypeOK, ReleaseInv
      <4>2. InQ(v) /\ SameQueue(u, v) /\ pos[v] = pos[u] + 1 /\ pc[v] # "link"
        BY <4>1, Zenon DEF IInv, NextInv
      <4> QED
        BY <1>1, <1>4, <1>8, <2>1, <4>2, Zenon DEF SameQueue
    <3> QED
      BY <1>1, <1>2, <1>4, <1>7, <2>1, <3>1, Zenon DEF IInv, ReleaseInv
  <2>2. CASE u # prev[t]
    BY <1>1, <1>2, <1>3, <1>5, <1>7, <2>2 DEF IInv, TypeOK, ReleaseInv
  <2> QED BY <2>1, <2>2, Zenon

<1>s. ServedInv'
  BY <1>1, ServedFrame, Zenon DEF Queued, Eligible, Section, Drawing, Arriving, Waiting, Leaving
<1>p. PetersonInv'
  BY <1>1, PetersonFrame, Zenon DEF Section, Drawing
<1>t. TicketInv'
  BY <1>1, TicketFrame, Zenon DEF HasTicket, Waiting
<1> QED
  BY <1>y, <1>a, <1>b, <1>c, <1>d, <1>e, <1>f, <1>g, <1>h, <1>s, <1>p, <1>t, Zenon DEF IInv

\* A ticket found in the predecessor's descriptor means it has been served.
LEMMA ReadPrevTicketInv ==
  ASSUME IInv, NEW t \in Threads, ReadPrevTicket(t)
  PROVE  IInv'
<1>1. /\ lk[t] \in Locks /\ Coh(t) \in Cohorts
      /\ pc[t] = "readticket"
      /\ pc' = [pc EXCEPT ![t] = "release"]
      /\ tk' = [tk EXCEPT ![t] = ticket[Coh(t)][prev[t]]]
      /\ UNCHANGED <<tail, flag, victim, next_ticket, current_ticket, next,
                      ticket, to_get_ticket, granted, releasable, lk, prev, vbuf,
                      ops, arrivals, served, pos, seen>>
  BY CohType, Zenon
     DEF ReadPrevTicket, Goto, AfterTicket, IInv, LkInv, lockVars, descVars, history
<1>y. TypeOK'
  BY <1>1 DEF IInv, TypeOK, PCs, Ticket, Bit, kTrue, kFalse, kInvalidTicket, PrevInv, Arriving
<1>q. LkInv' /\ SwapInv' /\ PosInv' /\ TailInv' /\ HeadInv' /\ PrevInv' /\ NextInv' /\ ReleaseInv'
  BY <1>1, QueueFrame, Zenon DEF Queued, Eligible, Section, Drawing, Arriving, Waiting, Leaving
<1>s. ServedInv'
  <2>1. \A u \in Threads : Coh(u)' = Coh(u) /\ (u # t => pc'[u] = pc[u] /\ tk'[u] = tk[u])
    BY <1>1, CohStable, Zenon DEF IInv, TypeOK
  <2>2. \A u \in Threads : InQ(u)' <=> InQ(u)
    BY <1>1, Zenon DEF InQ, IInv, TypeOK, Queued, Arriving
  <2>3. /\ pc'[t] = "release" /\ tk'[t] = ticket[Coh(t)][prev[t]]
        /\ prev[t] \in Threads /\ InQ(prev[t]) /\ SameQueue(t, prev[t])
        /\ pos[t] = pos[prev[t]] + 1
    BY <1>1, Zenon DEF IInv, TypeOK, PrevInv, InQ, Queued, Arriving
  <2>4. tk'[t] # kInvalidTicket => pos[prev[t]] < served[lk[t]][Coh(t)]
    BY <2>3, Zenon DEF IInv, ServedInv, SameQueue, InQ, Queued
  <2>5. tk'[t] # kInvalidTicket => pos[t] <= served[lk[t]][Coh(t)]
    BY <1>1, <2>3, <2>4 DEF IInv, TypeOK
  <2> DEFINE Served(u) ==
        /\ pc[u] \in Arriving => served[lk[u]][Coh(u)] <= pos[u]
        /\ pc[u] \in Eligible => pos[u] = served[lk[u]][Coh(u)]
        /\ pc[u] \in Waiting \cup Leaving => pos[u] < served[lk[u]][Coh(u)]
        /\ pc[u] \in Arriving \cup Eligible => ticket[Coh(u)][u] = kInvalidTicket
        /\ InQ(u) /\ to_get_ticket[Coh(u)][u] = kTrue => pos[u] <= served[lk[u]][Coh(u)]
        /\ pc[u] = "release" /\ tk[u] # kInvalidTicket => pos[u] <= served[lk[u]][Coh(u)]
  <2>6. \A u \in Threads : Served(u)
    BY Zenon DEF IInv, ServedInv
  <2>7. Served(t)'
    BY <1>1, <2>1, <2>2, <2>3, <2>5, <2>6, Zenon
       DEF Arriving, Eligible, Section, Drawing, Waiting, Leaving
  <2>8. ASSUME NEW u \in Threads, u # t
        PROVE  Served(u)'
    <3>1. Served(u)
      BY <2>6, Zenon
    <3>2. /\ UNCHANGED <<lk, served, pos, ticket, to_get_ticket>> /\ Coh(u)' = Coh(u)
          /\ pc'[u] = pc[u] /\ tk'[u] = tk[u] /\ (InQ(u)' <=> InQ(u))
      BY <1>1, <2>1, <2>2, <2>8, Zenon
    <3> QED
      BY <3>1, <3>2, Zenon
  <2> HIDE DEF Served
  <2>9. \A u \in Threads : Served(u)'
    BY <2>7, <2>8, Zenon
  <2> QED
    BY <1>1, <2>9, Zenon DEF IInv, ServedInv, Served
<1>p. PetersonInv'
  BY <1>1, PetersonFrame, Zenon DEF Section, Drawing
<1>t. TicketInv'
  BY <1>1, TicketFrame, Zenon DEF HasTicket, Waiting, IInv, TypeOK
<1> QED
  BY <1>y, <1>q, <1>s, <1>p, <1>t, Zenon DEF IInv

\* prev->releasable_ is written by the linked successor, its last access to prev.
LEMMA ReleasePrevInv ==
  ASSUME IInv, NEW t \in Threads, ReleasePrev(t)
  PROVE  IInv'
<1>1. /\ lk[t] \in Locks /\ Coh(t) \in Cohorts
      /\ pc[t] = "release"
      /\ releasable' = [releasable EXCEPT ![Coh(t)][prev[t]] = kTrue]
      /\ pc' = [pc EXCEPT ![t] = IF tk[t] = kInvalidTicket THEN "waitget" ELSE "flag"]
      /\ tk' = [tk EXCEPT ![t] = kInvalidTicket]
      /\ UNCHANGED <<tail, flag, victim, next_ticket, current_ticket, next,
                      ticket, to_get_ticket, granted, lk, prev, vbuf, ops,
                      arrivals, served, pos, seen>>
  BY CohType, Zenon DEF ReleasePrev, Goto, AfterTicket, IInv, LkInv, lockVars, descVars, history
<1>2. \A u \in Threads : Coh(u)' = Coh(u) /\ Coh(u) \in Cohorts /\ (u # t => pc'[u] = pc[u])
  BY <1>1, CohStable, CohType, Zenon DEF IInv, TypeOK
<1>3. None \notin Threads
  BY NoneAssumption, Zenon
<1>y. TypeOK'
  BY <1>1, Zenon DEF IInv, TypeOK, PCs, Ticket, Bit, kTrue, kFalse, kInvalidTicket
<1>4. prev[t] \in Threads /\ InQ(prev[t]) /\ SameQueue(t, prev[t]) /\ pos[t] = pos[prev[t]] + 1 /\ InQ(t)
      /\ granted[Coh(t)][t] = kFalse /\ next[Coh(t)][prev[t]] = t
  BY <1>1, <1>3, Zenon DEF IInv, TypeOK, PrevInv, InQ, Queued, Arriving
<1>5. \A u \in Threads : releasable'[Coh(u)][u] = IF u = prev[t] THEN kTrue ELSE releasable[Coh(u)][u]
  BY <1>1, <1>2, <1>4, Zenon DEF IInv, TypeOK, SameQueue
<1>6. \A u \in Threads : InQ(u)' <=> InQ(u)
  BY <1>1, <1>2, Zenon DEF InQ, Queued, Arriving, Eligible, IInv, TypeOK
<1>7. pc'[t] \in {"waitget", "flag"}
  BY <1>1, Zenon DEF IInv, TypeOK
<1>a. LkInv'
  BY <1>1, <1>2, <1>3, Zenon DEF IInv, TypeOK, LkInv
<1>b. SwapInv'
  BY <1>1, <1>2, <1>4, <1>5, <1>7, Zenon
     DEF IInv, SwapInv, InQ, Queued, Eligible, Section, Drawing, Arriving, Waiting, Leaving
<1>c. PosInv'
  BY <1>1, <1>2, <1>6, Zenon DEF IInv, PosInv, SameQueue
<1>d. TailInv'
  BY <1>1, <1>2, <1>6 DEF IInv, TailInv
<1>e. HeadInv'
  BY <1>1, <1>2, <1>6, <1>7, Zenon DEF IInv, HeadInv, SameQueue, Leaving
<1>f. PrevInv'
  <2>2. ASSUME NEW u \in Threads, InQ(u), prev[u] # None, granted[Coh(u)][u] = kFalse
        PROVE  prev[u] \in Threads /\ InQ(prev[u]) /\ SameQueue(u, prev[u]) /\ pos[u] = pos[prev[u]] + 1
    BY <2>2, Zenon DEF IInv, TypeOK, PrevInv
  <2>3. ASSUME NEW u \in Threads
        PROVE  (InQ(u) /\ prev[u] # None /\ granted[Coh(u)][u] = kFalse =>
                  InQ(prev[u]) /\ SameQueue(u, prev[u]) /\ pos[u] = pos[prev[u]] + 1)'
    BY <1>1, <1>2, <1>6, <2>2, Zenon DEF SameQueue
  <2>4. ASSUME NEW u \in Threads
        PROVE  (/\ pc[u] \in Arriving => prev[u] # None
                /\ pc[u] \in {"link", "readticket", "release"} => granted[Coh(u)][u] = kFalse
                /\ pc[u] \in {"readticket", "release"} => next[Coh(u)][prev[u]] = u)'
    BY <1>1, <1>2, <1>3, <1>4, <1>7, Zenon DEF IInv, PrevInv, Arriving
  <2> QED
    BY <2>3, <2>4, Zenon DEF PrevInv
<1>g. NextInv'
  <2> SUFFICES ASSUME NEW u \in Threads, InQ(u)
               PROVE  /\ \A v \in Threads : next[Coh(u)][u] = v =>
                          /\ InQ(v) /\ SameQueue(u, v) /\ prev[v] = u /\ pos[v] = pos[u] + 1
                          /\ pc'[v] # "link" /\ granted[Coh(u)][v] = kFalse
                      /\ pc'[u] = "wake" => next[Coh(u)][u] # None
    BY <1>1, <1>2, <1>6 DEF NextInv, SameQueue
  <2>1. pc'[t] # "link" /\ pc'[t] # "wake"
    BY <1>1, Zenon DEF IInv, TypeOK
  <2>2. /\ \A v \in Threads : next[Coh(u)][u] = v =>
              /\ InQ(v) /\ SameQueue(u, v) /\ prev[v] = u /\ pos[v] = pos[u] + 1
              /\ pc[v] # "link" /\ granted[Coh(u)][v] = kFalse
        /\ pc[u] = "wake" => next[Coh(u)][u] # None
    BY Zenon DEF IInv, NextInv
  <2> QED
    BY <1>2, <2>1, <2>2, Zenon
<1>h. ReleaseInv'
  <2> SUFFICES ASSUME NEW u \in Threads, InQ(u)
               PROVE  /\ releasable'[Coh(u)][u] = kTrue =>
                          /\ next[Coh(u)][u] # None
                          /\ pc'[next[Coh(u)][u]] \notin {"link", "readticket", "release"}
                      /\ pc'[u] = "grant" => releasable'[Coh(u)][u] = kTrue
    BY <1>1, <1>2, <1>6, Zenon DEF ReleaseInv
  <2>1. CASE u = prev[t]
    BY <1>1, <1>2, <1>3, <1>4, <1>5, <1>7, <2>1, Zenon DEF SameQueue
  <2>2. CASE u # prev[t]
    BY <1>1, <1>2, <1>3, <1>5, <1>7, <2>2 DEF IInv, TypeOK, ReleaseInv
  <2> QED BY <2>1, <2>2, Zenon
<1>s. ServedInv'
  <2>1. \A u \in Threads : u # t => tk'[u] = tk[u]
    BY <1>1, Zenon DEF IInv, TypeOK
  <2>2. pc'[t] = "flag" => pos[t] = served[lk[t]][Coh(t)]
    <3>1. pos[t] \in Nat /\ served[lk[t]][Coh(t)] \in Nat
      BY <1>1, Zenon DEF IInv, TypeOK
    <3>2. served[lk[t]][Coh(t)] <= pos[t]
      BY <1>1, Zenon DEF IInv, ServedInv, Arriving
    <3>3. tk[t] # kInvalidTicket => pos[t] <= served[lk[t]][Coh(t)]
      BY <1>1, Zenon DEF IInv, ServedInv
    <3>4. pc'[t] = "flag" => tk[t] # kInvalidTicket
      BY <1>1, Zenon DEF IInv, TypeOK
    <3> QED
      BY <3>1, <3>2, <3>3, <3>4
  <2>3. served[lk[t]][Coh(t)] <= pos[t] /\ ticket[Coh(t)][t] = kInvalidTicket
    BY <1>1, Zenon DEF IInv, ServedInv, Arriving
  <2> QED
    BY <1>1, <1>2, <1>6, <1>7, <2>1, <2>2, <2>3
    DEF IInv, ServedInv, Arriving, Eligible, Section, Drawing, Waiting, Leaving

<1>p. PetersonInv'
  BY <1>1, PetersonFrame, Zenon DEF Section, Drawing
<1>t. TicketInv'
  BY <1>1, TicketFrame, Zenon DEF HasTicket, Waiting, IInv, TypeOK
<1> QED
  BY <1>y, <1>a, <1>b, <1>c, <1>d, <1>e, <1>f, <1>g, <1>h, <1>s, <1>p, <1>t, Zenon DEF IInv

\* The wait for to_get_ticket_ ends when the predecessor has been served.
LEMMA WaitToGetTicketInv ==
  ASSUME IInv, NEW t \in Threads, WaitToGetTicket(t)
  PROVE  IInv'
<1>1. /\ lk[t] \in Locks /\ Coh(t) \in Cohorts
      /\ pc[t] = "waitget" /\ to_get_ticket[Coh(t)][t] = kTrue
      /\ pc' = [pc EXCEPT ![t] = "flag"]
      /\ UNCHANGED <<tail, flag, victim, next_ticket, current_ticket, next,
                      ticket, to_get_ticket, granted, releasable, lk, prev, tk,
                      vbuf, ops, arrivals, served, pos, seen>>
  BY CohType, Zenon
     DEF WaitToGetTicket, Goto, AfterTicket, IInv, LkInv, lockVars, descVars, history
<1>y. TypeOK'
  BY <1>1, Zenon DEF IInv, TypeOK, PCs, Ticket, Bit, kTrue, kFalse, kInvalidTicket
<1>q. LkInv' /\ SwapInv' /\ PosInv' /\ TailInv' /\ HeadInv' /\ PrevInv' /\ NextInv' /\ ReleaseInv'
  BY <1>1, QueueFrame, Zenon DEF Queued, Eligible, Section, Drawing, Arriving, Waiting, Leaving
<1>s. ServedInv'
  <2>1. \A u \in Threads : Coh(u)' = Coh(u) /\ (u # t => pc'[u] = pc[u])
    BY <1>1, CohStable, Zenon DEF IInv, TypeOK
  <2>2. \A u \in Threads : InQ(u)' <=> InQ(u)
    BY <1>1, Zenon DEF InQ, IInv, TypeOK, Queued, Arriving, Eligible
  <2>3. pos[t] = served[lk[t]][Coh(t)]
    <3>1. pos[t] \in Nat /\ served[lk[t]][Coh(t)] \in Nat
      BY <1>1, Zenon DEF IInv, TypeOK
    <3>2. served[lk[t]][Coh(t)] <= pos[t] /\ pos[t] <= served[lk[t]][Coh(t)]
      BY <1>1, Zenon DEF IInv, ServedInv, InQ, Queued, Arriving
    <3> QED
      BY <3>1, <3>2
  <2>4. pc'[t] = "flag" /\ ticket[Coh(t)][t] = kInvalidTicket
    BY <1>1, Zenon DEF IInv, TypeOK, ServedInv, Arriving
  <2> QED
    BY <1>1, <2>1, <2>2, <2>3, <2>4, CohType
    DEF IInv, TypeOK, ServedInv, Arriving, Eligible, Section, Drawing, Waiting, Leaving
<1>p. PetersonInv'
  BY <1>1, PetersonFrame, Zenon DEF Section, Drawing
<1>t. TicketInv'
  BY <1>1, TicketFrame, Zenon DEF HasTicket, Waiting
<1> QED
  BY <1>y, <1>q, <1>s, <1>p, <1>t, Zenon DEF IInv

-----------------------------------------------------------------------------
-----------------------------------------------------------------------------
(***************************************************************************)
(* The steps of Lock that draw a ticket: Peterson's algorithm between the  *)
(* cohorts, the fetch-and-add on next_ticket_, and its publication.        *)
(***************************************************************************)
\* Raising the cohort's flag starts Peterson's section.
LEMMA RaiseFlagInv ==
  ASSUME IInv, NEW t \in Threads, RaiseFlag(t)
  PROVE  IInv'
<1>1. /\ lk[t] \in Locks /\ Coh(t) \in Cohorts
      /\ pc[t] = "flag"
      /\ flag' = [flag EXCEPT ![lk[t]][Coh(t)] = kTrue]
      /\ pc' = [pc EXCEPT ![t] = "victim"]
      /\ UNCHANGED <<tail, victim, next_ticket, current_ticket, next, ticket,
                      to_get_ticket, granted, releasable, lk, prev, tk, vbuf, ops,
                      arrivals, served, pos, seen>>
  BY CohType, Zenon DEF RaiseFlag, Goto, AfterTicket, IInv, LkInv, lockVars, descVars, history
<1>y. TypeOK'
  BY <1>1, Zenon DEF IInv, TypeOK, PCs, Ticket, Bit, kTrue, kFalse, kInvalidTicket
<1>q. LkInv' /\ SwapInv' /\ PosInv' /\ TailInv' /\ HeadInv' /\ PrevInv' /\ NextInv' /\ ReleaseInv'
  BY <1>1, QueueFrame, Zenon DEF Queued, Eligible, Section, Drawing, Arriving, Waiting, Leaving
<1>s. ServedInv'
  BY <1>1, ServedFrame, Zenon DEF Queued, Eligible, Section, Drawing, Arriving, Waiting, Leaving
<1>p. PetersonInv'
  <2>1. \A u \in Threads : Coh(u)' = Coh(u) /\ (u # t => pc'[u] = pc[u])
    BY <1>1, CohStable, Zenon DEF IInv, TypeOK
  <2> QED
    BY <1>1, <2>1, CohType DEF IInv, TypeOK, LkInv, PetersonInv, Drawing, Section
<1>t. TicketInv'
  BY <1>1, TicketFrame, Zenon DEF HasTicket, Waiting
<1> QED
  BY <1>y, <1>q, <1>s, <1>p, <1>t, Zenon DEF IInv

\* Writing victim_ only ever hinders the writer.
LEMMA SetVictimInv ==
  ASSUME IInv, NEW t \in Threads, SetVictim(t)
  PROVE  IInv'
<1>1. /\ lk[t] \in Locks /\ Coh(t) \in Cohorts
      /\ pc[t] = "victim"
      /\ victim' = [victim EXCEPT ![lk[t]] = Coh(t)]
      /\ pc' = [pc EXCEPT ![t] = "spin1"]
      /\ seen' = [seen EXCEPT ![t] = next_ticket[lk[t]]]
      /\ UNCHANGED <<tail, flag, next_ticket, current_ticket, next, ticket,
                      to_get_ticket, granted, releasable, lk, prev, tk, vbuf, ops,
                      arrivals, served, pos>>
  BY CohType, Zenon DEF SetVictim, Goto, AfterTicket, IInv, LkInv, lockVars, descVars, history
<1>y. TypeOK'
  BY <1>1, Zenon DEF IInv, TypeOK, PCs, Ticket, Bit, kTrue, kFalse, kInvalidTicket
<1>q. LkInv' /\ SwapInv' /\ PosInv' /\ TailInv' /\ HeadInv' /\ PrevInv' /\ NextInv' /\ ReleaseInv'
  BY <1>1, QueueFrame, Zenon DEF Queued, Eligible, Section, Drawing, Arriving, Waiting, Leaving
<1>s. ServedInv'
  BY <1>1, ServedFrame, Zenon DEF Queued, Eligible, Section, Drawing, Arriving, Waiting, Leaving
<1>p. PetersonInv'
  <2>1. \A u \in Threads : Coh(u)' = Coh(u) /\ (u # t => pc'[u] = pc[u])
    BY <1>1, CohStable, Zenon DEF IInv, TypeOK
  <2>2. \A u \in Threads : u # t /\ lk[u] = lk[t] /\ Coh(u) = Coh(t) => pc[u] \notin Section
    BY <1>1, OneEligible, Zenon DEF Eligible, Section, SameQueue
  <2>3. pc'[t] = "spin1" /\ victim'[lk[t]] = Coh(t) /\ \A l \in Locks : l # lk[t] => victim'[l] = victim[l]
    BY <1>1, Zenon DEF IInv, TypeOK
  <2>4. \A u \in Threads : pc[u] # "idle" => lk[u] \in Locks
    BY Zenon DEF IInv, LkInv
  <2>5. \A u \in Threads : pc'[u] \in Section => flag'[lk[u]][Coh(u)] = kTrue
    BY <1>1, <2>1, Zenon DEF IInv, PetersonInv, Section
  <2>6. ASSUME NEW u \in Threads, NEW v \in Threads, lk[u] = lk[v], Coh(u) # Coh(v), pc'[u] \in Drawing
        PROVE  pc'[v] \notin Drawing /\ (pc'[v] \in {"spin1", "spin2"} => victim'[lk[v]] = Coh(v))
    BY <1>1, <2>1, <2>2, <2>3, <2>4, <2>6, CohType
       DEF IInv, PetersonInv, Section, Drawing, Cohorts
  <2>7. ASSUME NEW u \in Threads
        PROVE  /\ pc'[u] \in {"spin1", "spin2"} => victim'[lk[u]] \in Cohorts
               /\ pc'[u] = "spin2" /\ Coh(u) = "remote" =>
                    vbuf[u] \in Cohorts /\ (vbuf[u] = "local" => victim'[lk[u]] = "local")
    BY <1>1, <2>1, <2>2, <2>3, <2>4, <2>7, CohType, Zenon DEF IInv, PetersonInv, Section, Cohorts
  <2> QED
    BY <1>1, <2>1, <2>5, <2>6, <2>7 DEF PetersonInv
<1>t. TicketInv'
  BY <1>1, TicketFrame, Zenon DEF HasTicket, Waiting
<1> QED
  BY <1>y, <1>q, <1>s, <1>p, <1>t, Zenon DEF IInv

\* A turn of either wait loop of Peterson's algorithm, given that the loop is
\* left only when no thread of the other cohort is drawing or can come to draw
\* before this one.
LEMMA SpinFrame ==
  ASSUME IInv, NEW t \in Threads, NEW q \in {"spin1", "spin2", "faa"},
         lk[t] \in Locks, pc[t] \in {"spin1", "spin2"}, pc' = [pc EXCEPT ![t] = q],
         q = "faa" => \A u \in Threads : lk[u] = lk[t] /\ Coh(u) # Coh(t) =>
           /\ pc[u] \notin Drawing
           /\ pc[u] \in {"spin1", "spin2"} => victim[lk[t]] = Coh(u),
         vbuf' \in [Threads -> Cohorts \cup {None}],
         \A u \in Threads : u # t => vbuf'[u] = vbuf[u],
         q = "spin2" /\ Coh(t) = "remote" =>
           vbuf'[t] \in Cohorts /\ (vbuf'[t] = "local" => victim[lk[t]] = "local"),
         UNCHANGED <<lockVars, descVars, lk, prev, tk, ops, history>>
  PROVE  IInv'
<1>1. UNCHANGED <<tail, flag, victim, next_ticket, current_ticket, next, ticket, to_get_ticket,
                  granted, releasable, lk, prev, tk, ops, arrivals, served, pos, seen>>
  BY Zenon DEF lockVars, descVars, history
<1>y. TypeOK'
  BY <1>1, Zenon DEF IInv, TypeOK, PCs
<1>q. LkInv' /\ SwapInv' /\ PosInv' /\ TailInv' /\ HeadInv' /\ PrevInv' /\ NextInv' /\ ReleaseInv'
  BY <1>1, QueueFrame, Zenon DEF Queued, Eligible, Section, Drawing, Arriving, Waiting, Leaving
<1>s. ServedInv'
  BY <1>1, ServedFrame, Zenon DEF Queued, Eligible, Section, Drawing, Arriving, Waiting, Leaving
<1>t. TicketInv'
  BY <1>1, TicketFrame, Zenon DEF HasTicket, Waiting
<1>p. PetersonInv'
  <2>1. \A u \in Threads : Coh(u)' = Coh(u) /\ (u # t => pc'[u] = pc[u])
    BY <1>1, CohStable, Zenon DEF IInv, TypeOK
  <2>2. pc'[t] = q /\ flag[lk[t]][Coh(t)] = kTrue /\ victim[lk[t]] \in Cohorts
    BY Zenon DEF IInv, TypeOK, PetersonInv, Section
  <2>3. ASSUME NEW u \in Threads, NEW v \in Threads,
               lk[u] = lk[v], Coh(u) # Coh(v), pc'[u] \in Drawing
        PROVE  pc'[v] \notin Drawing /\ (pc'[v] \in {"spin1", "spin2"} => victim[lk[v]] = Coh(v))
    <3>1. CASE u = t
      BY <2>1, <2>2, <2>3, <3>1, Zenon DEF Drawing
    <3>2. CASE v = t
      BY <2>1, <2>2, <2>3, <3>2, Zenon DEF IInv, PetersonInv, Drawing
    <3>3. CASE u # t /\ v # t
      BY <2>1, <2>3, <3>3, Zenon DEF IInv, PetersonInv
    <3> QED BY <3>1, <3>2, <3>3, Zenon
  <2>4. \A u \in Threads : pc'[u] \in Section => flag[lk[u]][Coh(u)] = kTrue
    BY <2>1, <2>2, Zenon DEF IInv, PetersonInv
  <2>5. \A u \in Threads :
          /\ pc'[u] \in {"spin1", "spin2"} => victim[lk[u]] \in Cohorts
          /\ pc'[u] = "spin2" /\ Coh(u) = "remote" =>
               vbuf'[u] \in Cohorts /\ (vbuf'[u] = "local" => victim[lk[u]] = "local")
    BY <2>1, <2>2, Zenon DEF IInv, PetersonInv
  <2> QED
    BY <1>1, <2>1, <2>3, <2>4, <2>5 DEF PetersonInv
<1> QED
  BY <1>y, <1>q, <1>s, <1>p, <1>t, Zenon DEF IInv

\* Either exit condition of the loops (the other flag is down, the other cohort
\* is the victim) gives what SpinFrame asks.
LEMMA SpinExit ==
  ASSUME IInv, NEW t \in Threads, lk[t] \in Locks, pc[t] \in {"spin1", "spin2"},
         NEW c \in Cohorts, c # Coh(t),
         flag[lk[t]][c] # kTrue \/ victim[lk[t]] = c
  PROVE  \A u \in Threads : lk[u] = lk[t] /\ Coh(u) # Coh(t) =>
           /\ pc[u] \notin Drawing
           /\ pc[u] \in {"spin1", "spin2"} => victim[lk[t]] = Coh(u)
<1> SUFFICES ASSUME NEW u \in Threads, lk[u] = lk[t], Coh(u) # Coh(t)
             PROVE  /\ pc[u] \notin Drawing
                    /\ pc[u] \in {"spin1", "spin2"} => victim[lk[t]] = Coh(u)
  OBVIOUS
<1>1. Coh(u) = c
  BY CohType, Zenon DEF Cohorts
<1>2. CASE flag[lk[t]][c] # kTrue
  BY <1>1, <1>2, Zenon DEF IInv, PetersonInv, Section
<1>3. CASE victim[lk[t]] = c
  BY <1>1, <1>3, Zenon DEF IInv, PetersonInv
<1> QED
  BY <1>2, <1>3, Zenon

\* LockPetersonsLocal's loop.
LEMMA SpinLocalInv ==
  ASSUME IInv, NEW t \in Threads, Coh(t) = "local", SpinLocal(t)
  PROVE  IInv'
<1>1. /\ lk[t] \in Locks /\ pc[t] \in {"spin1", "spin2"}
      /\ vbuf' = vbuf /\ UNCHANGED <<lockVars, descVars, lk, prev, tk, ops, history>>
  BY Zenon DEF SpinLocal, Goto, IInv, LkInv
<1>2. PICK q \in {"spin1", "spin2", "faa"} :
        /\ pc' = [pc EXCEPT ![t] = q]
        /\ q = "faa" => \/ flag[lk[t]]["remote"] # kTrue
                        \/ pc[t] = "spin2" /\ victim[lk[t]] # "local"
  BY Zenon DEF SpinLocal, Goto
<1>3. victim[lk[t]] \in {"local", "remote"}
  BY <1>1, Zenon DEF IInv, PetersonInv, Cohorts
<1>4. q = "faa" => \A u \in Threads : lk[u] = lk[t] /\ Coh(u) # Coh(t) =>
           /\ pc[u] \notin Drawing
           /\ pc[u] \in {"spin1", "spin2"} => victim[lk[t]] = Coh(u)
  BY <1>1, <1>2, <1>3, SpinExit, Zenon DEF Cohorts
<1>5. vbuf' \in [Threads -> Cohorts \cup {None}]
  BY <1>1, Zenon DEF IInv, TypeOK
<1> QED
  BY <1>1, <1>2, <1>4, <1>5, SpinFrame, Zenon

\* LockPetersonsRemote's loop: the victim_ word of the buffer may be stale, but
\* a stale "local" is still true, since only this thread's cohort writes "remote".
LEMMA SpinRemoteInv ==
  ASSUME IInv, NEW t \in Threads, Coh(t) = "remote", SpinRemote(t)
  PROVE  IInv'
<1>1. /\ lk[t] \in Locks /\ pc[t] \in {"spin1", "spin2"}
      /\ UNCHANGED <<lockVars, descVars, lk, prev, tk, ops, history>>
  BY Zenon DEF SpinRemote, Goto, IInv, LkInv
<1>2. PICK q \in {"spin1", "spin2", "faa"}, b \in {victim[lk[t]], None} :
        /\ pc' = [pc EXCEPT ![t] = q]
        /\ vbuf' = [vbuf EXCEPT ![t] = b]
        /\ q = "spin2" => b = victim[lk[t]]
        /\ q = "faa" => \/ flag[lk[t]]["local"] # kTrue
                        \/ pc[t] = "spin2" /\ vbuf[t] # "remote"
  BY Zenon DEF SpinRemote, Goto
<1>3. victim[lk[t]] \in Cohorts
  BY <1>1, Zenon DEF IInv, PetersonInv
<1>4. pc[t] = "spin2" /\ vbuf[t] # "remote" => victim[lk[t]] = "local"
  BY <1>1, Zenon DEF IInv, PetersonInv, Cohorts
<1>5. q = "faa" => \A u \in Threads : lk[u] = lk[t] /\ Coh(u) # Coh(t) =>
           /\ pc[u] \notin Drawing
           /\ pc[u] \in {"spin1", "spin2"} => victim[lk[t]] = Coh(u)
  BY <1>1, <1>2, <1>4, SpinExit, Zenon DEF Cohorts
<1>6. /\ vbuf' \in [Threads -> Cohorts \cup {None}] /\ vbuf'[t] = b
      /\ \A u \in Threads : u # t => vbuf'[u] = vbuf[u]
  BY <1>2, <1>3, Zenon DEF IInv, TypeOK
<1> QED
  BY <1>1, <1>2, <1>3, <1>5, <1>6, SpinFrame, Zenon

\* Clearing the flag ends Peterson's section; the ticket is in hand.
LEMMA UnlockPetersonsInv ==
  ASSUME IInv, NEW t \in Threads, UnlockPetersons(t)
  PROVE  IInv'
<1>1. /\ lk[t] \in Locks /\ Coh(t) \in Cohorts
      /\ pc[t] = "clear"
      /\ flag' = [flag EXCEPT ![lk[t]][Coh(t)] = kFalse]
      /\ pc' = [pc EXCEPT ![t] = "publish"]
      /\ UNCHANGED <<tail, victim, next_ticket, current_ticket, next, ticket,
                      to_get_ticket, granted, releasable, lk, prev, tk, vbuf, ops,
                      arrivals, served, pos, seen>>
  BY CohType, Zenon DEF UnlockPetersons, Goto, AfterTicket, IInv, LkInv, lockVars, descVars, history
<1>y. TypeOK'
  BY <1>1, Zenon DEF IInv, TypeOK, PCs, Ticket, Bit, kTrue, kFalse, kInvalidTicket
<1>q. LkInv' /\ SwapInv' /\ PosInv' /\ TailInv' /\ HeadInv' /\ PrevInv' /\ NextInv' /\ ReleaseInv'
  BY <1>1, QueueFrame, Zenon DEF Queued, Eligible, Section, Drawing, Arriving, Waiting, Leaving
<1>s. ServedInv'
  BY <1>1, ServedFrame, Zenon DEF Queued, Eligible, Section, Drawing, Arriving, Waiting, Leaving
<1>p. PetersonInv'
  <2>1. \A u \in Threads : Coh(u)' = Coh(u) /\ (u # t => pc'[u] = pc[u])
    BY <1>1, CohStable, Zenon DEF IInv, TypeOK
  <2>2. \A u \in Threads : u # t /\ lk[u] = lk[t] /\ Coh(u) = Coh(t) => pc[u] \notin Section
    BY <1>1, OneEligible, Zenon DEF Eligible, Section, Drawing, SameQueue
  <2>3. pc'[t] = "publish"
    BY <1>1, Zenon DEF IInv, TypeOK
  <2>4. \A u \in Threads : pc[u] # "idle" => lk[u] \in Locks
    BY Zenon DEF IInv, LkInv
  <2> QED
    BY <1>1, <2>1, <2>2, <2>3, <2>4, CohType DEF IInv, TypeOK, PetersonInv, Section, Drawing
<1>k. Tick(t)' = Tick(t)
  BY <1>1, CohStable, Zenon DEF Tick, IInv, TypeOK, Waiting, HasTicket
<1>t. TicketInv'
  BY <1>1, <1>k, TicketFrame, Zenon DEF HasTicket, Waiting
<1> QED
  BY <1>y, <1>q, <1>s, <1>p, <1>t, Zenon DEF IInv

\* The CPU fetch-and-add draws a fresh ticket.
LEMMA FetchAddLocalInv ==
  ASSUME IInv, NEW t \in Threads, FetchAddLocal(t)
  PROVE  IInv'
<1>1. /\ lk[t] \in Locks /\ Coh(t) \in Cohorts
      /\ pc[t] = "faa" /\ Coh(t) = "local"
      /\ next_ticket' = [next_ticket EXCEPT ![lk[t]] = @ + 1]
      /\ pc' = [pc EXCEPT ![t] = "clear"]
      /\ tk' = [tk EXCEPT ![t] = next_ticket[lk[t]]]
      /\ seen' = [seen EXCEPT ![t] = 0]
      /\ UNCHANGED <<tail, flag, victim, current_ticket, next, ticket,
                      to_get_ticket, granted, releasable, lk, prev, vbuf, ops,
                      arrivals, served, pos>>
  BY CohType, Zenon DEF FetchAddLocal, Goto, AfterTicket, IInv, LkInv, lockVars, descVars, history
<1>y. TypeOK'
  BY <1>1 DEF IInv, TypeOK, PCs, Ticket, Bit, kTrue, kFalse, kInvalidTicket
<1>q. LkInv' /\ SwapInv' /\ PosInv' /\ TailInv' /\ HeadInv' /\ PrevInv' /\ NextInv' /\ ReleaseInv'
  BY <1>1, QueueFrame, Zenon DEF Queued, Eligible, Section, Drawing, Arriving, Waiting, Leaving
<1>s. ServedInv'
  BY <1>1, ServedFrame, Zenon
     DEF Queued, Eligible, Section, Drawing, Arriving, Waiting, Leaving, IInv, TypeOK
<1>p. PetersonInv'
  <2>1. \A u \in Threads : Coh(u)' = Coh(u) /\ (u # t => pc'[u] = pc[u])
    BY <1>1, CohStable, Zenon DEF IInv, TypeOK
  <2> QED
    BY <1>1, <2>1 DEF IInv, TypeOK, PetersonInv, Section, Drawing
<1>t. TicketInv'
  <2>1. \A u \in Threads : u # t /\ lk[u] = lk[t] => pc[u] \notin Drawing
    BY <1>1, OneDrawing, Zenon DEF TicketSectionExclusion, Drawing
  <2>2. \A u \in Threads : u # t => pc'[u] = pc[u] /\ Tick(u)' = Tick(u) /\ tk'[u] = tk[u]
    BY <1>1, CohStable, Zenon DEF IInv, TypeOK, Tick
  <2>3. pc'[t] = "clear" /\ Tick(t)' = next_ticket[lk[t]]
    BY <1>1, Zenon DEF IInv, TypeOK, Tick
  <2>4. \A u \in Threads : pc[u] # "idle" => lk[u] \in Locks
    BY Zenon DEF IInv, LkInv
  <2>5. /\ \A l \in Locks : next_ticket[l] \in Nat
        /\ \A l \in Locks : next_ticket'[l] = IF l = lk[t] THEN next_ticket[l] + 1 ELSE next_ticket[l]
        /\ current_ticket' = current_ticket /\ lk' = lk
    BY <1>1, Zenon DEF IInv, TypeOK
  <2>6. \A l \in Locks : current_ticket[l] \in Nat /\ current_ticket[l] <= next_ticket[l]
    BY Zenon DEF IInv, TypeOK, TicketInv
  <2>7. \A u \in Threads : Coh(u)' = Coh(u)
    BY <1>1, CohStable, Zenon
  <2> QED
    BY <1>1, <2>1, <2>2, <2>3, <2>4, <2>5, <2>6, <2>7
       DEF IInv, TicketInv, Drawing, HasTicket, Waiting
<1> QED
  BY <1>y, <1>q, <1>s, <1>p, <1>t, Zenon DEF IInv

\* The two halves of the RDMA fetch-and-add: nobody draws in between, so the
\* value written is the successor of the value in memory.
LEMMA FetchAddRemoteInv ==
  ASSUME IInv, NEW t \in Threads, FetchAddRemote(t)
  PROVE  IInv'
<1>1. /\ lk[t] \in Locks /\ Coh(t) = "remote" /\ pc[t] \in {"faa", "faawrite"}
      /\ UNCHANGED <<tail, flag, victim, current_ticket, next, ticket, to_get_ticket, granted,
                     releasable, lk, prev, vbuf, ops, arrivals, served, pos>>
  BY Zenon DEF FetchAddRemote, Goto, IInv, LkInv, descVars
<1>2. PICK q \in {"faawrite", "clear"} :
        /\ pc' = [pc EXCEPT ![t] = q]
        /\ q = "faawrite" =>
             tk' = [tk EXCEPT ![t] = next_ticket[lk[t]]] /\ UNCHANGED <<next_ticket, seen>>
        /\ q = "clear" =>
             /\ pc[t] = "faawrite"
             /\ tk' = tk /\ next_ticket' = [next_ticket EXCEPT ![lk[t]] = tk[t] + 1]
             /\ seen' = [seen EXCEPT ![t] = 0]
  BY Zenon DEF FetchAddRemote, Goto
<1>3. pc[t] = "faawrite" => tk[t] = next_ticket[lk[t]]
  BY Zenon DEF IInv, TicketInv
<1>y. TypeOK'
  <2>1. pc' \in [Threads -> PCs]
    BY <1>2, Zenon DEF IInv, TypeOK, PCs
  <2>2. tk' \in [Threads -> Ticket] /\ next_ticket' \in [Locks -> Nat] /\ seen' \in [Threads -> Nat]
    <3>1. CASE q = "faawrite"
      BY <1>1, <1>2, <3>1, Zenon DEF IInv, TypeOK, Ticket
    <3>2. CASE q = "clear"
      <4>1. tk[t] + 1 \in Nat
        BY <1>1, <1>2, <1>3, <3>2 DEF IInv, TypeOK
      <4> QED
        <5>1. tk' = tk /\ seen' = [seen EXCEPT ![t] = 0]
              /\ next_ticket' = [next_ticket EXCEPT ![lk[t]] = tk[t] + 1]
          BY <1>2, <3>2, Zenon
        <5>2. next_ticket' \in [Locks -> Nat]
          BY <1>1, <4>1, <5>1, Zenon DEF IInv, TypeOK
        <5> QED
          BY <5>1, <5>2, Zenon DEF IInv, TypeOK
    <3> QED BY <3>1, <3>2, Zenon
  <2> QED
    BY <1>1, <2>1, <2>2, Zenon DEF IInv, TypeOK
<1>q. LkInv' /\ SwapInv' /\ PosInv' /\ TailInv' /\ HeadInv' /\ PrevInv' /\ NextInv' /\ ReleaseInv'
  BY <1>1, <1>2, QueueFrame, Zenon
     DEF Queued, Eligible, Section, Drawing, Arriving, Waiting, Leaving
<1>s. ServedInv'
  <2>1. \A u \in Threads : u # t => tk'[u] = tk[u]
    BY <1>2, Zenon DEF IInv, TypeOK
  <2> QED
    BY <1>1, <1>2, <2>1, ServedFrame, Zenon
       DEF Queued, Eligible, Section, Drawing, Arriving, Waiting, Leaving
<1>p. PetersonInv'
  <2>1. \A u \in Threads : Coh(u)' = Coh(u) /\ (u # t => pc'[u] = pc[u])
    BY <1>1, <1>2, CohStable, Zenon DEF IInv, TypeOK
  <2>2. pc'[t] \in Drawing \ {"spin1", "spin2"} /\ pc[t] \in Drawing /\ Drawing \subseteq Section
    BY <1>1, <1>2, Zenon DEF IInv, TypeOK, Drawing, Section
  <2> QED
    BY <1>1, <2>1, <2>2 DEF IInv, PetersonInv
<1>t. TicketInv'
  <2>1. \A u \in Threads : u # t /\ lk[u] = lk[t] => pc[u] \notin Drawing
    BY <1>1, OneDrawing, Zenon DEF TicketSectionExclusion, Drawing
  <2>2. \A u \in Threads :
          /\ Coh(u)' = Coh(u)
          /\ u # t => pc'[u] = pc[u] /\ Tick(u)' = Tick(u) /\ tk'[u] = tk[u]
    BY <1>1, <1>2, CohStable, Zenon DEF IInv, TypeOK, Tick
  <2>3. pc'[t] = q /\ tk'[t] = next_ticket[lk[t]]
    BY <1>1, <1>2, <1>3, Zenon DEF IInv, TypeOK
  <2>4. \A u \in Threads : pc[u] # "idle" => lk[u] \in Locks
    BY Zenon DEF IInv, LkInv
  <2>5. \A l \in Locks :
          /\ next_ticket[l] \in Nat /\ current_ticket[l] \in Nat /\ current_ticket[l] <= next_ticket[l]
          /\ next_ticket'[l] = IF q = "clear" /\ l = lk[t] THEN next_ticket[l] + 1 ELSE next_ticket[l]
    BY <1>1, <1>2, <1>3 DEF IInv, TypeOK, TicketInv
  <2>6. q = "clear" => Tick(t)' = next_ticket[lk[t]]
    BY <1>1, <2>3, Zenon DEF Tick
  <2> QED
    BY <1>1, <2>1, <2>2, <2>3, <2>4, <2>5, <2>6 DEF IInv, TicketInv, Drawing, HasTicket, Waiting
<1> QED
  BY <1>y, <1>q, <1>s, <1>p, <1>t, Zenon DEF IInv

\* Publishing the ticket makes the next thread of the queue the one to draw.
LEMMA PublishTicketInv ==
  ASSUME IInv, NEW t \in Threads, PublishTicket(t)
  PROVE  IInv'
<1>1. /\ lk[t] \in Locks /\ Coh(t) \in Cohorts
      /\ pc[t] = "publish"
      /\ ticket' = [ticket EXCEPT ![Coh(t)][t] = tk[t]]
      /\ pc' = [pc EXCEPT ![t] = "checknext"]
      /\ tk' = [tk EXCEPT ![t] = kInvalidTicket]
      /\ served' = [served EXCEPT ![lk[t]][Coh(t)] = @ + 1]
      /\ UNCHANGED <<tail, flag, victim, next_ticket, current_ticket, next,
                      to_get_ticket, granted, releasable, lk, prev, vbuf, ops,
                      arrivals, pos, seen>>
  BY CohType, Zenon DEF PublishTicket, Goto, AfterTicket, IInv, LkInv, lockVars, descVars, history
<1>y. TypeOK'
  BY <1>1 DEF IInv, TypeOK, PCs, Ticket, Bit, kTrue, kFalse, kInvalidTicket
<1>2. \A u \in Threads : pc[u] = "swap" =>
        /\ ticket'[Coh(u)][u] = ticket[Coh(u)][u]
        /\ to_get_ticket'[Coh(u)][u] = to_get_ticket[Coh(u)][u]
  BY <1>1, CohType, Zenon DEF IInv, TypeOK
<1>q. LkInv' /\ SwapInv' /\ PosInv' /\ TailInv' /\ HeadInv' /\ PrevInv' /\ NextInv' /\ ReleaseInv'
  BY <1>1, <1>2, QueueFrame, Zenon
     DEF Queued, Eligible, Section, Drawing, Arriving, Waiting, Leaving
<1>s. ServedInv'
  <2>1. \A u \in Threads : Coh(u)' = Coh(u) /\ Coh(u) \in Cohorts
          /\ (u # t => pc'[u] = pc[u] /\ tk'[u] = tk[u] /\ ticket'[Coh(u)][u] = ticket[Coh(u)][u])
    BY <1>1, CohStable, CohType, Zenon DEF IInv, TypeOK
  <2>2. \A u \in Threads : InQ(u)' <=> InQ(u)
    BY <1>1, Zenon DEF InQ, IInv, TypeOK, Queued, Waiting, Eligible
  <2>3. pc'[t] = "checknext" /\ pos[t] = served[lk[t]][Coh(t)] /\ pos[t] < arrivals[lk[t]][Coh(t)] /\ InQ(t)
    BY <1>1, Zenon DEF IInv, TypeOK, ServedInv, PosInv, InQ, Queued, Eligible
  <2>4. \A u \in Threads : u # t /\ InQ(u) /\ lk[u] = lk[t] /\ Coh(u) = Coh(t) => pos[u] # pos[t]
    BY <2>3, Zenon DEF IInv, PosInv, SameQueue
  <2>5. /\ \A l \in Locks, c \in Cohorts : served[l][c] \in Nat /\ arrivals[l][c] \in Nat
        /\ \A l \in Locks, c \in Cohorts :
             served'[l][c] = IF l = lk[t] /\ c = Coh(t) THEN served[l][c] + 1 ELSE served[l][c]
        /\ tail[lk[t]][Coh(t)] # None
        /\ \A u \in Threads : pos[u] \in Nat
    BY <1>1, <2>3 DEF IInv, TypeOK, TailInv
  <2>6. \A u \in Threads : pc[u] # "idle" => lk[u] \in Locks
    BY Zenon DEF IInv, LkInv
  <2>7. \A l \in Locks, c \in Cohorts :
          served'[l][c] <= arrivals'[l][c] /\ (tail'[l][c] = None => served'[l][c] = arrivals'[l][c])
    BY <1>1, <2>3, <2>5 DEF IInv, ServedInv
  <2>8. ASSUME NEW u \in Threads
        PROVE  /\ pc'[u] \in Arriving => served'[lk[u]][Coh(u)] <= pos[u]
               /\ pc'[u] \in Eligible => pos[u] = served'[lk[u]][Coh(u)]
               /\ pc'[u] \in Waiting \cup Leaving => pos[u] < served'[lk[u]][Coh(u)]
    <3>1. CASE u = t
      <4>1. served'[lk[t]][Coh(t)] = pos[t] + 1 /\ pos[t] \in Nat
        BY <1>1, <2>3, <2>5, Zenon
      <4> QED
        BY <2>3, <3>1, <4>1 DEF Arriving, Eligible, Section, Drawing
    <3>2. CASE u # t /\ ~InQ(u)
      BY <2>1, <3>2, Zenon DEF InQ, Queued
    <3>3. CASE u # t /\ InQ(u) /\ ~SameQueue(u, t)
      <4>1. lk[u] \in Locks /\ Coh(u) \in Cohorts /\ pc'[u] = pc[u]
        BY <2>1, <2>6, <3>3, Zenon DEF InQ, Queued, Arriving, Eligible, Section, Drawing, Waiting, Leaving
      <4>2. served'[lk[u]][Coh(u)] = served[lk[u]][Coh(u)]
        BY <2>5, <3>3, <4>1, Zenon DEF SameQueue
      <4> QED
        BY <4>1, <4>2, Zenon DEF IInv, ServedInv
    <3>4. CASE u # t /\ InQ(u) /\ SameQueue(u, t)
      <4>1. lk[u] = lk[t] /\ Coh(u) = Coh(t) /\ pc'[u] = pc[u] /\ pos[u] # pos[t]
        BY <2>1, <2>4, <3>4, Zenon DEF SameQueue
      <4>2. served'[lk[u]][Coh(u)] = pos[t] + 1 /\ served[lk[u]][Coh(u)] = pos[t]
        BY <1>1, <2>3, <2>5, <4>1, Zenon
      <4>3. pc[u] \notin Eligible
        BY <1>1, <3>4, <4>1, OneEligible, Zenon DEF Eligible, SameQueue
      <4>4. /\ pc[u] \in Arriving => served[lk[u]][Coh(u)] <= pos[u]
            /\ pc[u] \in Waiting \cup Leaving => pos[u] < served[lk[u]][Coh(u)]
        BY Zenon DEF IInv, ServedInv
      <4>5. pos[u] \in Nat /\ pos[t] \in Nat
        BY <2>5, Zenon
      <4> QED
        BY <4>1, <4>2, <4>3, <4>4, <4>5
    <3> QED
      BY <3>1, <3>2, <3>3, <3>4, Zenon
  <2>9. ASSUME NEW u \in Threads
        PROVE  /\ pc'[u] \in Arriving \cup Eligible => ticket'[Coh(u)][u] = kInvalidTicket
               /\ InQ(u) /\ to_get_ticket[Coh(u)][u] = kTrue => pos[u] <= served'[lk[u]][Coh(u)]
               /\ pc'[u] = "release" /\ tk'[u] # kInvalidTicket => pos[u] <= served'[lk[u]][Coh(u)]
    BY <1>1, <2>1, <2>3, <2>5, <2>6, <2>9
       DEF IInv, ServedInv, InQ, Queued, Arriving, Eligible, Section, Drawing, Waiting, Leaving
  <2> QED
    BY <1>1, <2>1, <2>2, <2>7, <2>8, <2>9 DEF ServedInv
<1>p. PetersonInv'
  BY <1>1, PetersonFrame, Zenon DEF Section, Drawing
<1>k. Tick(t)' = Tick(t)
  BY <1>1, CohStable DEF Tick, IInv, TypeOK, Waiting, HasTicket
<1>t. TicketInv'
  BY <1>1, <1>k, CohType, TicketFrame, Zenon DEF HasTicket, Waiting, IInv, TypeOK, Cohorts
<1> QED
  BY <1>y, <1>q, <1>s, <1>p, <1>t, Zenon DEF IInv

-----------------------------------------------------------------------------
(***************************************************************************)
(* The steps that wait for the turn, and the steps of Unlock.              *)
(***************************************************************************)
\* The test for a successor to wake.
LEMMA CheckNextInv ==
  ASSUME IInv, NEW t \in Threads, CheckNext(t)
  PROVE  IInv'
<1>1. /\ lk[t] \in Locks /\ Coh(t) \in Cohorts
      /\ pc[t] = "checknext"
      /\ pc' = [pc EXCEPT ![t] = IF next[Coh(t)][t] # None THEN "wake"
                                ELSE IF prev[t] # None THEN "waitgrant" ELSE "waitturn"]
      /\ UNCHANGED <<tail, flag, victim, next_ticket, current_ticket, next,
                      ticket, to_get_ticket, granted, releasable, lk, prev, tk,
                      vbuf, ops, arrivals, served, pos, seen>>
  BY CohType, Zenon DEF CheckNext, Goto, AfterTicket, IInv, LkInv, lockVars, descVars, history
<1>y. TypeOK'
  BY <1>1, Zenon DEF IInv, TypeOK, PCs, Ticket, Bit, kTrue, kFalse, kInvalidTicket
<1>q. LkInv' /\ SwapInv' /\ PosInv' /\ TailInv' /\ HeadInv' /\ PrevInv' /\ NextInv' /\ ReleaseInv'
  BY <1>1, QueueFrame, Zenon DEF Queued, Eligible, Section, Drawing, Arriving, Waiting, Leaving
<1>s. ServedInv'
  BY <1>1, ServedFrame, Zenon DEF Queued, Eligible, Section, Drawing, Arriving, Waiting, Leaving
<1>p. PetersonInv'
  BY <1>1, PetersonFrame, Zenon DEF Section, Drawing
<1>k. Tick(t)' = Tick(t)
  BY <1>1, CohStable, Zenon DEF Tick, IInv, TypeOK, Waiting, HasTicket
<1>t. TicketInv'
  BY <1>1, <1>k, TicketFrame, Zenon DEF HasTicket, Waiting
<1> QED
  BY <1>y, <1>q, <1>s, <1>p, <1>t, Zenon DEF IInv

\* next_->to_get_ticket_ is set after the writer's own ticket is published.
LEMMA WakeNextInv ==
  ASSUME IInv, NEW t \in Threads, WakeNext(t)
  PROVE  IInv'
<1>1. /\ lk[t] \in Locks /\ Coh(t) \in Cohorts
      /\ pc[t] = "wake"
      /\ to_get_ticket' = [to_get_ticket EXCEPT ![Coh(t)][next[Coh(t)][t]] = kTrue]
      /\ pc' = [pc EXCEPT ![t] = IF prev[t] # None THEN "waitgrant" ELSE "waitturn"]
      /\ UNCHANGED <<tail, flag, victim, next_ticket, current_ticket, next,
                      ticket, granted, releasable, lk, prev, tk, vbuf, ops,
                      arrivals, served, pos, seen>>
  BY CohType, Zenon DEF WakeNext, Goto, AfterTicket, IInv, LkInv, lockVars, descVars, history
<1>y. TypeOK'
  BY <1>1, Zenon DEF IInv, TypeOK, PCs, Ticket, Bit, kTrue, kFalse, kInvalidTicket
<1>2. \A u \in Threads : pc[u] = "swap" => u # next[Coh(t)][t]
  BY <1>1, Zenon DEF IInv, NextInv, InQ, Queued, Eligible, Section, Drawing, Arriving, Waiting, Leaving
<1>3. \A u \in Threads : pc[u] = "swap" =>
        /\ ticket'[Coh(u)][u] = ticket[Coh(u)][u]
        /\ to_get_ticket'[Coh(u)][u] = to_get_ticket[Coh(u)][u]
  BY <1>1, <1>2, CohType, Zenon DEF IInv, TypeOK
<1>4. t \in Threads /\ InQ(t) /\ next[Coh(t)][t] \in Threads
  BY <1>1 DEF IInv, TypeOK, NextInv, InQ, Queued, Waiting
<1>5. PICK q : q = (IF prev[t] # None THEN "waitgrant" ELSE "waitturn")
  OBVIOUS
<1>6. /\ pc' = [pc EXCEPT ![t] = q] /\ q \in Queued \ ({"link", "wake", "grant"} \cup Arriving)
      /\ q \in {"waitturn", "cs"} \cup Leaving => prev[t] = None
  BY <1>1, <1>5, Zenon DEF Queued, Waiting, Arriving, Leaving
<1>q. LkInv' /\ SwapInv' /\ PosInv' /\ TailInv' /\ HeadInv' /\ PrevInv' /\ NextInv' /\ ReleaseInv'
  BY <1>1, <1>3, <1>6, QueueFrame, Zenon
     DEF Queued, Eligible, Section, Drawing, Arriving, Waiting, Leaving
<1>s. ServedInv'
  <2>1. \A u \in Threads : Coh(u)' = Coh(u) /\ Coh(u) \in Cohorts /\ (u # t => pc'[u] = pc[u])
    BY <1>1, CohStable, CohType, Zenon DEF IInv, TypeOK
  <2>2. \A u \in Threads : InQ(u)' <=> InQ(u)
    BY <1>1, Zenon DEF InQ, IInv, TypeOK, Queued, Waiting
  <2>3. PICK v \in Threads : v = next[Coh(t)][t]
    BY <1>4, Zenon
  <2>4. SameQueue(t, v) /\ pos[v] = pos[t] + 1 /\ pos[t] < served[lk[t]][Coh(t)]
    BY <1>1, <1>4, <2>3, Zenon DEF IInv, NextInv, ServedInv, Waiting
  <2>5. pos[v] <= served[lk[v]][Coh(v)]
    BY <1>1, <2>4 DEF SameQueue, IInv, TypeOK
  <2>6. \A u \in Threads : to_get_ticket'[Coh(u)][u] = kTrue => u = v \/ to_get_ticket[Coh(u)][u] = kTrue
    BY <1>1, <2>1, <2>3, Zenon DEF IInv, TypeOK
  <2>7. pc'[t] \in Waiting /\ pc[t] \in Waiting
    BY <1>1, Zenon DEF IInv, TypeOK, Waiting
  <2> QED
    BY <1>1, <2>1, <2>2, <2>5, <2>6, <2>7
    DEF IInv, ServedInv, Arriving, Eligible, Section, Drawing, Waiting, Leaving
<1>p. PetersonInv'
  BY <1>1, PetersonFrame, Zenon DEF Section, Drawing
<1>k. Tick(t)' = Tick(t)
  BY <1>1, CohStable, Zenon DEF Tick, IInv, TypeOK, Waiting, HasTicket
<1>t. TicketInv'
  BY <1>1, <1>k, TicketFrame, Zenon DEF HasTicket, Waiting
<1> QED
  BY <1>y, <1>q, <1>s, <1>p, <1>t, Zenon DEF IInv

\* The wait for granted_ ends at the front of the queue.
LEMMA AwaitPredecessorInv ==
  ASSUME IInv, NEW t \in Threads, AwaitPredecessor(t)
  PROVE  IInv'
<1>1. /\ lk[t] \in Locks /\ Coh(t) \in Cohorts
      /\ pc[t] = "waitgrant" /\ granted[Coh(t)][t] = kTrue
      /\ pc' = [pc EXCEPT ![t] = "waitturn"]
      /\ UNCHANGED <<tail, flag, victim, next_ticket, current_ticket, next,
                      ticket, to_get_ticket, granted, releasable, lk, prev, tk,
                      vbuf, ops, arrivals, served, pos, seen>>
  BY CohType, Zenon DEF AwaitPredecessor, Goto, AfterTicket, IInv, LkInv, lockVars, descVars, history
<1>y. TypeOK'
  BY <1>1, Zenon DEF IInv, TypeOK, PCs, Ticket, Bit, kTrue, kFalse, kInvalidTicket
<1>q. LkInv' /\ SwapInv' /\ PosInv' /\ TailInv' /\ HeadInv' /\ PrevInv' /\ NextInv' /\ ReleaseInv'
  BY <1>1, QueueFrame, Zenon DEF Queued, Eligible, Section, Drawing, Arriving, Waiting, Leaving
<1>s. ServedInv'
  BY <1>1, ServedFrame, Zenon DEF Queued, Eligible, Section, Drawing, Arriving, Waiting, Leaving
<1>p. PetersonInv'
  BY <1>1, PetersonFrame, Zenon DEF Section, Drawing
<1>k. Tick(t)' = Tick(t)
  BY <1>1, CohStable, Zenon DEF Tick, IInv, TypeOK, Waiting, HasTicket
<1>t. TicketInv'
  BY <1>1, <1>k, TicketFrame, Zenon DEF HasTicket, Waiting
<1> QED
  BY <1>y, <1>q, <1>s, <1>p, <1>t, Zenon DEF IInv

\* The critical section is entered with the current ticket.
LEMMA AwaitTicketInv ==
  ASSUME IInv, NEW t \in Threads, AwaitTicket(t)
  PROVE  IInv'
<1>1. /\ lk[t] \in Locks /\ Coh(t) \in Cohorts
      /\ pc[t] = "waitturn" /\ ticket[Coh(t)][t] = current_ticket[lk[t]]
      /\ pc' = [pc EXCEPT ![t] = "cs"]
      /\ UNCHANGED <<tail, flag, victim, next_ticket, current_ticket, next,
                      ticket, to_get_ticket, granted, releasable, lk, prev, tk,
                      vbuf, ops, arrivals, served, pos, seen>>
  BY CohType, Zenon DEF AwaitTicket, Goto, AfterTicket, IInv, LkInv, lockVars, descVars, history
<1>y. TypeOK'
  BY <1>1, Zenon DEF IInv, TypeOK, PCs, Ticket, Bit, kTrue, kFalse, kInvalidTicket
<1>q. LkInv' /\ SwapInv' /\ PosInv' /\ TailInv' /\ HeadInv' /\ PrevInv' /\ NextInv' /\ ReleaseInv'
  BY <1>1, QueueFrame, Zenon
     DEF Queued, Eligible, Section, Drawing, Arriving, Waiting, Leaving, IInv, HeadInv
<1>s. ServedInv'
  BY <1>1, ServedFrame, Zenon DEF Queued, Eligible, Section, Drawing, Arriving, Waiting, Leaving
<1>p. PetersonInv'
  BY <1>1, PetersonFrame, Zenon DEF Section, Drawing
<1>k. Tick(t)' = Tick(t)
  BY <1>1, CohStable, Zenon DEF Tick, IInv, TypeOK, Waiting, HasTicket
<1>l. Tick(t) = current_ticket[lk[t]]
  BY <1>1, Zenon DEF Tick
<1>t. TicketInv'
  BY <1>1, <1>k, <1>l, TicketFrame, Zenon DEF HasTicket, Waiting
<1> QED
  BY <1>y, <1>q, <1>s, <1>p, <1>t, Zenon DEF IInv

\* Unlock moves current_ticket_ to the successor of the holder's ticket, on both
\* paths: the remote path's plain write equals an increment.
LEMMA BumpCurrentInv ==
  ASSUME IInv, NEW t \in Threads, BumpCurrent(t)
  PROVE  IInv'
<1>1. /\ lk[t] \in Locks /\ Coh(t) \in Cohorts
      /\ pc[t] = "cs"
      /\ current_ticket' = [current_ticket EXCEPT ![lk[t]] =
                                IF Coh(t) = "local" THEN @ + 1 ELSE ticket["remote"][t] + 1]
      /\ pc' = [pc EXCEPT ![t] = "ulnext"]
      /\ UNCHANGED <<tail, flag, victim, next_ticket, next, ticket,
                      to_get_ticket, granted, releasable, lk, prev, tk, vbuf, ops,
                      arrivals, served, pos, seen>>
  BY CohType, Zenon DEF BumpCurrent, Goto, AfterTicket, IInv, LkInv, lockVars, descVars, history
<1>2. ticket[Coh(t)][t] = current_ticket[lk[t]]
  BY <1>1, Zenon DEF IInv, TicketInv, Tick
<1>3. current_ticket' = [current_ticket EXCEPT ![lk[t]] = @ + 1]
  BY <1>1, <1>2, Zenon DEF Cohorts
<1>y. TypeOK'
  BY <1>1, <1>3 DEF IInv, TypeOK, PCs
<1>q. LkInv' /\ SwapInv' /\ PosInv' /\ TailInv' /\ HeadInv' /\ PrevInv' /\ NextInv' /\ ReleaseInv'
  BY <1>1, QueueFrame, Zenon
     DEF Queued, Eligible, Section, Drawing, Arriving, Waiting, Leaving, IInv, HeadInv
<1>s. ServedInv'
  BY <1>1, ServedFrame, Zenon DEF Queued, Eligible, Section, Drawing, Arriving, Waiting, Leaving
<1>p. PetersonInv'
  BY <1>1, PetersonFrame, Zenon DEF Section, Drawing
<1>t. TicketInv'
  <2>1. \A u \in Threads : u # t => pc'[u] = pc[u]
    BY <1>1, Zenon DEF IInv, TypeOK
  <2>2. \A u \in Threads : u # t => Tick(u)' = Tick(u) /\ Coh(u)' = Coh(u)
    BY <1>1, <2>1, CohStable, Zenon DEF Tick
  <2>3. pc'[t] = "ulnext" /\ Tick(t) = current_ticket[lk[t]] /\ pc[t] \in HasTicket
    BY <1>1, <1>2, Zenon DEF IInv, TypeOK, Tick, HasTicket, Waiting
  <2>4. \A u \in Threads : pc[u] # "idle" => lk[u] \in Locks
    BY Zenon DEF IInv, LkInv
  <2>5. /\ \A l \in Locks : current_ticket[l] \in Nat
        /\ \A l \in Locks : current_ticket'[l] = IF l = lk[t] THEN current_ticket[l] + 1 ELSE current_ticket[l]
        /\ next_ticket' = next_ticket /\ lk' = lk /\ tk' = tk
    BY <1>1, <1>3, Zenon DEF IInv, TypeOK
  <2>6. "cs" \in HasTicket /\ "idle" \notin HasTicket /\ "ulnext" \notin HasTicket
    BY Zenon DEF HasTicket, Waiting
  <2>7. \A l \in Locks : current_ticket'[l] <= next_ticket'[l]
    <3>1. current_ticket[lk[t]] < next_ticket[lk[t]] /\ next_ticket[lk[t]] \in Nat
      BY <1>1, <2>3, Zenon DEF IInv, TypeOK, TicketInv
    <3>2. \A l \in Locks : current_ticket[l] <= next_ticket[l]
      BY Zenon DEF IInv, TicketInv
    <3> QED
      BY <1>1, <2>5, <3>1, <3>2
  <2>8. ASSUME NEW u \in Threads, u # t, pc[u] \in HasTicket, lk[u] = lk[t]
        PROVE  Tick(u) # Tick(t)
    BY <2>3, <2>8, Zenon DEF IInv, TicketInv
  <2> QED
    BY <1>1, <2>1, <2>2, <2>3, <2>4, <2>5, <2>6, <2>7, <2>8 DEF IInv, TicketInv
<1> QED
  BY <1>y, <1>q, <1>s, <1>p, <1>t, Zenon DEF IInv

\* Unlock's test for a linked successor.
LEMMA UnlockCheckNextInv ==
  ASSUME IInv, NEW t \in Threads, UnlockCheckNext(t)
  PROVE  IInv'
<1>1. /\ lk[t] \in Locks /\ Coh(t) \in Cohorts
      /\ pc[t] = "ulnext"
      /\ pc' = [pc EXCEPT ![t] = IF next[Coh(t)][t] = None THEN "cas" ELSE "waitrel"]
      /\ UNCHANGED <<tail, flag, victim, next_ticket, current_ticket, next,
                      ticket, to_get_ticket, granted, releasable, lk, prev, tk,
                      vbuf, ops, arrivals, served, pos, seen>>
  BY CohType, Zenon DEF UnlockCheckNext, Goto, AfterTicket, IInv, LkInv, lockVars, descVars, history
<1>y. TypeOK'
  BY <1>1, Zenon DEF IInv, TypeOK, PCs, Ticket, Bit, kTrue, kFalse, kInvalidTicket
<1>q. LkInv' /\ SwapInv' /\ PosInv' /\ TailInv' /\ HeadInv' /\ PrevInv' /\ NextInv' /\ ReleaseInv'
  BY <1>1, QueueFrame, Zenon
     DEF Queued, Eligible, Section, Drawing, Arriving, Waiting, Leaving, IInv, HeadInv
<1>s. ServedInv'
  BY <1>1, ServedFrame, Zenon DEF Queued, Eligible, Section, Drawing, Arriving, Waiting, Leaving
<1>p. PetersonInv'
  BY <1>1, PetersonFrame, Zenon DEF Section, Drawing
<1>t. TicketInv'
  BY <1>1, TicketFrame, Zenon DEF HasTicket, Waiting
<1> QED
  BY <1>y, <1>q, <1>s, <1>p, <1>t, Zenon DEF IInv

\* The compare-and-swap succeeds only for a thread that is alone in its queue.
LEMMA CasTailInv ==
  ASSUME IInv, NEW t \in Threads, CasTail(t)
  PROVE  IInv'
<1>1. /\ lk[t] \in Locks /\ Coh(t) \in Cohorts /\ pc[t] = "cas"
      /\ UNCHANGED <<flag, victim, next_ticket, current_ticket, next, ticket, to_get_ticket,
                     granted, releasable, tk, vbuf, ops, arrivals, served, pos, seen>>
  BY CohType, Zenon DEF CasTail, Goto, IInv, LkInv, descVars, history
<1>2. CASE pc' = [pc EXCEPT ![t] = "waitrel"] /\ UNCHANGED <<tail, lk, prev>>
  <2>y. TypeOK'
    BY <1>1, <1>2, Zenon DEF IInv, TypeOK, PCs
  <2>h. prev[t] = None \/ granted[Coh(t)][t] = kTrue
    BY <1>1, Zenon DEF IInv, HeadInv, Leaving
  <2>q. LkInv' /\ SwapInv' /\ PosInv' /\ TailInv' /\ HeadInv' /\ PrevInv' /\ NextInv' /\ ReleaseInv'
    BY <1>1, <1>2, <2>h, QueueFrame, Zenon
       DEF Queued, Eligible, Section, Drawing, Arriving, Waiting, Leaving
  <2>s. ServedInv'
    BY <1>1, <1>2, ServedFrame, Zenon
       DEF Queued, Eligible, Section, Drawing, Arriving, Waiting, Leaving
  <2>p. PetersonInv'
    BY <1>1, <1>2, PetersonFrame, Zenon DEF Section, Drawing
  <2>t. TicketInv'
    BY <1>1, <1>2, TicketFrame, Zenon DEF HasTicket, Waiting
  <2> QED
    BY <2>y, <2>q, <2>s, <2>p, <2>t, Zenon DEF IInv
<1>3. CASE /\ pc' = [pc EXCEPT ![t] = "idle"]
           /\ tail[lk[t]][Coh(t)] = t /\ tail' = [tail EXCEPT ![lk[t]][Coh(t)] = None]
           /\ lk' = [lk EXCEPT ![t] = None] /\ prev' = [prev EXCEPT ![t] = None]
  <2>y. TypeOK'
    BY <1>1, <1>3, Zenon DEF IInv, TypeOK, PCs
  <2>1. /\ \A u \in Threads : u # t =>
             /\ pc'[u] = pc[u] /\ lk'[u] = lk[u] /\ prev'[u] = prev[u] /\ Coh(u)' = Coh(u)
             /\ InQ(u)' <=> InQ(u)
        /\ InQ(t) /\ ~InQ(t)' /\ pc'[t] = "idle" /\ lk'[t] = None
        /\ \A u \in Threads : InQ(u) /\ SameQueue(t, u) => pos[t] <= pos[u]
        /\ LkInv' /\ PosInv' /\ PetersonInv' /\ TicketInv'
    BY <1>1, <1>3, LeaveFrame, Zenon DEF Leaving
  <2>2. \A u \in Threads : Coh(u) \in Cohorts /\ pos[u] \in Nat
    BY CohType, Zenon DEF IInv, TypeOK
  <2>3. pos[t] + 1 = arrivals[lk[t]][Coh(t)]
    BY <1>1, <1>3 DEF IInv, TailInv
  \* The thread is the first of its queue and the last: it is alone.
  <2>4. \A u \in Threads : InQ(u) /\ SameQueue(t, u) => u = t
    <3> SUFFICES ASSUME NEW u \in Threads, InQ(u), SameQueue(t, u) PROVE u = t
      OBVIOUS
    <3>1. pos[t] <= pos[u] /\ pos[u] < pos[t] + 1
      BY <2>1, <2>3 DEF IInv, PosInv, SameQueue
    <3>2. pos[u] = pos[t]
      BY <2>2, <3>1
    <3> QED
      BY <2>1, <3>2, Zenon DEF IInv, PosInv
  <2>5. \A m \in Locks, d \in Cohorts :
          tail'[m][d] = IF m = lk[t] /\ d = Coh(t) THEN None ELSE tail[m][d]
    BY <1>1, <1>3, Zenon DEF IInv, TypeOK
  <2>b. SwapInv'
    BY <1>1, <2>1, Zenon DEF IInv, SwapInv
  <2>d. TailInv'
    <3> SUFFICES ASSUME NEW m \in Locks, NEW d \in Cohorts
                 PROVE  /\ \A u \in Threads : tail'[m][d] = u =>
                             InQ(u)' /\ lk'[u] = m /\ Coh(u)' = d /\ pos'[u] + 1 = arrivals'[m][d]
                        /\ tail'[m][d] = None =>
                             \A u \in Threads : ~(InQ(u)' /\ lk'[u] = m /\ Coh(u)' = d)
      BY Zenon DEF TailInv
    <3>1. CASE m = lk[t] /\ d = Coh(t)
      BY <2>1, <2>4, <2>5, <3>1, NoneAssumption, Zenon DEF SameQueue
    <3>2. CASE ~(m = lk[t] /\ d = Coh(t))
      BY <1>1, <2>1, <2>5, <3>2 DEF IInv, TailInv
    <3> QED BY <3>1, <3>2, Zenon
  <2>e. HeadInv'
    <3>1. "idle" \notin {"waitturn", "cs"} \cup Leaving
      BY Zenon DEF Leaving
    <3> QED
      BY <1>1, <2>1, <3>1, ZenonT(40) DEF IInv, HeadInv, SameQueue
  <2>f. PrevInv'
    <3>1. ASSUME NEW u \in Threads, u # t, InQ(u), prev[u] # None, granted[Coh(u)][u] = kFalse
          PROVE  prev[u] \in Threads \ {t} /\ InQ(prev[u]) /\ SameQueue(u, prev[u]) /\ pos[u] = pos[prev[u]] + 1
      BY <2>4, <3>1 DEF IInv, TypeOK, PrevInv, SameQueue
    <3>2. ASSUME NEW u \in Threads
          PROVE  (InQ(u) /\ prev[u] # None /\ granted[Coh(u)][u] = kFalse =>
                    InQ(prev[u]) /\ SameQueue(u, prev[u]) /\ pos[u] = pos[prev[u]] + 1)'
      BY <1>1, <2>1, <3>1 DEF SameQueue
    <3>3. ASSUME NEW u \in Threads
          PROVE  (/\ pc[u] \in Arriving => prev[u] # None
                  /\ pc[u] \in {"link", "readticket", "release"} => granted[Coh(u)][u] = kFalse
                  /\ pc[u] \in {"readticket", "release"} => next[Coh(u)][prev[u]] = u)'
      BY <1>1, <2>1, Zenon DEF IInv, PrevInv, Arriving
    <3> QED
      BY <3>2, <3>3, Zenon DEF PrevInv
  <2>6. ASSUME NEW u \in Threads, u # t, InQ(u) PROVE next[Coh(u)][u] # t
    BY <2>4, <2>6, Zenon DEF IInv, NextInv, SameQueue
  <2>g. NextInv'
    <3>1. ASSUME NEW u \in Threads, InQ(u)', NEW v \in Threads, next[Coh(u)][u] = v
          PROVE  u # t /\ v # t /\ InQ(u) /\ InQ(v) /\ SameQueue(u, v) /\ prev[v] = u
                 /\ pos[v] = pos[u] + 1 /\ pc[v] # "link" /\ granted[Coh(u)][v] = kFalse
      BY <2>1, <2>6, <3>1, Zenon DEF IInv, NextInv
    <3>2. ASSUME NEW u \in Threads, InQ(u)', pc'[u] = "wake" PROVE next[Coh(u)][u] # None
      BY <2>1, <3>2, Zenon DEF IInv, NextInv
    <3> QED
      BY <1>1, <2>1, <3>1, <3>2 DEF NextInv, SameQueue
  <2>h. ReleaseInv'
    <3> SUFFICES ASSUME NEW u \in Threads, InQ(u)'
                 PROVE  (/\ releasable[Coh(u)][u] = kTrue =>
                             /\ next[Coh(u)][u] # None
                             /\ pc[next[Coh(u)][u]] \notin {"link", "readticket", "release"}
                         /\ pc[u] = "grant" => releasable[Coh(u)][u] = kTrue)'
      BY Zenon DEF ReleaseInv
    <3>1. u # t /\ InQ(u) /\ pc'[u] = pc[u] /\ Coh(u)' = Coh(u) /\ next[Coh(u)][u] \in Threads \cup {None}
      BY <2>1, <2>2 DEF IInv, TypeOK
    <3> QED
      BY <1>1, <2>1, <2>6, <3>1, Zenon DEF IInv, ReleaseInv
  <2>s. ServedInv'
    <3>1. served[lk[t]][Coh(t)] = arrivals[lk[t]][Coh(t)]
      <4>1. pos[t] < served[lk[t]][Coh(t)] /\ served[lk[t]][Coh(t)] <= arrivals[lk[t]][Coh(t)]
        BY <1>1, Zenon DEF IInv, ServedInv, Leaving
      <4>2. served[lk[t]][Coh(t)] \in Nat
        BY <1>1, Zenon DEF IInv, TypeOK
      <4> QED
        BY <2>2, <2>3, <4>1, <4>2
    <3>2. "idle" \notin Arriving \cup Eligible \cup Waiting \cup Leaving \cup {"release"}
      BY Zenon DEF Eligible, Section, Drawing, Arriving, Waiting, Leaving
    <3>3. \A m \in Locks, d \in Cohorts :
            served[m][d] <= arrivals[m][d] /\ (tail'[m][d] = None => served[m][d] = arrivals[m][d])
      <4>1. \A m \in Locks, d \in Cohorts :
              served[m][d] <= arrivals[m][d] /\ (tail[m][d] = None => served[m][d] = arrivals[m][d])
        BY Zenon DEF IInv, ServedInv
      <4> QED
        BY <2>5, <3>1, <4>1, Zenon
    <3> DEFINE Served(u) ==
          /\ pc[u] \in Arriving => served[lk[u]][Coh(u)] <= pos[u]
          /\ pc[u] \in Eligible => pos[u] = served[lk[u]][Coh(u)]
          /\ pc[u] \in Waiting \cup Leaving => pos[u] < served[lk[u]][Coh(u)]
          /\ pc[u] \in Arriving \cup Eligible => ticket[Coh(u)][u] = kInvalidTicket
          /\ InQ(u) /\ to_get_ticket[Coh(u)][u] = kTrue => pos[u] <= served[lk[u]][Coh(u)]
          /\ pc[u] = "release" /\ tk[u] # kInvalidTicket => pos[u] <= served[lk[u]][Coh(u)]
    <3>4. Served(t)'
      BY <2>1, <3>2, Zenon
    <3>5. ASSUME NEW u \in Threads, u # t
          PROVE  Served(u)'
      <4>1. Served(u)
        BY Zenon DEF IInv, ServedInv
      <4>2. /\ pc'[u] = pc[u] /\ lk'[u] = lk[u] /\ Coh(u)' = Coh(u) /\ (InQ(u)' <=> InQ(u))
            /\ UNCHANGED <<served, pos, ticket, to_get_ticket, tk>>
        BY <1>1, <2>1, <3>5, Zenon
      <4> QED
        BY <4>1, <4>2, Zenon
    <3> HIDE DEF Served
    <3>6. \A u \in Threads : Served(u)'
      BY <3>4, <3>5, Zenon
    <3> QED
      BY <1>1, <3>3, <3>6, Zenon DEF ServedInv, Served
  <2> QED
    BY <2>y, <2>1, <2>b, <2>d, <2>e, <2>f, <2>g, <2>h, <2>s, Zenon DEF IInv
<1> QED
  BY <1>2, <1>3, Zenon DEF CasTail, Goto, Return

\* The wait for releasable_ ends when the successor is done with the descriptor.
LEMMA AwaitReleasableInv ==
  ASSUME IInv, NEW t \in Threads, AwaitReleasable(t)
  PROVE  IInv'
<1>1. /\ lk[t] \in Locks /\ Coh(t) \in Cohorts
      /\ pc[t] = "waitrel" /\ releasable[Coh(t)][t] = kTrue
      /\ pc' = [pc EXCEPT ![t] = "grant"]
      /\ UNCHANGED <<tail, flag, victim, next_ticket, current_ticket, next,
                      ticket, to_get_ticket, granted, releasable, lk, prev, tk,
                      vbuf, ops, arrivals, served, pos, seen>>
  BY CohType, Zenon
     DEF AwaitReleasable, Goto, AfterTicket, IInv, LkInv, lockVars, descVars, history
<1>y. TypeOK'
  BY <1>1, Zenon DEF IInv, TypeOK, PCs, Ticket, Bit, kTrue, kFalse, kInvalidTicket
<1>q. LkInv' /\ SwapInv' /\ PosInv' /\ TailInv' /\ HeadInv' /\ PrevInv' /\ NextInv' /\ ReleaseInv'
  BY <1>1, QueueFrame, Zenon
     DEF Queued, Eligible, Section, Drawing, Arriving, Waiting, Leaving, IInv, HeadInv
<1>s. ServedInv'
  BY <1>1, ServedFrame, Zenon DEF Queued, Eligible, Section, Drawing, Arriving, Waiting, Leaving
<1>p. PetersonInv'
  BY <1>1, PetersonFrame, Zenon DEF Section, Drawing
<1>t. TicketInv'
  BY <1>1, TicketFrame, Zenon DEF HasTicket, Waiting
<1> QED
  BY <1>y, <1>q, <1>s, <1>p, <1>t, Zenon DEF IInv

\* Granting hands the front of the queue to the immediate successor.
LEMMA GrantNextInv ==
  ASSUME IInv, NEW t \in Threads, GrantNext(t)
  PROVE  IInv'
<1>1. /\ lk[t] \in Locks /\ Coh(t) \in Cohorts /\ pc[t] = "grant"
      /\ pc' = [pc EXCEPT ![t] = "idle"]
      /\ lk' = [lk EXCEPT ![t] = None] /\ prev' = [prev EXCEPT ![t] = None]
      /\ granted' = [granted EXCEPT ![Coh(t)][next[Coh(t)][t]] = kTrue]
      /\ UNCHANGED <<tail, flag, victim, next_ticket, current_ticket, next, ticket, to_get_ticket,
                     releasable, tk, vbuf, ops, arrivals, served, pos, seen>>
  BY CohType, Zenon DEF GrantNext, Return, Goto, IInv, LkInv, lockVars, history
<1>2. /\ \A u \in Threads : u # t =>
           /\ pc'[u] = pc[u] /\ lk'[u] = lk[u] /\ prev'[u] = prev[u] /\ Coh(u)' = Coh(u)
           /\ InQ(u)' <=> InQ(u)
      /\ InQ(t) /\ ~InQ(t)' /\ pc'[t] = "idle" /\ lk'[t] = None
      /\ \A u \in Threads : InQ(u) /\ SameQueue(t, u) => pos[t] <= pos[u]
      /\ LkInv' /\ PosInv' /\ PetersonInv' /\ TicketInv'
  BY <1>1, LeaveFrame, Zenon DEF Leaving
<1>3. \A u \in Threads : Coh(u) \in Cohorts /\ pos[u] \in Nat
  BY CohType, Zenon DEF IInv, TypeOK
<1>4. PICK n \in Threads : n = next[Coh(t)][t] /\ pc[n] \notin {"link", "readticket", "release"}
  <2>1. PICK n : n = next[Coh(t)][t]
    BY Zenon
  <2>2. n # None /\ pc[n] \notin {"link", "readticket", "release"}
    BY <1>1, <1>2, <2>1, Zenon DEF IInv, ReleaseInv
  <2>3. n \in Threads \cup {None}
    BY <1>1, <2>1 DEF IInv, TypeOK
  <2> QED
    BY <2>1, <2>2, <2>3, Zenon
<1>5. n # t /\ InQ(n) /\ SameQueue(t, n) /\ prev[n] = t /\ pos[n] = pos[t] + 1
  <2>1. InQ(n) /\ SameQueue(t, n) /\ prev[n] = t /\ pos[n] = pos[t] + 1
    BY <1>2, <1>4, Zenon DEF IInv, NextInv
  <2> QED
    BY <1>3, <2>1
<1>6. \A u \in Threads : granted'[Coh(u)][u] = IF u = n THEN kTrue ELSE granted[Coh(u)][u]
  BY <1>1, <1>3, <1>4, <1>5, Zenon DEF IInv, TypeOK, SameQueue
\* The successor becomes the first of the queue.
<1>7. \A u \in Threads : u # t /\ InQ(u) /\ SameQueue(t, u) => pos[n] <= pos[u]
  <2> SUFFICES ASSUME NEW u \in Threads, u # t, InQ(u), SameQueue(t, u) PROVE pos[n] <= pos[u]
    OBVIOUS
  <2>1. pos[u] # pos[t] /\ pos[t] <= pos[u]
    BY <1>2, Zenon DEF IInv, PosInv
  <2> QED
    BY <1>3, <1>5, <2>1
<1>8. \A u \in Threads : u # t /\ InQ(u) => next[Coh(u)][u] # t
  <2> SUFFICES ASSUME NEW u \in Threads, u # t, InQ(u), next[Coh(u)][u] = t PROVE FALSE
    OBVIOUS
  <2>1. SameQueue(u, t) /\ pos[t] = pos[u] + 1
    BY Zenon DEF IInv, NextInv
  <2> QED
    BY <1>2, <1>3, <2>1 DEF SameQueue
<1>9. None \notin Threads /\ kTrue # kFalse
  BY NoneAssumption DEF kTrue, kFalse
<1>y. TypeOK'
  BY <1>1, Zenon DEF IInv, TypeOK, PCs, Bit, kTrue, kFalse
<1>b. SwapInv'
  <2>1. pc[n] # "swap"
    BY <1>5, Zenon DEF InQ, Queued, Eligible, Section, Drawing, Arriving, Waiting, Leaving
  <2> QED
    BY <1>1, <1>2, <1>6, <2>1 DEF IInv, SwapInv
<1>d. TailInv'
  <2>1. \A m \in Locks, d \in Cohorts : tail[m][d] # t
    <3> SUFFICES ASSUME NEW m \in Locks, NEW d \in Cohorts, tail[m][d] = t PROVE FALSE
      OBVIOUS
    <3>1. pos[t] + 1 = arrivals[lk[t]][Coh(t)]
      BY DEF IInv, TailInv
    <3>2. pos[n] < arrivals[lk[t]][Coh(t)]
      BY <1>5, Zenon DEF IInv, PosInv, SameQueue
    <3> QED
      BY <1>3, <1>5, <3>1, <3>2
  <2> QED
    BY <1>1, <1>2, <2>1 DEF IInv, TailInv
<1>e. HeadInv'
  <2> SUFFICES ASSUME NEW u \in Threads
               PROVE  (/\ InQ(u) /\ (prev[u] = None \/ granted[Coh(u)][u] = kTrue) =>
                            \A v \in Threads : InQ(v) /\ SameQueue(u, v) => pos[u] <= pos[v]
                       /\ pc[u] \in {"waitturn", "cs"} \cup Leaving =>
                            prev[u] = None \/ granted[Coh(u)][u] = kTrue)'
    BY Zenon DEF HeadInv
  <2>1. CASE u = t
    BY <1>2, <2>1, Zenon DEF Leaving
  <2>2. CASE u = n
    BY <1>1, <1>2, <1>5, <1>6, <1>7, <2>2 DEF SameQueue
  <2>3. CASE u # t /\ u # n
    BY <1>1, <1>2, <1>6, <2>3 DEF IInv, HeadInv, SameQueue
  <2> QED BY <2>1, <2>2, <2>3, Zenon
<1>f. PrevInv'
  <2>1. ASSUME NEW u \in Threads, u # t, u # n, InQ(u), prev[u] # None, granted[Coh(u)][u] = kFalse
        PROVE  prev[u] \in Threads \ {t} /\ InQ(prev[u]) /\ SameQueue(u, prev[u]) /\ pos[u] = pos[prev[u]] + 1
    <3>1. prev[u] \in Threads /\ InQ(prev[u]) /\ SameQueue(u, prev[u]) /\ pos[u] = pos[prev[u]] + 1
      BY <2>1, Zenon DEF IInv, TypeOK, PrevInv
    <3>2. prev[u] # t
      BY <1>5, <2>1, <3>1, Zenon DEF IInv, PosInv, SameQueue
    <3> QED BY <3>1, <3>2, Zenon
  <2>2. ASSUME NEW u \in Threads
        PROVE  (InQ(u) /\ prev[u] # None /\ granted[Coh(u)][u] = kFalse =>
                  InQ(prev[u]) /\ SameQueue(u, prev[u]) /\ pos[u] = pos[prev[u]] + 1)'
    BY <1>1, <1>2, <1>6, <1>9, <2>1 DEF SameQueue
  <2>3. ASSUME NEW u \in Threads
        PROVE  (/\ pc[u] \in Arriving => prev[u] # None
                /\ pc[u] \in {"link", "readticket", "release"} => granted[Coh(u)][u] = kFalse
                /\ pc[u] \in {"readticket", "release"} => next[Coh(u)][prev[u]] = u)'
    BY <1>1, <1>2, <1>4, <1>6, Zenon DEF IInv, PrevInv, Arriving
  <2> QED
    BY <2>2, <2>3, Zenon DEF PrevInv
<1>g. NextInv'
  <2>1. ASSUME NEW u \in Threads, InQ(u)', NEW v \in Threads, next[Coh(u)][u] = v
        PROVE  u # t /\ v # t /\ v # n /\ InQ(u) /\ InQ(v) /\ SameQueue(u, v) /\ prev[v] = u
               /\ pos[v] = pos[u] + 1 /\ pc[v] # "link" /\ granted[Coh(u)][v] = kFalse
    <3>1. u # t /\ InQ(u)
      BY <1>2, <2>1, Zenon
    <3>2. /\ InQ(v) /\ SameQueue(u, v) /\ prev[v] = u /\ pos[v] = pos[u] + 1
          /\ pc[v] # "link" /\ granted[Coh(u)][v] = kFalse
      BY <2>1, <3>1, Zenon DEF IInv, NextInv
    <3> QED
      BY <1>2, <1>5, <1>8, <2>1, <3>1, <3>2, Zenon
  <2>2. ASSUME NEW u \in Threads, InQ(u)', pc'[u] = "wake" PROVE next[Coh(u)][u] # None
    BY <1>2, <2>2, Zenon DEF IInv, NextInv
  <2>3. \A u, v \in Threads : v # n /\ SameQueue(u, v) => granted'[Coh(u)][v] = granted[Coh(u)][v]
    BY <1>6, Zenon DEF SameQueue
  <2> QED
    BY <1>1, <1>2, <2>1, <2>2, <2>3 DEF NextInv, SameQueue
<1>h. ReleaseInv'
  <2> SUFFICES ASSUME NEW u \in Threads, InQ(u)'
               PROVE  (/\ releasable[Coh(u)][u] = kTrue =>
                           /\ next[Coh(u)][u] # None
                           /\ pc[next[Coh(u)][u]] \notin {"link", "readticket", "release"}
                       /\ pc[u] = "grant" => releasable[Coh(u)][u] = kTrue)'
    BY Zenon DEF ReleaseInv
  <2>1. u # t /\ InQ(u) /\ pc'[u] = pc[u] /\ Coh(u)' = Coh(u)
    BY <1>2, Zenon
  <2>0. next[Coh(u)][u] \in Threads \cup {None}
    BY <1>3 DEF IInv, TypeOK
  <2> QED
    BY <1>1, <1>2, <1>8, <2>0, <2>1, Zenon DEF IInv, ReleaseInv
<1>s. ServedInv'
  <2>1. "idle" \notin Arriving \cup Eligible \cup Waiting \cup Leaving \cup {"release"}
    BY Zenon DEF Eligible, Section, Drawing, Arriving, Waiting, Leaving
  <2> QED
    BY <1>1, <1>2, <2>1 DEF IInv, ServedInv
<1> QED
  BY <1>y, <1>2, <1>b, <1>d, <1>e, <1>f, <1>g, <1>h, <1>s, Zenon DEF IInv

-----------------------------------------------------------------------------
\* Zeroed locks and idle threads satisfy the invariant.
LEMMA InitInv == Init => IInv
<1> SUFFICES ASSUME Init PROVE IInv
  OBVIOUS
<1> USE DEF Init
<1>1. TypeOK
  BY NoneAssumption, Zenon DEF TypeOK, PCs, Bit, Ticket, kTrue, kFalse, kInvalidTicket
<1>2. /\ \A t \in Threads : pc[t] = "idle" /\ lk[t] = None /\ ~InQ(t)
      /\ None \notin Locks /\ None \notin Threads
  BY NoneAssumption, Zenon DEF InQ, Queued, Eligible, Section, Drawing, Arriving, Waiting, Leaving
<1>3. LkInv /\ SwapInv /\ PosInv /\ TailInv /\ NextInv /\ ReleaseInv
  BY <1>2, Zenon DEF LkInv, SwapInv, PosInv, TailInv, NextInv, ReleaseInv
<1>4. HeadInv /\ PrevInv
  BY <1>2, Zenon DEF HeadInv, PrevInv, Arriving, Leaving
<1>5. ServedInv
  BY <1>2 DEF ServedInv, Eligible, Section, Drawing, Arriving, Waiting, Leaving
<1>6. PetersonInv /\ TicketInv
  BY <1>2 DEF PetersonInv, TicketInv, Section, Drawing, HasTicket, Waiting
<1> QED
  BY <1>1, <1>3, <1>4, <1>5, <1>6, Zenon DEF IInv

\* The invariant depends on the variables alone.
LEMMA StutterInv ==
  ASSUME IInv, UNCHANGED vars
  PROVE  IInv'
<1>0. /\ pc' = pc /\ lk' = lk /\ prev' = prev /\ tk' = tk /\ pos' = pos /\ tail' = tail
      /\ next' = next /\ ticket' = ticket /\ to_get_ticket' = to_get_ticket
      /\ granted' = granted /\ releasable' = releasable /\ arrivals' = arrivals
      /\ served' = served /\ next_ticket' = next_ticket /\ current_ticket' = current_ticket
  BY Zenon DEF vars
<1>1. \A t \in Threads : Coh(t)' = Coh(t) /\ InQ(t)' = InQ(t) /\ Tick(t)' = Tick(t)
  BY Zenon DEF vars, Coh, CohortOf, IsLocal, InQ, Tick
<1>2. \A t, u \in Threads : SameQueue(t, u)' = SameQueue(t, u)
  BY <1>1, Zenon DEF vars, SameQueue
<1>3. TypeOK'
  BY Zenon DEF vars, IInv, TypeOK
<1>4. LkInv' /\ SwapInv'
  BY <1>0, <1>1, Zenon DEF IInv, LkInv, SwapInv
<1>5. PosInv'
  <2>1. PosInv
    BY Zenon DEF IInv
  <2> QED
    BY <1>0, <1>1, <1>2, <2>1, Zenon DEF PosInv
<1>6. TailInv'
  <2>1. TailInv
    BY Zenon DEF IInv
  <2> QED
    BY <1>0, <1>1, <2>1 DEF TailInv
<1>7. HeadInv'
  <2>1. HeadInv
    BY Zenon DEF IInv
  <2> QED
    BY <1>0, <1>1, <1>2, <2>1, Zenon DEF HeadInv
<1>8. /\ \A t \in Threads : /\ InQ(prev[t])' = InQ(prev[t])
                            /\ SameQueue(t, prev[t])' = SameQueue(t, prev[t])
      /\ UNCHANGED <<pc, lk, prev, pos, next, granted, releasable>>
  BY Zenon DEF vars, InQ, SameQueue, Coh, CohortOf, IsLocal
<1>9. PrevInv'
  <2>1. PrevInv
    BY Zenon DEF IInv
  <2> QED
    BY <1>1, <1>8, <2>1, Zenon DEF PrevInv
<1>10. NextInv'
  <2>1. NextInv
    BY Zenon DEF IInv
  <2> QED
    BY <1>0, <1>1, <1>2, <2>1 DEF NextInv
<1>11. ReleaseInv'
  <2>1. ReleaseInv
    BY Zenon DEF IInv
  <2> QED
    BY <1>1, <1>8, <2>1, Zenon DEF ReleaseInv
<1>12. ServedInv'
  <2>1. ServedInv
    BY Zenon DEF IInv
  <2> QED
    BY <1>0, <1>1, <2>1, ZenonT(40) DEF ServedInv
<1>13. PetersonInv'
  BY <1>1, Zenon DEF vars, IInv, PetersonInv
<1>14. TicketInv'
  <2>1. TicketInv
    BY Zenon DEF IInv
  <2> QED
    BY <1>0, <1>1, <2>1 DEF TicketInv
<1> QED
  BY <1>3, <1>4, <1>5, <1>6, <1>7, <1>9, <1>10, <1>11, <1>12, <1>13, <1>14, Zenon DEF IInv

\* Every step of every thread preserves the invariant.
LEMMA NextStepInv ==
  ASSUME IInv, [Next]_vars
  PROVE  IInv'
<1>1. ASSUME NEW t \in Threads, NEW l \in Locks, Lock(t, l) PROVE IInv'
  BY <1>1, LockInv, Zenon
<1>2. ASSUME NEW t \in Threads, LockSteps(t) PROVE IInv'
  BY <1>2, SwapTailInv, LinkPrevInv, ReadPrevTicketInv, ReleasePrevInv, WaitToGetTicketInv,
     UnlockPetersonsInv, PublishTicketInv, CheckNextInv, WakeNextInv, AwaitPredecessorInv,
     AwaitTicketInv, Zenon DEF LockSteps
<1>3. ASSUME NEW t \in Threads, LockLocal(t) PROVE IInv'
  BY <1>2, <1>3, RaiseFlagInv, SetVictimInv, SpinLocalInv, FetchAddLocalInv, Zenon
     DEF LockLocal, LockPetersonsLocal
<1>4. ASSUME NEW t \in Threads, LockRemote(t) PROVE IInv'
  BY <1>2, <1>4, RaiseFlagInv, SetVictimInv, SpinRemoteInv, FetchAddRemoteInv, Zenon
     DEF LockRemote, LockPetersonsRemote
<1>5. ASSUME NEW t \in Threads, UnlockLocal(t) \/ UnlockRemote(t) PROVE IInv'
  BY <1>5, BumpCurrentInv, UnlockCheckNextInv, CasTailInv, AwaitReleasableInv, GrantNextInv, Zenon
     DEF UnlockLocal, UnlockRemote, UnlockSteps
<1>6. CASE Done \/ UNCHANGED vars
  BY <1>6, StutterInv, Zenon DEF Done
<1> QED
  BY <1>1, <1>3, <1>4, <1>5, <1>6, Zenon DEF Next

\* IInv, the inductive invariant of FARLockInv, holds in every reachable state.
THEOREM Invariance == Spec => []IInv
BY InitInv, NextStepInv, PTL DEF Spec

\* TypeOK: every field of farlock.h keeps the values its declaration allows, for
\* any number of threads, locks, nodes and operations.
THEOREM TypeCorrect == Spec => []TypeOK
<1>1. IInv => TypeOK
  BY Zenon DEF IInv
<1> QED
  BY <1>1, Invariance, PTL

\* The holder's ticket is the current one and tickets are distinct.
LEMMA InvExclusion == IInv => MutualExclusion
BY DEF IInv, TicketInv, MutualExclusion, HasTicket, Waiting

\* Lock and Unlock of FARLock give mutual exclusion on every lock, for any number
\* of threads in both cohorts.
THEOREM Exclusion == Spec => []MutualExclusion
BY InvExclusion, Invariance, PTL

\* The non-atomic pair of CPU and RDMA fetch-and-add on next_ticket_ never
\* overlaps, for any number of threads.
THEOREM TicketSection == Spec => []TicketSectionExclusion
BY OneDrawing, Invariance, PTL

\* The neighbours a thread writes to are still its neighbours.
LEMMA InvNoStale == IInv => NoStaleAccess
<1> SUFFICES ASSUME IInv, NEW t \in Threads, NEW u \in Touches(t)
             PROVE  /\ u \in Threads /\ pc[u] \in Queued /\ SameQueue(t, u)
                    /\ pos[u] = IF pc[t] \in {"wake", "grant"} THEN pos[t] + 1 ELSE pos[t] - 1
  BY Zenon DEF NoStaleAccess
<1>1. pos \in [Threads -> Nat] /\ Coh(t) \in Cohorts
  BY CohType, Zenon DEF IInv, TypeOK
<1>2. CASE pc[t] \in {"link", "readticket", "release"}
  <2>1. /\ u = prev[t] /\ InQ(t) /\ prev[t] # None /\ granted[Coh(t)][t] = kFalse
        /\ pc[t] \notin {"wake", "grant"}
    BY <1>2, Zenon DEF Touches, IInv, PrevInv, InQ, Queued, Arriving
  <2>2. u \in Threads /\ InQ(u) /\ SameQueue(t, u) /\ pos[t] = pos[u] + 1
    BY <2>1, Zenon DEF IInv, TypeOK, PrevInv
  <2> QED
    BY <1>1, <2>1, <2>2 DEF InQ
<1>3. CASE pc[t] \in {"wake", "grant"}
  <2>1. u = next[Coh(t)][t] /\ InQ(t)
    BY <1>3, Zenon DEF Touches, InQ, Queued, Waiting, Leaving
  <2>2. u \in Threads
    BY <1>1, <1>3, <2>1 DEF IInv, TypeOK, NextInv, ReleaseInv
  <2> QED
    BY <1>3, <2>1, <2>2, Zenon DEF IInv, NextInv, InQ
<1> QED
  BY <1>2, <1>3, Zenon DEF Touches

\* No store into another thread's descriptor (next_, releasable_,
\* to_get_ticket_, granted_) goes through a null pointer or arrives in a later
\* operation of that thread.
THEOREM DescriptorSafety == Spec => []NoStaleAccess
BY InvNoStale, Invariance, PTL

\* Only the holder's Unlock moves current_ticket_, and by one.
LEMMA CurrentTicketMoves ==
  ASSUME IInv, Next, NEW l \in Locks, current_ticket'[l] # current_ticket[l]
  PROVE  /\ current_ticket'[l] = current_ticket[l] + 1
         /\ \E t \in Threads : /\ pc[t] = "cs" /\ lk[t] = l /\ pc'[t] = "ulnext"
                               /\ Tick(t) = current_ticket[l]
<1>1. PICK t \in Threads : BumpCurrent(t)
  <2>1. ASSUME NEW t \in Threads, LockSteps(t) PROVE UNCHANGED current_ticket
    BY <2>1, Zenon DEF LockSteps, SwapTail, LinkPrev, ReadPrevTicket, ReleasePrev, WaitToGetTicket,
       UnlockPetersons, PublishTicket, CheckNext, WakeNext, AwaitPredecessor, AwaitTicket, lockVars
  <2>2. ASSUME NEW t \in Threads, LockLocal(t) PROVE UNCHANGED current_ticket
    BY <2>1, <2>2, Zenon DEF LockLocal, LockPetersonsLocal, RaiseFlag, SetVictim, SpinLocal,
       FetchAddLocal, lockVars
  <2>3. ASSUME NEW t \in Threads, LockRemote(t) PROVE UNCHANGED current_ticket
    BY <2>1, <2>3, Zenon DEF LockRemote, LockPetersonsRemote, RaiseFlag, SetVictim, SpinRemote,
       FetchAddRemote, lockVars
  <2>4. ASSUME NEW t \in Threads, UnlockLocal(t) \/ UnlockRemote(t)
        PROVE  BumpCurrent(t) \/ UNCHANGED current_ticket
    BY <2>4, Zenon DEF UnlockLocal, UnlockRemote, UnlockSteps, UnlockCheckNext, CasTail,
       AwaitReleasable, GrantNext, lockVars
  <2>5. ASSUME NEW t \in Threads, NEW m \in Locks, Lock(t, m) PROVE UNCHANGED current_ticket
    BY <2>5, Zenon DEF Lock, lockVars
  <2>6. Done => UNCHANGED current_ticket
    BY Zenon DEF Done, vars
  <2> QED
    BY <2>2, <2>3, <2>4, <2>5, <2>6, Zenon DEF Next
<1>2. /\ pc[t] = "cs" /\ pc'[t] = "ulnext" /\ lk[t] \in Locks /\ Coh(t) \in {"local", "remote"}
      /\ current_ticket' = [current_ticket EXCEPT ![lk[t]] =
                              IF Coh(t) = "local" THEN @ + 1 ELSE ticket["remote"][t] + 1]
  BY <1>1, CohType, Zenon DEF BumpCurrent, Goto, IInv, TypeOK, LkInv, Cohorts
<1>3. Tick(t) = current_ticket[lk[t]] /\ ticket[Coh(t)][t] = current_ticket[lk[t]]
  BY <1>2, Zenon DEF IInv, TicketInv, Tick
<1>4. lk[t] = l
  BY <1>2, Zenon DEF IInv, TypeOK
<1> QED
  BY <1>2, <1>3, <1>4, Zenon DEF IInv, TypeOK

\* CurrentTicketStep: the turn passes from ticket to ticket, by the holder alone.
THEOREM CurrentTicketMovesByOne == Spec => CurrentTicketStep
<1>1. IInv /\ [Next]_vars =>
        [\A l \in Locks : current_ticket'[l] # current_ticket[l] =>
           /\ current_ticket'[l] = current_ticket[l] + 1
           /\ \E t \in Threads : /\ pc[t] = "cs" /\ lk[t] = l /\ pc'[t] = "ulnext"
                                 /\ Tick(t) = current_ticket[l]]_vars
  BY CurrentTicketMoves, Zenon
<1> QED
  BY <1>1, Invariance, PTL DEF Spec, CurrentTicketStep

-----------------------------------------------------------------------------
(***************************************************************************)
(* The order of service: no ticket is lost, each cohort draws in order of  *)
(* arrival, and a cohort passes a waiting thread of the other at most      *)
(* once. Each fact is inductive relative to IInv.                          *)
(***************************************************************************)
\* Every outstanding ticket is in some thread's hands.
TicketsHeld ==
  \A l \in Locks : \A k \in current_ticket[l]..(next_ticket[l] - 1) :
    \E t \in Threads : pc[t] \in HasTicket /\ lk[t] = l /\ Tick(t) = k

OrderInv == TicketsHeld /\ CohortFIFO

Racing == {"spin1", "spin2", "faa", "faawrite"}

\* Why BoundedBypass holds: while t waits, a thread u of the other cohort that
\* is about to draw has drawn nothing yet since t wrote victim_, and once it
\* has, it can wait only as the victim.
BypassInv ==
  \A t \in Threads : pc[t] \in Racing =>
    /\ next_ticket[lk[t]] <= seen[t] + 1
    /\ \A u \in Threads : lk[u] = lk[t] /\ Coh(u) # Coh(t) =>
         /\ pc[u] \in {"faa", "faawrite"} => next_ticket[lk[t]] <= seen[t]
         /\ pc[u] \in {"spin1", "spin2"} =>
              victim[lk[t]] = Coh(u) \/ next_ticket[lk[t]] <= seen[t]

-----------------------------------------------------------------------------
\* What another thread u has at stake is left alone.
Untouched(u) ==
  /\ lk'[u] = lk[u] /\ tk'[u] = tk[u] /\ pos'[u] = pos[u] /\ seen'[u] = seen[u]
  /\ ticket'[Coh(u)][u] = ticket[Coh(u)][u]

\* A step of t to q that neither draws a ticket nor passes the turn.
Orderly(t, q) ==
  /\ pc' = [pc EXCEPT ![t] = q]
  /\ \/ pc[t] \in HasTicket /\ q \in HasTicket /\ Tick(t)' = Tick(t)
     \/ pc[t] \notin HasTicket /\ q \notin HasTicket
  /\ pc[t] \in Leaving => q \in Leaving \cup {"idle"}
  /\ q \in Queued => /\ lk'[t] = lk[t]
                     /\ \/ pc[t] \in Queued /\ pos'[t] = pos[t]
                        \/ q \notin HasTicket /\ pos'[t] = arrivals[lk[t]][Coh(t)]
  /\ \A u \in Threads \ {t} : Untouched(u)
  /\ UNCHANGED <<next_ticket, current_ticket>>

\* An orderly step keeps tickets in hands and in order: a newcomer is behind
\* everybody in its queue.
LEMMA OrderFrame ==
  ASSUME IInv, OrderInv, NEW t \in Threads, NEW q, Orderly(t, q)
  PROVE  OrderInv'
<1>1. /\ \A u \in Threads : u # t => pc'[u] = pc[u] /\ Untouched(u)
      /\ pc'[t] = q
      /\ next_ticket' = next_ticket /\ current_ticket' = current_ticket
  BY Zenon DEF Orderly, IInv, TypeOK
<1>2. \A u \in Threads : u # t => Coh(u)' = Coh(u) /\ Tick(u)' = Tick(u)
  BY <1>1, CohStable, Zenon DEF Tick, Untouched
<1>3. HasTicket \subseteq Queued /\ Leaving \subseteq Queued
  BY Zenon DEF HasTicket, Queued, Eligible, Section, Drawing
<1>4. TicketsHeld'
  <2> SUFFICES ASSUME NEW l \in Locks, NEW k \in current_ticket[l]..(next_ticket[l] - 1)
               PROVE  \E u \in Threads : pc'[u] \in HasTicket /\ lk'[u] = l /\ Tick(u)' = k
    BY <1>1, Zenon DEF TicketsHeld
  <2>1. PICK u \in Threads : pc[u] \in HasTicket /\ lk[u] = l /\ Tick(u) = k
    BY Zenon DEF OrderInv, TicketsHeld
  <2>2. CASE u = t
    BY <1>1, <1>3, <2>1, <2>2, Zenon DEF Orderly
  <2>3. CASE u # t
    BY <1>1, <1>2, <2>1, <2>3, Zenon DEF Untouched
  <2> QED
    BY <2>2, <2>3, Zenon
<1>5. CohortFIFO'
  <2> SUFFICES ASSUME NEW u \in Threads, NEW v \in Threads,
                      pc'[u] \in Queued, pc'[v] \in Queued, SameQueue(u, v)',
                      pos'[u] < pos'[v], pc'[v] \in HasTicket
               PROVE  pc'[u] \in Leaving \/ (pc'[u] \in HasTicket /\ Tick(u)' < Tick(v)')
    BY Zenon DEF CohortFIFO
  <2>1. pc[v] \in HasTicket /\ Tick(v)' = Tick(v) /\ pos'[v] = pos[v] /\ lk'[v] = lk[v]
    BY <1>1, <1>2, <1>3, ZenonT(40) DEF Orderly, Untouched
  <2>2. lk'[u] = lk[u] /\ Coh(u)' = Coh(u) /\ Coh(v)' = Coh(v) /\ SameQueue(u, v)
    BY <1>1, <2>1, CohStable DEF Orderly, Untouched, SameQueue
  <2>3. pos[v] < arrivals[lk[v]][Coh(v)] /\ pos \in [Threads -> Nat]
        /\ lk[v] \in Locks /\ Coh(v) \in Cohorts /\ arrivals[lk[v]][Coh(v)] \in Nat
    BY <1>3, <2>1, CohType, Zenon DEF IInv, TypeOK, PosInv, InQ, LkInv, HasTicket, Waiting
  <2>4. pc[u] \in Queued /\ pos'[u] = pos[u]
    BY <1>1, <2>1, <2>2, <2>3 DEF Orderly, Untouched, SameQueue
  <2>5. pc[u] \in Leaving \/ (pc[u] \in HasTicket /\ Tick(u) < Tick(v))
    BY <1>3, <2>1, <2>2, <2>4, Zenon DEF OrderInv, CohortFIFO
  <2>6. "idle" \notin Queued /\ Leaving \cap HasTicket = {}
    BY Zenon DEF Queued, Eligible, Section, Drawing, Arriving, Waiting, Leaving, HasTicket
  <2> QED
    BY <1>1, <1>2, <2>1, <2>5, <2>6, Zenon DEF Orderly
<1> QED
  BY <1>4, <1>5, Zenon DEF OrderInv

\* A step of t to q, outside Peterson's wait and the draw.
Calm(t, q) ==
  /\ pc' = [pc EXCEPT ![t] = q] /\ q \notin Racing
  /\ q = "cs" => AwaitTicket(t)
  /\ \A u \in Threads \ {t} : Untouched(u)
  /\ UNCHANGED <<next_ticket, victim>>

\* Such a step changes nothing for the threads that wait or draw.
LEMMA BypassFrame ==
  ASSUME IInv, BypassInv, NEW t \in Threads, NEW q, Calm(t, q)
  PROVE  BypassInv'
<1>1. /\ \A u \in Threads : u # t => pc'[u] = pc[u] /\ lk'[u] = lk[u] /\ seen'[u] = seen[u]
                                      /\ Coh(u)' = Coh(u)
      /\ pc'[t] \notin Racing
      /\ next_ticket' = next_ticket /\ victim' = victim
  BY CohStable, Zenon DEF Calm, Untouched, IInv, TypeOK
<1>2. ASSUME NEW v \in Threads, pc'[v] \in Racing
      PROVE  /\ next_ticket'[lk'[v]] <= seen'[v] + 1
             /\ \A u \in Threads : lk'[u] = lk'[v] /\ Coh(u)' # Coh(v)' =>
                  /\ pc'[u] \in {"faa", "faawrite"} => next_ticket'[lk'[v]] <= seen'[v]
                  /\ pc'[u] \in {"spin1", "spin2"} =>
                       victim'[lk'[v]] = Coh(u)' \/ next_ticket'[lk'[v]] <= seen'[v]
  <2>1. /\ lk'[v] = lk[v] /\ Coh(v)' = Coh(v) /\ pc'[v] = pc[v] /\ seen'[v] = seen[v]
        /\ pc[v] \in Racing
    BY <1>1, <1>2, Zenon
  <2>2. /\ next_ticket[lk[v]] <= seen[v] + 1
        /\ \A u \in Threads : lk[u] = lk[v] /\ Coh(u) # Coh(v) =>
             /\ pc[u] \in {"faa", "faawrite"} => next_ticket[lk[v]] <= seen[v]
             /\ pc[u] \in {"spin1", "spin2"} =>
                  victim[lk[v]] = Coh(u) \/ next_ticket[lk[v]] <= seen[v]
    BY <2>1, Zenon DEF BypassInv
  <2>3. ASSUME NEW u \in Threads, lk'[u] = lk'[v], Coh(u)' # Coh(v)'
        PROVE  /\ pc'[u] \in {"faa", "faawrite"} => next_ticket'[lk'[v]] <= seen'[v]
               /\ pc'[u] \in {"spin1", "spin2"} =>
                    victim'[lk'[v]] = Coh(u)' \/ next_ticket'[lk'[v]] <= seen'[v]
    <3>1. CASE u = t
      BY <1>1, <3>1, Zenon DEF Racing
    <3>2. CASE u # t
      BY <1>1, <2>1, <2>2, <2>3, <3>2, Zenon
    <3> QED
      BY <3>1, <3>2, Zenon
  <2> QED
    BY <1>1, <2>1, <2>2, <2>3, Zenon
<1> QED
  BY <1>2, Zenon DEF BypassInv

\* The steps of Lock and Unlock outside Peterson's wait, the draw and the
\* passing of the turn are orderly and calm.
LEMMA QuietStep ==
  ASSUME IInv, NEW t \in Threads,
         \/ \E l \in Locks : Lock(t, l)
         \/ LockSteps(t) \/ RaiseFlag(t) \/ (UnlockSteps(t) /\ ~BumpCurrent(t))
  PROVE  \E q : Orderly(t, q) /\ Calm(t, q)
<1> USE DEF Orderly, Calm, Untouched, Tick, Goto, lockVars, descVars, history, IInv, TypeOK,
            HasTicket, Waiting, Leaving, Queued, Eligible, Section, Drawing, Arriving, Racing
<1>0. Coh(t) \in Cohorts /\ \A u \in Threads : Coh(u) \in Cohorts
  BY CohType, Zenon
<1>1. ASSUME NEW l \in Locks, Lock(t, l) PROVE Orderly(t, "swap") /\ Calm(t, "swap")
  <2>1. ASSUME NEW u \in Threads \ {t} PROVE Untouched(u)
    <3>1. lk'[u] = lk[u] /\ tk'[u] = tk[u] /\ pos'[u] = pos[u] /\ seen'[u] = seen[u]
      BY <1>1, <2>1, Zenon DEF Lock
    <3>2. PICK d : d = CohortOf(t, l)
      BY Zenon
    <3>3. ticket' = [ticket EXCEPT ![d][t] = kInvalidTicket]
      BY <1>1, <3>2, Zenon DEF Lock
    <3>4. PICK c \in Cohorts : c = Coh(u)
      BY <1>0, Zenon
    <3>5. ticket'[c][u] = ticket[c][u]
      BY <2>1, <3>3
    <3> QED
      BY <3>1, <3>4, <3>5, Zenon
  <2> QED
    BY <1>1, <2>1, Zenon DEF Lock
<1>2. ASSUME SwapTail(t), NEW q \in {"flag", "link"}, pc' = [pc EXCEPT ![t] = q]
      PROVE  Orderly(t, q) /\ Calm(t, q)
  BY <1>0, <1>2, Zenon DEF SwapTail
<1>3. ASSUME LinkPrev(t) PROVE Orderly(t, "readticket") /\ Calm(t, "readticket")
  BY <1>0, <1>3, Zenon DEF LinkPrev
<1>4. ASSUME ReadPrevTicket(t) PROVE Orderly(t, "release") /\ Calm(t, "release")
  BY <1>0, <1>4, Zenon DEF ReadPrevTicket
<1>5. ASSUME ReleasePrev(t), NEW q \in {"waitget", "flag"}, pc' = [pc EXCEPT ![t] = q]
      PROVE  Orderly(t, q) /\ Calm(t, q)
  BY <1>0, <1>5, Zenon DEF ReleasePrev
<1>6. ASSUME WaitToGetTicket(t) PROVE Orderly(t, "flag") /\ Calm(t, "flag")
  BY <1>0, <1>6, Zenon DEF WaitToGetTicket
<1>7. ASSUME RaiseFlag(t) PROVE Orderly(t, "victim") /\ Calm(t, "victim")
  BY <1>0, <1>7, Zenon DEF RaiseFlag
<1>8. ASSUME UnlockPetersons(t) PROVE Orderly(t, "publish") /\ Calm(t, "publish")
  BY <1>0, <1>8, CohStable, Zenon DEF UnlockPetersons
<1>9. ASSUME PublishTicket(t) PROVE Orderly(t, "checknext") /\ Calm(t, "checknext")
  BY <1>0, <1>9, CohStable DEF PublishTicket
<1>10. ASSUME CheckNext(t) \/ WakeNext(t), NEW q \in {"wake", "waitgrant", "waitturn"},
              pc' = [pc EXCEPT ![t] = q]
       PROVE  Orderly(t, q) /\ Calm(t, q)
  BY <1>0, <1>10, CohStable, Zenon DEF CheckNext, WakeNext
<1>11. ASSUME AwaitPredecessor(t) PROVE Orderly(t, "waitturn") /\ Calm(t, "waitturn")
  BY <1>0, <1>11, CohStable, Zenon DEF AwaitPredecessor
<1>12. ASSUME AwaitTicket(t) PROVE Orderly(t, "cs") /\ Calm(t, "cs")
  BY <1>0, <1>12, CohStable, Zenon DEF AwaitTicket
<1>13. ASSUME UnlockCheckNext(t), NEW q \in {"cas", "waitrel"}, pc' = [pc EXCEPT ![t] = q]
       PROVE  Orderly(t, q) /\ Calm(t, q)
  BY <1>0, <1>13, Zenon DEF UnlockCheckNext
<1>14. ASSUME CasTail(t), NEW q \in {"idle", "waitrel"}, pc' = [pc EXCEPT ![t] = q]
       PROVE  Orderly(t, q) /\ Calm(t, q)
  BY <1>0, <1>14, ZenonT(40) DEF CasTail, Return
<1>15. ASSUME AwaitReleasable(t) PROVE Orderly(t, "grant") /\ Calm(t, "grant")
  BY <1>0, <1>15, Zenon DEF AwaitReleasable
<1>16. ASSUME GrantNext(t) PROVE Orderly(t, "idle") /\ Calm(t, "idle")
  BY <1>0, <1>16, Zenon DEF GrantNext, Return
<1> HIDE DEF Orderly, Calm
<1>17. ASSUME LockSteps(t) PROVE \E q : Orderly(t, q) /\ Calm(t, q)
  BY <1>2, <1>3, <1>4, <1>5, <1>6, <1>8, <1>9, <1>10, <1>11, <1>12, <1>17, Zenon
     DEF LockSteps, SwapTail, ReleasePrev, CheckNext, WakeNext, AfterTicket
<1>18. ASSUME UnlockSteps(t), ~BumpCurrent(t) PROVE \E q : Orderly(t, q) /\ Calm(t, q)
  BY <1>13, <1>14, <1>15, <1>16, <1>18, Zenon DEF UnlockSteps, UnlockCheckNext, CasTail
<1> QED
  BY <1>1, <1>7, <1>17, <1>18, Zenon

-----------------------------------------------------------------------------
\* Writing victim_ and turning in the wait loops is orderly.
LEMMA SpinOrderly ==
  ASSUME IInv, NEW t \in Threads, SetVictim(t) \/ SpinLocal(t) \/ SpinRemote(t)
  PROVE  \E q \in {"spin1", "spin2", "faa"} : Orderly(t, q)
<1>1. PICK q \in {"spin1", "spin2", "faa"} : pc' = [pc EXCEPT ![t] = q]
  BY Zenon DEF SetVictim, SpinLocal, SpinRemote, Goto
<1>2. Orderly(t, q)
  BY <1>1, Zenon DEF SetVictim, SpinLocal, SpinRemote, Goto, lockVars, descVars, history, IInv, TypeOK,
     Orderly, Untouched, HasTicket, Waiting, Leaving, Queued, Eligible, Section, Drawing, Arriving
<1> QED
  BY <1>2, Zenon

\* A draw by t: its ticket is the next one.
Draws(t) ==
  /\ pc[t] \in {"faa", "faawrite"} /\ pc' = [pc EXCEPT ![t] = "clear"]
  /\ tk'[t] = next_ticket[lk[t]]
  /\ next_ticket' = [next_ticket EXCEPT ![lk[t]] = @ + 1]
  /\ \A u \in Threads \ {t} : Untouched(u)
  /\ UNCHANGED <<current_ticket, lk, pos, ticket, victim>>

\* What < rules out.
LEMMA LessIsNot == \A x, y \in Nat : x < y => x # y /\ ~(y <= x)
OBVIOUS

\* A number is not above itself.
LEMMA NotAbove == \A x \in Nat : x <= x /\ x <= x + 1
OBVIOUS

\* One more on both sides.
LEMMA AddOneBoth == \A x, y \in Nat : x <= y => x + 1 <= y + 1
OBVIOUS

\* An interval without its last number.
LEMMA DropLast ==
  ASSUME NEW a \in Nat, NEW b \in Nat, NEW k \in a..(b + 1 - 1), k # b
  PROVE  k \in a..(b - 1)
OBVIOUS

\* Everybody ahead of t in its queue has a ticket already, or is leaving.
LEMMA DrawOrder ==
  ASSUME IInv, OrderInv, NEW t \in Threads, Draws(t)
  PROVE  OrderInv'
<1>1. /\ \A u \in Threads : u # t => pc'[u] = pc[u] /\ Tick(u)' = Tick(u)
      /\ \A u \in Threads : lk'[u] = lk[u] /\ Coh(u)' = Coh(u) /\ pos'[u] = pos[u]
      /\ pc'[t] = "clear" /\ Tick(t)' = next_ticket[lk[t]]
      /\ lk[t] \in Locks
  BY CohStable, Zenon DEF Draws, Untouched, Tick, IInv, TypeOK, LkInv
<1>2. /\ next_ticket'[lk[t]] = next_ticket[lk[t]] + 1
      /\ \A l \in Locks : l # lk[t] => next_ticket'[l] = next_ticket[l]
      /\ current_ticket' = current_ticket
      /\ \A l \in Locks : next_ticket[l] \in Nat /\ current_ticket[l] \in Nat
  BY <1>1, Zenon DEF Draws, IInv, TypeOK
<1>3. pc[t] \notin HasTicket /\ "clear" \in HasTicket
  BY Zenon DEF Draws, HasTicket, Waiting
<1>4. TicketsHeld'
  <2> SUFFICES ASSUME NEW l \in Locks, NEW k \in current_ticket'[l]..(next_ticket'[l] - 1)
               PROVE  \E u \in Threads : pc'[u] \in HasTicket /\ lk'[u] = l /\ Tick(u)' = k
    BY Zenon DEF TicketsHeld
  <2>1. CASE l = lk[t] /\ k = next_ticket[l]
    BY <1>1, <1>3, <2>1, Zenon
  <2>2. CASE ~(l = lk[t] /\ k = next_ticket[l])
    <3>1. k \in current_ticket[l]..(next_ticket[l] - 1)
      <4>1. CASE l # lk[t]
        BY <1>2, <4>1, Zenon
      <4>2. CASE l = lk[t]
        <5>1. PICK a \in Nat, b \in Nat : a = current_ticket[l] /\ b = next_ticket[l]
          BY <1>2, Zenon
        <5>2. k \in a..(b + 1 - 1) /\ k # b
          <6>1. current_ticket'[l] = a /\ next_ticket'[l] = b + 1
            BY <1>2, <4>2, <5>1, Zenon
          <6> QED
            BY <2>2, <4>2, <5>1, <6>1
        <5> QED
          BY <5>1, <5>2, DropLast, Zenon
      <4> QED
        BY <4>1, <4>2, Zenon
    <3>2. PICK u \in Threads : pc[u] \in HasTicket /\ lk[u] = l /\ Tick(u) = k
      BY <3>1, Zenon DEF OrderInv, TicketsHeld
    <3> QED
      BY <1>1, <1>3, <3>2, Zenon
  <2> QED
    BY <2>1, <2>2, Zenon
<1>5. CohortFIFO'
  <2> SUFFICES ASSUME NEW u \in Threads, NEW v \in Threads,
                      pc'[u] \in Queued, pc'[v] \in Queued, SameQueue(u, v)',
                      pos'[u] < pos'[v], pc'[v] \in HasTicket
               PROVE  pc'[u] \in Leaving \/ (pc'[u] \in HasTicket /\ Tick(u)' < Tick(v)')
    BY Zenon DEF CohortFIFO
  <2>1. SameQueue(u, v) /\ pos[u] < pos[v] /\ pos[u] \in Nat /\ pos[v] \in Nat
    BY <1>1, Zenon DEF SameQueue, IInv, TypeOK
  <2>2. CASE v = t
    <3>1. u # t /\ pc[u] \in Queued
      <4>1. pos[u] # pos[v]
        BY <2>1, LessIsNot, Zenon
      <4> QED
        BY <1>1, <2>2, <4>1, Zenon
    <3>4. pos[t] = served[lk[t]][Coh(t)]
      BY Zenon DEF IInv, ServedInv, Draws, Eligible, Section, Drawing
    <3>2. pc[u] \in Waiting \cup Leaving
      <4>1. lk[u] = lk[t] /\ Coh(u) = Coh(t) /\ pos[u] < pos[t]
        BY <2>1, <2>2, Zenon DEF SameQueue
      <4>2. pc[u] \in Arriving => pos[t] <= pos[u]
        BY <3>4, <4>1, Zenon DEF IInv, ServedInv
      <4>3. pc[u] \in Eligible => pos[u] = pos[t]
        BY <3>4, <4>1, Zenon DEF IInv, ServedInv
      <4> QED
        <5>1. pos[u] # pos[t] /\ ~(pos[t] <= pos[u])
          BY <2>1, <2>2, <4>1, LessIsNot, Zenon
        <5> QED
          BY <3>1, <4>2, <4>3, <5>1, Zenon DEF Queued
    <3>3. pc[u] \in HasTicket => Tick(u) < next_ticket[lk[t]]
      BY <2>1, <2>2, Zenon DEF IInv, TicketInv, SameQueue
    <3> QED
      BY <1>1, <2>2, <3>1, <3>2, <3>3, Zenon DEF HasTicket
  <2>3. CASE v # t /\ u = t
    <3>1. pc[v] \in HasTicket /\ pc[v] \in Queued /\ pc[t] \in Queued
      BY <1>1, <2>3, Zenon DEF Draws, Queued, Eligible, Section, Drawing
    <3>2. pc[t] \in Leaving \/ pc[t] \in HasTicket
      BY <2>1, <2>3, <3>1, Zenon DEF OrderInv, CohortFIFO
    <3> QED
      BY <1>3, <3>2, Zenon DEF Draws, Leaving
  <2>4. CASE v # t /\ u # t
    BY <1>1, <2>1, <2>4, Zenon DEF OrderInv, CohortFIFO
  <2> QED
    BY <2>2, <2>3, <2>4, Zenon
<1> QED
  BY <1>4, <1>5, Zenon DEF OrderInv

\* The thread of the other cohort that t passes had not been passed before, and
\* in t's own cohort nobody else draws or waits to.
LEMMA DrawBypass ==
  ASSUME IInv, BypassInv, NEW t \in Threads, Draws(t)
  PROVE  BypassInv'
<1>1. /\ \A u \in Threads : u # t => pc'[u] = pc[u] /\ seen'[u] = seen[u]
      /\ \A u \in Threads : lk'[u] = lk[u] /\ Coh(u)' = Coh(u) /\ Coh(u) \in Cohorts
      /\ pc'[t] = "clear" /\ pc[t] \in {"faa", "faawrite"} /\ victim' = victim
      /\ next_ticket'[lk[t]] = next_ticket[lk[t]] + 1
      /\ \A l \in Locks : l # lk[t] => next_ticket'[l] = next_ticket[l]
      /\ \A l \in Locks : next_ticket[l] \in Nat
      /\ seen \in [Threads -> Nat]
      /\ \A u \in Threads : pc[u] # "idle" => lk[u] \in Locks
  BY CohStable, CohType, Zenon DEF Draws, Untouched, IInv, TypeOK, LkInv
<1>2. \A u \in Threads : u # t /\ lk[u] = lk[t] /\ Coh(u) = Coh(t) => pc[u] \notin Racing
  BY <1>1, OneEligible, Zenon DEF Eligible, Section, Drawing, SameQueue, Racing
<1>3. ASSUME NEW v \in Threads, pc'[v] \in Racing
      PROVE  /\ next_ticket'[lk[v]] <= seen'[v] + 1
             /\ \A u \in Threads : lk[u] = lk[v] /\ Coh(u) # Coh(v) =>
                  /\ pc'[u] \in {"faa", "faawrite"} => next_ticket'[lk[v]] <= seen'[v]
                  /\ pc'[u] \in {"spin1", "spin2"} =>
                       victim[lk[v]] = Coh(u) \/ next_ticket'[lk[v]] <= seen'[v]
  <2>1. v # t /\ pc[v] \in Racing /\ lk[v] \in Locks
    BY <1>1, <1>3, Zenon DEF Racing
  <2>2. CASE lk[v] = lk[t]
    <3>1. Coh(v) # Coh(t)
      BY <1>2, <2>1, <2>2, Zenon
    <3>2. next_ticket[lk[v]] <= seen[v]
      BY <1>1, <2>1, <2>2, <3>1, Zenon DEF BypassInv
    <3>3. next_ticket'[lk[v]] = next_ticket[lk[v]] + 1 /\ seen'[v] = seen[v]
      BY <1>1, <2>1, <2>2, Zenon
    <3>4. seen[v] \in Nat /\ next_ticket[lk[v]] \in Nat
      BY <1>1, <2>1, Zenon
    <3>5. next_ticket'[lk[v]] <= seen'[v] + 1
      BY <3>2, <3>3, <3>4, AddOneBoth, Zenon
    <3>6. ASSUME NEW u \in Threads, lk[u] = lk[v], Coh(u) # Coh(v)
          PROVE  pc'[u] \notin Racing
      <4>1. Coh(u) = Coh(t)
        BY <1>1, <3>1, <3>6, Zenon DEF Cohorts
      <4>2. CASE u = t
        BY <1>1, <4>2, Zenon DEF Racing
      <4>3. CASE u # t
        BY <1>1, <1>2, <2>2, <3>6, <4>1, <4>3, Zenon
      <4> QED
        BY <4>2, <4>3, Zenon
    <3> QED
      BY <3>5, <3>6, Zenon DEF Racing
  <2>3. CASE lk[v] # lk[t]
    BY <1>1, <2>1, <2>3, Zenon DEF BypassInv
  <2> QED
    BY <2>2, <2>3, Zenon
<1>4. ASSUME NEW v \in Threads, pc'[v] \in Racing
      PROVE  /\ next_ticket'[lk'[v]] <= seen'[v] + 1
             /\ \A u \in Threads : lk'[u] = lk'[v] /\ Coh(u)' # Coh(v)' =>
                  /\ pc'[u] \in {"faa", "faawrite"} => next_ticket'[lk'[v]] <= seen'[v]
                  /\ pc'[u] \in {"spin1", "spin2"} =>
                       victim'[lk'[v]] = Coh(u)' \/ next_ticket'[lk'[v]] <= seen'[v]
  <2>1. lk'[v] = lk[v] /\ Coh(v)' = Coh(v)
    BY <1>1, Zenon
  <2>2. next_ticket'[lk'[v]] <= seen'[v] + 1
    BY <1>1, <1>3, <1>4, <2>1, Zenon
  <2>3. ASSUME NEW u \in Threads, lk'[u] = lk'[v], Coh(u)' # Coh(v)'
        PROVE  /\ pc'[u] \in {"faa", "faawrite"} => next_ticket'[lk'[v]] <= seen'[v]
               /\ pc'[u] \in {"spin1", "spin2"} =>
                    victim'[lk'[v]] = Coh(u)' \/ next_ticket'[lk'[v]] <= seen'[v]
    <3>1. lk[u] = lk[v] /\ Coh(u) # Coh(v) /\ Coh(u)' = Coh(u)
      BY <1>1, <2>1, <2>3, Zenon
    <3> QED
      BY <1>1, <1>3, <1>4, <2>1, <3>1, Zenon
  <2> QED
    BY <2>2, <2>3, Zenon
<1> QED
  BY <1>4, Zenon DEF BypassInv

\* Who writes victim_ makes room for the other cohort, once.
LEMMA SetVictimBypass ==
  ASSUME IInv, BypassInv, NEW t \in Threads, SetVictim(t)
  PROVE  BypassInv'
<1>1. /\ \A u \in Threads : u # t => pc'[u] = pc[u] /\ seen'[u] = seen[u]
      /\ \A u \in Threads : Coh(u)' = Coh(u) /\ Coh(u) \in Cohorts
      /\ lk' = lk /\ next_ticket' = next_ticket
      /\ pc[t] = "victim" /\ pc'[t] = "spin1" /\ seen'[t] = next_ticket[lk[t]]
      /\ next_ticket[lk[t]] \in Nat
      /\ victim'[lk[t]] = Coh(t)
      /\ \A l \in Locks : l # lk[t] => victim'[l] = victim[l]
      /\ \A u \in Threads : pc[u] # "idle" => lk[u] \in Locks
  BY CohStable, CohType, Zenon DEF SetVictim, Goto, IInv, TypeOK, LkInv
<1>2. \A u \in Threads : u # t /\ lk[u] = lk[t] /\ Coh(u) = Coh(t) => pc[u] \notin Racing
  BY <1>1, OneEligible, Zenon DEF Eligible, Section, Drawing, SameQueue, Racing
<1>3. ASSUME NEW v \in Threads, pc'[v] \in Racing
      PROVE  /\ next_ticket[lk[v]] <= seen'[v] + 1
             /\ \A u \in Threads : lk[u] = lk[v] /\ Coh(u) # Coh(v) =>
                  /\ pc'[u] \in {"faa", "faawrite"} => next_ticket[lk[v]] <= seen'[v]
                  /\ pc'[u] \in {"spin1", "spin2"} =>
                       victim'[lk[v]] = Coh(u) \/ next_ticket[lk[v]] <= seen'[v]
  <2>1. CASE v = t
    BY <1>1, <2>1, NotAbove, Zenon
  <2>2. CASE v # t /\ lk[v] = lk[t]
    BY <1>1, <1>2, <1>3, <2>2, Zenon DEF BypassInv, Racing, Cohorts
  <2>3. CASE v # t /\ lk[v] # lk[t]
    BY <1>1, <1>3, <2>3, Zenon DEF BypassInv, Racing
  <2> QED
    BY <2>1, <2>2, <2>3, Zenon
<1>4. ASSUME NEW v \in Threads, pc'[v] \in Racing
      PROVE  /\ next_ticket'[lk'[v]] <= seen'[v] + 1
             /\ \A u \in Threads : lk'[u] = lk'[v] /\ Coh(u)' # Coh(v)' =>
                  /\ pc'[u] \in {"faa", "faawrite"} => next_ticket'[lk'[v]] <= seen'[v]
                  /\ pc'[u] \in {"spin1", "spin2"} =>
                       victim'[lk'[v]] = Coh(u)' \/ next_ticket'[lk'[v]] <= seen'[v]
  <2>1. lk'[v] = lk[v] /\ Coh(v)' = Coh(v)
    BY <1>1, Zenon
  <2>2. next_ticket'[lk'[v]] <= seen'[v] + 1
    BY <1>1, <1>3, <1>4, <2>1, Zenon
  <2>3. ASSUME NEW u \in Threads, lk'[u] = lk'[v], Coh(u)' # Coh(v)'
        PROVE  /\ pc'[u] \in {"faa", "faawrite"} => next_ticket'[lk'[v]] <= seen'[v]
               /\ pc'[u] \in {"spin1", "spin2"} =>
                    victim'[lk'[v]] = Coh(u)' \/ next_ticket'[lk'[v]] <= seen'[v]
    <3>1. lk[u] = lk[v] /\ Coh(u) # Coh(v) /\ Coh(u)' = Coh(u)
      BY <1>1, <2>1, <2>3, Zenon
    <3> QED
      BY <1>1, <1>3, <1>4, <2>1, <3>1, Zenon
  <2> QED
    BY <2>2, <2>3, Zenon
<1> QED
  BY <1>4, Zenon DEF BypassInv

\* The wait loops are left only past a victim of the other cohort, or past a
\* lowered flag: who waits with its flag up has not been passed yet.
LEMMA SpinBypass ==
  ASSUME IInv, BypassInv, NEW t \in Threads,
         (Coh(t) = "local" /\ SpinLocal(t)) \/ (Coh(t) = "remote" /\ SpinRemote(t))
  PROVE  BypassInv'
<1>1. PICK q \in {"spin1", "spin2", "faa"} : pc' = [pc EXCEPT ![t] = q]
  BY Zenon DEF SpinLocal, SpinRemote, Goto
<1>2. /\ \A u \in Threads : u # t => pc'[u] = pc[u]
      /\ \A u \in Threads : Coh(u)' = Coh(u)
      /\ pc[t] \in {"spin1", "spin2"} /\ pc'[t] = q
      /\ lk' = lk /\ next_ticket' = next_ticket /\ victim' = victim /\ seen' = seen
  BY <1>1, CohStable, Zenon DEF SpinLocal, SpinRemote, Goto, lockVars, history, IInv, TypeOK
<1>3. ASSUME q = "faa", NEW v \in Threads, lk[v] = lk[t], Coh(v) # Coh(t), pc[v] \in Racing
      PROVE  victim[lk[t]] # Coh(t)
  <2>1. flag[lk[t]][Coh(v)] = kTrue /\ Coh(v) \in Cohorts
    BY <1>3, CohType, Zenon DEF IInv, PetersonInv, Racing, Section, Drawing
  <2>2. CASE Coh(t) = "local"
    <3>1. flag[lk[t]]["remote"] = kTrue
      BY <1>3, <2>1, <2>2, Zenon DEF Cohorts
    <3>2. SpinLocal(t) /\ pc'[t] = "faa"
      BY <1>2, <1>3, <2>2, Zenon
    <3>3. pc[t] = "spin2"
      BY <1>2, <3>1, <3>2, Zenon DEF SpinLocal, Goto, IInv, TypeOK
    <3>4. pc'[t] = IF victim[lk[t]] = "local" THEN "spin1" ELSE "faa"
      BY <3>2, <3>3, Zenon DEF SpinLocal, Goto, IInv, TypeOK
    <3> QED
      BY <2>2, <3>2, <3>4, Zenon
  <2>3. CASE Coh(t) = "remote"
    <3>1. pc[t] = "spin2" /\ vbuf[t] # "remote"
      BY <1>2, <1>3, <2>1, <2>3, Zenon DEF SpinRemote, Goto, Cohorts, IInv, TypeOK
    <3> QED
      BY <2>3, <3>1, Zenon DEF IInv, PetersonInv, Cohorts
  <2> QED
    BY <2>2, <2>3, CohType, Zenon DEF Cohorts
<1> QED
  BY <1>2, <1>3 DEF BypassInv, Racing

-----------------------------------------------------------------------------
\* Unlock takes the current ticket, its own, out of circulation.
LEMMA BumpOrder ==
  ASSUME IInv, OrderInv, NEW t \in Threads, BumpCurrent(t)
  PROVE  OrderInv'
<1>1. /\ \A u \in Threads : u # t => pc'[u] = pc[u]
      /\ \A u \in Threads : Coh(u)' = Coh(u)
      /\ pc[t] = "cs" /\ pc'[t] = "ulnext" /\ lk[t] \in Locks
      /\ lk' = lk /\ pos' = pos /\ ticket' = ticket /\ tk' = tk /\ next_ticket' = next_ticket
      /\ current_ticket' = [current_ticket EXCEPT ![lk[t]] =
                              IF Coh(t) = "local" THEN @ + 1 ELSE ticket["remote"][t] + 1]
  BY CohStable, Zenon DEF BumpCurrent, Goto, descVars, history, IInv, TypeOK, LkInv
<1>2. /\ Tick(t) = current_ticket[lk[t]] /\ Tick(t) = ticket[Coh(t)][t]
      /\ pc[t] \in HasTicket /\ pc'[t] \notin HasTicket /\ pc'[t] \in Leaving
  BY <1>1, Zenon DEF IInv, TicketInv, Tick, HasTicket, Waiting, Leaving
<1>3. /\ current_ticket'[lk[t]] = current_ticket[lk[t]] + 1
      /\ \A l \in Locks : l # lk[t] => current_ticket'[l] = current_ticket[l]
      /\ \A l \in Locks : next_ticket[l] \in Nat /\ current_ticket[l] \in Nat
  BY <1>1, <1>2, CohType, Zenon DEF IInv, TypeOK, Cohorts
<1>4. \A u \in Threads : u # t => Tick(u)' = Tick(u)
  BY <1>1, Zenon DEF Tick
<1>5. TicketsHeld'
  <2> SUFFICES ASSUME NEW l \in Locks, NEW k \in current_ticket'[l]..(next_ticket[l] - 1)
               PROVE  \E u \in Threads : pc'[u] \in HasTicket /\ lk[u] = l /\ Tick(u)' = k
    BY <1>1 DEF TicketsHeld
  <2>1. k \in current_ticket[l]..(next_ticket[l] - 1) /\ (l = lk[t] => k # Tick(t))
    <3>1. CASE l = lk[t]
      <4>1. current_ticket'[l] = current_ticket[l] + 1 /\ Tick(t) = current_ticket[l]
        BY <1>2, <1>3, <3>1, Zenon
      <4>2. next_ticket[l] \in Nat /\ current_ticket[l] \in Nat
        BY <1>3, Zenon
      <4> QED
        BY <4>1, <4>2
    <3>2. CASE l # lk[t]
      BY <1>3, <3>2, Zenon
    <3> QED
      BY <3>1, <3>2, Zenon
  <2>2. PICK u \in Threads : pc[u] \in HasTicket /\ lk[u] = l /\ Tick(u) = k
    BY <2>1, Zenon DEF OrderInv, TicketsHeld
  <2> QED
    BY <1>1, <1>4, <2>1, <2>2, Zenon
<1>6. CohortFIFO'
  BY <1>1, <1>2, <1>4 DEF OrderInv, CohortFIFO, SameQueue, Leaving, Queued
<1> QED
  BY <1>5, <1>6, Zenon DEF OrderInv

\* Unlock's first step is calm.
LEMMA BumpBypass ==
  ASSUME IInv, BypassInv, NEW t \in Threads, BumpCurrent(t)
  PROVE  BypassInv'
<1>1. Calm(t, "ulnext")
  BY Zenon DEF Calm, Untouched, Racing, BumpCurrent, Goto, descVars, history
<1> QED
  BY <1>1, BypassFrame, Zenon

\* The fetch-and-adds of both cohorts draw, but for the first half of the NIC's,
\* which is orderly.
LEMMA FetchAddDraws ==
  ASSUME IInv, NEW t \in Threads, FetchAddLocal(t) \/ FetchAddRemote(t)
  PROVE  \/ Draws(t)
         \/ /\ Orderly(t, "faawrite") /\ pc[t] = "faa"
            /\ UNCHANGED <<next_ticket, lk, seen, victim>>
<1>1. CASE pc' = [pc EXCEPT ![t] = "clear"]
  <2>1. pc[t] \in {"faa", "faawrite"} /\ (pc[t] = "faawrite" => tk[t] = next_ticket[lk[t]])
    BY Zenon DEF FetchAddLocal, FetchAddRemote, Goto, IInv, TicketInv
  <2>2. pc'[t] = "clear"
    BY <1>1, Zenon DEF IInv, TypeOK
  <2> QED
    BY <1>1, <2>1, <2>2, Zenon DEF FetchAddLocal, FetchAddRemote, Goto, descVars, IInv, TypeOK,
       Draws, Untouched
<1>2. CASE pc' # [pc EXCEPT ![t] = "clear"]
  <2>1. /\ pc[t] = "faa" /\ pc' = [pc EXCEPT ![t] = "faawrite"]
        /\ tk' = [tk EXCEPT ![t] = next_ticket[lk[t]]]
        /\ UNCHANGED <<next_ticket, current_ticket, seen, lk, pos, ticket, victim>>
    BY <1>2, Zenon DEF FetchAddLocal, FetchAddRemote, Goto, descVars
  <2>2. Orderly(t, "faawrite")
    BY <2>1, Zenon DEF IInv, TypeOK, Orderly, Untouched, HasTicket, Waiting, Leaving, Queued,
       Eligible, Section, Drawing
  <2> QED
    BY <2>1, <2>2, Zenon
<1> QED
  BY <1>1, <1>2, Zenon

\* So both keep the invariants.
LEMMA FetchAddOrder ==
  ASSUME IInv, OrderInv, BypassInv, NEW t \in Threads, FetchAddLocal(t) \/ FetchAddRemote(t)
  PROVE  OrderInv' /\ BypassInv'
<1>1. CASE Draws(t)
  BY <1>1, DrawOrder, DrawBypass, Zenon
<1>2. CASE /\ Orderly(t, "faawrite") /\ pc[t] = "faa"
           /\ UNCHANGED <<next_ticket, lk, seen, victim>>
  <2>1. /\ \A u \in Threads : Coh(u)' = Coh(u) /\ (u # t => pc'[u] = pc[u])
        /\ pc'[t] = "faawrite"
    BY <1>2, CohStable, Zenon DEF Orderly, IInv, TypeOK
  <2>2. BypassInv'
    BY <1>2, <2>1, Zenon DEF BypassInv, Racing
  <2> QED
    BY <1>2, <2>2, OrderFrame, Zenon
<1> QED
  BY <1>1, <1>2, FetchAddDraws, Zenon

\* Every step of every thread preserves both invariants.
LEMMA OrderStep ==
  ASSUME IInv, OrderInv, BypassInv, [Next]_vars
  PROVE  OrderInv' /\ BypassInv'
<1>1. ASSUME NEW t \in Threads,
             \/ \E l \in Locks : Lock(t, l)
             \/ LockSteps(t) \/ RaiseFlag(t) \/ (UnlockSteps(t) /\ ~BumpCurrent(t))
      PROVE  OrderInv' /\ BypassInv'
  BY <1>1, QuietStep, OrderFrame, BypassFrame, Zenon
<1>2. ASSUME NEW t \in Threads, LockLocal(t) PROVE OrderInv' /\ BypassInv'
  BY <1>1, <1>2, SpinOrderly, OrderFrame, SetVictimBypass, SpinBypass, FetchAddOrder, Zenon
     DEF LockLocal, LockPetersonsLocal
<1>3. ASSUME NEW t \in Threads, LockRemote(t) PROVE OrderInv' /\ BypassInv'
  BY <1>1, <1>3, SpinOrderly, OrderFrame, SetVictimBypass, SpinBypass, FetchAddOrder, Zenon
     DEF LockRemote, LockPetersonsRemote
<1>4. ASSUME NEW t \in Threads, UnlockLocal(t) \/ UnlockRemote(t) PROVE OrderInv' /\ BypassInv'
  BY <1>1, <1>4, BumpOrder, BumpBypass, Zenon DEF UnlockLocal, UnlockRemote
<1>5. CASE Done \/ UNCHANGED vars
  <2>1. \A t \in Threads : Coh(t)' = Coh(t) /\ Tick(t)' = Tick(t)
    BY <1>5, Zenon DEF Done, vars, Coh, CohortOf, IsLocal, Tick
  <2>2. TicketsHeld'
    BY <1>5, <2>1, Zenon DEF Done, vars, OrderInv, TicketsHeld
  <2>3. CohortFIFO'
    BY <1>5, <2>1, Zenon DEF Done, vars, OrderInv, CohortFIFO, SameQueue
  <2>4. BypassInv'
    BY <1>5, <2>1, Zenon DEF Done, vars, BypassInv
  <2> QED
    BY <2>2, <2>3, <2>4, Zenon DEF OrderInv
<1> QED
  BY <1>1, <1>2, <1>3, <1>4, <1>5, Zenon DEF Next

\* No ticket, no queue, no race.
LEMMA OrderInit == Init => OrderInv /\ BypassInv
BY DEF Init, OrderInv, BypassInv, TicketsHeld, CohortFIFO, Racing, HasTicket, Waiting, Queued,
       Eligible, Section, Drawing, Arriving, Leaving

\* The order facts hold in every reachable state, for any number of threads,
\* locks, nodes and operations.
THEOREM OrderInvariance == Spec => [](OrderInv /\ BypassInv)
BY OrderInit, OrderStep, Invariance, PTL DEF Spec

\* CohortFIFO: the exchange on a cohort's tail decides the order of its tickets.
THEOREM ServedInArrivalOrder == Spec => []CohortFIFO
<1>1. OrderInv => CohortFIFO
  BY Zenon DEF OrderInv
<1> QED
  BY <1>1, OrderInvariance, PTL

\* BoundedBypass: a thread that has written victim_ is passed by at most one
\* ticket of the other cohort.
THEOREM PassedAtMostOnce == Spec => []BoundedBypass
<1>1. BypassInv => BoundedBypass
  BY Zenon DEF BypassInv, BoundedBypass, Racing
<1> QED
  BY <1>1, OrderInvariance, PTL

\* TicketsAccounted: every outstanding ticket has exactly one holder, so the turn
\* never stops at a ticket that nobody has.
THEOREM NoTicketLost == Spec => []TicketsAccounted
<1>1. ASSUME IInv, OrderInv PROVE TicketsAccounted
  <2>1. \A l \in Locks : next_ticket[l] \in Nat /\ current_ticket[l] \in Nat
    BY <1>1, Zenon DEF IInv, TypeOK
  <2>2. \A t \in Threads, l \in Locks : pc[t] \in HasTicket /\ lk[t] = l =>
          Tick(t) \in current_ticket[l]..(next_ticket[l] - 1)
    BY <1>1, <2>1 DEF IInv, TicketInv
  <2>3. \A t, u \in Threads : pc[t] \in HasTicket /\ pc[u] \in HasTicket /\ lk[t] = lk[u]
          /\ Tick(t) = Tick(u) => t = u
    BY <1>1, Zenon DEF IInv, TicketInv
  <2> QED
    BY <1>1, <2>2, <2>3, Zenon DEF OrderInv, TicketsHeld, TicketsAccounted
<1> QED
  BY <1>1, OrderInvariance, Invariance, PTL

-----------------------------------------------------------------------------
\* Holder finds the thread that has a ticket.
HolderInv ==
  /\ \A t \in Threads : pc[t] \in HasTicket => Holder(lk[t], Tick(t)) = t
  /\ \A l \in Locks : \A k \in current_ticket[l]..(next_ticket[l] - 1) :
       /\ Holder(l, k) \in Threads
       /\ pc[Holder(l, k)] \in HasTicket /\ lk[Holder(l, k)] = l /\ Tick(Holder(l, k)) = k

\* Tickets are distinct, and each outstanding one has a holder.
LEMMA HolderExact == IInv /\ OrderInv => HolderInv
<1> SUFFICES ASSUME IInv, OrderInv PROVE HolderInv
  OBVIOUS
<1>1. ASSUME NEW t \in Threads, pc[t] \in HasTicket
      PROVE  Holder(lk[t], Tick(t)) = t
  <2>1. \A u \in Threads : pc[u] \in HasTicket /\ lk[u] = lk[t] /\ Tick(u) = Tick(t) => u = t
    BY <1>1, Zenon DEF IInv, TicketInv
  <2> QED
    BY <1>1, <2>1, Zenon DEF Holder
<1>2. ASSUME NEW l \in Locks, NEW k \in current_ticket[l]..(next_ticket[l] - 1)
      PROVE  /\ Holder(l, k) \in Threads
             /\ pc[Holder(l, k)] \in HasTicket /\ lk[Holder(l, k)] = l /\ Tick(Holder(l, k)) = k
  <2>1. \E u \in Threads : pc[u] \in HasTicket /\ lk[u] = l /\ Tick(u) = k
    BY <1>2, Zenon DEF OrderInv, TicketsHeld
  <2> QED
    BY <2>1, Zenon DEF Holder
<1> QED
  BY <1>1, <1>2, Zenon DEF HolderInv

\* Line is the waiting line: it holds the threads with a ticket, each at the
\* place its ticket says, and nobody else.
LineInv ==
  \A l \in Locks :
    /\ Line[l] \in Seq(Threads) /\ Len(Line[l]) = next_ticket[l] - current_ticket[l]
    /\ \A i \in 1..(next_ticket[l] - current_ticket[l]) : \E t \in Threads :
         /\ Line[l][i] = t /\ pc[t] \in HasTicket /\ lk[t] = l
         /\ Tick(t) = current_ticket[l] + i - 1

\* Each place of the line belongs to the holder of its ticket.
LEMMA LineExact == IInv /\ OrderInv => LineInv
<1> SUFFICES ASSUME IInv, OrderInv, NEW l \in Locks
             PROVE  /\ Line[l] \in Seq(Threads)
                    /\ Len(Line[l]) = next_ticket[l] - current_ticket[l]
                    /\ \A i \in 1..(next_ticket[l] - current_ticket[l]) : \E t \in Threads :
                         /\ Line[l][i] = t /\ pc[t] \in HasTicket /\ lk[t] = l
                         /\ Tick(t) = current_ticket[l] + i - 1
  BY Zenon DEF LineInv
<1> DEFINE n == next_ticket[l] - current_ticket[l]
           H(i) == Holder(l, current_ticket[l] + i - 1)
<1>1. n \in Nat /\ current_ticket[l] \in Nat /\ next_ticket[l] \in Nat
  BY DEF IInv, TypeOK, TicketInv
<1>2. Line[l] = [i \in 1..n |-> H(i)]
  BY Zenon DEF Line
<1>3. \A i \in 1..n : /\ H(i) \in Threads /\ pc[H(i)] \in HasTicket /\ lk[H(i)] = l
                      /\ Tick(H(i)) = current_ticket[l] + i - 1
  BY <1>1, HolderExact DEF HolderInv
<1> HIDE DEF n, H
<1>4. [i \in 1..n |-> H(i)] \in [1..n -> Threads]
  BY <1>3, Zenon
<1>5. Line[l] \in Seq(Threads) /\ Len(Line[l]) = n /\ \A i \in 1..n : Line[l][i] = H(i)
  BY <1>1, <1>2, <1>4
<1> QED
  BY <1>3, <1>5, Zenon DEF n

\* What the steps below know of the states before and after them.
FairInv == IInv /\ OrderInv /\ LineInv

\* Thread u has the same ticket of the same lock after the step.
KeepsTicket(u) == pc'[u] \in HasTicket /\ lk'[u] = lk[u] /\ Tick(u)' = Tick(u)

\* A thread that keeps its ticket keeps its place, counted from ticket zero.
LEMMA SamePlace ==
  ASSUME FairInv, FairInv', NEW l \in Locks,
         NEW i \in 1..Len(Line[l]), NEW j \in 1..Len(Line'[l]),
         current_ticket'[l] + j - 1 = current_ticket[l] + i - 1,
         \A u \in Threads : Line[l][i] = u /\ pc[u] \in HasTicket => KeepsTicket(u)
  PROVE  Line'[l][j] = Line[l][i]
<1>1. PICK t \in Threads : /\ Line[l][i] = t /\ pc[t] \in HasTicket /\ lk[t] = l
                           /\ Tick(t) = current_ticket[l] + i - 1
  BY Zenon DEF FairInv, LineInv
<1>2. PICK u \in Threads : /\ Line'[l][j] = u /\ pc'[u] \in HasTicket /\ lk'[u] = l
                           /\ Tick(u)' = current_ticket'[l] + j - 1
  BY Zenon DEF FairInv, LineInv
<1>3. pc'[t] \in HasTicket /\ lk'[t] = l /\ Tick(t)' = Tick(u)'
  BY <1>1, <1>2, Zenon DEF KeepsTicket
<1>4. u = t
  BY <1>2, <1>3, Zenon DEF FairInv, IInv, TicketInv
<1> QED
  BY <1>1, <1>2, <1>4, Zenon

\* A line whose tickets all stay with their holders does not change.
LEMMA SameLine ==
  ASSUME FairInv, FairInv', NEW l \in Locks,
         next_ticket'[l] = next_ticket[l], current_ticket'[l] = current_ticket[l],
         \A u \in Threads : pc[u] \in HasTicket /\ lk[u] = l => KeepsTicket(u)
  PROVE  Line'[l] = Line[l]
<1>1. /\ Line[l] \in Seq(Threads) /\ Line'[l] \in Seq(Threads)
      /\ Len(Line[l]) = next_ticket[l] - current_ticket[l] /\ Len(Line'[l]) = Len(Line[l])
  BY Zenon DEF FairInv, LineInv
<1>2. ASSUME NEW i \in 1..Len(Line[l]) PROVE Line'[l][i] = Line[l][i]
  <2>1. \A u \in Threads : Line[l][i] = u => lk[u] = l
    BY <1>1 DEF FairInv, LineInv
  <2> QED
    BY <1>1, <2>1, SamePlace, Zenon
<1> QED
  BY <1>1, <1>2, SeqEqual, Zenon

\* Line is a function on the locks, before and after a step.
LEMMA LineFunction ==
  Line = [l \in Locks |-> Line[l]] /\ Line' = [l \in Locks |-> Line'[l]]
BY Zenon DEF Line

\* So is Held.
LEMMA HeldFunction ==
  Held = [l \in Locks |-> Held[l]] /\ Held' = [l \in Locks |-> Held'[l]]
BY Zenon DEF Held

\* Held changes only where a thread enters or leaves "cs".
LEMMA HeldUnchanged ==
  ASSUME \A u \in Threads : pc[u] = "cs" \/ pc'[u] = "cs" => pc'[u] = pc[u] /\ lk'[u] = lk[u]
  PROVE  Held' = Held
<1>1. ASSUME NEW l \in Locks
      PROVE  (\E t \in Threads : pc[t] = "cs" /\ lk[t] = l)
               <=> (\E t \in Threads : pc'[t] = "cs" /\ lk'[t] = l)
  BY Zenon
<1> QED
  BY <1>1, Zenon DEF Held

\* A draw joins the end of the line.
LEMMA DrawJoins ==
  ASSUME FairInv, FairInv', NEW t \in Threads, Draws(t)
  PROVE  Fair!Join(t, lk[t])
<1>1. /\ \A u \in Threads : u # t => pc'[u] = pc[u] /\ Tick(u)' = Tick(u)
      /\ pc[t] \in {"faa", "faawrite"} /\ pc'[t] = "clear" /\ Tick(t)' = next_ticket[lk[t]]
      /\ lk' = lk /\ lk[t] \in Locks /\ current_ticket' = current_ticket
      /\ next_ticket'[lk[t]] = next_ticket[lk[t]] + 1
      /\ \A l \in Locks : l # lk[t] => next_ticket'[l] = next_ticket[l]
      /\ \A l \in Locks : next_ticket[l] \in Nat /\ current_ticket[l] \in Nat
  BY CohStable, Zenon DEF Draws, Untouched, Tick, FairInv, IInv, TypeOK, LkInv
<1>2. pc[t] \notin HasTicket /\ \A u \in Threads : pc[u] \in HasTicket => KeepsTicket(u)
  BY <1>1, Zenon DEF HasTicket, Waiting, KeepsTicket
<1>3. ASSUME NEW l \in Locks, l # lk[t] PROVE Line'[l] = Line[l]
  BY <1>1, <1>2, <1>3, SameLine, Zenon
<1>4. Line'[lk[t]] = Append(Line[lk[t]], t)
  <2>0. PICK l \in Locks : l = lk[t]
    BY <1>1, Zenon
  <2> DEFINE n == Len(Line[l])
  <2>1. /\ Line[l] \in Seq(Threads) /\ Line'[l] \in Seq(Threads)
        /\ n = next_ticket[l] - current_ticket[l] /\ n \in Nat /\ Len(Line'[l]) = n + 1
    <3>1. /\ Line[l] \in Seq(Threads) /\ n = next_ticket[l] - current_ticket[l]
          /\ Line'[l] \in Seq(Threads) /\ Len(Line'[l]) = next_ticket'[l] - current_ticket'[l]
      BY Zenon DEF FairInv, LineInv
    <3> QED
      BY <1>1, <2>0, <3>1
  <2>2. /\ Append(Line[l], t) \in Seq(Threads) /\ Len(Append(Line[l], t)) = n + 1
        /\ \A i \in 1..n : Append(Line[l], t)[i] = Line[l][i]
        /\ Append(Line[l], t)[n + 1] = t
    BY <2>1, AppendProperties
  <2>3. ASSUME NEW i \in 1..n PROVE Line'[l][i] = Line[l][i]
    <3>1. i \in 1..Len(Line'[l]) /\ current_ticket'[l] + i - 1 = current_ticket[l] + i - 1
      BY <1>1, <2>1
    <3> QED
      BY <1>2, <3>1, SamePlace, Zenon
  <2>4. Line'[l][n + 1] = t
    <3>1. PICK u \in Threads : /\ Line'[l][n + 1] = u /\ pc'[u] \in HasTicket /\ lk'[u] = l
                               /\ Tick(u)' = current_ticket'[l] + (n + 1) - 1
      <4>1. n + 1 \in 1..(next_ticket'[l] - current_ticket'[l])
        BY <1>1, <2>0, <2>1
      <4> QED
        BY <4>1, Zenon DEF FairInv, LineInv
    <3>2. Tick(u)' = Tick(t)' /\ pc'[t] \in HasTicket
      BY <1>1, <2>0, <2>1, <3>1 DEF HasTicket
    <3> QED
      BY <1>1, <2>0, <3>1, <3>2, Zenon DEF FairInv, IInv, TicketInv
  <2> HIDE DEF n
  <2>5. \A i \in 1..(n + 1) : Line'[l][i] = Append(Line[l], t)[i]
    BY <2>1, <2>2, <2>3, <2>4
  <2>6. Line'[l] = Append(Line[l], t)
    BY <2>1, <2>2, <2>5, SeqEqual, Zenon
  <2> QED
    BY <2>0, <2>6, Zenon
<1>5. Line' = [Line EXCEPT ![lk[t]] = Append(Line[lk[t]], t)]
  BY <1>1, <1>3, <1>4, LineFunction, Zenon
<1>6. Held' = Held
  BY <1>1, HeldUnchanged, Zenon
<1>7. \A m \in Locks : \A i \in 1..Len(Line[m]) : Line[m][i] # t
  BY <1>2 DEF FairInv, LineInv
<1> QED
  BY <1>5, <1>6, <1>7, Zenon DEF Fair!Join, Fair!InLine

\* Unlock's first step takes the front of the line away.
LEMMA BumpLeaves ==
  ASSUME FairInv, FairInv', NEW t \in Threads, BumpCurrent(t)
  PROVE  Fair!Leave(lk[t])
<1>1. /\ \A u \in Threads : u # t => pc'[u] = pc[u] /\ Tick(u)' = Tick(u)
      /\ pc[t] = "cs" /\ pc'[t] = "ulnext"
      /\ lk' = lk /\ lk[t] \in Locks /\ next_ticket' = next_ticket
  BY CohStable, Zenon DEF BumpCurrent, Goto, descVars, Tick, FairInv, IInv, TypeOK, LkInv
<1>2. /\ Tick(t) = current_ticket[lk[t]] /\ Tick(t) = ticket[Coh(t)][t]
      /\ Tick(t) < next_ticket[lk[t]] /\ pc[t] \in HasTicket
  BY <1>1, Zenon DEF FairInv, IInv, TicketInv, Tick, HasTicket, Waiting
<1>3. /\ current_ticket'[lk[t]] = current_ticket[lk[t]] + 1
      /\ \A l \in Locks : l # lk[t] => current_ticket'[l] = current_ticket[l]
      /\ \A l \in Locks : next_ticket[l] \in Nat /\ current_ticket[l] \in Nat
  BY <1>1, <1>2, CohType, Zenon DEF BumpCurrent, FairInv, IInv, TypeOK, Cohorts
<1>4. \A u \in Threads : u # t /\ pc[u] \in HasTicket => KeepsTicket(u)
  BY <1>1, Zenon DEF KeepsTicket
<1>5. ASSUME NEW l \in Locks, l # lk[t] PROVE Line'[l] = Line[l]
  BY <1>1, <1>3, <1>4, <1>5, SameLine, Zenon
<1>6. Line'[lk[t]] = Tail(Line[lk[t]])
  <2>1. PICK l \in Locks : l = lk[t]
    BY <1>1, Zenon
  <2> DEFINE n == Len(Line[l])
  <2>2. /\ Line[l] \in Seq(Threads) /\ n = next_ticket[l] - current_ticket[l]
        /\ Line'[l] \in Seq(Threads) /\ Len(Line'[l]) = next_ticket'[l] - current_ticket'[l]
    BY Zenon DEF FairInv, LineInv
  <2>3. n \in Nat /\ n > 0 /\ Len(Line'[l]) = n - 1
    <3>1. /\ next_ticket'[l] = next_ticket[l] /\ current_ticket'[l] = current_ticket[l] + 1
          /\ current_ticket[l] < next_ticket[l]
          /\ next_ticket[l] \in Nat /\ current_ticket[l] \in Nat
      BY <1>1, <1>2, <1>3, <2>1, Zenon
    <3> QED
      BY <2>2, <3>1
  <2>4. /\ Tail(Line[l]) \in Seq(Threads) /\ Len(Tail(Line[l])) = n - 1
        /\ \A i \in 1..(n - 1) : Tail(Line[l])[i] = Line[l][i + 1]
    <3>1. Line[l] # <<>>
      BY <2>2, <2>3, EmptySeq
    <3>2. /\ Tail(Line[l]) \in Seq(Threads) /\ Len(Tail(Line[l])) = Len(Line[l]) - 1
          /\ \A i \in 1..Len(Tail(Line[l])) : Tail(Line[l])[i] = Line[l][i + 1]
      BY <2>2, <3>1, HeadTailProperties, Zenon
    <3> QED
      BY <3>2, Zenon
  <2>5. ASSUME NEW i \in 1..(n - 1) PROVE Line'[l][i] = Line[l][i + 1]
    <3>1. i \in 1..Len(Line'[l]) /\ i + 1 \in 1..Len(Line[l])
      BY <2>3
    <3>2. current_ticket'[l] + i - 1 = current_ticket[l] + (i + 1) - 1
      BY <1>3, <2>1, <2>3
    <3>3. Line[l][i + 1] # t
      <4>1. PICK u \in Threads : Line[l][i + 1] = u /\ Tick(u) = current_ticket[l] + (i + 1) - 1
        BY <2>2, <3>1, Zenon DEF FairInv, LineInv
      <4>2. Tick(t) = current_ticket[l] /\ current_ticket[l] \in Nat
        BY <1>2, <1>3, <2>1, Zenon
      <4>3. current_ticket[l] + (i + 1) - 1 # current_ticket[l]
        BY <2>3, <4>2
      <4> QED
        BY <4>1, <4>2, <4>3, Zenon
    <3> QED
      BY <1>4, <3>1, <3>2, <3>3, SamePlace, Zenon
  <2> HIDE DEF n
  <2>6. Line'[l] = Tail(Line[l])
    <3>1. \A i \in 1..Len(Line'[l]) : Line'[l][i] = Tail(Line[l])[i]
      BY <2>3, <2>4, <2>5, Zenon
    <3> QED
      BY <2>2, <2>3, <2>4, <3>1, SeqEqual, Zenon
  <2> QED
    BY <2>1, <2>6, Zenon
<1>7. Line' = [Line EXCEPT ![lk[t]] = Tail(Line[lk[t]])]
  BY <1>1, <1>5, <1>6, LineFunction, Zenon
<1>8. \A u \in Threads : u # t /\ pc[u] = "cs" => lk[u] # lk[t]
  BY <1>1, InvExclusion, Zenon DEF FairInv, MutualExclusion
<1>9. Held[lk[t]] /\ Held' = [Held EXCEPT ![lk[t]] = FALSE]
  <2>1. \A l \in Locks : l # lk[t] =>
          ((\E u \in Threads : pc[u] = "cs" /\ lk[u] = l)
             <=> (\E u \in Threads : pc'[u] = "cs" /\ lk'[u] = l))
    BY <1>1, Zenon
  <2>2. ~(\E u \in Threads : pc'[u] = "cs" /\ lk'[u] = lk[t])
    BY <1>1, <1>8, Zenon
  <2>3. Held[lk[t]] /\ Held'[lk[t]] = FALSE
    BY <1>1, <2>2, Zenon DEF Held
  <2>4. \A l \in Locks : l # lk[t] => Held'[l] = Held[l]
    BY <2>1, Zenon DEF Held
  <2> QED
    BY <1>1, <2>3, <2>4, HeldFunction, Zenon
<1> QED
  BY <1>7, <1>9, Zenon DEF Fair!Leave

\* Lock returns to the thread at the front of the line.
LEMMA TurnEnters ==
  ASSUME FairInv, FairInv', NEW t \in Threads, AwaitTicket(t)
  PROVE  Fair!Enter(lk[t])
<1>1. /\ \A u \in Threads : u # t => pc'[u] = pc[u]
      /\ \A u \in Threads : Coh(u)' = Coh(u)
      /\ pc[t] = "waitturn" /\ pc'[t] = "cs" /\ ticket[Coh(t)][t] = current_ticket[lk[t]]
      /\ lk' = lk /\ lk[t] \in Locks /\ ticket' = ticket /\ tk' = tk
      /\ next_ticket' = next_ticket /\ current_ticket' = current_ticket
  BY CohStable, Zenon DEF AwaitTicket, Goto, lockVars, descVars, FairInv, IInv, TypeOK, LkInv
<1>2. \A u \in Threads : Tick(u)' = Tick(u) /\ (pc[u] \in HasTicket => KeepsTicket(u))
  BY <1>1, Zenon DEF Tick, KeepsTicket, HasTicket, Waiting
<1>3. Line' = Line
  <2>1. ASSUME NEW l \in Locks PROVE Line'[l] = Line[l]
    BY <1>1, <1>2, SameLine, Zenon
  <2> QED
    BY <2>1, LineFunction, Zenon
<1>4. /\ Tick(t) = current_ticket[lk[t]] /\ pc[t] \in HasTicket
      /\ current_ticket[lk[t]] < next_ticket[lk[t]]
  BY <1>1, Zenon DEF FairInv, IInv, TicketInv, Tick, HasTicket, Waiting
<1>5. Line[lk[t]] # <<>>
  <2>1. Len(Line[lk[t]]) = next_ticket[lk[t]] - current_ticket[lk[t]]
    BY <1>1, Zenon DEF FairInv, LineInv
  <2>2. next_ticket[lk[t]] \in Nat /\ current_ticket[lk[t]] \in Nat
    BY <1>1, Zenon DEF FairInv, IInv, TypeOK
  <2> QED
    BY <1>4, <2>1, <2>2, EmptySeq
<1>6. \A u \in Threads : pc[u] = "cs" => lk[u] # lk[t]
  <2> SUFFICES ASSUME NEW u \in Threads, pc[u] = "cs", lk[u] = lk[t] PROVE FALSE
    OBVIOUS
  <2>1. TicketInv
    BY Zenon DEF FairInv, IInv
  <2>2. pc[u] \in HasTicket
    BY Zenon DEF HasTicket, Waiting
  <2>3. Tick(u) = current_ticket[lk[u]]
    BY <2>1, Zenon DEF TicketInv
  <2>4. u = t
    BY <1>4, <2>1, <2>2, <2>3, Zenon DEF TicketInv
  <2> QED
    BY <1>1, <2>4, Zenon
<1>7. ~Held[lk[t]] /\ Held' = [Held EXCEPT ![lk[t]] = TRUE]
  <2>1. \A l \in Locks : l # lk[t] =>
          ((\E u \in Threads : pc[u] = "cs" /\ lk[u] = l)
             <=> (\E u \in Threads : pc'[u] = "cs" /\ lk'[u] = l))
    BY <1>1, Zenon
  <2>2. \E u \in Threads : pc'[u] = "cs" /\ lk'[u] = lk[t]
    BY <1>1, Zenon
  <2>3. ~Held[lk[t]] /\ Held'[lk[t]] = TRUE
    BY <1>1, <1>6, <2>2, Zenon DEF Held
  <2>4. \A l \in Locks : l # lk[t] => Held'[l] = Held[l]
    BY <2>1, Zenon DEF Held
  <2> QED
    BY <1>1, <2>3, <2>4, HeldFunction, Zenon
<1> QED
  BY <1>3, <1>5, <1>7, Zenon DEF Fair!Enter

\* An orderly step that neither enters nor leaves "cs" is invisible.
LEMMA OrderlyStutters ==
  ASSUME FairInv, FairInv', NEW t \in Threads, NEW q, Orderly(t, q), pc[t] # "cs", q # "cs"
  PROVE  UNCHANGED <<Line, Held>>
<1>1. /\ \A u \in Threads : u # t => pc'[u] = pc[u] /\ Untouched(u)
      /\ pc'[t] = q /\ next_ticket' = next_ticket /\ current_ticket' = current_ticket
  BY Zenon DEF Orderly, FairInv, IInv, TypeOK
<1>2. \A u \in Threads : pc[u] \in HasTicket => KeepsTicket(u)
  <2>1. \A u \in Threads : u # t => Tick(u)' = Tick(u) /\ lk'[u] = lk[u]
    BY <1>1, CohStable, Zenon DEF Tick, Untouched
  <2>2. pc[t] \in HasTicket => KeepsTicket(t)
    BY <1>1, Zenon DEF Orderly, KeepsTicket, HasTicket, Waiting, Queued, Eligible, Section, Drawing
  <2> QED
    BY <1>1, <2>1, <2>2, Zenon DEF KeepsTicket
<1>3. Line' = Line
  <2>1. ASSUME NEW l \in Locks PROVE Line'[l] = Line[l]
    BY <1>1, <1>2, SameLine, Zenon
  <2> QED
    BY <2>1, LineFunction, Zenon
<1>4. Held' = Held
  BY <1>1, HeldUnchanged, Zenon DEF Untouched
<1> QED
  BY <1>3, <1>4, Zenon

-----------------------------------------------------------------------------
\* Every step of FARLock is a step of FairLock, or invisible to it.
LEMMA FairStep ==
  ASSUME FairInv, FairInv', [Next]_vars
  PROVE  Fair!Next \/ UNCHANGED <<Line, Held>>
<1>0. IInv /\ \A t \in Threads : pc[t] # "idle" => lk[t] \in Locks
  BY Zenon DEF FairInv, IInv, LkInv
<1>1. ASSUME NEW t \in Threads,
             \/ \E l \in Locks : Lock(t, l)
             \/ LockSteps(t) \/ RaiseFlag(t) \/ (UnlockSteps(t) /\ ~BumpCurrent(t))
      PROVE  Fair!Next \/ UNCHANGED <<Line, Held>>
  <2>1. PICK q : Orderly(t, q) /\ Calm(t, q)
    BY <1>0, <1>1, QuietStep, Zenon
  <2>2. CASE q = "cs"
    <3>1. AwaitTicket(t) /\ lk[t] \in Locks
      BY <1>0, <2>1, <2>2, Zenon DEF Calm, AwaitTicket, Goto
    <3> QED
      BY <3>1, TurnEnters, Zenon DEF Fair!Next
  <2>3. CASE q # "cs"
    <3>1. pc[t] # "cs"
      BY <1>1, Zenon DEF Lock, LockSteps, UnlockSteps, SwapTail, LinkPrev, ReadPrevTicket, ReleasePrev,
         WaitToGetTicket, UnlockPetersons, PublishTicket, CheckNext, WakeNext, AwaitPredecessor,
         AwaitTicket, RaiseFlag, UnlockCheckNext, CasTail, AwaitReleasable, GrantNext, Goto
    <3> QED
      BY <2>1, <2>3, <3>1, OrderlyStutters, Zenon
  <2> QED
    BY <2>2, <2>3, Zenon
<1>2. ASSUME NEW t \in Threads, SetVictim(t) \/ SpinLocal(t) \/ SpinRemote(t)
      PROVE  UNCHANGED <<Line, Held>>
  <2>1. PICK q \in {"spin1", "spin2", "faa"} : Orderly(t, q)
    BY <1>0, <1>2, SpinOrderly, Zenon
  <2>2. pc[t] # "cs" /\ q # "cs"
    BY <1>2, <2>1, Zenon DEF SetVictim, SpinLocal, SpinRemote, Goto
  <2> QED
    BY <2>1, <2>2, OrderlyStutters, Zenon
<1>3. ASSUME NEW t \in Threads, FetchAddLocal(t) \/ FetchAddRemote(t)
      PROVE  Fair!Next \/ UNCHANGED <<Line, Held>>
  <2>1. pc[t] \in {"faa", "faawrite"} /\ lk[t] \in Locks
    BY <1>0, <1>3, Zenon DEF FetchAddLocal, FetchAddRemote, Goto
  <2>2. CASE Draws(t)
    BY <2>1, <2>2, DrawJoins, Zenon DEF Fair!Next
  <2>3. CASE Orderly(t, "faawrite")
    BY <2>1, <2>3, OrderlyStutters, Zenon
  <2> QED
    BY <1>0, <1>3, <2>2, <2>3, FetchAddDraws, Zenon
<1>4. ASSUME NEW t \in Threads, BumpCurrent(t) PROVE Fair!Next
  <2>1. lk[t] \in Locks
    BY <1>0, <1>4, Zenon DEF BumpCurrent, Goto
  <2> QED
    BY <1>4, <2>1, BumpLeaves, Zenon DEF Fair!Next
<1>5. CASE Done \/ UNCHANGED vars
  <2>1. \A u \in Threads : pc[u] \in HasTicket => KeepsTicket(u)
    BY <1>5, Zenon DEF Done, vars, KeepsTicket, Tick, Coh, CohortOf, IsLocal
  <2>2. ASSUME NEW l \in Locks PROVE Line'[l] = Line[l]
    BY <1>5, <2>1, SameLine, Zenon DEF Done, vars
  <2>3. Held' = Held
    BY <1>5, HeldUnchanged, Zenon DEF Done, vars
  <2> QED
    BY <2>2, <2>3, LineFunction, Zenon
<1>6. ASSUME NEW t \in Threads, LockLocal(t) \/ LockRemote(t)
      PROVE  Fair!Next \/ UNCHANGED <<Line, Held>>
  BY <1>1, <1>2, <1>3, <1>6, Zenon
     DEF LockLocal, LockRemote, LockPetersonsLocal, LockPetersonsRemote
<1>7. ASSUME NEW t \in Threads, UnlockLocal(t) \/ UnlockRemote(t)
      PROVE  Fair!Next \/ UNCHANGED <<Line, Held>>
  BY <1>1, <1>4, <1>7, Zenon DEF UnlockLocal, UnlockRemote
<1> QED
  BY <1>1, <1>5, <1>6, <1>7, Zenon DEF Next

\* Before the first draw every line is empty and no lock is held.
LEMMA FairInit == Init => Fair!Init
<1> SUFFICES ASSUME Init PROVE Fair!Init
  OBVIOUS
<1>1. ASSUME NEW l \in Locks PROVE Line[l] = <<>>
  BY DEF Init, Line
<1>2. ASSUME NEW l \in Locks PROVE Held[l] = FALSE
  BY Zenon DEF Init, Held
<1> QED
  BY <1>1, <1>2, LineFunction, HeldFunction, Zenon DEF Fair!Init

\* ImplementsFairLock: across cohorts and processors, who draws a ticket first
\* enters first, and only the front of the line holds the lock.
THEOREM FARLockIsFair == Spec => ImplementsFairLock
<1>1. IInv /\ OrderInv => FairInv
  BY LineExact, Zenon DEF FairInv
<1>2. FairInv /\ FairInv' /\ [Next]_vars => [Fair!Next]_(Fair!fairVars)
  BY FairStep, Zenon DEF Fair!fairVars
<1> QED
  BY <1>1, <1>2, FairInit, Invariance, OrderInvariance, PTL
     DEF Spec, ImplementsFairLock, Fair!Spec

-----------------------------------------------------------------------------
\* IsLocked.

\* What a call of IsLocked knows after its first load, and what the history of
\* the call records: the descriptor it found belongs to a thread that uses the
\* lock by that cohort's path, and if it found none, no thread that has been
\* there since the call began takes that path.
CallInv ==
  /\ asked \in Locks \cup {None} /\ staying \subseteq Threads
  /\ asked # None => staying \subseteq Users(asked)
  /\ loaded # None =>
       /\ asked \in Locks /\ loaded \in Cohorts /\ got \in Threads \cup {None}
       /\ got # None => used /\ CohortOf(got, asked) = loaded
       /\ got = None => \A t \in staying : CohortOf(t, asked) # loaded

\* What a load of a tail finds.
LEMMA TailLoad ==
  ASSUME IInv, NEW l \in Locks, NEW c \in Cohorts
  PROVE  /\ tail[l][c] \in Threads \cup {None}
         /\ tail[l][c] # None => tail[l][c] \in Users(l) /\ CohortOf(tail[l][c], l) = c
         /\ tail[l][c] = None => \A t \in Users(l) : CohortOf(t, l) # c
<1>1. tail[l][c] \in Threads \cup {None}
  <2>1. tail \in [Locks -> [Cohorts -> Threads \cup {None}]]
    BY Zenon DEF IInv, TypeOK
  <2> QED
    BY <2>1, Zenon
<1>2. ASSUME NEW t \in Threads, tail[l][c] = t
      PROVE  t \in Users(l) /\ CohortOf(t, l) = c
  <2>1. TailInv
    BY Zenon DEF IInv
  <2>2. InQ(t) /\ lk[t] = l /\ Coh(t) = c
    BY <1>2, <2>1, Zenon DEF TailInv
  <2> QED
    BY <2>2, Zenon DEF InQ, Users, Coh
<1>3. ASSUME tail[l][c] = None, NEW t \in Users(l)
      PROVE  CohortOf(t, l) # c
  <2>1. TailInv
    BY Zenon DEF IInv
  <2>2. t \in Threads /\ InQ(t) /\ lk[t] = l /\ Coh(t) = CohortOf(t, l)
    BY Zenon DEF InQ, Users, Coh
  <2>3. ~(InQ(t) /\ lk[t] = l /\ Coh(t) = c)
    BY <1>3, <2>1, <2>2, Zenon DEF TailInv
  <2> QED
    BY <2>2, <2>3, Zenon
<1>4. tail[l][c] # None => tail[l][c] \in Users(l) /\ CohortOf(tail[l][c], l) = c
  BY <1>1, <1>2, Zenon
<1> QED
  BY <1>1, <1>3, <1>4, Zenon

\* Before a call nothing is known.
LEMMA CallInit == InitCall => CallInv
BY Zenon DEF InitCall, CallInv

\* A step of a thread only removes threads from those that stayed.
LEMMA CallMeanwhile == CallInv /\ Meanwhile => CallInv'
<1> SUFFICES ASSUME CallInv, Meanwhile PROVE CallInv'
  OBVIOUS
<1>1. /\ asked' = asked /\ loaded' = loaded /\ got' = got /\ used' = used
      /\ staying' = staying \cap Users(asked)'
  BY Zenon DEF Meanwhile
<1>2. CohortOf(got, asked)' = CohortOf(got, asked)
      /\ \A t : CohortOf(t, asked)' = CohortOf(t, asked)
  BY <1>1, Zenon DEF CohortOf, IsLocal
<1> QED
  BY <1>1, <1>2, Zenon DEF CallInv

\* The steps of IsLocked itself.
LEMMA CallSteps ==
  ASSUME IInv, CallInv, UNCHANGED vars,
         \/ \E l \in Locks : IsLocked(l)
         \/ \E c \in Cohorts : LoadTail(c)
         \/ LoadOtherTail
  PROVE  CallInv'
<1>1. \A l : Users(l)' = Users(l)
  BY Zenon DEF vars, Users
<1>2. ASSUME NEW l \in Locks, IsLocked(l) PROVE CallInv'
  <2>1. loaded = None
    BY <1>2, NoneAssumption, Zenon DEF CallInv, IsLocked
  <2> QED
    BY <1>1, <1>2, <2>1, Zenon DEF CallInv, IsLocked, Users
<1>3. ASSUME NEW c \in Cohorts, LoadTail(c) PROVE CallInv'
  <2>1. /\ asked \in Locks /\ asked' = asked /\ staying' = staying /\ loaded' = c
        /\ got' = tail[asked][c] /\ used' = (Users(asked) # {})
        /\ staying \subseteq Users(asked) /\ staying \subseteq Threads
    BY <1>3, Zenon DEF LoadTail, CallInv
  <2>2. /\ got' \in Threads \cup {None}
        /\ got' # None => used' /\ CohortOf(got', asked) = c
        /\ got' = None => \A t \in staying : CohortOf(t, asked) # c
    BY <2>1, TailLoad, Zenon
  <2>3. CohortOf(got, asked)' = CohortOf(got', asked)
        /\ \A t : CohortOf(t, asked)' = CohortOf(t, asked)
    BY <2>1, Zenon DEF CohortOf, IsLocal
  <2> QED
    BY <1>1, <2>1, <2>2, <2>3, Zenon DEF CallInv
<1>4. LoadOtherTail => CallInv'
  BY Zenon DEF LoadOtherTail, CallInv
<1> QED
  BY <1>2, <1>3, <1>4, Zenon

\* What the answer says, given what the first load found.
LEMMA CallAnswers == IInv /\ CallInv => IsLockedAnswer
<1> SUFFICES ASSUME IInv, CallInv, loaded # None
             PROVE  /\ Answer => used \/ Users(asked) # {}
                    /\ ~Answer => staying = {} \/ <<Got("remote"), Got("local")>> \in SameWord
  BY Zenon DEF IsLockedAnswer
<1>1. /\ asked \in Locks /\ loaded \in Cohorts /\ got \in Threads \cup {None}
      /\ got # None => used /\ CohortOf(got, asked) = loaded
      /\ got = None => \A t \in staying : CohortOf(t, asked) # loaded
      /\ staying \subseteq Users(asked)
  BY NoneAssumption, Zenon DEF CallInv
<1>2. PICK c \in Cohorts : c # loaded /\ \A d \in Cohorts : d = c \/ d = loaded
  BY <1>1, Zenon DEF Cohorts
<1>3. /\ tail[asked][c] # None => tail[asked][c] \in Users(asked) /\ CohortOf(tail[asked][c], asked) = c
      /\ tail[asked][c] = None => \A t \in Users(asked) : CohortOf(t, asked) # c
  BY <1>1, TailLoad, Zenon
<1>4. Got(loaded) = got /\ Got(c) = tail[asked][c]
  BY <1>2, Zenon DEF Got
<1>5. \/ Got("remote") = got /\ Got("local") = tail[asked][c]
      \/ Got("local") = got /\ Got("remote") = tail[asked][c]
  BY <1>1, <1>2, <1>4, Zenon DEF Cohorts
<1>6. got = tail[asked][c] => got = None /\ tail[asked][c] = None
  BY <1>1, <1>2, <1>3, Zenon
<1>7. got = None /\ tail[asked][c] = None => staying = {}
  <2>1. \A t : CohortOf(t, asked) \in Cohorts
    BY Zenon DEF CohortOf, Cohorts
  <2> QED
    BY <1>1, <1>2, <1>3, <2>1, Zenon
<1>8. ASSUME Answer PROVE used \/ Users(asked) # {}
  <2>1. got # tail[asked][c]
    <3>1. Got("remote") # Got("local")
      BY <1>8, Zenon DEF Answer
    <3> QED
      BY <1>5, <3>1
  <2>2. CASE got # None
    BY <1>1, <2>2, Zenon
  <2>3. CASE got = None
    <3>1. tail[asked][c] \in Users(asked)
      BY <1>3, <2>1, <2>3, Zenon
    <3> QED
      BY <3>1, Zenon
  <2> QED
    BY <2>2, <2>3, Zenon
<1> QED
  BY <1>5, <1>6, <1>7, <1>8, Zenon DEF Answer

\* A call of IsLocked among any number of Lock and Unlock calls: true is
\* answered only if a thread uses the lock at one of the two loads, false only
\* if none uses it throughout the call or two descriptors have equal addresses.
THEOREM IsLockedAnswers == SpecWithCall => []IsLockedAnswer
<1>1. SpecWithCall => Spec
  <2>1. [NextWithCall]_<<vars, call>> => [Next]_vars
    BY Zenon DEF NextWithCall
  <2> QED
    BY <2>1, PTL DEF SpecWithCall, Spec
<1>2. IInv /\ CallInv /\ [NextWithCall]_<<vars, call>> => CallInv'
  <2> SUFFICES ASSUME IInv, CallInv, [NextWithCall]_<<vars, call>> PROVE CallInv'
    OBVIOUS
  <2>1. CASE Meanwhile
    BY <2>1, CallMeanwhile, Zenon
  <2>2. CASE UNCHANGED <<vars, call>>
    <3>1. (\A l : Users(l)' = Users(l)) /\ asked' = asked /\ loaded' = loaded
          /\ got' = got /\ used' = used /\ staying' = staying
      BY <2>2, Zenon DEF vars, call, Users
    <3>2. CohortOf(got, asked)' = CohortOf(got, asked)
          /\ \A t : CohortOf(t, asked)' = CohortOf(t, asked)
      BY <3>1, Zenon DEF CohortOf, IsLocal
    <3> QED
      BY <3>1, <3>2, Zenon DEF CallInv
  <2> QED
    BY <2>1, <2>2, CallSteps, Zenon DEF NextWithCall
<1> QED
  BY <1>1, <1>2, CallInit, CallAnswers, Invariance, PTL DEF SpecWithCall
=============================================================================
