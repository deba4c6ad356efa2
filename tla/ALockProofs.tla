---------------------------- MODULE ALockProofs ----------------------------
(***************************************************************************)
(* ALock is a mutual exclusion lock, and neither cohort overtakes the other *)
(* more often than its budget: for every set of threads and every budget.  *)
(*                                                                         *)
(* MutualExclusion needs the shape of the queues (QueueInv, TailInv,       *)
(* PlaceInv: only a queue's first thread is past the wait for its budget), *)
(* the range of the budgets, and Peterson's argument: a cohort that has    *)
(* the lock, or whose first thread has been handed it, finds the other     *)
(* cohort without it and, if it races, as the victim.  BoundedBypass needs *)
(* an account: what a waiting thread has been passed by so far, plus the   *)
(* entries its opponents may still make before they must give way          *)
(* (Credit), is never more than their budget.                              *)
(***************************************************************************)
EXTENDS ALock, TLAPS

\* A leaf that names no prover is tried with SMT, then with Zenon.
USE SMTT(30), ZenonT(30)

-----------------------------------------------------------------------------
(***************************************************************************)
(* The invariant                                                           *)
(***************************************************************************)
\* Program counters, those of Peterson's loop, and those only the first thread of a
\* queue can have.
PCs == {"idle", "swap", "link", "spin", "setvictim", "readtail", "readvictim",
        "cs", "castail", "waitnext", "handover"}
Racing == {"readtail", "readvictim"}
Front == {"setvictim"} \cup Racing \cup Owning
\* t is in its cohort's queue.
InQ(t) == pc[t] \notin {"idle", "swap"}

\* The type of every variable.
TypeOK ==
  /\ tail \in [Cohorts -> Threads \cup {None}]
  /\ victim \in {0} \cup Cohorts
  /\ budget \in [Threads -> Int]
  /\ next \in [Threads -> Threads \cup {None}]
  /\ pc \in [Threads -> PCs]
  /\ prev \in [Threads -> Threads \cup {None}]
  /\ queue \in [Cohorts -> Seq(Threads)]
  /\ bypass \in [Threads -> Nat]

\* A queue holds the threads of its cohort between the swap of the tail and the
\* end of Unlock, each of them once.
QueueInv ==
  /\ \A c \in Cohorts : \A i \in 1..Len(queue[c]) :
       /\ InQ(queue[c][i]) /\ Cohort(queue[c][i]) = c
       /\ \A j \in 1..Len(queue[c]) : queue[c][i] = queue[c][j] => i = j
  /\ \A t \in Threads : InQ(t) => \E i \in 1..Len(queue[Cohort(t)]) : queue[Cohort(t)][i] = t

\* The tail is the last thread of the queue.
TailInv ==
  \A c \in Cohorts : tail[c] = IF queue[c] = <<>> THEN None ELSE queue[c][Len(queue[c])]

\* The i-th thread of a queue: the first has been handed a budget or took one,
\* the others link themselves or wait with none; next_ is the successor, once it
\* has linked itself.
Placed(c, i) ==
  LET t == queue[c][i] IN
  /\ i = 1 => pc[t] # "link" /\ (pc[t] = "spin" => budget[t] >= 0)
  /\ i > 1 => pc[t] \in {"link", "spin"} /\ budget[t] = -1
  /\ pc[t] = "link" => prev[t] = queue[c][i - 1]
  /\ pc[t] = "spin" /\ i > 1 => next[queue[c][i - 1]] = t
  /\ next[t] # None => i < Len(queue[c]) /\ next[t] = queue[c][i + 1] /\ pc[next[t]] = "spin"
  /\ pc[t] = "handover" => next[t] # None

\* Every thread is placed, and one that has yet to swap has a reset descriptor.
PlaceInv ==
  /\ \A t \in Threads : pc[t] = "swap" => budget[t] = -1 /\ next[t] = None
  /\ \A c \in Cohorts : \A i \in 1..Len(queue[c]) : Placed(c, i)

\* A budget is at most its cohort's; an owner has some left, and Peterson's
\* algorithm is run with all of it or, to reacquire, with nothing.
BudgetInv ==
  \A t \in Threads :
    /\ InQ(t) => budget[t] <= InitialBudget(Cohort(t))
    /\ pc[t] \in Owning => budget[t] >= 1
    /\ pc[t] \in {"setvictim"} \cup Racing => budget[t] \in {0, InitialBudget(Cohort(t))}

\* t owns the lock, or it has been handed to t, which has yet to see it.
Has(t) == pc[t] \in Owning \/ (pc[t] = "spin" /\ budget[t] > 0)

\* Peterson's algorithm: while one cohort has the lock the other does not, and
\* a thread of the other that races is the victim.
PetersonInv ==
  /\ \A t \in Threads : pc[t] \in Racing => victim \in Cohorts
  /\ \A t, u \in Threads : Has(t) /\ Cohort(u) # Cohort(t) =>
       ~Has(u) /\ (pc[u] \in Racing => victim = Cohort(u))

\* The invariant that implies MutualExclusion.
IInv == TypeOK /\ QueueInv /\ TailInv /\ PlaceInv /\ BudgetInv /\ PetersonInv

\* How often u's cohort may still enter before it must give way to the other.
Credit(u) ==
  IF pc[u] \in Owning THEN budget[u] - 1
  ELSE IF pc[u] = "spin" /\ budget[u] > 0 THEN budget[u]
  ELSE IF pc[u] \in Racing /\ victim # Cohort(u) THEN InitialBudget(Cohort(u))
  ELSE 0

\* A thread in Peterson's loop has been passed by, and may still be passed by,
\* together at most as often as the other cohort's budget allows.
BypassInv ==
  /\ \A t \in Threads : pc[t] \notin Racing => bypass[t] = 0
  /\ \A t, u \in Threads : pc[t] \in Racing /\ Cohort(u) = Other(t) =>
       bypass[t] + Credit(u) <= InitialBudget(Other(t))
  /\ \A t \in Threads : bypass[t] <= InitialBudget(Other(t))

\* The invariant of all the proofs.
Inv == IInv /\ BypassInv

-----------------------------------------------------------------------------
(***************************************************************************)
(* Facts about constants, sequences and the queues                         *)
(***************************************************************************)


\* There are two cohorts, and a budget is positive.
LEMMA Constants ==
  /\ Cohorts = {1, 2} /\ None \notin Threads
  /\ \A t \in Threads : /\ Cohort(t) \in Cohorts /\ Other(t) \in Cohorts /\ Other(t) # Cohort(t)
                        /\ \A c \in Cohorts : c # Cohort(t) => c = Other(t)
  /\ \A c \in Cohorts : InitialBudget(c) \in Nat /\ InitialBudget(c) >= 1
BY ALockAssumption DEF Cohorts, LOCAL_VICTIM, REMOTE_VICTIM, Cohort, Other, InitialBudget, Threads

\* A queue's first thread leaves behind the queue's tail.
LEMMA WithoutHead ==
  ASSUME NEW S, NEW q \in Seq(S), Len(q) >= 1, NEW t, q[1] = t,
         \A i \in 1..Len(q) : q[i] = t => i = 1
  PROVE  Without(q, t) = Tail(q)
<1> DEFINE i == CHOOSE i \in 1..Len(q) : q[i] = t
<1>1. i = 1
  OBVIOUS
<1>2. Without(q, t) = SubSeq(q, 1, i - 1) \o SubSeq(q, i + 1, Len(q))
  BY Zenon DEF Without
<1> HIDE DEF i
<1>3. i - 1 = 0 /\ i + 1 = 2
  BY <1>1
<1>4. SubSeq(q, 1, 0) \o SubSeq(q, 2, Len(q)) = Tail(q)
  OBVIOUS
<1> QED
  BY <1>2, <1>3, <1>4, Zenon

\* A thread past the wait for its budget is the first of its queue.
LEMMA Heads ==
  ASSUME IInv, NEW t \in Threads, pc[t] \in Front \/ (pc[t] = "spin" /\ budget[t] # -1)
  PROVE  /\ InQ(t) /\ queue[Cohort(t)] \in Seq(Threads) /\ Len(queue[Cohort(t)]) \in Nat
         /\ Len(queue[Cohort(t)]) >= 1 /\ queue[Cohort(t)][1] = t
<1>1. InQ(t)
  BY Zenon DEF InQ, Front, Racing, Owning
<1>2. PICK i \in 1..Len(queue[Cohort(t)]) : queue[Cohort(t)][i] = t
  BY <1>1, Zenon DEF IInv, QueueInv
<1>3. queue[Cohort(t)] \in Seq(Threads) /\ Cohort(t) \in Cohorts
  BY Constants, Zenon DEF IInv, TypeOK
<1>4. ~(i > 1)
  BY <1>2, <1>3 DEF IInv, PlaceInv, Placed, Front, Racing, Owning
<1> QED
  BY <1>1, <1>2, <1>3, <1>4

\* So there is one such thread in a cohort.
LEMMA OneHead ==
  ASSUME IInv, NEW t \in Threads, NEW u \in Threads, Cohort(t) = Cohort(u),
         pc[t] \in Front \/ (pc[t] = "spin" /\ budget[t] # -1),
         pc[u] \in Front \/ (pc[u] = "spin" /\ budget[u] # -1)
  PROVE  t = u
BY Heads, Zenon

\* The first of a queue keeps the queues in shape while it moves on, whatever
\* becomes of its own budget.
LEMMA HeadFrame ==
  ASSUME IInv, NEW t \in Threads, NEW p \in Front,
         pc[t] \in Front \/ (pc[t] = "spin" /\ budget[t] # -1),
         pc' = [pc EXCEPT ![t] = p], UNCHANGED <<tail, next, prev, queue>>,
         \A u \in Threads : u # t => budget'[u] = budget[u],
         p = "handover" => next[t] # None
  PROVE  QueueInv' /\ TailInv' /\ PlaceInv'
<1> DEFINE d == Cohort(t)
<1>1. InQ(t) /\ d \in Cohorts /\ queue[d] \in Seq(Threads) /\ Len(queue[d]) >= 1 /\ queue[d][1] = t
  BY Heads, Constants, Zenon
<1>2. pc'[t] = p /\ \A u \in Threads : u # t => pc'[u] = pc[u]
  BY Zenon DEF IInv, TypeOK
<1>3. p \notin {"idle", "swap", "link", "spin"}
  BY Zenon DEF Front, Racing, Owning
<1>4. \A u \in Threads : InQ(u)' = InQ(u)
  BY <1>1, <1>2, <1>3, Zenon DEF InQ
<1>5. \A c \in Cohorts : \A i \in 1..Len(queue[c]) : queue[c][i] \in Threads
  BY DEF IInv, TypeOK
<1>6. QueueInv'
  BY <1>4, <1>5, Zenon DEF IInv, QueueInv
<1>7. TailInv'
  BY Zenon DEF IInv, TailInv
<1>8. \A c \in Cohorts : \A i \in 1..Len(queue[c]) : queue[c][i] = t => i = 1 /\ c = d
  BY <1>1 DEF IInv, QueueInv
<1>9. PlaceInv'
  <2> SUFFICES ASSUME NEW c \in Cohorts, NEW i \in 1..Len(queue[c]) PROVE Placed(c, i)'
    BY <1>2, <1>3, Zenon DEF PlaceInv, IInv
  <2> DEFINE u == queue[c][i]
  <2>1. u \in Threads /\ Len(queue[c]) \in Nat
    BY <1>5 DEF IInv, TypeOK
  <2>2. Placed(c, i)
    BY Zenon DEF IInv, PlaceInv
  <2>3. next[u] # None => next[u] \in Threads /\ next[u] # t
    BY <1>5, <1>8, <2>1, <2>2 DEF Placed
  <2>4. CASE u = t
    BY <1>2, <1>3, <1>8, <2>2, <2>3, <2>4 DEF Placed
  <2>5. CASE u # t
    BY <1>2, <2>1, <2>2, <2>3, <2>5, Zenon DEF Placed
  <2> QED
    BY <2>4, <2>5, Zenon
<1> QED
  BY <1>6, <1>7, <1>9, Zenon

-----------------------------------------------------------------------------
(***************************************************************************)
(* Every step preserves the invariant                                      *)
(***************************************************************************)
\* Credit is a number, before and after a step.
LEMMA CreditType ==
  /\ TypeOK => \A u \in Threads : Credit(u) \in Int
  /\ TypeOK' => \A u \in Threads : Credit(u)' \in Int
<1>1. \A u \in Threads : InitialBudget(Cohort(u)) \in Int
  BY Constants
<1>2. TypeOK => \A u \in Threads : budget[u] \in Int
  BY Zenon DEF TypeOK
<1>3. TypeOK' => \A u \in Threads : budget'[u] \in Int
  BY Zenon DEF TypeOK
<1> QED
  BY <1>1, <1>2, <1>3 DEF Credit

\* An owner that moves on inside Unlock preserves the invariant.
LEMMA OwnerMoves ==
  ASSUME Inv, NEW t \in Threads, NEW p \in Owning, pc[t] \in Owning,
         pc' = [pc EXCEPT ![t] = p], UNCHANGED <<tail, victim, budget, next, prev, queue, bypass>>,
         p = "handover" => next[t] # None
  PROVE  Inv'
<1>1. pc'[t] = p /\ \A u \in Threads : u # t => pc'[u] = pc[u]
  BY Zenon DEF Inv, IInv, TypeOK
<1>2. QueueInv' /\ TailInv' /\ PlaceInv'
  BY HeadFrame, Zenon DEF Inv, Front
<1>3. TypeOK'
  BY Zenon DEF Inv, IInv, TypeOK, Owning, PCs
<1>4. BudgetInv'
  BY <1>1, Zenon DEF Inv, IInv, BudgetInv, InQ, Owning, Racing
<1>5. \A u \in Threads : /\ Has(u)' <=> Has(u)
                         /\ pc'[u] \in Racing <=> pc[u] \in Racing
                         /\ Credit(u)' = Credit(u)
  BY <1>1, Zenon DEF Has, Credit, Owning, Racing
<1>6. PetersonInv'
  BY <1>5, Zenon DEF Inv, IInv, PetersonInv
<1>7. BypassInv'
  BY <1>5, Zenon DEF Inv, BypassInv
<1> QED
  BY <1>2, <1>3, <1>4, <1>6, <1>7, Zenon DEF Inv, IInv

\* ReadNext, AwaitNext and a failed compare-and-swap of the tail are such moves.
LEMMA UnlockMoves ==
  ASSUME Inv, NEW t \in Threads, ReadNext(t) \/ AwaitNext(t) \/ (CasTail(t) /\ tail[Cohort(t)] # t)
  PROVE  Inv'
<1>1. /\ pc[t] \in Owning /\ UNCHANGED <<tail, victim, budget, next, prev, queue, bypass>>
      /\ \E p \in Owning : pc' = [pc EXCEPT ![t] = p] /\ (p = "handover" => next[t] # None)
  BY Zenon DEF ReadNext, AwaitNext, CasTail, Goto, Owning
<1> QED
  BY <1>1, OwnerMoves, Zenon

\* A thread that makes its cohort the victim has not been passed by yet, and its
\* opponents may use no more than their budget.
LEMMA SetVictimInv ==
  ASSUME Inv, NEW t \in Threads, SetVictim(t)
  PROVE  Inv'
<1>1. /\ pc[t] = "setvictim" /\ pc' = [pc EXCEPT ![t] = "readtail"] /\ victim' = Cohort(t)
      /\ bypass' = [bypass EXCEPT ![t] = 0] /\ UNCHANGED <<tail, budget, next, prev, queue>>
  BY Zenon DEF SetVictim, Goto
<1>2. pc'[t] = "readtail" /\ \A u \in Threads : u # t => pc'[u] = pc[u] /\ bypass'[u] = bypass[u]
  BY <1>1, Zenon DEF Inv, IInv, TypeOK, BypassInv
<1>3. QueueInv' /\ TailInv' /\ PlaceInv'
  BY <1>1, HeadFrame, Zenon DEF Inv, Front, Racing
<1>4. TypeOK'
  BY <1>1, Constants, Zenon DEF Inv, IInv, TypeOK, PCs
<1>5. BudgetInv'
  BY <1>1, <1>2, Zenon DEF Inv, IInv, BudgetInv, InQ, Owning, Racing
<1>6. \A u \in Threads : (Has(u)' <=> Has(u)) /\ (pc'[u] \in Racing => u = t \/ pc[u] \in Racing)
  BY <1>1, <1>2, Zenon DEF Has, Owning, Racing
<1>7. \A u \in Threads : pc[u] \in Racing \/ Has(u) => Cohort(u) # Cohort(t)
  BY <1>1, OneHead DEF Inv, Front, Racing, Has, Owning
<1>8. PetersonInv'
  BY <1>1, <1>6, <1>7, Constants DEF Inv, IInv, PetersonInv
<1>9. bypass'[t] = 0
  BY <1>1, Zenon DEF Inv, IInv, TypeOK
<1>10. \A u \in Threads : Cohort(u) = Other(t) => Credit(u)' <= InitialBudget(Cohort(u))
  <2> SUFFICES ASSUME NEW u \in Threads, Cohort(u) = Other(t)
               PROVE  Credit(u)' <= InitialBudget(Cohort(u))
    OBVIOUS
  <2>1. u # t /\ budget'[u] = budget[u] /\ pc'[u] = pc[u]
    BY <1>1, <1>2, Constants, Zenon
  <2>2. InitialBudget(Cohort(u)) \in Nat /\ budget[u] \in Int
    BY Constants, Zenon DEF Inv, IInv, TypeOK
  <2>3. pc[u] \in Owning \/ pc[u] = "spin" => budget[u] <= InitialBudget(Cohort(u))
    BY Zenon DEF Inv, IInv, BudgetInv, InQ, Owning
  <2> QED
    BY <2>1, <2>2, <2>3 DEF Credit
<1>11. \A u \in Threads : Cohort(u) = Cohort(t) => Credit(u)' <= Credit(u)
  <2> SUFFICES ASSUME NEW u \in Threads, Cohort(u) = Cohort(t) PROVE Credit(u)' <= Credit(u)
    OBVIOUS
  <2>1. InitialBudget(Cohort(u)) \in Nat /\ budget[u] \in Int
    BY Constants, Zenon DEF Inv, IInv, TypeOK
  <2>2. pc'[u] \in Racing => u = t
    BY <1>6, <1>7, Zenon
  <2> QED
    BY <1>1, <1>2, <2>1, <2>2 DEF Credit, Racing, Owning
<1>12. BypassInv'
  <2>1. ASSUME NEW a \in Threads, NEW b \in Threads, pc'[a] \in Racing, Cohort(b) = Other(a)
        PROVE  bypass'[a] + Credit(b)' <= InitialBudget(Other(a))
    <3>1. CASE a = t
      BY <1>4, <1>9, <1>10, <2>1, <3>1, CreditType, Constants
    <3>2. CASE a # t
      <4>1. pc[a] \in Racing /\ bypass'[a] = bypass[a] /\ Cohort(a) # Cohort(t)
        BY <1>2, <1>6, <1>7, <2>1, <3>2, Zenon
      <4>2. Cohort(b) = Cohort(t)
        BY <2>1, <4>1, Constants, Zenon
      <4>3. bypass[a] + Credit(b) <= InitialBudget(Other(a))
        BY <2>1, <4>1, Zenon DEF Inv, BypassInv
      <4>4. bypass[a] \in Int /\ InitialBudget(Other(a)) \in Int
        <5>1. Other(a) \in Cohorts
          BY Constants, Zenon
        <5>2. bypass \in [Threads -> Nat]
          BY Zenon DEF Inv, IInv, TypeOK
        <5> QED
          BY <5>1, <5>2, Constants
      <4>5. Credit(b) \in Int /\ Credit(b)' \in Int
        BY <1>4, CreditType, Zenon DEF Inv, IInv
      <4> QED
        BY <1>11, <4>1, <4>2, <4>3, <4>4, <4>5
    <3> QED
      BY <3>1, <3>2, Zenon
  <2>2. \A a \in Threads : bypass'[a] <= InitialBudget(Other(a)) /\ (pc'[a] \notin Racing => bypass'[a] = 0)
    BY <1>2, <1>9, Constants DEF Inv, BypassInv, Racing
  <2> QED
    BY <2>1, <2>2, Zenon DEF BypassInv
<1> QED
  BY <1>3, <1>4, <1>5, <1>8, <1>12, Zenon DEF Inv, IInv

\* Every return of Lock: no thread of the other cohort has the lock, one that
\* races is the victim, and the entry is paid for by the credit of the one that
\* enters.
LEMMA EnterInv ==
  ASSUME Inv, NEW t \in Threads, NEW from, Enter(t, from),
         from \in Racing \/ (from = "spin" /\ budget[t] > 0),
         UNCHANGED <<tail, victim, next, prev, queue>>,
         budget' \in [Threads -> Int], \A u \in Threads : u # t => budget'[u] = budget[u],
         budget'[t] \in 1..InitialBudget(Cohort(t)),
         \A u \in Threads : Cohort(u) = Other(t) =>
           ~Has(u) /\ (pc[u] \in Racing => victim = Cohort(u) /\ Credit(t) >= budget'[t])
  PROVE  Inv'
<1>1. /\ pc[t] = from /\ pc' = [pc EXCEPT ![t] = "cs"]
      /\ bypass' = [u \in Threads |->
           CASE u = t -> 0
             [] Cohort(u) = Other(t) /\ pc[u] \in {"readtail", "readvictim"} ->
                  IF bypass[u] > InitialBudget(Cohort(t)) THEN bypass[u] ELSE bypass[u] + 1
             [] OTHER -> bypass[u]]
  BY Zenon DEF Enter, Goto
<1>2. pc'[t] = "cs" /\ \A u \in Threads : u # t => pc'[u] = pc[u]
  BY <1>1, Zenon DEF Inv, IInv, TypeOK
<1>3. IInv /\ bypass \in [Threads -> Nat] /\ budget \in [Threads -> Int]
  BY Zenon DEF Inv, IInv, TypeOK
<1>4. pc[t] \in Front \/ (pc[t] = "spin" /\ budget[t] # -1)
  BY <1>1, <1>3 DEF Front
<1>5. \A u \in Threads : u # t /\ Cohort(u) = Cohort(t) =>
        pc[u] \notin Front /\ (pc[u] = "spin" => budget[u] = -1)
  BY <1>3, <1>4, OneHead, Zenon
<1>6. QueueInv' /\ TailInv' /\ PlaceInv'
  BY <1>1, <1>3, <1>4, HeadFrame, Zenon DEF Front, Owning
<1>7. \A u \in Threads : bypass'[u] \in Nat /\ bypass'[u] <= bypass[u] + 1
  BY <1>1, <1>3
<1>8. \A u \in Threads : /\ ~(Cohort(u) = Other(t) /\ pc[u] \in Racing) => bypass'[u] = bypass[u] \/ bypass'[u] = 0
                         /\ u = t => bypass'[u] = 0
  BY <1>1, Constants, Zenon DEF Racing
<1>9. TypeOK'
  <2>1. bypass' \in [Threads -> Nat]
    BY <1>1, <1>7, Zenon
  <2> QED
    BY <1>1, <2>1, Zenon DEF Inv, IInv, TypeOK, PCs
<1>10. BudgetInv'
  BY <1>2, <1>3, Constants DEF IInv, BudgetInv, InQ, Owning, Racing
<1>11. \A u \in Threads : u # t => (Has(u)' <=> Has(u)) /\ Credit(u)' = Credit(u)
  BY <1>2, Zenon DEF Has, Credit
<1>12. \A u \in Threads : u # t /\ Cohort(u) = Cohort(t) => ~Has(u) /\ Credit(u) = 0 /\ pc[u] \notin Racing
  BY <1>3, <1>5 DEF Has, Credit, Front
<1>13. pc'[t] \notin Racing /\ Credit(t)' = budget'[t] - 1
  BY <1>2, Zenon DEF Racing, Credit, Owning
<1>14. PetersonInv'
  <2>1. ASSUME NEW a \in Threads, NEW b \in Threads, Has(a)', Cohort(b) # Cohort(a)
        PROVE  ~Has(b)' /\ (pc'[b] \in Racing => victim = Cohort(b))
    <3>1. CASE a = t
      <4>1. b # t /\ Cohort(b) = Other(t)
        BY <2>1, <3>1, Constants, Zenon
      <4> QED
        BY <1>2, <1>11, <4>1, Zenon
    <3>2. CASE a # t
      <4>1. Has(a)
        BY <1>11, <2>1, <3>2, Zenon
      <4>2. Cohort(a) # Cohort(t)
        BY <1>12, <3>2, <4>1, Zenon
      <4> QED
        BY <4>1, <4>2, Constants, Zenon
    <3> QED
      BY <3>1, <3>2, Zenon
  <2> QED
    BY <1>2, <1>13, <2>1, Zenon DEF Inv, IInv, PetersonInv
<1>15. ASSUME NEW a \in Threads, pc'[a] \in Racing
       PROVE  /\ bypass'[a] <= InitialBudget(Other(a))
              /\ \A b \in Threads : Cohort(b) = Other(a) => bypass'[a] + Credit(b)' <= InitialBudget(Other(a))
  <2>1. a # t /\ pc[a] \in Racing
    BY <1>2, <1>13, <1>15, Zenon
  <2>2. Cohort(a) = Other(t) /\ Other(a) = Cohort(t)
    BY <1>12, <2>1, Constants, Zenon
  <2>3. bypass[a] + Credit(t) <= InitialBudget(Other(a)) /\ Credit(t) >= budget'[t]
    BY <2>1, <2>2, Zenon DEF Inv, BypassInv
  <2>4. /\ bypass[a] \in Int /\ bypass'[a] \in Int /\ Credit(t) \in Int /\ budget'[t] \in Int
        /\ InitialBudget(Other(a)) \in Int /\ budget'[t] >= 1
    <3>1. Credit(t) \in Int
      BY <1>3, CreditType, Zenon DEF IInv
    <3>2. InitialBudget(Other(a)) \in Int
      BY Constants
    <3> QED
      BY <1>3, <1>7, <2>2, <3>1, <3>2
  <2>5. bypass'[a] <= bypass[a] + 1
    BY <1>7, Zenon
  <2>6. ASSUME NEW b \in Threads, Cohort(b) = Other(a)
        PROVE  bypass'[a] + Credit(b)' <= InitialBudget(Other(a))
    <3>1. CASE b = t
      BY <1>13, <2>3, <2>4, <2>5, <3>1
    <3>2. CASE b # t
      <4>1. Credit(b)' = 0
        BY <1>11, <1>12, <2>2, <2>6, <3>2, Zenon
      <4> QED
        BY <2>3, <2>4, <2>5, <4>1
    <3> QED
      BY <3>1, <3>2, Zenon
  <2>7. bypass'[a] <= InitialBudget(Other(a))
    BY <2>3, <2>4, <2>5
  <2> QED
    BY <2>6, <2>7, Zenon
<1>16. ASSUME NEW a \in Threads, pc'[a] \notin Racing
       PROVE  bypass'[a] = 0 /\ bypass'[a] <= InitialBudget(Other(a))
  <2>1. bypass'[a] = 0
    BY <1>2, <1>8, <1>16, Zenon DEF Inv, BypassInv
  <2>2. Other(a) \in Cohorts
    BY Constants, Zenon
  <2> QED
    BY <2>1, <2>2, Constants
<1>17. BypassInv'
  BY <1>15, <1>16, Zenon DEF BypassInv
<1> QED
  BY <1>6, <1>9, <1>10, <1>14, <1>17, Zenon DEF Inv, IInv

\* Peterson's loop ends when the other queue is empty or the other cohort is the
\* victim; either way the winner may enter.
LEMMA WinInv ==
  ASSUME Inv, NEW t \in Threads, NEW from \in Racing, Win(t, from),
         UNCHANGED <<tail, victim, next, prev, queue>>,
         tail[Other(t)] = None \/ victim # Cohort(t)
  PROVE  Inv'
<1>1. IInv /\ budget \in [Threads -> Int] /\ Cohort(t) \in Cohorts /\ Other(t) \in Cohorts
  BY Constants, Zenon DEF Inv, IInv, TypeOK
<1>2. Enter(t, from) /\ pc[t] = from
      /\ budget' = [budget EXCEPT ![t] = IF @ = 0 THEN InitialBudget(Cohort(t)) ELSE @]
  BY Zenon DEF Win, Enter, Goto
<1>3. InitialBudget(Cohort(t)) \in Nat /\ InitialBudget(Cohort(t)) >= 1
  BY <1>1, Constants, Zenon
<1>4. budget[t] \in {0, InitialBudget(Cohort(t))}
  BY <1>1, <1>2, Zenon DEF IInv, BudgetInv
<1>5. budget'[t] = InitialBudget(Cohort(t)) /\ \A u \in Threads : u # t => budget'[u] = budget[u]
  BY <1>1, <1>2, <1>4, Zenon
<1>6. budget' \in [Threads -> Int]
  BY <1>1, <1>2, <1>3
<1>7. budget'[t] \in 1..InitialBudget(Cohort(t))
  BY <1>3, <1>5
<1>8. ASSUME NEW u \in Threads, Cohort(u) = Other(t), tail[Other(t)] = None
      PROVE  ~InQ(u)
  <2>1. queue[Cohort(u)] \in Seq(Threads)
    BY <1>1, <1>8, Zenon DEF IInv, TypeOK
  <2>2. queue[Cohort(u)] = <<>>
    <3>1. SUFFICES ASSUME queue[Cohort(u)] # <<>> PROVE FALSE
      OBVIOUS
    <3>2. queue[Cohort(u)][Len(queue[Cohort(u)])] \in Threads
      BY <2>1, <3>1
    <3> QED
      BY <1>1, <1>8, <3>1, <3>2, Constants, Zenon DEF IInv, TailInv
  <2> QED
    BY <1>1, <2>2 DEF IInv, QueueInv
<1>9. ASSUME NEW u \in Threads, Cohort(u) = Other(t)
      PROVE  ~Has(u) /\ (pc[u] \in Racing => victim = Cohort(u) /\ Credit(t) >= budget'[t])
  <2>1. CASE tail[Other(t)] = None
    BY <1>8, <1>9, <2>1, Zenon DEF InQ, Has, Racing, Owning
  <2>2. CASE victim # Cohort(t)
    <3>1. ~Has(u)
      BY <1>1, <1>2, <1>9, <2>2, Constants, Zenon DEF IInv, PetersonInv
    <3>2. ASSUME pc[u] \in Racing PROVE victim = Cohort(u)
      BY <1>1, <1>9, <2>2, <3>2, Constants, Zenon DEF IInv, PetersonInv
    <3>3. Credit(t) = InitialBudget(Cohort(t))
      BY <1>2, <2>2, Zenon DEF Credit, Racing, Owning
    <3> QED
      BY <1>3, <1>5, <3>1, <3>2, <3>3
  <2> QED
    BY <2>1, <2>2, Zenon
<1> QED
  BY <1>2, <1>5, <1>6, <1>7, <1>9, EnterInv, Zenon

\* Another turn of Peterson's loop changes nothing.
LEMMA RaceMoves ==
  ASSUME Inv, NEW t \in Threads, pc[t] \in Racing, NEW to \in Racing,
         pc' = [pc EXCEPT ![t] = to],
         UNCHANGED <<tail, victim, budget, next, prev, queue, bypass>>
  PROVE  Inv'
<1>1. IInv /\ pc \in [Threads -> PCs]
  BY Zenon DEF Inv, IInv, TypeOK
<1>2. pc'[t] = to /\ \A u \in Threads : u # t => pc'[u] = pc[u]
  BY <1>1, Zenon
<1>3. QueueInv' /\ TailInv' /\ PlaceInv'
  BY <1>1, HeadFrame, Zenon DEF Front, Racing
<1>4. TypeOK'
  BY Zenon DEF Inv, IInv, TypeOK, PCs, Racing
<1>5. BudgetInv'
  BY <1>1, <1>2, Zenon DEF IInv, BudgetInv, InQ, Owning, Racing
<1>6. \A u \in Threads : /\ (Has(u)' <=> Has(u)) /\ Credit(u)' = Credit(u)
                         /\ (pc'[u] \in Racing <=> pc[u] \in Racing)
  BY <1>2, Zenon DEF Has, Credit, Owning, Racing
<1>7. PetersonInv'
  BY <1>1, <1>6, Zenon DEF IInv, PetersonInv
<1>8. BypassInv'
  BY <1>6, Zenon DEF Inv, BypassInv
<1> QED
  BY <1>3, <1>4, <1>5, <1>7, <1>8, Zenon DEF Inv, IInv

\* The read of the other cohort's tail.
LEMMA ReadTailInv ==
  ASSUME Inv, NEW t \in Threads, ReadTail(t)
  PROVE  Inv'
<1>1. CASE tail[Other(t)] = None /\ Win(t, "readtail")
  BY <1>1, WinInv, Zenon DEF ReadTail, Racing
<1>2. CASE Goto(t, "readtail", "readvictim") /\ UNCHANGED <<budget, bypass>>
  BY <1>2, RaceMoves, Zenon DEF ReadTail, Goto, Racing
<1> QED
  BY <1>1, <1>2, Zenon DEF ReadTail

\* The read of the victim.
LEMMA ReadVictimInv ==
  ASSUME Inv, NEW t \in Threads, ReadVictim(t)
  PROVE  Inv'
<1>1. CASE victim # Cohort(t) /\ Win(t, "readvictim")
  BY <1>1, WinInv, Zenon DEF ReadVictim, Racing
<1>2. CASE Goto(t, "readvictim", "readtail") /\ UNCHANGED <<budget, bypass>>
  BY <1>2, RaceMoves, Zenon DEF ReadVictim, Goto, Racing
<1> QED
  BY <1>1, <1>2, Zenon DEF ReadVictim

\* The successor sees the budget it has been handed: it enters, or reacquires.
LEMMA SpinInv ==
  ASSUME Inv, NEW t \in Threads, Spin(t)
  PROVE  Inv'
<1>1. CASE budget[t] > 0 /\ Enter(t, "spin")
  <2>1. IInv /\ pc[t] = "spin" /\ UNCHANGED <<tail, victim, budget, next, prev, queue>>
    BY <1>1, Zenon DEF Inv, Spin, Enter, Goto
  <2>2. Has(t) /\ Credit(t) = budget[t]
    BY <1>1, <2>1, Zenon DEF Has, Credit, Owning
  <2>3. budget \in [Threads -> Int] /\ budget[t] \in Int
    BY <2>1, Zenon DEF IInv, TypeOK
  <2>4. budget[t] \in 1..InitialBudget(Cohort(t))
    <3>1. budget[t] <= InitialBudget(Cohort(t)) /\ InitialBudget(Cohort(t)) \in Nat
      BY <2>1, Constants, Zenon DEF IInv, BudgetInv, InQ
    <3> QED
      BY <1>1, <2>3, <3>1
  <2>5. \A u \in Threads : Cohort(u) = Other(t) =>
          ~Has(u) /\ (pc[u] \in Racing => victim = Cohort(u) /\ Credit(t) >= budget[t])
    BY <2>1, <2>2, <2>3, Constants DEF IInv, PetersonInv
  <2> QED
    BY <1>1, <2>1, <2>3, <2>4, <2>5, EnterInv, Zenon
<1>2. CASE budget[t] = 0 /\ Goto(t, "spin", "setvictim") /\ UNCHANGED bypass
  <2>1. /\ IInv /\ pc[t] = "spin" /\ UNCHANGED <<tail, victim, budget, next, prev, queue, bypass>>
        /\ pc \in [Threads -> PCs] /\ pc' = [pc EXCEPT ![t] = "setvictim"]
    BY <1>2, Zenon DEF Inv, IInv, TypeOK, Spin, Goto
  <2>2. pc'[t] = "setvictim" /\ \A u \in Threads : u # t => pc'[u] = pc[u]
    BY <2>1, Zenon
  <2>3. QueueInv' /\ TailInv' /\ PlaceInv'
    <3>1. budget[t] # -1 /\ "setvictim" \in Front /\ "setvictim" # "handover"
      BY <1>2 DEF Front
    <3>2. UNCHANGED <<tail, next, prev, queue>> /\ \A u \in Threads : u # t => budget'[u] = budget[u]
      BY <2>1, Zenon
    <3> QED
      BY <2>1, <3>1, <3>2, HeadFrame, Zenon
  <2>4. TypeOK'
    BY <2>1, Zenon DEF Inv, IInv, TypeOK, PCs
  <2>5. BudgetInv'
    BY <1>2, <2>1, <2>2, Zenon DEF IInv, BudgetInv, InQ, Owning, Racing
  <2>6. \A u \in Threads : /\ (Has(u)' <=> Has(u)) /\ Credit(u)' = Credit(u)
                           /\ (pc'[u] \in Racing <=> pc[u] \in Racing)
    BY <1>2, <2>1, <2>2 DEF Has, Credit, Owning, Racing
  <2>7. PetersonInv'
    BY <2>1, <2>6, Zenon DEF IInv, PetersonInv
  <2>8. BypassInv'
    BY <2>1, <2>6, Zenon DEF Inv, BypassInv
  <2> QED
    BY <2>3, <2>4, <2>5, <2>7, <2>8, Zenon DEF Inv, IInv
<1> QED
  BY <1>1, <1>2, Zenon DEF Spin

\* The threads in a queue are threads of its cohort.
LEMMA Places ==
  ASSUME IInv
  PROVE  /\ \A c \in Cohorts : queue[c] \in Seq(Threads) /\ Len(queue[c]) \in Nat
         /\ \A c \in Cohorts : \A i \in 1..Len(queue[c]) :
              queue[c][i] \in Threads /\ InQ(queue[c][i]) /\ Cohort(queue[c][i]) = c
BY DEF IInv, TypeOK, QueueInv

\* A step that moves no thread in or out of the race or of the lock preserves
\* what Peterson's algorithm is about.
LEMMA QuietFrame ==
  ASSUME Inv, UNCHANGED <<victim, bypass>>,
         \A u \in Threads : /\ (Has(u)' <=> Has(u)) /\ Credit(u)' = Credit(u)
                            /\ (pc'[u] \in Racing <=> pc[u] \in Racing)
  PROVE  PetersonInv' /\ BypassInv'
<1>1. PetersonInv'
  BY Zenon DEF Inv, IInv, PetersonInv
<1>2. BypassInv'
  BY Zenon DEF Inv, BypassInv
<1> QED
  BY <1>1, <1>2, Zenon

\* The reset of a descriptor that is in no queue.
LEMMA LockInv ==
  ASSUME Inv, NEW t \in Threads, Lock(t)
  PROVE  Inv'
<1>1. /\ IInv /\ pc[t] = "idle" /\ UNCHANGED <<tail, victim, prev, queue, bypass>>
      /\ pc \in [Threads -> PCs] /\ pc' = [pc EXCEPT ![t] = "swap"]
      /\ budget \in [Threads -> Int] /\ budget' = [budget EXCEPT ![t] = -1]
      /\ next \in [Threads -> Threads \cup {None}] /\ next' = [next EXCEPT ![t] = None]
  BY Zenon DEF Inv, IInv, TypeOK, Lock, Goto
<1>2. /\ pc'[t] = "swap" /\ budget'[t] = -1 /\ next'[t] = None
      /\ \A u \in Threads : u # t => pc'[u] = pc[u] /\ budget'[u] = budget[u] /\ next'[u] = next[u]
  BY <1>1, Zenon
<1>3. TypeOK'
  BY <1>1 DEF Inv, IInv, TypeOK, PCs
<1>4. \A u \in Threads : (InQ(u)' <=> InQ(u)) /\ (InQ(u) => u # t)
  BY <1>1, <1>2, Zenon DEF InQ
<1>5. QueueInv' /\ TailInv'
  BY <1>1, <1>4, Places, Zenon DEF IInv, QueueInv, TailInv
<1>6. ASSUME NEW c \in Cohorts, NEW i \in 1..Len(queue[c])
      PROVE  Placed(c, i)'
  <2>1. Placed(c, i)
    BY <1>1, Zenon DEF IInv, PlaceInv
  <2>2. \A j \in 1..Len(queue[c]) : queue[c][j] \in Threads /\ queue[c][j] # t
    BY <1>1, <1>4, Places, Zenon
  <2>3. Len(queue[c]) \in Nat /\ (i > 1 => i - 1 \in 1..Len(queue[c])) /\ (i < Len(queue[c]) => i + 1 \in 1..Len(queue[c]))
    BY <1>1, Places
  <2> QED
    BY <1>1, <1>2, <2>1, <2>2, <2>3, Zenon DEF Placed
<1>7. PlaceInv'
  BY <1>1, <1>2, <1>6, Zenon DEF IInv, PlaceInv
<1>8. BudgetInv'
  BY <1>1, <1>2, Zenon DEF IInv, BudgetInv, InQ, Owning, Racing
<1>9. \A u \in Threads : /\ (Has(u)' <=> Has(u)) /\ Credit(u)' = Credit(u)
                         /\ (pc'[u] \in Racing <=> pc[u] \in Racing)
  BY <1>1, <1>2, Zenon DEF Has, Credit, Owning, Racing
<1>10. PetersonInv' /\ BypassInv'
  BY <1>1, <1>9, QuietFrame, Zenon
<1> QED
  BY <1>3, <1>5, <1>7, <1>8, <1>10, Zenon DEF Inv, IInv

\* The exchange of the tail appends the thread to its queue.
LEMMA SwapTailInv ==
  ASSUME Inv, NEW t \in Threads, SwapTail(t)
  PROVE  Inv'
<1> DEFINE c == Cohort(t)
           q == queue[c]
           n == Len(q)
<1>1. /\ IInv /\ c \in Cohorts /\ InitialBudget(c) \in Nat /\ InitialBudget(c) >= 1
      /\ pc[t] = "swap" /\ UNCHANGED <<victim, next, bypass>>
      /\ budget[t] = -1 /\ next[t] = None
  BY Constants, Zenon DEF Inv, IInv, PlaceInv, SwapTail, Goto
<1>2. /\ pc' = [pc EXCEPT ![t] = IF tail[c] = None THEN "setvictim" ELSE "link"]
      /\ prev' = [prev EXCEPT ![t] = tail[c]]
      /\ tail' = [tail EXCEPT ![c] = t]
      /\ queue' = [queue EXCEPT ![c] = Append(q, t)]
      /\ budget' = [budget EXCEPT ![t] = IF tail[c] = None THEN InitialBudget(c) ELSE budget[t]]
  BY Zenon DEF SwapTail, Goto
<1>3. /\ tail \in [Cohorts -> Threads \cup {None}] /\ budget \in [Threads -> Int]
      /\ pc \in [Threads -> PCs] /\ prev \in [Threads -> Threads \cup {None}]
      /\ queue \in [Cohorts -> Seq(Threads)]
  BY <1>1, Zenon DEF IInv, TypeOK
<1>4. q \in Seq(Threads) /\ n \in Nat
  BY <1>1, <1>3
<1>5. /\ queue'[c] \in Seq(Threads) /\ Len(queue'[c]) = n + 1
      /\ queue'[c][n + 1] = t /\ \A i \in 1..n : queue'[c][i] = q[i]
      /\ \A d \in Cohorts : d # c => queue'[d] = queue[d]
  <2>1. queue'[c] = Append(q, t) /\ \A d \in Cohorts : d # c => queue'[d] = queue[d]
    BY <1>1, <1>2, <1>3, Zenon
  <2> QED
    BY <1>4, <2>1
<1>6. tail[c] = IF n = 0 THEN None ELSE q[n]
  BY <1>1, <1>4 DEF IInv, TailInv
<1>7. n # 0 => tail[c] \in Threads /\ tail[c] # None
  BY <1>4, <1>6, Constants
<1>8. /\ \A u \in Threads : u # t => pc'[u] = pc[u] /\ prev'[u] = prev[u] /\ budget'[u] = budget[u]
      /\ prev'[t] = tail[c]
      /\ n = 0 => pc'[t] = "setvictim" /\ budget'[t] = InitialBudget(c)
      /\ n # 0 => pc'[t] = "link" /\ budget'[t] = -1
  BY <1>1, <1>2, <1>3, <1>6, <1>7, Zenon
<1>9. TypeOK'
  <2>1. pc' \in [Threads -> PCs] /\ prev' \in [Threads -> Threads \cup {None}]
    BY <1>1, <1>2, <1>3, Zenon DEF PCs
  <2>2. tail' \in [Cohorts -> Threads \cup {None}] /\ budget' \in [Threads -> Int]
    BY <1>1, <1>2, <1>3
  <2>3. queue' \in [Cohorts -> Seq(Threads)]
    BY <1>2, <1>3, <1>5, Zenon
  <2> QED
    BY <1>1, <2>1, <2>2, <2>3, Zenon DEF IInv, TypeOK
<1>10. /\ \A u \in Threads : u # t => (InQ(u)' <=> InQ(u))
       /\ InQ(t)' /\ ~InQ(t)
  BY <1>1, <1>8, Zenon DEF InQ
<1>11. /\ \A d \in Cohorts : \A i \in 1..Len(queue[d]) : queue[d][i] \in Threads \ {t}
       /\ \A d \in Cohorts : Len(queue[d]) \in Nat
  BY <1>1, <1>10, Places, Zenon
<1>12. QueueInv'
  <2>1. ASSUME NEW d \in Cohorts, NEW i \in 1..Len(queue'[d])
        PROVE  /\ InQ(queue[d][i])' /\ Cohort(queue'[d][i]) = d
               /\ \A j \in 1..Len(queue'[d]) : queue'[d][i] = queue'[d][j] => i = j
    <3>1. CASE d # c
      BY <1>1, <1>5, <1>10, <1>11, <3>1 DEF IInv, QueueInv
    <3>2. CASE d = c
      <4>1. \A k \in 1..n + 1 : k \in 1..n \/ k = n + 1
        BY <1>4
      <4>2. \A k \in 1..n : InQ(q[k]) /\ Cohort(q[k]) = c /\ q[k] \in Threads \ {t}
        BY <1>1, <1>11, Places
      <4>3. \A k, j \in 1..n : q[k] = q[j] => k = j
        BY <1>1 DEF IInv, QueueInv
      <4> QED
        BY <1>4, <1>5, <1>10, <3>2, <4>1, <4>2, <4>3
    <3> QED
      BY <3>1, <3>2, Zenon
  <2>2. ASSUME NEW u \in Threads, InQ(u)'
        PROVE  \E i \in 1..Len(queue'[Cohort(u)]) : queue'[Cohort(u)][i] = u
    <3>1. CASE u = t
      BY <1>4, <1>5, <3>1
    <3>2. CASE u # t
      <4>1. PICK i \in 1..Len(queue[Cohort(u)]) : queue[Cohort(u)][i] = u
        BY <1>1, <1>10, <2>2, <3>2, Zenon DEF IInv, QueueInv
      <4> QED
        BY <1>4, <1>5, <4>1, Constants
    <3> QED
      BY <3>1, <3>2, Zenon
  <2> QED
    BY <2>1, <2>2, Zenon DEF QueueInv
<1>13. TailInv'
  <2>1. tail'[c] = t /\ \A d \in Cohorts : d # c => tail'[d] = tail[d]
    BY <1>1, <1>2, <1>3, Zenon
  <2>2. queue'[c] # <<>>
    BY <1>4, <1>5
  <2> QED
    BY <1>1, <1>5, <2>1, <2>2, Zenon DEF IInv, TailInv
<1>14. ASSUME NEW d \in Cohorts, NEW i \in 1..Len(queue'[d])
       PROVE  Placed(d, i)'
  <2>1. CASE d # c \/ i # n + 1
    <3>1. i \in 1..Len(queue[d]) /\ queue'[d][i] = queue[d][i] /\ Len(queue[d]) <= Len(queue'[d])
      BY <1>4, <1>5, <1>11, <2>1
    <3>2. Placed(d, i)
      BY <1>1, <3>1, Zenon DEF IInv, PlaceInv
    <3>3. \A j \in 1..Len(queue[d]) : queue'[d][j] = queue[d][j]
      BY <1>5, Zenon
    <3>4. /\ i > 1 => i - 1 \in 1..Len(queue[d])
          /\ i < Len(queue[d]) => i + 1 \in 1..Len(queue[d]) /\ i < Len(queue'[d])
      BY <1>4, <1>5, <1>11, <3>1
    <3> QED
      BY <1>1, <1>8, <1>11, <3>1, <3>2, <3>3, <3>4 DEF Placed
  <2>2. CASE d = c /\ i = n + 1
    <3>1. CASE n = 0
      BY <1>1, <1>5, <1>8, <2>2, <3>1 DEF Placed
    <3>2. CASE n # 0
      <4>1. i > 1 /\ i - 1 = n /\ queue'[c][n] = q[n]
        BY <1>4, <1>5, <2>2, <3>2
      <4> QED
        BY <1>1, <1>5, <1>6, <1>8, <2>2, <3>2, <4>1 DEF Placed
    <3> QED
      BY <3>1, <3>2, Zenon
  <2> QED
    BY <2>1, <2>2, Zenon
<1>15. PlaceInv'
  BY <1>1, <1>8, <1>14, Zenon DEF IInv, PlaceInv
<1>16. BudgetInv'
  <2>1. /\ pc'[t] \in {"setvictim", "link"} /\ budget'[t] <= InitialBudget(c)
        /\ pc'[t] = "setvictim" => budget'[t] = InitialBudget(c)
    BY <1>1, <1>8
  <2> QED
    BY <1>1, <1>8, <1>10, <2>1, Zenon DEF IInv, BudgetInv, Owning, Racing
<1>17. \A u \in Threads : /\ (Has(u)' <=> Has(u)) /\ Credit(u)' = Credit(u)
                          /\ (pc'[u] \in Racing <=> pc[u] \in Racing)
  BY <1>1, <1>8, Zenon DEF Has, Credit, Owning, Racing
<1>18. PetersonInv' /\ BypassInv'
  BY <1>1, <1>17, QuietFrame, Zenon
<1> QED
  BY <1>9, <1>12, <1>13, <1>15, <1>16, <1>18, Zenon DEF Inv, IInv

\* The predecessor whose next_ a thread writes is still just ahead of it.
LEMMA LinkPrevInv ==
  ASSUME Inv, NEW t \in Threads, LinkPrev(t)
  PROVE  Inv'
<1> DEFINE c == Cohort(t)
           p == prev[t]
<1>1. /\ IInv /\ c \in Cohorts /\ queue[c] \in Seq(Threads) /\ Len(queue[c]) \in Nat
      /\ pc[t] = "link" /\ UNCHANGED <<tail, victim, budget, queue, bypass>>
      /\ pc' = [pc EXCEPT ![t] = "spin"] /\ pc \in [Threads -> PCs]
      /\ next' = [next EXCEPT ![p] = t] /\ next \in [Threads -> Threads \cup {None}]
      /\ prev' = [prev EXCEPT ![t] = None] /\ prev \in [Threads -> Threads \cup {None}]
  BY Constants DEF Inv, IInv, TypeOK, LinkPrev, Goto
<1>2. PICK i \in 1..Len(queue[c]) : queue[c][i] = t
  BY <1>1, Zenon DEF IInv, QueueInv, InQ
<1>3. i > 1 /\ budget[t] = -1 /\ p = queue[c][i - 1] /\ i - 1 \in 1..Len(queue[c])
  BY <1>1, <1>2 DEF IInv, PlaceInv, Placed
<1>4. p \in Threads /\ p # t /\ Cohort(p) = c /\ InQ(p)
  BY <1>1, <1>2, <1>3 DEF IInv, QueueInv
<1>5. /\ pc'[t] = "spin" /\ \A u \in Threads : u # t => pc'[u] = pc[u] /\ prev'[u] = prev[u]
      /\ next'[p] = t /\ \A u \in Threads : u # p => next'[u] = next[u]
  BY <1>1, <1>4, Zenon
<1>6. TypeOK'
  BY <1>1, Zenon DEF IInv, TypeOK, PCs
<1>7. \A u \in Threads : InQ(u)' <=> InQ(u)
  BY <1>1, <1>5, Zenon DEF InQ
<1>8. QueueInv' /\ TailInv'
  BY <1>1, <1>7, Places DEF IInv, QueueInv, TailInv
<1>9. ASSUME NEW d \in Cohorts, NEW j \in 1..Len(queue[d])
      PROVE  Placed(d, j)'
  <2> DEFINE u == queue[d][j]
  <2>1. Placed(d, j) /\ u \in Threads /\ Len(queue[d]) \in Nat
    BY <1>1, Places, Zenon DEF IInv, PlaceInv
  <2>2. \A k \in 1..Len(queue[d]) : /\ queue[d][k] \in Threads
                                    /\ queue[d][k] = t => d = c /\ k = i
                                    /\ queue[d][k] = p => d = c /\ k = i - 1
    <3>1. \A k \in 1..Len(queue[d]) : queue[d][k] \in Threads /\ Cohort(queue[d][k]) = d
      BY <1>1, Places, Zenon
    <3>2. \A k, m \in 1..Len(queue[c]) : queue[c][k] = queue[c][m] => k = m
      BY <1>1, Zenon DEF IInv, QueueInv
    <3> QED
      BY <1>2, <1>3, <1>4, <3>1, <3>2, Zenon
  <2>3. j > 1 => j - 1 \in 1..Len(queue[d])
    BY <2>1
  <2>4. j < Len(queue[d]) => j + 1 \in 1..Len(queue[d])
    BY <2>1
  <2>5. CASE u = t
    BY <1>1, <1>2, <1>3, <1>4, <1>5, <2>1, <2>2, <2>3, <2>4, <2>5, Zenon DEF Placed
  <2>6. CASE u # t
    <3>1. pc'[u] = pc[u] /\ prev'[u] = prev[u] /\ budget'[u] = budget[u]
      BY <1>1, <1>5, <2>1, <2>6, Zenon
    <3>2. pc[u] = "spin" /\ j > 1 => next'[queue[d][j - 1]] = u
      <4>1. SUFFICES ASSUME pc[u] = "spin", j > 1 PROVE next'[queue[d][j - 1]] = u
        OBVIOUS
      <4>2. queue[d][j - 1] # p
        BY <1>2, <2>2, <2>3, <2>6, <4>1
      <4> QED
        BY <1>5, <2>1, <2>2, <2>3, <4>1, <4>2, Zenon DEF Placed
    <3>3. next'[u] # None => j < Len(queue[d]) /\ next'[u] = queue[d][j + 1] /\ pc'[next'[u]] = "spin"
      <4>1. CASE u = p
        BY <1>1, <1>2, <1>3, <1>5, <2>1, <2>2, <4>1
      <4>2. CASE u # p
        BY <1>5, <2>1, <2>2, <2>4, <4>2 DEF Placed
      <4> QED
        BY <4>1, <4>2, Zenon
    <3>4. pc[u] = "handover" => next'[u] # None
      BY <1>5, <2>1, Constants DEF Placed
    <3> QED
      BY <1>1, <2>1, <3>1, <3>2, <3>3, <3>4, Zenon DEF Placed
  <2> QED
    BY <2>5, <2>6, Zenon
<1>10. PlaceInv'
  <2>1. ASSUME NEW u \in Threads, pc'[u] = "swap" PROVE budget'[u] = -1 /\ next'[u] = None
    <3>1. u # t /\ pc[u] = "swap"
      BY <1>5, <2>1, Zenon
    <3>2. u # p
      BY <1>4, <3>1, Zenon DEF InQ
    <3> QED
      BY <1>1, <1>5, <3>1, <3>2, Zenon DEF IInv, PlaceInv
  <2> QED
    BY <1>1, <1>9, <2>1, Zenon DEF PlaceInv
<1>11. BudgetInv'
  BY <1>1, <1>5, <1>7, Zenon DEF IInv, BudgetInv, Owning, Racing
<1>12. \A u \in Threads : /\ (Has(u)' <=> Has(u)) /\ Credit(u)' = Credit(u)
                          /\ (pc'[u] \in Racing <=> pc[u] \in Racing)
  BY <1>1, <1>3, <1>5 DEF Has, Credit, Owning, Racing
<1>13. PetersonInv' /\ BypassInv'
  BY <1>1, <1>12, QuietFrame, Zenon
<1> QED
  BY <1>6, <1>8, <1>10, <1>11, <1>13, Zenon DEF Inv, IInv

\* A thread that returns from Unlock is the first of its queue and leaves it.
LEMMA ReturnFrame ==
  ASSUME IInv, NEW t \in Threads, NEW from \in Owning, Return(t, from)
  PROVE  LET c == Cohort(t) IN
         /\ c \in Cohorts /\ pc[t] = from /\ pc'[t] = "idle" /\ pc' \in [Threads -> PCs]
         /\ \A u \in Threads : u # t => pc'[u] = pc[u]
         /\ queue[c] \in Seq(Threads) /\ Len(queue[c]) \in Nat /\ Len(queue[c]) >= 1 /\ queue[c][1] = t
         /\ queue' \in [Cohorts -> Seq(Threads)]
         /\ Len(queue'[c]) = Len(queue[c]) - 1
         /\ \A i \in 1..Len(queue'[c]) : queue'[c][i] = queue[c][i + 1]
         /\ \A d \in Cohorts : d # c => queue'[d] = queue[d]
         /\ QueueInv'
<1> DEFINE c == Cohort(t)
<1>1. /\ pc[t] = from /\ pc' = [pc EXCEPT ![t] = "idle"] /\ pc \in [Threads -> PCs]
      /\ queue' = [queue EXCEPT ![c] = Without(queue[c], t)] /\ queue \in [Cohorts -> Seq(Threads)]
  BY Zenon DEF Return, Goto, IInv, TypeOK
<1>2. c \in Cohorts /\ pc[t] \in Front
  BY <1>1, Constants, Zenon DEF Front
<1>3. queue[c] \in Seq(Threads) /\ Len(queue[c]) \in Nat /\ Len(queue[c]) >= 1 /\ queue[c][1] = t /\ InQ(t)
  BY <1>2, Heads, Zenon
<1>4. queue'[c] = Without(queue[c], t) /\ \A d \in Cohorts : d # c => queue'[d] = queue[d]
  BY <1>1, <1>2, Zenon
<1>5. /\ queue'[c] \in Seq(Threads) /\ Len(queue'[c]) = Len(queue[c]) - 1
      /\ \A i \in 1..Len(queue'[c]) : queue'[c][i] = queue[c][i + 1]
  <2>1. \A i \in 1..Len(queue[c]) : queue[c][i] = t => i = 1
    BY <1>2, <1>3 DEF IInv, QueueInv
  <2>2. queue'[c] = Tail(queue[c])
    BY <1>3, <1>4, <2>1, WithoutHead, Zenon
  <2> QED
    BY <1>3, <2>2
<1>6. queue' \in [Cohorts -> Seq(Threads)]
  BY <1>1, <1>2, <1>4, <1>5, Zenon
<1>7. pc'[t] = "idle" /\ pc' \in [Threads -> PCs] /\ \A u \in Threads : u # t => pc'[u] = pc[u]
  BY <1>1, Zenon DEF PCs
<1>8. ~InQ(t)' /\ \A u \in Threads : u # t => (InQ(u)' <=> InQ(u))
  BY <1>7, Zenon DEF InQ
<1>9. QueueInv'
  <2>1. ASSUME NEW d \in Cohorts, NEW i \in 1..Len(queue'[d])
        PROVE  /\ InQ(queue[d][i])' /\ Cohort(queue'[d][i]) = d
               /\ \A j \in 1..Len(queue'[d]) : queue'[d][i] = queue'[d][j] => i = j
    <3>1. CASE d # c
      <4>1. queue[d][i] \in Threads /\ queue[d][i] # t /\ queue'[d] = queue[d]
        BY <1>4, <2>1, <3>1, Places, Zenon
      <4> QED
        BY <1>8, <2>1, <4>1 DEF IInv, QueueInv
    <3>2. CASE d = c
      <4>1. \A k \in 1..Len(queue'[c]) : k + 1 \in 1..Len(queue[c]) /\ queue'[c][k] = queue[c][k + 1]
        BY <1>3, <1>5
      <4>2. \A k, j \in 1..Len(queue[c]) : queue[c][k] = queue[c][j] => k = j
        BY <1>2, Zenon DEF IInv, QueueInv
      <4>3. queue'[c][i] \in Threads /\ queue'[c][i] # t /\ InQ(queue'[c][i]) /\ Cohort(queue'[c][i]) = c
        <5>1. i \in Nat /\ i + 1 # 1 /\ 1 \in 1..Len(queue[c])
          BY <1>3, <2>1
        <5> QED
          BY <1>2, <1>3, <2>1, <3>2, <4>1, <4>2, <5>1, Places, Zenon
      <4>4. \A j \in 1..Len(queue'[c]) : queue'[c][i] = queue'[c][j] => i = j
        BY <1>3, <1>5, <2>1, <3>2, <4>1, <4>2
      <4> QED
        BY <1>8, <3>2, <4>3, <4>4, Zenon
    <3> QED
      BY <3>1, <3>2, Zenon
  <2>2. ASSUME NEW u \in Threads, InQ(u)'
        PROVE  \E i \in 1..Len(queue'[Cohort(u)]) : queue'[Cohort(u)][i] = u
    <3>1. PICK i \in 1..Len(queue[Cohort(u)]) : queue[Cohort(u)][i] = u
      BY <1>8, <2>2, Zenon DEF IInv, QueueInv
    <3>2. CASE Cohort(u) # c
      BY <1>4, <3>1, <3>2, Constants, Zenon
    <3>3. CASE Cohort(u) = c
      <4>1. i # 1
        BY <1>3, <1>8, <2>2, <3>1, <3>3, Zenon
      <4>2. i - 1 \in 1..Len(queue'[c]) /\ (i - 1) + 1 = i
        BY <1>3, <1>5, <3>1, <3>3, <4>1
      <4> QED
        BY <1>5, <3>1, <3>3, <4>2, Zenon
    <3> QED
      BY <3>2, <3>3, Zenon
  <2> QED
    BY <2>1, <2>2, Zenon DEF QueueInv
<1> QED
  BY <1>1, <1>2, <1>3, <1>4, <1>5, <1>6, <1>7, <1>9, Zenon

\* A successful compare-and-swap finds the thread alone in its queue.
LEMMA CasTailInv ==
  ASSUME Inv, NEW t \in Threads, CasTail(t)
  PROVE  Inv'
<1> DEFINE c == Cohort(t)
<1>1. CASE tail[c] # t
  BY <1>1, UnlockMoves, Zenon
<1>2. CASE tail[c] = t
  <2>1. /\ IInv /\ Return(t, "castail") /\ tail' = [tail EXCEPT ![c] = None]
        /\ tail \in [Cohorts -> Threads \cup {None}] /\ "castail" \in Owning
        /\ UNCHANGED <<victim, budget, next, prev, bypass>>
    BY <1>2, Zenon DEF Inv, IInv, TypeOK, CasTail, Owning
  <2>2. /\ c \in Cohorts /\ pc[t] = "castail" /\ pc'[t] = "idle" /\ pc' \in [Threads -> PCs]
        /\ \A u \in Threads : u # t => pc'[u] = pc[u]
        /\ queue[c] \in Seq(Threads) /\ Len(queue[c]) \in Nat /\ Len(queue[c]) >= 1 /\ queue[c][1] = t
        /\ queue' \in [Cohorts -> Seq(Threads)]
        /\ Len(queue'[c]) = Len(queue[c]) - 1
        /\ \A d \in Cohorts : d # c => queue'[d] = queue[d]
        /\ QueueInv'
    BY <2>1, ReturnFrame, Zenon
  \* The tail is the last of the queue and the thread its first.
  <2>3. Len(queue[c]) = 1
    <3>1. queue[c][Len(queue[c])] = t
      BY <1>2, <2>1, <2>2 DEF IInv, TailInv
    <3>2. 1 \in 1..Len(queue[c]) /\ Len(queue[c]) \in 1..Len(queue[c])
      BY <2>2
    <3>3. \A i, j \in 1..Len(queue[c]) : queue[c][i] = queue[c][j] => i = j
      BY <2>1, <2>2, Zenon DEF IInv, QueueInv
    <3> QED
      BY <2>2, <3>1, <3>2, <3>3, Zenon
  <2>4. queue'[c] = <<>> /\ Len(queue'[c]) = 0
    BY <2>2, <2>3
  <2>5. TypeOK'
    BY <2>1, <2>2, Zenon DEF IInv, TypeOK
  <2>6. TailInv'
    BY <2>1, <2>2, <2>4, Zenon DEF IInv, TailInv
  <2>7. ASSUME NEW d \in Cohorts, NEW i \in 1..Len(queue'[d])
        PROVE  Placed(d, i)'
    <3>1. d # c
      BY <2>4
    <3>2. queue'[d] = queue[d] /\ Len(queue[d]) \in Nat /\ Placed(d, i)
      BY <2>1, <2>2, <2>7, <3>1, Places, Zenon DEF IInv, PlaceInv
    <3>3. \A j \in 1..Len(queue[d]) : queue[d][j] \in Threads /\ queue[d][j] # t
      BY <2>1, <3>1, Places, Zenon
    <3>4. i < Len(queue[d]) => i + 1 \in 1..Len(queue[d])
      BY <3>2, <2>7
    <3> QED
      BY <2>1, <2>2, <2>7, <3>2, <3>3, <3>4 DEF Placed
  <2>8. PlaceInv'
    BY <2>1, <2>2, <2>7, Zenon DEF IInv, PlaceInv
  <2>9. BudgetInv'
    BY <2>1, <2>2, Zenon DEF IInv, BudgetInv, InQ, Owning, Racing
  <2>10. \A u \in Threads : /\ Has(u)' => Has(u)
                            /\ pc'[u] \in Racing <=> pc[u] \in Racing
                            /\ u # t => Credit(u)' = Credit(u)
    BY <2>1, <2>2, Zenon DEF Has, Credit, Owning, Racing
  <2>11. PetersonInv'
    BY <2>1, <2>10, Zenon DEF IInv, PetersonInv
  <2>12. BypassInv'
    <3>1. Credit(t)' = 0
      BY <2>2, Zenon DEF Credit, Owning, Racing
    <3>2. \A a \in Threads : bypass[a] \in Nat
      BY <2>1, Zenon DEF IInv, TypeOK
    <3> QED
      BY <2>1, <2>10, <3>1, <3>2 DEF Inv, BypassInv
  <2> QED
    BY <2>2, <2>5, <2>6, <2>8, <2>9, <2>11, <2>12, Zenon DEF Inv, IInv
<1> QED
  BY <1>1, <1>2, Zenon

\* The successor gets the lock, with what is left of the budget, and the credit.
LEMMA HandOverInv ==
  ASSUME Inv, NEW t \in Threads, HandOver(t)
  PROVE  Inv'
<1> DEFINE c == Cohort(t)
           q == queue[c]
<1>1. /\ IInv /\ Return(t, "handover") /\ "handover" \in Owning
      /\ budget' = [budget EXCEPT ![next[t]] = budget[t] - 1] /\ budget \in [Threads -> Int]
      /\ next' = (IF t \in LocalThreads THEN [next EXCEPT ![t] = None] ELSE next)
      /\ next \in [Threads -> Threads \cup {None}]
      /\ UNCHANGED <<tail, victim, prev, bypass>>
  BY Zenon DEF Inv, IInv, TypeOK, HandOver, Owning
<1>2. /\ c \in Cohorts /\ pc[t] = "handover" /\ pc'[t] = "idle" /\ pc' \in [Threads -> PCs]
      /\ \A u \in Threads : u # t => pc'[u] = pc[u]
      /\ q \in Seq(Threads) /\ Len(q) \in Nat /\ Len(q) >= 1 /\ q[1] = t
      /\ queue' \in [Cohorts -> Seq(Threads)]
      /\ Len(queue'[c]) = Len(q) - 1
      /\ \A i \in 1..Len(queue'[c]) : queue'[c][i] = q[i + 1]
      /\ \A d \in Cohorts : d # c => queue'[d] = queue[d]
      /\ QueueInv'
  BY <1>1, ReturnFrame, Zenon
<1>3. PICK s \in Threads : Len(q) >= 2 /\ s = next[t] /\ s = q[2] /\ pc[s] = "spin"
  <2>1. Placed(c, 1) /\ 1 \in 1..Len(q)
    BY <1>1, <1>2 DEF IInv, PlaceInv
  <2>2. next[t] # None
    BY <1>2, <2>1, Zenon DEF Placed
  <2>3. 1 < Len(q) /\ next[t] = q[2] /\ pc[next[t]] = "spin"
    BY <1>2, <2>1, <2>2 DEF Placed
  <2> QED
    BY <1>1, <1>2, <2>2, <2>3
<1>4. s # t /\ Cohort(s) = c /\ budget[s] = -1 /\ pc'[s] = "spin"
  <2>1. 2 \in 1..Len(q) /\ 2 > 1
    BY <1>2, <1>3
  <2>2. Placed(c, 2)
    BY <1>1, <1>2, <2>1, Zenon DEF IInv, PlaceInv
  <2>3. budget[s] = -1
    BY <1>3, <2>1, <2>2, Zenon DEF Placed
  <2>4. Cohort(s) = c
    BY <1>1, <1>2, <1>3, <2>1, Places, Zenon
  <2> QED
    BY <1>2, <1>3, <2>3, <2>4, Zenon
<1>5. /\ budget'[s] = budget[t] - 1 /\ \A u \in Threads : u # s => budget'[u] = budget[u]
      /\ \A u \in Threads : u # t => next'[u] = next[u]
      /\ budget' \in [Threads -> Int] /\ next' \in [Threads -> Threads \cup {None}]
  BY <1>1, <1>3
<1>6. /\ budget[t] \in Int /\ budget[t] >= 1 /\ budget[t] <= InitialBudget(c) /\ InitialBudget(c) \in Nat
      /\ budget'[s] >= 0 /\ budget'[s] <= InitialBudget(c) /\ budget'[s] \in Int
  <2>1. budget[t] \in Int /\ budget[t] >= 1 /\ budget[t] <= InitialBudget(c)
    BY <1>1, <1>2, Zenon DEF IInv, BudgetInv, InQ
  <2>2. InitialBudget(c) \in Nat
    BY <1>2, Constants, Zenon
  <2> QED
    BY <1>5, <2>1, <2>2
<1>7. TypeOK'
  BY <1>1, <1>2, <1>5, Zenon DEF IInv, TypeOK
<1>8. /\ \A j \in 1..Len(queue'[c]) : j + 1 \in 1..Len(q) /\ queue'[c][j] = q[j + 1]
      /\ Len(queue'[c]) \in Nat /\ Len(queue'[c]) >= 1
  BY <1>2, <1>3
<1>9. TailInv'
  <2>1. queue'[c] # <<>> /\ q # <<>> /\ queue'[c][Len(queue'[c])] = q[Len(q)]
    BY <1>2, <1>3, <1>8
  <2> QED
    BY <1>1, <1>2, <2>1, Zenon DEF IInv, TailInv
<1>10. \A k, j \in 1..Len(q) : q[k] = q[j] => k = j
  BY <1>1, <1>2, Zenon DEF IInv, QueueInv
<1>11. \A k \in 1..Len(q) : q[k] \in Threads /\ (k # 1 => q[k] # t) /\ (k # 2 => q[k] # s)
  BY <1>2, <1>3, <1>10
<1>12. ASSUME NEW d \in Cohorts, d # c, NEW i \in 1..Len(queue'[d])
       PROVE  Placed(d, i)'
  <2>1. queue'[d] = queue[d] /\ Len(queue[d]) \in Nat /\ Placed(d, i)
    BY <1>1, <1>2, <1>12, Places, Zenon DEF IInv, PlaceInv
  <2>2. \A j \in 1..Len(queue[d]) : queue[d][j] \in Threads /\ queue[d][j] # t /\ queue[d][j] # s
    BY <1>1, <1>4, <1>12, Places, Zenon
  <2>3. /\ i < Len(queue[d]) => i + 1 \in 1..Len(queue[d])
        /\ i > 1 => i - 1 \in 1..Len(queue[d])
    BY <1>12, <2>1
  <2>4. \A j \in 1..Len(queue[d]) : LET u == queue[d][j] IN
          pc'[u] = pc[u] /\ next'[u] = next[u] /\ budget'[u] = budget[u] /\ prev'[u] = prev[u]
    BY <1>1, <1>2, <1>5, <2>2
  <2> QED
    BY <1>12, <2>1, <2>3, <2>4 DEF Placed
<1>13. ASSUME NEW i \in 1..Len(queue'[c])
       PROVE  Placed(c, i)'
  <2> DEFINE u == q[i + 1]
  <2>1. /\ i \in Nat /\ i >= 1 /\ i + 1 \in 1..Len(q) /\ queue'[c][i] = u /\ u \in Threads /\ u # t
        /\ i # 1 => u # s
    <3>1. i \in Nat /\ i >= 1 /\ i + 1 # 1 /\ (i # 1 => i + 1 # 2)
      BY <1>8
    <3> QED
      BY <1>8, <1>11, <3>1, Zenon
  <2>2. Placed(c, i + 1)
    BY <1>1, <1>2, <2>1, Zenon DEF IInv, PlaceInv
  <2>3. pc'[u] = pc[u] /\ prev'[u] = prev[u] /\ next'[u] = next[u]
    BY <1>1, <1>2, <1>5, <2>1, Zenon
  <2>4. pc[u] \in {"link", "spin"} /\ budget[u] = -1 /\ (pc[u] = "link" => prev[u] = q[i])
        /\ (pc[u] = "spin" => next[q[i]] = u)
    BY <2>1, <2>2 DEF Placed
  <2>5. next[u] # None => /\ i < Len(queue'[c]) /\ next[u] = queue'[c][i + 1] /\ pc'[next[u]] = "spin"
    <3>1. SUFFICES ASSUME next[u] # None
                   PROVE  i < Len(queue'[c]) /\ next[u] = queue'[c][i + 1] /\ pc'[next[u]] = "spin"
      OBVIOUS
    <3>2. i + 1 < Len(q) /\ next[u] = q[i + 2] /\ pc[next[u]] = "spin"
      BY <2>1, <2>2, <3>1 DEF Placed
    <3>3. i < Len(queue'[c]) /\ i + 1 \in 1..Len(queue'[c]) /\ i + 2 \in 1..Len(q) /\ i + 2 # 1
      BY <1>2, <2>1, <3>2
    <3>4. queue'[c][i + 1] = q[i + 2]
      BY <1>8, <2>1, <3>3
    <3> QED
      BY <1>2, <1>11, <3>2, <3>3, <3>4, Zenon
  <2>6. CASE i = 1
    <3>1. u = s /\ budget'[u] >= 0 /\ pc[u] = "spin"
      BY <1>3, <1>6, <2>6
    <3> QED
      BY <2>1, <2>3, <2>5, <2>6, <3>1 DEF Placed
  <2>7. CASE i # 1
    <3>1. i > 1 /\ i - 1 \in 1..Len(queue'[c]) /\ (i - 1) + 1 = i /\ i \in 1..Len(q)
      BY <1>2, <1>8, <2>1, <2>7
    <3>2. queue'[c][i - 1] = q[i] /\ q[i] \in Threads /\ q[i] # t
      BY <1>8, <1>11, <2>7, <3>1, Zenon
    <3>3. budget'[u] = -1
      BY <1>5, <2>1, <2>4, <2>7, Zenon
    <3>4. pc[u] = "spin" => next'[queue'[c][i - 1]] = u
      BY <1>5, <2>4, <3>2, Zenon
    <3> QED
      BY <1>1, <2>1, <2>3, <2>4, <2>5, <2>7, <3>1, <3>2, <3>3, <3>4, Zenon DEF Placed
  <2> QED
    BY <2>6, <2>7, Zenon
<1>14. PlaceInv'
  <2>1. \A u \in Threads : pc'[u] = "swap" => budget'[u] = -1 /\ next'[u] = None
    BY <1>1, <1>2, <1>4, <1>5, Zenon DEF IInv, PlaceInv
  <2> QED
    BY <1>12, <1>13, <2>1, Zenon DEF PlaceInv
<1>15. BudgetInv'
  <2>1. ASSUME NEW u \in Threads, u # s
        PROVE  /\ InQ(u)' => budget'[u] <= InitialBudget(Cohort(u))
               /\ pc'[u] \in Owning => budget'[u] >= 1
               /\ pc'[u] \in {"setvictim"} \cup Racing => budget'[u] \in {0, InitialBudget(Cohort(u))}
    BY <1>1, <1>2, <1>5, <2>1, Zenon DEF IInv, BudgetInv, InQ, Owning, Racing
  <2> QED
    BY <1>4, <1>6, <2>1, Zenon DEF BudgetInv, Owning, Racing
<1>16. Has(t) /\ \A u \in Threads : u # t /\ Cohort(u) = c => ~Has(u)
  <2>1. Has(t) /\ pc[t] \in Front
    BY <1>2, Zenon DEF Has, Front, Owning
  <2>2. \A u \in Threads : Has(u) => pc[u] \in Front \/ (pc[u] = "spin" /\ budget[u] # -1)
    BY DEF Has, Front
  <2> QED
    BY <1>1, <2>1, <2>2, OneHead, Zenon
<1>17. \A u \in Threads : /\ pc'[u] \in Racing <=> pc[u] \in Racing
                          /\ u # t /\ u # s => (Has(u)' <=> Has(u)) /\ Credit(u)' = Credit(u)
  BY <1>1, <1>2, <1>5, Zenon DEF Has, Credit, Owning, Racing
<1>18. ~Has(t)' /\ Credit(t)' = 0
  BY <1>2, Zenon DEF Has, Credit, Owning, Racing
<1>19. PetersonInv'
  <2>1. ASSUME NEW a \in Threads, NEW b \in Threads, Has(a)', Cohort(b) # Cohort(a)
        PROVE  ~Has(b)' /\ (pc'[b] \in Racing => victim = Cohort(b))
    <3>1. CASE Cohort(a) = c
      <4>1. b # t /\ b # s /\ Cohort(b) # Cohort(t)
        BY <1>4, <2>1, <3>1, Zenon
      <4>2. ~Has(b) /\ (pc[b] \in Racing => victim = Cohort(b))
        BY <1>1, <1>16, <4>1, Zenon DEF IInv, PetersonInv
      <4> QED
        BY <1>17, <4>1, <4>2, Zenon
    <3>2. CASE Cohort(a) # c
      <4>1. Has(a)
        BY <1>4, <1>17, <2>1, <3>2, Zenon
      <4> QED
        BY <1>1, <1>16, <3>2, <4>1, Zenon DEF IInv, PetersonInv
    <3> QED
      BY <3>1, <3>2, Zenon
  <2> QED
    BY <1>1, <1>17, <2>1, Zenon DEF IInv, PetersonInv
<1>20. BypassInv'
  <2>1. Credit(s)' = Credit(t)
    BY <1>2, <1>4, <1>5, <1>6 DEF Credit, Owning, Racing
  <2>2. ASSUME NEW a \in Threads, NEW b \in Threads, pc'[a] \in Racing, Cohort(b) = Other(a)
        PROVE  bypass[a] + Credit(b)' <= InitialBudget(Other(a))
    <3>1. pc[a] \in Racing
      BY <1>17, <2>2, Zenon
    <3>2. CASE b = t
      <4>1. bypass[a] \in Nat /\ bypass[a] <= InitialBudget(Other(a))
        BY <1>1, Zenon DEF Inv, IInv, TypeOK, BypassInv
      <4> QED
        BY <1>18, <3>2, <4>1
    <3>3. CASE b = s
      BY <1>4, <2>1, <2>2, <3>1, <3>3, Zenon DEF Inv, BypassInv
    <3>4. CASE b # t /\ b # s
      BY <1>17, <2>2, <3>1, <3>4, Zenon DEF Inv, BypassInv
    <3> QED
      BY <3>2, <3>3, <3>4, Zenon
  <2> QED
    BY <1>1, <1>17, <2>2, Zenon DEF Inv, BypassInv
<1> QED
  BY <1>2, <1>7, <1>9, <1>14, <1>15, <1>19, <1>20, Zenon DEF Inv, IInv

\* Nobody is queued at first.
LEMMA InitInv == Init => Inv
<1> SUFFICES ASSUME Init PROVE Inv
  OBVIOUS
<1>1. /\ \A t \in Threads : pc[t] = "idle" /\ bypass[t] = 0
      /\ \A c \in Cohorts : queue[c] = <<>> /\ tail[c] = None /\ Len(queue[c]) = 0
  BY Zenon DEF Init
<1>2. TypeOK
  BY DEF Init, TypeOK, PCs
<1>3. QueueInv /\ TailInv /\ PlaceInv /\ BudgetInv
  BY <1>1 DEF QueueInv, TailInv, PlaceInv, BudgetInv, InQ, Owning, Racing
<1>4. PetersonInv
  BY <1>1, Zenon DEF PetersonInv, Has, Owning, Racing
<1>5. BypassInv
  <2>1. \A t \in Threads : InitialBudget(Other(t)) \in Nat
    BY Constants, Zenon
  <2> QED
    BY <1>1, <2>1 DEF BypassInv, Racing
<1> QED
  BY <1>2, <1>3, <1>4, <1>5, Zenon DEF Inv, IInv

\* A step that changes no variable.
LEMMA StutterInv == Inv /\ UNCHANGED vars => Inv'
<1> SUFFICES ASSUME Inv, UNCHANGED vars PROVE Inv'
  OBVIOUS
<1>1. UNCHANGED <<tail, victim, budget, next, pc, prev, queue, bypass>>
  BY Zenon DEF vars
<1>2. TypeOK' /\ QueueInv' /\ TailInv'
  BY <1>1, Zenon DEF Inv, IInv, TypeOK, QueueInv, TailInv, InQ
<1>3. PlaceInv'
  BY <1>1 DEF Inv, IInv, PlaceInv, Placed
<1>4. BudgetInv'
  BY <1>1, Zenon DEF Inv, IInv, BudgetInv, InQ
<1>5. \A u \in Threads : /\ (Has(u)' <=> Has(u)) /\ Credit(u)' = Credit(u)
                         /\ (pc'[u] \in Racing <=> pc[u] \in Racing)
  BY <1>1, Zenon DEF Has, Credit
<1>6. PetersonInv' /\ BypassInv'
  BY <1>1, <1>5, QuietFrame, Zenon
<1> QED
  BY <1>2, <1>3, <1>4, <1>6, Zenon DEF Inv, IInv

-----------------------------------------------------------------------------
(***************************************************************************)
(* Theorems                                                                *)
(***************************************************************************)
\* Inv holds in every reachable state, whatever the threads and the budgets.
THEOREM Invariance == Spec => []Inv
<1>1. Init => Inv
  BY InitInv, Zenon
<1>2. Inv /\ [Next]_vars => Inv'
  <2> SUFFICES ASSUME Inv, [Next]_vars PROVE Inv'
    OBVIOUS
  <2>1. CASE UNCHANGED vars
    BY <2>1, StutterInv, Zenon
  <2>2. ASSUME NEW t \in Threads, Lock(t) \/ Step(t)
        PROVE  Inv'
    BY <2>2, LockInv, SwapTailInv, LinkPrevInv, SpinInv, SetVictimInv, ReadTailInv, ReadVictimInv,
       UnlockMoves, CasTailInv, HandOverInv, Zenon DEF Step
  <2> QED
    BY <2>1, <2>2, Zenon DEF Next
<1> QED
  BY <1>1, <1>2, PTL DEF Spec

\* MutualExclusion: at most one thread of both cohorts has the lock, and it is
\* the first of its queue.
THEOREM ALockMutualExclusion == Spec => []MutualExclusion
<1>1. Inv => MutualExclusion
  <2> SUFFICES ASSUME Inv, NEW t \in Threads, pc[t] \in Owning
               PROVE  queue[Cohort(t)][1] = t /\ \A u \in Threads \ {t} : pc[u] \notin Owning
    BY Zenon DEF MutualExclusion
  <2>1. pc[t] \in Front /\ IInv
    BY Zenon DEF Inv, Front
  <2>2. queue[Cohort(t)][1] = t
    BY <2>1, Heads, Zenon
  <2>3. ASSUME NEW u \in Threads \ {t}, pc[u] \in Owning PROVE FALSE
    <3>1. Cohort(u) # Cohort(t)
      BY <2>1, <2>3, OneHead, Zenon DEF Front
    <3> QED
      BY <2>1, <2>3, <3>1, Zenon DEF IInv, PetersonInv, Has
  <2> QED
    BY <2>2, <2>3, Zenon
<1> QED
  BY <1>1, Invariance, PTL

\* BoundedBypass: a thread in Peterson's loop is passed by at most as often as
\* the other cohort's budget allows.
THEOREM ALockBoundedBypass == Spec => []BoundedBypass
<1>1. Inv => BoundedBypass
  BY Zenon DEF Inv, BypassInv, BoundedBypass
<1> QED
  BY <1>1, Invariance, PTL
=============================================================================
