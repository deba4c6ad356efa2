---------------------------- MODULE FARLockGProofs ----------------------------
(***************************************************************************)
(* The batches of FARLockG.  Joining a queue, entering, moving             *)
(* current_ticket_ on, leaving and handing the batch on keep BInv, so that *)
(* it is an invariant, and with it mutual exclusion, the exclusion of      *)
(* Peterson's section, the bound on a batch and the bound on how often a   *)
(* waiting cohort is passed.                                               *)
(***************************************************************************)
EXTENDS FARLockGSteps

\* A leaf that names no prover is tried with SMT, then with Zenon.
USE SMTT(30), ZenonT(30)

-----------------------------------------------------------------------------
(***************************************************************************)
(* The critical section: steps that count an entry or move current_ticket. *)
(***************************************************************************)
\* The first of its queue has the current ticket: others with that ticket are
\* behind it in the batch.
LEMMA LoneTurn ==
  ASSUME QInv, BInv, NEW t \in Threads, NEW u \in Threads, t # u, lk[t] = lk[u],
         pc[t] \in Past, prev[t] = None \/ Granted(t), tk[t] = current_ticket[lk[t]],
         HasTk(u), Tk(u) = current_ticket[lk[u]]
  PROVE  /\ pos[t] < pos[u] /\ Valid(t) = kFalse /\ Batch(u)
         /\ prev[u] # None /\ ~Granted(u) /\ pc[u] \notin Holds
<1>1. HasTk(t) /\ Queued(t) /\ Tk(t) = tk[t]
  BY HasTkIf, Zenon
<1>2. Queued(u)
  BY Zenon DEF HasTk, Passed, Queued, Waits, Drawn, Past, Holds, Leaving
<1>3. /\ Coh(t) = Coh(u)
      /\ ~Batch(u) /\ ~Batch(t) => u = t
      /\ ~Batch(u) /\ Batch(t) => pos[u] < pos[t]
      /\ pos[t] < pos[u] => Valid(t) = kFalse
  BY <1>1, Zenon DEF BInv, ShareInv
<1>4. SameQueue(t, u)
  BY <1>3, Zenon DEF SameQueue
<1>5. pos[t] < pos[u] /\ ~(prev[u] = None \/ Granted(u))
  BY <1>1, <1>2, <1>4, OneHead, Zenon
<1>6. ~(pos[u] < pos[t])
  BY <1>5 DEF QInv, TypeOK
<1>7. pc[u] \notin Holds
  BY <1>5, HolderIsHead, Zenon
<1> QED
  BY <1>3, <1>5, <1>6, <1>7, Zenon

\* A step of the first of a queue, which has the current ticket, from the wait
\* for its turn into the critical section or from there on.
Clock(t) ==
  /\ Local(t) /\ (prev[t] = None \/ Granted(t)) /\ tk[t] = current_ticket[lk[t]]
  /\ pc[t] \in {"waitgrant", "waitturn", "cs"} /\ pc'[t] \in {"cs", "ulnext"}
  /\ Bud(t)' = Bud(t) /\ Valid(t)' = Valid(t) /\ tk'[t] = tk[t] /\ from_prev'[t] = from_prev[t]
  /\ \A l \in Locks : l # lk[t] => current_ticket'[l] = current_ticket[l] /\ uses'[l] = uses[l]
  /\ UNCHANGED <<flag, victim, next_ticket>>

LEMMA ClockInv ==
  ASSUME QInv, BInv, NEW t \in Threads, Clock(t)
  PROVE  /\ (/\ OrderInv /\ ValidInv /\ ChainInv /\ ShareInv /\ PetersonInv)'
         /\ pc[t] \in Past /\ pc'[t] \in Past /\ pc'[t] \in Holds /\ HasTk(t) /\ HasTk(t)'
         /\ Tk(t) = tk[t] /\ Tk(t)' = tk[t] /\ (Batch(t)' <=> Batch(t)) /\ ~Passed(t)
         /\ \A u \in Threads : u # t /\ Holding(u) => lk[u] # lk[t]
<1>1. /\ Local(t) /\ (prev[t] = None \/ Granted(t)) /\ tk[t] = current_ticket[lk[t]]
      /\ pc[t] \in {"waitgrant", "waitturn", "cs"} /\ pc'[t] \in {"cs", "ulnext"}
      /\ Bud(t)' = Bud(t) /\ Valid(t)' = Valid(t) /\ tk'[t] = tk[t] /\ from_prev'[t] = from_prev[t]
      /\ \A l \in Locks : l # lk[t] => current_ticket'[l] = current_ticket[l] /\ uses'[l] = uses[l]
      /\ UNCHANGED <<flag, victim, next_ticket>>
  BY Zenon DEF Clock
<1>2. OrderInv /\ ValidInv /\ BudgetInv /\ ChainInv /\ HoldInv /\ TicketInv /\ ShareInv /\ PetersonInv
  BY Zenon DEF BInv
<1>3. /\ pc[t] \in Past /\ pc[t] \notin Waits /\ pc'[t] \in Past /\ pc'[t] \in Holds
      /\ pc'[t] \notin Waits
  BY <1>1, Zenon DEF Past, Holds, Leaving, Waits
<1>4. ~Passed(t) /\ ~Passed(t)' /\ ~Blocked(t)
  BY <1>1, <1>3, Zenon DEF Passed, Blocked
<1>5. HasTk(t) /\ HasTk(t)' /\ Tk(t) = tk[t] /\ Tk(t)' = tk[t] /\ (Batch(t)' <=> Batch(t))
  BY <1>1, <1>3, <1>4, Zenon DEF HasTk, Tk, Batch
<1>6. ASSUME NEW u \in Threads, u # t, Holding(u), lk[u] = lk[t] PROVE FALSE
  <2>1. pc[u] \in Past /\ pc[u] \in Holds /\ HasTk(u) /\ Tk(u) = tk[u]
    BY <1>6, HasTkIf, Zenon
  <2>2. tk[u] = current_ticket[lk[u]]
    BY <1>2, <1>6, Zenon DEF HoldInv
  <2> QED BY <1>1, <1>3, <1>6, <2>1, <2>2, LoneTurn, Zenon
<1>7. OrderInv'
  BY <1>1, <1>2, <1>3, <1>4, KeepOrder, Zenon
<1>8. ValidInv'
  <2>1. pc'[t] \notin {"swap", "link", "recheck", "give", "release"}
    BY <1>1, Zenon
  <2> QED BY <1>1, <1>2, <1>3, <1>5, <2>1, KeepValid, Zenon
<1>9. ShareInv'
  BY <1>1, <1>2, <1>5, KeepShare, Zenon
<1>10. PetersonInv'
  <2>1. ~Sec(t)' /\ pc'[t] \notin {"victim", "spin1", "spin2"}
    BY <1>1, <1>4, Zenon DEF Sec
  <2> QED BY <1>1, <1>2, <2>1, KeepPeterson, Zenon
<1>11. ChainInv'
  <2> SUFFICES ASSUME NEW u \in Threads, Batch(u)'
               PROVE  (/\ prev[u] # None
                       /\ ~Granted(u) =>
                            /\ pc[prev[u]] \in Past /\ Valid(prev[u]) = kFalse
                            /\ tk[prev[u]] = Tk(u) /\ Bud(prev[u]) = Bud(u) + 1
                       /\ Granted(u) /\ pc[u] \notin Holds =>
                            Tk(u) = current_ticket[lk[u]] /\ uses[lk[u]] = Budget(Coh(u)) - Bud(u))'
    BY Zenon DEF ChainInv
  <2>1. Batch(u) /\ Tk(u)' = Tk(u) /\ Bud(u)' = Bud(u) /\ (u # t => pc'[u] = pc[u])
    BY <1>1, <1>5, LocalView, Zenon DEF Same, View
  <2>2. PICK p \in Threads : p = prev[u]
    BY <1>2, <2>1, Zenon DEF ChainInv, QInv, TypeOK
  <2>3. pc[p] \in Past => /\ pc'[p] \in Past /\ tk'[p] = tk[p]
                          /\ Bud(p)' = Bud(p) /\ Valid(p)' = Valid(p)
    BY <1>1, <1>3, LocalView, Zenon DEF Same
  <2>4. /\ Coh(u)' = Coh(u) /\ (Granted(u)' <=> Granted(u)) /\ lk'[u] = lk[u] /\ p = prev'[u]
        /\ Bud(prev[u])' = Bud(p)' /\ Valid(prev[u])' = Valid(p)'
    BY <1>1, <2>2, LocalView, Zenon
  <2>5. Granted(u) /\ pc'[u] \notin Holds => u # t /\ lk[u] # lk[t] /\ lk[u] \in Locks
    <3>1. ASSUME Granted(u), pc'[u] \notin Holds PROVE u # t /\ lk[u] # lk[t] /\ lk[u] \in Locks
      <4>1. u # t /\ pc[u] \notin Holds
        BY <1>3, <2>1, <3>1, Zenon
      <4>2. HasTk(u) /\ Tk(u) = current_ticket[lk[u]]
        BY <1>2, <2>1, <3>1, <4>1, HasTkIf, Zenon DEF ChainInv, BudgetInv
      <4>3. lk[u] \in Locks
        BY <4>2, Zenon DEF HasTk, Passed, Waits, Drawn, Past, Holds, Leaving, QInv, LkInv
      <4> QED BY <1>1, <1>3, <3>1, <4>1, <4>2, <4>3, LoneTurn, Zenon
    <3> QED BY <3>1, Zenon
  <2>6. Granted(u) /\ pc'[u] \notin Holds =>
          Tk(u) = current_ticket'[lk[u]] /\ uses'[lk[u]] = Budget(Coh(u)) - Bud(u)
    BY <1>1, <1>2, <2>1, <2>5, Zenon DEF ChainInv
  <2> QED
    BY <1>2, <2>1, <2>2, <2>3, <2>4, <2>6, Zenon DEF ChainInv
<1> QED
  BY <1>3, <1>4, <1>5, <1>6, <1>7, <1>8, <1>9, <1>10, <1>11, Zenon

\* Lock returns: one more thread has entered under the current ticket.
LEMMA EnterInv ==
  ASSUME QInv, BInv, NEW t \in Threads, Clock(t), pc'[t] = "cs", pc[t] # "cs",
         current_ticket' = current_ticket, uses'[lk[t]] = uses[lk[t]] + 1,
         uses[lk[t]] = Budget(Coh(t)) - Bud(t), Bt(t)' = tk[t]
  PROVE  BInv'
<1>1. /\ Local(t) /\ (prev[t] = None \/ Granted(t)) /\ tk[t] = current_ticket[lk[t]]
      /\ pc[t] \in {"waitgrant", "waitturn", "cs"}
      /\ Bud(t)' = Bud(t) /\ Valid(t)' = Valid(t) /\ tk'[t] = tk[t] /\ from_prev'[t] = from_prev[t]
      /\ \A l \in Locks : l # lk[t] => current_ticket'[l] = current_ticket[l] /\ uses'[l] = uses[l]
      /\ UNCHANGED <<flag, victim, next_ticket>>
  BY Zenon DEF Clock
<1>2. OrderInv /\ ValidInv /\ BudgetInv /\ ChainInv /\ HoldInv /\ TicketInv /\ ShareInv /\ PetersonInv
  BY Zenon DEF BInv
<1>3. /\ (/\ OrderInv /\ ValidInv /\ ChainInv /\ ShareInv /\ PetersonInv)'
      /\ pc[t] \in Past /\ pc'[t] \in Past /\ pc'[t] \in Holds /\ HasTk(t) /\ HasTk(t)'
      /\ Tk(t) = tk[t] /\ Tk(t)' = tk[t] /\ (Batch(t)' <=> Batch(t)) /\ ~Passed(t)
      /\ \A u \in Threads : u # t /\ Holding(u) => lk[u] # lk[t]
  BY ClockInv, Zenon
<1>v. \A u \in Threads :
        /\ lk'[u] = lk[u] /\ Coh(u)' = Coh(u) /\ (Queued(u)' <=> Queued(u))
        /\ u # t => /\ pc'[u] = pc[u] /\ tk'[u] = tk[u] /\ (HasTk(u)' <=> HasTk(u))
                    /\ Tk(u)' = Tk(u) /\ (Batch(u)' <=> Batch(u)) /\ (Over(u)' <=> Over(u))
                    /\ (Holding(u)' <=> Holding(u)) /\ Bt(u)' = Bt(u) /\ Bud(u)' = Bud(u)
  BY <1>1, LocalView, Zenon DEF Same, View
<1>l. \A u \in Threads : HasTk(u) => lk[u] \in Locks
  BY Zenon DEF HasTk, Passed, Waits, Drawn, Past, Holds, Leaving, QInv, LkInv
<1>4. BudgetInv'
  <2>1. BudgetOf(t) /\ Queued(t)
    BY <1>2, <1>3, HasTkIf, Zenon DEF BudgetInv
  <2>2. pc'[t] \notin Peterson \cup {"faa", "faawrite", "gotbudget", "passticket", "passbudget"}
    BY Zenon DEF Peterson
  <2>3. BudgetOf(t)'
    BY <1>1, <1>3, <1>v, <2>1, <2>2, Zenon DEF BudgetOf
  <2>4. \A u \in Threads : pc[u] = "passbudget" => Suc(u) # t
    <3>1. ASSUME NEW u \in Threads, pc[u] = "passbudget", Suc(u) = t PROVE FALSE
      <4>1. Queued(u) /\ pc[u] \notin Past
        BY <3>1, Zenon DEF Queued, Past, Holds, Leaving
      <4>2. SameQueue(u, t) /\ pos[t] = pos[u] + 1 /\ pos[u] \in Nat
        BY <3>1, <4>1, Zenon DEF Suc, QInv, TypeOK, NextInv
      <4>3. pos[u] < pos[t]
        BY <4>2
      <4>4. Blocked(t)
        BY <1>2, <2>1, <4>1, <4>2, <4>3, Zenon DEF OrderInv
      <4> QED BY <1>2, <1>3, <4>4, BlockedIsOut, Zenon
    <3> QED BY <3>1, Zenon
  <2> QED BY <1>1, <1>2, <2>2, <2>3, <2>4, KeepBudget, Zenon
<1>5. HoldInv'
  <2>1. ASSUME NEW u \in Threads, Holding(u)'
        PROVE  (/\ tk[u] = current_ticket[lk[u]] /\ Bt(u) = tk[u]
                /\ uses[lk[u]] = Budget(Coh(u)) - Bud(u) + 1)'
    <3>1. CASE u = t
      BY <1>1, <1>v, <3>1, Zenon
    <3>2. CASE u # t
      <4>1. Holding(u) /\ lk[u] # lk[t] /\ lk[u] \in Locks
        BY <1>3, <1>l, <1>v, <2>1, <3>2, HasTkIf, Zenon
      <4>2. /\ tk[u] = current_ticket[lk[u]] /\ Bt(u) = tk[u]
            /\ uses[lk[u]] = Budget(Coh(u)) - Bud(u) + 1
        BY <1>2, <4>1, Zenon DEF HoldInv
      <4>3. current_ticket'[lk[u]] = current_ticket[lk[u]] /\ uses'[lk[u]] = uses[lk[u]]
        BY <1>1, <4>1, Zenon
      <4> QED BY <1>v, <3>2, <4>2, <4>3, Zenon
    <3> QED BY <3>1, <3>2, Zenon
  <2> QED BY <2>1, Zenon DEF HoldInv
<1>6. TicketInv'
  <2>1. lk[t] \in Locks /\ current_ticket[lk[t]] # next_ticket[lk[t]]
    <3>1. lk[t] \in Locks /\ tk[t] < next_ticket[lk[t]]
      BY <1>2, <1>3, <1>l, Zenon DEF TicketInv
    <3> QED BY <1>1, <3>1 DEF QInv, TypeOK
  <2>2. \A l \in Locks :
          /\ current_ticket'[l] <= next_ticket'[l]
          /\ current_ticket'[l] = next_ticket'[l] => uses'[l] = 0
    BY <1>1, <1>2, <2>1, Zenon DEF TicketInv
  <2>3. ~Over(t) /\ pc'[t] # "faawrite"
    BY <1>1, Zenon DEF Over, Leaving
  <2>4. ASSUME NEW u \in Threads
        PROVE  (/\ pc[u] = "faawrite" => tk[u] = next_ticket[lk[u]] /\ Coh(u) = "remote"
                /\ HasTk(u) => Tk(u) < next_ticket[lk[u]]
                /\ HasTk(u) /\ ~Over(u) => current_ticket[lk[u]] <= Tk(u))'
    <3>1. CASE u = t
      BY <1>1, <1>2, <1>3, <1>v, <2>3, <3>1, Zenon DEF TicketInv
    <3>2. CASE u # t
      BY <1>1, <1>2, <1>v, <3>2, Zenon DEF TicketInv
    <3> QED BY <3>1, <3>2, Zenon
  <2>5. ASSUME NEW u \in Threads, HasTk(u)', ~Batch(u)', pc'[u] \notin Holds,
               Tk(u)' = current_ticket'[lk'[u]]
        PROVE  uses'[lk'[u]] = 0
    <3>1. u # t
      BY <1>3, <2>5, Zenon
    <3>2. HasTk(u) /\ ~Batch(u) /\ pc[u] \notin Holds /\ Tk(u) = current_ticket[lk[u]]
      BY <1>v, <2>5, <3>1, Zenon
    <3>3. lk[u] # lk[t]
      BY <1>1, <1>3, <3>1, <3>2, LoneTurn, Zenon
    <3>4. uses[lk[u]] = 0
      BY <1>2, <3>2, Zenon DEF TicketInv
    <3>5. uses'[lk[u]] = uses[lk[u]] /\ lk'[u] = lk[u]
      BY <1>1, <1>l, <1>v, <3>2, <3>3, Zenon
    <3> QED BY <3>4, <3>5, Zenon
  <2> QED BY <2>2, <2>4, <2>5, Zenon DEF TicketInv
<1> QED
  BY <1>3, <1>4, <1>5, <1>6, Zenon DEF BInv

LEMMA AwaitPredecessorBInv ==
  ASSUME QInv, BInv, NEW t \in Threads, AwaitPredecessor(t), from_prev[t]
  PROVE  BInv'
<1>1. /\ pc[t] = "waitgrant" /\ pc' = [pc EXCEPT ![t] = "cs"] /\ Granted(t)
      /\ uses' = [uses EXCEPT ![lk[t]] = uses[lk[t]] + 1]
      /\ UNCHANGED <<flag, victim, next_ticket, current_ticket, next, ticket_valid, batch_ticket,
                     budget, granted, lk, prev, tk, from_prev, vbuf, pos>>
  BY Zenon DEF AwaitPredecessor, Goto, Granted, lockVars, descVars, threadVars
<1>2. Queued(t) /\ lk[t] \in Locks /\ "cs" \notin {"idle", "swap"}
  BY <1>1, Zenon DEF Queued, QInv, LkInv
<1>3. Local(t) /\ Own(t) /\ pc'[t] = "cs"
  BY <1>1, <1>2, MoveOn, Zenon
<1>4. /\ uses'[lk[t]] = uses[lk[t]] + 1
      /\ \A l \in Locks : l # lk[t] => uses'[l] = uses[l]
  BY <1>1, <1>2, Zenon DEF QInv, TypeOK
<1>5. Batch(t) /\ pc[t] \notin Holds /\ Tk(t) = tk[t]
  BY <1>1, Zenon DEF Batch, Holds, Leaving, Tk, Waits
<1>6. tk[t] = current_ticket[lk[t]] /\ uses[lk[t]] = Budget(Coh(t)) - Bud(t)
  BY <1>1, <1>5, Zenon DEF BInv, ChainInv
<1>7. Bt(t)' = tk[t]
  BY <1>3, Zenon DEF BInv, BudgetInv, BudgetOf, Own
<1>8. Clock(t) /\ pc[t] # "cs"
  BY <1>1, <1>3, <1>4, <1>6, Zenon DEF Clock, Own
<1> QED
  BY <1>1, <1>3, <1>4, <1>6, <1>7, <1>8, EnterInv, Zenon

LEMMA AwaitTicketBInv ==
  ASSUME QInv, BInv, NEW t \in Threads, AwaitTicket(t)
  PROVE  BInv'
<1>1. /\ pc[t] = "waitturn" /\ pc' = [pc EXCEPT ![t] = "cs"] /\ tk[t] = current_ticket[lk[t]]
      /\ uses' = [uses EXCEPT ![lk[t]] = uses[lk[t]] + 1]
      /\ batch_ticket' = [batch_ticket EXCEPT ![Coh(t)][t] = tk[t]]
      /\ UNCHANGED <<flag, victim, next_ticket, current_ticket, next, ticket_valid,
                     budget, granted, lk, prev, tk, from_prev, vbuf, pos>>
  BY Zenon DEF AwaitTicket, Goto, lockVars, threadVars
<1>2. /\ Queued(t) /\ lk[t] \in Locks /\ "cs" \notin {"idle", "swap"}
      /\ batch_ticket'[Coh(t)][t] = tk[t]
      /\ \A u \in Threads : u # t => \A c \in Cohorts : batch_ticket'[c][u] = batch_ticket[c][u]
  BY <1>1, CohType, Zenon DEF Queued, QInv, LkInv, TypeOK
<1>3. Local(t) /\ pc'[t] = "cs" /\ Coh(t)' = Coh(t)
  BY <1>1, <1>2, OwnStep, Zenon
<1>4. /\ uses'[lk[t]] = uses[lk[t]] + 1
      /\ \A l \in Locks : l # lk[t] => uses'[l] = uses[l]
  BY <1>1, <1>2, Zenon DEF QInv, TypeOK
<1>5. /\ Bud(t)' = Bud(t) /\ Valid(t)' = Valid(t) /\ Bt(t)' = tk[t]
      /\ tk'[t] = tk[t] /\ from_prev'[t] = from_prev[t]
  BY <1>1, <1>2, <1>3, Zenon DEF Bud, Valid, Bt
<1>6. /\ pc[t] \notin Holds /\ Tk(t) = tk[t] /\ HasTk(t) /\ (Batch(t) <=> from_prev[t])
      /\ pc[t] \in Past
  BY <1>1, Zenon DEF Batch, Passed, Holds, Leaving, Tk, HasTk, Past, Waits
<1>7. prev[t] = None \/ Granted(t)
  BY <1>1, HolderIsHead, Zenon
<1>8. uses[lk[t]] = Budget(Coh(t)) - Bud(t)
  <2>1. CASE Batch(t)
    BY <1>1, <1>6, <1>7, <2>1, Zenon DEF BInv, ChainInv
  <2>2. CASE ~Batch(t)
    <3>1. uses[lk[t]] = 0
      BY <1>1, <1>6, <2>2, Zenon DEF BInv, TicketInv
    <3>2. Bud(t) = Budget(Coh(t))
      BY <1>6, <2>2, Zenon DEF BInv, BudgetInv, BudgetOf
    <3> QED BY <3>1, <3>2, BudgetAssumption DEF Budget
  <2> QED BY <2>1, <2>2, Zenon
<1>9. Clock(t) /\ pc[t] # "cs"
  BY <1>1, <1>3, <1>4, <1>5, <1>7, Zenon DEF Clock
<1> QED
  BY <1>1, <1>3, <1>4, <1>5, <1>8, <1>9, EnterInv, Zenon

\* The last of a batch moves current_ticket on by one: it entered under the
\* current ticket, and nobody else has that ticket any more.
LEMMA BumpCurrentBInv ==
  ASSUME QInv, BInv, NEW t \in Threads, BumpCurrent(t)
  PROVE  BInv'
<1>1. /\ pc[t] = "cs" /\ pc' = [pc EXCEPT ![t] = "ulnext"]
      /\ current_ticket' = [current_ticket EXCEPT ![lk[t]] = IF Valid(t) = kTrue THEN Bt(t) + 1 ELSE @]
      /\ uses' = [uses EXCEPT ![lk[t]] = IF Valid(t) = kTrue THEN 0 ELSE @]
      /\ UNCHANGED <<flag, victim, next_ticket, next, ticket_valid, batch_ticket,
                     budget, granted, lk, prev, tk, from_prev, vbuf, pos>>
  BY Zenon DEF BumpCurrent, Goto, Valid, Bt, descVars, threadVars
<1>2. Queued(t) /\ lk[t] \in Locks /\ "ulnext" \notin {"idle", "swap"}
  BY <1>1, Zenon DEF Queued, QInv, LkInv
<1>3. Local(t) /\ Own(t) /\ pc'[t] = "ulnext"
  BY <1>1, <1>2, MoveOn, Zenon
<1>4. OrderInv /\ ValidInv /\ BudgetInv /\ ChainInv /\ HoldInv /\ TicketInv /\ ShareInv /\ PetersonInv
  BY Zenon DEF BInv
<1>5. Holding(t) /\ tk[t] = current_ticket[lk[t]] /\ Bt(t) = tk[t]
  BY <1>1, <1>4, Zenon DEF Holding, HoldInv
<1>6. prev[t] = None \/ Granted(t)
  BY <1>1, HolderIsHead, Zenon DEF Holds
<1>7. \A l \in Locks : l # lk[t] => current_ticket'[l] = current_ticket[l] /\ uses'[l] = uses[l]
  BY <1>1, Zenon DEF QInv, TypeOK
<1>8. Clock(t)
  BY <1>1, <1>3, <1>5, <1>6, <1>7, Zenon DEF Clock, Own
<1>9. /\ (/\ OrderInv /\ ValidInv /\ ChainInv /\ ShareInv /\ PetersonInv)'
      /\ pc[t] \in Past /\ pc'[t] \in Past /\ pc'[t] \in Holds /\ HasTk(t) /\ HasTk(t)'
      /\ Tk(t) = tk[t] /\ Tk(t)' = tk[t] /\ (Batch(t)' <=> Batch(t)) /\ ~Passed(t)
      /\ \A u \in Threads : u # t /\ Holding(u) => lk[u] # lk[t]
  BY <1>8, ClockInv, Zenon
<1>v. \A u \in Threads :
        /\ lk'[u] = lk[u] /\ Coh(u)' = Coh(u) /\ (Queued(u)' <=> Queued(u))
        /\ u # t => /\ pc'[u] = pc[u] /\ tk'[u] = tk[u] /\ (HasTk(u)' <=> HasTk(u))
                    /\ Tk(u)' = Tk(u) /\ (Batch(u)' <=> Batch(u)) /\ (Over(u)' <=> Over(u))
                    /\ (Holding(u)' <=> Holding(u)) /\ Bt(u)' = Bt(u) /\ Bud(u)' = Bud(u)
  BY <1>3, LocalView, Zenon DEF Same, View
<1>l. \A u \in Threads : HasTk(u) => lk[u] \in Locks
  BY Zenon DEF HasTk, Passed, Waits, Drawn, Past, Holds, Leaving, QInv, LkInv
<1>10. BudgetInv'
  <2>1. BudgetOf(t)
    BY <1>4, Zenon DEF BudgetInv
  <2>2. pc'[t] \notin Peterson \cup {"faa", "faawrite", "gotbudget", "passticket", "passbudget"}
    BY <1>3, Zenon DEF Peterson
  <2>3. BudgetOf(t)'
    BY <1>2, <1>3, <1>9, <2>1, <2>2, Zenon DEF BudgetOf, Own
  <2> QED BY <1>3, <1>4, <2>2, <2>3, KeepBudget, Zenon DEF Own
<1>11. CASE Valid(t) # kTrue
  <2>1. current_ticket' = current_ticket /\ uses' = uses
    BY <1>1, <1>11, Zenon DEF QInv, TypeOK
  <2>2. HoldInv'
    BY <1>3, <1>4, <1>5, <2>1, KeepHold, Zenon DEF Own
  <2>3. TicketInv'
    <3>1. ~Over(t) /\ pc'[t] # "faawrite"
      BY <1>1, <1>3, Zenon DEF Over, Leaving
    <3> QED BY <1>1, <1>3, <1>4, <1>9, <2>1, <3>1, KeepTicket, Zenon
  <2> QED BY <1>9, <1>10, <2>2, <2>3, Zenon DEF BInv
<1>12. CASE Valid(t) = kTrue
  <2>1. current_ticket'[lk[t]] = current_ticket[lk[t]] + 1 /\ uses'[lk[t]] = 0
    BY <1>1, <1>2, <1>5, <1>12, Zenon DEF QInv, TypeOK
  <2>2. HoldInv'
    <3>1. ~Holding(t)'
      <4>1. kTrue # kFalse
        BY DEF kTrue, kFalse
      <4> QED BY <1>3, <1>12, <4>1, Zenon DEF Holding, Own
    <3>2. ASSUME NEW u \in Threads, Holding(u)'
          PROVE  (/\ tk[u] = current_ticket[lk[u]] /\ Bt(u) = tk[u]
                  /\ uses[lk[u]] = Budget(Coh(u)) - Bud(u) + 1)'
      <4>1. u # t /\ Holding(u) /\ lk[u] # lk[t] /\ lk[u] \in Locks
        BY <1>9, <1>l, <1>v, <3>1, <3>2, HasTkIf, Zenon
      <4>2. /\ tk[u] = current_ticket[lk[u]] /\ Bt(u) = tk[u]
            /\ uses[lk[u]] = Budget(Coh(u)) - Bud(u) + 1
        BY <1>4, <4>1, Zenon DEF HoldInv
      <4>3. current_ticket'[lk[u]] = current_ticket[lk[u]] /\ uses'[lk[u]] = uses[lk[u]]
        BY <1>7, <4>1, Zenon
      <4> QED BY <1>v, <4>1, <4>2, <4>3, Zenon
    <3> QED BY <3>2, Zenon DEF HoldInv
  <2>3. TicketInv'
    <3>1. /\ tk[t] < next_ticket[lk[t]] /\ tk[t] \in Nat
          /\ \A l \in Locks : next_ticket[l] \in Nat /\ current_ticket[l] \in Nat
          /\ \A u \in Threads : Tk(u) \in Nat
      BY <1>4, <1>9, CohType DEF TicketInv, QInv, TypeOK, Tk, Bt
    <3>2. \A l \in Locks :
            /\ current_ticket'[l] <= next_ticket'[l]
            /\ current_ticket'[l] = next_ticket'[l] => uses'[l] = 0
      BY <1>1, <1>2, <1>4, <1>5, <1>7, <2>1, <3>1 DEF TicketInv
    <3>3. Over(t)'
      BY <1>3, <1>12, Zenon DEF Over, Leaving, Own
    <3>4. ASSUME NEW u \in Threads
          PROVE  (/\ pc[u] = "faawrite" => tk[u] = next_ticket[lk[u]] /\ Coh(u) = "remote"
                  /\ HasTk(u) => Tk(u) < next_ticket[lk[u]])'
      <4>1. CASE u = t
        BY <1>1, <1>3, <1>9, <1>v, <3>1, <4>1, Zenon
      <4>2. CASE u # t
        BY <1>1, <1>4, <1>v, <4>2, Zenon DEF TicketInv
      <4> QED BY <4>1, <4>2, Zenon
    <3>5. ASSUME NEW u \in Threads, HasTk(u)', ~Over(u)'
          PROVE  current_ticket'[lk'[u]] <= Tk(u)'
      <4>1. /\ u # t /\ HasTk(u) /\ ~Over(u) /\ lk[u] \in Locks /\ lk'[u] = lk[u] /\ Tk(u)' = Tk(u)
            /\ current_ticket[lk[u]] <= Tk(u)
        BY <1>4, <1>l, <1>v, <3>3, <3>5, Zenon DEF TicketInv
      <4>2. CASE lk[u] # lk[t]
        BY <1>7, <4>1, <4>2, Zenon
      <4>3. CASE lk[u] = lk[t]
        <5>1. Tk(u) # current_ticket[lk[u]]
          <6>1. kTrue # kFalse
            BY DEF kTrue, kFalse
          <6> QED BY <1>5, <1>6, <1>9, <1>12, <4>1, <4>3, <6>1, LoneTurn, Zenon
        <5> QED BY <2>1, <3>1, <4>1, <4>3, <5>1
      <4> QED BY <4>2, <4>3, Zenon
    <3>6. ASSUME NEW u \in Threads, HasTk(u)', ~Batch(u)', pc'[u] \notin Holds,
                 Tk(u)' = current_ticket'[lk'[u]]
          PROVE  uses'[lk'[u]] = 0
      <4>1. u # t /\ HasTk(u) /\ ~Batch(u) /\ pc[u] \notin Holds /\ lk[u] \in Locks
        BY <1>9, <1>l, <1>v, <3>6, Zenon
      <4>2. CASE lk[u] = lk[t]
        BY <1>v, <2>1, <4>2, Zenon
      <4>3. CASE lk[u] # lk[t]
        <5>1. Tk(u) = current_ticket[lk[u]] /\ lk'[u] = lk[u] /\ uses'[lk[u]] = uses[lk[u]]
          BY <1>7, <1>v, <3>6, <4>1, <4>3, Zenon
        <5>2. uses[lk[u]] = 0
          BY <1>4, <4>1, <5>1, Zenon DEF TicketInv
        <5> QED BY <5>1, <5>2, Zenon
      <4> QED BY <4>2, <4>3, Zenon
    <3> QED BY <3>2, <3>4, <3>5, <3>6, Zenon DEF TicketInv
  <2> QED BY <1>9, <1>10, <2>2, <2>3, Zenon DEF BInv
<1> QED
  BY <1>11, <1>12, Zenon

-----------------------------------------------------------------------------
(***************************************************************************)
(* Steps after which a thread takes no part in a batch: it is out of the   *)
(* queue, or has only just joined it.                                      *)
(***************************************************************************)
Apart(t) ==
  /\ pc'[t] \in {"idle", "swap", "setbudget", "link", "readvalid"} /\ ~from_prev'[t]
  /\ pc'[t] # "idle" => Valid(t)' = kFalse /\ Bud(t)' = NoBudget
  /\ \A u \in Threads : u # t =>
       /\ Same(u) /\ (Suc(u)' = Suc(u) \/ Suc(u)' = t) /\ (Granted(u) => Granted(u)')
       /\ pc[u] = "release" /\ tk[u] = kTrue => prev[u] # t
       /\ pc[u] = "passbudget" => Suc(u)' # t
       /\ Batch(u) /\ ~Granted(u)' => prev[u] # t
       /\ Batch(u) /\ ~Granted(u) /\ Granted(u)' =>
            Tk(u) = current_ticket[lk[u]] /\ uses[lk[u]] = Budget(Coh(u)) - Bud(u)
  /\ UNCHANGED <<flag, victim, next_ticket, current_ticket, uses>>

LEMMA ApartInv ==
  ASSUME QInv, BInv, NEW t \in Threads, Apart(t), OrderInv'
  PROVE  BInv'
<1>1. /\ pc'[t] \in {"idle", "swap", "setbudget", "link", "readvalid"} /\ ~from_prev'[t]
      /\ pc'[t] # "idle" => Valid(t)' = kFalse /\ Bud(t)' = NoBudget
      /\ \A u \in Threads : u # t =>
           /\ Same(u) /\ (Suc(u)' = Suc(u) \/ Suc(u)' = t) /\ (Granted(u) => Granted(u)')
           /\ pc[u] = "release" /\ tk[u] = kTrue => prev[u] # t
           /\ pc[u] = "passbudget" => Suc(u)' # t
           /\ Batch(u) /\ ~Granted(u)' => prev[u] # t
           /\ Batch(u) /\ ~Granted(u) /\ Granted(u)' =>
                Tk(u) = current_ticket[lk[u]] /\ uses[lk[u]] = Budget(Coh(u)) - Bud(u)
      /\ UNCHANGED <<flag, victim, next_ticket, current_ticket, uses>>
  BY Zenon DEF Apart
<1>2. OrderInv /\ ValidInv /\ BudgetInv /\ ChainInv /\ HoldInv /\ TicketInv /\ ShareInv /\ PetersonInv
  BY Zenon DEF BInv
<1>3. /\ ~Batch(t)' /\ ~HasTk(t)' /\ ~Contends(t)' /\ ~Sec(t)' /\ ~Holding(t)'
      /\ pc'[t] \notin {"recheck", "give", "release", "passbudget", "gotbudget", "passticket",
                        "spin1", "spin2", "faa", "faawrite"} \cup Drawn \cup Past \cup Peterson
      /\ Queued(t)' => Bud(t)' = NoBudget /\ Valid(t)' = kFalse
  <2>1. ~Passed(t)'
    BY <1>1, Zenon DEF Passed, Waits
  <2>2. pc'[t] \notin {"recheck", "give", "release", "passbudget", "gotbudget", "passticket",
                        "spin1", "spin2", "faa", "faawrite"} \cup Drawn \cup Past \cup Peterson
    BY <1>1, Zenon DEF Drawn, Past, Holds, Leaving, Peterson
  <2>3. ~Batch(t)' /\ ~HasTk(t)' /\ ~Sec(t)' /\ ~Holding(t)'
    BY <1>1, <2>1, <2>2, Zenon DEF Batch, HasTk, Sec, Holding, Past, Holds, Drawn
  <2>4. ~Contends(t)'
    BY <2>2, <2>3, Zenon DEF Contends, Peterson
  <2> QED BY <1>1, <2>2, <2>3, <2>4, Zenon DEF Queued
<1>4. \A u \in Threads : u # t => View(u)
  BY <1>1, SameView, Zenon
<1>5. ValidInv'
  <2>1. ASSUME NEW u \in Threads, pc'[u] = "release", tk'[u] = kTrue PROVE Valid(prev[u])' = kTrue
    <3>1. u # t /\ pc[u] = "release" /\ tk[u] = kTrue /\ prev'[u] = prev[u]
      BY <1>1, <1>3, <2>1, Zenon DEF Same
    <3>2. prev[u] \in Threads /\ prev[u] # t
      BY <1>1, <3>1, Zenon DEF QInv, TypeOK, PrevInv, Linking
    <3>3. PICK p \in Threads : p = prev[u] /\ p # t /\ Valid(p) = kTrue
      BY <1>2, <3>1, <3>2, Zenon DEF ValidInv
    <3>4. Valid(p)' = kTrue
      BY <1>1, <3>3, Zenon DEF Same
    <3> QED BY <3>1, <3>3, <3>4, Zenon
  <2>2. ASSUME NEW u \in Threads
        PROVE  (/\ pc[u] \in {"swap", "link"} => Valid(u) = kFalse /\ Bud(u) = NoBudget
                /\ pc[u] \in {"recheck", "give"} => Valid(u) = kTrue
                /\ Queued(u) /\ Valid(u) = kTrue =>
                     pc[u] \in Past /\ \A v \in Threads : Suc(u) = v => ~Batch(v))'
    <3>1. CASE u = t
      <4>1. kTrue # kFalse
        BY DEF kTrue, kFalse
      <4> QED BY <1>1, <1>3, <3>1, <4>1, Zenon
    <3>2. CASE u # t
      <4>1. \A v \in Threads : Suc(u)' = v /\ Batch(v)' => Suc(u) = v /\ Batch(v)
        BY <1>1, <1>3, <1>4, <3>2, Zenon DEF View
      <4> QED BY <1>1, <1>2, <1>4, <3>2, <4>1, Zenon DEF ValidInv, View, Same
    <3> QED BY <3>1, <3>2, Zenon
  <2> QED BY <2>1, <2>2, Zenon DEF ValidInv
<1>6. BudgetInv'
  <2>1. BudgetOf(t)'
    BY <1>1, <1>3, Zenon DEF BudgetOf
  <2>2. \A u \in Threads : BudgetOf(u)'
    BY <1>1, <1>2, <2>1, SameBudget, Zenon DEF BudgetInv
  <2>3. ASSUME NEW u \in Threads, pc'[u] = "passbudget", NEW v \in Threads, Suc(u)' = v
        PROVE  Bt(v)' = tk'[u]
    <3>1. u # t /\ pc[u] = "passbudget" /\ tk'[u] = tk[u]
      BY <1>1, <1>3, <2>3, Zenon DEF Same
    <3>2. v # t /\ Suc(u) = v
      BY <1>1, <2>3, <3>1, Zenon
    <3> QED BY <1>1, <1>2, <3>1, <3>2, Zenon DEF Same, BudgetInv
  <2> QED BY <2>2, <2>3, Zenon DEF BudgetInv
<1>7. ChainInv'
  <2> SUFFICES ASSUME NEW u \in Threads, Batch(u)'
               PROVE  (/\ prev[u] # None
                       /\ ~Granted(u) =>
                            /\ pc[prev[u]] \in Past /\ Valid(prev[u]) = kFalse
                            /\ tk[prev[u]] = Tk(u) /\ Bud(prev[u]) = Bud(u) + 1
                       /\ Granted(u) /\ pc[u] \notin Holds =>
                            Tk(u) = current_ticket[lk[u]] /\ uses[lk[u]] = Budget(Coh(u)) - Bud(u))'
    BY Zenon DEF ChainInv
  <2>1. u # t /\ Batch(u) /\ Tk(u)' = Tk(u) /\ Coh(u)' = Coh(u)
    BY <1>3, <1>4, Zenon DEF View
  <2>2. /\ pc'[u] = pc[u] /\ prev'[u] = prev[u] /\ lk'[u] = lk[u] /\ Bud(u)' = Bud(u)
        /\ (Granted(u) => Granted(u)')
        /\ Batch(u) /\ ~Granted(u)' => prev[u] # t
        /\ Batch(u) /\ ~Granted(u) /\ Granted(u)' =>
             Tk(u) = current_ticket[lk[u]] /\ uses[lk[u]] = Budget(Coh(u)) - Bud(u)
    BY <1>1, <2>1, Zenon DEF Same
  <2>3. PICK p \in Threads : p = prev[u] /\ prev[u] # None
    BY <1>2, <2>1, Zenon DEF ChainInv, QInv, TypeOK
  <2>4. p # t => /\ pc'[p] = pc[p] /\ tk'[p] = tk[p] /\ Bud(p)' = Bud(p) /\ Valid(p)' = Valid(p)
    BY <1>1, Zenon DEF Same
  <2>5. Bud(prev[u])' = Bud(p)' /\ Valid(prev[u])' = Valid(p)'
    BY <2>2, <2>3, Zenon
  <2>6. ~Granted(u)' =>
          /\ pc'[p] \in Past /\ Valid(p)' = kFalse /\ tk'[p] = Tk(u) /\ Bud(p)' = Bud(u) + 1
    BY <1>2, <2>1, <2>2, <2>3, <2>4, Zenon DEF ChainInv
  <2>7. Granted(u)' /\ pc[u] \notin Holds =>
          Tk(u) = current_ticket[lk[u]] /\ uses[lk[u]] = Budget(Coh(u)) - Bud(u)
    BY <1>2, <2>1, <2>2, Zenon DEF ChainInv
  <2> QED
    BY <1>1, <2>1, <2>2, <2>3, <2>5, <2>6, <2>7, Zenon
<1>8. \A u \in Threads :
        /\ HasTk(u)' => u # t /\ HasTk(u)
        /\ Holding(u)' => u # t /\ Holding(u)
        /\ Sec(u)' => u # t /\ Sec(u)
        /\ Contends(u)' => u # t /\ Contends(u)
        /\ pc'[u] \in {"spin1", "spin2", "faawrite"} => u # t
  BY <1>1, <1>3, <1>4, Zenon DEF View, Same, Contends
<1>9. \A u \in Threads : u # t =>
        /\ pc'[u] = pc[u] /\ lk'[u] = lk[u] /\ pos'[u] = pos[u] /\ tk'[u] = tk[u] /\ vbuf'[u] = vbuf[u]
        /\ Coh(u)' = Coh(u) /\ Tk(u)' = Tk(u) /\ (Batch(u)' <=> Batch(u)) /\ (Over(u)' <=> Over(u))
        /\ Bud(u)' = Bud(u) /\ Bt(u)' = Bt(u) /\ Valid(u)' = Valid(u)
  BY <1>1, <1>4, Zenon DEF View, Same
<1>10. HoldInv'
  BY <1>1, <1>2, <1>8, <1>9, ZenonT(40) DEF HoldInv
<1>11. TicketInv'
  <2>1. \A u \in Threads :
          /\ HasTk(u)' => /\ HasTk(u) /\ Tk(u)' = Tk(u) /\ lk'[u] = lk[u]
                          /\ (Batch(u) => Batch(u)') /\ (Over(u) => Over(u)')
                          /\ (pc[u] \in Holds => pc'[u] \in Holds)
          /\ pc'[u] = "faawrite" =>
               pc[u] = "faawrite" /\ tk'[u] = tk[u] /\ lk'[u] = lk[u] /\ Coh(u)' = Coh(u)
    BY <1>8, <1>9, Zenon
  <2> QED BY <1>1, <1>2, <2>1, TicketKept, Zenon
<1>12. ShareInv'
  <2>1. \A u \in Threads : HasTk(u)' =>
          /\ HasTk(u) /\ Tk(u)' = Tk(u) /\ (Batch(u) <=> Batch(u)') /\ lk'[u] = lk[u]
          /\ pos'[u] = pos[u] /\ Coh(u)' = Coh(u) /\ Valid(u)' = Valid(u)
    BY <1>8, <1>9, Zenon
  <2> QED BY <1>2, <2>1, ShareKept, Zenon
<1>13. PetersonInv'
  <2>1. \A u \in Threads :
          /\ Contends(u)' => Contends(u) /\ lk'[u] = lk[u] /\ Coh(u)' = Coh(u)
          /\ Sec(u)' => Sec(u) /\ lk'[u] = lk[u] /\ Coh(u)' = Coh(u)
          /\ pc'[u] \in {"spin1", "spin2"} =>
               pc'[u] = pc[u] /\ lk'[u] = lk[u] /\ Coh(u)' = Coh(u) /\ vbuf'[u] = vbuf[u]
    BY <1>8, <1>9, Zenon
  <2> QED BY <1>1, <1>2, <2>1, PetersonKept, Zenon
<1> QED
  BY <1>5, <1>6, <1>7, <1>10, <1>11, <1>12, <1>13, Zenon DEF BInv

\* A step of t that writes no other thread's budget, ticket or ticket_valid_.
LEMMA OthersSame ==
  ASSUME NEW t,
         \A u \in Threads : u # t =>
           /\ pc'[u] = pc[u] /\ lk'[u] = lk[u] /\ prev'[u] = prev[u] /\ pos'[u] = pos[u]
           /\ tk'[u] = tk[u] /\ from_prev'[u] = from_prev[u] /\ vbuf'[u] = vbuf[u]
           /\ \A c \in Cohorts : /\ ticket_valid'[c][u] = ticket_valid[c][u]
                                 /\ budget'[c][u] = budget[c][u],
         batch_ticket' = batch_ticket
  PROVE  \A u \in Threads : u # t => Same(u) /\ View(u) /\ Coh(u)' = Coh(u)
<1>1. ASSUME NEW u \in Threads, u # t PROVE Same(u) /\ View(u) /\ Coh(u)' = Coh(u)
  <2>1. PICK c \in Cohorts : Coh(u) = c /\ Coh(u)' = c
    BY <1>1, CohStable, CohType, Zenon
  <2>2. ticket_valid'[c][u] = ticket_valid[c][u] /\ budget'[c][u] = budget[c][u]
    BY <1>1, Zenon
  <2>3. Bud(u)' = Bud(u) /\ Valid(u)' = Valid(u) /\ Bt(u)' = Bt(u)
    BY <2>1, <2>2, Zenon DEF Bud, Valid, Bt
  <2>4. Same(u)
    BY <1>1, <2>3, Zenon DEF Same
  <2> QED BY <2>1, <2>4, SameView, Zenon
<1> QED BY <1>1, Zenon

\* Unlock returns.
LEMMA LeaveBInv ==
  ASSUME QInv, QInv', BInv, NEW t \in Threads, pc[t] \in Leaving, pc' = [pc EXCEPT ![t] = "idle"],
         Return(t),
         \A u \in Threads : u # t /\ ~Granted(u) /\ Granted(u)' => Suc(t) = u,
         \A u \in Threads : u # t /\ Granted(u) => Granted(u)',
         UNCHANGED <<flag, victim, next_ticket, current_ticket, next, ticket_valid, batch_ticket,
                     budget, vbuf, pos, uses>>
  PROVE  BInv'
<1>1. /\ pc'[t] = "idle" /\ ~from_prev'[t]
      /\ \A u \in Threads : u # t =>
           /\ pc'[u] = pc[u] /\ lk'[u] = lk[u] /\ prev'[u] = prev[u]
           /\ tk'[u] = tk[u] /\ from_prev'[u] = from_prev[u]
  BY DEF Return, QInv, TypeOK
<1>2. \A u \in Threads : u # t => Same(u) /\ View(u) /\ Coh(u)' = Coh(u)
  BY <1>1, OthersSame, Zenon
<1>3. \A u \in Threads : u # t => Suc(u)' = Suc(u)
  BY <1>2, Zenon DEF Suc
<1>4. ~Queued(t)' /\ Queued(t)
  BY <1>1, Zenon DEF Queued, Leaving
<1>5. OrderInv'
  <2>1. \A u \in Threads : Queued(u)' => u # t
    BY <1>4, Zenon
  <2>2. \A u \in Threads : u # t =>
          /\ pc'[u] = pc[u] /\ lk'[u] = lk[u] /\ pos'[u] = pos[u] /\ Coh(u)' = Coh(u)
          /\ (Queued(u)' <=> Queued(u)) /\ (Blocked(u)' <=> Blocked(u))
    BY <1>2, Zenon DEF View, Same
  <2>3. OrderInv
    BY Zenon DEF BInv
  <2> QED BY <2>1, <2>2, <2>3 DEF OrderInv, SameQueue
<1>6. ASSUME NEW u \in Threads, u # t, pc[u] = "release" PROVE prev[u] # t
  <2>1. pc'[u] = "release" /\ prev'[u] = prev[u]
    BY <1>1, <1>6, Zenon
  <2>2. Queued(prev[u])'
    <3>1. Queued(u)'
      BY <2>1, Zenon DEF Queued
    <3> QED BY <2>1, <3>1, Zenon DEF QInv, PrevInv, Linking
  <2> QED BY <1>4, <2>1, <2>2, Zenon
<1>7. ASSUME NEW u \in Threads, u # t, pc[u] = "passbudget" PROVE Suc(u)' # t
  <2>1. Queued(u)'
    BY <1>1, <1>7, Zenon DEF Queued
  <2> QED BY <1>4, <2>1, Zenon DEF Suc, QInv, NextInv
<1>8. ASSUME NEW u \in Threads, u # t, Batch(u), ~Granted(u)' PROVE prev[u] # t
  <2>1. prev[u] # None /\ HasTk(u)
    BY <1>8, HasTkIf, Zenon DEF BInv, ChainInv, BudgetInv
  <2>2. Queued(u)' /\ prev'[u] = prev[u]
    BY <1>1, <1>8, <2>1, Zenon DEF HasTk, Passed, Queued, Waits, Drawn, Past, Holds, Leaving
  <2>3. granted'[Coh(u)'][u] = kFalse
    <3>1. Coh(u)' \in Cohorts
      BY <1>2, <1>8, CohType, Zenon
    <3>2. (granted \in [Cohorts -> [Threads -> Bit]])'
      BY Zenon DEF QInv, TypeOK
    <3>3. granted'[Coh(u)'][u] \in Bit
      BY <3>1, <3>2, Zenon
    <3> QED BY <1>8, <3>3, Zenon DEF Granted, Bit
  <2>4. Queued(prev[u])'
    BY <2>1, <2>2, <2>3, Zenon DEF QInv, PrevInv
  <2> QED BY <1>4, <2>2, <2>4, Zenon
<1>9. ASSUME NEW u \in Threads, u # t, Batch(u), ~Granted(u), Granted(u)'
      PROVE  Tk(u) = current_ticket[lk[u]] /\ uses[lk[u]] = Budget(Coh(u)) - Bud(u)
  <2>1. prev[u] = t /\ lk[u] = lk[t] /\ Coh(u) = Coh(t)
    <3>1. Suc(t) = u
      BY <1>9, Zenon
    <3>2. NextInv
      BY Zenon DEF QInv
    <3> QED BY <1>4, <3>1, <3>2, Zenon DEF Suc, NextInv, SameQueue
  <2>2. Valid(t) = kFalse /\ tk[t] = Tk(u) /\ Bud(t) = Bud(u) + 1
    BY <1>9, <2>1, Zenon DEF BInv, ChainInv
  <2>3. tk[t] = current_ticket[lk[t]] /\ uses[lk[t]] = Budget(Coh(t)) - Bud(t) + 1
    BY <2>2, Zenon DEF BInv, HoldInv, Holding
  <2>4. Bud(u) \in Int /\ Budget(Coh(u)) \in Int
    BY CohType, BudgetAssumption DEF QInv, TypeOK, Bud, Budget
  <2> QED BY <2>1, <2>2, <2>3, <2>4
<1>10. Apart(t)
  BY <1>1, <1>2, <1>3, <1>6, <1>7, <1>8, <1>9, Zenon DEF Apart
<1> QED
  BY <1>5, <1>10, ApartInv, Zenon

LEMMA CasTailBInv ==
  ASSUME QInv, QInv', BInv, NEW t \in Threads, CasTail(t)
  PROVE  BInv'
<1>1. CASE tail[lk[t]][Coh(t)] = t
  <2>1. /\ pc[t] = "cas" /\ pc' = [pc EXCEPT ![t] = "idle"] /\ Return(t)
        /\ UNCHANGED <<flag, victim, next_ticket, current_ticket, next, ticket_valid, batch_ticket,
                       budget, granted, vbuf, pos, uses>>
    BY <1>1, Zenon DEF CasTail, Goto, descVars, history
  <2>2. \A u \in Threads : u # t => (Granted(u)' <=> Granted(u))
    <3>1. \A u \in Threads : u # t => lk'[u] = lk[u]
      BY <2>1, Zenon DEF Return, QInv, TypeOK
    <3>2. \A u \in Threads : u # t => Coh(u)' = Coh(u)
      BY <3>1, CohStable, Zenon
    <3> QED BY <2>1, <3>2, Zenon DEF Granted
  <2>3. pc[t] \in Leaving
    BY <2>1, Zenon DEF Leaving
  <2> QED BY <2>1, <2>2, <2>3, LeaveBInv, Zenon
<1>2. CASE tail[lk[t]][Coh(t)] # t
  BY <1>2, WaitOnBInv, Zenon
<1> QED
  BY <1>1, <1>2, Zenon

LEMMA GrantNextBInv ==
  ASSUME QInv, QInv', BInv, NEW t \in Threads, GrantNext(t)
  PROVE  BInv'
<1>1. /\ pc[t] = "grant" /\ pc' = [pc EXCEPT ![t] = "idle"] /\ Return(t)
      /\ granted' = [granted EXCEPT ![Coh(t)][Suc(t)] = kTrue]
      /\ UNCHANGED <<flag, victim, next_ticket, current_ticket, next, ticket_valid, batch_ticket,
                     budget, vbuf, pos, uses>>
  BY Zenon DEF GrantNext, Goto, Suc, lockVars, history
<1>2. pc[t] \in Leaving
  BY <1>1, Zenon DEF Leaving
<1>3. ASSUME NEW u \in Threads, u # t
      PROVE  /\ ~Granted(u) /\ Granted(u)' => Suc(t) = u
             /\ Granted(u) => Granted(u)'
  <2>0. lk \in [Threads -> Locks \cup {None}] /\ granted \in [Cohorts -> [Threads -> Bit]]
    BY Zenon DEF QInv, TypeOK
  <2>1. lk'[u] = lk[u]
    BY <1>1, <1>3, <2>0, Zenon DEF Return
  <2>2. PICK c \in Cohorts : Coh(u) = c /\ Coh(u)' = c
    BY <2>1, CohStable, CohType, Zenon
  <2>3. /\ granted'[c][u] = granted[c][u] \/ granted'[c][u] = kTrue
        /\ u # Suc(t) => granted'[c][u] = granted[c][u]
    BY <1>1, <1>3, <2>0, CohType, Zenon
  <2> QED BY <2>2, <2>3, Zenon DEF Granted
<1> QED
  BY <1>1, <1>2, <1>3, LeaveBInv, Zenon

LEMMA LockBInv ==
  ASSUME QInv, BInv, NEW t \in Threads, NEW l \in Locks, Lock(t, l)
  PROVE  BInv'
<1>1. /\ pc[t] = "idle" /\ pc' = [pc EXCEPT ![t] = "swap"] /\ lk' = [lk EXCEPT ![t] = l]
      /\ next' = [next EXCEPT ![CohortOf(t, l)][t] = None]
      /\ ticket_valid' = [ticket_valid EXCEPT ![CohortOf(t, l)][t] = kFalse]
      /\ budget' = [budget EXCEPT ![CohortOf(t, l)][t] = NoBudget]
      /\ granted' = [granted EXCEPT ![CohortOf(t, l)][t] = kFalse]
      /\ UNCHANGED <<flag, victim, next_ticket, current_ticket, batch_ticket,
                     prev, tk, from_prev, vbuf, pos, uses>>
  BY Zenon DEF Lock, Goto, lockVars, history
<1>2. /\ pc'[t] = "swap" /\ lk'[t] = l
      /\ \A u \in Threads : u # t => pc'[u] = pc[u] /\ lk'[u] = lk[u]
  BY <1>1, Zenon DEF QInv, TypeOK
<1>3. PICK c \in Cohorts : c = CohortOf(t, l) /\ c = Coh(t)'
  BY <1>2, Zenon DEF Coh, CohortOf, Cohorts, IsLocal
<1>4. /\ ticket_valid'[c][t] = kFalse /\ budget'[c][t] = NoBudget
      /\ \A u \in Threads : u # t => \A d \in Cohorts :
           /\ ticket_valid'[d][u] = ticket_valid[d][u] /\ budget'[d][u] = budget[d][u]
           /\ next'[d][u] = next[d][u] /\ granted'[d][u] = granted[d][u]
  BY <1>1, <1>3 DEF QInv, TypeOK
<1>5. \A u \in Threads : u # t => Same(u) /\ View(u) /\ Coh(u)' = Coh(u)
  <2>1. \A u \in Threads : u # t =>
          /\ pc'[u] = pc[u] /\ lk'[u] = lk[u] /\ prev'[u] = prev[u] /\ pos'[u] = pos[u]
          /\ tk'[u] = tk[u] /\ from_prev'[u] = from_prev[u] /\ vbuf'[u] = vbuf[u]
          /\ \A d \in Cohorts : /\ ticket_valid'[d][u] = ticket_valid[d][u]
                                /\ budget'[d][u] = budget[d][u]
    BY <1>1, <1>2, <1>4, Zenon
  <2> QED BY <1>1, <2>1, OthersSame, Zenon
<1>6. \A u \in Threads : u # t => Suc(u)' = Suc(u) /\ (Granted(u)' <=> Granted(u))
  <2>1. ASSUME NEW u \in Threads, u # t PROVE Suc(u)' = Suc(u) /\ (Granted(u)' <=> Granted(u))
    <3>1. PICK d \in Cohorts : Coh(u) = d /\ Coh(u)' = d
      BY <1>5, <2>1, CohType, Zenon
    <3>2. next'[d][u] = next[d][u] /\ granted'[d][u] = granted[d][u]
      BY <1>4, <2>1, Zenon
    <3> QED BY <3>1, <3>2, Zenon DEF Suc, Granted
  <2> QED BY <2>1, Zenon
<1>7. ~Queued(t)' /\ ~Queued(t) /\ Valid(t)' = kFalse /\ Bud(t)' = NoBudget
  BY <1>1, <1>2, <1>3, <1>4, Zenon DEF Queued, Valid, Bud
<1>8. ~from_prev'[t] /\ pc[t] \notin Past
  BY <1>1, Zenon DEF BInv, BudgetInv, BudgetOf, Drawn, Past, Holds, Leaving
<1>9. OrderInv'
  <2>1. \A u \in Threads : Queued(u)' => u # t
    BY <1>7, Zenon
  <2>2. \A u \in Threads : u # t =>
          /\ pc'[u] = pc[u] /\ lk'[u] = lk[u] /\ pos'[u] = pos[u] /\ Coh(u)' = Coh(u)
          /\ (Queued(u)' <=> Queued(u)) /\ (Blocked(u)' <=> Blocked(u))
    BY <1>5, Zenon DEF View, Same
  <2>3. OrderInv
    BY Zenon DEF BInv
  <2> QED BY <2>1, <2>2, <2>3, Zenon DEF OrderInv, SameQueue
<1>10. ASSUME NEW u \in Threads, pc[u] = "release" PROVE prev[u] # t
  <2>1. Queued(u) /\ prev[u] # None /\ granted[Coh(u)][u] = kFalse
    BY <1>10, Zenon DEF Queued, QInv, PrevInv, Linking
  <2> QED BY <1>7, <2>1, Zenon DEF QInv, PrevInv
<1>11. ASSUME NEW u \in Threads, u # t, pc[u] = "passbudget" PROVE Suc(u)' # t
  <2>1. Queued(u) /\ Suc(u)' = Suc(u)
    BY <1>6, <1>11, Zenon DEF Queued
  <2> QED BY <1>7, <2>1, Zenon DEF Suc, QInv, NextInv
<1>12. ASSUME NEW u \in Threads, u # t, Batch(u), ~Granted(u)' PROVE prev[u] # t
  BY <1>6, <1>8, <1>12, Zenon DEF BInv, ChainInv
<1>13. Apart(t)
  BY <1>1, <1>2, <1>5, <1>6, <1>7, <1>8, <1>10, <1>11, <1>12, Zenon DEF Apart
<1> QED
  BY <1>9, <1>13, ApartInv, Zenon

\* A thread arrives at an empty queue, or blocked behind all others.
LEMMA SwapTailBInv ==
  ASSUME QInv, BInv, NEW t \in Threads, SwapTail(t)
  PROVE  BInv'
<1>1. /\ pc[t] = "swap"
      /\ pc' = [pc EXCEPT ![t] = IF tail[lk[t]][Coh(t)] = None THEN "setbudget" ELSE "link"]
      /\ prev' = [prev EXCEPT ![t] = tail[lk[t]][Coh(t)]]
      /\ pos' = [pos EXCEPT ![t] = arrivals[lk[t]][Coh(t)]]
      /\ UNCHANGED <<flag, victim, next_ticket, current_ticket, next, ticket_valid, batch_ticket,
                     budget, granted, lk, tk, from_prev, vbuf, uses>>
  BY Zenon DEF SwapTail, Goto, descVars
<1>2. /\ pc'[t] = IF tail[lk[t]][Coh(t)] = None THEN "setbudget" ELSE "link"
      /\ pos'[t] = arrivals[lk[t]][Coh(t)]
      /\ \A u \in Threads : u # t => pc'[u] = pc[u] /\ prev'[u] = prev[u] /\ pos'[u] = pos[u]
  BY <1>1, Zenon DEF QInv, TypeOK
<1>5. \A u \in Threads : u # t => Same(u) /\ View(u) /\ Coh(u)' = Coh(u)
  BY <1>1, <1>2, OthersSame, Zenon
<1>c. Coh(t)' = Coh(t) /\ lk[t] \in Locks /\ Coh(t) \in Cohorts
  BY <1>1, CohStable, CohType, Zenon DEF QInv, LkInv
<1>6. \A u \in Threads : u # t => Suc(u)' = Suc(u) /\ (Granted(u)' <=> Granted(u))
  BY <1>1, <1>5, Zenon DEF Suc, Granted
<1>7. ~Queued(t) /\ Valid(t)' = kFalse /\ Bud(t)' = NoBudget
  <2>1. ~Queued(t) /\ Valid(t) = kFalse /\ Bud(t) = NoBudget
    BY <1>1, Zenon DEF Queued, BInv, ValidInv
  <2> QED BY <1>1, <1>c, <2>1, Zenon DEF Valid, Bud
<1>8. ~from_prev'[t] /\ pc[t] \notin Past
  BY <1>1, Zenon DEF BInv, BudgetInv, BudgetOf, Drawn, Past, Holds, Leaving
<1>9. OrderInv'
  <2>1. ASSUME NEW u \in Threads, u # t, Queued(u)', SameQueue(u, t)'
        PROVE  Blocked(t)' /\ ~(pos'[t] < pos'[u])
    <3>1. Queued(u) /\ lk[u] = lk[t] /\ Coh(u) = Coh(t)
      BY <1>1, <1>5, <1>c, <2>1, Zenon DEF View, SameQueue
    <3>2. tail[lk[t]][Coh(t)] # None
      <4>1. TailInv
        BY Zenon DEF QInv
      <4> QED BY <1>c, <2>1, <3>1, <4>1 DEF TailInv
    <3>3. Blocked(t)'
      BY <1>2, <3>2, Zenon DEF Blocked
    <3>4. pos[u] < arrivals[lk[t]][Coh(t)]
      BY <3>1, Zenon DEF QInv, PosInv
    <3>5. ~(pos'[t] < pos'[u])
      BY <1>2, <1>c, <2>1, <3>4 DEF QInv, TypeOK
    <3> QED BY <3>3, <3>5, Zenon
  <2>2. \A u \in Threads : u # t =>
          /\ pc'[u] = pc[u] /\ lk'[u] = lk[u] /\ pos'[u] = pos[u] /\ Coh(u)' = Coh(u)
          /\ (Queued(u)' <=> Queued(u)) /\ (Blocked(u)' <=> Blocked(u))
    BY <1>5, Zenon DEF View, Same
  <2>3. OrderInv
    BY Zenon DEF BInv
  <2>4. ASSUME NEW u \in Threads, NEW v \in Threads, Queued(u)', Queued(v)', SameQueue(u, v)',
               pos'[u] < pos'[v], pc'[u] \notin Past
        PROVE  Blocked(v)'
    <3>1. CASE u # t /\ v # t
      <4>1. Queued(u) /\ Queued(v) /\ SameQueue(u, v) /\ pos[u] < pos[v] /\ pc[u] \notin Past
        BY <2>2, <2>4, <3>1, Zenon DEF SameQueue
      <4> QED BY <2>2, <2>3, <3>1, <4>1, Zenon DEF OrderInv
    <3>2. CASE u # t /\ v = t
      BY <2>1, <2>4, <3>2, Zenon
    <3>3. CASE u = t /\ v # t
      <4>1. SameQueue(v, t)'
        BY <2>4, <3>3, Zenon DEF SameQueue
      <4> QED BY <2>1, <2>4, <3>3, <4>1, Zenon
    <3>4. CASE u = t /\ v = t
      <4>1. ~(pos'[t] < pos'[t])
        BY <1>2, <1>c DEF QInv, TypeOK
      <4> QED BY <2>4, <3>4, <4>1, Zenon
    <3> QED BY <3>1, <3>2, <3>3, <3>4, Zenon
  <2> QED BY <2>4, Zenon DEF OrderInv
<1>10. ASSUME NEW u \in Threads, pc[u] = "release" PROVE prev[u] # t
  <2>1. Queued(u) /\ prev[u] # None /\ granted[Coh(u)][u] = kFalse
    BY <1>10, Zenon DEF Queued, QInv, PrevInv, Linking
  <2> QED BY <1>7, <2>1, Zenon DEF QInv, PrevInv
<1>11. ASSUME NEW u \in Threads, u # t, pc[u] = "passbudget" PROVE Suc(u)' # t
  <2>1. Queued(u) /\ Suc(u)' = Suc(u)
    BY <1>6, <1>11, Zenon DEF Queued
  <2> QED BY <1>7, <2>1, Zenon DEF Suc, QInv, NextInv
<1>12. ASSUME NEW u \in Threads, u # t, Batch(u), ~Granted(u)' PROVE prev[u] # t
  BY <1>6, <1>8, <1>12, Zenon DEF BInv, ChainInv
<1>13. pc'[t] \in {"setbudget", "link"}
  BY <1>2, Zenon
<1>14. Apart(t)
  BY <1>1, <1>5, <1>6, <1>7, <1>8, <1>10, <1>11, <1>12, <1>13, Zenon DEF Apart
<1> QED
  BY <1>9, <1>14, ApartInv, Zenon

LEMMA LinkPrevBInv ==
  ASSUME QInv, BInv, NEW t \in Threads, LinkPrev(t)
  PROVE  BInv'
<1>1. /\ pc[t] = "link" /\ pc' = [pc EXCEPT ![t] = "readvalid"]
      /\ next' = [next EXCEPT ![Coh(t)][prev[t]] = t]
      /\ UNCHANGED <<flag, victim, next_ticket, current_ticket, ticket_valid, batch_ticket,
                     budget, granted, lk, prev, tk, from_prev, vbuf, pos, uses>>
  BY Zenon DEF LinkPrev, Goto, lockVars, threadVars, history
<1>2. pc'[t] = "readvalid" /\ \A u \in Threads : u # t => pc'[u] = pc[u]
  BY <1>1, Zenon DEF QInv, TypeOK
<1>5. \A u \in Threads : u # t => Same(u) /\ View(u)
  BY <1>1, <1>2, OthersSame, Zenon
<1>c. \A u \in Threads : Coh(u)' = Coh(u) /\ Coh(u) \in Cohorts
  BY <1>1, CohStable, CohType, Zenon
<1>p. /\ prev[t] \in Threads /\ Queued(prev[t]) /\ SameQueue(t, prev[t]) /\ pos[t] = pos[prev[t]] + 1
      /\ Queued(t)
  <2>1. Queued(t) /\ prev[t] # None /\ granted[Coh(t)][t] = kFalse
    BY <1>1, Zenon DEF Queued, QInv, PrevInv, Linking
  <2> QED BY <2>1, Zenon DEF QInv, TypeOK, PrevInv
<1>6. \A u \in Threads :
        (Suc(u)' = Suc(u) \/ (Suc(u)' = t /\ u = prev[t])) /\ (Granted(u)' <=> Granted(u))
  <2>1. ASSUME NEW u \in Threads PROVE Suc(u)' = Suc(u) \/ (Suc(u)' = t /\ u = prev[t])
    <3>1. PICK c \in Cohorts : Coh(u) = c /\ Coh(u)' = c
      BY <1>c, Zenon
    <3>2. next'[c][u] = next[c][u] \/ (next'[c][u] = t /\ u = prev[t])
      BY <1>1, <1>c, Zenon DEF QInv, TypeOK
    <3> QED BY <3>1, <3>2, Zenon DEF Suc
  <2> QED BY <1>1, <1>c, <2>1, Zenon DEF Granted
<1>7. /\ Valid(t)' = kFalse /\ Bud(t)' = NoBudget /\ Valid(t) = kFalse /\ Blocked(t) /\ Blocked(t)'
      /\ Queued(t)'
  <2>1. Valid(t) = kFalse /\ Bud(t) = NoBudget
    BY <1>1, Zenon DEF BInv, ValidInv
  <2>2. Valid(t)' = kFalse /\ Bud(t)' = NoBudget
    BY <1>1, <1>c, <2>1, Zenon DEF Valid, Bud
  <2> QED BY <1>1, <1>2, <2>1, <2>2, Zenon DEF Blocked, Waits, Queued
<1>8. ~from_prev'[t] /\ pc[t] \notin Past
  BY <1>1, Zenon DEF BInv, BudgetInv, BudgetOf, Drawn, Past, Holds, Leaving
<1>9. OrderInv'
  <2>1. \A u \in Threads :
          /\ lk'[u] = lk[u] /\ pos'[u] = pos[u] /\ (Queued(u)' <=> Queued(u))
          /\ (Blocked(u)' <=> Blocked(u)) /\ (pc'[u] \notin Past => pc[u] \notin Past)
    BY <1>1, <1>5, <1>7, <1>8, <1>p, Zenon DEF View, Same
  <2>2. OrderInv
    BY Zenon DEF BInv
  <2> QED BY <1>c, <2>1, <2>2, Zenon DEF OrderInv, SameQueue
<1>10. ASSUME NEW u \in Threads, pc[u] = "release", tk[u] = kTrue PROVE prev[u] # t
  <2>1. kTrue # kFalse
    BY DEF kTrue, kFalse
  <2>2. Valid(prev[u]) = kTrue
    BY <1>10, Zenon DEF BInv, ValidInv
  <2> QED BY <1>7, <2>1, <2>2, Zenon
<1>11. ASSUME NEW u \in Threads, u # t, pc[u] = "passbudget" PROVE Suc(u)' # t
  <2>1. Queued(u) /\ Suc(u) # None /\ Suc(u) \in Threads
    <3>1. Queued(u) /\ Suc(u) # None
      BY <1>11, Zenon DEF Suc, Queued, QInv, NextInv, Succeeded
    <3>2. next \in [Cohorts -> [Threads -> Threads \cup {None}]] /\ Coh(u) \in Cohorts
      BY <1>c, Zenon DEF QInv, TypeOK
    <3> QED BY <3>1, <3>2, Zenon DEF Suc
  <2>2. PICK w \in Threads :
          Suc(u) = w /\ Queued(w) /\ SameQueue(u, w) /\ pos[w] = pos[u] + 1 /\ pc[w] # "link"
    BY <2>1, Zenon DEF Suc, QInv, NextInv
  <2>3. Suc(u) # t
    BY <1>1, <2>2, Zenon
  <2>4. CASE u = prev[t]
    <3>1. SameQueue(w, t) /\ pos[w] = pos[t]
      BY <1>p, <2>2, <2>4, Zenon DEF SameQueue
    <3>2. w = t
      BY <1>p, <2>2, <3>1, Zenon DEF QInv, PosInv
    <3> QED BY <1>1, <2>2, <3>2, Zenon
  <2>5. CASE u # prev[t]
    BY <1>6, <2>3, <2>5, Zenon
  <2> QED BY <2>4, <2>5, Zenon
<1>12. ASSUME NEW u \in Threads, u # t, Batch(u), ~Granted(u)' PROVE prev[u] # t
  BY <1>6, <1>8, <1>12, Zenon DEF BInv, ChainInv
<1>14. Apart(t)
  BY <1>1, <1>2, <1>5, <1>6, <1>7, <1>8, <1>10, <1>11, <1>12, Zenon DEF Apart
<1> QED
  BY <1>9, <1>14, ApartInv, Zenon

-----------------------------------------------------------------------------
(***************************************************************************)
(* What a thread writes to its successor.                                  *)
(***************************************************************************)
\* t writes a budget or a ticket into the descriptor of its successor s.
Gift(t, s) ==
  /\ s # t /\ Queued(t) /\ Queued(s) /\ SameQueue(t, s) /\ prev[s] = t /\ pos[s] = pos[t] + 1
  /\ Suc(t) = s /\ pc[s] # "link" /\ ~Granted(s)
  /\ \A u \in Threads : u # t => pc'[u] = pc[u]
  /\ \A u \in Threads : u # s => Bud(u)' = Bud(u) /\ Bt(u)' = Bt(u)
  /\ \A u \in Threads : u # t /\ u # s => Same(u) /\ View(u)
  /\ \A u \in Threads :
       /\ Coh(u)' = Coh(u) /\ Coh(u) \in Cohorts /\ (Queued(u)' <=> Queued(u))
       /\ lk'[u] = lk[u] /\ prev'[u] = prev[u] /\ pos'[u] = pos[u] /\ tk'[u] = tk[u]
       /\ from_prev'[u] = from_prev[u] /\ vbuf'[u] = vbuf[u]
       /\ Suc(u)' = Suc(u) /\ Valid(u)' = Valid(u) /\ (Granted(u)' <=> Granted(u))

LEMMA GiftView ==
  ASSUME QInv, NEW t \in Threads, NEW q, pc[t] \in Succeeded, pc' = [pc EXCEPT ![t] = q],
         q \notin {"idle", "swap"},
         \A u \in Threads : u # Suc(t) => \A c \in Cohorts :
           budget'[c][u] = budget[c][u] /\ batch_ticket'[c][u] = batch_ticket[c][u],
         UNCHANGED <<next, ticket_valid, granted, lk, prev, tk, from_prev, vbuf, pos>>
  PROVE  pc'[t] = q /\ \E s \in Threads : Gift(t, s)
<1>1. pc'[t] = q /\ \A u \in Threads : u # t => pc'[u] = pc[u]
  BY Zenon DEF QInv, TypeOK
<1>2. \A u \in Threads : Coh(u)' = Coh(u) /\ Coh(u) \in Cohorts
  BY CohStable, CohType, Zenon
<1>3. Queued(t) /\ Suc(t) # None /\ NextInv
  BY Zenon DEF Queued, Succeeded, Suc, QInv, NextInv
<1>4. PICK s \in Threads : Suc(t) = s
  <2>1. next \in [Cohorts -> [Threads -> Threads \cup {None}]]
    BY Zenon DEF QInv, TypeOK
  <2> QED BY <1>2, <1>3, <2>1 DEF Suc
<1>5. /\ Queued(s) /\ SameQueue(t, s) /\ prev[s] = t /\ pos[s] = pos[t] + 1 /\ pc[s] # "link"
      /\ granted[Coh(t)][s] = kFalse
  BY <1>3, <1>4, Zenon DEF NextInv, Suc
<1>6. s # t /\ ~Granted(s)
  <2>1. pos[t] \in Nat /\ kTrue # kFalse
    BY DEF QInv, TypeOK, kTrue, kFalse
  <2>2. s # t
    BY <1>5, <2>1
  <2> QED BY <1>5, <2>1, <2>2, Zenon DEF Granted, SameQueue
<1>7. ASSUME NEW u \in Threads, u # s PROVE Bud(u)' = Bud(u) /\ Bt(u)' = Bt(u)
  <2>1. PICK c \in Cohorts : Coh(u) = c /\ Coh(u)' = c
    BY <1>2, Zenon
  <2>2. budget'[c][u] = budget[c][u] /\ batch_ticket'[c][u] = batch_ticket[c][u]
    BY <1>4, <1>7, Zenon
  <2> QED BY <2>1, <2>2, Zenon DEF Bud, Bt
<1>8. \A u \in Threads : Suc(u)' = Suc(u) /\ Valid(u)' = Valid(u) /\ (Granted(u)' <=> Granted(u))
  BY <1>2, Zenon DEF Suc, Valid, Granted
<1>9. \A u \in Threads : Queued(u)' <=> Queued(u)
  BY <1>1, <1>3, Zenon DEF Queued
<1>10. \A u \in Threads : u # t /\ u # s => Same(u) /\ View(u)
  BY <1>1, <1>7, <1>8, SameView, Zenon DEF Same
<1>11. Gift(t, s)
  BY <1>1, <1>2, <1>3, <1>4, <1>5, <1>6, <1>7, <1>8, <1>9, <1>10, Zenon DEF Gift
<1> QED
  BY <1>1, <1>11, Zenon

LEMMA GiftOrder ==
  ASSUME NEW t \in Threads, NEW s \in Threads, Gift(t, s), NEW u \in Threads, NEW v \in Threads,
         Queued(u)', Queued(v)', SameQueue(u, v)', pos'[u] < pos'[v]
  PROVE  Queued(u) /\ Queued(v) /\ SameQueue(u, v) /\ pos[u] < pos[v]
<1>1. /\ (Queued(u)' <=> Queued(u)) /\ (Queued(v)' <=> Queued(v))
      /\ lk'[u] = lk[u] /\ lk'[v] = lk[v] /\ pos'[u] = pos[u] /\ pos'[v] = pos[v]
      /\ Coh(u)' = Coh(u) /\ Coh(v)' = Coh(v)
  BY Zenon DEF Gift
<1>2. SameQueue(u, v)' <=> SameQueue(u, v)
  BY <1>1, Zenon DEF SameQueue
<1>3. pos[u] < pos[v]
  BY <1>1, Zenon
<1> QED BY <1>1, <1>2, <1>3, Zenon

\* A thread's share in a batch does not change.
Steady(u) ==
  /\ Batch(u)' <=> Batch(u)
  /\ HasTk(u)' <=> HasTk(u)
  /\ HasTk(u) => Tk(u)' = Tk(u)
  /\ Holding(u)' <=> Holding(u)
  /\ Over(u)' <=> Over(u)
  /\ Sec(u)' <=> Sec(u)
  /\ pc'[u] \in Holds <=> pc[u] \in Holds
  /\ pc[u] \in Past => pc'[u] \in Past /\ Bt(u)' = Bt(u) /\ Bud(u)' = Bud(u)
  /\ Batch(u) => Bud(u)' = Bud(u)
  /\ pc'[u] \in {"swap", "link", "recheck", "give", "release", "faawrite", "victim",
                 "spin1", "spin2"} => pc'[u] = pc[u]
  /\ pc[u] \in {"swap", "link"} => Bud(u)' = Bud(u)

LEMMA SteadyInv ==
  ASSUME QInv, BInv, NEW t \in Threads, NEW s \in Threads, Gift(t, s),
         \A u \in Threads : Steady(u),
         UNCHANGED <<flag, victim, next_ticket, current_ticket, uses>>
  PROVE  (/\ ValidInv /\ ChainInv /\ HoldInv /\ TicketInv /\ ShareInv /\ PetersonInv)'
<1>1. \A u \in Threads :
        /\ Coh(u)' = Coh(u) /\ (Queued(u)' <=> Queued(u))
        /\ lk'[u] = lk[u] /\ prev'[u] = prev[u] /\ pos'[u] = pos[u] /\ tk'[u] = tk[u]
        /\ from_prev'[u] = from_prev[u] /\ vbuf'[u] = vbuf[u]
        /\ Suc(u)' = Suc(u) /\ Valid(u)' = Valid(u) /\ (Granted(u)' <=> Granted(u))
  BY Zenon DEF Gift
<1>2. ValidInv /\ BudgetInv /\ ChainInv /\ HoldInv /\ TicketInv /\ ShareInv /\ PetersonInv
  BY Zenon DEF BInv
<1>3. \A u \in Threads :
        /\ Batch(u)' <=> Batch(u)
        /\ pc[u] \in Past => pc'[u] \in Past /\ Bt(u)' = Bt(u) /\ Bud(u)' = Bud(u)
        /\ pc'[u] \in {"swap", "link", "recheck", "give", "release", "faawrite", "victim",
                       "spin1", "spin2"} => pc'[u] = pc[u]
        /\ pc[u] \in {"swap", "link"} => Bud(u)' = Bud(u)
  BY Zenon DEF Steady
<1>4. ValidInv'
  <2>1. ASSUME NEW u \in Threads, pc'[u] = "release", tk'[u] = kTrue PROVE Valid(prev[u])' = kTrue
    <3>1. pc[u] = "release" /\ tk[u] = kTrue /\ prev'[u] = prev[u]
      BY <1>1, <1>3, <2>1, Zenon
    <3>2. prev[u] \in Threads
      BY <3>1, Zenon DEF QInv, TypeOK, PrevInv, Linking
    <3>3. PICK p \in Threads : p = prev[u] /\ Valid(p) = kTrue
      BY <1>2, <3>1, <3>2, Zenon DEF ValidInv
    <3> QED BY <1>1, <3>1, <3>3, Zenon
  <2>2. \A u \in Threads :
          (/\ pc[u] \in {"swap", "link"} => Valid(u) = kFalse /\ Bud(u) = NoBudget
           /\ pc[u] \in {"recheck", "give"} => Valid(u) = kTrue)'
    BY <1>1, <1>2, <1>3, Zenon DEF ValidInv
  <2>3. \A u \in Threads :
          (Queued(u) /\ Valid(u) = kTrue =>
             pc[u] \in Past /\ \A v \in Threads : Suc(u) = v => ~Batch(v))'
    BY <1>1, <1>2, <1>3, Zenon DEF ValidInv
  <2> QED BY <2>1, <2>2, <2>3, Zenon DEF ValidInv
<1>5. \A u \in Threads :
        /\ HasTk(u)' <=> HasTk(u)
        /\ HasTk(u) => Tk(u)' = Tk(u)
        /\ Holding(u)' <=> Holding(u)
        /\ Over(u)' <=> Over(u)
        /\ Sec(u)' <=> Sec(u)
        /\ pc'[u] \in Holds <=> pc[u] \in Holds
        /\ Batch(u) => Bud(u)' = Bud(u)
  BY Zenon DEF Steady
<1>6. ChainInv'
  <2> SUFFICES ASSUME NEW u \in Threads, Batch(u)'
               PROVE  (/\ prev[u] # None
                       /\ ~Granted(u) =>
                            /\ pc[prev[u]] \in Past /\ Valid(prev[u]) = kFalse
                            /\ tk[prev[u]] = Tk(u) /\ Bud(prev[u]) = Bud(u) + 1
                       /\ Granted(u) /\ pc[u] \notin Holds =>
                            Tk(u) = current_ticket[lk[u]] /\ uses[lk[u]] = Budget(Coh(u)) - Bud(u))'
    BY Zenon DEF ChainInv
  <2>1. Batch(u) /\ HasTk(u)
    BY <1>2, <1>3, HasTkIf, Zenon DEF BudgetInv
  <2>2. Tk(u)' = Tk(u) /\ Bud(u)' = Bud(u)
    BY <1>5, <2>1, Zenon
  <2>3. PICK p \in Threads : p = prev[u]
    BY <1>2, <2>1, Zenon DEF ChainInv, QInv, TypeOK
  <2>4. /\ pc[p] \in Past => pc'[p] \in Past /\ Bud(p)' = Bud(p)
        /\ tk'[p] = tk[p] /\ Valid(p)' = Valid(p)
    BY <1>1, <1>3, Zenon
  <2>5. p = prev'[u] /\ Bud(prev[u])' = Bud(p)' /\ Valid(prev[u])' = Valid(p)'
    BY <1>1, <2>3, Zenon
  <2> QED
    BY <1>1, <1>2, <1>5, <2>1, <2>2, <2>3, <2>4, <2>5, ZenonT(40) DEF ChainInv
<1>7. HoldInv'
  <2>1. \A u \in Threads : Holding(u) => Bt(u)' = Bt(u) /\ Bud(u)' = Bud(u)
    BY <1>3, HasTkIf, Zenon
  <2> QED BY <1>1, <1>2, <1>5, <2>1, Zenon DEF HoldInv
<1>8. TicketInv'
  <2>1. \A u \in Threads :
          /\ HasTk(u)' => /\ HasTk(u) /\ Tk(u)' = Tk(u) /\ lk'[u] = lk[u]
                          /\ (Batch(u) => Batch(u)') /\ (Over(u) => Over(u)')
                          /\ (pc[u] \in Holds => pc'[u] \in Holds)
          /\ pc'[u] = "faawrite" =>
               pc[u] = "faawrite" /\ tk'[u] = tk[u] /\ lk'[u] = lk[u] /\ Coh(u)' = Coh(u)
    BY <1>1, <1>3, <1>5, Zenon
  <2> QED BY <1>2, <2>1, TicketKept, Zenon
<1>9. ShareInv'
  <2>1. \A u \in Threads : HasTk(u)' =>
          /\ HasTk(u) /\ Tk(u)' = Tk(u) /\ (Batch(u) <=> Batch(u)') /\ lk'[u] = lk[u]
          /\ pos'[u] = pos[u] /\ Coh(u)' = Coh(u) /\ Valid(u)' = Valid(u)
    BY <1>1, <1>3, <1>5, Zenon
  <2> QED BY <1>2, <2>1, ShareKept, Zenon
<1>10. PetersonInv'
  <2>1. \A u \in Threads : Contends(u)' => Contends(u)
    BY <1>3, <1>5, Zenon DEF Contends
  <2>2. \A u \in Threads :
          /\ Contends(u)' => Contends(u) /\ lk'[u] = lk[u] /\ Coh(u)' = Coh(u)
          /\ Sec(u)' => Sec(u) /\ lk'[u] = lk[u] /\ Coh(u)' = Coh(u)
          /\ pc'[u] \in {"spin1", "spin2"} =>
               pc'[u] = pc[u] /\ lk'[u] = lk[u] /\ Coh(u)' = Coh(u) /\ vbuf'[u] = vbuf[u]
    BY <1>1, <1>3, <1>5, <2>1, Zenon
  <2> QED BY <1>2, <2>2, PetersonKept, Zenon
<1> QED
  BY <1>4, <1>6, <1>7, <1>8, <1>9, <1>10, Zenon

LEMMA SameSteady ==
  ASSUME NEW u, Same(u), View(u)
  PROVE  Steady(u)
BY Zenon DEF Same, View, Steady

\* The ticket is written to a blocked successor, which does not look at it yet.
LEMMA PassTicketBInv ==
  ASSUME QInv, BInv, NEW t \in Threads, PassTicket(t)
  PROVE  BInv'
<1>1. /\ pc[t] = "passticket" /\ pc' = [pc EXCEPT ![t] = "passbudget"]
      /\ batch_ticket' = [batch_ticket EXCEPT ![Coh(t)][Suc(t)] = tk[t]]
      /\ UNCHANGED <<flag, victim, next_ticket, current_ticket, next, ticket_valid, budget,
                     granted, lk, prev, tk, from_prev, vbuf, pos, uses>>
  BY Zenon DEF PassTicket, Goto, Suc, lockVars, threadVars, history
<1>2. /\ \A u \in Threads : u # Suc(t) => \A c \in Cohorts :
           budget'[c][u] = budget[c][u] /\ batch_ticket'[c][u] = batch_ticket[c][u]
      /\ \A u \in Threads : Suc(t) = u => batch_ticket'[Coh(t)][u] = tk[t]
  BY <1>1, CohType, Zenon DEF QInv, TypeOK
<1>3. pc'[t] = "passbudget" /\ \E s \in Threads : Gift(t, s)
  <2>1. pc[t] \in Succeeded /\ "passbudget" \notin {"idle", "swap"}
    BY <1>1, Zenon DEF Succeeded
  <2> QED BY <1>1, <1>2, <2>1, GiftView, Zenon
<1>4. PICK s \in Threads : Gift(t, s)
  BY <1>3, Zenon
<1>5. /\ s # t /\ Queued(t) /\ Queued(s) /\ SameQueue(t, s) /\ prev[s] = t /\ Suc(t) = s
      /\ \A u \in Threads : u # t => pc'[u] = pc[u]
      /\ \A u \in Threads : u # s => Bud(u)' = Bud(u) /\ Bt(u)' = Bt(u)
      /\ \A u \in Threads : u # t /\ u # s => Same(u) /\ View(u)
      /\ \A u \in Threads :
           /\ Coh(u)' = Coh(u) /\ (Queued(u)' <=> Queued(u))
           /\ lk'[u] = lk[u] /\ prev'[u] = prev[u] /\ pos'[u] = pos[u] /\ tk'[u] = tk[u]
           /\ from_prev'[u] = from_prev[u] /\ Suc(u)' = Suc(u) /\ Valid(u)' = Valid(u)
  BY <1>4, Zenon DEF Gift
<1>6. Bud(s)' = Bud(s) /\ Bt(s)' = tk[t]
  <2>1. PICK c \in Cohorts : Coh(t) = c /\ Coh(s) = c /\ Coh(s)' = c
    BY <1>5, CohType, Zenon DEF SameQueue
  <2>2. budget'[c][s] = budget[c][s] /\ batch_ticket'[c][s] = tk[t]
    BY <1>1, <1>2, <1>5, <2>1, Zenon
  <2> QED BY <2>1, <2>2, Zenon DEF Bud, Bt
<1>7. OrderInv /\ BudgetInv
  BY Zenon DEF BInv
<1>8. Blocked(s) /\ ~Batch(s) /\ ~HasTk(s) /\ ~Sec(s) /\ pc[s] \notin Past /\ pc[t] \notin Past
  <2>1. pos[t] < pos[s]
    BY <1>4 DEF Gift, QInv, TypeOK
  <2>2. pc[t] \notin Past
    BY <1>1, Zenon DEF Past, Holds, Leaving
  <2>3. Blocked(s)
    BY <1>5, <1>7, <2>1, <2>2, Zenon DEF OrderInv
  <2> QED BY <1>7, <2>2, <2>3, BlockedIsOut, Zenon
<1>9. Steady(t)
  <2>1. ~Passed(t) /\ ~Passed(t)'
    BY <1>1, <1>3, Zenon DEF Passed, Waits
  <2>2. /\ pc[t] \in Drawn /\ pc'[t] \in Drawn /\ pc[t] \notin Waits \cup Past \cup Holds
        /\ pc'[t] \notin Waits \cup Past \cup Holds
        /\ pc'[t] \notin {"swap", "link", "recheck", "give", "release", "faawrite", "victim",
                          "spin1", "spin2"}
    BY <1>1, <1>3, Zenon DEF Drawn, Waits, Past, Holds, Leaving
  <2>3. /\ (Batch(t)' <=> Batch(t)) /\ (HasTk(t)' <=> HasTk(t)) /\ (HasTk(t) => Tk(t)' = Tk(t))
    BY <1>5, <2>1, <2>2, Zenon DEF Batch, HasTk, Tk
  <2>4. /\ (Holding(t)' <=> Holding(t)) /\ (Over(t)' <=> Over(t)) /\ (Sec(t)' <=> Sec(t))
    BY <1>1, <1>3, <2>2, Zenon DEF Holding, Over, Holds, Sec
  <2> QED BY <1>5, <2>2, <2>3, <2>4, Zenon DEF Steady
<1>10. Steady(s) /\ Blocked(s)'
  <2>1. pc'[s] = pc[s] /\ tk'[s] = tk[s] /\ from_prev'[s] = from_prev[s] /\ Coh(s)' = Coh(s)
    BY <1>5, Zenon
  <2>2. (Passed(s)' <=> Passed(s)) /\ (Blocked(s)' <=> Blocked(s))
    BY <1>6, <2>1, Zenon DEF Passed, Blocked
  <2>3. /\ (Batch(s)' <=> Batch(s)) /\ (HasTk(s)' <=> HasTk(s)) /\ (Sec(s)' <=> Sec(s))
        /\ (Holding(s)' <=> Holding(s)) /\ (Over(s)' <=> Over(s))
    BY <1>5, <2>1, <2>2, Zenon DEF Batch, HasTk, Sec, Holding, Over
  <2> QED BY <1>6, <1>8, <2>1, <2>2, <2>3, Zenon DEF Steady
<1>11. \A u \in Threads : Steady(u)
  BY <1>5, <1>9, <1>10, SameSteady, Zenon
<1>12. (/\ ValidInv /\ ChainInv /\ HoldInv /\ TicketInv /\ ShareInv /\ PetersonInv)'
  BY <1>1, <1>4, <1>11, SteadyInv, Zenon
<1>13. OrderInv'
  <2>1. ~Blocked(t)
    BY <1>1, Zenon DEF Blocked, Waits
  <2>2. \A u \in Threads : (Blocked(u) => Blocked(u)') /\ (pc'[u] \notin Past => pc[u] \notin Past)
    BY <1>5, <1>8, <1>10, <2>1, Zenon DEF View
  <2>3. ASSUME NEW u \in Threads, NEW v \in Threads, Queued(u)', Queued(v)', SameQueue(u, v)',
               pos'[u] < pos'[v], pc'[u] \notin Past
        PROVE  Blocked(v)'
    <3>1. Queued(u) /\ Queued(v) /\ SameQueue(u, v) /\ pos[u] < pos[v] /\ pc[u] \notin Past
      BY <1>4, <2>2, <2>3, GiftOrder, Zenon
    <3> QED BY <1>7, <2>2, <3>1, Zenon DEF OrderInv
  <2> QED BY <2>3, Zenon DEF OrderInv
<1>14. BudgetInv'
  <2>1. BudgetOf(t) /\ BudgetOf(s)
    BY <1>7, Zenon DEF BudgetInv
  <2>2. BudgetOf(t)'
    <3>1. /\ pc[t] \in Drawn /\ pc'[t] \in Drawn
          /\ pc'[t] \notin Peterson \cup {"faa", "faawrite", "gotbudget"} /\ Bud(t) # 1
      BY <1>1, <1>3, <2>1, Zenon DEF Drawn, Peterson, BudgetOf
    <3> QED BY <1>5, <2>1, <3>1, Zenon DEF BudgetOf
  <2>3. BudgetOf(s)'
    <3>1. pc'[s] = pc[s] /\ ~from_prev[s]
      BY <1>5, <1>8, Zenon DEF Batch
    <3> QED BY <1>5, <1>6, <2>1, <3>1, Zenon DEF BudgetOf
  <2>4. \A u \in Threads : BudgetOf(u)'
    BY <1>5, <1>7, <2>2, <2>3, SameBudget, Zenon DEF BudgetInv
  <2>5. ASSUME NEW u \in Threads, pc'[u] = "passbudget", NEW v \in Threads, Suc(u)' = v
        PROVE  Bt(v)' = tk'[u]
    <3>1. CASE u = t
      BY <1>5, <1>6, <2>5, <3>1, Zenon
    <3>2. CASE u # t
      <4>1. pc[u] = "passbudget" /\ Suc(u) = v /\ Queued(u)
        BY <1>5, <2>5, <3>2, Zenon DEF Queued
      <4>2. prev[v] = u
        BY <4>1, Zenon DEF Suc, QInv, NextInv
      <4>3. v # s
        BY <1>5, <3>2, <4>2, Zenon
      <4>4. Bt(v)' = Bt(v) /\ tk'[u] = tk[u]
        BY <1>5, <4>3, Zenon
      <4>5. Bt(v) = tk[u]
        BY <1>7, <4>1, Zenon DEF BudgetInv
      <4> QED BY <4>4, <4>5, Zenon
    <3> QED BY <3>1, <3>2, Zenon
  <2> QED BY <2>4, <2>5, Zenon DEF BudgetInv
<1> QED
  BY <1>12, <1>13, <1>14, Zenon DEF BInv

\* A whole budget is given to a successor outside the batch.  One that has seen
\* ticket_valid_ and gone on already has it.
LEMMA GiveBudgetBInv ==
  ASSUME QInv, BInv, NEW t \in Threads, GiveBudget(t)
  PROVE  BInv'
<1>1. /\ pc[t] = "give" /\ pc' = [pc EXCEPT ![t] = AfterTicket(t)]
      /\ budget' = [budget EXCEPT ![Coh(t)][Suc(t)] = Budget(Coh(t))]
      /\ UNCHANGED <<flag, victim, next_ticket, current_ticket, next, ticket_valid, batch_ticket,
                     granted, lk, prev, tk, from_prev, vbuf, pos, uses>>
  BY Zenon DEF GiveBudget, Goto, Suc, lockVars, threadVars, history
<1>q. PICK q \in {"waitgrant", "waitturn"} : pc' = [pc EXCEPT ![t] = q]
  BY <1>1, Zenon DEF AfterTicket
<1>2. /\ \A u \in Threads : u # Suc(t) => \A c \in Cohorts :
           budget'[c][u] = budget[c][u] /\ batch_ticket'[c][u] = batch_ticket[c][u]
      /\ \A u \in Threads : Suc(t) = u => budget'[Coh(t)][u] = Budget(Coh(t))
  BY <1>1, CohType, Zenon DEF QInv, TypeOK
<1>3. pc'[t] = q /\ \E s \in Threads : Gift(t, s)
  <2>1. pc[t] \in Succeeded /\ q \notin {"idle", "swap"}
    BY <1>1, Zenon DEF Succeeded
  <2> QED BY <1>1, <1>q, <1>2, <2>1, GiftView, Zenon
<1>4. PICK s \in Threads : Gift(t, s)
  BY <1>3, Zenon
<1>5. /\ s # t /\ Queued(t) /\ Queued(s) /\ SameQueue(t, s) /\ prev[s] = t /\ Suc(t) = s
      /\ pc[s] # "link"
      /\ \A u \in Threads : u # t => pc'[u] = pc[u]
      /\ \A u \in Threads : u # s => Bud(u)' = Bud(u) /\ Bt(u)' = Bt(u)
      /\ \A u \in Threads : u # t /\ u # s => Same(u) /\ View(u)
      /\ \A u \in Threads :
           /\ Coh(u)' = Coh(u) /\ (Queued(u)' <=> Queued(u))
           /\ lk'[u] = lk[u] /\ prev'[u] = prev[u] /\ pos'[u] = pos[u] /\ tk'[u] = tk[u]
           /\ from_prev'[u] = from_prev[u] /\ Suc(u)' = Suc(u) /\ Valid(u)' = Valid(u)
  BY <1>4, Zenon DEF Gift
<1>6. Bud(s)' = Budget(Coh(s)) /\ Bt(s)' = Bt(s) /\ Coh(s)' = Coh(s)
  <2>1. PICK c \in Cohorts : Coh(t) = c /\ Coh(s) = c /\ Coh(s)' = c
    BY <1>5, CohType, Zenon DEF SameQueue
  <2>2. budget'[c][s] = Budget(c) /\ batch_ticket'[c][s] = batch_ticket[c][s]
    BY <1>1, <1>2, <1>5, <2>1, Zenon
  <2> QED BY <2>1, <2>2, Zenon DEF Bud, Bt
<1>7. OrderInv /\ ValidInv /\ BudgetInv
  BY Zenon DEF BInv
<1>8. ~Batch(s) /\ ~Passed(s) /\ ~from_prev[s] /\ ~Passed(s)'
  <2>1. ~Batch(s)
    BY <1>1, <1>5, <1>7, Zenon DEF ValidInv
  <2> QED BY <1>6, <2>1, Zenon DEF Batch, Passed
<1>9. BudgetOf(s) /\ BudgetOf(t) /\ (pc[s] \in Drawn \cup Past => Bud(s) = Budget(Coh(s)))
  <2>1. BudgetOf(s) /\ BudgetOf(t)
    BY <1>7, Zenon DEF BudgetInv
  <2> QED BY <1>8, <2>1, Zenon DEF BudgetOf
<1>t. /\ pc[t] \in Past /\ pc'[t] \in Past /\ pc[t] \notin Waits \cup Holds
      /\ pc'[t] \notin Waits \cup Holds
      /\ pc'[t] \notin {"swap", "link", "recheck", "give", "release", "faawrite", "victim",
                        "spin1", "spin2", "faa", "gotbudget", "passticket", "passbudget"}
      /\ pc'[t] \notin Peterson
  BY <1>1, <1>3, Zenon DEF Waits, Past, Holds, Leaving, Peterson
<1>10. Steady(t)
  <2>1. ~Passed(t) /\ ~Passed(t)'
    BY <1>t, Zenon DEF Passed
  <2>3. /\ (Batch(t)' <=> Batch(t)) /\ (HasTk(t)' <=> HasTk(t)) /\ Tk(t)' = Tk(t)
    BY <1>5, <1>t, <2>1, Zenon DEF Batch, HasTk, Tk
  <2>4. /\ (Holding(t)' <=> Holding(t)) /\ (Over(t)' <=> Over(t)) /\ (Sec(t)' <=> Sec(t))
    BY <1>1, <1>3, <1>t, <2>1, Zenon DEF Holding, Over, Holds, Sec
  <2> QED BY <1>1, <1>5, <1>t, <2>3, <2>4, Zenon DEF Steady
<1>11. Steady(s)
  <2>1. pc'[s] = pc[s] /\ tk'[s] = tk[s] /\ from_prev'[s] = from_prev[s]
    BY <1>5, Zenon
  <2>3. /\ (Batch(s)' <=> Batch(s)) /\ (HasTk(s)' <=> HasTk(s)) /\ (Sec(s)' <=> Sec(s))
        /\ (Holding(s)' <=> Holding(s)) /\ (Over(s)' <=> Over(s)) /\ Tk(s)' = Tk(s)
    BY <1>5, <1>6, <1>8, <2>1, Zenon DEF Batch, HasTk, Sec, Holding, Over, Tk
  <2>4. pc[s] \notin {"swap", "link"}
    BY <1>5, Zenon DEF Queued
  <2> QED BY <1>6, <1>8, <1>9, <2>1, <2>3, <2>4, Zenon DEF Steady
<1>12. \A u \in Threads : Steady(u)
  BY <1>5, <1>10, <1>11, SameSteady, Zenon
<1>13. (/\ ValidInv /\ ChainInv /\ HoldInv /\ TicketInv /\ ShareInv /\ PetersonInv)'
  BY <1>1, <1>4, <1>12, SteadyInv, Zenon
<1>14. OrderInv'
  <2>1. ASSUME NEW u \in Threads, Queued(u), SameQueue(u, s), pos[u] < pos[s] PROVE pc[u] \in Past
    <3>1. pos[t] \in Nat /\ pos[u] \in Nat /\ pos[s] = pos[t] + 1
      BY <1>4, Zenon DEF Gift, QInv, TypeOK
    <3>2. SameQueue(u, t)
      BY <1>5, <2>1, Zenon DEF SameQueue
    <3>3. u = t \/ pos[u] < pos[t]
      <4>1. pos[u] = pos[t] => u = t
        BY <1>5, <2>1, <3>2, Zenon DEF QInv, PosInv
      <4> QED BY <2>1, <3>1, <4>1
    <3>4. ~Blocked(t)
      BY <1>7, <1>t, BlockedIsOut, Zenon
    <3> QED BY <1>5, <1>7, <1>t, <2>1, <3>2, <3>3, <3>4, Zenon DEF OrderInv
  <2>2. \A u \in Threads : (u # s /\ Blocked(u) => Blocked(u)') /\ (pc'[u] \notin Past => pc[u] \notin Past)
    <3>1. ~Blocked(t)
      BY <1>7, <1>t, BlockedIsOut, Zenon
    <3> QED BY <1>5, <1>t, <3>1, Zenon DEF View
  <2>3. ASSUME NEW u \in Threads, NEW v \in Threads, Queued(u)', Queued(v)', SameQueue(u, v)',
               pos'[u] < pos'[v], pc'[u] \notin Past
        PROVE  Blocked(v)'
    <3>1. Queued(u) /\ Queued(v) /\ SameQueue(u, v) /\ pos[u] < pos[v] /\ pc[u] \notin Past
      BY <1>4, <2>2, <2>3, GiftOrder, Zenon
    <3> QED BY <1>7, <2>1, <2>2, <3>1, Zenon DEF OrderInv
  <2> QED BY <2>3, Zenon DEF OrderInv
<1>15. BudgetInv'
  <2>2. BudgetOf(t)'
    BY <1>5, <1>9, <1>t, Zenon DEF BudgetOf
  <2>3. BudgetOf(s)'
    <3>1. 1 <= Budget(Coh(s)) /\ Budget(Coh(s)) <= Budget(Coh(s)) /\ Budget(Coh(s)) # NoBudget
      BY BudgetAssumption DEF Budget, NoBudget
    <3>2. pc'[s] = pc[s] /\ ~from_prev'[s]
      BY <1>5, <1>8, Zenon
    <3>3. pc[s] \in {"passticket", "passbudget"} => Budget(Coh(s)) # 1
      BY <1>9, Zenon DEF BudgetOf, Drawn
    <3> QED BY <1>6, <3>1, <3>2, <3>3, Zenon DEF BudgetOf
  <2>4. \A u \in Threads : BudgetOf(u)'
    BY <1>5, <1>7, <2>2, <2>3, SameBudget, Zenon DEF BudgetInv
  <2>5. ASSUME NEW u \in Threads, pc'[u] = "passbudget", NEW v \in Threads, Suc(u)' = v
        PROVE  Bt(v)' = tk'[u]
    <3>1. u # t /\ pc[u] = "passbudget" /\ Suc(u) = v /\ tk'[u] = tk[u] /\ Bt(v)' = Bt(v)
      BY <1>5, <1>6, <1>t, <2>5, Zenon
    <3> QED BY <1>7, <3>1, Zenon DEF BudgetInv
  <2> QED BY <2>4, <2>5, Zenon DEF BudgetInv
<1> QED
  BY <1>13, <1>14, <1>15, Zenon DEF BInv

\* The batch goes from t to s: ticket, what is left of the budget, and section.
Hand(t, s) ==
  /\ Gift(t, s)
  /\ pc[t] = "passbudget" /\ pc'[t] \in {"waitgrant", "waitturn"}
  /\ Blocked(s) /\ pc[s] \in Waits /\ Valid(s) = kFalse /\ Valid(t) = kFalse
  /\ pc[s] # "release" \/ tk[s] # kTrue
  /\ Bud(s)' \in Int /\ Budget(Coh(s)) \in Nat
  /\ 1 <= Bud(s)' /\ Bud(s)' < Budget(Coh(s)) /\ Bud(t) = Bud(s)' + 1
  /\ Bud(t)' = Bud(t) /\ Bt(s)' = Bt(s) /\ Bt(s) = tk[t]
  /\ Passed(s)' /\ Batch(s)' /\ HasTk(s)' /\ Tk(s)' = tk[t] /\ Sec(s)'
  /\ Sec(t) /\ ~Sec(t)' /\ (Batch(t)' <=> Batch(t)) /\ HasTk(t) /\ HasTk(t)'
  /\ Tk(t) = tk[t] /\ Tk(t)' = tk[t]
  /\ \A u \in Threads : (Holding(u)' <=> Holding(u)) /\ (Over(u)' <=> Over(u))
  /\ ~Over(t) /\ ~Holding(t) /\ ~Holding(s)

LEMMA HandView ==
  ASSUME QInv, BInv, NEW t \in Threads, PassBudget(t)
  PROVE  \E s \in Threads : Hand(t, s)
<1>1. /\ pc[t] = "passbudget" /\ pc' = [pc EXCEPT ![t] = AfterTicket(t)]
      /\ budget' = [budget EXCEPT ![Coh(t)][Suc(t)] = Bud(t) - 1]
      /\ UNCHANGED <<flag, victim, next_ticket, current_ticket, next, ticket_valid, batch_ticket,
                     granted, lk, prev, tk, from_prev, vbuf, pos, uses>>
  BY Zenon DEF PassBudget, Goto, Suc, Bud, lockVars, threadVars, history
<1>q. PICK q \in {"waitgrant", "waitturn"} : pc' = [pc EXCEPT ![t] = q]
  BY <1>1, Zenon DEF AfterTicket
<1>2. /\ \A u \in Threads : u # Suc(t) => \A c \in Cohorts :
           budget'[c][u] = budget[c][u] /\ batch_ticket'[c][u] = batch_ticket[c][u]
      /\ \A u \in Threads : Suc(t) = u => budget'[Coh(t)][u] = Bud(t) - 1
  BY <1>1, CohType, Zenon DEF QInv, TypeOK
<1>3. pc'[t] = q /\ \E s \in Threads : Gift(t, s)
  <2>1. pc[t] \in Succeeded /\ q \notin {"idle", "swap"}
    BY <1>1, Zenon DEF Succeeded
  <2> QED BY <1>1, <1>q, <1>2, <2>1, GiftView, Zenon
<1>4. PICK s \in Threads : Gift(t, s)
  BY <1>3, Zenon
<1>5. /\ s # t /\ Queued(t) /\ Queued(s) /\ SameQueue(t, s) /\ prev[s] = t /\ Suc(t) = s
      /\ pc[s] # "link"
      /\ \A u \in Threads : u # t => pc'[u] = pc[u]
      /\ \A u \in Threads : u # s => Bud(u)' = Bud(u) /\ Bt(u)' = Bt(u)
      /\ \A u \in Threads : u # t /\ u # s => Same(u) /\ View(u)
      /\ \A u \in Threads :
           /\ Coh(u)' = Coh(u) /\ (Queued(u)' <=> Queued(u))
           /\ tk'[u] = tk[u] /\ from_prev'[u] = from_prev[u] /\ Valid(u)' = Valid(u)
  BY <1>4, Zenon DEF Gift
<1>6. Bud(s)' = Bud(t) - 1 /\ Bt(s)' = Bt(s)
  <2>1. PICK c \in Cohorts : Coh(t) = c /\ Coh(s) = c /\ Coh(s)' = c
    BY <1>5, CohType, Zenon DEF SameQueue
  <2>2. budget'[c][s] = Bud(t) - 1 /\ batch_ticket'[c][s] = batch_ticket[c][s]
    BY <1>1, <1>2, <1>5, <2>1, Zenon
  <2> QED BY <2>1, <2>2, Zenon DEF Bud, Bt
<1>7. OrderInv /\ BudgetInv /\ ValidInv
  BY Zenon DEF BInv
<1>8. Blocked(s) /\ ~Batch(s) /\ pc[s] \notin Past /\ pc[t] \notin Past
  <2>1. pos[t] < pos[s]
    BY <1>4 DEF Gift, QInv, TypeOK
  <2>2. pc[t] \notin Past
    BY <1>1, Zenon DEF Past, Holds, Leaving
  <2>3. Blocked(s)
    BY <1>5, <1>7, <2>1, <2>2, Zenon DEF OrderInv
  <2> QED BY <1>7, <2>2, <2>3, BlockedIsOut, Zenon
<1>9. pc[s] \in Waits /\ (pc[s] # "release" \/ tk[s] # kTrue)
  BY <1>5, <1>8, Zenon DEF Blocked
<1>10. Valid(s) = kFalse /\ Valid(t) = kFalse
  <2>1. Valid(s) \in Bit /\ Valid(t) \in Bit
    BY CohType DEF Valid, QInv, TypeOK
  <2> QED BY <1>5, <1>7, <1>8, <2>1, Zenon DEF ValidInv, Bit
<1>11. /\ Bud(s)' \in Int /\ Budget(Coh(s)) \in Nat
       /\ 1 <= Bud(s)' /\ Bud(s)' < Budget(Coh(s)) /\ Bud(t) = Bud(s)' + 1
  <2>1. BudgetOf(t) /\ Coh(s) = Coh(t)
    BY <1>5, <1>7, Zenon DEF BudgetInv, SameQueue
  <2>2. Budget(Coh(t)) \in Nat /\ Bud(t) \in Int /\ Budget(Coh(t)) # NoBudget
    <3>1. Bud(t) \in Int
      BY CohType DEF Bud, QInv, TypeOK
    <3> QED BY <3>1, BudgetAssumption DEF Budget, NoBudget
  <2>3. pc[t] \in Drawn
    BY <1>1, Zenon DEF Drawn
  <2>4. 1 <= Bud(t) /\ Bud(t) <= Budget(Coh(t)) /\ Bud(t) # 1
    BY <1>1, <1>5, <2>1, <2>2, <2>3, Zenon DEF BudgetOf
  <2> QED BY <1>6, <2>1, <2>2, <2>4
<1>12. Passed(s)' /\ Batch(s)' /\ HasTk(s)' /\ Tk(s)' = tk[t] /\ Sec(s)' /\ Bt(s) = tk[t]
  <2>1. Coh(s)' = Coh(s) /\ pc'[s] = pc[s]
    BY <1>5, Zenon
  <2>2. Bud(s)' # NoBudget /\ Bud(s)' # Budget(Coh(s))
    <3>1. Bud(t) \in Int
      BY CohType DEF Bud, QInv, TypeOK
    <3>2. Budget(Coh(s)) \in Nat
      BY BudgetAssumption, Zenon DEF Budget
    <3> QED BY <1>6, <1>11, <3>1, <3>2 DEF NoBudget
  <2>3. Passed(s)'
    BY <1>9, <2>1, <2>2, Zenon DEF Passed
  <2>4. Bt(s) = tk[t]
    BY <1>1, <1>5, <1>7, Zenon DEF BudgetInv
  <2> QED BY <1>6, <1>9, <2>1, <2>3, <2>4, Zenon DEF Batch, HasTk, Sec, Tk
<1>13. /\ Sec(t) /\ ~Sec(t)' /\ (Batch(t)' <=> Batch(t)) /\ HasTk(t) /\ HasTk(t)'
       /\ Tk(t) = tk[t] /\ Tk(t)' = tk[t]
  <2>1. pc[t] \notin Waits /\ pc'[t] \notin Waits /\ pc[t] \in Drawn /\ pc'[t] \in Past
    BY <1>1, <1>3, Zenon DEF Waits, Drawn, Past
  <2>2. ~Passed(t) /\ ~Passed(t)'
    BY <2>1, Zenon DEF Passed
  <2> QED BY <1>1, <1>3, <1>5, <2>1, <2>2, Zenon DEF Sec, Batch, HasTk, Tk
<1>14. /\ \A u \in Threads : (Holding(u)' <=> Holding(u)) /\ (Over(u)' <=> Over(u))
       /\ ~Over(t) /\ ~Holding(t) /\ ~Holding(s)
  <2>1. ~Holding(t) /\ ~Over(t) /\ ~Holding(t)' /\ ~Over(t)'
    BY <1>1, <1>3, Zenon DEF Holding, Over, Leaving
  <2>2. pc[s] \notin Holds /\ pc'[s] = pc[s]
    BY <1>5, <1>8, Zenon DEF Past
  <2>3. ~Holding(s) /\ ~Over(s) /\ ~Holding(s)' /\ ~Over(s)'
    BY <2>2, Zenon DEF Holding, Over, Holds
  <2> QED BY <1>5, <2>1, <2>3, Zenon DEF View
<1> QED
  BY <1>1, <1>3, <1>4, <1>5, <1>8, <1>9, <1>10, <1>11, <1>12, <1>13, <1>14, <1>6, Zenon DEF Hand

\* Nobody ahead of the one that gets the batch is still to draw or pass on.
LEMMA HandOrder ==
  ASSUME QInv, BInv, NEW t \in Threads, NEW s \in Threads, Hand(t, s)
  PROVE  OrderInv'
<1>1. Gift(t, s) /\ pc[t] = "passbudget" /\ pc'[t] \in Past
  BY Zenon DEF Hand, Past
<1>2. /\ s # t /\ Queued(t) /\ SameQueue(t, s) /\ pos[s] = pos[t] + 1
      /\ \A u \in Threads : u # t => pc'[u] = pc[u]
      /\ \A u \in Threads : u # t /\ u # s => View(u)
  BY <1>1, Zenon DEF Gift
<1>3. OrderInv
  BY Zenon DEF BInv
<1>4. ~Blocked(t)
  BY <1>1, Zenon DEF Blocked, Waits
<1>5. ASSUME NEW u \in Threads, Queued(u), SameQueue(u, s), pos[u] < pos[s] PROVE pc'[u] \in Past
  <2>1. pos[t] \in Nat /\ pos[u] \in Nat
    BY Zenon DEF QInv, TypeOK
  <2>2. SameQueue(u, t)
    BY <1>2, <1>5, Zenon DEF SameQueue
  <2>3. u = t \/ (u # t /\ pos[u] < pos[t])
    <3>1. pos[u] = pos[t] => u = t
      BY <1>2, <1>5, <2>2, Zenon DEF QInv, PosInv
    <3> QED BY <1>2, <1>5, <2>1, <3>1
  <2>4. u # t => pc[u] \in Past
    BY <1>2, <1>3, <1>4, <1>5, <2>2, <2>3, Zenon DEF OrderInv
  <2> QED BY <1>1, <1>2, <2>4, Zenon
<1>6. ASSUME NEW u \in Threads, NEW v \in Threads, Queued(u)', Queued(v)', SameQueue(u, v)',
             pos'[u] < pos'[v], pc'[u] \notin Past
      PROVE  Blocked(v)'
  <2>1. Queued(u) /\ Queued(v) /\ SameQueue(u, v) /\ pos[u] < pos[v]
    BY <1>1, <1>6, GiftOrder, Zenon
  <2>2. v # s /\ u # t
    BY <1>1, <1>5, <1>6, <2>1, Zenon
  <2>3. Blocked(v)
    BY <1>2, <1>3, <1>6, <2>1, <2>2, Zenon DEF OrderInv
  <2>4. v # t
    BY <1>4, <2>3, Zenon
  <2> QED BY <1>2, <2>2, <2>3, <2>4, Zenon DEF View
<1> QED
  BY <1>6, Zenon DEF OrderInv

LEMMA HandValid ==
  ASSUME QInv, BInv, NEW t \in Threads, NEW s \in Threads, Hand(t, s)
  PROVE  ValidInv' /\ BudgetInv'
<1>1. /\ Gift(t, s) /\ pc[t] = "passbudget" /\ pc'[t] \in {"waitgrant", "waitturn"}
      /\ Blocked(s) /\ pc[s] \in Waits /\ Valid(s) = kFalse /\ Valid(t) = kFalse
      /\ pc[s] # "release" \/ tk[s] # kTrue
      /\ 1 <= Bud(s)' /\ Bud(s)' < Budget(Coh(s)) /\ Bud(t)' = Bud(t) /\ Bt(s)' = Bt(s)
      /\ Batch(t)' <=> Batch(t)
  BY Zenon DEF Hand
<1>2. /\ s # t /\ Queued(t) /\ prev[s] = t
      /\ \A u \in Threads : u # t => pc'[u] = pc[u]
      /\ \A u \in Threads : u # s => Bud(u)' = Bud(u) /\ Bt(u)' = Bt(u)
      /\ \A u \in Threads : u # t /\ u # s => Same(u) /\ View(u)
      /\ \A u \in Threads :
           /\ Coh(u)' = Coh(u) /\ (Queued(u)' <=> Queued(u))
           /\ prev'[u] = prev[u] /\ tk'[u] = tk[u]
           /\ from_prev'[u] = from_prev[u] /\ Suc(u)' = Suc(u) /\ Valid(u)' = Valid(u)
  BY <1>1, Zenon DEF Gift
<1>3. ValidInv /\ BudgetInv
  BY Zenon DEF BInv
<1>4. kTrue # kFalse
  BY DEF kTrue, kFalse
<1>5. pc[s] \notin {"swap", "link", "recheck", "give", "setbudget", "passticket", "passbudget"}
  BY <1>1, Zenon DEF Waits
<1>6. ValidInv'
  <2>1. ASSUME NEW u \in Threads, pc'[u] = "release", tk'[u] = kTrue PROVE Valid(prev[u])' = kTrue
    <3>1. pc[u] = "release" /\ tk[u] = kTrue /\ prev'[u] = prev[u]
      BY <1>1, <1>2, <2>1, Zenon
    <3>2. prev[u] \in Threads
      BY <3>1, Zenon DEF QInv, TypeOK, PrevInv, Linking
    <3>3. PICK p \in Threads : p = prev[u] /\ Valid(p) = kTrue
      BY <1>3, <3>1, <3>2, Zenon DEF ValidInv
    <3> QED BY <1>2, <3>1, <3>3, Zenon
  <2>2. \A u \in Threads :
          (/\ pc[u] \in {"swap", "link"} => Valid(u) = kFalse /\ Bud(u) = NoBudget
           /\ pc[u] \in {"recheck", "give"} => Valid(u) = kTrue)'
    BY <1>1, <1>2, <1>3, <1>5, Zenon DEF ValidInv
  <2>3. ASSUME NEW u \in Threads, Queued(u)', Valid(u)' = kTrue
        PROVE  pc'[u] \in Past /\ \A v \in Threads : Suc(u)' = v => ~Batch(v)'
    <3>1. u # s /\ u # t /\ Queued(u) /\ Valid(u) = kTrue
      BY <1>1, <1>2, <1>4, <2>3, Zenon
    <3>2. pc[u] \in Past /\ \A v \in Threads : Suc(u) = v => ~Batch(v)
      BY <1>3, <3>1, Zenon DEF ValidInv
    <3>3. ASSUME NEW v \in Threads, Suc(u) = v PROVE v # s
      <4>1. prev[v] = u
        BY <3>1, <3>3, Zenon DEF Suc, QInv, NextInv
      <4> QED BY <1>2, <3>1, <4>1, Zenon
    <3>4. \A v \in Threads : v # s => (Batch(v)' <=> Batch(v))
      BY <1>1, <1>2, Zenon DEF View
    <3> QED BY <1>2, <3>1, <3>2, <3>3, <3>4, Zenon
  <2> QED BY <2>1, <2>2, <2>3, Zenon DEF ValidInv
<1>7. BudgetInv'
  <2>1. BudgetOf(t) /\ BudgetOf(s)
    BY <1>3, Zenon DEF BudgetInv
  <2>2. BudgetOf(t)'
    <3>1. /\ pc[t] \in Drawn /\ pc'[t] \in Past
          /\ pc'[t] \notin Peterson \cup {"faa", "faawrite", "gotbudget", "passticket", "passbudget"}
      BY <1>1, Zenon DEF Drawn, Peterson, Past
    <3> QED BY <1>1, <1>2, <2>1, <3>1, Zenon DEF BudgetOf
  <2>3. BudgetOf(s)'
    <3>1. /\ pc'[s] = pc[s] /\ pc[s] \notin Drawn \cup Past
          /\ pc[s] \notin Peterson \cup {"faa", "faawrite", "passticket", "passbudget"}
      BY <1>1, <1>2, Zenon DEF Waits, Drawn, Past, Holds, Leaving, Peterson
    <3>2. ~from_prev[s]
      BY <2>1, <3>1, Zenon DEF BudgetOf
    <3>3. Bud(s)' # NoBudget /\ Bud(s)' <= Budget(Coh(s))
      <4>1. Bud(s)' \in Int /\ Budget(Coh(s)) \in Nat
        BY Zenon DEF Hand
      <4> QED BY <1>1, <4>1 DEF NoBudget
    <3> QED BY <1>1, <1>2, <3>1, <3>2, <3>3, Zenon DEF BudgetOf
  <2>4. \A u \in Threads : BudgetOf(u)'
    BY <1>2, <1>3, <2>2, <2>3, SameBudget, Zenon DEF BudgetInv
  <2>5. ASSUME NEW u \in Threads, pc'[u] = "passbudget", NEW v \in Threads, Suc(u)' = v
        PROVE  Bt(v)' = tk'[u]
    <3>1. u # t /\ pc[u] = "passbudget" /\ Suc(u) = v /\ tk'[u] = tk[u] /\ Bt(v)' = Bt(v)
      BY <1>1, <1>2, <2>5, Zenon
    <3>2. Bt(v) = tk[u]
      BY <1>3, <3>1, Zenon DEF BudgetInv
    <3> QED BY <3>1, <3>2, Zenon
  <2> QED BY <2>4, <2>5, Zenon DEF BudgetInv
<1> QED
  BY <1>6, <1>7, Zenon

LEMMA HandChain ==
  ASSUME QInv, BInv, NEW t \in Threads, NEW s \in Threads, Hand(t, s),
         UNCHANGED <<current_ticket, next_ticket, uses>>
  PROVE  ChainInv' /\ HoldInv' /\ TicketInv'
<1>1. /\ Gift(t, s) /\ pc[t] = "passbudget" /\ pc'[t] \in {"waitgrant", "waitturn"}
      /\ Blocked(s) /\ pc[s] \in Waits /\ Valid(t) = kFalse
      /\ Bud(t) = Bud(s)' + 1 /\ Bud(t)' = Bud(t)
      /\ Batch(s)' /\ HasTk(s)' /\ Tk(s)' = tk[t]
      /\ (Batch(t)' <=> Batch(t)) /\ HasTk(t) /\ HasTk(t)' /\ Tk(t) = tk[t] /\ Tk(t)' = tk[t]
      /\ \A u \in Threads : (Holding(u)' <=> Holding(u)) /\ (Over(u)' <=> Over(u))
      /\ ~Over(t) /\ ~Holding(t) /\ ~Holding(s)
  BY Zenon DEF Hand
<1>2. /\ s # t /\ Queued(t) /\ SameQueue(t, s) /\ prev[s] = t /\ ~Granted(s)
      /\ \A u \in Threads : u # t => pc'[u] = pc[u]
      /\ \A u \in Threads : u # s => Bud(u)' = Bud(u) /\ Bt(u)' = Bt(u)
      /\ \A u \in Threads : u # t /\ u # s => Same(u) /\ View(u)
      /\ \A u \in Threads :
           /\ Coh(u)' = Coh(u) /\ lk'[u] = lk[u] /\ prev'[u] = prev[u] /\ tk'[u] = tk[u]
           /\ Valid(u)' = Valid(u) /\ (Granted(u)' <=> Granted(u))
  BY <1>1, Zenon DEF Gift
<1>3. ChainInv /\ HoldInv /\ TicketInv /\ BudgetInv
  BY Zenon DEF BInv
<1>4. pc[t] \notin Past /\ pc'[t] \in Past /\ pc[t] \notin Holds /\ pc'[t] \notin Holds
  BY <1>1, Zenon DEF Past, Holds, Leaving
<1>5. pc[s] \notin Past /\ pc[s] \notin Holds
  BY <1>1, <1>3, BlockedIsOut, Zenon DEF Past
<1>6. \A u \in Threads : u # s =>
        /\ Batch(u)' <=> Batch(u)
        /\ HasTk(u)' <=> HasTk(u)
        /\ Tk(u)' = Tk(u)
        /\ pc'[u] \in Holds <=> pc[u] \in Holds
  BY <1>1, <1>2, <1>4, Zenon DEF View
<1>7. ChainInv'
  <2>1. ASSUME NEW u \in Threads, Batch(u)', u # s
        PROVE  (/\ prev[u] # None
                /\ ~Granted(u) =>
                     /\ pc[prev[u]] \in Past /\ Valid(prev[u]) = kFalse
                     /\ tk[prev[u]] = Tk(u) /\ Bud(prev[u]) = Bud(u) + 1
                /\ Granted(u) /\ pc[u] \notin Holds =>
                     Tk(u) = current_ticket[lk[u]] /\ uses[lk[u]] = Budget(Coh(u)) - Bud(u))'
    <3>1. Batch(u) /\ Tk(u)' = Tk(u) /\ Bud(u)' = Bud(u) /\ (pc'[u] \in Holds <=> pc[u] \in Holds)
      BY <1>2, <1>6, <2>1, Zenon
    <3>2. PICK p \in Threads : p = prev[u]
      BY <1>3, <3>1, Zenon DEF ChainInv, QInv, TypeOK
    <3>3. pc[p] \in Past =>
            pc'[p] \in Past /\ Bud(p)' = Bud(p) /\ tk'[p] = tk[p] /\ Valid(p)' = Valid(p)
      BY <1>2, <1>4, <1>5, Zenon
    <3>4. p = prev'[u] /\ Bud(prev[u])' = Bud(p)' /\ Valid(prev[u])' = Valid(p)'
      BY <1>2, <3>2, Zenon
    <3> QED
      BY <1>2, <1>3, <3>1, <3>2, <3>3, <3>4, Zenon DEF ChainInv
  <2>2. (/\ prev[s] # None
         /\ ~Granted(s) =>
              /\ pc[prev[s]] \in Past /\ Valid(prev[s]) = kFalse
              /\ tk[prev[s]] = Tk(s) /\ Bud(prev[s]) = Bud(s) + 1
         /\ Granted(s) /\ pc[s] \notin Holds =>
              Tk(s) = current_ticket[lk[s]] /\ uses[lk[s]] = Budget(Coh(s)) - Bud(s))'
    <3>1. prev'[s] = t /\ t # None
      BY <1>2, NoneAssumption, Zenon
    <3>2. Bud(prev[s])' = Bud(t)' /\ Valid(prev[s])' = Valid(t)'
      BY <3>1, Zenon
    <3> QED BY <1>1, <1>2, <1>4, <3>1, <3>2, Zenon
  <2> QED BY <2>1, <2>2, Zenon DEF ChainInv
<1>8. HoldInv'
  <2>1. \A u \in Threads : Holding(u)' => Holding(u) /\ u # s
    BY <1>1, Zenon
  <2> QED BY <1>2, <1>3, <2>1, Zenon DEF HoldInv
<1>9. TicketInv'
  <2>1. \A u \in Threads : pc'[u] = "faawrite" => pc[u] = "faawrite"
    BY <1>1, <1>2, Zenon
  <2>2. lk[s] = lk[t]
    BY <1>2, Zenon DEF SameQueue
  <2>3. ASSUME NEW u \in Threads, HasTk(u)'
        PROVE  /\ Tk(u)' < next_ticket[lk[u]]
               /\ ~Over(u)' => current_ticket[lk[u]] <= Tk(u)'
               /\ ~Batch(u)' /\ pc'[u] \notin Holds /\ Tk(u)' = current_ticket[lk[u]] =>
                    uses[lk[u]] = 0
    <3>1. CASE u = s
      BY <1>1, <1>3, <2>2, <3>1, Zenon DEF TicketInv
    <3>2. CASE u # s
      BY <1>1, <1>3, <1>6, <2>3, <3>2, Zenon DEF TicketInv
    <3> QED BY <3>1, <3>2, Zenon
  <2> QED BY <1>2, <1>3, <2>1, <2>3, Zenon DEF TicketInv
<1> QED
  BY <1>7, <1>8, <1>9, Zenon

LEMMA HandShare ==
  ASSUME QInv, BInv, NEW t \in Threads, NEW s \in Threads, Hand(t, s)
  PROVE  ShareInv'
<1>1. /\ Gift(t, s) /\ Valid(t) = kFalse /\ Valid(s) = kFalse
      /\ Batch(s)' /\ HasTk(s)' /\ Tk(s)' = tk[t]
      /\ (Batch(t)' <=> Batch(t)) /\ HasTk(t) /\ HasTk(t)' /\ Tk(t) = tk[t] /\ Tk(t)' = tk[t]
  BY Zenon DEF Hand
<1>2. /\ s # t /\ Queued(t) /\ lk[s] = lk[t] /\ Coh(s) = Coh(t) /\ pos[s] = pos[t] + 1
      /\ \A u \in Threads : u # t /\ u # s => Same(u) /\ View(u)
      /\ \A u \in Threads :
           Coh(u)' = Coh(u) /\ lk'[u] = lk[u] /\ pos'[u] = pos[u] /\ Valid(u)' = Valid(u)
  BY <1>1, Zenon DEF Gift, SameQueue
<1>3. ShareInv
  BY Zenon DEF BInv
<1>4. \A u \in Threads : u # s =>
        (Batch(u)' <=> Batch(u)) /\ (HasTk(u)' <=> HasTk(u)) /\ Tk(u)' = Tk(u)
  BY <1>1, <1>2, Zenon DEF View
<1>5. \A u \in Threads : pos[u] \in Nat
  BY Zenon DEF QInv, TypeOK
<1>6. ASSUME NEW u \in Threads, u # s, HasTk(u), lk[u] = lk[t], Tk(u) = tk[t]
      PROVE  /\ Coh(u) = Coh(t) /\ (~Batch(u) => pos[u] < pos[s])
             /\ pos[u] < pos[s] => Valid(u) = kFalse
  <2>1. /\ Coh(u) = Coh(t)
        /\ ~Batch(u) => u = t \/ pos[u] < pos[t]
        /\ pos[u] < pos[t] => Valid(u) = kFalse
    BY <1>1, <1>3, <1>6, Zenon DEF ShareInv
  <2>2. Queued(u)
    BY <1>6, Zenon DEF HasTk, Queued, Passed, Waits, Drawn, Past, Holds, Leaving
  <2>3. pos[u] = pos[t] => u = t
    BY <1>2, <1>6, <2>1, <2>2, Zenon DEF QInv, PosInv, SameQueue
  <2> QED BY <1>1, <1>2, <1>5, <2>1, <2>3
<1>7. ASSUME NEW u \in Threads, NEW v \in Threads, HasTk(u)', HasTk(v)', lk[u] = lk[v],
             Tk(u)' = Tk(v)'
      PROVE  /\ Coh(u) = Coh(v)
             /\ ~Batch(u)' /\ ~Batch(v)' => u = v
             /\ ~Batch(u)' /\ Batch(v)' => pos[u] < pos[v]
             /\ pos[u] < pos[v] => Valid(u) = kFalse
  <2>1. CASE u # s /\ v # s
    <3>1. HasTk(u) /\ HasTk(v) /\ Tk(u) = Tk(v)
      BY <1>4, <1>7, <2>1, Zenon
    <3> QED BY <1>3, <1>4, <1>7, <2>1, <3>1, Zenon DEF ShareInv
  <2>2. CASE u = s /\ v # s
    <3>1. HasTk(v) /\ Tk(v) = tk[t] /\ lk[v] = lk[t]
      BY <1>1, <1>2, <1>4, <1>7, <2>2, Zenon
    <3> QED BY <1>1, <1>2, <1>6, <2>2, <3>1, Zenon
  <2>3. CASE u # s /\ v = s
    <3>1. HasTk(u) /\ Tk(u) = tk[t] /\ lk[u] = lk[t] /\ (Batch(u)' <=> Batch(u))
      BY <1>1, <1>2, <1>4, <1>7, <2>3, Zenon
    <3> QED BY <1>1, <1>2, <1>6, <2>3, <3>1, Zenon
  <2>4. CASE u = s /\ v = s
    BY <1>1, <2>4, Zenon
  <2> QED BY <2>1, <2>2, <2>3, <2>4, Zenon
<1> QED
  BY <1>2, <1>7, Zenon DEF ShareInv

LEMMA HandSection ==
  ASSUME QInv, BInv, NEW t \in Threads, NEW s \in Threads, Hand(t, s), UNCHANGED <<flag, victim>>
  PROVE  PetersonInv'
<1>1. /\ Gift(t, s) /\ pc'[t] \in {"waitgrant", "waitturn"} /\ pc[s] \in Waits
      /\ Sec(s)' /\ Sec(t) /\ ~Sec(t)'
  BY Zenon DEF Hand
<1>2. /\ s # t /\ lk[s] = lk[t] /\ Coh(s) = Coh(t)
      /\ \A u \in Threads : u # t => pc'[u] = pc[u]
      /\ \A u \in Threads : u # t /\ u # s => Same(u) /\ View(u)
      /\ \A u \in Threads : Coh(u)' = Coh(u) /\ lk'[u] = lk[u] /\ vbuf'[u] = vbuf[u]
  BY <1>1, Zenon DEF Gift, SameQueue
<1>3. PetersonInv
  BY Zenon DEF BInv
<1>4. \A u \in Threads : u # s /\ u # t => (Sec(u)' <=> Sec(u)) /\ (Contends(u)' <=> Contends(u))
  BY <1>2, Zenon DEF View, Contends
<1>5. \A u \in Threads : pc'[u] \in {"spin1", "spin2"} => u # s /\ u # t /\ pc[u] = pc'[u]
  BY <1>1, <1>2, Zenon DEF Waits
<1>6. ~Contends(t)' /\ Contends(t)
  BY <1>1, Zenon DEF Contends
<1>7. ASSUME NEW u \in Threads, Contends(u)' PROVE flag[lk[u]][Coh(u)] = kTrue
  <2>1. CASE u = s
    BY <1>2, <1>3, <1>6, <2>1, Zenon DEF PetersonInv
  <2>2. CASE u # s
    BY <1>3, <1>4, <1>6, <1>7, <2>2, Zenon DEF PetersonInv
  <2> QED BY <2>1, <2>2, Zenon
<1>8. ASSUME NEW u \in Threads, NEW v \in Threads, lk[u] = lk[v], Coh(u) # Coh(v), Sec(u)'
      PROVE  ~Sec(v)' /\ (pc'[v] \in {"spin1", "spin2"} => victim[lk[v]] = Coh(v))
  <2>1. CASE u = s
    <3>1. lk[t] = lk[v] /\ Coh(t) # Coh(v) /\ v # s /\ v # t
      BY <1>2, <1>8, <2>1, Zenon
    <3> QED BY <1>1, <1>3, <1>4, <1>5, <3>1, Zenon DEF PetersonInv
  <2>2. CASE u # s
    <3>1. u # t /\ Sec(u)
      BY <1>1, <1>4, <1>8, <2>2, Zenon
    <3>2. ASSUME v = s PROVE FALSE
      <4>1. lk[u] = lk[t] /\ Coh(u) # Coh(t)
        BY <1>2, <1>8, <3>2, Zenon
      <4> QED BY <1>1, <1>3, <3>1, <4>1, Zenon DEF PetersonInv
    <3> QED BY <1>1, <1>3, <1>4, <1>5, <1>8, <3>1, <3>2, Zenon DEF PetersonInv
  <2> QED BY <2>1, <2>2, Zenon
<1>9. \A u \in Threads :
        (/\ pc[u] \in {"spin1", "spin2"} => victim[lk[u]] \in Cohorts
         /\ pc[u] = "spin2" /\ Coh(u) = "remote" =>
              vbuf[u] \in Cohorts /\ (vbuf[u] = "local" => victim[lk[u]] = "local"))'
  BY <1>2, <1>3, <1>5, Zenon DEF PetersonInv
<1> QED
  BY <1>2, <1>7, <1>8, <1>9 DEF PetersonInv

LEMMA PassBudgetBInv ==
  ASSUME QInv, BInv, NEW t \in Threads, PassBudget(t)
  PROVE  BInv'
<1>1. PICK s \in Threads : Hand(t, s)
  BY HandView, Zenon
<1>2. UNCHANGED <<flag, victim, next_ticket, current_ticket, uses>>
  BY Zenon DEF PassBudget, lockVars, history
<1> QED
  BY <1>1, <1>2, HandOrder, HandValid, HandChain, HandShare, HandSection, Zenon DEF BInv

-----------------------------------------------------------------------------
LEMMA InitBInv ==
  ASSUME Init
  PROVE  BInv
<1>1. \A t \in Threads : pc[t] = "idle" /\ ~from_prev[t]
  BY Zenon DEF Init
<1>2. \A t \in Threads :
        /\ ~Queued(t) /\ ~Passed(t) /\ ~Batch(t) /\ ~HasTk(t) /\ ~Sec(t) /\ ~Contends(t)
        /\ ~Holding(t)
  <2>1. "idle" \notin Waits \cup Drawn \cup Past \cup Leaving
    BY Zenon DEF Waits, Drawn, Past, Holds, Leaving
  <2> QED BY <1>1, <2>1, Zenon DEF Queued, Passed, Batch, HasTk, Sec, Contends, Holding
<1>3. OrderInv /\ ChainInv /\ HoldInv /\ ShareInv
  BY <1>2, Zenon DEF OrderInv, ChainInv, HoldInv, ShareInv
<1>4. ValidInv
  BY <1>1, <1>2, Zenon DEF ValidInv
<1>5. BudgetInv
  <2>1. \A t \in Threads : BudgetOf(t)
    <3>1. "idle" \notin Peterson \cup {"faa", "faawrite"} \cup Drawn \cup Past
      BY Zenon DEF Peterson, Drawn, Past, Holds, Leaving
    <3> QED BY <1>1, <1>2, <3>1, Zenon DEF BudgetOf
  <2> QED BY <1>1, <2>1, Zenon DEF BudgetInv
<1>6. TicketInv
  <2>1. \A l \in Locks : current_ticket[l] = 0 /\ next_ticket[l] = 0 /\ uses[l] = 0
    BY Zenon DEF Init
  <2> QED BY <1>1, <1>2, <2>1 DEF TicketInv
<1>7. PetersonInv
  BY <1>1, <1>2, Zenon DEF PetersonInv
<1> QED
  BY <1>3, <1>4, <1>5, <1>6, <1>7, Zenon DEF BInv

LEMMA StutterBInv ==
  ASSUME BInv, UNCHANGED vars
  PROVE  BInv'
<1>1. /\ UNCHANGED <<flag, victim, next_ticket, current_ticket>>
      /\ UNCHANGED <<next, ticket_valid, batch_ticket, budget, granted>>
      /\ UNCHANGED <<pc, lk, prev, tk, from_prev, vbuf, pos, uses>>
  BY Zenon DEF vars, lockVars, descVars, threadVars, history
<1>2. OrderInv /\ ValidInv /\ BudgetInv /\ ChainInv /\ HoldInv /\ TicketInv /\ ShareInv /\ PetersonInv
  BY Zenon DEF BInv
<1>3. \A u \in Threads :
        /\ Coh(u)' = Coh(u) /\ Bud(u)' = Bud(u) /\ Valid(u)' = Valid(u) /\ Bt(u)' = Bt(u)
        /\ Valid(prev[u])' = Valid(prev[u]) /\ Bud(prev[u])' = Bud(prev[u])
        /\ Suc(u)' = Suc(u) /\ (Granted(u)' <=> Granted(u))
  BY <1>1, Zenon DEF Coh, CohortOf, IsLocal, Bud, Valid, Bt, Suc, Granted
<1>4. \A u \in Threads : (Passed(u)' <=> Passed(u)) /\ (Queued(u)' <=> Queued(u)) /\ (Batch(u)' <=> Batch(u))
  BY <1>1, <1>3, Zenon DEF Passed, Queued, Batch
<1>5. \A u \in Threads :
        /\ HasTk(u)' <=> HasTk(u)
        /\ Tk(u)' = Tk(u) /\ (Sec(u)' <=> Sec(u)) /\ (Contends(u)' <=> Contends(u))
        /\ (Over(u)' <=> Over(u)) /\ (Blocked(u)' <=> Blocked(u)) /\ (Holding(u)' <=> Holding(u))
  BY <1>1, <1>3, <1>4, Zenon DEF HasTk, Tk, Sec, Contends, Over, Blocked, Holding
<1>6. /\ \A u, v \in Threads : SameQueue(u, v)' <=> SameQueue(u, v)
      /\ \A u \in Threads : BudgetOf(u)' <=> BudgetOf(u)
  BY <1>1, <1>3, <1>4, Zenon DEF SameQueue, BudgetOf
<1>7. OrderInv' /\ HoldInv'
  BY <1>1, <1>2, <1>3, <1>4, <1>5, <1>6, Zenon DEF OrderInv, HoldInv
<1>8. ValidInv'
  BY <1>1, <1>2, <1>3, <1>4, Zenon DEF ValidInv
<1>9. BudgetInv'
  BY <1>1, <1>2, <1>3, <1>6, Zenon DEF BudgetInv
<1>10. ChainInv'
  BY <1>1, <1>2, <1>3, <1>4, <1>5, Zenon DEF ChainInv
<1>11. TicketInv'
  BY <1>1, <1>2, <1>3, <1>4, <1>5, TicketKept, Zenon
<1>12. ShareInv'
  BY <1>1, <1>2, <1>3, <1>4, <1>5, ShareKept, Zenon
<1>13. PetersonInv'
  BY <1>1, <1>2, <1>3, <1>5, PetersonKept, Zenon
<1> QED
  BY <1>7, <1>8, <1>9, <1>10, <1>11, <1>12, <1>13, Zenon DEF BInv

\* BInv is inductive, given what QInv says of the queues before and after a step.
LEMMA NextBInv ==
  ASSUME QInv, QInv', BInv, [Next]_vars
  PROVE  BInv'
<1>1. ASSUME NEW t \in Threads, NEW l \in Locks, Lock(t, l) PROVE BInv'
  BY <1>1, LockBInv, Zenon
<1>2. ASSUME NEW t \in Threads, LockSteps(t) PROVE BInv'
  <2>1. CASE SwapTail(t)
    BY <2>1, SwapTailBInv, Zenon
  <2>2. CASE LinkPrev(t)
    BY <2>2, LinkPrevBInv, Zenon
  <2>3. CASE ReadPrevValid(t)
    BY <2>3, ReadPrevValidBInv, Zenon
  <2>4. CASE ReleasePrev(t)
    BY <2>4, ReleasePrevBInv, Zenon
  <2>5. CASE AwaitBudget(t) \/ CheckNext(t) \/ RecheckNext(t)
    BY <2>5, LookBInv, Zenon
  <2>6. CASE TakeBatch(t)
    BY <2>6, TakeBatchBInv, Zenon
  <2>7. CASE SetBudget(t)
    BY <2>7, SetBudgetBInv, Zenon
  <2>8. CASE PassTicket(t)
    BY <2>8, PassTicketBInv, Zenon
  <2>9. CASE PassBudget(t)
    BY <2>9, PassBudgetBInv, Zenon
  <2>10. CASE UnlockPetersons(t)
    BY <2>10, UnlockPetersonsBInv, Zenon
  <2>11. CASE SetValid(t)
    BY <2>11, SetValidBInv, Zenon
  <2>12. CASE GiveBudget(t)
    BY <2>12, GiveBudgetBInv, Zenon
  <2>13. CASE AwaitPredecessor(t)
    BY <2>13, AwaitPredecessorBInv, WaitOnBInv, Zenon
  <2>14. CASE AwaitTicket(t)
    BY <2>14, AwaitTicketBInv, Zenon
  <2> QED
    BY <1>2, <2>1, <2>2, <2>3, <2>4, <2>5, <2>6, <2>7, <2>8, <2>9, <2>10, <2>11, <2>12, <2>13,
       <2>14, Zenon DEF LockSteps
<1>3. ASSUME NEW t \in Threads, LockPetersonsLocal(t) \/ LockPetersonsRemote(t) PROVE BInv'
  BY <1>3, RaiseFlagBInv, SetVictimBInv, SpinLocalBInv, SpinRemoteBInv, Zenon
  DEF LockPetersonsLocal, LockPetersonsRemote
<1>4. ASSUME NEW t \in Threads, FetchAddLocal(t) \/ FetchAddRemote(t) PROVE BInv'
  BY <1>4, FetchAddBInv, Zenon
<1>5. ASSUME NEW t \in Threads, UnlockSteps(t) PROVE BInv'
  BY <1>5, BumpCurrentBInv, LookBInv, CasTailBInv, GrantNextBInv, Zenon DEF UnlockSteps
<1>6. ASSUME UNCHANGED vars PROVE BInv'
  BY <1>6, StutterBInv, Zenon
<1> QED
  BY <1>1, <1>2, <1>3, <1>4, <1>5, <1>6, Zenon
  DEF Next, Done, LockLocal, LockRemote, UnlockLocal, UnlockRemote

-----------------------------------------------------------------------------

\* What a batch hands on stays consistent, for any threads, locks and budgets.
THEOREM BatchesKeepShape == Spec => [](QInv /\ BInv)
<1>1. Init => BInv
  BY InitBInv, Zenon
<1>2. QInv /\ QInv' /\ BInv /\ [Next]_vars => BInv'
  BY NextBInv, Zenon
<1> QED
  BY <1>1, <1>2, QueuesKeepShape, PTL DEF Spec

LEMMA BInvExclusion == QInv /\ BInv => MutualExclusion
<1> SUFFICES ASSUME QInv, BInv, NEW t \in Threads, NEW u \in Threads,
                    pc[t] = "cs", pc[u] = "cs", lk[t] = lk[u], t # u
             PROVE  FALSE
  BY Zenon DEF MutualExclusion
<1>1. HoldInv
  BY Zenon DEF BInv
<1>2. /\ tk[t] = current_ticket[lk[t]] /\ tk[u] = current_ticket[lk[u]]
  BY <1>1, Zenon DEF HoldInv, Holding
<1>3. pc[t] \in Past /\ pc[u] \in Past /\ pc[t] \in Holds /\ pc[u] \in Holds
  BY Zenon DEF Past, Holds
<1>4. prev[t] = None \/ Granted(t)
  BY <1>3, HolderIsHead, Zenon
<1>5. HasTk(u) /\ Tk(u) = tk[u]
  BY <1>3, HasTkIf, Zenon
<1> QED
  BY <1>2, <1>3, <1>4, <1>5, LoneTurn, Zenon

\* Lock and Unlock of FARLockG give mutual exclusion on every lock
\* (MutualExclusion), for any number of threads in both cohorts and any budgets:
\* a batch is passed on before its members enter, yet they enter one at a time.
THEOREM Exclusion == Spec => []MutualExclusion
BY BatchesKeepShape, BInvExclusion, PTL

LEMMA SectionIsSec ==
  ASSUME NEW t, InSection(t)
  PROVE  Sec(t) /\ Contends(t) /\ Queued(t) /\ pc[t] \notin Past /\ ~Blocked(t)
<1>1. CASE pc[t] \in {"faa", "faawrite", "checknext", "clear", "clearlast", "passticket", "passbudget"}
  BY <1>1, Zenon DEF Sec, Contends, Queued, Past, Holds, Leaving, Blocked, Waits
<1>2. CASE pc[t] \in {"waitbudget", "gotbudget"} /\ Bud(t) \notin {NoBudget, Budget(Coh(t))}
  <2>1. pc[t] \in Waits /\ Passed(t)
    BY <1>2, Zenon DEF Waits, Passed
  <2> QED
    BY <1>2, <2>1, Zenon DEF Sec, Contends, Queued, Past, Holds, Leaving, Blocked
<1> QED
  BY <1>1, <1>2, Zenon DEF InSection, Bud

LEMMA BInvSection == QInv /\ BInv => SectionExclusion
<1> SUFFICES ASSUME QInv, BInv, NEW t \in Threads, InSection(t)
             PROVE  /\ flag[lk[t]][Coh(t)] = kTrue
                    /\ \A u \in Threads : InSection(u) /\ lk[u] = lk[t] => u = t
  BY Zenon DEF SectionExclusion
<1>1. PetersonInv /\ OrderInv
  BY Zenon DEF BInv
<1>2. flag[lk[t]][Coh(t)] = kTrue
  BY <1>1, SectionIsSec, Zenon DEF PetersonInv
<1>3. ASSUME NEW u \in Threads, InSection(u), lk[u] = lk[t], u # t PROVE FALSE
  <2>1. CASE Coh(u) # Coh(t)
    BY <1>1, <1>3, <2>1, SectionIsSec, Zenon DEF PetersonInv
  <2>2. CASE Coh(u) = Coh(t)
    <3>1. SameQueue(t, u)
      BY <1>3, <2>2, Zenon DEF SameQueue
    <3> QED
      BY <1>1, <1>3, <3>1, SectionIsSec, Alone, Zenon
  <2> QED
    BY <2>1, <2>2, Zenon
<1> QED
  BY <1>2, <1>3, Zenon

\* Peterson's section of a lock has one thread in it at a time, with its cohort's
\* flag up (SectionExclusion), for any number of threads, although one thread
\* raises the flag, others inherit the section by a store to budget_, and the
\* last of them clears the flag.
THEOREM SectionIsExclusive == Spec => []SectionExclusion
BY BatchesKeepShape, BInvSection, PTL

LEMMA BInvTurn == QInv /\ BInv => HolderHasTurn
<1> SUFFICES ASSUME QInv, BInv, NEW t \in Threads, pc[t] = "cs"
             PROVE  batch_ticket[Coh(t)][t] = current_ticket[lk[t]]
  BY Zenon DEF HolderHasTurn
<1>1. tk[t] = current_ticket[lk[t]] /\ Bt(t) = tk[t]
  BY Zenon DEF BInv, HoldInv, Holding
<1> QED
  BY <1>1, Zenon DEF Bt

\* Whoever is in the critical section has the current ticket in its batch_ticket_
\* (HolderHasTurn), whether it drew it, waited for it or was handed it; so the
\* Unlock that adds one to it moves the turn to the next ticket and no other.
THEOREM HolderKnowsTurn == Spec => []HolderHasTurn
BY BatchesKeepShape, BInvTurn, PTL

LEMMA BInvBatch == QInv /\ BInv => BatchBound
<1> SUFFICES ASSUME QInv, BInv, NEW t \in Threads, pc[t] = "cs"
             PROVE  uses[lk[t]] \in 1..Budget(Coh(t))
  BY Zenon DEF BatchBound
<1>1. uses[lk[t]] = Budget(Coh(t)) - Bud(t) + 1
  BY Zenon DEF BInv, HoldInv, Holding
<1>2. BudgetOf(t)
  BY Zenon DEF BInv, BudgetInv
<1>3. Budget(Coh(t)) \in Nat /\ Budget(Coh(t)) # NoBudget
  BY BudgetAssumption DEF Budget, NoBudget
<1>4. Bud(t) # NoBudget
  <2>1. pc[t] \in Past
    BY Zenon DEF Past, Holds
  <2> QED
    BY <1>2, <1>3, <2>1, Zenon DEF BudgetOf
<1>5. 1 <= Bud(t) /\ Bud(t) <= Budget(Coh(t))
  <2>1. Queued(t)
    BY Zenon DEF Queued
  <2> QED
    BY <1>2, <1>4, <2>1, Zenon DEF BudgetOf
<1>6. Bud(t) \in Int
  BY CohType DEF Bud, QInv, TypeOK
<1> QED
  BY <1>1, <1>3, <1>5, <1>6

\* At most Budget threads enter under one ticket (BatchBound), for any budgets of
\* at least 1: each hand-over takes one from budget_ and nobody passes on the last.
THEOREM BatchIsBounded == Spec => []BatchBound
BY BatchesKeepShape, BInvBatch, PTL
-----------------------------------------------------------------------------
\* A step of t to q, outside Peterson's wait and the draw.
Aside(t, q) ==
  /\ pc' = [pc EXCEPT ![t] = q] /\ q \notin Racing
  /\ \A u \in Threads \ {t} : lk'[u] = lk[u] /\ seen'[u] = seen[u]
  /\ UNCHANGED <<next_ticket, victim>>

\* Such a step changes nothing for the threads that wait or draw.
LEMMA AsideBypass ==
  ASSUME QInv, BypassInv, NEW t \in Threads, NEW q, Aside(t, q)
  PROVE  BypassInv'
<1>1. /\ \A u \in Threads : u # t => pc'[u] = pc[u] /\ lk'[u] = lk[u] /\ seen'[u] = seen[u]
                                      /\ Coh(u)' = Coh(u)
      /\ pc'[t] \notin Racing
      /\ next_ticket' = next_ticket /\ victim' = victim
  BY CohStable, Zenon DEF Aside, QInv, TypeOK
<1> QED
  BY <1>1 DEF BypassInv, Racing

\* The steps of Lock and Unlock outside Peterson's wait and the draw are such steps.
LEMMA AsideStep ==
  ASSUME QInv, NEW t \in Threads,
         (\E l \in Locks : Lock(t, l)) \/ LockSteps(t) \/ RaiseFlag(t) \/ UnlockSteps(t)
  PROVE  \E q : Aside(t, q)
<1>1. ASSUME NEW q, pc' = [pc EXCEPT ![t] = q], q \notin Racing PROVE Aside(t, q)
  <2>1. UNCHANGED <<next_ticket, victim, seen>>
    BY Zenon DEF Lock, LockSteps, RaiseFlag, UnlockSteps, SwapTail, LinkPrev, ReadPrevValid,
       ReleasePrev, AwaitBudget, TakeBatch, SetBudget, CheckNext, PassTicket, PassBudget,
       UnlockPetersons, SetValid, RecheckNext, GiveBudget, AwaitPredecessor, AwaitTicket,
       BumpCurrent, UnlockCheckNext, CasTail, AwaitReleasable, GrantNext, lockVars, history
  <2>2. lk' = lk \/ \E l : lk' = [lk EXCEPT ![t] = l]
    BY Zenon DEF Lock, LockSteps, RaiseFlag, UnlockSteps, SwapTail, LinkPrev, ReadPrevValid,
       ReleasePrev, AwaitBudget, TakeBatch, SetBudget, CheckNext, PassTicket, PassBudget,
       UnlockPetersons, SetValid, RecheckNext, GiveBudget, AwaitPredecessor, AwaitTicket,
       BumpCurrent, UnlockCheckNext, CasTail, AwaitReleasable, GrantNext, threadVars, Return
  <2>3. \A u \in Threads \ {t} : lk'[u] = lk[u]
    BY <2>2, Zenon DEF QInv, TypeOK
  <2> QED
    BY <1>1, <2>1, <2>3, Zenon DEF Aside
<1>2. ASSUME NEW p, NEW q, Goto(t, p, q), q \notin Racing PROVE \E r : Aside(t, r)
  BY <1>1, <1>2, Zenon DEF Goto
<1>3. ASSUME NEW l \in Locks, Lock(t, l) PROVE \E r : Aside(t, r)
  <2>1. Goto(t, "idle", "swap")
    BY <1>3, Zenon DEF Lock
  <2> QED
    BY <1>2, <2>1, Zenon DEF Racing
<1>5. ASSUME CheckNext(t) PROVE \E r : Aside(t, r)
  <2>1. PICK q \in {"clear", "clearlast", "passticket"} : Goto(t, "checknext", q)
    BY <1>5, Zenon DEF CheckNext
  <2> QED
    BY <1>2, <2>1, Zenon DEF Racing
<1>6. ASSUME LockSteps(t), ~CheckNext(t) PROVE \E r : Aside(t, r)
  <2>1. \E q \in {"setbudget", "link", "readvalid", "release", "waitbudget", "gotbudget",
                   "checknext", "flag", "passbudget", "waitgrant", "waitturn", "valid",
                   "validlast", "recheck", "give", "cs"} : pc' = [pc EXCEPT ![t] = q]
    BY <1>6, Zenon DEF Goto, AfterTicket, LockSteps, SwapTail, LinkPrev, ReadPrevValid, ReleasePrev, AwaitBudget,
       TakeBatch, SetBudget, PassTicket, PassBudget, UnlockPetersons, SetValid, RecheckNext,
       GiveBudget, AwaitPredecessor, AwaitTicket
  <2> QED
    BY <1>1, <2>1, Zenon DEF Racing
<1>7. ASSUME RaiseFlag(t) \/ UnlockSteps(t) PROVE \E r : Aside(t, r)
  <2>1. \E q \in {"victim", "ulnext", "cas", "waitrel", "idle", "grant"} : pc' = [pc EXCEPT ![t] = q]
    BY <1>7, Zenon DEF Goto, RaiseFlag, UnlockSteps, BumpCurrent, UnlockCheckNext, CasTail,
       AwaitReleasable, GrantNext
  <2> QED
    BY <1>1, <2>1, Zenon DEF Racing
<1> QED
  BY <1>3, <1>5, <1>6, <1>7, Zenon

\* While t is in Peterson's algorithm or draws, no other thread of its cohort is.
LEMMA OneRacing ==
  ASSUME QInv, BInv, NEW t \in Threads, pc[t] \in Peterson \cup {"faa", "faawrite"}
  PROVE  \A u \in Threads : u # t /\ lk[u] = lk[t] /\ Coh(u) = Coh(t) => pc[u] \notin Racing
<1>1. \A u \in Threads : pc[u] \in Racing => Contends(u)
  BY Zenon DEF Racing, Contends, Sec
<1> QED
  BY <1>1, OneContender, Zenon

\* A draw by t.
Draws(t) ==
  /\ pc[t] \in {"faa", "faawrite"} /\ pc' = [pc EXCEPT ![t] = "checknext"]
  /\ next_ticket' = [next_ticket EXCEPT ![lk[t]] = @ + 1]
  /\ UNCHANGED <<lk, seen, victim>>

LEMMA DrawBypass ==
  ASSUME QInv, BInv, BypassInv, NEW t \in Threads, Draws(t)
  PROVE  BypassInv'
<1>1. /\ \A u \in Threads : u # t => pc'[u] = pc[u] /\ seen'[u] = seen[u]
      /\ \A u \in Threads : lk'[u] = lk[u] /\ Coh(u)' = Coh(u) /\ Coh(u) \in Cohorts
      /\ pc'[t] = "checknext" /\ pc[t] \in {"faa", "faawrite"} /\ victim' = victim
      /\ \A u \in Threads : pc[u] # "idle" => lk[u] \in Locks
  BY CohStable, CohType, Zenon DEF Draws, QInv, TypeOK, LkInv
<1>4. /\ next_ticket'[lk[t]] = next_ticket[lk[t]] + 1
      /\ \A l \in Locks : l # lk[t] => next_ticket'[l] = next_ticket[l]
      /\ \A l \in Locks : next_ticket[l] \in Nat
      /\ seen \in [Threads -> Nat]
  BY <1>1, Zenon DEF Draws, QInv, TypeOK
<1>2. \A u \in Threads : u # t /\ lk[u] = lk[t] /\ Coh(u) = Coh(t) => pc[u] \notin Racing
  BY <1>1, OneRacing, Zenon
<1>3. ASSUME NEW v \in Threads, pc'[v] \in Racing
      PROVE  /\ next_ticket'[lk[v]] <= seen'[v] + 1
             /\ \A u \in Threads : lk[u] = lk[v] /\ Coh(u) # Coh(v) =>
                  /\ pc'[u] \in {"faa", "faawrite"} => next_ticket'[lk[v]] <= seen'[v]
                  /\ pc'[u] \in {"spin1", "spin2"} =>
                       victim[lk[v]] = Coh(u) \/ next_ticket'[lk[v]] <= seen'[v]
  <2>1. v # t /\ pc[v] \in Racing /\ lk[v] \in Locks
    BY <1>1, <1>3, Zenon DEF Racing
  <2>2. CASE lk[v] = lk[t]
    BY <1>1, <1>4, <1>2, <2>1, <2>2 DEF BypassInv, Racing, Cohorts
  <2>3. CASE lk[v] # lk[t]
    BY <1>1, <1>4, <2>1, <2>3, Zenon DEF BypassInv
  <2> QED
    BY <2>2, <2>3, Zenon
<1> QED
  BY <1>1, <1>3 DEF BypassInv

\* The NIC's read half changes nothing yet.
LEMMA ReadHalfBypass ==
  ASSUME QInv, BypassInv, NEW t \in Threads, pc[t] = "faa",
         pc' = [pc EXCEPT ![t] = "faawrite"], UNCHANGED <<lk, seen, victim, next_ticket>>
  PROVE  BypassInv'
<1>1. /\ \A u \in Threads : u # t => pc'[u] = pc[u]
      /\ \A u \in Threads : Coh(u)' = Coh(u)
      /\ pc'[t] = "faawrite"
  BY CohStable, Zenon DEF QInv, TypeOK
<1> QED
  BY <1>1 DEF BypassInv, Racing

LEMMA FetchAddBypass ==
  ASSUME QInv, BInv, BypassInv, NEW t \in Threads, FetchAddLocal(t) \/ FetchAddRemote(t)
  PROVE  BypassInv'
<1>1. UNCHANGED <<lk, seen, victim>>
  BY Zenon DEF FetchAddLocal, FetchAddRemote, history
<1>2. CASE FetchAddLocal(t)
  <2>1. Draws(t)
    BY <1>1, <1>2, Zenon DEF FetchAddLocal, Goto, Draws
  <2> QED
    BY <2>1, DrawBypass, Zenon
<1>3. CASE FetchAddRemote(t) /\ Goto(t, "faa", "faawrite")
  <2>1. UNCHANGED next_ticket /\ pc[t] = "faa" /\ pc' = [pc EXCEPT ![t] = "faawrite"]
    BY <1>3, Zenon DEF FetchAddRemote, Goto
  <2> QED
    BY <1>1, <2>1, ReadHalfBypass, Zenon
<1>4. CASE FetchAddRemote(t) /\ Goto(t, "faawrite", "checknext")
  <2>1. pc[t] = "faawrite" /\ pc' = [pc EXCEPT ![t] = "checknext"]
    BY <1>4, Zenon DEF Goto
  <2>2. next_ticket' = [next_ticket EXCEPT ![lk[t]] = tk[t] + 1]
    BY <1>4, <2>1, Zenon DEF FetchAddRemote, Goto
  <2>3. tk[t] = next_ticket[lk[t]]
    BY <2>1, Zenon DEF BInv, TicketInv
  <2>4. Draws(t)
    BY <1>1, <2>1, <2>2, <2>3, Zenon DEF Draws
  <2> QED
    BY <2>4, DrawBypass, Zenon
<1> QED
  BY <1>2, <1>3, <1>4, Zenon DEF FetchAddRemote

\* Who writes victim_ makes room for the other cohort, once.
LEMMA SetVictimBypass ==
  ASSUME QInv, BInv, BypassInv, NEW t \in Threads, SetVictim(t)
  PROVE  BypassInv'
<1>1. /\ \A u \in Threads : u # t => pc'[u] = pc[u] /\ seen'[u] = seen[u]
      /\ \A u \in Threads : Coh(u)' = Coh(u) /\ Coh(u) \in Cohorts
      /\ lk' = lk /\ next_ticket' = next_ticket
      /\ pc[t] = "victim" /\ pc'[t] = "spin1" /\ seen'[t] = next_ticket[lk[t]]
      /\ next_ticket[lk[t]] \in Nat
      /\ victim'[lk[t]] = Coh(t)
      /\ \A l \in Locks : l # lk[t] => victim'[l] = victim[l]
      /\ \A u \in Threads : pc[u] # "idle" => lk[u] \in Locks
  BY CohStable, CohType, Zenon DEF SetVictim, Goto, QInv, TypeOK, LkInv, threadVars
<1>2. \A u \in Threads : u # t /\ lk[u] = lk[t] /\ Coh(u) = Coh(t) => pc[u] \notin Racing
  BY <1>1, OneRacing, Zenon DEF Peterson
<1>3. ASSUME NEW v \in Threads, pc'[v] \in Racing
      PROVE  /\ next_ticket[lk[v]] <= seen'[v] + 1
             /\ \A u \in Threads : lk[u] = lk[v] /\ Coh(u) # Coh(v) =>
                  /\ pc'[u] \in {"faa", "faawrite"} => next_ticket[lk[v]] <= seen'[v]
                  /\ pc'[u] \in {"spin1", "spin2"} =>
                       victim'[lk[v]] = Coh(u) \/ next_ticket[lk[v]] <= seen'[v]
  <2>1. CASE v = t
    BY <1>1, <2>1
  <2>2. CASE v # t /\ lk[v] = lk[t]
    BY <1>1, <1>2, <1>3, <2>2, Zenon DEF BypassInv, Racing, Cohorts
  <2>3. CASE v # t /\ lk[v] # lk[t]
    BY <1>1, <1>3, <2>3, Zenon DEF BypassInv, Racing
  <2> QED
    BY <2>1, <2>2, <2>3, Zenon
<1> QED
  BY <1>1, <1>3 DEF BypassInv

\* The wait loops are left only past a victim of the other cohort, or past a
\* lowered flag: who waits with its flag up has not been passed yet.
LEMMA SpinBypass ==
  ASSUME QInv, BInv, BypassInv, NEW t \in Threads,
         (Coh(t) = "local" /\ SpinLocal(t)) \/ (Coh(t) = "remote" /\ SpinRemote(t))
  PROVE  BypassInv'
<1>1. PICK q \in {"spin1", "spin2", "faa"} : pc' = [pc EXCEPT ![t] = q]
  BY Zenon DEF SpinLocal, SpinRemote, Goto
<1>2. /\ \A u \in Threads : u # t => pc'[u] = pc[u]
      /\ \A u \in Threads : Coh(u)' = Coh(u)
      /\ pc[t] \in {"spin1", "spin2"} /\ pc'[t] = q
      /\ lk' = lk /\ next_ticket' = next_ticket /\ victim' = victim /\ seen' = seen
  BY <1>1, CohStable, Zenon
     DEF SpinLocal, SpinRemote, Goto, lockVars, threadVars, history, QInv, TypeOK
<1>3. ASSUME q = "faa", NEW v \in Threads, lk[v] = lk[t], Coh(v) # Coh(t), pc[v] \in Racing
      PROVE  victim[lk[t]] # Coh(t)
  <2>1. flag[lk[t]][Coh(v)] = kTrue /\ Coh(v) \in Cohorts
    BY <1>3, CohType, Zenon DEF BInv, PetersonInv, Racing, Contends, Sec
  <2>4. Coh(t) \in Cohorts /\ pc'[t] = "faa"
    BY <1>2, <1>3, CohType, Zenon
  <2>2. CASE Coh(t) = "local"
    <3>1. flag[lk[t]]["remote"] = kTrue /\ SpinLocal(t)
      BY <1>3, <2>1, <2>2, Zenon DEF Cohorts
    <3> QED
      BY <2>2, <2>4, <3>1, Zenon DEF SpinLocal, Goto, QInv, TypeOK
  <2>3. CASE Coh(t) = "remote"
    <3>1. flag[lk[t]]["local"] = kTrue /\ SpinRemote(t)
      BY <1>3, <2>1, <2>3, Zenon DEF Cohorts
    <3>2. pc[t] = "spin2" /\ vbuf[t] # "remote"
      BY <2>4, <3>1, Zenon DEF SpinRemote, Goto, QInv, TypeOK
    <3> QED
      BY <2>3, <3>2, Zenon DEF BInv, PetersonInv, Cohorts
  <2> QED
    BY <2>2, <2>3, <2>4, Zenon DEF Cohorts
<1> QED
  BY <1>2, <1>3 DEF BypassInv, Racing

LEMMA NextBypass ==
  ASSUME QInv, BInv, BypassInv, [Next]_vars
  PROVE  BypassInv'
<1>1. ASSUME NEW t \in Threads,
             (\E l \in Locks : Lock(t, l)) \/ LockSteps(t) \/ RaiseFlag(t) \/ UnlockSteps(t)
      PROVE  BypassInv'
  BY <1>1, AsideStep, AsideBypass, Zenon
<1>2. ASSUME NEW t \in Threads, LockPetersonsLocal(t) \/ LockPetersonsRemote(t) PROVE BypassInv'
  BY <1>1, <1>2, SetVictimBypass, SpinBypass, Zenon DEF LockPetersonsLocal, LockPetersonsRemote
<1>3. ASSUME NEW t \in Threads, FetchAddLocal(t) \/ FetchAddRemote(t) PROVE BypassInv'
  BY <1>3, FetchAddBypass, Zenon
<1>4. ASSUME UNCHANGED vars PROVE BypassInv'
  <2>1. /\ pc' = pc /\ lk' = lk /\ next_ticket' = next_ticket /\ victim' = victim /\ seen' = seen
        /\ \A u : Coh(u)' = Coh(u)
    BY <1>4, CohStable, Zenon DEF vars, lockVars, threadVars, history
  <2> QED
    BY <2>1, Zenon DEF BypassInv
<1> QED
  BY <1>1, <1>2, <1>3, <1>4, Zenon
  DEF Next, Done, LockLocal, LockRemote, UnlockLocal, UnlockRemote

\* While a thread waits in Peterson's loop or draws, next_ticket_ moves on by at
\* most one (BoundedBypass): one batch of the other cohort goes first and no more,
\* for any number of threads and any budgets.
THEOREM BypassIsBounded == Spec => []BoundedBypass
<1>1. Init => BypassInv
  BY Zenon DEF Init, BypassInv, Racing
<1>2. QInv /\ BInv /\ BypassInv /\ [Next]_vars => BypassInv'
  BY NextBypass, Zenon
<1>3. BypassInv => BoundedBypass
  BY Zenon DEF BypassInv, BoundedBypass, Racing
<1> QED
  BY <1>1, <1>2, <1>3, BatchesKeepShape, PTL DEF Spec
=============================================================================
