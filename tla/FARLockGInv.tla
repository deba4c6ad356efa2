----------------------------- MODULE FARLockGInv ------------------------------
(***************************************************************************)
(* The inductive invariant of FARLockG, in two layers.  QInv is about the  *)
(* queues alone and is inductive by itself; BInv is about what travels     *)
(* along them: the right to draw, Peterson's section, the budget and the   *)
(* ticket of a batch.                                                      *)
(***************************************************************************)
EXTENDS FARLockG

Bit == {kFalse, kTrue}

PCs == {"idle", "swap", "cs"} \cup Arriving \cup Peterson \cup Leaving \cup
       {"faa", "faawrite", "checknext", "passticket", "passbudget", "clear",
        "clearlast", "valid", "validlast", "recheck", "give", "waitgrant", "waitturn"}

\* Every variable holds a value its declaration in farlockg.h allows.
TypeOK ==
  /\ tail \in [Locks -> [Cohorts -> Threads \cup {None}]]
  /\ flag \in [Locks -> [Cohorts -> Bit]]
  /\ victim \in [Locks -> Cohorts \cup {None}]
  /\ next_ticket \in [Locks -> Nat] /\ current_ticket \in [Locks -> Nat]
  /\ next \in [Cohorts -> [Threads -> Threads \cup {None}]]
  /\ ticket_valid \in [Cohorts -> [Threads -> Bit]]
  /\ batch_ticket \in [Cohorts -> [Threads -> Nat]]
  /\ budget \in [Cohorts -> [Threads -> Int]]
  /\ granted \in [Cohorts -> [Threads -> Bit]]
  /\ releasable \in [Cohorts -> [Threads -> Bit]]
  /\ pc \in [Threads -> PCs]
  /\ lk \in [Threads -> Locks \cup {None}]
  /\ prev \in [Threads -> Threads \cup {None}]
  /\ tk \in [Threads -> Nat]
  /\ from_prev \in [Threads -> BOOLEAN]
  /\ vbuf \in [Threads -> Cohorts \cup {None}]
  /\ ops \in [Threads -> Nat]
  /\ arrivals \in [Locks -> [Cohorts -> Nat]]
  /\ pos \in [Threads -> Nat]
  /\ uses \in [Locks -> Nat]
  /\ seen \in [Threads -> Nat]

-----------------------------------------------------------------------------
(***************************************************************************)
(* The queues.                                                             *)
(***************************************************************************)
\* A thread works on a lock exactly while it is not idle.
LkInv ==
  \A t \in Threads : lk[t] \in Locks <=> pc[t] # "idle"

\* Before its tail swap a thread's descriptor is as Lock reset it.
SwapInv ==
  \A t \in Threads : pc[t] = "swap" =>
    /\ next[Coh(t)][t] = None
    /\ granted[Coh(t)][t] = kFalse
    /\ releasable[Coh(t)][t] = kFalse

\* Arrival numbers are distinct in a queue, below the queue's arrival count.
PosInv ==
  /\ \A t \in Threads : Queued(t) => pos[t] < arrivals[lk[t]][Coh(t)]
  /\ \A t, u \in Threads :
       Queued(t) /\ Queued(u) /\ SameQueue(t, u) /\ pos[t] = pos[u] => t = u

\* The tail is the last arrival; a null tail means an empty queue.
TailInv ==
  \A l \in Locks : \A c \in Cohorts :
    /\ \A t \in Threads : tail[l][c] = t =>
         Queued(t) /\ lk[t] = l /\ Coh(t) = c /\ pos[t] + 1 = arrivals[l][c]
    /\ tail[l][c] = None =>
         \A t \in Threads : ~(Queued(t) /\ lk[t] = l /\ Coh(t) = c)

\* A thread with no predecessor, or granted by it, is the first of its queue;
\* one that waits for its turn, holds the lock or leaves is such a thread.
HeadInv ==
  \A t \in Threads :
    /\ Queued(t) /\ (prev[t] = None \/ granted[Coh(t)][t] = kTrue) =>
         \A u \in Threads : Queued(u) /\ SameQueue(t, u) => pos[t] <= pos[u]
    /\ pc[t] \in {"waitturn", "cs"} \cup Leaving =>
         prev[t] = None \/ granted[Coh(t)][t] = kTrue

Linking == {"link", "readvalid", "release"}

\* Until it is granted a thread's predecessor stays in the queue, just ahead.
PrevInv ==
  \A t \in Threads :
    /\ Queued(t) /\ prev[t] # None /\ granted[Coh(t)][t] = kFalse =>
         Queued(prev[t]) /\ SameQueue(t, prev[t]) /\ pos[t] = pos[prev[t]] + 1
    /\ pc[t] \in Linking \cup {"waitbudget", "gotbudget"} => prev[t] # None
    /\ pc[t] \in Linking => granted[Coh(t)][t] = kFalse
    /\ pc[t] \in {"readvalid", "release"} => next[Coh(t)][prev[t]] = t

\* The points at which Lock knows that it has a successor.
Succeeded == {"passticket", "passbudget", "clearlast", "validlast", "give"}

\* A thread's next_ is its immediate successor, linked and not yet granted.
NextInv ==
  \A t \in Threads : Queued(t) =>
    /\ \A u \in Threads : next[Coh(t)][t] = u =>
         /\ Queued(u) /\ SameQueue(t, u) /\ prev[u] = t /\ pos[u] = pos[t] + 1
         /\ pc[u] # "link" /\ granted[Coh(t)][u] = kFalse
    /\ pc[t] \in Succeeded => next[Coh(t)][t] # None

\* releasable_ means that the successor is done with this descriptor.
ReleaseInv ==
  \A t \in Threads : Queued(t) =>
    /\ releasable[Coh(t)][t] = kTrue =>
         next[Coh(t)][t] # None /\ pc[next[Coh(t)][t]] \notin Linking
    /\ pc[t] = "grant" => releasable[Coh(t)][t] = kTrue

QInv ==
  /\ TypeOK /\ LkInv /\ SwapInv /\ PosInv /\ TailInv /\ HeadInv /\ PrevInv
  /\ NextInv /\ ReleaseInv

-----------------------------------------------------------------------------
(***************************************************************************)
(* What travels along a queue.                                             *)
(***************************************************************************)
Bud(t) == budget[Coh(t)][t]
Valid(t) == ticket_valid[Coh(t)][t]
Bt(t) == batch_ticket[Coh(t)][t]
Suc(t) == next[Coh(t)][t]
Granted(t) == granted[Coh(t)][t] = kTrue
Waits == {"readvalid", "release", "waitbudget", "gotbudget"}
Holds == {"cs"} \cup Leaving

\* After these points a thread neither draws a ticket nor passes one on.
Past == {"recheck", "give", "waitgrant", "waitturn"} \cup Holds

\* A thread that may not go on to draw: nothing has reached it from ahead.
Blocked(t) ==
  \/ pc[t] = "link"
  \/ /\ pc[t] \in Waits /\ Bud(t) = NoBudget
     /\ ~(pc[t] = "release" /\ tk[t] = kTrue)

\* A thread to which its predecessor has passed a batch, noticed or not.
Passed(t) == pc[t] \in Waits /\ Bud(t) # NoBudget /\ Bud(t) # Budget(Coh(t))
Batch(t) == from_prev[t] \/ Passed(t)

Drawn == {"checknext", "passticket", "passbudget", "clear", "clearlast", "valid", "validlast"}
HasTk(t) == Passed(t) \/ pc[t] \in Drawn \cup Past
Tk(t) == IF pc[t] \in Waits THEN Bt(t) ELSE tk[t]

\* Peterson's section is won, not yet given up, and has come to this thread.
Sec(t) ==
  \/ pc[t] \in {"faa", "faawrite", "checknext", "clear", "clearlast", "passticket", "passbudget"}
  \/ Passed(t)

\* Peterson's algorithm is under way, or its section is won.
Contends(t) == pc[t] \in {"victim", "spin1", "spin2"} \/ Sec(t)

\* A thread that entered under the current ticket and leaves it to its successor,
\* unless it is still to find out that it is the last of its batch.
Holding(t) == pc[t] = "cs" \/ (pc[t] \in Leaving /\ Valid(t) = kFalse)

\* A thread whose ticket is used up.
Over(t) == pc[t] \in Leaving /\ Valid(t) = kTrue

\* In a queue only one thread may draw or pass on: those ahead of it are past
\* that, those behind it are blocked.
OrderInv ==
  \A t, u \in Threads :
    Queued(t) /\ Queued(u) /\ SameQueue(t, u) /\ pos[t] < pos[u] /\ pc[t] \notin Past =>
      Blocked(u)

\* ticket_valid_ marks the last thread of a batch, once it is past drawing; what
\* its successor may then have got is a whole budget, never a share of a batch.
ValidInv ==
  \A t \in Threads :
    /\ pc[t] \in {"swap", "link"} => Valid(t) = kFalse /\ Bud(t) = NoBudget
    /\ pc[t] \in {"recheck", "give"} => Valid(t) = kTrue
    /\ Queued(t) /\ Valid(t) = kTrue =>
         pc[t] \in Past /\ \A u \in Threads : Suc(t) = u => ~Batch(u)
    /\ pc[t] = "release" /\ tk[t] = kTrue => Valid(prev[t]) = kTrue

\* Who draws a ticket does so with a whole budget; who passes a batch on has at
\* least two left.
BudgetOf(t) ==
  /\ from_prev[t] => pc[t] \in Drawn \cup Past
  /\ pc[t] = "gotbudget" => Bud(t) # NoBudget
  /\ Queued(t) /\ Bud(t) # NoBudget => 1 <= Bud(t) /\ Bud(t) <= Budget(Coh(t))
  /\ pc[t] \in Peterson \cup {"faa", "faawrite"} => Bud(t) = Budget(Coh(t))
  /\ pc[t] \in Drawn \cup Past /\ ~from_prev[t] => Bud(t) = Budget(Coh(t))
  /\ from_prev[t] => Bud(t) # NoBudget /\ Bt(t) = tk[t]
  /\ pc[t] \in {"passticket", "passbudget"} => Bud(t) # 1

BudgetInv ==
  \A t \in Threads :
    /\ BudgetOf(t)
    /\ pc[t] = "passbudget" => \A u \in Threads : Suc(t) = u => Bt(u) = tk[t]

\* A batch is passed from neighbour to neighbour: until a thread is granted its
\* predecessor has the same ticket and one more of the budget; after that the
\* ticket is the current one, and Budget - Bud threads have used it.
ChainInv ==
  \A t \in Threads : Batch(t) =>
    /\ prev[t] # None
    /\ ~Granted(t) =>
         /\ pc[prev[t]] \in Past /\ Valid(prev[t]) = kFalse
         /\ tk[prev[t]] = Tk(t) /\ Bud(prev[t]) = Bud(t) + 1
    /\ Granted(t) /\ pc[t] \notin Holds =>
         Tk(t) = current_ticket[lk[t]] /\ uses[lk[t]] = Budget(Coh(t)) - Bud(t)

\* The holder has the current ticket, and keeps it if it is not the last.
HoldInv ==
  \A t \in Threads : Holding(t) =>
    /\ tk[t] = current_ticket[lk[t]] /\ Bt(t) = tk[t]
    /\ uses[lk[t]] = Budget(Coh(t)) - Bud(t) + 1

\* Tickets were issued, and are not over before their last thread leaves.
TicketInv ==
  /\ \A l \in Locks :
       /\ current_ticket[l] <= next_ticket[l]
       /\ current_ticket[l] = next_ticket[l] => uses[l] = 0
  /\ \A t \in Threads :
       /\ pc[t] = "faawrite" => tk[t] = next_ticket[lk[t]] /\ Coh(t) = "remote"
       /\ HasTk(t) => Tk(t) < next_ticket[lk[t]]
       /\ HasTk(t) /\ ~Over(t) => current_ticket[lk[t]] <= Tk(t)
       /\ HasTk(t) /\ ~Batch(t) /\ pc[t] \notin Holds /\ Tk(t) = current_ticket[lk[t]] =>
            uses[lk[t]] = 0

\* Who has the same ticket is of the same batch: one thread of it drew the ticket,
\* and is ahead of the others; all but the last have passed it on.
ShareInv ==
  \A t, u \in Threads :
    HasTk(t) /\ HasTk(u) /\ lk[t] = lk[u] /\ Tk(t) = Tk(u) =>
      /\ Coh(t) = Coh(u)
      /\ ~Batch(t) /\ ~Batch(u) => t = u
      /\ ~Batch(t) /\ Batch(u) => pos[t] < pos[u]
      /\ pos[t] < pos[u] => Valid(t) = kFalse

\* Peterson's algorithm between a thread t and a thread u of the other cohort.
PetersonInv ==
  /\ \A t \in Threads :
       Contends(t) => flag[lk[t]][Coh(t)] = kTrue
  /\ \A t, u \in Threads :
       lk[t] = lk[u] /\ Coh(t) # Coh(u) /\ Sec(t) =>
         /\ ~Sec(u)
         /\ pc[u] \in {"spin1", "spin2"} => victim[lk[u]] = Coh(u)
  /\ \A t \in Threads :
       /\ pc[t] \in {"spin1", "spin2"} => victim[lk[t]] \in Cohorts
       /\ pc[t] = "spin2" /\ Coh(t) = "remote" =>
            vbuf[t] \in Cohorts /\ (vbuf[t] = "local" => victim[lk[t]] = "local")

BInv ==
  /\ OrderInv /\ ValidInv /\ BudgetInv /\ ChainInv /\ HoldInv /\ TicketInv /\ ShareInv
  /\ PetersonInv

Racing == {"spin1", "spin2", "faa", "faawrite"}

\* Why BoundedBypass holds: while t waits, a thread u of the other cohort that
\* is about to draw has drawn nothing yet since t wrote victim_, and once it
\* has, it can wait only as the victim.
BypassInv ==
  \A t \in Threads : pc[t] \in Racing =>
    /\ next_ticket[lk[t]] <= seen[t] + 1
    /\ \A u \in Threads : lk[u] = lk[t] /\ Coh(u) # Coh(t) =>
         /\ pc[u] \in {"faa", "faawrite"} => next_ticket[lk[t]] <= seen[t]
         /\ pc[u] \in {"spin1", "spin2"} =>
              victim[lk[t]] = Coh(u) \/ next_ticket[lk[t]] <= seen[t]
=============================================================================
