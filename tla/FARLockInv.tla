------------------------------ MODULE FARLockInv ------------------------------
(***************************************************************************)
(* The inductive invariant of FARLock, as a conjunction of named parts.    *)
(***************************************************************************)
EXTENDS FARLock

InQ(t) == pc[t] \in Queued

\* A thread works on a lock exactly while it is not idle.
LkInv ==
  \A t \in Threads : lk[t] \in Locks <=> pc[t] # "idle"

\* Before its tail swap a thread's descriptor is as Lock reset it.
SwapInv ==
  \A t \in Threads : pc[t] = "swap" =>
    /\ next[Coh(t)][t] = None
    /\ ticket[Coh(t)][t] = kInvalidTicket
    /\ to_get_ticket[Coh(t)][t] = kFalse
    /\ granted[Coh(t)][t] = kFalse
    /\ releasable[Coh(t)][t] = kFalse

\* Arrival numbers are distinct in a queue, below the queue's arrival count.
PosInv ==
  /\ \A t \in Threads : InQ(t) => pos[t] < arrivals[lk[t]][Coh(t)]
  /\ \A t, u \in Threads :
       InQ(t) /\ InQ(u) /\ SameQueue(t, u) /\ pos[t] = pos[u] => t = u

\* The tail is the last arrival; a null tail means an empty queue.
TailInv ==
  \A l \in Locks : \A c \in Cohorts :
    /\ \A t \in Threads : tail[l][c] = t =>
         InQ(t) /\ lk[t] = l /\ Coh(t) = c /\ pos[t] + 1 = arrivals[l][c]
    /\ tail[l][c] = None =>
         \A t \in Threads : ~(InQ(t) /\ lk[t] = l /\ Coh(t) = c)

\* A thread with no predecessor, or granted by it, is the first of its queue;
\* one that waits for its turn, holds the lock or leaves is such a thread.
HeadInv ==
  \A t \in Threads :
    /\ InQ(t) /\ (prev[t] = None \/ granted[Coh(t)][t] = kTrue) =>
         \A u \in Threads : InQ(u) /\ SameQueue(t, u) => pos[t] <= pos[u]
    /\ pc[t] \in {"waitturn", "cs"} \cup Leaving =>
         prev[t] = None \/ granted[Coh(t)][t] = kTrue

\* Until it is granted a thread's predecessor stays in the queue, just ahead.
PrevInv ==
  \A t \in Threads :
    /\ InQ(t) /\ prev[t] # None /\ granted[Coh(t)][t] = kFalse =>
         InQ(prev[t]) /\ SameQueue(t, prev[t]) /\ pos[t] = pos[prev[t]] + 1
    /\ pc[t] \in Arriving => prev[t] # None
    /\ pc[t] \in {"link", "readticket", "release"} => granted[Coh(t)][t] = kFalse
    /\ pc[t] \in {"readticket", "release"} => next[Coh(t)][prev[t]] = t

\* A thread's next_ is its immediate successor, linked and not yet granted.
NextInv ==
  \A t \in Threads : InQ(t) =>
    /\ \A u \in Threads : next[Coh(t)][t] = u =>
         /\ InQ(u) /\ SameQueue(t, u) /\ prev[u] = t /\ pos[u] = pos[t] + 1
         /\ pc[u] # "link" /\ granted[Coh(t)][u] = kFalse
    /\ pc[t] = "wake" => next[Coh(t)][t] # None

\* releasable_ means that the successor is done with this descriptor.
ReleaseInv ==
  \A t \in Threads : InQ(t) =>
    /\ releasable[Coh(t)][t] = kTrue =>
         /\ next[Coh(t)][t] # None
         /\ pc[next[Coh(t)][t]] \notin {"link", "readticket", "release"}
    /\ pc[t] = "grant" => releasable[Coh(t)][t] = kTrue

\* Tickets are drawn one thread at a time, in arrival order, in each queue.
ServedInv ==
  /\ \A l \in Locks : \A c \in Cohorts :
       /\ served[l][c] <= arrivals[l][c]
       /\ tail[l][c] = None => served[l][c] = arrivals[l][c]
  /\ \A t \in Threads :
       /\ pc[t] \in Arriving => served[lk[t]][Coh(t)] <= pos[t]
       /\ pc[t] \in Eligible => pos[t] = served[lk[t]][Coh(t)]
       /\ pc[t] \in Waiting \cup Leaving => pos[t] < served[lk[t]][Coh(t)]
       /\ pc[t] \in Arriving \cup Eligible => ticket[Coh(t)][t] = kInvalidTicket
       /\ InQ(t) /\ to_get_ticket[Coh(t)][t] = kTrue => pos[t] <= served[lk[t]][Coh(t)]
       /\ pc[t] = "release" /\ tk[t] # kInvalidTicket => pos[t] <= served[lk[t]][Coh(t)]

\* Peterson's algorithm between a local thread t and a remote thread u.
PetersonInv ==
  /\ \A t \in Threads : pc[t] \in Section => flag[lk[t]][Coh(t)] = kTrue
  /\ \A t, u \in Threads :
       lk[t] = lk[u] /\ Coh(t) # Coh(u) /\ pc[t] \in Drawing =>
         /\ pc[u] \notin Drawing
         /\ pc[u] \in {"spin1", "spin2"} => victim[lk[u]] = Coh(u)
  /\ \A t \in Threads :
       /\ pc[t] \in {"spin1", "spin2"} => victim[lk[t]] \in Cohorts
       /\ pc[t] = "spin2" /\ Coh(t) = "remote" =>
            vbuf[t] \in Cohorts /\ (vbuf[t] = "local" => victim[lk[t]] = "local")

\* Tickets in hand are distinct and were issued; the holder has the current one.
TicketInv ==
  /\ \A l \in Locks : current_ticket[l] <= next_ticket[l]
  /\ \A t \in Threads :
       /\ pc[t] = "faawrite" => tk[t] = next_ticket[lk[t]]
       /\ pc[t] \in HasTicket => Tick(t) \in Nat /\ Tick(t) < next_ticket[lk[t]]
       /\ pc[t] \in HasTicket => current_ticket[lk[t]] <= Tick(t)
       /\ pc[t] = "cs" => Tick(t) = current_ticket[lk[t]]
       /\ pc[t] = "faawrite" => Coh(t) = "remote"
  /\ \A t, u \in Threads :
       pc[t] \in HasTicket /\ pc[u] \in HasTicket /\ lk[t] = lk[u] /\ Tick(t) = Tick(u)
         => t = u

IInv ==
  /\ TypeOK /\ LkInv /\ SwapInv /\ PosInv /\ TailInv /\ HeadInv /\ PrevInv
  /\ NextInv /\ ReleaseInv /\ ServedInv /\ PetersonInv /\ TicketInv
=============================================================================
