------------------------------- MODULE FARLock -------------------------------
(***************************************************************************)
(* FARLock, src/include/locks/farlock.h: a lock for threads that reach it  *)
(* by CPU instructions (the local cohort: threads of the lock's home node) *)
(* and by RDMA (the remote cohort).                                        *)
(*                                                                         *)
(* Each cohort keeps an MCS-like queue of descriptors.  Its front thread   *)
(* that has no ticket yet competes with the front thread of the other      *)
(* cohort, by Peterson's algorithm, for the right to increment next_ticket *)
(* (an RDMA fetch-and-add is not atomic with a CPU fetch-and-add).  The    *)
(* critical section is entered in ticket order.                            *)
(*                                                                         *)
(* One step is one access to memory that another thread can reach.  The    *)
(* two code paths are the same but for the operations that carry the       *)
(* cohort's name; a step common to both is one action here.                *)
(***************************************************************************)
EXTENDS Integers

CONSTANTS
  Threads,   \* the benchmark threads, each with one FARLockHandler
  Locks,     \* the locks of the lock table
  Nodes,     \* the nodes of the cluster
  NodeOf,    \* NodeOf[t]: the node thread t runs on
  Home,      \* Home[l]: the node whose memory holds lock l
  MaxOps,    \* bound: Lock/Unlock pairs per thread
  None       \* nullptr, and "no lock"

Cohorts == {"local", "remote"}

ASSUME NodesAssumption ==
  /\ NodeOf \in [Threads -> Nodes]
  /\ Home \in [Locks -> Nodes]
ASSUME MaxOpsAssumption == MaxOps \in Nat
ASSUME NoneAssumption == None \notin Threads \cup Locks \cup Cohorts

kTrue == 1
kFalse == 0
kInvalidTicket == -1

VARIABLES
  \* struct FARLock; tail and flag are indexed by cohort, victim holds a cohort
  tail, flag, victim, next_ticket, current_ticket,
  \* struct LocalDescriptor and RemoteDescriptor: field[c][t] is thread t's
  \* descriptor for cohort c; a pointer to a descriptor is its owner
  next, ticket, to_get_ticket, granted, releasable,
  \* each thread: program counter, the lock it works on, LockLocal's and
  \* LockRemote's locals prev and ticket, the victim_ word of lock_buffer_,
  \* and the number of Lock calls made
  pc, lk, prev, tk, vbuf, ops,
  \* history: descriptors swapped into tail[l][c], tickets published there,
  \* the arrival number of each thread in its queue, and next_ticket when it
  \* declared itself the victim
  arrivals, served, pos, seen

lockVars == <<tail, flag, victim, next_ticket, current_ticket>>
descVars == <<next, ticket, to_get_ticket, granted, releasable>>
history  == <<arrivals, served, pos, seen>>
vars == <<tail, flag, victim, next_ticket, current_ticket,
          next, ticket, to_get_ticket, granted, releasable,
          pc, lk, prev, tk, vbuf, ops, arrivals, served, pos, seen>>

\* MemoryPool::IsLocal on the lock's pointer selects the code path.
IsLocal(t, l) == l \in Locks /\ NodeOf[t] = Home[l]
CohortOf(t, l) == IF IsLocal(t, l) THEN "local" ELSE "remote"
Coh(t) == CohortOf(t, lk[t])

\* Thread t moves from one program point to another.
Goto(t, from, to) == pc[t] = from /\ pc' = [pc EXCEPT ![t] = to]

-----------------------------------------------------------------------------
\* Locks are zeroed when allocated, handlers start with unspecified
\* descriptors that Lock resets before use.
Init ==
  /\ tail = [l \in Locks |-> [c \in Cohorts |-> None]]
  /\ flag = [l \in Locks |-> [c \in Cohorts |-> kFalse]]
  /\ victim = [l \in Locks |-> None]
  /\ next_ticket = [l \in Locks |-> 0]
  /\ current_ticket = [l \in Locks |-> 0]
  /\ next = [c \in Cohorts |-> [t \in Threads |-> None]]
  /\ ticket = [c \in Cohorts |-> [t \in Threads |-> kInvalidTicket]]
  /\ to_get_ticket = [c \in Cohorts |-> [t \in Threads |-> kFalse]]
  /\ granted = [c \in Cohorts |-> [t \in Threads |-> kFalse]]
  /\ releasable = [c \in Cohorts |-> [t \in Threads |-> kFalse]]
  /\ pc = [t \in Threads |-> "idle"]
  /\ lk = [t \in Threads |-> None]
  /\ prev = [t \in Threads |-> None]
  /\ tk = [t \in Threads |-> kInvalidTicket]
  /\ vbuf = [t \in Threads |-> None]
  /\ ops = [t \in Threads |-> 0]
  /\ arrivals = [l \in Locks |-> [c \in Cohorts |-> 0]]
  /\ served = [l \in Locks |-> [c \in Cohorts |-> 0]]
  /\ pos = [t \in Threads |-> 0]
  /\ seen = [t \in Threads |-> 0]

-----------------------------------------------------------------------------
(***************************************************************************)
(* Mistakes that the code could contain and that the properties below      *)
(* detect.  Each is a variant of one action; none is part of Next.         *)
(***************************************************************************)
\* Lock leaves the last operation's granted_ in the descriptor.
LockKeepsGranted(t, l) ==
  LET c == CohortOf(t, l) IN
  /\ ops[t] < MaxOps
  /\ Goto(t, "idle", "swap")
  /\ lk' = [lk EXCEPT ![t] = l]
  /\ ops' = [ops EXCEPT ![t] = @ + 1]
  /\ next' = [next EXCEPT ![c][t] = None]
  /\ ticket' = [ticket EXCEPT ![c][t] = kInvalidTicket]
  /\ to_get_ticket' = [to_get_ticket EXCEPT ![c][t] = kFalse]
  /\ releasable' = [releasable EXCEPT ![c][t] = kFalse]
  /\ UNCHANGED <<lockVars, granted, prev, tk, vbuf, history>>

\* Lock leaves the last operation's releasable_ in the descriptor.
LockKeepsReleasable(t, l) ==
  LET c == CohortOf(t, l) IN
  /\ ops[t] < MaxOps
  /\ Goto(t, "idle", "swap")
  /\ lk' = [lk EXCEPT ![t] = l]
  /\ ops' = [ops EXCEPT ![t] = @ + 1]
  /\ next' = [next EXCEPT ![c][t] = None]
  /\ ticket' = [ticket EXCEPT ![c][t] = kInvalidTicket]
  /\ to_get_ticket' = [to_get_ticket EXCEPT ![c][t] = kFalse]
  /\ granted' = [granted EXCEPT ![c][t] = kFalse]
  /\ UNCHANGED <<lockVars, releasable, prev, tk, vbuf, history>>

\* The successor does not wait for its predecessor's ticket.
DontWaitToGetTicket(t) ==
  /\ Goto(t, "waitget", "flag")
  /\ UNCHANGED <<lockVars, descVars, lk, prev, tk, vbuf, ops, history>>

\* victim_ is never written.
SkipVictim(t) ==
  /\ Goto(t, "victim", "spin1")
  /\ seen' = [seen EXCEPT ![t] = next_ticket[lk[t]]]
  /\ UNCHANGED <<lockVars, descVars, lk, prev, tk, vbuf, ops, arrivals, served, pos>>

\* The other cohort is made the victim.
SetOtherVictim(t) ==
  /\ Goto(t, "victim", "spin1")
  /\ victim' = [victim EXCEPT ![lk[t]] = IF Coh(t) = "local" THEN "remote" ELSE "local"]
  /\ seen' = [seen EXCEPT ![t] = next_ticket[lk[t]]]
  /\ UNCHANGED <<tail, flag, next_ticket, current_ticket, descVars,
                 lk, prev, tk, vbuf, ops, arrivals, served, pos>>

\* The flag stays up after the ticket is drawn.
KeepFlag(t) ==
  /\ Goto(t, "clear", "publish")
  /\ UNCHANGED <<lockVars, descVars, lk, prev, tk, vbuf, ops, history>>

\* The wait for the ticket's turn ends one turn early.
AwaitTicketEarly(t) ==
  /\ Goto(t, "waitturn", "cs")
  /\ ticket[Coh(t)][t] <= current_ticket[lk[t]] + 1
  /\ UNCHANGED <<lockVars, descVars, lk, prev, tk, vbuf, ops, history>>

\* The remote Unlock writes back the ticket instead of its successor.
BumpCurrentNotRemotely(t) ==
  /\ Goto(t, "cs", "ulnext")
  /\ current_ticket' = [current_ticket EXCEPT ![lk[t]] =
                          IF Coh(t) = "local" THEN @ + 1 ELSE ticket["remote"][t]]
  /\ UNCHANGED <<tail, flag, victim, next_ticket, descVars,
                 lk, prev, tk, vbuf, ops, history>>

\* The compare-and-swap of the tail is retried until it succeeds.
RetryCasTail(t) ==
  /\ pc[t] = "cas"
  /\ IF tail[lk[t]][Coh(t)] = t
     THEN /\ Goto(t, "cas", "idle")
          /\ tail' = [tail EXCEPT ![lk[t]][Coh(t)] = None]
          /\ lk' = [lk EXCEPT ![t] = None]
          /\ prev' = [prev EXCEPT ![t] = None]
     ELSE UNCHANGED <<pc, tail, lk, prev>>
  /\ UNCHANGED <<flag, victim, next_ticket, current_ticket, descVars,
                 tk, vbuf, ops, history>>

\* Unlock does not wait for the successor to finish with the descriptor.
DontAwaitReleasable(t) ==
  /\ Goto(t, "waitrel", "grant")
  /\ UNCHANGED <<lockVars, descVars, lk, prev, tk, vbuf, ops, history>>

-----------------------------------------------------------------------------
\* Lock(l) is called: the path is chosen and the descriptor is reset.
Lock(t, l) ==
  LET c == CohortOf(t, l) IN
  /\ ops[t] < MaxOps
  /\ Goto(t, "idle", "swap")
  /\ lk' = [lk EXCEPT ![t] = l]
  /\ ops' = [ops EXCEPT ![t] = @ + 1]
  /\ next' = [next EXCEPT ![c][t] = None]
  /\ ticket' = [ticket EXCEPT ![c][t] = kInvalidTicket]
  /\ to_get_ticket' = [to_get_ticket EXCEPT ![c][t] = kFalse]
  /\ granted' = [granted EXCEPT ![c][t] = kFalse]
  /\ releasable' = [releasable EXCEPT ![c][t] = kFalse]
  /\ UNCHANGED <<lockVars, prev, tk, vbuf, history>>

\* The atomic exchange on the cohort's tail.  The remote one is MemoryPool's
\* CAS loop, which takes effect at its successful compare-and-swap.
SwapTail(t) ==
  LET l == lk[t]
      c == Coh(t) IN
  /\ Goto(t, "swap", IF tail[l][c] = None THEN "flag" ELSE "link")
  /\ prev' = [prev EXCEPT ![t] = tail[l][c]]
  /\ tail' = [tail EXCEPT ![l][c] = t]
  /\ pos' = [pos EXCEPT ![t] = arrivals[l][c]]
  /\ arrivals' = [arrivals EXCEPT ![l][c] = @ + 1]
  /\ UNCHANGED <<flag, victim, next_ticket, current_ticket, descVars,
                 lk, tk, vbuf, ops, served, seen>>

\* prev->next_ = this descriptor
LinkPrev(t) ==
  /\ Goto(t, "link", "readticket")
  /\ next' = [next EXCEPT ![Coh(t)][prev[t]] = t]
  /\ UNCHANGED <<lockVars, ticket, to_get_ticket, granted, releasable,
                 lk, prev, tk, vbuf, ops, history>>

\* ticket = prev->ticket_
ReadPrevTicket(t) ==
  /\ Goto(t, "readticket", "release")
  /\ tk' = [tk EXCEPT ![t] = ticket[Coh(t)][prev[t]]]
  /\ UNCHANGED <<lockVars, descVars, lk, prev, vbuf, ops, history>>

\* prev->releasable_ = kTrue; the ticket read before decides whether to wait.
ReleasePrev(t) ==
  /\ Goto(t, "release", IF tk[t] = kInvalidTicket THEN "waitget" ELSE "flag")
  /\ releasable' = [releasable EXCEPT ![Coh(t)][prev[t]] = kTrue]
  /\ tk' = [tk EXCEPT ![t] = kInvalidTicket]
  /\ UNCHANGED <<lockVars, next, ticket, to_get_ticket, granted,
                 lk, prev, vbuf, ops, history>>

WaitToGetTicket(t) ==
  /\ Goto(t, "waitget", "flag")
  /\ to_get_ticket[Coh(t)][t] = kTrue
  /\ UNCHANGED <<lockVars, descVars, lk, prev, tk, vbuf, ops, history>>

-----------------------------------------------------------------------------
\* Peterson's algorithm between the cohorts' front threads.

\* local_flag_ = kTrue; or the first word of LockPetersonsRemote's RDMA write
RaiseFlag(t) ==
  /\ Goto(t, "flag", "victim")
  /\ flag' = [flag EXCEPT ![lk[t]][Coh(t)] = kTrue]
  /\ UNCHANGED <<tail, victim, next_ticket, current_ticket, descVars,
                 lk, prev, tk, vbuf, ops, history>>

\* victim_ = this cohort; or the second word of that write
SetVictim(t) ==
  /\ Goto(t, "victim", "spin1")
  /\ victim' = [victim EXCEPT ![lk[t]] = Coh(t)]
  /\ seen' = [seen EXCEPT ![t] = next_ticket[lk[t]]]
  /\ UNCHANGED <<tail, flag, next_ticket, current_ticket, descVars,
                 lk, prev, tk, vbuf, ops, arrivals, served, pos>>

\* The local wait loop: load remote_flag_, and if it is up load victim_.
SpinLocal(t) ==
  /\ \/ Goto(t, "spin1", IF flag[lk[t]]["remote"] = kTrue THEN "spin2" ELSE "faa")
     \/ Goto(t, "spin2", IF victim[lk[t]] = "local" THEN "spin1" ELSE "faa")
  /\ UNCHANGED <<lockVars, descVars, lk, prev, tk, vbuf, ops, history>>

\* The remote wait loop: one RDMA read of the words victim_ and local_flag_,
\* in this order, and the test of what it brought back.
SpinRemote(t) ==
  /\ \/ /\ Goto(t, "spin1", "spin2")
        /\ vbuf' = [vbuf EXCEPT ![t] = victim[lk[t]]]
     \/ /\ Goto(t, "spin2", IF flag[lk[t]]["local"] # kTrue \/ vbuf[t] # "remote"
                            THEN "faa" ELSE "spin1")
        /\ vbuf' = [vbuf EXCEPT ![t] = None]
  /\ UNCHANGED <<lockVars, descVars, lk, prev, tk, ops, history>>

LockPetersonsLocal(t) ==
  Coh(t) = "local" /\ (RaiseFlag(t) \/ SetVictim(t) \/ SpinLocal(t))

LockPetersonsRemote(t) ==
  Coh(t) = "remote" /\ (RaiseFlag(t) \/ SetVictim(t) \/ SpinRemote(t))

\* UnlockPetersonsLocal and UnlockPetersonsRemote
UnlockPetersons(t) ==
  /\ Goto(t, "clear", "publish")
  /\ flag' = [flag EXCEPT ![lk[t]][Coh(t)] = kFalse]
  /\ UNCHANGED <<tail, victim, next_ticket, current_ticket, descVars,
                 lk, prev, tk, vbuf, ops, history>>

-----------------------------------------------------------------------------
\* The CPU's fetch-and-add on next_ticket_.
FetchAddLocal(t) ==
  /\ Coh(t) = "local"
  /\ Goto(t, "faa", "clear")
  /\ tk' = [tk EXCEPT ![t] = next_ticket[lk[t]]]
  /\ next_ticket' = [next_ticket EXCEPT ![lk[t]] = @ + 1]
  /\ seen' = [seen EXCEPT ![t] = 0]
  /\ UNCHANGED <<tail, flag, victim, current_ticket, descVars,
                 lk, prev, vbuf, ops, arrivals, served, pos>>

\* The NIC's fetch-and-add: a read and a write, between which a CPU
\* instruction may access the word.
FetchAddRemote(t) ==
  /\ Coh(t) = "remote"
  /\ \/ /\ Goto(t, "faa", "faawrite")
        /\ tk' = [tk EXCEPT ![t] = next_ticket[lk[t]]]
        /\ UNCHANGED <<next_ticket, seen>>
     \/ /\ Goto(t, "faawrite", "clear")
        /\ next_ticket' = [next_ticket EXCEPT ![lk[t]] = tk[t] + 1]
        /\ seen' = [seen EXCEPT ![t] = 0]
        /\ UNCHANGED tk
  /\ UNCHANGED <<tail, flag, victim, current_ticket, descVars,
                 lk, prev, vbuf, ops, arrivals, served, pos>>

\* The ticket is stored where the successor looks for it.
PublishTicket(t) ==
  /\ Goto(t, "publish", "checknext")
  /\ ticket' = [ticket EXCEPT ![Coh(t)][t] = tk[t]]
  /\ tk' = [tk EXCEPT ![t] = kInvalidTicket]
  /\ served' = [served EXCEPT ![lk[t]][Coh(t)] = @ + 1]
  /\ UNCHANGED <<lockVars, next, to_get_ticket, granted, releasable,
                 lk, prev, vbuf, ops, arrivals, pos, seen>>

\* What follows the ticket section: wait for the predecessor, if there was one.
AfterTicket(t) == IF prev[t] # None THEN "waitgrant" ELSE "waitturn"

CheckNext(t) ==
  /\ Goto(t, "checknext", IF next[Coh(t)][t] # None THEN "wake" ELSE AfterTicket(t))
  /\ UNCHANGED <<lockVars, descVars, lk, prev, tk, vbuf, ops, history>>

\* next_->to_get_ticket_ = kTrue
WakeNext(t) ==
  /\ Goto(t, "wake", AfterTicket(t))
  /\ to_get_ticket' = [to_get_ticket EXCEPT ![Coh(t)][next[Coh(t)][t]] = kTrue]
  /\ UNCHANGED <<lockVars, next, ticket, granted, releasable,
                 lk, prev, tk, vbuf, ops, history>>

AwaitPredecessor(t) ==
  /\ Goto(t, "waitgrant", "waitturn")
  /\ granted[Coh(t)][t] = kTrue
  /\ UNCHANGED <<lockVars, descVars, lk, prev, tk, vbuf, ops, history>>

AwaitTicket(t) ==
  /\ Goto(t, "waitturn", "cs")
  /\ ticket[Coh(t)][t] = current_ticket[lk[t]]
  /\ UNCHANGED <<lockVars, descVars, lk, prev, tk, vbuf, ops, history>>

-----------------------------------------------------------------------------
\* Unlock.  The critical section ends when current_ticket_ moves on: a CPU
\* fetch-and-add, or an RDMA write of the descriptor's ticket plus one.
BumpCurrent(t) ==
  /\ Goto(t, "cs", "ulnext")
  /\ current_ticket' = [current_ticket EXCEPT ![lk[t]] =
                          IF Coh(t) = "local" THEN @ + 1 ELSE ticket["remote"][t] + 1]
  /\ UNCHANGED <<tail, flag, victim, next_ticket, descVars,
                 lk, prev, tk, vbuf, ops, history>>

UnlockCheckNext(t) ==
  /\ Goto(t, "ulnext", IF next[Coh(t)][t] = None THEN "cas" ELSE "waitrel")
  /\ UNCHANGED <<lockVars, descVars, lk, prev, tk, vbuf, ops, history>>

\* Unlock returns: its locals and Lock's are gone.
Return(t) ==
  /\ lk' = [lk EXCEPT ![t] = None]
  /\ prev' = [prev EXCEPT ![t] = None]

\* Compare-and-swap of the tail from this descriptor to nullptr.
CasTail(t) ==
  LET l == lk[t]
      c == Coh(t) IN
  /\ \/ /\ Goto(t, "cas", "idle")
        /\ tail[l][c] = t
        /\ tail' = [tail EXCEPT ![l][c] = None]
        /\ Return(t)
     \/ /\ Goto(t, "cas", "waitrel")
        /\ tail[l][c] # t
        /\ UNCHANGED <<tail, lk, prev>>
  /\ UNCHANGED <<flag, victim, next_ticket, current_ticket, descVars,
                 tk, vbuf, ops, history>>

AwaitReleasable(t) ==
  /\ Goto(t, "waitrel", "grant")
  /\ releasable[Coh(t)][t] = kTrue
  /\ UNCHANGED <<lockVars, descVars, lk, prev, tk, vbuf, ops, history>>

\* next_->granted_ = kTrue
GrantNext(t) ==
  /\ Goto(t, "grant", "idle")
  /\ granted' = [granted EXCEPT ![Coh(t)][next[Coh(t)][t]] = kTrue]
  /\ Return(t)
  /\ UNCHANGED <<lockVars, next, ticket, to_get_ticket, releasable,
                 tk, vbuf, ops, history>>

-----------------------------------------------------------------------------
LockSteps(t) ==
  \/ SwapTail(t) \/ LinkPrev(t) \/ ReadPrevTicket(t) \/ ReleasePrev(t)
  \/ WaitToGetTicket(t) \/ UnlockPetersons(t) \/ PublishTicket(t)
  \/ CheckNext(t) \/ WakeNext(t) \/ AwaitPredecessor(t) \/ AwaitTicket(t)

LockLocal(t) ==
  Coh(t) = "local" /\ (LockSteps(t) \/ LockPetersonsLocal(t) \/ FetchAddLocal(t))

LockRemote(t) ==
  Coh(t) = "remote" /\ (LockSteps(t) \/ LockPetersonsRemote(t) \/ FetchAddRemote(t))

UnlockSteps(t) ==
  \/ BumpCurrent(t) \/ UnlockCheckNext(t) \/ CasTail(t)
  \/ AwaitReleasable(t) \/ GrantNext(t)

UnlockLocal(t) == Coh(t) = "local" /\ UnlockSteps(t)
UnlockRemote(t) == Coh(t) = "remote" /\ UnlockSteps(t)

\* The steps of a thread between a call of Lock and the return of Unlock.
Step(t) == LockLocal(t) \/ LockRemote(t) \/ UnlockLocal(t) \/ UnlockRemote(t)

\* Every thread has made its MaxOps calls.
Done ==
  /\ \A t \in Threads : pc[t] = "idle" /\ ops[t] = MaxOps
  /\ UNCHANGED vars

Next ==
  \/ \E t \in Threads : \E l \in Locks : Lock(t, l)
  \/ \E t \in Threads : LockLocal(t) \/ LockRemote(t) \/ UnlockLocal(t) \/ UnlockRemote(t)
  \/ Done

Spec == Init /\ [][Next]_vars

\* Threads are operating-system threads that spin: none is stopped for ever
\* between the call of Lock and the return of Unlock, and critical sections end.
FairSpec == Spec /\ \A t \in Threads : WF_vars(Step(t))

-----------------------------------------------------------------------------
(***************************************************************************)
(* Properties.                                                             *)
(***************************************************************************)
PCs == {"idle", "swap", "link", "readticket", "release", "waitget", "flag",
        "victim", "spin1", "spin2", "faa", "faawrite", "clear", "publish",
        "checknext", "wake", "waitgrant", "waitturn", "cs", "ulnext", "cas",
        "waitrel", "grant"}

Bit == {kFalse, kTrue}
Ticket == Nat \cup {kInvalidTicket}

\* Every variable holds a value its declaration in farlock.h allows: flags are
\* kTrue or kFalse, tickets are naturals or kInvalidTicket, pointers are null
\* or descriptors.
TypeOK ==
  /\ tail \in [Locks -> [Cohorts -> Threads \cup {None}]]
  /\ flag \in [Locks -> [Cohorts -> Bit]]
  /\ victim \in [Locks -> Cohorts \cup {None}]
  /\ next_ticket \in [Locks -> Nat]
  /\ current_ticket \in [Locks -> Nat]
  /\ next \in [Cohorts -> [Threads -> Threads \cup {None}]]
  /\ ticket \in [Cohorts -> [Threads -> Ticket]]
  /\ to_get_ticket \in [Cohorts -> [Threads -> Bit]]
  /\ granted \in [Cohorts -> [Threads -> Bit]]
  /\ releasable \in [Cohorts -> [Threads -> Bit]]
  /\ pc \in [Threads -> PCs]
  /\ lk \in [Threads -> Locks \cup {None}]
  /\ prev \in [Threads -> Threads \cup {None}]
  /\ tk \in [Threads -> Ticket]
  /\ vbuf \in [Threads -> Cohorts \cup {None}]
  /\ ops \in [Threads -> Nat]
  /\ arrivals \in [Locks -> [Cohorts -> Nat]]
  /\ served \in [Locks -> [Cohorts -> Nat]]
  /\ pos \in [Threads -> Nat]
  /\ seen \in [Threads -> Nat]

\* Program points: inside Peterson's section; drawing a ticket or waiting for
\* the right to; in possession of a ticket; in the queue of a cohort.
Drawing  == {"faa", "faawrite", "clear"}
Section  == {"victim", "spin1", "spin2"} \cup Drawing
Eligible == {"flag", "publish"} \cup Section
Arriving == {"link", "readticket", "release", "waitget"}
Waiting  == {"checknext", "wake", "waitgrant", "waitturn", "cs"}
Leaving  == {"ulnext", "cas", "waitrel", "grant"}
Queued   == Arriving \cup Eligible \cup Waiting \cup Leaving

SameQueue(t, u) == lk[t] = lk[u] /\ Coh(t) = Coh(u)

\* At most one thread is between the return of Lock and the point of Unlock
\* where current_ticket_ moves on, for each lock.
MutualExclusion ==
  \A t, u \in Threads :
    pc[t] = "cs" /\ pc[u] = "cs" /\ lk[t] = lk[u] => t = u

\* A CPU fetch-and-add on next_ticket_ and the two halves of an RDMA
\* fetch-and-add on it never overlap, whichever cohorts the threads are in.
TicketSectionExclusion ==
  \A t, u \in Threads :
    pc[t] \in Drawing /\ pc[u] \in Drawing /\ lk[t] = lk[u] => t = u

\* Once a thread has written victim_, the other cohort draws at most one ticket
\* before it does, however many threads of that cohort come and go: the loops
\* of LockPetersonsLocal and LockPetersonsRemote starve nobody.
BoundedBypass ==
  \A t \in Threads :
    pc[t] \in {"spin1", "spin2", "faa", "faawrite"} => next_ticket[lk[t]] <= seen[t] + 1

\* The ticket a thread holds, from the draw to the end of its critical section.
HasTicket == {"clear", "publish"} \cup Waiting
Tick(t) == IF pc[t] \in {"clear", "publish"} THEN tk[t] ELSE ticket[Coh(t)][t]

\* The tickets between current_ticket_ and next_ticket_ are all in the hands of
\* exactly one thread each: none was issued twice, lost or passed over, so the
\* turn of every waiting thread will come.
TicketsAccounted ==
  \A l \in Locks :
    /\ \A k \in current_ticket[l]..(next_ticket[l] - 1) :
         \E t \in Threads : pc[t] \in HasTicket /\ lk[t] = l /\ Tick(t) = k
    /\ \A t, u \in Threads :
         /\ pc[t] \in HasTicket /\ lk[t] = l
         /\ pc[u] \in HasTicket /\ lk[u] = l
         /\ Tick(t) = Tick(u) \/ Tick(t) \notin current_ticket[l]..(next_ticket[l] - 1)
         => t = u /\ Tick(t) \in current_ticket[l]..(next_ticket[l] - 1)

\* Threads of a cohort hold tickets in the order of their swaps on the tail:
\* the exchange of LockLocal and LockRemote decides who is served first.
CohortFIFO ==
  \A t, u \in Threads :
    /\ pc[t] \in Queued /\ pc[u] \in Queued /\ SameQueue(t, u)
    /\ pos[t] < pos[u]
    /\ pc[u] \in HasTicket
    => \/ pc[t] \in Leaving
       \/ pc[t] \in HasTicket /\ Tick(t) < Tick(u)

\* The threads whose descriptors thread t is about to write (or read, in
\* ReadPrevTicket).
Touches(t) ==
  (IF pc[t] \in {"link", "readticket", "release"} THEN {prev[t]} ELSE {}) \cup
  (IF pc[t] \in {"wake", "grant"} THEN {next[Coh(t)][t]} ELSE {})

\* A descriptor is reused by every Lock call of its owner.  Whoever is about to
\* access another thread's descriptor finds its owner still in the operation
\* in which the two became neighbours of one queue; no access comes late, into
\* a later operation or a null pointer.
NoStaleAccess ==
  \A t \in Threads : \A u \in Touches(t) :
    /\ u \in Threads /\ pc[u] \in Queued /\ SameQueue(t, u)
    /\ pos[u] = IF pc[t] \in {"wake", "grant"} THEN pos[t] + 1 ELSE pos[t] - 1

\* current_ticket_ moves by one, in the Unlock of the thread whose ticket it is
\* (the remote path writes its own ticket plus one over whatever is there).
CurrentTicketStep ==
  [][\A l \in Locks : current_ticket'[l] # current_ticket[l] =>
       /\ current_ticket'[l] = current_ticket[l] + 1
       /\ \E t \in Threads : /\ pc[t] = "cs" /\ lk[t] = l /\ pc'[t] = "ulnext"
                             /\ Tick(t) = current_ticket[l]]_vars

\* A thread that swapped itself into a tail enters its critical section.
QueuedEnters ==
  \A t \in Threads : pc[t] \in Arriving \cup Eligible ~> pc[t] = "cs"

\* Unlock returns, although it may wait for a successor that is still linking.
UnlockReturns ==
  \A t \in Threads : pc[t] = "cs" ~> pc[t] = "idle"

-----------------------------------------------------------------------------
(***************************************************************************)
(* FARLock implements FairLock: the line of a lock is the threads that     *)
(* hold its outstanding tickets.                                           *)
(***************************************************************************)
Holder(l, k) == CHOOSE t \in Threads : pc[t] \in HasTicket /\ lk[t] = l /\ Tick(t) = k

Line == [l \in Locks |->
          [i \in 1..(next_ticket[l] - current_ticket[l]) |->
             Holder(l, current_ticket[l] + i - 1)]]

Held == [l \in Locks |-> \E t \in Threads : pc[t] = "cs" /\ lk[t] = l]

Fair == INSTANCE FairLock WITH line <- Line, held <- Held

\* Every step of FARLock is a step of FairLock or leaves its state alone: who
\* drew a ticket first enters first, across cohorts.
ImplementsFairLock == Fair!Spec

=============================================================================
