------------------------------ MODULE FARLockG ------------------------------
(***************************************************************************)
(* FARLockG, src/include/locks/farlockg.h: FARLock with group tickets.     *)
(* A thread that draws a ticket and already has a successor does not leave *)
(* Peterson's section: it passes ticket and section on to the successor,   *)
(* until the cohort's budget is used up or no successor is linked.  The    *)
(* threads of such a batch enter one after the other under one ticket.     *)
(*                                                                         *)
(* One step is one access to memory that another thread can reach; a step  *)
(* that the two code paths share is one action.                            *)
(***************************************************************************)
EXTENDS Integers

CONSTANTS
  Threads, Locks, Nodes,
  NodeOf,       \* NodeOf[t]: the node thread t runs on
  Home,         \* Home[l]: the node whose memory holds lock l
  LocalBudget, RemoteBudget,   \* kInitLocalBudget_, kInitRemoteBudget_
  MaxOps,       \* bound: Lock/Unlock pairs per thread
  None          \* nullptr, and no lock

Cohorts == {"local", "remote"}

ASSUME NodesAssumption == NodeOf \in [Threads -> Nodes] /\ Home \in [Locks -> Nodes]
ASSUME BudgetAssumption == LocalBudget \in Nat \ {0} /\ RemoteBudget \in Nat \ {0}
ASSUME MaxOpsAssumption == MaxOps \in Nat
ASSUME NoneAssumption == None \notin Threads \cup Locks \cup Cohorts

kTrue == 1
kFalse == 0
NoBudget == -1

VARIABLES
  \* struct FARLockG
  tail, flag, victim, next_ticket, current_ticket,
  \* struct LocalDescriptor and RemoteDescriptor: field[c][t]
  next, ticket_valid, batch_ticket, budget, granted, releasable,
  \* each thread: program counter, lock, the locals prev, ticket and
  \* ticket_from_prev, the victim_ word of lock_buffer_, Lock calls made
  pc, lk, prev, tk, from_prev, vbuf, ops,
  \* history: swaps on a tail, the number of each thread's swap, the threads
  \* that entered under the current ticket, next_ticket when t wrote victim_
  arrivals, pos, uses, seen

lockVars == <<tail, flag, victim, next_ticket, current_ticket>>
descVars == <<next, ticket_valid, batch_ticket, budget, granted, releasable>>
threadVars == <<lk, prev, tk, from_prev, vbuf, ops>>
history == <<arrivals, pos, uses, seen>>
vars == <<lockVars, descVars, pc, threadVars, history>>

IsLocal(t, l) == l \in Locks /\ NodeOf[t] = Home[l]
CohortOf(t, l) == IF IsLocal(t, l) THEN "local" ELSE "remote"
Coh(t) == CohortOf(t, lk[t])
Budget(c) == IF c = "local" THEN LocalBudget ELSE RemoteBudget
Goto(t, from, to) == pc[t] = from /\ pc' = [pc EXCEPT ![t] = to]

-----------------------------------------------------------------------------
\* Locks are zeroed when allocated; Lock resets the descriptor, all but the
\* batch_ticket_, before use.
Init ==
  LET desc(v) == [c \in Cohorts |-> [t \in Threads |-> v]] IN
  /\ tail = [l \in Locks |-> [c \in Cohorts |-> None]]
  /\ flag = [l \in Locks |-> [c \in Cohorts |-> kFalse]]
  /\ victim = [l \in Locks |-> None]
  /\ next_ticket = [l \in Locks |-> 0]
  /\ current_ticket = [l \in Locks |-> 0]
  /\ next = desc(None) /\ ticket_valid = desc(kFalse) /\ batch_ticket = desc(0)
  /\ budget = desc(NoBudget) /\ granted = desc(kFalse) /\ releasable = desc(kFalse)
  /\ pc = [t \in Threads |-> "idle"]
  /\ lk = [t \in Threads |-> None]
  /\ prev = [t \in Threads |-> None]
  /\ tk = [t \in Threads |-> 0]
  /\ from_prev = [t \in Threads |-> FALSE]
  /\ vbuf = [t \in Threads |-> None]
  /\ ops = [t \in Threads |-> 0]
  /\ arrivals = [l \in Locks |-> [c \in Cohorts |-> 0]]
  /\ pos = [t \in Threads |-> 0]
  /\ uses = [l \in Locks |-> 0]
  /\ seen = [t \in Threads |-> 0]

-----------------------------------------------------------------------------
\* Lock is called: the path is chosen and the descriptor is reset.
Lock(t, l) ==
  LET c == CohortOf(t, l) IN
  /\ ops[t] < MaxOps
  /\ Goto(t, "idle", "swap")
  /\ lk' = [lk EXCEPT ![t] = l]
  /\ ops' = [ops EXCEPT ![t] = @ + 1]
  /\ next' = [next EXCEPT ![c][t] = None]
  /\ ticket_valid' = [ticket_valid EXCEPT ![c][t] = kFalse]
  /\ budget' = [budget EXCEPT ![c][t] = NoBudget]
  /\ granted' = [granted EXCEPT ![c][t] = kFalse]
  /\ releasable' = [releasable EXCEPT ![c][t] = kFalse]
  /\ UNCHANGED <<lockVars, batch_ticket, prev, tk, from_prev, vbuf, history>>

\* The atomic exchange on the cohort's tail; the remote one takes effect at
\* the last compare-and-swap of MemoryPool::Exchange.
SwapTail(t) ==
  LET l == lk[t]
      c == Coh(t) IN
  /\ Goto(t, "swap", IF tail[l][c] = None THEN "setbudget" ELSE "link")
  /\ prev' = [prev EXCEPT ![t] = tail[l][c]]
  /\ tail' = [tail EXCEPT ![l][c] = t]
  /\ pos' = [pos EXCEPT ![t] = arrivals[l][c]]
  /\ arrivals' = [arrivals EXCEPT ![l][c] = @ + 1]
  /\ UNCHANGED <<flag, victim, next_ticket, current_ticket, descVars,
                 lk, tk, from_prev, vbuf, ops, uses, seen>>

\* prev->next_ = this descriptor
LinkPrev(t) ==
  /\ Goto(t, "link", "readvalid")
  /\ next' = [next EXCEPT ![Coh(t)][prev[t]] = t]
  /\ UNCHANGED <<lockVars, ticket_valid, batch_ticket, budget, granted, releasable,
                 threadVars, history>>

\* ticket = prev->ticket_valid_
ReadPrevValid(t) ==
  /\ Goto(t, "readvalid", "release")
  /\ tk' = [tk EXCEPT ![t] = ticket_valid[Coh(t)][prev[t]]]
  /\ UNCHANGED <<lockVars, descVars, lk, prev, from_prev, vbuf, ops, history>>

\* prev->releasable_ = kTrue
ReleasePrev(t) ==
  /\ Goto(t, "release", IF tk[t] # kTrue THEN "waitbudget" ELSE "setbudget")
  /\ releasable' = [releasable EXCEPT ![Coh(t)][prev[t]] = kTrue]
  /\ tk' = [tk EXCEPT ![t] = 0]
  /\ UNCHANGED <<lockVars, next, ticket_valid, batch_ticket, budget, granted,
                 lk, prev, from_prev, vbuf, ops, history>>

\* while (budget_ == -1)
AwaitBudget(t) ==
  /\ Goto(t, "waitbudget", "gotbudget")
  /\ budget[Coh(t)][t] # NoBudget
  /\ UNCHANGED <<lockVars, descVars, threadVars, history>>

\* A budget other than the initial one comes with the ticket of the batch.
TakeBatch(t) ==
  LET c == Coh(t)
      batch == budget[c][t] # Budget(c) IN
  /\ Goto(t, "gotbudget", IF batch THEN "checknext" ELSE "setbudget")
  /\ tk' = [tk EXCEPT ![t] = IF batch THEN batch_ticket[c][t] ELSE @]
  /\ from_prev' = [from_prev EXCEPT ![t] = batch]
  /\ UNCHANGED <<lockVars, descVars, lk, prev, vbuf, ops, history>>

SetBudget(t) ==
  /\ Goto(t, "setbudget", "flag")
  /\ budget' = [budget EXCEPT ![Coh(t)][t] = Budget(Coh(t))]
  /\ UNCHANGED <<lockVars, next, ticket_valid, batch_ticket, granted, releasable,
                 threadVars, history>>

-----------------------------------------------------------------------------
\* Peterson's algorithm, as in FARLock: the remote side writes and reads two
\* words with one RDMA operation, one after the other.
RaiseFlag(t) ==
  /\ Goto(t, "flag", "victim")
  /\ flag' = [flag EXCEPT ![lk[t]][Coh(t)] = kTrue]
  /\ UNCHANGED <<tail, victim, next_ticket, current_ticket, descVars, threadVars, history>>

\* Mutant: forgets to write victim_.
SkipVictim(t) ==
  /\ Goto(t, "victim", "spin1")
  /\ seen' = [seen EXCEPT ![t] = next_ticket[lk[t]]]
  /\ UNCHANGED <<lockVars, descVars, threadVars, arrivals, pos, uses>>

\* Mutant: yields only if nobody has.
YieldOnce(t) ==
  /\ Goto(t, "victim", "spin1")
  /\ victim' = [victim EXCEPT ![lk[t]] = IF @ = None THEN Coh(t) ELSE @]
  /\ seen' = [seen EXCEPT ![t] = next_ticket[lk[t]]]
  /\ UNCHANGED <<tail, flag, next_ticket, current_ticket, descVars, threadVars,
                 arrivals, pos, uses>>

SetVictim(t) ==
  /\ Goto(t, "victim", "spin1")
  /\ victim' = [victim EXCEPT ![lk[t]] = Coh(t)]
  /\ seen' = [seen EXCEPT ![t] = next_ticket[lk[t]]]
  /\ UNCHANGED <<tail, flag, next_ticket, current_ticket, descVars, threadVars,
                 arrivals, pos, uses>>

SpinLocal(t) ==
  /\ \/ Goto(t, "spin1", IF flag[lk[t]]["remote"] = kTrue THEN "spin2" ELSE "faa")
     \/ Goto(t, "spin2", IF victim[lk[t]] = "local" THEN "spin1" ELSE "faa")
  /\ UNCHANGED <<lockVars, descVars, threadVars, history>>

SpinRemote(t) ==
  /\ \/ /\ Goto(t, "spin1", "spin2")
        /\ vbuf' = [vbuf EXCEPT ![t] = victim[lk[t]]]
     \/ /\ Goto(t, "spin2", IF flag[lk[t]]["local"] # kTrue \/ vbuf[t] # "remote"
                            THEN "faa" ELSE "spin1")
        /\ vbuf' = [vbuf EXCEPT ![t] = None]
  /\ UNCHANGED <<lockVars, descVars, lk, prev, tk, from_prev, ops, history>>

LockPetersonsLocal(t) ==
  Coh(t) = "local" /\ (RaiseFlag(t) \/ SetVictim(t) \/ SpinLocal(t))

LockPetersonsRemote(t) ==
  Coh(t) = "remote" /\ (RaiseFlag(t) \/ SetVictim(t) \/ SpinRemote(t))

\* The CPU's fetch-and-add on next_ticket_, and the NIC's in two halves.
FetchAddLocal(t) ==
  /\ Coh(t) = "local"
  /\ Goto(t, "faa", "checknext")
  /\ tk' = [tk EXCEPT ![t] = next_ticket[lk[t]]]
  /\ next_ticket' = [next_ticket EXCEPT ![lk[t]] = @ + 1]
  /\ UNCHANGED <<tail, flag, victim, current_ticket, descVars,
                 lk, prev, from_prev, vbuf, ops, history>>

FetchAddRemote(t) ==
  /\ Coh(t) = "remote"
  /\ \/ /\ Goto(t, "faa", "faawrite")
        /\ tk' = [tk EXCEPT ![t] = next_ticket[lk[t]]]
        /\ UNCHANGED next_ticket
     \/ /\ Goto(t, "faawrite", "checknext")
        /\ next_ticket' = [next_ticket EXCEPT ![lk[t]] = tk[t] + 1]
        /\ UNCHANGED tk
  /\ UNCHANGED <<tail, flag, victim, current_ticket, descVars,
                 lk, prev, from_prev, vbuf, ops, history>>

-----------------------------------------------------------------------------
\* Mutant: passes the batch on until the budget is 0.
PassAtOne(t) ==
  LET c == Coh(t) IN
  /\ Goto(t, "checknext", CASE next[c][t] = None -> "clear"
                            [] next[c][t] # None /\ budget[c][t] = 0 -> "clearlast"
                            [] OTHER -> "passticket")
  /\ UNCHANGED <<lockVars, descVars, threadVars, history>>

\* got_ticket: with a successor and budget left, pass the batch on; otherwise
\* leave Peterson's section.
CheckNext(t) ==
  LET c == Coh(t) IN
  /\ Goto(t, "checknext", CASE next[c][t] = None -> "clear"
                            [] next[c][t] # None /\ budget[c][t] = 1 -> "clearlast"
                            [] OTHER -> "passticket")
  /\ UNCHANGED <<lockVars, descVars, threadVars, history>>

\* What follows the ticket: wait for the predecessor, if there was one.
AfterTicket(t) == IF prev[t] # None THEN "waitgrant" ELSE "waitturn"

\* Mutant: passes the budget but not the ticket.
PassNoTicket(t) ==
  /\ Goto(t, "passticket", "passbudget")
  /\ UNCHANGED <<lockVars, descVars, threadVars, history>>

\* The two words passed to the successor, by two stores or one RDMA write.
PassTicket(t) ==
  /\ Goto(t, "passticket", "passbudget")
  /\ batch_ticket' = [batch_ticket EXCEPT ![Coh(t)][next[Coh(t)][t]] = tk[t]]
  /\ UNCHANGED <<lockVars, next, ticket_valid, budget, granted, releasable,
                 threadVars, history>>

PassBudget(t) ==
  /\ Goto(t, "passbudget", AfterTicket(t))
  /\ budget' = [budget EXCEPT ![Coh(t)][next[Coh(t)][t]] = budget[Coh(t)][t] - 1]
  /\ UNCHANGED <<lockVars, next, ticket_valid, batch_ticket, granted, releasable,
                 threadVars, history>>

\* Mutant: leaves the flag up.
KeepFlag(t) ==
  /\ Goto(t, "clear", "valid") \/ Goto(t, "clearlast", "validlast")
  /\ UNCHANGED <<lockVars, descVars, threadVars, history>>

\* UnlockPetersonsLocal and UnlockPetersonsRemote
UnlockPetersons(t) ==
  /\ Goto(t, "clear", "valid") \/ Goto(t, "clearlast", "validlast")
  /\ flag' = [flag EXCEPT ![lk[t]][Coh(t)] = kFalse]
  /\ UNCHANGED <<tail, victim, next_ticket, current_ticket, descVars, threadVars, history>>

\* ticket_valid_ = kTrue: this thread is the last of its batch.
SetValid(t) ==
  /\ Goto(t, "valid", "recheck") \/ Goto(t, "validlast", "give")
  /\ ticket_valid' = [ticket_valid EXCEPT ![Coh(t)][t] = kTrue]
  /\ UNCHANGED <<lockVars, next, batch_ticket, budget, granted, releasable,
                 threadVars, history>>

RecheckNext(t) ==
  /\ Goto(t, "recheck", IF next[Coh(t)][t] # None THEN "give" ELSE AfterTicket(t))
  /\ UNCHANGED <<lockVars, descVars, threadVars, history>>

\* next_->budget_ = the initial budget: the successor may draw a ticket.
GiveBudget(t) ==
  /\ Goto(t, "give", AfterTicket(t))
  /\ budget' = [budget EXCEPT ![Coh(t)][next[Coh(t)][t]] = Budget(Coh(t))]
  /\ UNCHANGED <<lockVars, next, ticket_valid, batch_ticket, granted, releasable,
                 threadVars, history>>

\* Mutant: a thread with its predecessor's ticket enters at once.
DontAwaitPredecessor(t) ==
  /\ Goto(t, "waitgrant", IF from_prev[t] THEN "cs" ELSE "waitturn")
  /\ from_prev[t] \/ granted[Coh(t)][t] = kTrue
  /\ uses' = [uses EXCEPT ![lk[t]] = IF from_prev[t] THEN @ + 1 ELSE @]
  /\ UNCHANGED <<lockVars, descVars, threadVars, arrivals, pos, seen>>

\* A thread that got its ticket from its predecessor enters when granted.
AwaitPredecessor(t) ==
  /\ Goto(t, "waitgrant", IF from_prev[t] THEN "cs" ELSE "waitturn")
  /\ granted[Coh(t)][t] = kTrue
  /\ uses' = [uses EXCEPT ![lk[t]] = IF from_prev[t] THEN @ + 1 ELSE @]
  /\ UNCHANGED <<lockVars, descVars, threadVars, arrivals, pos, seen>>

AwaitTicket(t) ==
  /\ Goto(t, "waitturn", "cs")
  /\ tk[t] = current_ticket[lk[t]]
  /\ batch_ticket' = [batch_ticket EXCEPT ![Coh(t)][t] = tk[t]]
  /\ uses' = [uses EXCEPT ![lk[t]] = @ + 1]
  /\ UNCHANGED <<lockVars, next, ticket_valid, budget, granted, releasable,
                 threadVars, arrivals, pos, seen>>

-----------------------------------------------------------------------------
\* Unlock.  Only the last thread of a batch moves current_ticket_ on.
BumpCurrent(t) ==
  LET c == Coh(t)
      last == ticket_valid[c][t] = kTrue IN
  /\ Goto(t, "cs", "ulnext")
  /\ current_ticket' = [current_ticket EXCEPT ![lk[t]] =
                          IF last THEN batch_ticket[c][t] + 1 ELSE @]
  /\ uses' = [uses EXCEPT ![lk[t]] = IF last THEN 0 ELSE @]
  /\ UNCHANGED <<tail, flag, victim, next_ticket, descVars, threadVars,
                 arrivals, pos, seen>>

UnlockCheckNext(t) ==
  /\ Goto(t, "ulnext", IF next[Coh(t)][t] = None THEN "cas" ELSE "waitrel")
  /\ UNCHANGED <<lockVars, descVars, threadVars, history>>

\* Unlock returns: its locals and Lock's are gone.
Return(t) ==
  /\ lk' = [lk EXCEPT ![t] = None]
  /\ prev' = [prev EXCEPT ![t] = None]
  /\ tk' = [tk EXCEPT ![t] = 0]
  /\ from_prev' = [from_prev EXCEPT ![t] = FALSE]

\* Compare-and-swap of the tail from this descriptor to nullptr.
CasTail(t) ==
  LET l == lk[t]
      c == Coh(t) IN
  /\ \/ /\ Goto(t, "cas", "idle")
        /\ tail[l][c] = t
        /\ tail' = [tail EXCEPT ![l][c] = None]
        /\ Return(t)
     \/ /\ Goto(t, "cas", "waitrel")
        /\ tail[l][c] # t
        /\ UNCHANGED <<tail, lk, prev, tk, from_prev>>
  /\ UNCHANGED <<flag, victim, next_ticket, current_ticket, descVars, vbuf, ops, history>>

\* Mutant: does not wait for releasable_.
DontAwaitReleasable(t) ==
  /\ Goto(t, "waitrel", "grant")
  /\ UNCHANGED <<lockVars, descVars, threadVars, history>>

AwaitReleasable(t) ==
  /\ Goto(t, "waitrel", "grant")
  /\ releasable[Coh(t)][t] = kTrue
  /\ UNCHANGED <<lockVars, descVars, threadVars, history>>

\* next_->granted_ = kTrue
GrantNext(t) ==
  /\ Goto(t, "grant", "idle")
  /\ granted' = [granted EXCEPT ![Coh(t)][next[Coh(t)][t]] = kTrue]
  /\ Return(t)
  /\ UNCHANGED <<lockVars, next, ticket_valid, batch_ticket, budget, releasable,
                 vbuf, ops, history>>

-----------------------------------------------------------------------------
LockSteps(t) ==
  \/ SwapTail(t) \/ LinkPrev(t) \/ ReadPrevValid(t) \/ ReleasePrev(t)
  \/ AwaitBudget(t) \/ TakeBatch(t) \/ SetBudget(t) \/ CheckNext(t)
  \/ PassTicket(t) \/ PassBudget(t) \/ UnlockPetersons(t) \/ SetValid(t)
  \/ RecheckNext(t) \/ GiveBudget(t) \/ AwaitPredecessor(t) \/ AwaitTicket(t)

LockLocal(t) ==
  Coh(t) = "local" /\ (LockSteps(t) \/ LockPetersonsLocal(t) \/ FetchAddLocal(t))

LockRemote(t) ==
  Coh(t) = "remote" /\ (LockSteps(t) \/ LockPetersonsRemote(t) \/ FetchAddRemote(t))

UnlockSteps(t) ==
  \/ BumpCurrent(t) \/ UnlockCheckNext(t) \/ CasTail(t)
  \/ AwaitReleasable(t) \/ GrantNext(t)

UnlockLocal(t) == Coh(t) = "local" /\ UnlockSteps(t)
UnlockRemote(t) == Coh(t) = "remote" /\ UnlockSteps(t)

Step(t) == LockLocal(t) \/ LockRemote(t) \/ UnlockLocal(t) \/ UnlockRemote(t)

\* Every thread has made its MaxOps calls.
Done ==
  /\ \A t \in Threads : pc[t] = "idle" /\ ops[t] = MaxOps
  /\ UNCHANGED vars

Next ==
  \/ \E t \in Threads : \E l \in Locks : Lock(t, l)
  \/ \E t \in Threads : LockLocal(t) \/ LockRemote(t) \/ UnlockLocal(t) \/ UnlockRemote(t)
  \/ Done

Spec == Init /\ [][Next]_vars

\* No thread is stopped for ever inside Lock or Unlock; critical sections end.
FairSpec == Spec /\ \A t \in Threads : WF_vars(Step(t))

-----------------------------------------------------------------------------
(***************************************************************************)
(* Properties.                                                             *)
(***************************************************************************)
Arriving == {"link", "readvalid", "release", "waitbudget", "gotbudget", "setbudget"}
Peterson == {"flag", "victim", "spin1", "spin2"}
Leaving  == {"ulnext", "cas", "waitrel", "grant"}
Queued(t) == pc[t] \notin {"idle", "swap"}
SameQueue(t, u) == lk[t] = lk[u] /\ Coh(t) = Coh(u)

\* At most one thread is between the return of Lock and the start of Unlock,
\* across batches and cohorts.
MutualExclusion ==
  \A t, u \in Threads :
    pc[t] = "cs" /\ pc[u] = "cs" /\ lk[t] = lk[u] => t = u

\* Who is in Peterson's section: the thread that won it, until it clears the
\* flag or has passed a diminished budget, then the one it passed that to.
InSection(t) ==
  \/ pc[t] \in {"faa", "faawrite", "checknext", "clear", "clearlast", "passticket", "passbudget"}
  \/ pc[t] \in {"waitbudget", "gotbudget"} /\ budget[Coh(t)][t] \notin {NoBudget, Budget(Coh(t))}

\* One thread at a time is in Peterson's section of a lock, although a batch
\* hands it from thread to thread and another thread than the one that raised
\* the flag clears it; the flag is up meanwhile.
SectionExclusion ==
  \A t \in Threads : InSection(t) =>
    /\ flag[lk[t]][Coh(t)] = kTrue
    /\ \A u \in Threads : InSection(u) /\ lk[u] = lk[t] => u = t

\* The thread in the critical section knows the current ticket, which it will
\* move on if it is the last of its batch, also if it never waited for it.
HolderHasTurn ==
  \A t \in Threads : pc[t] = "cs" => batch_ticket[Coh(t)][t] = current_ticket[lk[t]]

\* At most as many threads enter under one ticket as the cohort's budget says.
BatchBound ==
  \A t \in Threads : pc[t] = "cs" => uses[lk[t]] \in 1..Budget(Coh(t))

\* While a thread waits in Peterson's loop, the other cohort draws at most one
\* ticket: one batch of it goes first.
BoundedBypass ==
  \A t \in Threads :
    pc[t] \in {"spin1", "spin2", "faa", "faawrite"} => next_ticket[lk[t]] <= seen[t] + 1

\* Threads of a cohort enter in the order of their swaps on the tail, within
\* a batch and from batch to batch.
CohortFIFO ==
  \A t, u \in Threads :
    Queued(t) /\ Queued(u) /\ SameQueue(t, u) /\ pos[t] < pos[u] =>
      pc[u] \notin {"cs"} \cup Leaving

\* The threads whose descriptors thread t is about to access.
Touches(t) ==
  (IF pc[t] \in {"link", "readvalid", "release"} THEN {prev[t]} ELSE {}) \cup
  (IF pc[t] \in {"passticket", "passbudget", "give", "grant"} THEN {next[Coh(t)][t]} ELSE {})

\* Whoever is about to access another thread's descriptor finds its owner in
\* the operation in which the two became neighbours.  A late gift of a budget,
\* to a successor that saw ticket_valid_ and went on, is no exception.
NoStaleAccess ==
  \A t \in Threads : \A u \in Touches(t) :
    /\ u \in Threads /\ Queued(u) /\ SameQueue(t, u)
    /\ pos[u] = IF pc[t] \in {"link", "readvalid", "release"} THEN pos[t] - 1 ELSE pos[t] + 1

\* A thread that swapped itself into a tail enters its critical section.
QueuedEnters ==
  \A t \in Threads : pc[t] \in Arriving \cup Peterson ~> pc[t] = "cs"
=============================================================================
