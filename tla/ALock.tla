------------------------------- MODULE ALock -------------------------------
(***************************************************************************)
(* ALock, src/include/third_party/locks/a_lock.h: each of two cohorts, the *)
(* threads on the lock's node and all others, has an MCS queue; the two    *)
(* tails are the flags of Peterson's algorithm between the cohorts.  An    *)
(* owner passes the lock to its successor with a budget that shrinks; the  *)
(* successor that gets none left (Reacquire) runs Peterson's algorithm     *)
(* again, with its cohort's flag still up.  The build leaves REMOTE_ONLY   *)
(* undefined.                                                              *)
(*                                                                         *)
(* The local cohort reaches the lock with CPU instructions, the remote one *)
(* by RDMA.  A tail is changed by one of the two kinds only; the victim is *)
(* changed by both, but no one uses what its exchange returns, so of the   *)
(* NIC's compare-and-swap loop only the last write matters.  One step is   *)
(* one access to memory that another thread can reach.                     *)
(***************************************************************************)
EXTENDS Integers, Queues

CONSTANTS
  LocalThreads, RemoteThreads,   \* the threads, by what local_clients_ says
  LocalBudget, RemoteBudget,     \* local_budget_, remote_budget_
  None                           \* nullptr

\* A budget of 0 would let the first owner hand over -1, which is "wait".
ASSUME ALockAssumption ==
  /\ LocalThreads \cap RemoteThreads = {} /\ None \notin LocalThreads \cup RemoteThreads
  /\ LocalBudget \in Nat \ {0} /\ RemoteBudget \in Nat \ {0}

Threads == LocalThreads \cup RemoteThreads
LOCAL_VICTIM == 1
REMOTE_VICTIM == 2
Cohorts == {LOCAL_VICTIM, REMOTE_VICTIM}
Cohort(t) == IF t \in LocalThreads THEN LOCAL_VICTIM ELSE REMOTE_VICTIM
Other(t) == IF t \in LocalThreads THEN REMOTE_VICTIM ELSE LOCAL_VICTIM
InitialBudget(c) == IF c = LOCAL_VICTIM THEN LocalBudget ELSE RemoteBudget

VARIABLES
  tail,           \* l_tail and r_tail, per cohort
  victim,         \* the cohort that gives way; 0 at first
  budget, next,   \* each thread's descriptor of its cohort
  pc,             \* each thread: program counter
  prev,           \* the predecessor, while it is to be linked
  queue,          \* history: per cohort, the threads in its queue
  bypass          \* history: entries of the other cohort while a thread waits
                  \*          in Peterson's loop, counted to one past its budget

vars == <<tail, victim, budget, next, pc, prev, queue, bypass>>

Init ==
  /\ tail = [c \in Cohorts |-> None]
  /\ victim = 0
  /\ budget = [t \in Threads |-> -1]
  /\ next = [t \in Threads |-> None]
  /\ pc = [t \in Threads |-> "idle"]
  /\ prev = [t \in Threads |-> None]
  /\ queue = [c \in Cohorts |-> <<>>]
  /\ bypass = [t \in Threads |-> 0]

Goto(t, from, to) == pc[t] = from /\ pc' = [pc EXCEPT ![t] = to]

\* Lock returns to its caller.
Enter(t, from) ==
  /\ Goto(t, from, "cs")
  /\ bypass' = [u \in Threads |->
       CASE u = t -> 0
         [] Cohort(u) = Other(t) /\ pc[u] \in {"readtail", "readvictim"} ->
              IF bypass[u] > InitialBudget(Cohort(t)) THEN bypass[u] ELSE bypass[u] + 1
         [] OTHER -> bypass[u]]

\* Unlock returns to its caller.
Return(t, from) ==
  /\ Goto(t, from, "idle")
  /\ queue' = [queue EXCEPT ![Cohort(t)] = Without(@, t)]

-----------------------------------------------------------------------------
(***************************************************************************)
(* Mistakes that the code could contain; none is part of Next.             *)
(***************************************************************************)
\* The descriptor keeps the budget of the last operation.
KeepBudget(t) ==
  /\ Goto(t, "idle", "swap")
  /\ next' = [next EXCEPT ![t] = None]
  /\ UNCHANGED <<tail, victim, budget, prev, queue, bypass>>

\* The whole budget is handed on.
HandOverAll(t) ==
  /\ Return(t, "handover")
  /\ budget' = [budget EXCEPT ![next[t]] = budget[t]]
  /\ next' = IF t \in LocalThreads THEN [next EXCEPT ![t] = None] ELSE next
  /\ UNCHANGED <<tail, victim, prev, bypass>>

\* Reacquire waits without making its cohort the victim.
SpinNoVictim(t) ==
  /\ \/ budget[t] > 0 /\ Enter(t, "spin")
     \/ budget[t] = 0 /\ Goto(t, "spin", "readtail") /\ UNCHANGED bypass
  /\ UNCHANGED <<tail, victim, budget, next, prev, queue>>

-----------------------------------------------------------------------------
(***************************************************************************)
(* Lock                                                                    *)
(***************************************************************************)
\* Lock is called: LockLocalMcsQueue or LockRemoteMcsQueue resets the
\* descriptor.
Lock(t) ==
  /\ Goto(t, "idle", "swap")
  /\ budget' = [budget EXCEPT ![t] = -1]
  /\ next' = [next EXCEPT ![t] = None]
  /\ UNCHANGED <<tail, victim, prev, queue, bypass>>

\* The exchange of the tail: the first of a queue takes a whole budget and
\* goes on to Peterson's algorithm.
SwapTail(t) ==
  LET c == Cohort(t) IN
  /\ Goto(t, "swap", IF tail[c] = None THEN "setvictim" ELSE "link")
  /\ prev' = [prev EXCEPT ![t] = tail[c]]
  /\ tail' = [tail EXCEPT ![c] = t]
  /\ queue' = [queue EXCEPT ![c] = Append(@, t)]
  /\ budget' = [budget EXCEPT ![t] = IF tail[c] = None THEN InitialBudget(c) ELSE @]
  /\ UNCHANGED <<victim, next, bypass>>

\* The write of prev's next field.
LinkPrev(t) ==
  /\ Goto(t, "link", "spin")
  /\ next' = [next EXCEPT ![prev[t]] = t]
  /\ prev' = [prev EXCEPT ![t] = None]
  /\ UNCHANGED <<tail, victim, budget, queue, bypass>>

\* while (budget < 0); then the lock is passed, or to be reacquired.
Spin(t) ==
  /\ \/ budget[t] > 0 /\ Enter(t, "spin")
     \/ budget[t] = 0 /\ Goto(t, "spin", "setvictim") /\ UNCHANGED bypass
  /\ UNCHANGED <<tail, victim, budget, next, prev, queue>>

\* LocalPetersons and RemotePetersons
SetVictim(t) ==
  /\ Goto(t, "setvictim", "readtail")
  /\ victim' = Cohort(t)
  /\ bypass' = [bypass EXCEPT ![t] = 0]
  /\ UNCHANGED <<tail, budget, next, prev, queue>>

\* The loop ends, and with it Lock; Reacquire's caller takes a whole budget.
Win(t, from) ==
  /\ Enter(t, from)
  /\ budget' = [budget EXCEPT ![t] = IF @ = 0 THEN InitialBudget(Cohort(t)) ELSE @]

\* The first word the loop looks at: in the remote cohort's RDMA read of the
\* whole lock, too, the other tail comes before the victim.
ReadTail(t) ==
  /\ \/ tail[Other(t)] = None /\ Win(t, "readtail")
     \/ /\ tail[Other(t)] # None
        /\ Goto(t, "readtail", "readvictim")
        /\ UNCHANGED <<budget, bypass>>
  /\ UNCHANGED <<tail, victim, next, prev, queue>>

ReadVictim(t) ==
  /\ \/ victim # Cohort(t) /\ Win(t, "readvictim")
     \/ /\ victim = Cohort(t)
        /\ Goto(t, "readvictim", "readtail")
        /\ UNCHANGED <<budget, bypass>>
  /\ UNCHANGED <<tail, victim, next, prev, queue>>

-----------------------------------------------------------------------------
(***************************************************************************)
(* Unlock                                                                  *)
(***************************************************************************)
\* LocalUnlock looks for a successor first, RemoteUnlock does not.
ReadNext(t) ==
  /\ Goto(t, "cs", IF t \in RemoteThreads \/ next[t] = None THEN "castail" ELSE "handover")
  /\ UNCHANGED <<tail, victim, budget, next, prev, queue, bypass>>

\* The compare-and-swap of the tail from this descriptor to 0.
CasTail(t) ==
  LET c == Cohort(t) IN
  \/ /\ tail[c] = t
     /\ tail' = [tail EXCEPT ![c] = None]
     /\ Return(t, "castail")
     /\ UNCHANGED <<victim, budget, next, prev, bypass>>
  \/ /\ tail[c] # t
     /\ Goto(t, "castail", "waitnext")
     /\ UNCHANGED <<tail, victim, budget, next, prev, queue, bypass>>

\* while (next == nullptr)
AwaitNext(t) ==
  /\ Goto(t, "waitnext", "handover")
  /\ next[t] # None
  /\ UNCHANGED <<tail, victim, budget, next, prev, queue, bypass>>

\* The write of the successor's budget; LocalUnlock then clears its own next,
\* which only its owner reads.
HandOver(t) ==
  /\ Return(t, "handover")
  /\ budget' = [budget EXCEPT ![next[t]] = budget[t] - 1]
  /\ next' = IF t \in LocalThreads THEN [next EXCEPT ![t] = None] ELSE next
  /\ UNCHANGED <<tail, victim, prev, bypass>>

-----------------------------------------------------------------------------
Step(t) ==
  \/ SwapTail(t) \/ LinkPrev(t) \/ Spin(t)
  \/ SetVictim(t) \/ ReadTail(t) \/ ReadVictim(t)
  \/ ReadNext(t) \/ CasTail(t) \/ AwaitNext(t) \/ HandOver(t)

Next == \E t \in Threads : Lock(t) \/ Step(t)

\* Threads spin and are not stopped; critical sections end.
Spec == Init /\ [][Next]_vars /\ \A t \in Threads : WF_vars(Step(t))

-----------------------------------------------------------------------------
(***************************************************************************)
(* Properties                                                              *)
(***************************************************************************)
Owning == {"cs", "castail", "waitnext", "handover"}

\* At most one thread of both cohorts has the lock, from the return of Lock to
\* the write that hands it over, and it is the first of its cohort's queue:
\* a cohort that reacquires keeps its flag up and still lets the other in
\* alone.
MutualExclusion ==
  \A t \in Threads : pc[t] \in Owning =>
    /\ queue[Cohort(t)][1] = t
    /\ \A u \in Threads \ {t} : pc[u] \notin Owning

\* While a thread waits for its cohort in Peterson's loop, the other cohort
\* enters at most as often as its budget allows, however its threads pass the
\* lock on, leave the queue empty and come back.
BoundedBypass ==
  \A t \in Threads : bypass[t] <= InitialBudget(Other(t))

\* Everyone who has swapped itself into a queue gets the lock, although both cohorts wait for
\* the other's tail and an Unlock waits for a successor to link itself.
QueuedEnters ==
  \A t \in Threads :
    (pc[t] \in {"link", "spin", "setvictim", "readtail", "readvictim"}) ~> (pc[t] = "cs")
=============================================================================
