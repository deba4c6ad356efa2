# Verification of FARLock

TLA+ specifications, TLC model checks and TLAPS proofs for this repository: a
family of locks for clusters with RDMA and the benchmark that drives them. Paths
are relative to the repository root.

## 1. The system

A run of the benchmark is one process per node. The processes connect their
memory pools with each other. Every node owns a table of locks in memory that it
registers for RDMA, learns the addresses of the other nodes' tables, and starts
threads; each thread picks a local or a remote lock, calls `Lock`, spins through a
critical section and calls `Unlock`. A lock is *local* to the threads of its home
node, who reach it with CPU instructions, and *remote* to the others, who reach
it with RDMA. The two kinds of atomic instruction are not atomic with respect to
each other; this is what the locks are about.

| Part | Source | State | Operations | Status |
|---|---|---|---|---|
| FARLock | `src/include/locks/farlock.h`, `common.h` | two tails, two flags, victim, two tickets per lock; two descriptors per thread | `Lock`, `Unlock` (local and remote), `IsLocked` | modelled, checked, proved |
| FARLockG | `src/include/locks/farlockg.h` | the same, with budgets and batch tickets | the same | modelled, checked, proved |
| ALock | `src/include/third_party/locks/a_lock.h` | two MCS queues with budgets, victim | `Lock`, `Unlock`, `Reacquire` | modelled, checked, proved |
| RDMA MCS lock | `src/include/third_party/locks/rdma_mcs_lock.h` | one tail; `locked` and `next` per thread | `Lock`, `Unlock` | modelled, checked, proved |
| RDMA ticket lock | `src/include/locks/rdma_ticket_lock.h` | ticket, turn | `Lock`, `Unlock` | modelled, checked, proved |
| RDMA spin lock | `src/include/third_party/locks/rdma_spin_lock.h` | one word | `Lock`, `Unlock` | modelled, checked, proved |
| Memory pool | `src/include/rdma/memory_pool.h` | ring of local buffers, work requests, free list | the one-sided operations, `Send`, `Receive`, `Allocate`, `Free` | modelled, checked, one-sided operations proved |
| Manager | `src/include/rdma/manager.h` | memory region, shared free list, target maps | `InitMemoryRegion`, `InitFreeLists`, `InitMemoryPool`, `AllocateShared`, `FreeShared` | partly |
| Connection set-up | `src/include/rdma/listener.h`, `connector.h` | sockets, contexts, connected clients | accept, connect with retries, exchange | modelled, checked, proved |
| Queue pairs | `src/include/rdma/utils.h` | state and destination | `CreateQp`, `ConnectQp` | partly |
| Benchmark | `src/include/benchmark/benchmark.h` | lock tables, phase, counts and samples | constructor, `Run`, `TallyResults`, destructor | life cycle modelled, checked |
| Results | `src/include/benchmark/result.h` | reservoir of samples | statistics | not modelled |
| Pointers, configuration, logging, adapters, generators, main programs, scripts | `pointer.h`, `config.h`, `logging.h`, `remus/`, `foedus/`, `src/benchmark/`, `src/scripts/` | none that a second actor sees | | not modelled |

How the parts interact: the manager cuts its region into a shared free list and
one list per memory pool, and connects pool *i* of every node to pool *i* of every
other. The benchmark allocates locks from the shared list, exchanges their
addresses through `Send` and `Receive` of the memory pool, and gives every thread a
lock handler that owns descriptors in its pool. Threads meet only in the words of
locks and descriptors; processes meet there, in the messages of the benchmark
and, before that, in the contexts they exchange over TCP.

What is hard here, and should be right:

- *FARLock*: a CPU and an RDMA fetch-and-add must never overlap on one ticket
  word; the 16-byte RDMA operations are not atomic; predecessor and successor
  must not miss each other; descriptors are reused for every operation, on every
  lock. It should exclude, serve each cohort in arrival order, let the other
  cohort pass a waiting thread at most once per turn, lose no wakeup, and answer
  `IsLocked`, which loads two words that change meanwhile, as well as it can.
- *FARLockG*: in addition Peterson's section and the ticket travel down the queue,
  and the batch must end with its budget and leave the turn in order.
- *ALock*: a cohort whose budget is used up runs Peterson's algorithm again while
  its flag, the tail of its queue, stays up.
- *MCS, ticket and spin lock*: exclusion; order of arrival for the first two,
  also when words wrap around; progress of some thread for the third.
- *One-sided operations*: a loop of compare-and-swaps must look like one swap, and
  an RDMA atomic like one step, although it is not atomic with respect to the plain
  write that unlocks a spin lock.
- *Free lists*: links lie in memory that callers overwrite; chunk sizes and shares
  are rounded and truncated, and nothing checks that the lists fit the region.
- *Connection set-up*: everybody connects to somebody and waits for somebody else;
  a node may be restarted meanwhile; one end of a connection is ready before the
  other knows.
- *Benchmark*: blocking pairwise exchanges must not deadlock, an untagged stream
  of words must be read as it was meant, and memory must outlive its last user.

`PROJECT.json` lists each hazard with its line and the properties that cover it.

## 2. Modules

| Module | Models |
|---|---|
| `FairLock` | the promise of the queueing locks: a waiting line per lock, whose front may hold it |
| `FARLock` | `FARLockHandler`; the safety and liveness properties, the mapping to `FairLock` |
| `FARLockInv` | the inductive invariant `IInv` |
| `FARLockProofs` | the proof of `IInv`, of what follows from it, of order and bypass, that FARLock implements `FairLock`, and of what `IsLocked` answers |
| `FARLockIsLocked` | a call of `IsLocked` beside the threads of `FARLock` |
| `MCFARLock`, `MCFARLockG`, `MCFARLockIsLocked` | instances for TLC: two nodes, threads `a*` on the lock's home node, `b*` on the other |
| `FARLockG` | `FARLockGHandler` |
| `FARLockGInv` | its inductive invariant: `QInv` for the queues, `BInv` for what travels along them |
| `FARLockGSteps`, `FARLockGProofs` | the proofs of `QInv` and of `BInv`, with the theorems that follow from each |
| `ALock`, `ALockProofs` | `ALockHandle`; exclusion and bounded bypass |
| `RdmaMcsLock`, `RdmaMcsLockProofs` | the MCS lock; the safety of its descriptors and the safety part of `FairLock` |
| `RdmaTicketLock`, `RdmaSpinLock` | the two locks that are polled words |
| `RdmaWordLocks`, `RdmaTicketSpinProofs` | a benchmark with one or the other of them; the proofs about both |
| `Queues` | the sequence operator that the histories of `ALock` and `RdmaMcsLock` share |
| `AtomicWords` | what callers of the one-sided operations rely on: each acts at one instant |
| `Verbs`, `VerbsProofs` | `Read`, `Write`, `CompareAndSwap`, `FetchAndAdd`, `Exchange` of `MemoryPool` with requests, completions and local buffers; the proof that they implement `AtomicWords` |
| `FreeLists` | the memory region, its lists and all allocation functions |
| `Connection` | `InitMemoryPool` of all nodes with `Listener` and `Connector`, up to the first use of each queue pair |
| `ConnectionInv`, `ConnectionProofs` | its inductive invariant; the count of clients, the pairing of pools, no early use |
| `Benchmark` | one process per node from construction to exit, with `Send`/`Receive` |

**Correspondence: locks.** In the lock modules one step is one access to memory
that another thread can reach; `pc[t]` names the access that comes next. Descriptor
fields are functions of cohort and thread, named as in the code without the
trailing underscore. A step that the local and the remote path share is one
action (the code has one function for each), `Coh(t)` says which path it is on.
`Lock` resets the descriptor in one step: nobody else reaches it then, which
`NoStaleAccess` checks. An RDMA verb returns after its completion, so it is
synchronous; a 16-byte read or write is two steps, a remote fetch-and-add is a
read and a write (it is atomic only towards other RDMA atomics), and
`MemoryPool::Exchange`, a loop of compare-and-swaps, is one swap at the last of
them. That an operation on one word may be taken as one step, and the loop as one
swap, is what `Verbs` shows. Memory is sequentially consistent. Locks start
zeroed, as `AllocateLocalLocks` leaves them.

In `ALock` a thread belongs to one cohort and there is one lock. The handle keeps
a descriptor for each cohort and resets it in every `Lock`, and the two queues meet
only in the tails and the victim, so that a second lock adds nothing to them.

`IsLocked` of FARLock is an observer: it writes nothing that the threads read. Its
two loads are two steps in either order, because the CPU's loads are plain ones and
the RDMA read is not atomic. `SameWord` says which two descriptors, of threads on
different nodes, have addresses that are equal as numbers: `IsLocked` compares a
pointer to memory of one process, with the node in its upper bits, with an address
in another, and for node 0 these can be the same.

History variables (`arrivals`, `staying`, `used`, `pos`, `served`, `seen`, `uses`, `queue`, `bypass` and
the like) are only written by the model and read by properties.

**Correspondence: memory.** In `Verbs` a call takes the next local buffer and posts
a request (`Post`), the network cards carry it out, the thread polls the completion
and takes its result from the buffer, or posts the next round of an `Exchange`. A
read or write of one word is one step (`Execute`). RDMA atomics are atomic with
respect to each other, not to writes: they are two steps, `Fetch` and `Store`, that
exclude only other atomics on the word. There are three kinds of words, as the
callers use them: words for `Write`, words for the atomics, and the words of
`rdma_spin_lock.h`, which `Lock` compares-and-swaps from `UNLOCKED` to `LOCKED` and
`Unlock`, called by the thread whose compare-and-swap succeeded, writes.

In `FreeLists` the manager computes chunk size and shares and links the lists; pools
then take their local buffers and callers allocate and free in any order. The
link of a free chunk is its first word, which holds the caller's data while the
chunk is in use. The code links as many chunks as it has computed, also if the
lists are longer than the region: then the process crashes, or it uses memory of
somebody else, who may overwrite the links (`OverwriteBehind`), and whoever follows
one of these crashes (`FollowGarbage`).

**Correspondence: processes.** In `Connection` each node has a main thread, which
connects to all larger nodes once per pool over one socket each, and a listener
thread, which handles the sockets that its last `select` found ready, in any order.
Sockets are reliable and ordered; a context is one message. Node 0 may be killed
and started again while it connects. The model goes on to the first `Send` of the
benchmark and to the start of the threads, because it matters whether the peer's
queue pair is ready then. In `Benchmark` the loops of `Send` and `Receive` calls are
sequences of operations that a process works off from the front; a `Send` completes
when the peer has posted a `Receive` (`rnr_retry` 7 retries for ever). Every message
carries what its sender means by it, every receive what its caller takes it for.

## 3. Runs

| Run | Instance | Shows |
|---|---|---|
| `one_lock` | FARLock: 2 local threads, 1 remote, 1 lock, 2 operations each | safety, `IInv`, refinement of `FairLock` |
| `is_locked` | FARLock: 2 local threads, 1 remote, 1 operation each, and calls of `IsLocked`; the descriptors of one pair of threads have equal addresses | what true and false mean while threads come and go |
| `live` | FARLock: 2 local threads, 1 remote, under fairness | no lost wakeup, `Unlock` returns |
| `group_one_lock` | FARLockG: 2 remote threads (budget 2), 1 local (budget 1), 2 operations each | safety over batches and single tickets in turn, entries per ticket, order of arrival |
| `group_live` | FARLockG: 2 local threads (budget 2), 1 remote (budget 1), under fairness | batches are handed on, end and let the other cohort in |
| `a_lock` | ALock: 2 local threads (budget 2), 2 remote (budget 1), any number of operations | exclusion, a waiting cohort is passed at most a budget's number of times, nobody starves |
| `word_locks` | the ticket lock with words modulo 4, or the spin lock: 3 threads, 2 locks, any number of operations | ticket lock: `FairLock`, and with it exclusion, across wrap-around; spin lock: the word tells the holder, somebody gets in |
| `mcs_lock` | 3 threads, 2 locks, any number of operations | no stale descriptor access; `FairLock`, and with it exclusion |
| `verbs` | 2 threads, 1 plain, 1 atomic and 1 spin lock word of 2 values, 2 local buffers, 2 calls each | `AtomicWords`; every call returns |
| `free_lists` | regions of 4, 10 and 12 words, requests of 1 to 5, 1 or 2 pools, every split into shared and private chunks | which configurations make lists that fit the region; in these no chunk is lost or given twice; local buffers private |
| `connection` | 3 nodes, 1 or 2 pools, both distributions, 1 restart of node 0 | no use before both ends are ready, pools paired, clients counted once, set-up completes |
| `benchmark` | 3 nodes with 2 threads, both distributions, 2 lock hosts in the selective one | tables complete, messages read as meant, tally complete, no use after exit, termination |

All properties hold; each has a mutant of a mapped definition that violates it.

`IsLockedAnswer` is weaker than one might expect of a function of this name. An
answer of true means that a thread used the lock (from its exchange of the tail to
the end of `Unlock`) at one of the two loads. False means that no thread used it
throughout the call; the lock need not have been free at any time, as a thread of
one cohort may come between the loads before the last one of the other goes. False
is also answered if the tails are two descriptors at addresses that are equal as
numbers. Nothing in the repository calls `IsLocked`.

**Bounds.** `MaxOps` bounds the operations of a thread in `FARLock` and `FARLockG`,
where tickets grow without bound. Two operations are what reuse of a descriptor
takes; two threads of one cohort and one of the other are the least with a
queue and a competition for the ticket at once; with a budget of two and a thread
that comes back, a batch is cut off with a successor waiting. Reuse of a
descriptor for two locks is left to the proof (`DescriptorSafety`). When all
operations are done the model stutters (`Done`), so that every other state without
a step is a deadlock and is reported; this also covers lost wakeups in the runs
without fairness, except between threads in Peterson's loop. ALock and the three
simpler locks have finite states without such a bound; `bypass` of `ALock` is
counted only to one past what `BoundedBypass` allows.

`verbs`: with two calls each a thread can lose a round of its `Exchange` to the
other and win the next, a spin lock is taken, tried in vain by the other thread and
unlocked, and the ring of two buffers comes round. `free_lists`: the sizes include a request below, between and above the limits, a region that
the chunk size does not divide, and a chunk of which the last local buffer uses a
part. In the small region a pool's share is rounded up from nothing to one chunk,
and the lists run past the end; `shared_ratio` is assumed to lie between 0 and 1.
`is_locked`: with one operation each, threads of both cohorts can come and go
between the loads. `connection`: three nodes have one that only connects, one that only
listens and one that does both; two pools make a socket carry two contexts;
`LockHosts` is 2 of 3, so that the selective distribution has both kinds of nodes.
`benchmark`: `MaxSamples` bounds the latency samples of a process to one, of any
thread and kind; the other threads then report none, which is the case that an
untagged stream makes hard.

Where a program may stop, deadlock is not checked: the benchmark's processes and
the connecting ones end (`Termination` and `SetUpCompletes` say how), callers of the
memory pool need not call again (`CallsReturn`), and `Manager` may refuse a
configuration. Symmetry is used only for threads of one node and only in runs
without liveness.

**Fairness.** Weak fairness of each thread's steps inside `Lock` and `Unlock`: a
thread is an operating system thread on a core of its own that is never
stopped, and the critical section of the benchmark is a bounded spin. No
fairness is assumed of the calls of `Lock`. Weak fairness is enough because every
wait is for a word that keeps its value once written, or a loop that alternates
two reads. The swap of a tail by RDMA is a loop of compare-and-swaps, which a
thread might lose for ever; the liveness properties of the queueing locks speak
of threads that have swapped. The network delivers what was posted (`Deliver`,
`Transfer`, `Execute`, `Fetch` and `Store` are weakly fair): connections are reliable and retry. In
`Connection` both threads of a process go on while they can, and nothing forces a
restart. `CallsReturn` is no claim about an `Exchange` among endless competitors:
`MaxCalls` bounds those.

## 4. FairLock

FARLock implements `FairLock` with the ticket holders of a lock, in ticket order,
as the waiting line, and the critical section as `held`. The ticket lock and the
MCS lock implement it with the tickets drawn and the queue from the tail swap on.
The refinement is checked by TLC (`ImplementsFairLock`): its safety for FARLock, with
the promise that the line moves on for the other two. The safety of all three is
also proved (`Fair!Spec`: initial states map to initial states, steps to steps or
to stuttering); that the line moves on is fairness and is only checked.
Mutual exclusion is part of it: if a second thread were in the critical section,
`held` would stay true when the first leaves the line. FARLockG does not implement
`FairLock` in this form, since a ticket stands for a batch; `BatchBound` and
`CohortFIFO` say what it promises instead. Nor does ALock, whose cohorts overtake
each other up to their budgets; `BoundedBypass` says how far.

## 5. What is proved

**FARLock.** For any number of nodes, threads, locks and operations, from the
assumptions that `NodeOf` and `Home` are functions to nodes, `MaxOps` is a natural
number and `None` is not a thread, lock or cohort (`FARLock.tla`):

| Theorem | Statement |
|---|---|
| `Invariance` | `Spec => []IInv` |
| `TypeCorrect` | `Spec => []TypeOK` |
| `Exclusion` | `Spec => []MutualExclusion` |
| `TicketSection` | `Spec => []TicketSectionExclusion` |
| `DescriptorSafety` | `Spec => []NoStaleAccess` |
| `CurrentTicketMovesByOne` | `Spec => CurrentTicketStep` |
| `OrderInvariance` | `Spec => [](OrderInv /\ BypassInv)` |
| `NoTicketLost` | `Spec => []TicketsAccounted` |
| `ServedInArrivalOrder` | `Spec => []CohortFIFO` |
| `PassedAtMostOnce` | `Spec => []BoundedBypass` |
| `FARLockIsFair` | `Spec => ImplementsFairLock` |
| `IsLockedAnswers` | `SpecWithCall => []IsLockedAnswer` |

*Exclusion* follows from distinct tickets: the holder has the current one
(`TicketInv`). Tickets are distinct because they are drawn one at a time. Between
cohorts this is Peterson's algorithm (`PetersonInv`), which is right for two parties
only; so within a cohort there must be one drawing thread, the one whose arrival
number is `served` (`ServedInv`). That needs the queue: arrival numbers are distinct
(`PosInv`), the tail is the last of them (`TailInv`), `prev` and `next_` are neighbours
(`PrevInv`, `NextInv`), and a descriptor is not reset while a neighbour may still use
it (`ReleaseInv`, `SwapInv`, `HeadInv`). None of these is inductive without the
others; `IInv` is their conjunction and is checked by TLC in `one_lock`.

*Order.* Relative to `IInv`, `OrderInv` is inductive: every ticket between current
and next is in some thread's hands (`TicketsHeld`), and within a cohort tickets
follow arrival. A draw appends the ticket that was next, and its thread is the
first of its cohort without one; a step of `current_ticket_` retires the holder's.
`BoundedBypass` needs `BypassInv`, which looks at pairs: while `t` waits in Peterson's
loop, a thread of the other cohort that is about to draw has seen no draw since
`t` wrote `victim_`, and after a draw its cohort can wait only as the victim.

*FairLock.* Distinct tickets and `TicketsHeld` make the line a sequence of distinct
threads, each at the place its ticket says (`HolderExact`, `LineExact`). A draw is
`Join`, seeing one's ticket come up is `Enter`, moving `current_ticket_` on is `Leave`;
all other steps leave line and `held` alone (`OrderlyStutters`).

*IsLocked.* A tail is a descriptor of a thread that uses the lock by that cohort's
path, or null when there is none (`TailInv`). `CallInv` carries that from the first
load to the second: a descriptor that was found belongs to the loaded cohort, and if
none was found, no thread that has stayed since the call began is of that cohort.
`SameWord` may be any set of pairs of threads on different nodes.

*Layout.* The proof has a frame lemma for each of the four concerns of `IInv` (the
shape of the queues, the order in which a queue draws, Peterson's section, the
tickets), which says what a step must leave alone to keep it. The proof for an
action then argues only about the concerns the action disturbs. The same layout
serves the other locks.

**FARLockG.** For any number of nodes, threads, locks and operations and any
budgets of at least 1 (`BudgetAssumption`, and the assumptions of FARLock):

| Theorem | Statement |
|---|---|
| `QueuesKeepShape` | `Spec => []QInv` |
| `ServedInArrivalOrder` | `Spec => []CohortFIFO` |
| `DescriptorSafety` | `Spec => []NoStaleAccess` |
| `BatchesKeepShape` | `Spec => [](QInv /\ BInv)` |
| `Exclusion` | `Spec => []MutualExclusion` |
| `SectionIsExclusive` | `Spec => []SectionExclusion` |
| `HolderKnowsTurn` | `Spec => []HolderHasTurn` |
| `BatchIsBounded` | `Spec => []BatchBound` |
| `BypassIsBounded` | `Spec => []BoundedBypass` |

These are all the safety properties that the runs check of it. The invariant has
two layers. `QInv` is about the queues alone (types, arrival numbers, tails,
neighbours, reset and release of descriptors) and is inductive by itself: no
budget or ticket moves a thread in its queue. The first of a queue is the one
that nobody precedes or that has been granted (`HeadInv`), which gives the order of
service, and a descriptor stays with its operation until its neighbours are done
with it (`PrevInv`, `NextInv`, `ReleaseInv`), which gives the safety of late writes.

`BInv` is inductive relative to `QInv`. It says what travels along a queue. Only one
thread of a queue may draw or pass on: those behind it are blocked (`OrderInv`).
The batch is a chain of neighbours with one ticket, in which each has one less of
the budget than its predecessor (`ChainInv`, `BudgetInv`); the thread that drew the
ticket is its front, `ticket_valid_` marks its end, and whoever has the same ticket
is of the same batch (`ShareInv`, `ValidInv`). `uses`, the number of entries under the
current ticket, is then what is missing from the holder's budget (`HoldInv`), and
that is `BatchBound`. Exclusion follows from `HeadInv` within a cohort and, between
cohorts, from tickets: both holders would have the current one, but a ticket
belongs to one cohort's batch. It does because tickets are drawn one at a time, by
Peterson's argument, in which the section belongs to whom it has been handed,
noticed or not (`PetersonInv`).
`BoundedBypass` needs `BypassInv`, the same pairwise argument as for FARLock.

**ALock.** For any two disjoint sets of threads and any budgets of at least 1:
`ALockMutualExclusion` (`Spec => []MutualExclusion`) and `ALockBoundedBypass`
(`Spec => []BoundedBypass`). The invariant places every thread of a queue
(`QueueInv`, `TailInv`, `PlaceInv`): only the first has a budget. To have the lock is
to own it or to have been handed a positive budget, seen or not; while a cohort
has it, a thread of the other that races is the victim (`PetersonInv`). `BypassInv` is
an account: what a waiting thread has been passed by, plus the entries that the
other cohort may still make before it must give way (`Credit`), is at most that
cohort's budget.

**MCS lock.** For any number of threads and locks: `McsNoStaleAccess`
(`Spec => []NoStaleAccess`) and `ImplementsFairLockSafety` (`Spec => Fair!Spec`), from
an invariant that places every thread of a queue as in ALock.

**Ticket lock.** For any number of locks, any number `W` of values of a word and any
finite number of threads below `W` (`WordAssumption`): `TicketsAreCounted`
(`Spec => []TInv`) and `ImplementsFairLockSafety` (`Spec => Fair!Spec`). Words wrap
around, so nothing can be said with `<`: `TInv` measures how far a ticket is ahead of
`turn_`, counting upwards and around. As many tickets are out as threads have one,
each thread's is one of them, no two are equal and none is missing. The count is
what keeps the line from biting its tail: with `W` threads a full round of tickets
would look like none. The line of `FairLock` has every thread at the place its
distance says; an `Unlock` moves all of them up by one.

**Spin lock.** `SpinWordTellsHolder`: `SpinLock!Spec => []WordTellsHolder`, for any number of
threads and locks. A holder has its word `LOCKED`, a `LOCKED` word has a holder, and
there is one (`WordInv`).

**Connection set-up.** For any number of nodes and restarts of node 0 and any
positive number of pools per node (`ConnectionAssumption`):

| Theorem | Statement |
|---|---|
| `ListenersCount` | `Spec => []CInv` |
| `EachClientCountsOnce` | `Spec => []ClientsCountedOnce` |
| `EndsAreNamed` | `Spec => [](CInv /\ PInv)` |
| `PoolsArePaired` | `Spec => []PoolsPaired` |
| `CallsAreOrdered` | `Spec => []EInv` |
| `NobodyIsEarly` | `Spec => []NoEarlyUse`, if `LockHosts < N` or the distribution is uniform |

`CInv` follows the connector's loops and the listener's count: the count is the
number of ids in the map, less the one that is being replied to, and these ids are
among the expected ones, because a socket carries only contexts of its client. A
client that comes back after a restart is counted down before it is counted up.
`PInv`, relative to it, follows the request of a pool over its socket: at most one
context of a pair of nodes is under way, and it is asked, being answered or
answered (`Wire`). The listener's end of the pair is connected before the answer is
sent, the client's when its loops have passed the pool (`Filed`), and the target map
picks these pairs (`Target`). Both leave out connections of the restarted node, as
`PoolsPaired` does.

`EInv` is about the first messages. A node is connected to the larger ones when its
own set-up is done, so a `Send` to a larger node is never early. To a smaller one a
node sends only after it has heard from it: in `ExchangeLockTable` the larger node
receives first (`CallInv`, `HeardInv`). The word that a lock host of the selective
distribution sends to node 0 after the run is the hard case, as lock hosts hear
nothing before. They have sent to the first node that is not a lock host, which
receives in the order of identifiers, from node 0 first; so node 0 was ready then
(`HostInv`). Where all nodes are lock hosts this argument, and the property, fails
(section 8), hence the hypothesis.

**Memory pool.** `OperationsAreAtomic`: `Spec => ImplementsAtomicWords`, for any number
of threads, words, values, local buffers and calls, from `VerbsAssumption` (a word
has at least two values, there is a buffer, the three kinds of words are disjoint).
The invariant `IInv` of `Verbs` says that a request under way is the one its
operation asks for (`RequestsMatch`), that words are used as they are meant
(`WordsUsed`), and that a word still holds what an atomic under way has fetched,
unless that fails (`FetchedHolds`). The last is what makes the halves of an atomic one
step. No write reaches an atomic word, and on the word of a spin lock a
compare-and-swap that succeeds has fetched `UNLOCKED`, the only value that is written
there. A read or a write acts when it is carried out, an atomic when it stores, a
compare-and-swap that fails when it fetches; the rounds of an `Exchange` that find
another value than they were given change nothing and map to stuttering.

## 6. What is only model-checked

- Liveness, which is out of the prover's reach: `QueuedEnters`, `UnlockReturns`,
  `SomeoneEnters`, `CallsReturn`, `SetUpCompletes`, `Termination`, and the promise of
  `FairLock` that the line moves on.
- `ChunksAccounted` and `ScratchPrivate` of `FreeLists`, which follow links through a
  recursively defined function.
- The safety of `Benchmark` (`TablesComplete`, `NoUseAfterExit`, `MessagesMatch`,
  `TallyComplete`), whose processes work off sequences that are concatenated from
  any number of parts. What such definitions compute for every input takes
  induction over data, about which the prover cannot argue.

`CurrentTicketStep` and FARLock's `TypeOK` are proved and, being part of what `IInv`
and the refinement say, not checked by runs of their own. The other inductive
invariants (`QInv`, `BInv`, `CInv`, `PInv`, `EInv`, `TInv` and those of ALock and the MCS lock) are
means to the proofs; the runs check the properties that follow from them.

## 7. What could come next

The phase flags and sampling inside `Run`; a proof that FARLockG implements a version
of `FairLock` whose line is one of batches; a proof of `NoUseAfterExit`, which needs
the order of the exit barrier's messages and not what the sequences before it
contain.

## 8. Not modelled

- *Weak memory.* Plain and volatile accesses are taken in program order; the code's
  fences and atomics, and x86, justify most of it, other processors do not.
- *Wrap-around of FARLock's 64-bit tickets*, and the ticket that equals
  `kInvalidTicket`: they need 2^64 acquisitions.
- *A budget of 0* in FARLockG and ALock, which the configuration accepts: the first
  owner would hand on -1, which means "wait". The models assume at least 1.
- *Failures.* An RDMA error, or a system call that fails for reasons outside the
  program, ends the process (`SPDLOG_FATAL`) and nothing recovers. The restart of a
  node is modelled while it connects; the code cannot reconnect later, and the
  properties of the set-up leave out the restarted node.
- *Details of the set-up*: the choice of port and huge pages, interrupted `select`
  calls, a context that arrives in two parts (38 bytes, sent at once; `listener.h:142`
  would end the process), the length of pauses between retries, the attributes of
  queue pairs other than state and peer. `NoEarlyUse` is checked where some node is
  not a lock host; with the selective distribution and all nodes as lock hosts
  nothing is exchanged before the run, and only its length separates the first
  `Send` from the set-up of its peer.
- *Unsignalled writes* (`signaled = false`), which nothing calls.
- *Running out of chunks.* A null result of `Allocate` or `AllocateShared` is no step of
  `FreeLists`.
- *A `shared_ratio` outside 0 to 1*, with which the number of private chunks would be
  converted from a negative number or exceed the region.
- *Results.* Moments, percentiles and a random reservoir in floating point, which
  TLC does not have; only printed figures depend on them.
- *Inside `Run`*: phase flags and which latencies are sampled; any number of samples
  up to the bound may result. Pinning of threads to cores.
- *`IsLocked`* of the ticket and spin locks and of FARLockG, which change nothing and
  which nothing calls; that of FARLockG is the same code as FARLock's.
- *Pointers, adapters, configuration, logging, random generators, main programs,
  scripts*: straight-line code or input and output; their values are constants or
  nondeterministic choices of the models.
