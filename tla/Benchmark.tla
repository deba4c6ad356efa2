------------------------------ MODULE Benchmark ------------------------------
(***************************************************************************)
(* The life of a benchmark process, src/include/benchmark/benchmark.h: it  *)
(* allocates its lock table, exchanges table addresses with the other      *)
(* nodes, runs, has node 0 collect the results and leaves when the others  *)
(* no longer need its memory.  The processes meet only in MemoryPool's     *)
(* Send and Receive, both of which block: Receive posts its buffer when it *)
(* is called, and the NIC retries a Send until there is one (rnr_retry 7). *)
(*                                                                         *)
(* A loop of Send and Receive calls is a sequence of operations, todo,     *)
(* that the process works off from the front.                              *)
(***************************************************************************)
EXTENDS Naturals, Sequences, SequencesExt

CONSTANTS
  N,             \* nodes_, the number of processes
  LockHosts,     \* lock_hosts: in the selective distribution, nodes with locks
  LocksPerNode,  \* locks_per_node
  SharedChunks,  \* the chunks of a node's shared free list
  NThreads,      \* threads_per_node
  SampleNumber,  \* sample_number: latency samples a thread keeps at most
  MaxSamples     \* a bound on the samples of all threads of a process

ASSUME BenchmarkAssumption ==
  /\ N \in Nat \ {0} /\ LockHosts \in 1..N
  /\ SharedChunks \in Nat /\ LocksPerNode \in 1..SharedChunks
  /\ NThreads \in Nat \ {0} /\ SampleNumber \in Nat /\ MaxSamples \in Nat

VARIABLES
  dist,          \* distribution, "uniform" or "selective"
  phase,         \* phase[n]: where the process is
  todo,          \* todo[n]: the Send and Receive calls before its next phase
  wr,            \* wr[n]: the work request of the first of them
  buf,           \* buf[n]: what the last Receive brought
  local_locks,   \* local_locks_, a sequence of pointers; empty until zeroed
  remote_locks,  \* remote_locks_
  sizes,         \* sizes[n][k][j]: latencies_[k][j].Size() after Run
  throughput,    \* throughput_ of node 0, per kind
  latency        \* latency_ of node 0, per kind

vars == <<dist, phase, todo, wr, buf, local_locks, remote_locks, sizes, throughput, latency>>

Nodes == 0..(N - 1)
Kinds == {0, 1}   \* local and remote operations, the first index of counts_
ThreadIds == 1..NThreads
Uniform == dist = "uniform"
IsHost(n) == Uniform \/ n < LockHosts

\* The kinds of operation whose counts node n reports: in the selective
\* distribution the threads of a host use only local locks, others only remote.
Reported(n) == IF Uniform THEN <<0, 1>> ELSE IF n < LockHosts THEN <<0>> ELSE <<1>>

\* Messages are words; a message is written here with what the sender means by
\* it, a Receive with what the receiver takes it for.
Msg(kind, k, j, val) == [means |-> <<kind, k, j>>, val |-> val]
Send(peer, msg) == [op |-> "send", peer |-> peer, msg |-> msg]
Receive(peer, kind, k, j) == [op |-> "receive", peer |-> peer, as |-> <<kind, k, j>>]
Own(kind) == [op |-> "own", as |-> kind]
Word(x) == [word |-> x]
NoMessage == Msg("none", 0, 0, Word(0))

\* for (i = a; i <= b; ++i): the concatenation of Body(i)
For(a, b, Body(_)) ==
  FlattenSeq([i \in 1..(IF a <= b THEN b - a + 1 ELSE 0) |-> Body(a + i - 1)])

-----------------------------------------------------------------------------
(***************************************************************************)
(* Mistakes that the code could contain; none is part of Next.             *)
(***************************************************************************)
\* The addresses of a remote table start one chunk late.
LocksFromNext(ptr) ==
  [j \in 1..LocksPerNode |-> [node |-> ptr.node, chunk |-> ptr.chunk + j]]

\* Both nodes of a meeting send first.
BothSendFirst(n, i, kind, val) ==
  IF i = n THEN <<>> ELSE <<Send(i, Msg(kind, 0, 0, val)), Receive(i, kind, 0, 0)>>

\* The number of samples of a thread is sent only if there are any.
SendSizesIfAny(n, s) ==
  For(0, 1, LAMBDA k : For(1, NThreads, LAMBDA j :
    IF s[k][j] = 0 THEN <<>> ELSE
    <<Send(0, Msg("size", k, j, Word(s[k][j])))>> \o
    [i \in 1..s[k][j] |-> Send(0, Msg("sample", k, j, Word(n)))]))

\* Node 0 leaves out the last sample of each of its threads.
OwnLatenciesButLast(k) ==
  For(1, NThreads, LAMBDA j : For(2, sizes[0][k][j], LAMBDA i : <<<<0, j>>>>))

\* Before leaving a node tells node 0, and node 0 waits for all.
ExitViaNodeZero(n) ==
  IF n = 0 THEN [i \in 1..(N - 1) |-> Receive(i, "exit", 0, 0)]
           ELSE <<Send(0, Msg("exit", 0, 0, Word(0)))>>

-----------------------------------------------------------------------------
\* Manager::InitFreeLists links the chunks of the shared list in address order.
SharedList == [i \in 1..SharedChunks |-> i - 1]

\* AllocateShared takes the first chunk of the list, once per lock.
AllocateLocalLocks(n) ==
  [j \in 1..LocksPerNode |-> [node |-> n, chunk |-> SharedList[j]]]

\* lock + j * chunk_size, for every lock of a remote node
LocksFrom(ptr) ==
  [j \in 1..LocksPerNode |-> [node |-> ptr.node, chunk |-> ptr.chunk + j - 1]]

\* A meeting of n with i: the node with the smaller identifier sends first.
Meet(n, i, kind, val) ==
  LET out == <<Send(i, Msg(kind, 0, 0, val))>>
      in  == <<Receive(i, kind, 0, 0)>>
  IN  CASE i = n -> <<>> [] i > n -> out \o in [] i < n -> in \o out

\* ExchangeLockTable, and the constructor's loops of the selective distribution
Exchange(n) ==
  LET first == AllocateLocalLocks(n)[1] IN
  CASE Uniform -> For(0, N - 1, LAMBDA i : Meet(n, i, "table", first))
    [] ~Uniform /\ IsHost(n) ->
         For(LockHosts, N - 1, LAMBDA i : <<Send(i, Msg("table", 0, 0, first))>>)
    [] OTHER -> For(0, LockHosts - 1, LAMBDA i : <<Receive(i, "table", 0, 0)>>)

\* TallyResults of the other nodes: a word to synchronize, then all counts,
\* then per thread the number of latency samples and the samples.
SendCounts(n) ==
  For(1, Len(Reported(n)), LAMBDA i :
    [j \in ThreadIds |-> Send(0, Msg("count", Reported(n)[i], j, Word(n)))])

SendLatencies(n, s) ==
  For(0, 1, LAMBDA k : For(1, NThreads, LAMBDA j :
    <<Send(0, Msg("size", k, j, Word(s[k][j])))>> \o
    [i \in 1..s[k][j] |-> Send(0, Msg("sample", k, j, Word(n)))]))

\* TallyResults of node 0
ReceiveCounts(n) ==
  For(1, Len(Reported(n)), LAMBDA i :
    [j \in ThreadIds |-> Receive(n, "count", Reported(n)[i], j)])

ReceiveSizes(n) ==
  For(0, 1, LAMBDA k : [j \in ThreadIds |-> Receive(n, "size", k, j)])

TallyResults(n, s) ==
  IF n = 0
  THEN For(1, N - 1, LAMBDA i : <<Receive(i, "sync", 0, 0)>>) \o
       <<Own("counts")>> \o For(1, N - 1, ReceiveCounts) \o
       <<Own("latencies")>> \o For(1, N - 1, ReceiveSizes)
  ELSE <<Send(0, Msg("sync", 0, 0, Word(0)))>> \o SendCounts(n) \o SendLatencies(n, s)

\* ~Benchmark
ExitMeetings(n) == For(0, N - 1, LAMBDA i : Meet(n, i, "exit", Word(0)))

-----------------------------------------------------------------------------
Init ==
  /\ dist \in {"uniform", "selective"}
  /\ phase = [n \in Nodes |-> "start"]
  /\ todo = [n \in Nodes |-> <<>>]
  /\ wr = [n \in Nodes |-> "none"]
  /\ buf = [n \in Nodes |-> NoMessage]
  /\ local_locks = [n \in Nodes |-> <<>>]
  /\ remote_locks = [n \in Nodes |-> <<>>]
  /\ sizes = [n \in Nodes |-> [k \in Kinds |-> [j \in ThreadIds |-> 0]]]
  /\ throughput = [k \in Kinds |-> <<>>]
  /\ latency = [k \in Kinds |-> <<>>]

\* The process enters its next phase once it has made all calls of this one.
Enter(n, from, to, calls) ==
  /\ phase[n] = from /\ todo[n] = <<>>
  /\ phase' = [phase EXCEPT ![n] = to]
  /\ todo' = [todo EXCEPT ![n] = calls]
  /\ UNCHANGED <<dist, wr, buf, remote_locks, throughput, latency>>

\* The constructor: allocate and zero the local locks, exchange the tables.
Construct(n) ==
  /\ Enter(n, "start", "exchange", Exchange(n))
  /\ local_locks' = [local_locks EXCEPT ![n] = IF IsHost(n) THEN AllocateLocalLocks(n) ELSE <<>>]
  /\ UNCHANGED sizes

\* Run: the threads lock and unlock, here and remotely, until they are joined;
\* they have samples only of the kinds of operation that the node performs.
StartRun(n) ==
  /\ Enter(n, "exchange", "run", <<>>)
  /\ UNCHANGED <<local_locks, sizes>>

EndRun(n) ==
  \E s \in [Kinds -> [ThreadIds -> 0..SampleNumber]] :
    /\ \A k \in Kinds \ Range(Reported(n)) : \A j \in ThreadIds : s[k][j] = 0
    /\ MapThenSumSet(LAMBDA x : s[x[1]][x[2]], Kinds \X ThreadIds) <= MaxSamples
    /\ Enter(n, "run", "tally", TallyResults(n, s))
    /\ sizes' = [sizes EXCEPT ![n] = s]
    /\ UNCHANGED local_locks

\* main returns and the Benchmark object is destroyed.
Destroy(n) ==
  /\ Enter(n, "tally", "exit", ExitMeetings(n))
  /\ UNCHANGED <<local_locks, sizes>>

\* The process ends, and its registered memory with it.
Exit(n) ==
  /\ Enter(n, "exit", "gone", <<>>)
  /\ UNCHANGED <<local_locks, sizes>>

-----------------------------------------------------------------------------
At(n, op) == todo[n] # <<>> /\ Head(todo[n]).op = op

\* MemoryPool::Send and Receive post a work request ...
Post(n) ==
  /\ At(n, "send") \/ At(n, "receive")
  /\ wr[n] = "none"
  /\ wr' = [wr EXCEPT ![n] = "posted"]
  /\ UNCHANGED <<dist, phase, todo, buf, local_locks, remote_locks, sizes, throughput, latency>>

\* ... the NICs move a message when both sides have posted theirs ...
Meeting(n, m) ==
  /\ At(n, "send") /\ wr[n] = "posted" /\ Head(todo[n]).peer = m
  /\ At(m, "receive") /\ wr[m] = "posted" /\ Head(todo[m]).peer = n

Deliver(n, m) ==
  /\ Meeting(n, m)
  /\ buf' = [buf EXCEPT ![m] = Head(todo[n]).msg]
  /\ wr' = [wr EXCEPT ![n] = "done", ![m] = "done"]
  /\ UNCHANGED <<dist, phase, todo, local_locks, remote_locks, sizes, throughput, latency>>

\* ... and each side polls its completion and goes on.
SendDone(n) ==
  /\ At(n, "send") /\ wr[n] = "done"
  /\ todo' = [todo EXCEPT ![n] = Tail(@)]
  /\ wr' = [wr EXCEPT ![n] = "none"]
  /\ UNCHANGED <<dist, phase, buf, local_locks, remote_locks, sizes, throughput, latency>>

\* What the caller of Receive does with the word; a number of samples is
\* followed by as many calls of Receive.
ReceiveDone(n) ==
  LET call == Head(todo[n])
      kind == call.as[1]
      k    == call.as[2]
      j    == call.as[3]
      val  == buf[n].val
  IN
  /\ At(n, "receive") /\ wr[n] = "done"
  /\ wr' = [wr EXCEPT ![n] = "none"]
  /\ buf' = [buf EXCEPT ![n] = NoMessage]
  /\ todo' = [todo EXCEPT ![n] =
       (IF kind = "size" THEN [i \in 1..val.word |-> Receive(call.peer, "sample", k, j)] ELSE <<>>)
         \o Tail(@)]
  /\ remote_locks' = IF kind = "table" THEN [remote_locks EXCEPT ![n] = @ \o LocksFrom(val)]
                                       ELSE remote_locks
  /\ throughput' = IF kind = "count" THEN [throughput EXCEPT ![k] = Append(@, <<call.peer, j>>)]
                                     ELSE throughput
  /\ latency' = IF kind = "sample" THEN [latency EXCEPT ![k] = Append(@, <<call.peer, j>>)]
                                   ELSE latency
  /\ UNCHANGED <<dist, phase, local_locks, sizes>>

\* Node 0 adds the counts and latencies of its own threads.
OwnCounts(k) ==
  IF k \in Range(Reported(0)) THEN [j \in ThreadIds |-> <<0, j>>] ELSE <<>>
OwnLatencies(k) == For(1, NThreads, LAMBDA j : [i \in 1..sizes[0][k][j] |-> <<0, j>>])

TallyOwn(n) ==
  /\ At(n, "own")
  /\ todo' = [todo EXCEPT ![n] = Tail(@)]
  /\ \/ /\ Head(todo[n]).as = "counts"
        /\ throughput' = [k \in Kinds |-> throughput[k] \o OwnCounts(k)]
        /\ UNCHANGED latency
     \/ /\ Head(todo[n]).as = "latencies"
        /\ latency' = [k \in Kinds |-> latency[k] \o OwnLatencies(k)]
        /\ UNCHANGED throughput
  /\ UNCHANGED <<dist, phase, wr, buf, local_locks, remote_locks, sizes>>

Step(n) ==
  \/ Construct(n) \/ StartRun(n) \/ EndRun(n) \/ Destroy(n) \/ Exit(n)
  \/ Post(n) \/ SendDone(n) \/ ReceiveDone(n) \/ TallyOwn(n)

Next ==
  \/ \E n \in Nodes : Step(n)
  \/ \E n, m \in Nodes : Deliver(n, m)

\* A process that can go on does, a message whose receiver waits arrives.
Fairness ==
  /\ \A n \in Nodes : WF_vars(Step(n))
  /\ \A n, m \in Nodes : WF_vars(Deliver(n, m))

Spec == Init /\ [][Next]_vars /\ Fairness

-----------------------------------------------------------------------------
(***************************************************************************)
(* Properties.                                                             *)
(***************************************************************************)
\* While the threads of a node run, its remote table lists each lock of the
\* other lock hosts once, each allocated and zeroed by its owner, although
\* only the address of the first lock is exchanged.
TablesComplete ==
  \A n \in Nodes : phase[n] = "run" =>
    LET hosts == {m \in Nodes \ {n} : Uniform \/ (IsHost(m) /\ ~IsHost(n))} IN
    /\ Range(remote_locks[n]) = UNION {Range(local_locks[m]) : m \in hosts}
    /\ \A m \in hosts : Len(local_locks[m]) = LocksPerNode
    /\ IsInjective(remote_locks[n])

\* The destructor synchronizes "because other nodes may still access the local
\* memory via RDMA": no process ends while another one still has to run or is
\* running, and none is still waiting for one that has ended.
NoUseAfterExit ==
  \A n, m \in Nodes : phase[n] = "gone" =>
    /\ phase[m] \in {"exit", "gone"}
    /\ \A i \in DOMAIN todo[m] : todo[m][i].peer = n => i = 1 /\ wr[m] = "done"

\* Messages carry no type.  Each Receive is met by the Send its caller has in
\* mind: a count is not taken for a number of samples, nor the count of one
\* thread for that of another.
MessagesMatch ==
  \A n, m \in Nodes : Meeting(n, m) => Head(todo[n]).msg.means = Head(todo[m]).as

\* When node 0 has tallied, it has the count of every thread that reports one,
\* once, and all latency samples that the threads kept.
TallyComplete ==
  phase[0] \in {"exit", "gone"} => \A k \in Kinds :
    LET reporters == {n \in Nodes : k \in Range(Reported(n))} IN
    /\ Range(throughput[k]) = reporters \X ThreadIds
    /\ IsInjective(throughput[k])
    /\ \A n \in Nodes : \A j \in ThreadIds :
         Len(SelectSeq(latency[k], LAMBDA x : x = <<n, j>>)) = sizes[n][k][j]

\* The blocking calls of all processes fit together: everyone gets through.
Termination == <>(\A n \in Nodes : phase[n] = "gone")
=============================================================================
