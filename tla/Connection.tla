------------------------------ MODULE Connection ------------------------------
(***************************************************************************)
(* How the processes of a cluster connect, Manager::InitMemoryPool with    *)
(* Listener and Connector (src/include/rdma/), up to the first messages    *)
(* that Benchmark sends over the new queue pairs.  A node connects to all  *)
(* nodes with larger identifiers, over one TCP socket each, once per       *)
(* memory pool; a listener thread serves those with smaller ones.          *)
(*                                                                         *)
(* Node 0 may be killed and restarted while it connects.                   *)
(***************************************************************************)
EXTENDS Naturals, Sequences, FiniteSets

CONSTANTS
  N,              \* available_nodes
  PoolCounts,     \* the values of local_pools that are tried
  LockHosts,      \* lock_hosts of the selective distribution
  Distributions,  \* the values of "distribution" that are tried
  MaxRestarts     \* bound: how often node 0 is restarted

ASSUME ConnectionAssumption ==
  /\ N \in Nat \ {0} /\ PoolCounts \subseteq Nat \ {0} /\ MaxRestarts \in Nat
  /\ LockHosts \in 1..N /\ Distributions \subseteq {"uniform", "selective"}

Nodes == 0..(N - 1)
Incarnations(n) == 0..(IF n = 0 THEN MaxRestarts ELSE 0)
Sockets == {s \in Nodes \X (0..MaxRestarts) \X Nodes : s[1] < s[3] /\ s[2] \in Incarnations(s[1])}

VARIABLES
  dist,          \* the distribution in use
  local_pools,   \* the memory pools of each node
  inc,           \* inc[n]: the incarnation of node n's process
  phase,         \* phase[n]: where InitMemoryPool, then Benchmark, is
  at,            \* at[n]: the <<node, pool>> of the connector's loops
  sock,          \* sock[s]: "none", "backlog", "accepted" or "closed"
  hungup,        \* hungup[s]: how the client's end was closed: "no", "fin", "rst"
  toServer,      \* toServer[s], toClient[s]: ConnectionContexts under way
  toClient,
  qp,            \* the queue pairs: state and dest_qp_num, by name
  lpc,           \* lpc[n]: where the listener thread is
  ready,         \* ready[n]: what its last select found and it has yet to handle
  serving,       \* serving[n]: the socket and queue pair it is replying about
  connected,     \* connected_clients_ of the listener
  admitted,      \* clients_ of the listener, by client id
  clients,       \* clients of InitMemoryPool, by client id
  target_map,    \* target_map[n][i]: that of pool i, by node
  calls          \* calls[n][m]: the calls of Send and Receive with m that n has yet to make

config == <<dist, local_pools>>
connVars == <<sock, hungup, toServer, toClient>>
listenerVars == <<lpc, ready, serving, connected, admitted>>
vars == <<config, inc, phase, at, connVars, qp, listenerVars, clients, target_map, calls>>

PoolIds == 0..(local_pools - 1)

\* The id that a client sends, and the key of both client maps
ClientId(n, i) == n * local_pools + i
NoQp == [node |-> N, with |-> 0, inc |-> 0]
NoServing == [sock |-> <<>>, qp |-> NoQp]
\* A map with one entry, and two maps merged, the entries of the first preferred.
Single(k, v) == [x \in {k} |-> v]
Merge(f, g) == [x \in DOMAIN f \cup DOMAIN g |-> IF x \in DOMAIN f THEN f[x] ELSE g[x]]

Find(f, id) == IF id \in DOMAIN f THEN f[id] ELSE NoQp

Send == "send"
Receive == "receive"

-----------------------------------------------------------------------------
(***************************************************************************)
(* Mistakes that the code could contain; none is part of Next.             *)
(***************************************************************************)
\* The number of sockets is expected, not that of queue pairs.
ExpectSockets(n) == n

\* The node with the larger identifier sends first.
LargerSendsFirst(n, i) ==
  IF i = n THEN <<>> ELSE IF i < n THEN <<Send, Receive>> ELSE <<Receive, Send>>

\* Node and pool change places in the key of the listener's map.
KeySwapped(n, i) ==
  [m \in Nodes |->
    CASE m < n -> Find(admitted[n], i * local_pools + m)
      [] m = n -> [node |-> n, with |-> ClientId(n, i), inc |-> inc[n]]
      [] m > n -> Find(clients[n], ClientId(m, i))]

\* A client that comes back is counted again.
CountAgain(n, id) == connected[n]

-----------------------------------------------------------------------------
\* The calls before Run, with each peer (ExchangeLockTable or the selective loops) ...
Meet(n, i) ==
  IF i = n THEN <<>> ELSE IF i > n THEN <<Send, Receive>> ELSE <<Receive, Send>>

Exchange(n) ==
  [i \in Nodes |->
    CASE dist = "uniform" -> Meet(n, i)
      [] dist # "uniform" /\ n < LockHosts -> IF i >= LockHosts THEN <<Send>> ELSE <<>>
      [] OTHER -> IF i < LockHosts THEN <<Receive>> ELSE <<>>]

\* ... and the first ones after it, with which TallyResults synchronizes
Synchronize(n) ==
  [i \in Nodes |->
    CASE n = 0 /\ i # 0 -> <<Receive>>
      [] n # 0 /\ i = 0 -> <<Send>>
      [] OTHER -> <<>>]

\* The nodes whose locks the threads of n use
Accessed(n) ==
  CASE dist = "uniform" -> Nodes
    [] dist # "uniform" /\ n < LockHosts -> {n}
    [] OTHER -> 0..(LockHosts - 1)

Init ==
  /\ dist \in Distributions /\ local_pools \in PoolCounts
  /\ inc = [n \in Nodes |-> 0]
  /\ phase = [n \in Nodes |-> "down"]
  /\ at = [n \in Nodes |-> <<n, 0>>]
  /\ sock = [s \in Sockets |-> "none"]
  /\ hungup = [s \in Sockets |-> "no"]
  /\ toServer = [s \in Sockets |-> <<>>] /\ toClient = [s \in Sockets |-> <<>>]
  /\ qp = <<>>
  /\ lpc = [n \in Nodes |-> "off"]
  /\ ready = [n \in Nodes |-> {}]
  /\ serving = [n \in Nodes |-> NoServing]
  /\ connected = [n \in Nodes |-> 0]
  /\ admitted = [n \in Nodes |-> <<>>]
  /\ clients = [n \in Nodes |-> <<>>]
  /\ target_map = [n \in Nodes |-> <<>>]
  /\ calls = [n \in Nodes |-> [m \in Nodes |-> <<>>]]

\* Listener's constructor gets this number.
ExpectedClients(n) == local_pools * n

\* CreateQp and ConnectQp: INIT, RTR with the peer's number, then RTS
Created(q) == Merge(qp, Single(q, [state |-> "RESET", dest |-> NoQp]))
ConnectQp(qps, q, ctx) == Merge(Single(q, [state |-> "RTS", dest |-> ctx.qp]), qps)

-----------------------------------------------------------------------------
(***************************************************************************)
(* The main thread: InitMemoryPool with Connector.                         *)
(***************************************************************************)
\* The socket to node m of the running process of n
Socket(n, m) == <<n, inc[n], m>>
Peer(n) == at[n][1]

\* The next pair of the two loops; behind the last node there is nothing.
Advance(n, k) ==
  /\ at' = [at EXCEPT ![n] = IF k[2] + 1 < local_pools THEN <<k[1], k[2] + 1>> ELSE <<k[1] + 1, 0>>]
  /\ phase' = [phase EXCEPT ![n] = IF at'[n][1] = N THEN "wait" ELSE "connect"]

\* Listener::Start, before the loops
Start(n) ==
  /\ phase[n] = "down"
  /\ lpc' = [lpc EXCEPT ![n] = "listening"]
  /\ Advance(n, <<n, local_pools - 1>>)
  /\ UNCHANGED <<config, inc, connVars, qp, ready, serving, connected, admitted, clients, target_map, calls>>

\* Connect: a socket that is already connected is used again; otherwise connect
\* is retried, with a growing pause, until the peer listens.
Connect(n) ==
  LET s == Socket(n, Peer(n)) IN
  /\ phase[n] = "connect"
  /\ phase' = [phase EXCEPT ![n] = "send"]
  /\ \/ sock[s] # "none" /\ UNCHANGED sock
     \/ /\ sock[s] = "none" /\ lpc[Peer(n)] \in {"listening", "reply"}
        /\ sock' = [sock EXCEPT ![s] = "backlog"]
  /\ UNCHANGED <<config, inc, at, hungup, toServer, toClient, qp, listenerVars, clients, target_map, calls>>

\* ... a queue pair is created and its number sent ...
ClientQp(n) == [node |-> n, with |-> ClientId(Peer(n), at[n][2]), inc |-> inc[n]]

SendContext(n) ==
  LET ctx == [id |-> ClientId(n, at[n][2]), qp |-> ClientQp(n)] IN
  /\ phase[n] = "send"
  /\ phase' = [phase EXCEPT ![n] = "recv"]
  /\ qp' = Created(ClientQp(n))
  /\ toServer' = [toServer EXCEPT ![Socket(n, Peer(n))] = Append(@, ctx)]
  /\ UNCHANGED <<config, inc, at, sock, hungup, toClient, listenerVars, clients, target_map, calls>>

\* ... and connected to the one that the listener names in its reply.
ReceiveContext(n) ==
  LET s == Socket(n, Peer(n)) IN
  /\ phase[n] = "recv" /\ toClient[s] # <<>>
  /\ qp' = ConnectQp(qp, ClientQp(n), Head(toClient[s]))
  /\ toClient' = [toClient EXCEPT ![s] = Tail(@)]
  /\ clients' = [clients EXCEPT ![n] = Merge(Single(ClientQp(n).with, ClientQp(n)), @)]
  /\ Advance(n, at[n])
  /\ UNCHANGED <<config, inc, sock, hungup, toServer, listenerVars, target_map, calls>>

\* SPDLOG_FATAL: the listener has closed the socket without a reply.
ReceiveFails(n) ==
  LET s == Socket(n, Peer(n)) IN
  /\ phase[n] = "recv" /\ toClient[s] = <<>> /\ sock[s] = "closed"
  /\ phase' = [phase EXCEPT ![n] = "fatal"]
  /\ UNCHANGED <<config, inc, at, connVars, qp, listenerVars, clients, target_map, calls>>

\* Who closes a socket: its unread data become a reset at the other end.
HangUp(n) ==
  hungup' = [s \in Sockets |->
    IF s[1] # n \/ s[2] # inc[n] \/ sock[s] = "none" \/ hungup[s] # "no" THEN hungup[s]
    ELSE IF toClient[s] = <<>> THEN "fin" ELSE "rst"]

\* The target map of pool i: clients of the listener, the loopback queue pair,
\* clients of the connector
LoopbackQp(n, i) == [node |-> n, with |-> ClientId(n, i), inc |-> inc[n]]

TargetMap(n, i) ==
  [m \in Nodes |->
    CASE m < n -> Find(admitted[n], ClientId(m, i))
      [] m = n -> LoopbackQp(n, i)
      [] m > n -> Find(clients[n], ClientId(m, i))]

\* Listener::Wait has returned: the pools are made and the caches cleared,
\* which closes the client sockets; the Benchmark constructor goes on.
MakePools(n) ==
  /\ phase[n] = "wait" /\ lpc[n] = "stopped"
  /\ target_map' = [target_map EXCEPT ![n] = [i \in PoolIds |-> TargetMap(n, i)]]
  /\ qp' = Merge([q \in {LoopbackQp(n, i) : i \in PoolIds} |-> [state |-> "RTS", dest |-> q]], qp)
  /\ admitted' = [admitted EXCEPT ![n] = <<>>]
  /\ clients' = [clients EXCEPT ![n] = <<>>]
  /\ HangUp(n)
  /\ phase' = [phase EXCEPT ![n] = "exchange"]
  /\ calls' = [calls EXCEPT ![n] = Exchange(n)]
  /\ UNCHANGED <<config, inc, at, sock, toServer, toClient, lpc, ready, serving, connected>>

\* Node 0 is killed and restarted before it has connected to all nodes.
Restart ==
  /\ phase[0] \in {"connect", "send", "recv"} /\ inc[0] < MaxRestarts
  /\ inc' = [inc EXCEPT ![0] = @ + 1]
  /\ phase' = [phase EXCEPT ![0] = "down"]
  /\ at' = [at EXCEPT ![0] = <<0, 0>>]
  /\ HangUp(0)
  /\ lpc' = [lpc EXCEPT ![0] = "off"]
  /\ qp' = [q \in {q \in DOMAIN qp : q.node # 0} |-> qp[q]]
  /\ clients' = [clients EXCEPT ![0] = <<>>]
  /\ UNCHANGED <<config, sock, toServer, toClient, ready, serving, connected, admitted, target_map, calls>>

-----------------------------------------------------------------------------
(***************************************************************************)
(* The listener thread, HandleConnectionRequests.                          *)
(***************************************************************************)
ListenerFd == <<>>
Incoming(m) == {s \in Sockets : s[3] = m}
AtLoopTop(m) == lpc[m] = "listening" /\ ready[m] = {}

\* All expected clients are connected: close the sockets and return.
Stop(m) ==
  /\ AtLoopTop(m) /\ connected[m] = ExpectedClients(m)
  /\ lpc' = [lpc EXCEPT ![m] = "stopped"]
  /\ sock' = [s \in Sockets |-> IF s \in Incoming(m) /\ sock[s] # "none" THEN "closed" ELSE sock[s]]
  /\ UNCHANGED <<config, inc, phase, at, hungup, toServer, toClient, qp, ready, serving, connected,
                 admitted, clients, target_map, calls>>

\* select finds new sockets (at listener_fd_), data, or the end of a stream.
Readable(m) ==
  {s \in Incoming(m) : sock[s] = "accepted" /\ (toServer[s] # <<>> \/ hungup[s] # "no")}
    \cup (IF \E s \in Incoming(m) : sock[s] = "backlog" THEN {ListenerFd} ELSE {})

Select(m) ==
  /\ AtLoopTop(m) /\ connected[m] # ExpectedClients(m)
  /\ Readable(m) # {}
  /\ ready' = [ready EXCEPT ![m] = Readable(m)]
  /\ UNCHANGED <<config, inc, phase, at, connVars, qp, lpc, serving, connected, admitted, clients,
                 target_map, calls>>

\* One connection is accepted, before the data of the others are looked at.
Accept(m) ==
  /\ lpc[m] = "listening" /\ ListenerFd \in ready[m]
  /\ \E s \in Incoming(m) :
       sock[s] = "backlog" /\ sock' = [sock EXCEPT ![s] = "accepted"]
  /\ ready' = [ready EXCEPT ![m] = @ \ {ListenerFd}]
  /\ UNCHANGED <<config, inc, phase, at, hungup, toServer, toClient, qp, lpc, serving, connected,
                 admitted, clients, target_map, calls>>

\* A client that is already known does not count twice: its count is taken
\* back here and given again with the reply.
WithoutDuplicate(n, id) == IF id \in DOMAIN admitted[n] THEN connected[n] - 1 ELSE connected[n]

\* A client's context arrives: a queue pair is connected to the client's ...
HandleContext(m, s) ==
  LET ctx == Head(toServer[s])
      q   == [node |-> m, with |-> ctx.id, inc |-> s[2]]
  IN
  /\ lpc[m] = "listening" /\ ListenerFd \notin ready[m]
  /\ s \in ready[m] /\ toServer[s] # <<>>
  /\ toServer' = [toServer EXCEPT ![s] = Tail(@)]
  /\ qp' = ConnectQp(qp, q, ctx)
  /\ connected' = [connected EXCEPT ![m] = WithoutDuplicate(m, ctx.id)]
  /\ admitted' = [admitted EXCEPT ![m] = Merge(Single(ctx.id, q), @)]
  /\ serving' = [serving EXCEPT ![m] = [sock |-> s, qp |-> q]]
  /\ lpc' = [lpc EXCEPT ![m] = "reply"]
  /\ UNCHANGED <<config, inc, phase, at, sock, hungup, toClient, ready, clients, target_map, calls>>

\* ... and only then its number is sent back.  A client that is gone answers
\* with a reset.
Reply(m) ==
  LET s == serving[m].sock IN
  /\ lpc[m] = "reply"
  /\ toClient' = [toClient EXCEPT ![s] = Append(@, [id |-> serving[m].qp.with, qp |-> serving[m].qp])]
  /\ hungup' = [hungup EXCEPT ![s] = IF @ = "fin" THEN "rst" ELSE @]
  /\ connected' = [connected EXCEPT ![m] = @ + 1]
  /\ ready' = [ready EXCEPT ![m] = @ \ {s}]
  /\ serving' = [serving EXCEPT ![m] = NoServing]
  /\ lpc' = [lpc EXCEPT ![m] = "listening"]
  /\ UNCHANGED <<config, inc, phase, at, sock, toServer, qp, admitted, clients, target_map, calls>>

\* recv returns 0, or fails where a reset has come (SPDLOG_FATAL).
HandleHangUp(m, s) ==
  /\ lpc[m] = "listening" /\ ListenerFd \notin ready[m]
  /\ s \in ready[m] /\ toServer[s] = <<>>
  /\ \/ /\ sock' = [sock EXCEPT ![s] = "closed"]
        /\ ready' = [ready EXCEPT ![m] = @ \ {s}]
        /\ UNCHANGED lpc
     \/ /\ hungup[s] = "rst"
        /\ lpc' = [lpc EXCEPT ![m] = "fatal"]
        /\ UNCHANGED <<sock, ready>>
  /\ UNCHANGED <<config, inc, phase, at, hungup, toServer, toClient, qp, serving, connected, admitted,
                 clients, target_map, calls>>

ListenerStep(m) ==
  \/ Stop(m) \/ Select(m) \/ Accept(m) \/ Reply(m)
  \/ \E s \in Incoming(m) : HandleContext(m, s) \/ HandleHangUp(m, s)

-----------------------------------------------------------------------------
(***************************************************************************)
(* The first messages, on pool 0.                                          *)
(***************************************************************************)
\* The loops of calls go through the peers upwards.
At(n, call, m) ==
  /\ calls[n][m] # <<>> /\ Head(calls[n][m]) = call
  /\ \A k \in Nodes : k < m => calls[n][k] = <<>>

\* A Send and the Receive it meets
Transfer(n, m) ==
  /\ At(n, Send, m) /\ At(m, Receive, n)
  /\ calls' = [calls EXCEPT ![n][m] = Tail(@), ![m][n] = Tail(@)]
  /\ UNCHANGED <<config, inc, phase, at, connVars, qp, listenerVars, clients, target_map>>

\* The threads run, and when they are joined the results are collected.
Run(n) ==
  /\ phase[n] = "exchange" /\ \A m \in Nodes : calls[n][m] = <<>>
  /\ phase' = [phase EXCEPT ![n] = "run"]
  /\ UNCHANGED <<config, inc, at, connVars, qp, listenerVars, clients, target_map, calls>>

Tally(n) ==
  /\ phase[n] = "run"
  /\ phase' = [phase EXCEPT ![n] = "tally"]
  /\ calls' = [calls EXCEPT ![n] = Synchronize(n)]
  /\ UNCHANGED <<config, inc, at, connVars, qp, listenerVars, clients, target_map>>

MainStep(n) ==
  \/ Start(n) \/ Connect(n) \/ SendContext(n) \/ ReceiveContext(n) \/ ReceiveFails(n)
  \/ MakePools(n) \/ Run(n) \/ Tally(n)

Next ==
  \/ Restart
  \/ \E n \in Nodes : MainStep(n) \/ ListenerStep(n)
  \/ \E n, m \in Nodes : Transfer(n, m)

\* Both threads of a process go on when they can; nothing forces a restart.
Fairness ==
  /\ \A n \in Nodes : WF_vars(MainStep(n)) /\ WF_vars(ListenerStep(n))
  /\ \A n, m \in Nodes : WF_vars(Transfer(n, m))

Spec == Init /\ [][Next]_vars /\ Fairness

-----------------------------------------------------------------------------
(***************************************************************************)
(* Properties.                                                             *)
(***************************************************************************)
Restarted(n) == inc[n] > 0

\* Pool i of n and pool i of m are the two ends of one connection, as far as
\* the queue pairs tell, and both ends are ready.
Linked(n, m, i) ==
  LET q == target_map[n][i][m] IN
  /\ q \in DOMAIN qp /\ qp[q].state = "RTS"
  /\ LET d == qp[q].dest IN
     d \in DOMAIN qp /\ d.node = m /\ qp[d].state = "RTS" /\ qp[d].dest = q

\* Only rnr_retry is infinite: a packet for a queue pair that is not yet ready
\* is retried retry_cnt (7) times, then the sender dies.  No node sends its
\* first message to a peer, or lets its threads use the peer's locks, before
\* the peer's end of the connection is ready, although the listening side has
\* its target map before the connecting side has the reply.
NoEarlyUse ==
  \A n, m \in Nodes : n # m /\ ~Restarted(n) /\ ~Restarted(m) =>
    /\ At(n, Send, m) => Linked(n, m, 0)
    /\ phase[n] = "run" /\ m \in Accessed(n) => \A i \in PoolIds : Linked(n, m, i)

\* InitMemoryPool files each connection under the right pool on both sides:
\* pool i of one node is connected to pool i of the other, by a queue pair of
\* its own, and a node's loopback pair to itself.
PoolsPaired ==
  \A n, m \in Nodes : target_map[n] # <<>> /\ target_map[m] # <<>>
                      /\ ~Restarted(n) /\ ~Restarted(m) =>
    \A i \in PoolIds : Linked(n, m, i) /\ qp[target_map[n][i][m]].dest = target_map[m][i][n]

\* Whenever the listener tests whether all clients are there, it has counted
\* each client id once, and it stops only with all of them, even if a client
\* was restarted and came again.
ClientsCountedOnce ==
  \A m \in Nodes :
    /\ AtLoopTop(m) => connected[m] = Cardinality(DOMAIN admitted[m])
    /\ lpc[m] = "stopped" /\ phase[m] = "wait" =>
         DOMAIN admitted[m] = 0..(ExpectedClients(m) - 1)

\* In whatever order the processes start, all of them get connected, unless
\* one is restarted.
SetUpCompletes == <>(Restarted(0) \/ \A n \in Nodes : phase[n] = "tally")
=============================================================================
