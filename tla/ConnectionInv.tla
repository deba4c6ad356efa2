---------------------------- MODULE ConnectionInv ----------------------------
(***************************************************************************)
(* The inductive invariant of Connection: where the loops are, what the    *)
(* listener has counted, what is under way on a socket, and which queue    *)
(* pairs are connected to which.                                           *)
(***************************************************************************)
EXTENDS Connection, Integers

Connecting == {"connect", "send", "recv"}
Ready == {"exchange", "run", "tally"}

QpNames == [node : Nat, with : Nat, inc : Nat]

\* What a client sends over socket s, and what it gets back.
Contexts(s) == [id : {ClientId(s[1], i) : i \in PoolIds}, qp : QpNames]

TypeOK ==
  /\ local_pools \in Nat \ {0}
  /\ DOMAIN inc = Nodes /\ \A n \in Nodes : inc[n] \in Incarnations(n)
  /\ phase \in [Nodes -> {"down", "wait", "fatal"} \cup Connecting \cup Ready]
  /\ at \in [Nodes -> Nat \X Nat]
  /\ DOMAIN toServer = Sockets /\ DOMAIN toClient = Sockets
  /\ lpc \in [Nodes -> {"off", "listening", "reply", "stopped", "fatal"}]
  /\ connected \in [Nodes -> Int]
  /\ DOMAIN serving = Nodes /\ DOMAIN admitted = Nodes
  /\ DOMAIN clients = Nodes /\ DOMAIN target_map = Nodes

\* The connector's loops: the node in turn is one with a larger identifier, and
\* behind the last node there is nothing.
LoopInv ==
  \A n \in Nodes :
    /\ at[n][2] < local_pools
    /\ phase[n] = "down" => at[n] = <<n, 0>> /\ lpc[n] = "off"
    /\ phase[n] \in Connecting \cup {"fatal"} => n < at[n][1] /\ at[n][1] < N
    /\ phase[n] \in {"wait"} \cup Ready => at[n] = <<N, 0>>
    /\ phase[n] \in Ready => lpc[n] = "stopped"

\* The listener has counted the clients it knows, but for the one it is replying
\* to; those are clients of smaller nodes, of which node 0 has none.
CountInv ==
  \A m \in Nodes :
    /\ DOMAIN admitted[m] \subseteq 0..(ExpectedClients(m) - 1)
    /\ lpc[m] \in {"off", "listening"} => connected[m] = Cardinality(DOMAIN admitted[m])
    /\ lpc[m] = "reply" => connected[m] + 1 = Cardinality(DOMAIN admitted[m])
    /\ lpc[m] \in {"reply", "fatal"} => m # 0
    /\ lpc[m] = "reply" => serving[m].sock \in Incoming(m)
    /\ lpc[m] = "stopped" =>
         /\ connected[m] = ExpectedClients(m)
         /\ phase[m] \notin Ready => DOMAIN admitted[m] = 0..(ExpectedClients(m) - 1)

\* The contexts on a socket are those of its client, which has been started.
ContextInv ==
  \A s \in Sockets :
    toServer[s] \in Seq(Contexts(s)) /\ (s[2] > inc[s[1]] => toServer[s] = <<>>)

CInv == TypeOK /\ LoopInv /\ CountInv /\ ContextInv

-----------------------------------------------------------------------------
\* The queue pair of node a for pool i of node b, in the first incarnation of both
Qp(a, b, i) == [node |-> a, with |-> ClientId(b, i), inc |-> 0]
End(a, b, i) ==
  Qp(a, b, i) \in DOMAIN qp /\ qp[Qp(a, b, i)] = [state |-> "RTS", dest |-> Qp(b, a, i)]

\* The loops of n have passed pool i of node m.
Reached(n, m, i) == m < at[n][1] \/ (m = at[n][1] /\ i < at[n][2])

Served(m, s) == lpc[m] = "reply" /\ serving[m].sock = s

\* Node n waits for the answer of node m, and what it waits for is on its way.
Idle(n, m) ==
  LET s == <<n, 0, m>> IN toServer[s] = <<>> /\ toClient[s] = <<>> /\ ~Served(m, s)

Asked(n, m, i) ==
  LET s == <<n, 0, m>> IN
  /\ toServer[s] = <<[id |-> ClientId(n, i), qp |-> Qp(n, m, i)]>>
  /\ toClient[s] = <<>> /\ ~Served(m, s)

Answering(n, m, i) ==
  LET s == <<n, 0, m>> IN
  /\ toServer[s] = <<>> /\ toClient[s] = <<>> /\ Served(m, s)
  /\ serving[m].qp = Qp(m, n, i) /\ End(m, n, i)

Answered(n, m, i) ==
  LET s == <<n, 0, m>> IN
  /\ toServer[s] = <<>> /\ ~Served(m, s)
  /\ toClient[s] = <<[id |-> ClientId(n, i), qp |-> Qp(m, n, i)]>> /\ End(m, n, i)

\* At most one context of a pair of nodes is under way, and it is about the pool
\* that the loops of the client are at.
Wire(n, m) ==
  \/ Idle(n, m)
  \/ /\ phase[n] \in {"recv", "fatal"} /\ at[n][1] = m
     /\ Asked(n, m, at[n][2]) \/ Answering(n, m, at[n][2]) \/ Answered(n, m, at[n][2])

\* Both maps of clients lead to the right queue pair; the listener's end of it is
\* connected once it is in the map, the other end when the loops have passed it.
Filed(n, m, i) ==
  /\ ClientId(n, i) \in DOMAIN admitted[m] =>
       admitted[m][ClientId(n, i)] = Qp(m, n, i) /\ End(m, n, i)
  /\ Reached(n, m, i) =>
       /\ End(n, m, i) /\ End(m, n, i)
       /\ phase[n] \notin Ready =>
            ClientId(m, i) \in DOMAIN clients[n] /\ clients[n][ClientId(m, i)] = Qp(n, m, i)

\* The target map of pool i of n leads to the right queue pair of m.
Target(n, m, i) ==
  target_map[n][i][m] = Qp(n, m, i) /\ (m <= n => End(n, m, i))

\* All pairs of nodes, the restarted node 0 left out.
PInv ==
  /\ \A n, m \in Nodes : n < m /\ inc[n] = 0 => Wire(n, m)
  /\ \A n, m \in Nodes : n < m /\ inc[n] = 0 => \A i \in PoolIds : Filed(n, m, i)
  /\ \A n \in Nodes : target_map[n] # <<>> => phase[n] \in Ready
  /\ \A n, m \in Nodes : target_map[n] # <<>> /\ inc[n] = 0 /\ inc[m] = 0 =>
       \A i \in PoolIds : Target(n, m, i)

-----------------------------------------------------------------------------
\* The calls with a peer that are left are the rest of those that Exchange or
\* Synchronize gives: in the constructor only ExchangeLockTable sends to a smaller
\* node, and only to one it has received from; TallyResults sends to node 0.
LeftWith(n, m) ==
  /\ calls[n][m] \in {<<>>, <<Send>>, <<Receive>>, <<Send, Receive>>, <<Receive, Send>>}
  /\ calls[n][m] # <<>> => phase[n] \in {"exchange", "tally"}
  /\ calls[n][m] \in {<<Send, Receive>>, <<Receive, Send>>} =>
       phase[n] = "exchange" /\ dist = "uniform"
  /\ calls[n][m] = <<Send, Receive>> => n < m
  /\ calls[n][m] = <<Send>> /\ phase[n] = "exchange" => n < m \/ dist = "uniform"
  /\ calls[n][m] = <<Receive>> /\ phase[n] = "exchange" => LockHosts <= n \/ dist = "uniform"
  /\ calls[n][m] = <<Send>> /\ phase[n] = "tally" => m = 0

CallInv == \A n, m \in Nodes : LeftWith(n, m)

\* n has received what m sends it before the run.
Heard(n, m) ==
  phase[n] \in Ready /\ (phase[n] = "exchange" => calls[n][m] \in {<<>>, <<Send>>})

\* A node that has sent was ready.
HeardInv ==
  \A n, m \in Nodes : n # m /\ m \in Accessed(n) /\ Heard(n, m) => phase[m] \in Ready

\* Node h has received from n, and from all nodes smaller than n.
HeardUpTo(h, n) ==
  phase[h] \in Ready /\ (phase[h] = "exchange" => \A k \in Nodes : k <= n => calls[h][k] = <<>>)

\* n has sent what m awaits before the run.
SentTo(n, m) == phase[n] \in Ready /\ (phase[n] = "exchange" => calls[n][m] = <<>>)

\* In the selective distribution the lock hosts hear nothing before the run, but
\* what they have sent to the first node that is not one came after what node 0
\* has sent to it.
HostInv ==
  dist # "uniform" /\ LockHosts < N =>
    \A n \in Nodes : n < LockHosts /\ SentTo(n, LockHosts) => HeardUpTo(LockHosts, n)

EInv ==
  /\ \A n \in Nodes : phase[n] \in Ready => target_map[n] # <<>>
  /\ DOMAIN calls = Nodes /\ \A n \in Nodes : DOMAIN calls[n] = Nodes
  /\ CallInv /\ HeardInv /\ HostInv
=============================================================================
