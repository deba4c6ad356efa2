-------------------------- MODULE ConnectionProofs ----------------------------
(***************************************************************************)
(* The theorems about Connection, for any number of nodes, pools and       *)
(* restarts of node 0.  CInv is inductive by itself: the listener counts   *)
(* the clients it has admitted.  PInv, relative to it, follows a context   *)
(* from the connector to the listener and back, and says which queue pair  *)
(* each map of clients leads to.  EInv says who has heard from whom when   *)
(* the benchmark exchanges its first messages.                             *)
(***************************************************************************)
EXTENDS ConnectionInv, FiniteSetTheorems, TLAPS

\* A leaf that names no prover is tried with SMT, then with Zenon.
USE SMTT(30), ZenonT(30)

-----------------------------------------------------------------------------
(***************************************************************************)
(* Identifiers, sockets and maps.                                          *)
(***************************************************************************)
LEMMA IdBound ==
  ASSUME NEW k \in Nat, NEW n \in Nat, NEW m \in Nat, n < m, NEW i \in Nat, i < k
  PROVE  n * k + i \in Nat /\ n * k + i < k * m
<1>1. PICK d \in Nat : m = n + 1 + d
  <2>1. m - n - 1 \in Nat /\ m = n + 1 + (m - n - 1)
    OBVIOUS
  <2> QED
    BY <2>1, Zenon
<1>2. k * m = n * k + k + k * d
  BY <1>1
<1>3. k * d \in Nat /\ n * k \in Nat
  OBVIOUS
<1> QED
  BY <1>2, <1>3

\* ClientId tells the pools of all nodes apart.
LEMMA IdInjective ==
  ASSUME TypeOK, NEW a \in Nodes, NEW b \in Nodes, NEW i \in PoolIds, NEW j \in PoolIds,
         ClientId(a, i) = ClientId(b, j)
  PROVE  a = b /\ i = j
<1>1. /\ local_pools \in Nat /\ a \in Nat /\ b \in Nat
      /\ i \in Nat /\ j \in Nat /\ i < local_pools /\ j < local_pools
  BY ConnectionAssumption DEF TypeOK, PoolIds, Nodes
<1>2. a * local_pools + i = b * local_pools + j
  BY Zenon DEF ClientId
<1>3. ~(a < b)
  <2>1. a < b => a * local_pools + i < local_pools * b
    BY <1>1, IdBound, Zenon
  <2>2. b * local_pools = local_pools * b /\ b * local_pools \in Nat /\ a * local_pools \in Nat
    BY <1>1
  <2> QED
    BY <1>1, <1>2, <2>1, <2>2
<1>4. ~(b < a)
  <2>1. b < a => b * local_pools + j < local_pools * a
    BY <1>1, IdBound, Zenon
  <2>2. a * local_pools = local_pools * a /\ a * local_pools \in Nat /\ b * local_pools \in Nat
    BY <1>1
  <2> QED
    BY <1>1, <1>2, <2>1, <2>2
<1>5. a = b
  BY <1>1, <1>3, <1>4
<1>6. a * local_pools \in Nat
  BY <1>1
<1> QED
  BY <1>1, <1>2, <1>5, <1>6

\* A listener expects the clients of the nodes with smaller identifiers.
LEMMA IdExpected ==
  ASSUME TypeOK, NEW n \in Nodes, NEW m \in Nodes, n < m, NEW i \in PoolIds
  PROVE  ClientId(n, i) \in 0..(ExpectedClients(m) - 1)
<1>1. /\ local_pools \in Nat /\ n \in Nat /\ m \in Nat /\ i \in Nat /\ i < local_pools
  BY ConnectionAssumption DEF TypeOK, PoolIds, Nodes
<1>2. local_pools * m \in Nat
  BY <1>1
<1>3. n * local_pools + i \in Nat /\ n * local_pools + i < local_pools * m
  BY <1>1, IdBound, Zenon
<1> QED
  BY <1>2, <1>3 DEF ClientId, ExpectedClients

LEMMA QpInjective ==
  ASSUME TypeOK, NEW a \in Nodes, NEW b \in Nodes, NEW i \in PoolIds,
         NEW c \in Nodes, NEW d \in Nodes, NEW j \in PoolIds, Qp(a, b, i) = Qp(c, d, j)
  PROVE  a = c /\ b = d /\ i = j
<1>1. a = c
  BY Zenon DEF Qp
<1>2. ClientId(b, i) = ClientId(d, j)
  BY Zenon DEF Qp
<1>3. b = d /\ i = j
  BY <1>2, IdInjective
<1> QED
  BY <1>1, <1>3, Zenon

LEMMA SocketOf ==
  ASSUME NEW n \in Nodes, NEW m \in Nodes, n < m, NEW g \in Incarnations(n)
  PROVE  <<n, g, m>> \in Incoming(m)
<1>1. g \in 0..MaxRestarts
  BY ConnectionAssumption DEF Incarnations
<1> QED
  BY <1>1, Zenon DEF Sockets, Incoming

LEMMA SocketParts ==
  ASSUME NEW m \in Nodes, NEW s \in Incoming(m)
  PROVE  /\ s \in Sockets /\ s[3] = m /\ s[1] \in Nodes /\ s[1] < m /\ m # 0
         /\ s[2] \in Incarnations(s[1]) /\ s = <<s[1], s[2], m>>
<1>1. s \in Nodes \X (0..MaxRestarts) \X Nodes /\ s[1] < s[3] /\ s[2] \in Incarnations(s[1]) /\ s[3] = m
  BY Zenon DEF Incoming, Sockets
<1>2. s[1] \in Nodes /\ s = <<s[1], s[2], s[3]>>
  BY <1>1
<1>3. m # 0
  BY <1>1, <1>2 DEF Nodes
<1> QED
  BY <1>1, <1>2, <1>3, Zenon DEF Incoming

\* Map g is map f, but for the entry of k.
Updated(g, f, k, v) ==
  /\ k \in DOMAIN g /\ g[k] = v
  /\ \A x : x \in DOMAIN g <=> x \in DOMAIN f \/ x = k
  /\ \A x \in DOMAIN f : x # k => g[x] = f[x]

LEMMA MergeUpdates ==
  ASSUME NEW f, NEW k, NEW v
  PROVE  Updated(Merge(Single(k, v), f), f, k, v)
<1>1. PICK s : s = Single(k, v)
  BY Zenon
<1>2. DOMAIN s = {k} /\ s[k] = v
  BY <1>1, Zenon DEF Single
<1>3. PICK g : g = Merge(s, f)
  BY Zenon
<1>4. /\ DOMAIN g = {k} \cup DOMAIN f
      /\ g[k] = v /\ \A x \in DOMAIN f : x # k => g[x] = f[x]
  BY <1>2, <1>3, Zenon DEF Merge
<1>5. Updated(g, f, k, v)
  BY <1>4, Zenon DEF Updated
<1> QED
  BY <1>1, <1>3, <1>5, Zenon

LEMMA MergeFirst ==
  ASSUME NEW f, NEW g
  PROVE  /\ DOMAIN Merge(f, g) = DOMAIN f \cup DOMAIN g
         /\ \A x \in DOMAIN f : Merge(f, g)[x] = f[x]
         /\ \A x \in DOMAIN g : x \notin DOMAIN f => Merge(f, g)[x] = g[x]
<1>1. \A x \in DOMAIN f : x \in DOMAIN f \cup DOMAIN g
  BY Zenon
<1>2. \A x \in DOMAIN g : x \in DOMAIN f \cup DOMAIN g
  BY Zenon
<1> QED
  BY <1>1, <1>2, Zenon DEF Merge

-----------------------------------------------------------------------------
(***************************************************************************)
(* What the listeners have counted.                                        *)
(***************************************************************************)
LEMMA LoopFrame ==
  ASSUME TypeOK, LoopInv, NEW n \in Nodes, NEW q, phase' = [phase EXCEPT ![n] = q],
         UNCHANGED <<local_pools, at, lpc>>,
         \/ phase[n] \in Connecting /\ q \in {"send", "recv", "fatal"}
         \/ phase[n] \in {"wait"} \cup Ready /\ q \in Ready /\ lpc[n] = "stopped"
  PROVE  LoopInv'
<1>1. \A u \in Nodes : u # n => phase'[u] = phase[u]
  BY Zenon DEF TypeOK
<1>2. phase'[n] = q
  BY Zenon DEF TypeOK
<1> QED
  BY <1>1, <1>2, Zenon DEF LoopInv, Connecting, Ready

LEMMA CountFrame ==
  ASSUME CountInv, UNCHANGED <<local_pools, lpc, connected, admitted, serving>>,
         \A n \in Nodes : phase[n] \in Ready => phase'[n] \in Ready
  PROVE  CountInv'
BY Zenon DEF CountInv, ExpectedClients

LEMMA ContextFrame ==
  ASSUME TypeOK, ContextInv, UNCHANGED <<local_pools, inc, toServer>>
  PROVE  ContextInv'
BY Zenon DEF ContextInv, Contexts, PoolIds, ClientId

\* The next pair of the loops is one of them, or they are over.
LEMMA AdvanceLoop ==
  ASSUME TypeOK, NEW n \in Nodes, NEW k \in Nat \X Nat, k[1] \in Nodes, n <= k[1],
         k[2] < local_pools, n < k[1] \/ k[2] + 1 = local_pools, Advance(n, k)
  PROVE  /\ at' \in [Nodes -> Nat \X Nat]
         /\ phase' \in [Nodes -> {"down", "wait", "fatal"} \cup Connecting \cup Ready]
         /\ \A u \in Nodes : u # n => at'[u] = at[u] /\ phase'[u] = phase[u]
         /\ phase'[n] \in {"wait", "connect"} /\ at'[n][2] < local_pools
         /\ phase'[n] = "connect" => n < at'[n][1] /\ at'[n][1] < N
         /\ phase'[n] = "wait" => at'[n] = <<N, 0>>
         /\ at'[n] = IF k[2] + 1 < local_pools THEN <<k[1], k[2] + 1>> ELSE <<k[1] + 1, 0>>
<1>1. /\ local_pools \in Nat /\ k[1] \in Nat /\ k[2] \in Nat /\ n \in Nat /\ N \in Nat
      /\ k[1] < N /\ local_pools # 0
  BY ConnectionAssumption DEF TypeOK, Nodes
<1>2. at'[n] = IF k[2] + 1 < local_pools THEN <<k[1], k[2] + 1>> ELSE <<k[1] + 1, 0>>
  BY Zenon DEF Advance, TypeOK
<1>3. /\ \A u \in Nodes : u # n => at'[u] = at[u] /\ phase'[u] = phase[u]
      /\ phase'[n] = IF at'[n][1] = N THEN "wait" ELSE "connect"
  BY Zenon DEF Advance, TypeOK
<1>4. at'[n] \in Nat \X Nat /\ at'[n][2] < local_pools
  BY <1>1, <1>2
<1>5. at' \in [Nodes -> Nat \X Nat]
  BY <1>4, Zenon DEF Advance, TypeOK
<1>6. phase'[n] = "connect" => n < at'[n][1] /\ at'[n][1] < N
  BY <1>1, <1>2, <1>3
<1>7. phase'[n] = "wait" => at'[n] = <<N, 0>>
  <2>1. CASE k[2] + 1 < local_pools
    <3>1. at'[n][1] # N
      BY <1>1, <1>2, <2>1
    <3> QED
      BY <1>3, <3>1, Zenon
  <2>2. CASE ~(k[2] + 1 < local_pools)
    BY <1>2, <1>3, <2>2
  <2> QED
    BY <2>1, <2>2, Zenon
<1>8. phase' \in [Nodes -> {"down", "wait", "fatal"} \cup Connecting \cup Ready]
  BY <1>3, Zenon DEF Advance, TypeOK, Connecting
<1> QED
  BY <1>2, <1>3, <1>4, <1>5, <1>6, <1>7, <1>8, Zenon

LEMMA StartCInv ==
  ASSUME CInv, NEW n \in Nodes, Start(n)
  PROVE  CInv'
<1> USE DEF CInv
<1>1. /\ phase[n] = "down" /\ lpc[n] = "off" /\ lpc' = [lpc EXCEPT ![n] = "listening"]
      /\ UNCHANGED <<local_pools, inc, toServer, toClient, serving, connected, admitted, clients,
                     target_map>>
  BY Zenon DEF Start, LoopInv, config, connVars
<1>2. Advance(n, <<n, local_pools - 1>>)
  BY Zenon DEF Start
<1>3. /\ <<n, local_pools - 1>> \in Nat \X Nat /\ local_pools - 1 < local_pools
      /\ (local_pools - 1) + 1 = local_pools /\ n <= n
  BY DEF TypeOK, Nodes
<1>4. /\ at' \in [Nodes -> Nat \X Nat]
      /\ phase' \in [Nodes -> {"down", "wait", "fatal"} \cup Connecting \cup Ready]
      /\ \A u \in Nodes : u # n => at'[u] = at[u] /\ phase'[u] = phase[u]
      /\ phase'[n] \in {"wait", "connect"} /\ at'[n][2] < local_pools
      /\ phase'[n] = "connect" => n < at'[n][1] /\ at'[n][1] < N
      /\ phase'[n] = "wait" => at'[n] = <<N, 0>>
  BY <1>2, <1>3, AdvanceLoop, Zenon
<1>5. lpc'[n] = "listening" /\ \A u \in Nodes : u # n => lpc'[u] = lpc[u]
  BY <1>1, Zenon DEF TypeOK
<1>6. TypeOK'
  BY <1>1, <1>4, Zenon DEF TypeOK
<1>7. LoopInv'
  BY <1>1, <1>4, <1>5, Zenon DEF LoopInv, Connecting, Ready
<1>8. CountInv'
  BY <1>1, <1>4, <1>5, Zenon DEF CountInv, ExpectedClients, Ready
<1> QED
  BY <1>1, <1>6, <1>7, <1>8, ContextFrame, Zenon

\* Steps that only move a node on, or a listener about its sockets.
LEMMA MoveCInv ==
  ASSUME CInv, NEW n \in Nodes, Connect(n) \/ ReceiveFails(n) \/ Run(n) \/ Tally(n)
  PROVE  CInv'
<1> USE DEF CInv
<1>1. UNCHANGED <<local_pools, inc, at, lpc, toServer, toClient, serving, connected, admitted,
                  clients, target_map>>
  BY Zenon DEF Connect, ReceiveFails, Run, Tally, config, connVars, listenerVars
<1>2. PICK q : /\ phase' = [phase EXCEPT ![n] = q]
               /\ \/ phase[n] \in Connecting /\ q \in {"send", "recv", "fatal"}
                  \/ phase[n] \in Ready /\ q \in Ready
  BY Zenon DEF Connect, ReceiveFails, Run, Tally, Connecting, Ready
<1>3. phase[n] \in Ready => lpc[n] = "stopped"
  BY Zenon DEF LoopInv
<1>4. LoopInv'
  BY <1>1, <1>2, <1>3, LoopFrame, Zenon
<1>5. \A u \in Nodes : phase[u] \in Ready => phase'[u] \in Ready
  BY <1>2, Zenon DEF TypeOK, Connecting, Ready
<1>6. TypeOK'
  BY <1>1, <1>2, Zenon DEF TypeOK, Connecting, Ready
<1> QED
  BY <1>1, <1>4, <1>5, <1>6, ContextFrame, CountFrame, Zenon

\* A thread that connects uses a socket of its own incarnation, and a pool.
LEMMA ClientSocket ==
  ASSUME TypeOK, LoopInv, NEW n \in Nodes, phase[n] \in Connecting
  PROVE  /\ Peer(n) \in Nodes /\ n < Peer(n) /\ at[n][2] \in PoolIds
         /\ Socket(n, Peer(n)) \in Incoming(Peer(n)) /\ Socket(n, Peer(n)) \in Sockets
         /\ Socket(n, Peer(n))[1] = n /\ ~(Socket(n, Peer(n))[2] > inc[n])
         /\ ClientQp(n) \in QpNames
<1>1. at[n][1] \in Nat /\ at[n][2] \in Nat /\ at[n][2] < local_pools /\ local_pools \in Nat
  BY Zenon DEF TypeOK, LoopInv
<1>2. n < at[n][1] /\ at[n][1] < N
  BY Zenon DEF LoopInv
<1>3. Peer(n) \in Nodes /\ n < Peer(n) /\ at[n][2] \in PoolIds /\ N \in Nat /\ n \in Nat
  BY <1>1, <1>2, ConnectionAssumption DEF Peer, Nodes, PoolIds
<1>4. inc[n] \in Incarnations(n) /\ inc[n] \in Nat
  BY ConnectionAssumption DEF TypeOK, Incarnations
<1>5. Socket(n, Peer(n)) \in Incoming(Peer(n))
  BY <1>3, <1>4, SocketOf, Zenon DEF Socket
<1>7. Socket(n, Peer(n))[1] = n /\ Socket(n, Peer(n))[2] = inc[n] /\ ~(inc[n] > inc[n])
  BY <1>4 DEF Socket
<1>6. ClientId(Peer(n), at[n][2]) \in Nat
  BY <1>1 DEF ClientId, Peer
<1> QED
  BY <1>3, <1>4, <1>5, <1>6, <1>7, Zenon DEF Incoming, ClientQp, QpNames

LEMMA SendContextCInv ==
  ASSUME CInv, NEW n \in Nodes, SendContext(n)
  PROVE  CInv'
<1> USE DEF CInv
<1>1. /\ phase[n] = "send" /\ phase' = [phase EXCEPT ![n] = "recv"]
      /\ UNCHANGED <<local_pools, inc, at, toClient, lpc, serving, connected, admitted, clients,
                     target_map>>
  BY Zenon DEF SendContext, config, listenerVars
<1>2. PICK s, c : /\ s = Socket(n, Peer(n))
                  /\ c = [id |-> ClientId(n, at[n][2]), qp |-> ClientQp(n)]
                  /\ toServer' = [toServer EXCEPT ![s] = Append(toServer[s], c)]
  BY Zenon DEF SendContext
<1>3. /\ s \in Sockets /\ s[1] = n /\ at[n][2] \in PoolIds /\ ClientQp(n) \in QpNames
      /\ ~(s[2] > inc[n])
  BY <1>1, <1>2, ClientSocket, Zenon DEF Connecting
<1>4. c \in Contexts(s)
  BY <1>2, <1>3, Zenon DEF Contexts
<1>5. toServer[s] \in Seq(Contexts(s))
  BY <1>3, Zenon DEF ContextInv
<1>6. Append(toServer[s], c) \in Seq(Contexts(s))
  BY <1>4, <1>5
<1>7. toServer'[s] = Append(toServer[s], c) /\ \A r \in Sockets : r # s => toServer'[r] = toServer[r]
  BY <1>2, <1>3, Zenon DEF TypeOK
<1>8. \A r : Contexts(r)' = Contexts(r)
  BY <1>1, Zenon DEF Contexts, PoolIds, ClientId
<1>9. ContextInv'
  BY <1>1, <1>3, <1>6, <1>7, <1>8, Zenon DEF ContextInv
<1>10. LoopInv'
  BY <1>1, LoopFrame, Zenon DEF Connecting
<1>11. \A u \in Nodes : phase[u] \in Ready => phase'[u] \in Ready
  BY <1>1, Zenon DEF TypeOK, Ready
<1>12. DOMAIN toServer' = Sockets
  BY <1>2, Zenon DEF TypeOK
<1>13. TypeOK'
  BY <1>1, <1>12, Zenon DEF TypeOK, Connecting, Ready
<1> QED
  BY <1>1, <1>9, <1>10, <1>11, <1>13, CountFrame, Zenon

LEMMA ReceiveContextCInv ==
  ASSUME CInv, NEW n \in Nodes, ReceiveContext(n)
  PROVE  CInv'
<1> USE DEF CInv
<1>1. /\ phase[n] = "recv" /\ Advance(n, at[n])
      /\ UNCHANGED <<local_pools, inc, toServer, lpc, serving, connected, admitted, target_map>>
  BY Zenon DEF ReceiveContext, config, listenerVars
<1>2. DOMAIN toClient' = Sockets /\ DOMAIN clients' = Nodes
  BY Zenon DEF ReceiveContext, TypeOK
<1>3. at[n] \in Nat \X Nat /\ at[n][1] \in Nodes /\ n < at[n][1] /\ at[n][2] < local_pools
  BY <1>1, ClientSocket, Zenon DEF TypeOK, LoopInv, Connecting, Peer
<1>4. n <= at[n][1]
  BY <1>3 DEF Nodes
<1>5. /\ at' \in [Nodes -> Nat \X Nat]
      /\ phase' \in [Nodes -> {"down", "wait", "fatal"} \cup Connecting \cup Ready]
      /\ \A u \in Nodes : u # n => at'[u] = at[u] /\ phase'[u] = phase[u]
      /\ phase'[n] \in {"wait", "connect"} /\ at'[n][2] < local_pools
      /\ phase'[n] = "connect" => n < at'[n][1] /\ at'[n][1] < N
      /\ phase'[n] = "wait" => at'[n] = <<N, 0>>
  BY <1>1, <1>3, <1>4, AdvanceLoop, Zenon
<1>6. TypeOK'
  BY <1>1, <1>2, <1>5, Zenon DEF TypeOK
<1>7. LoopInv'
  BY <1>1, <1>5, Zenon DEF LoopInv, Connecting, Ready
<1>8. \A u \in Nodes : phase[u] \in Ready => phase'[u] \in Ready
  BY <1>1, <1>5, Zenon DEF Ready
<1> QED
  BY <1>1, <1>6, <1>7, <1>8, ContextFrame, CountFrame, Zenon

\* The cache is cleared only when the listener has stopped.
LEMMA MakePoolsCInv ==
  ASSUME CInv, NEW n \in Nodes, MakePools(n)
  PROVE  CInv'
<1> USE DEF CInv
<1>1. /\ phase[n] = "wait" /\ lpc[n] = "stopped" /\ phase' = [phase EXCEPT ![n] = "exchange"]
      /\ UNCHANGED <<local_pools, inc, at, toServer, toClient, lpc, serving, connected>>
      /\ admitted' = [admitted EXCEPT ![n] = <<>>]
  BY Zenon DEF MakePools, config
<1>2. DOMAIN target_map' = Nodes /\ DOMAIN clients' = Nodes /\ DOMAIN admitted' = Nodes
  BY Zenon DEF MakePools, TypeOK
<1>3. LoopInv'
  BY <1>1, LoopFrame, Zenon DEF Ready
<1>4. TypeOK'
  BY <1>1, <1>2, Zenon DEF TypeOK, Ready
<1>5. /\ \A u \in Nodes : u # n => phase'[u] = phase[u] /\ admitted'[u] = admitted[u]
      /\ phase'[n] = "exchange" /\ admitted'[n] = <<>>
  BY <1>1, Zenon DEF TypeOK
<1>6. DOMAIN (admitted'[n]) = {}
  BY <1>5
<1>7. CountInv'
  BY <1>1, <1>5, <1>6, Zenon DEF CountInv, ExpectedClients, Ready
<1> QED
  BY <1>1, <1>3, <1>4, <1>7, ContextFrame, Zenon

\* Node 0 has no clients, whatever its listener was doing.
LEMMA RestartCInv ==
  ASSUME CInv, Restart
  PROVE  CInv'
<1> USE DEF CInv
<1>1. /\ phase[0] \in Connecting /\ inc[0] < MaxRestarts /\ inc' = [inc EXCEPT ![0] = inc[0] + 1]
      /\ phase' = [phase EXCEPT ![0] = "down"] /\ at' = [at EXCEPT ![0] = <<0, 0>>]
      /\ lpc' = [lpc EXCEPT ![0] = "off"]
      /\ UNCHANGED <<local_pools, toServer, toClient, serving, connected, admitted, target_map>>
  BY Zenon DEF Restart, config, Connecting
<1>2. 0 \in Nodes /\ 0 < local_pools
  BY ConnectionAssumption DEF Nodes, TypeOK
<1>3. /\ phase'[0] = "down" /\ at'[0] = <<0, 0>> /\ lpc'[0] = "off" /\ inc'[0] = inc[0] + 1
      /\ \A u \in Nodes : u # 0 => /\ phase'[u] = phase[u] /\ at'[u] = at[u] /\ lpc'[u] = lpc[u]
                                   /\ inc'[u] = inc[u]
  BY <1>1, <1>2, Zenon DEF TypeOK
<1>4. at'[0][2] = 0
  BY <1>3
<1>5. inc'[0] \in Incarnations(0)
  BY <1>1, <1>2, <1>3, ConnectionAssumption DEF Incarnations, TypeOK
<1>6. at' \in [Nodes -> Nat \X Nat]
  BY <1>1, Zenon DEF TypeOK
<1>7. DOMAIN inc' = Nodes /\ DOMAIN clients' = Nodes
  BY Zenon DEF Restart, TypeOK
<1>8. TypeOK'
  BY <1>1, <1>3, <1>5, <1>6, <1>7, Zenon DEF TypeOK
<1>9. LoopInv'
  <2> SUFFICES ASSUME NEW n \in Nodes
               PROVE  /\ at'[n][2] < local_pools
                      /\ phase'[n] = "down" => at'[n] = <<n, 0>> /\ lpc'[n] = "off"
                      /\ phase'[n] \in Connecting \cup {"fatal"} => n < at'[n][1] /\ at'[n][1] < N
                      /\ phase'[n] \in {"wait"} \cup Ready => at'[n] = <<N, 0>>
                      /\ phase'[n] \in Ready => lpc'[n] = "stopped"
    BY <1>1, Zenon DEF LoopInv
  <2>1. CASE n = 0
    BY <1>2, <1>3, <1>4, <2>1, Zenon DEF Connecting, Ready
  <2>2. CASE n # 0
    BY <1>3, <2>2, Zenon DEF LoopInv
  <2> QED
    BY <2>1, <2>2, Zenon
<1>10. connected[0] = Cardinality(DOMAIN admitted[0])
  <2>1. CASE lpc[0] = "stopped"
    <3>1. ExpectedClients(0) = 0
      BY DEF ExpectedClients, TypeOK
    <3>2. 0..(ExpectedClients(0) - 1) = {}
      BY <3>1
    <3>3. connected[0] = 0 /\ DOMAIN admitted[0] = {}
      BY <1>2, <2>1, <3>1, <3>2, Zenon DEF CountInv
    <3> QED
      BY <3>3, FS_EmptySet, Zenon
  <2>2. CASE lpc[0] # "stopped"
    <3>1. lpc[0] \in {"off", "listening"}
      BY <1>2, <2>2, Zenon DEF CountInv, TypeOK
    <3> QED
      BY <1>2, <3>1, Zenon DEF CountInv
  <2> QED
    BY <2>1, <2>2, Zenon
<1>11. CountInv'
  BY <1>1, <1>2, <1>3, <1>10, Zenon DEF CountInv, ExpectedClients
<1>12. ContextInv'
  <2>1. \A r : Contexts(r)' = Contexts(r)
    BY <1>1, Zenon DEF Contexts, PoolIds, ClientId
  <2>2. inc[0] \in Nat
    BY <1>2, ConnectionAssumption DEF TypeOK, Incarnations
  <2>3. ASSUME NEW s \in Sockets, s[2] > inc'[s[1]] PROVE s[2] > inc[s[1]]
    <3>1. s[1] \in Nodes /\ s[2] \in Nat
      BY ConnectionAssumption DEF Sockets
    <3> QED
      BY <1>3, <2>2, <2>3, <3>1
  <2> QED
    BY <1>1, <2>1, <2>3, Zenon DEF ContextInv
<1> QED
  BY <1>8, <1>9, <1>11, <1>12, Zenon

\* Steps of a listener about its sockets, and messages between nodes.
LEMMA QuietCInv ==
  ASSUME CInv,
         UNCHANGED <<local_pools, inc, phase, at, toServer, toClient, lpc, serving, connected,
                     admitted, clients, target_map>>
  PROVE  CInv'
<1> USE DEF CInv
<1>1. TypeOK'
  BY Zenon DEF TypeOK
<1>2. LoopInv'
  BY Zenon DEF LoopInv
<1> QED
  BY <1>1, <1>2, ContextFrame, CountFrame, Zenon

\* The listener stops when it has counted as many clients as there can be.
LEMMA StopCInv ==
  ASSUME CInv, NEW m \in Nodes, Stop(m)
  PROVE  CInv'
<1> USE DEF CInv
<1>1. /\ lpc[m] = "listening" /\ lpc' = [lpc EXCEPT ![m] = "stopped"]
      /\ connected[m] = ExpectedClients(m)
      /\ UNCHANGED <<local_pools, inc, phase, at, toServer, toClient, serving, connected,
                     admitted, clients, target_map>>
  BY Zenon DEF Stop, AtLoopTop, config
<1>2. lpc'[m] = "stopped" /\ \A u \in Nodes : u # m => lpc'[u] = lpc[u]
  BY <1>1, Zenon DEF TypeOK
<1>3. TypeOK'
  BY <1>1, Zenon DEF TypeOK
<1>4. LoopInv'
  BY <1>1, <1>2, Zenon DEF LoopInv
<1>5. DOMAIN admitted[m] = 0..(ExpectedClients(m) - 1)
  <2>1. DOMAIN admitted[m] \in SUBSET (0..(ExpectedClients(m) - 1))
    BY Zenon DEF CountInv
  <2>2. Cardinality(DOMAIN admitted[m]) = ExpectedClients(m)
    BY <1>1, Zenon DEF CountInv
  <2>3. ExpectedClients(m) \in Nat
    BY ConnectionAssumption DEF ExpectedClients, TypeOK, Nodes
  <2>4. /\ IsFiniteSet(0..(ExpectedClients(m) - 1))
        /\ Cardinality(0..(ExpectedClients(m) - 1)) = ExpectedClients(m)
    <3>1. 0 \in Int /\ ExpectedClients(m) - 1 \in Int
      BY <2>3
    <3>2. /\ IsFiniteSet(0..(ExpectedClients(m) - 1))
          /\ Cardinality(0..(ExpectedClients(m) - 1)) =
               IF 0 > ExpectedClients(m) - 1 THEN 0 ELSE (ExpectedClients(m) - 1) - 0 + 1
      BY <3>1, FS_Interval, Zenon
    <3> QED
      BY <2>3, <3>2
  <2> QED
    BY <2>1, <2>2, <2>4, FS_Subset, Zenon
<1>6. CountInv'
  BY <1>1, <1>2, <1>5, Zenon DEF CountInv, ExpectedClients
<1> QED
  BY <1>1, <1>3, <1>4, <1>6, ContextFrame, Zenon

\* The contexts that a listener reads are those of its clients.
LEMMA ContextOf ==
  ASSUME CInv, NEW m \in Nodes, NEW s \in Incoming(m), toServer[s] # <<>>
  PROVE  \E i \in PoolIds : Head(toServer[s]).id = ClientId(s[1], i)
<1>1. toServer[s] \in Seq(Contexts(s))
  BY SocketParts, Zenon DEF CInv, ContextInv
<1>2. Head(toServer[s]) \in Contexts(s)
  BY <1>1
<1> QED
  BY <1>2, Zenon DEF Contexts

\* A client is admitted: it is a new one and will be counted, or it was counted
\* before, is not counted now, and will be again.
LEMMA HandleContextCInv ==
  ASSUME CInv, NEW m \in Nodes, NEW s \in Incoming(m), HandleContext(m, s)
  PROVE  CInv'
<1> USE DEF CInv
<1>1. PICK c, q : /\ c = Head(toServer[s]) /\ q = [node |-> m, with |-> c.id, inc |-> s[2]]
                  /\ connected' = [connected EXCEPT ![m] = WithoutDuplicate(m, c.id)]
                  /\ admitted' = [admitted EXCEPT ![m] = Merge(Single(c.id, q), admitted[m])]
                  /\ serving' = [serving EXCEPT ![m] = [sock |-> s, qp |-> q]]
  BY Zenon DEF HandleContext
<1>2. /\ lpc[m] = "listening" /\ toServer[s] # <<>>
      /\ toServer' = [toServer EXCEPT ![s] = Tail(toServer[s])]
      /\ lpc' = [lpc EXCEPT ![m] = "reply"]
      /\ UNCHANGED <<local_pools, inc, phase, at, toClient, clients, target_map>>
  BY Zenon DEF HandleContext, config
<1>3. s \in Sockets /\ s[1] \in Nodes /\ s[1] < m /\ m # 0
  BY SocketParts, Zenon
<1>4. PICK i \in PoolIds : c.id = ClientId(s[1], i)
  BY <1>1, <1>2, ContextOf, Zenon
<1>5. c.id \in 0..(ExpectedClients(m) - 1)
  BY <1>3, <1>4, IdExpected, Zenon
<1>15. admitted'[m] = Merge(Single(c.id, q), admitted[m])
  BY <1>1, Zenon DEF TypeOK
<1>16. DOMAIN (admitted'[m]) = DOMAIN admitted[m] \cup {c.id}
  <2>1. PICK f, k : f = admitted[m] /\ k = c.id
    BY Zenon
  <2>2. Updated(Merge(Single(k, q), f), f, k, q)
    BY MergeUpdates, Zenon
  <2>3. DOMAIN Merge(Single(k, q), f) = DOMAIN f \cup {k}
    BY <2>2, Zenon DEF Updated
  <2> QED
    BY <1>15, <2>1, <2>3, Zenon
<1>6. /\ connected'[m] = WithoutDuplicate(m, c.id) /\ lpc'[m] = "reply"
      /\ serving'[m] = [sock |-> s, qp |-> q]
      /\ \A u \in Nodes : u # m => /\ connected'[u] = connected[u] /\ lpc'[u] = lpc[u]
                                   /\ admitted'[u] = admitted[u] /\ serving'[u] = serving[u]
  BY <1>1, <1>2, Zenon DEF TypeOK
<1>7. connected[m] \in Int /\ connected[m] = Cardinality(DOMAIN admitted[m])
  BY <1>2, Zenon DEF TypeOK, CountInv
<1>8. connected'[m] \in Int /\ connected'[m] + 1 = Cardinality(DOMAIN (admitted'[m]))
  <2>1. DOMAIN admitted[m] \in SUBSET (0..(ExpectedClients(m) - 1))
    BY Zenon DEF CountInv
  <2>2. 0 \in Int /\ ExpectedClients(m) - 1 \in Int
    BY ConnectionAssumption DEF ExpectedClients, TypeOK, Nodes
  <2>3. IsFiniteSet(DOMAIN admitted[m])
    BY <2>1, <2>2, FS_Interval, FS_Subset, Zenon
  <2>4. Cardinality(DOMAIN admitted[m] \cup {c.id}) =
          IF c.id \in DOMAIN admitted[m] THEN Cardinality(DOMAIN admitted[m])
          ELSE Cardinality(DOMAIN admitted[m]) + 1
    BY <2>3, FS_AddElement, Zenon
  <2> QED
    BY <1>6, <1>7, <1>16, <2>4 DEF WithoutDuplicate
<1>9. serving'[m].sock = s
  BY <1>6
<1>10. CountInv'
  <2>1. DOMAIN (admitted'[m]) \subseteq 0..(ExpectedClients(m) - 1)
    BY <1>5, <1>16, Zenon DEF CountInv
  <2> SUFFICES ASSUME NEW u \in Nodes
               PROVE  /\ DOMAIN (admitted'[u]) \subseteq 0..(ExpectedClients(u) - 1)
                      /\ lpc'[u] \in {"off", "listening"} =>
                           connected'[u] = Cardinality(DOMAIN (admitted'[u]))
                      /\ lpc'[u] = "reply" => connected'[u] + 1 = Cardinality(DOMAIN (admitted'[u]))
                      /\ lpc'[u] \in {"reply", "fatal"} => u # 0
                      /\ lpc'[u] = "reply" => serving'[u].sock \in Incoming(u)
                      /\ lpc'[u] = "stopped" =>
                           /\ connected'[u] = ExpectedClients(u)
                           /\ phase[u] \notin Ready =>
                                DOMAIN (admitted'[u]) = 0..(ExpectedClients(u) - 1)
    BY <1>2, Zenon DEF CountInv, ExpectedClients
  <2>2. CASE u = m
    BY <1>3, <1>6, <1>8, <1>9, <2>1, <2>2, Zenon
  <2>3. CASE u # m
    BY <1>6, <2>3, Zenon DEF CountInv
  <2> QED
    BY <2>2, <2>3, Zenon
<1>11. /\ DOMAIN toServer' = Sockets /\ DOMAIN serving' = Nodes /\ DOMAIN admitted' = Nodes
       /\ connected' \in [Nodes -> Int]
  <2>1. DOMAIN toServer' = Sockets /\ DOMAIN serving' = Nodes /\ DOMAIN admitted' = Nodes
    BY <1>1, <1>2, Zenon DEF TypeOK
  <2>2. connected' \in [Nodes -> Int]
    BY <1>1, <1>6, <1>8, Zenon DEF TypeOK
  <2> QED
    BY <2>1, <2>2, Zenon
<1>12. TypeOK'
  BY <1>2, <1>11, Zenon DEF TypeOK
<1>13. LoopInv'
  BY <1>2, <1>6, Zenon DEF LoopInv
<1>14. ContextInv'
  <2>1. toServer[s] \in Seq(Contexts(s))
    BY <1>3, Zenon DEF ContextInv
  <2>2. Tail(toServer[s]) \in Seq(Contexts(s))
    BY <1>2, <2>1
  <2>3. toServer'[s] = Tail(toServer[s]) /\ \A r \in Sockets : r # s => toServer'[r] = toServer[r]
    BY <1>2, <1>3, Zenon DEF TypeOK
  <2>4. \A r : Contexts(r)' = Contexts(r)
    BY <1>2, Zenon DEF Contexts, PoolIds, ClientId
  <2>5. ~(s[2] > inc[s[1]])
    BY <1>2, <1>3, Zenon DEF ContextInv
  <2> QED
    BY <1>2, <2>2, <2>3, <2>4, <2>5, Zenon DEF ContextInv
<1> QED
  BY <1>10, <1>12, <1>13, <1>14, Zenon

LEMMA ReplyCInv ==
  ASSUME CInv, NEW m \in Nodes, Reply(m)
  PROVE  CInv'
<1> USE DEF CInv
<1>1. /\ lpc[m] = "reply" /\ lpc' = [lpc EXCEPT ![m] = "listening"]
      /\ connected' = [connected EXCEPT ![m] = connected[m] + 1]
      /\ serving' = [serving EXCEPT ![m] = NoServing]
      /\ UNCHANGED <<local_pools, inc, phase, at, toServer, admitted, clients, target_map>>
  BY Zenon DEF Reply, config
<1>2. /\ lpc'[m] = "listening" /\ connected'[m] = connected[m] + 1
      /\ \A u \in Nodes : u # m => /\ lpc'[u] = lpc[u] /\ connected'[u] = connected[u]
                                   /\ serving'[u] = serving[u]
  BY <1>1, Zenon DEF TypeOK
<1>3. connected' \in [Nodes -> Int]
  BY <1>1 DEF TypeOK
<1>4. DOMAIN toClient' = Sockets /\ DOMAIN serving' = Nodes
  BY Zenon DEF Reply, TypeOK
<1>5. TypeOK'
  BY <1>1, <1>3, <1>4, Zenon DEF TypeOK
<1>6. LoopInv'
  BY <1>1, <1>2, Zenon DEF LoopInv
<1>7. CountInv'
  BY <1>1, <1>2, Zenon DEF CountInv, ExpectedClients
<1> QED
  BY <1>1, <1>5, <1>6, <1>7, ContextFrame, Zenon

\* Only a node with clients can meet a broken socket.
LEMMA HandleHangUpCInv ==
  ASSUME CInv, NEW m \in Nodes, NEW s \in Incoming(m), HandleHangUp(m, s)
  PROVE  CInv'
<1> USE DEF CInv
<1>1. UNCHANGED <<local_pools, inc, phase, at, toServer, toClient, serving, connected,
                  admitted, clients, target_map>>
  BY Zenon DEF HandleHangUp, config
<1>2. lpc[m] = "listening" /\ (UNCHANGED lpc \/ lpc' = [lpc EXCEPT ![m] = "fatal"])
  BY Zenon DEF HandleHangUp
<1>3. CASE UNCHANGED lpc
  BY <1>1, <1>3, QuietCInv, Zenon
<1>4. CASE lpc' = [lpc EXCEPT ![m] = "fatal"]
  <2>1. m # 0 /\ lpc'[m] = "fatal" /\ \A u \in Nodes : u # m => lpc'[u] = lpc[u]
    BY <1>4, SocketParts, Zenon DEF TypeOK
  <2>2. TypeOK'
    BY <1>1, <1>4, Zenon DEF TypeOK
  <2>3. LoopInv'
    BY <1>1, <1>2, <2>1, Zenon DEF LoopInv
  <2>4. CountInv'
    BY <1>1, <2>1, Zenon DEF CountInv, ExpectedClients
  <2> QED
    BY <1>1, <2>2, <2>3, <2>4, ContextFrame, Zenon
<1> QED
  BY <1>2, <1>3, <1>4, Zenon

LEMMA InitCInv == Init => CInv
<1> SUFFICES ASSUME Init PROVE CInv
  OBVIOUS
<1>1. local_pools \in Nat \ {0}
  BY ConnectionAssumption, Zenon DEF Init
<1>2. /\ at = [n \in Nodes |-> <<n, 0>>] /\ \A n \in Nodes : n \in Nat
  BY DEF Init, Nodes
<1>3. at \in [Nodes -> Nat \X Nat] /\ \A n \in Nodes : at[n][2] = 0
  BY <1>2, Zenon
<1>4. \A n \in Nodes : inc[n] \in Incarnations(n)
  BY ConnectionAssumption DEF Init, Incarnations
<1>5. connected \in [Nodes -> Int]
  BY DEF Init
<1>6. TypeOK
  BY <1>1, <1>3, <1>4, <1>5, Zenon DEF Init, TypeOK
<1>7. LoopInv
  <2>1. 0 < local_pools
    BY <1>1
  <2>2. \A n \in Nodes : at[n] = <<n, 0>> /\ phase[n] = "down" /\ lpc[n] = "off"
    BY <1>2, Zenon DEF Init
  <2> QED
    BY <1>3, <2>1, <2>2, Zenon DEF LoopInv, Connecting, Ready
<1>8. \A m \in Nodes : DOMAIN admitted[m] = {} /\ connected[m] = 0
  BY DEF Init
<1>9. CountInv
  BY <1>8, FS_EmptySet, Zenon DEF Init, CountInv
<1>10. ContextInv
  BY DEF Init, ContextInv
<1> QED
  BY <1>6, <1>7, <1>9, <1>10, Zenon DEF CInv

LEMMA NextCInv ==
  ASSUME CInv, [Next]_vars
  PROVE  CInv'
<1>1. CASE Restart
  BY <1>1, RestartCInv, Zenon
<1>2. ASSUME NEW n \in Nodes, MainStep(n) PROVE CInv'
  BY <1>2, StartCInv, MoveCInv, SendContextCInv, ReceiveContextCInv, MakePoolsCInv, Zenon DEF MainStep
<1>3. ASSUME NEW m \in Nodes, Select(m) \/ Accept(m) PROVE CInv'
  BY <1>3, QuietCInv, Zenon DEF Select, Accept, config, connVars
<1>4. ASSUME NEW m \in Nodes, ListenerStep(m) PROVE CInv'
  BY <1>3, <1>4, StopCInv, ReplyCInv, HandleContextCInv, HandleHangUpCInv, Zenon DEF ListenerStep
<1>5. ASSUME NEW n \in Nodes, NEW m \in Nodes, Transfer(n, m) PROVE CInv'
  BY <1>5, QuietCInv, Zenon DEF Transfer, config, connVars, listenerVars
<1>6. CASE UNCHANGED vars
  BY <1>6, QuietCInv, Zenon DEF vars, config, connVars, listenerVars
<1> QED
  BY <1>1, <1>2, <1>4, <1>5, <1>6, Zenon DEF Next

\* The types of Connection's variables, the loops of the connectors and the counts
\* of the listeners are as CInv says, whatever is restarted.
THEOREM ListenersCount == Spec => []CInv
<1>1. CInv /\ [Next]_vars => CInv'
  BY NextCInv, Zenon
<1> QED
  BY <1>1, InitCInv, PTL DEF Spec

\* Whenever HandleConnectionRequests compares connected_clients_ with the expected
\* number, it has counted each client id once, and it stops with all of them
\* (ClientsCountedOnce), for any number of nodes, pools and restarts of node 0.
THEOREM EachClientCountsOnce == Spec => []ClientsCountedOnce
<1>1. CInv => ClientsCountedOnce
  BY Zenon DEF CInv, CountInv, ClientsCountedOnce, AtLoopTop, Ready
<1> QED
  BY <1>1, ListenersCount, PTL

-----------------------------------------------------------------------------
-----------------------------------------------------------------------------
(***************************************************************************)
(* Which queue pairs are connected.                                        *)
(***************************************************************************)
\* Only node 0 is restarted.
LEMMA LargerKeeps ==
  ASSUME TypeOK, NEW n \in Nodes, NEW m \in Nodes, n < m
  PROVE  inc[m] = 0 /\ m # 0
<1>1. m # 0
  BY DEF Nodes
<1> QED
  BY <1>1 DEF TypeOK, Incarnations

\* The number of pools is the same for the whole run.
LEMMA NamesFixed ==
  ASSUME local_pools' = local_pools
  PROVE  /\ PoolIds' = PoolIds
         /\ \A n, i : ClientId(n, i)' = ClientId(n, i)
         /\ \A a, b, i : Qp(a, b, i)' = Qp(a, b, i)
BY Zenon DEF PoolIds, ClientId, Qp

\* No end of a connection between running processes is lost.
Kept ==
  \A a, b \in Nodes : inc'[a] = 0 /\ inc'[b] = 0 =>
    \A i \in PoolIds : End(a, b, i) => End(a, b, i)'

LEMMA KeptIf ==
  ASSUME local_pools' = local_pools,
         \A a, b \in Nodes : inc'[a] = 0 /\ inc'[b] = 0 => \A i \in PoolIds :
           Qp(a, b, i) \in DOMAIN qp =>
             Qp(a, b, i) \in DOMAIN qp' /\ qp'[Qp(a, b, i)] = qp[Qp(a, b, i)]
  PROVE  Kept
<1> SUFFICES ASSUME NEW a \in Nodes, NEW b \in Nodes, inc'[a] = 0, inc'[b] = 0,
                    NEW i \in PoolIds, End(a, b, i)
             PROVE  End(a, b, i)'
  BY Zenon DEF Kept
<1>1. PICK q, d : q = Qp(a, b, i) /\ d = Qp(b, a, i)
  BY Zenon
<1>2. Qp(a, b, i)' = q /\ Qp(b, a, i)' = d
  BY <1>1, NamesFixed, Zenon
<1>3. q \in DOMAIN qp /\ qp[q] = [state |-> "RTS", dest |-> d]
  BY <1>1, Zenon DEF End
<1>4. q \in DOMAIN qp' /\ qp'[q] = qp[q]
  BY <1>1, <1>3, Zenon
<1>5. q \in DOMAIN qp' /\ qp'[q] = [state |-> "RTS", dest |-> d]
  BY <1>3, <1>4, Zenon
<1> QED
  BY <1>2, <1>5, Zenon DEF End

\* The socket between n and m is not used, and n goes on waiting if it does.
SameWire(n, m) ==
  LET s == <<n, 0, m>> IN
  /\ toServer'[s] = toServer[s] /\ toClient'[s] = toClient[s]
  /\ Served(m, s)' <=> Served(m, s)
  /\ Served(m, s) => serving'[m] = serving[m]
  /\ \/ Idle(n, m)
     \/ at'[n] = at[n] /\ (phase[n] \in {"recv", "fatal"} => phase'[n] \in {"recv", "fatal"})

LEMMA WireFrame ==
  ASSUME CInv, local_pools' = local_pools, Kept, NEW n \in Nodes, NEW m \in Nodes, n < m,
         inc'[n] = 0, inc'[m] = 0, Wire(n, m), SameWire(n, m)
  PROVE  Wire(n, m)'
<1>1. PICK s : s = <<n, 0, m>>
  BY Zenon
<1>2. /\ toServer'[s] = toServer[s] /\ toClient'[s] = toClient[s]
      /\ Served(m, s)' <=> Served(m, s)
      /\ Served(m, s) => serving'[m] = serving[m]
      /\ \/ Idle(n, m)
         \/ at'[n] = at[n] /\ (phase[n] \in {"recv", "fatal"} => phase'[n] \in {"recv", "fatal"})
  BY <1>1, Zenon DEF SameWire
<1>3. CASE Idle(n, m)
  <2>1. Idle(n, m)'
    BY <1>1, <1>2, <1>3, Zenon DEF Idle
  <2> QED
    BY <2>1, Zenon DEF Wire
<1>4. CASE ~Idle(n, m)
  <2>1. PICK i : i = at[n][2]
    BY Zenon
  <2>2. /\ at'[n] = at[n] /\ phase'[n] \in {"recv", "fatal"} /\ at[n][1] = m
        /\ Asked(n, m, i) \/ Answering(n, m, i) \/ Answered(n, m, i)
    BY <1>2, <1>4, <2>1, Zenon DEF Wire
  <2>3. i \in PoolIds
    BY <2>1 DEF CInv, TypeOK, LoopInv, PoolIds
  <2>4. End(m, n, i) => End(m, n, i)'
    BY <2>3, Zenon DEF Kept
  <2>5. Asked(n, m, i)' \/ Answering(n, m, i)' \/ Answered(n, m, i)'
    BY <1>1, <1>2, <2>2, <2>4, NamesFixed, Zenon DEF Asked, Answering, Answered
  <2> QED
    BY <2>1, <2>2, <2>5, Zenon DEF Wire
<1> QED
  BY <1>3, <1>4, Zenon

\* What is filed of pool i of n and m stays, and the loops of n do not pass it.
SameFiles(n, m, i) ==
  /\ ClientId(n, i) \in DOMAIN (admitted'[m]) =>
       /\ ClientId(n, i) \in DOMAIN admitted[m]
       /\ admitted'[m][ClientId(n, i)] = admitted[m][ClientId(n, i)]
  /\ Reached(n, m, i)' => Reached(n, m, i)
  /\ phase'[n] \notin Ready =>
       /\ phase[n] \notin Ready
       /\ ClientId(m, i) \in DOMAIN clients[n] =>
            /\ ClientId(m, i) \in DOMAIN (clients'[n])
            /\ clients'[n][ClientId(m, i)] = clients[n][ClientId(m, i)]

LEMMA FiledFrame ==
  ASSUME local_pools' = local_pools, Kept, NEW n \in Nodes, NEW m \in Nodes,
         inc'[n] = 0, inc'[m] = 0, NEW i \in PoolIds, Filed(n, m, i), SameFiles(n, m, i)
  PROVE  Filed(n, m, i)'
<1>1. (End(m, n, i) => End(m, n, i)') /\ (End(n, m, i) => End(n, m, i)')
  BY Zenon DEF Kept
<1> QED
  BY <1>1, NamesFixed, Zenon DEF Filed, SameFiles

LEMMA TargetFrame ==
  ASSUME local_pools' = local_pools, Kept, NEW n \in Nodes, NEW m \in Nodes,
         inc'[n] = 0, inc'[m] = 0, NEW i \in PoolIds, Target(n, m, i), target_map'[n] = target_map[n]
  PROVE  Target(n, m, i)'
<1>1. End(n, m, i) => End(n, m, i)'
  BY Zenon DEF Kept
<1> QED
  BY <1>1, NamesFixed, Zenon DEF Target

\* A step keeps PInv if it keeps it for each pair of running processes.
LEMMA PInvIf ==
  ASSUME CInv, PInv, local_pools' = local_pools, Kept,
         \A n \in Nodes : inc'[n] = 0 => inc[n] = 0,
         \A n, m \in Nodes : n < m /\ inc'[n] = 0 => SameWire(n, m) \/ Wire(n, m)',
         \A n, m \in Nodes : n < m /\ inc'[n] = 0 => \A i \in PoolIds :
           SameFiles(n, m, i) \/ Filed(n, m, i)',
         \A n \in Nodes : target_map'[n] # <<>> => phase'[n] \in Ready,
         \A n, m \in Nodes : target_map'[n] # <<>> /\ inc'[n] = 0 /\ inc'[m] = 0 =>
           target_map'[n] = target_map[n] \/ \A i \in PoolIds : Target(n, m, i)',
         TypeOK'
  PROVE  PInv'
<1>1. PoolIds' = PoolIds
  BY NamesFixed, Zenon
<1>2. ASSUME NEW n \in Nodes, NEW m \in Nodes, n < m, inc'[n] = 0
      PROVE  Wire(n, m)' /\ \A i \in PoolIds : Filed(n, m, i)'
  <2>1. inc'[m] = 0
    BY <1>2 DEF TypeOK, Incarnations, Nodes
  <2>2. Wire(n, m) /\ \A i \in PoolIds : Filed(n, m, i)
    BY <1>2, Zenon DEF PInv
  <2>3. Wire(n, m)'
    BY <1>2, <2>1, <2>2, WireFrame, Zenon
  <2>4. \A i \in PoolIds : Filed(n, m, i)'
    BY <1>2, <2>1, <2>2, FiledFrame, Zenon
  <2> QED
    BY <2>3, <2>4, Zenon
<1>3. ASSUME NEW n \in Nodes, NEW m \in Nodes, target_map'[n] # <<>>, inc'[n] = 0, inc'[m] = 0
      PROVE  \A i \in PoolIds : Target(n, m, i)'
  <2>1. CASE target_map'[n] = target_map[n]
    <3>1. \A i \in PoolIds : Target(n, m, i)
      BY <1>3, <2>1, Zenon DEF PInv
    <3> QED
      BY <1>3, <2>1, <3>1, TargetFrame, Zenon
  <2>2. CASE \A i \in PoolIds : Target(n, m, i)'
    BY <2>2, Zenon
  <2> QED
    BY <1>3, <2>1, <2>2, Zenon
<1> QED
  BY <1>1, <1>2, <1>3, Zenon DEF PInv

LEMMA QuietPInv ==
  ASSUME CInv, PInv, TypeOK',
         UNCHANGED <<local_pools, inc, toServer, toClient, serving, qp, admitted, clients, target_map>>,
         \A n \in Nodes : lpc'[n] = "reply" <=> lpc[n] = "reply",
         \A n \in Nodes : phase'[n] \in Ready <=> phase[n] \in Ready,
         \A n \in Nodes :
           \/ at'[n] = at[n] /\ (phase[n] \in {"recv", "fatal"} => phase'[n] \in {"recv", "fatal"})
           \/ phase[n] = "down" /\ \A m \in Nodes, i \in PoolIds : n < m => ~Reached(n, m, i)'
  PROVE  PInv'
<1>1. Kept
  BY KeptIf, Zenon
<1>2. ASSUME NEW n \in Nodes, NEW m \in Nodes, n < m, inc'[n] = 0
      PROVE  SameWire(n, m)
  <2>1. Wire(n, m)
    BY <1>2, Zenon DEF PInv
  <2>2. phase[n] = "down" => Idle(n, m)
    BY <2>1, Zenon DEF Wire
  <2>3. Served(m, <<n, 0, m>>)' <=> Served(m, <<n, 0, m>>)
    BY Zenon DEF Served
  <2> QED
    BY <2>2, <2>3, Zenon DEF SameWire
<1>3. ASSUME NEW n \in Nodes, NEW m \in Nodes, n < m, NEW i \in PoolIds
      PROVE  SameFiles(n, m, i)
  <2>1. Reached(n, m, i)' => Reached(n, m, i)
    BY <1>3, Zenon DEF Reached
  <2>2. /\ ClientId(n, i) \in DOMAIN (admitted'[m]) =>
             /\ ClientId(n, i) \in DOMAIN admitted[m]
             /\ admitted'[m][ClientId(n, i)] = admitted[m][ClientId(n, i)]
        /\ ClientId(m, i) \in DOMAIN clients[n] =>
             /\ ClientId(m, i) \in DOMAIN (clients'[n])
             /\ clients'[n][ClientId(m, i)] = clients[n][ClientId(m, i)]
    BY Zenon
  <2> QED
    BY <2>1, <2>2, Zenon DEF SameFiles
<1>4. \A n \in Nodes : target_map'[n] # <<>> => phase'[n] \in Ready
  BY Zenon DEF PInv
<1> QED
  BY <1>1, <1>2, <1>3, <1>4, PInvIf, Zenon

\* Start enters the loops in front of the first larger node.
LEMMA StartPInv ==
  ASSUME CInv, PInv, TypeOK', NEW p \in Nodes, Start(p)
  PROVE  PInv'
<1>1. /\ phase[p] = "down" /\ UNCHANGED <<local_pools, inc, toServer, toClient, serving, qp, admitted, clients, target_map>>
      /\ lpc' = [lpc EXCEPT ![p] = "listening"]
      /\ phase' = [phase EXCEPT ![p] = IF at'[p][1] = N THEN "wait" ELSE "connect"]
      /\ at' = [at EXCEPT ![p] = IF local_pools - 1 + 1 < local_pools THEN <<p, local_pools - 1 + 1>> ELSE <<p + 1, 0>>]
  BY Zenon DEF Start, Advance, config, connVars
<1>2. lpc[p] = "off"
  BY <1>1, Zenon DEF CInv, LoopInv
<1>3. at'[p] = <<p + 1, 0>>
  BY <1>1 DEF CInv, TypeOK
<1>4. \A m \in Nodes, i \in PoolIds : p < m => ~Reached(p, m, i)'
  BY <1>3 DEF Reached, Nodes, PoolIds, CInv, TypeOK
<1>5. \A n \in Nodes : n # p => at'[n] = at[n] /\ phase'[n] = phase[n] /\ lpc'[n] = lpc[n]
  BY <1>1, Zenon DEF CInv, TypeOK
<1>6. /\ lpc'[p] = "listening" /\ phase'[p] \in {"wait", "connect"}
  BY <1>1, Zenon DEF CInv, TypeOK
<1>7. phase'[p] \notin Ready /\ phase[p] \notin Ready
  BY <1>1, <1>6, Zenon DEF Ready
<1>8. \A n \in Nodes : lpc'[n] = "reply" <=> lpc[n] = "reply"
  BY <1>2, <1>5, <1>6, Zenon
<1>9. \A n \in Nodes : phase'[n] \in Ready <=> phase[n] \in Ready
  BY <1>5, <1>7, Zenon
<1>10. \A n \in Nodes :
           \/ at'[n] = at[n] /\ (phase[n] \in {"recv", "fatal"} => phase'[n] \in {"recv", "fatal"})
           \/ phase[n] = "down" /\ \A m \in Nodes, i \in PoolIds : n < m => ~Reached(n, m, i)'
  BY <1>1, <1>4, <1>5, Zenon
<1> QED
  BY <1>1, <1>8, <1>9, <1>10, QuietPInv, Zenon

\* The steps of a main thread that neither send nor receive a context.
LEMMA MovePInv ==
  ASSUME CInv, PInv, TypeOK', NEW p \in Nodes,
         UNCHANGED <<local_pools, inc, at, toServer, toClient, serving, lpc, qp, admitted, clients, target_map>>,
         NEW from, NEW to, phase[p] = from, phase' = [phase EXCEPT ![p] = to],
         from = "recv" => to = "fatal", from # "fatal", from \in Ready <=> to \in Ready
  PROVE  PInv'
<1>1. \A n \in Nodes : n # p => phase'[n] = phase[n]
  BY Zenon DEF CInv, TypeOK
<1>2. phase'[p] = to
  BY Zenon DEF CInv, TypeOK
<1>3. \A n \in Nodes : phase'[n] \in Ready <=> phase[n] \in Ready
  BY <1>1, <1>2, Zenon
<1>4. \A n \in Nodes : phase[n] \in {"recv", "fatal"} => phase'[n] \in {"recv", "fatal"}
  BY <1>1, <1>2, Zenon
<1> QED
  BY <1>3, <1>4, QuietPInv, Zenon

\* The steps of a listener that do not touch a context.
LEMMA ListenPInv ==
  ASSUME CInv, PInv, TypeOK', NEW p \in Nodes,
         UNCHANGED <<local_pools, inc, phase, at, toServer, toClient, serving, qp, admitted, clients, target_map>>,
         NEW to, lpc[p] = "listening", to # "reply",
         lpc' = lpc \/ lpc' = [lpc EXCEPT ![p] = to]
  PROVE  PInv'
<1>1. \A n \in Nodes : lpc'[n] = lpc[n] \/ (lpc[n] = "listening" /\ lpc'[n] = to)
  BY Zenon DEF CInv, TypeOK
<1>2. \A n \in Nodes : lpc'[n] = "reply" <=> lpc[n] = "reply"
  BY <1>1, Zenon
<1> QED
  BY <1>2, QuietPInv, Zenon

LEMMA SameSocket ==
  ASSUME NEW a, NEW b, NEW n, NEW g, NEW m, <<a, 0, b>> = <<n, g, m>>
  PROVE  a = n /\ g = 0 /\ b = m
OBVIOUS

\* The queue pairs in D are set, the others stay.
LEMMA KeptBut ==
  ASSUME local_pools' = local_pools, NEW D,
         \A x \in DOMAIN qp : x \in DOMAIN qp' /\ (x \notin D => qp'[x] = qp[x]),
         \A a, b \in Nodes : inc'[a] = 0 /\ inc'[b] = 0 => \A i \in PoolIds :
           Qp(a, b, i) \in D => End(a, b, i)'
  PROVE  Kept
<1> SUFFICES ASSUME NEW a \in Nodes, NEW b \in Nodes, inc'[a] = 0, inc'[b] = 0,
                    NEW i \in PoolIds, End(a, b, i)
             PROVE  End(a, b, i)'
  BY Zenon DEF Kept
<1>1. PICK q, d : q = Qp(a, b, i) /\ d = Qp(b, a, i)
  BY Zenon
<1>2. Qp(a, b, i)' = q /\ Qp(b, a, i)' = d
  BY <1>1, NamesFixed, Zenon
<1>3. q \in DOMAIN qp /\ qp[q] = [state |-> "RTS", dest |-> d]
  BY <1>1, Zenon DEF End
<1>4. CASE q \in D
  BY <1>1, <1>4, Zenon
<1>5. CASE q \notin D
  BY <1>2, <1>3, <1>5, Zenon DEF End
<1> QED
  BY <1>4, <1>5, Zenon

LEMMA FilesSame ==
  ASSUME UNCHANGED <<local_pools, at, admitted, clients>>,
         \A n \in Nodes : phase'[n] \in Ready <=> phase[n] \in Ready
  PROVE  \A n, m \in Nodes : \A i \in PoolIds : SameFiles(n, m, i)
<1> TAKE n, m \in Nodes
<1> TAKE i \in PoolIds
<1>1. Reached(n, m, i)' => Reached(n, m, i)
  BY Zenon DEF Reached
<1>2. /\ ClientId(n, i) \in DOMAIN (admitted'[m]) =>
           /\ ClientId(n, i) \in DOMAIN admitted[m]
           /\ admitted'[m][ClientId(n, i)] = admitted[m][ClientId(n, i)]
      /\ ClientId(m, i) \in DOMAIN clients[n] =>
           /\ ClientId(m, i) \in DOMAIN (clients'[n])
           /\ clients'[n][ClientId(m, i)] = clients[n][ClientId(m, i)]
  BY Zenon
<1> QED
  BY <1>1, <1>2, Zenon DEF SameFiles

\* The context of the pool in turn goes out on a socket that was silent.
LEMMA SendContextPInv ==
  ASSUME CInv, PInv, TypeOK', NEW n \in Nodes, SendContext(n)
  PROVE  PInv'
<1>1. /\ phase[n] = "send" /\ phase' = [phase EXCEPT ![n] = "recv"]
      /\ UNCHANGED <<local_pools, inc, at, toClient, lpc, serving, admitted, clients, target_map>>
  BY Zenon DEF SendContext, config, listenerVars
<1>2. PICK s, c, m, i, q, r :
        /\ m = Peer(n) /\ i = at[n][2] /\ s = <<n, inc[n], m>>
        /\ q = [node |-> n, with |-> ClientId(m, i), inc |-> inc[n]]
        /\ c = [id |-> ClientId(n, i), qp |-> q]
        /\ r = [state |-> "RESET", dest |-> NoQp]
        /\ toServer' = [toServer EXCEPT ![s] = Append(toServer[s], c)]
        /\ qp' = Merge(qp, Single(q, r))
  BY Zenon DEF SendContext, Socket, ClientQp, Created
<1>3. /\ m \in Nodes /\ n < m /\ i \in PoolIds /\ s \in Sockets
  BY <1>1, <1>2, ClientSocket, Zenon DEF CInv, Connecting, Socket
<1>4. Kept
  <2>1. PICK f : f = qp
    BY Zenon
  <2>2. \A x \in DOMAIN f : x \in DOMAIN Merge(f, Single(q, r)) /\ Merge(f, Single(q, r))[x] = f[x]
    <3>1. PICK h : h = Single(q, r)
      BY Zenon
    <3>2. \A x \in DOMAIN f : x \in DOMAIN Merge(f, h) /\ Merge(f, h)[x] = f[x]
      <4>1. DOMAIN Merge(f, h) = DOMAIN f \cup DOMAIN h /\ \A x \in DOMAIN f : Merge(f, h)[x] = f[x]
        BY MergeFirst, Zenon
      <4> QED
        BY <4>1, Zenon
    <3> QED
      BY <3>1, <3>2, Zenon
  <2>3. \A x \in DOMAIN qp : x \in DOMAIN qp' /\ qp'[x] = qp[x]
    BY <1>2, <2>1, <2>2, Zenon
  <2> QED
    BY <1>1, <2>3, KeptIf, Zenon
<1>5. /\ phase'[n] = "recv" /\ \A u \in Nodes : u # n => phase'[u] = phase[u]
      /\ toServer'[s] = Append(toServer[s], c)
      /\ \A x \in Sockets : x # s => toServer'[x] = toServer[x]
  BY <1>1, <1>2, <1>3, Zenon DEF CInv, TypeOK
<1>6. \A u \in Nodes : phase'[u] \in Ready <=> phase[u] \in Ready
  BY <1>1, <1>5, Zenon DEF Ready
<1>7. ASSUME NEW a \in Nodes, NEW b \in Nodes, a < b, inc'[a] = 0
      PROVE  SameWire(a, b) \/ Wire(a, b)'
  <2>1. Served(b, <<a, 0, b>>)' <=> Served(b, <<a, 0, b>>)
    BY <1>1, Zenon DEF Served
  <2>2. <<a, 0, b>> \in Sockets
    <3>1. 0 \in Incarnations(a)
      BY <1>1, <1>7, Zenon DEF CInv, TypeOK
    <3> QED
      BY <1>7, <3>1, SocketOf, Zenon DEF Incoming
  <2>3. CASE <<a, 0, b>> # s
    <3>1. toServer'[<<a, 0, b>>] = toServer[<<a, 0, b>>]
      BY <1>5, <2>2, <2>3, Zenon
    <3>2. phase[a] \in {"recv", "fatal"} => phase'[a] \in {"recv", "fatal"}
      BY <1>5, Zenon
    <3> QED
      BY <1>1, <2>1, <3>1, <3>2, Zenon DEF SameWire
  <2>4. CASE <<a, 0, b>> = s
    <3>1. a = n /\ inc[n] = 0 /\ b = m
      <4>1. PICK g : g = inc[n]
        BY Zenon
      <4>2. <<a, 0, b>> = <<n, g, m>>
        BY <1>2, <2>4, <4>1, Zenon
      <4> QED
        BY <4>1, <4>2, SameSocket, Zenon
    <3>2. Idle(n, m)
      BY <1>1, <1>3, <3>1, Zenon DEF PInv, Wire
    <3>3. toServer[s] = <<>> /\ toClient[s] = <<>> /\ ~Served(m, s)
      BY <2>4, <3>1, <3>2, Zenon DEF Idle
    <3>4. toServer'[s] = <<c>>
      <4>1. Append(<<>>, c) = <<c>>
        OBVIOUS
      <4> QED
        BY <1>5, <3>3, <4>1, Zenon
    <3>5. c = [id |-> ClientId(n, i), qp |-> Qp(n, m, i)]
      BY <1>2, <3>1, Zenon DEF Qp
    <3>6. Asked(n, m, i)'
      BY <1>1, <2>1, <2>4, <3>1, <3>3, <3>4, <3>5, NamesFixed, Zenon DEF Asked
    <3>7. at'[n][2] = i /\ at'[n][1] = m
      BY <1>1, <1>2, Zenon DEF Peer
    <3> QED
      BY <1>5, <3>1, <3>6, <3>7, Zenon DEF Wire
  <2> QED
    BY <2>3, <2>4, Zenon
<1>8. \A u \in Nodes : target_map'[u] # <<>> => phase'[u] \in Ready
  BY <1>1, <1>6, Zenon DEF PInv
<1>9. \A a, b \in Nodes : \A j \in PoolIds : SameFiles(a, b, j)
  BY <1>1, <1>6, FilesSame, Zenon
<1> QED
  BY <1>1, <1>4, <1>7, <1>8, <1>9, PInvIf, Zenon

LEMMA SetOne ==
  ASSUME NEW q, NEW r, qp' = Merge(Single(q, r), qp)
  PROVE  /\ q \in DOMAIN qp' /\ qp'[q] = r
         /\ \A x \in DOMAIN qp : x \in DOMAIN qp' /\ (x \notin {q} => qp'[x] = qp[x])
<1>1. PICK f, g : f = qp /\ g = qp' /\ g = Merge(Single(q, r), f)
  BY Zenon
<1>2. Updated(g, f, q, r)
  BY <1>1, MergeUpdates, Zenon
<1>3. /\ q \in DOMAIN g /\ g[q] = r
      /\ \A x \in DOMAIN f : x \in DOMAIN g /\ (x \notin {q} => g[x] = f[x])
  BY <1>2, Zenon DEF Updated
<1> QED
  BY <1>1, <1>3, Zenon

LEMMA FirstSocket ==
  ASSUME TypeOK, NEW a \in Nodes, NEW b \in Nodes, a < b, inc[a] = 0
  PROVE  <<a, 0, b>> \in Sockets
<1>1. 0 \in Incarnations(a)
  BY Zenon DEF TypeOK
<1> QED
  BY <1>1, SocketOf, Zenon DEF Incoming

LEMMA NotFirst ==
  ASSUME NEW n, NEW w, NEW g, g # 0, NEW a, NEW b, NEW i
  PROVE  Qp(a, b, i) # [node |-> n, with |-> w, inc |-> g]
<1>1. PICK v : v = ClientId(b, i)
  BY Zenon
<1>2. [node |-> a, with |-> v, inc |-> 0] # [node |-> n, with |-> w, inc |-> g]
  OBVIOUS
<1> QED
  BY <1>1, <1>2, Zenon DEF Qp

\* The reply is that to the pool in turn: the pair is connected at both ends.
LEMMA ReceiveContextPInv ==
  ASSUME CInv, PInv, TypeOK', NEW n \in Nodes, ReceiveContext(n)
  PROVE  PInv'
<1>1. /\ phase[n] = "recv" /\ Advance(n, at[n])
      /\ UNCHANGED <<local_pools, inc, toServer, lpc, serving, admitted, target_map>>
  BY Zenon DEF ReceiveContext, config, listenerVars
<1>2. PICK s, c, m, i, q, r, w :
        /\ m = Peer(n) /\ i = at[n][2] /\ s = <<n, inc[n], m>> /\ w = ClientId(m, i)
        /\ q = [node |-> n, with |-> ClientId(m, i), inc |-> inc[n]]
        /\ c = Head(toClient[s]) /\ toClient[s] # <<>>
        /\ r = [state |-> "RTS", dest |-> c.qp]
        /\ toClient' = [toClient EXCEPT ![s] = Tail(toClient[s])]
        /\ qp' = Merge(Single(q, r), qp)
        /\ clients' = [clients EXCEPT ![n] = Merge(Single(q.with, q), clients[n])]
  BY Zenon DEF ReceiveContext, Socket, ClientQp, ConnectQp
<1>3. /\ m \in Nodes /\ n < m /\ i \in PoolIds /\ s \in Sockets /\ at[n][1] = m
  BY <1>1, <1>2, ClientSocket, Zenon DEF CInv, Connecting, Socket, Peer
<1>4. /\ q \in DOMAIN qp' /\ qp'[q] = r
      /\ \A x \in DOMAIN qp : x \in DOMAIN qp' /\ (x \notin {q} => qp'[x] = qp[x])
  <2>1. qp' = Merge(Single(q, r), qp)
    BY <1>2, Zenon
  <2> QED
    BY <2>1, SetOne, Zenon
<1>5. /\ \A u \in Nodes : u # n => at'[u] = at[u] /\ phase'[u] = phase[u] /\ clients'[u] = clients[u]
      /\ phase'[n] \in {"wait", "connect"}
      /\ at'[n] = IF i + 1 < local_pools THEN <<m, i + 1>> ELSE <<m + 1, 0>>
  <2>1. at[n] \in Nat \X Nat /\ at[n][1] \in Nodes /\ n < at[n][1] /\ at[n][2] < local_pools
    BY <1>1, ClientSocket, Zenon DEF CInv, TypeOK, LoopInv, Connecting, Peer
  <2>2. n <= at[n][1]
    BY <2>1 DEF Nodes
  <2>3. /\ \A u \in Nodes : u # n => at'[u] = at[u] /\ phase'[u] = phase[u]
        /\ phase'[n] \in {"wait", "connect"}
        /\ at'[n] = IF at[n][2] + 1 < local_pools THEN <<at[n][1], at[n][2] + 1>> ELSE <<at[n][1] + 1, 0>>
    BY <1>1, <2>1, <2>2, AdvanceLoop, Zenon DEF CInv
  <2>4. \A u \in Nodes : u # n => clients'[u] = clients[u]
    BY <1>2, Zenon DEF CInv, TypeOK
  <2> QED
    BY <1>2, <1>3, <2>3, <2>4, Zenon
<1>6. /\ toClient'[s] = Tail(toClient[s])
      /\ \A x \in Sockets : x # s => toClient'[x] = toClient[x]
  BY <1>2, <1>3, Zenon DEF CInv, TypeOK
<1>7. ASSUME inc[n] = 0
      PROVE  /\ s = <<n, 0, m>> /\ q = Qp(n, m, i) /\ Answered(n, m, i) /\ c.qp = Qp(m, n, i)
             /\ toClient'[s] = <<>> /\ toServer[s] = <<>> /\ ~Served(m, s)
  <2>1. s = <<n, 0, m>> /\ q = Qp(n, m, i)
    BY <1>2, <1>7, Zenon DEF Qp
  <2>2. Wire(n, m)
    BY <1>3, <1>7, Zenon DEF PInv
  <2>3. Answered(n, m, i)
    BY <1>2, <2>1, <2>2, Zenon DEF Wire, Idle, Asked, Answering
  <2>4. /\ toClient[s] = <<[id |-> ClientId(n, i), qp |-> Qp(m, n, i)]>>
        /\ toServer[s] = <<>> /\ ~Served(m, s)
    BY <2>1, <2>3, Zenon DEF Answered
  <2>5. PICK k, d : k = ClientId(n, i) /\ d = Qp(m, n, i)
    BY Zenon
  <2>6. Head(<<[id |-> k, qp |-> d]>>).qp = d /\ Tail(<<[id |-> k, qp |-> d]>>) = <<>>
    OBVIOUS
  <2> QED
    BY <1>2, <1>6, <2>1, <2>3, <2>4, <2>5, <2>6, Zenon
<1>8. inc[n] = 0 => End(n, m, i)'
  <2> HAVE inc[n] = 0
  <2>1. q = Qp(n, m, i) /\ r = [state |-> "RTS", dest |-> Qp(m, n, i)]
    BY <1>2, <1>7, Zenon
  <2>2. Qp(n, m, i)' = Qp(n, m, i) /\ Qp(m, n, i)' = Qp(m, n, i)
    BY <1>1, NamesFixed, Zenon
  <2> QED
    BY <1>4, <2>1, <2>2, Zenon DEF End
<1>9. Kept
  <2>1. ASSUME NEW a \in Nodes, NEW b \in Nodes, inc'[a] = 0, inc'[b] = 0, NEW j \in PoolIds,
               Qp(a, b, j) \in {q}
        PROVE  End(a, b, j)'
    <3>1. inc[n] = 0
      <4>1. PICK g : g = inc[n]
        BY Zenon
      <4>2. Qp(a, b, j) = [node |-> n, with |-> w, inc |-> g]
        BY <1>2, <2>1, <4>1, Zenon
      <4> QED
        BY <4>1, <4>2, NotFirst, Zenon
    <3>2. a = n /\ b = m /\ j = i
      <4>1. TypeOK /\ Qp(a, b, j) = Qp(n, m, i)
        BY <1>7, <2>1, <3>1, Zenon DEF CInv
      <4> QED
        BY <1>3, <4>1, QpInjective
    <3> QED
      BY <1>8, <3>1, <3>2, Zenon
  <2> QED
    BY <1>1, <1>4, <2>1, KeptBut, Zenon
<1>10. ASSUME NEW a \in Nodes, NEW b \in Nodes, a < b, inc'[a] = 0
       PROVE  SameWire(a, b) \/ Wire(a, b)'
  <2>1. Served(b, <<a, 0, b>>)' <=> Served(b, <<a, 0, b>>)
    BY <1>1, Zenon DEF Served
  <2>2. <<a, 0, b>> \in Sockets
    BY <1>1, <1>10, FirstSocket, Zenon DEF CInv
  <2>3. CASE <<a, 0, b>> # s
    <3>1. toClient'[<<a, 0, b>>] = toClient[<<a, 0, b>>]
      BY <1>6, <2>2, <2>3, Zenon
    <3>2. a = n => Idle(n, b)
      <4> HAVE a = n
      <4>1. b # m
        BY <1>1, <1>2, <1>10, <2>3, Zenon
      <4> QED
        BY <1>1, <1>3, <1>10, <4>1, Zenon DEF PInv, Wire
    <3> QED
      BY <1>1, <1>5, <2>1, <3>1, <3>2, Zenon DEF SameWire
  <2>4. CASE <<a, 0, b>> = s
    <3>1. a = n /\ inc[n] = 0 /\ b = m
      <4>1. PICK g : g = inc[n]
        BY Zenon
      <4>2. <<a, 0, b>> = <<n, g, m>>
        BY <1>2, <2>4, <4>1, Zenon
      <4> QED
        BY <4>1, <4>2, SameSocket, Zenon
    <3>2. Idle(n, m)'
      BY <1>1, <1>7, <2>1, <2>4, <3>1, Zenon DEF Idle
    <3> QED
      BY <3>1, <3>2, Zenon DEF Wire
  <2> QED
    BY <2>3, <2>4, Zenon
<1>11. phase[n] \notin Ready /\ phase'[n] \notin Ready
  BY <1>1, <1>5, Zenon DEF Ready
<1>12. ASSUME NEW a \in Nodes, NEW b \in Nodes, a < b, inc'[a] = 0, NEW j \in PoolIds
       PROVE  SameFiles(a, b, j) \/ Filed(a, b, j)'
  <2>1. CASE a # n
    <3>1. Reached(a, b, j)' => Reached(a, b, j)
      BY <1>5, <2>1, Zenon DEF Reached
    <3>2. /\ ClientId(a, j) \in DOMAIN (admitted'[b]) =>
               /\ ClientId(a, j) \in DOMAIN admitted[b]
               /\ admitted'[b][ClientId(a, j)] = admitted[b][ClientId(a, j)]
          /\ ClientId(b, j) \in DOMAIN clients[a] =>
               /\ ClientId(b, j) \in DOMAIN (clients'[a])
               /\ clients'[a][ClientId(b, j)] = clients[a][ClientId(b, j)]
      BY <1>1, <1>5, <2>1, Zenon
    <3> QED
      BY <1>5, <2>1, <3>1, <3>2, Zenon DEF SameFiles
  <2>2. CASE a = n
    <3>1. inc[n] = 0 /\ inc'[b] = 0 /\ inc'[n] = 0
      BY <1>1, <1>12, <2>2, LargerKeeps, Zenon DEF CInv
    <3>2. Filed(n, b, j)
      BY <1>12, <2>2, <3>1, Zenon DEF PInv
    <3>3. (End(n, b, j) => End(n, b, j)') /\ (End(b, n, j) => End(b, n, j)')
      BY <1>9, <3>1, Zenon DEF Kept
    <3>4. Reached(n, b, j)' => Reached(n, b, j) \/ (b = m /\ j = i)
      <4>1. b \in Nat /\ j \in Nat /\ i \in Nat /\ m \in Nat /\ local_pools \in Nat /\ j < local_pools
        BY <1>3 DEF Nodes, PoolIds, CInv, TypeOK
      <4>2. at[n][1] = m /\ at[n][2] = i
        BY <1>2, <1>3, Zenon
      <4>3. \/ at'[n][1] = m /\ at'[n][2] = i + 1
            \/ at'[n][1] = m + 1 /\ at'[n][2] = 0 /\ i + 1 >= local_pools
        BY <1>5, <4>1
      <4> QED
        BY <4>1, <4>2, <4>3 DEF Reached
    <3>5. PICK f, k : f = clients[n] /\ k = ClientId(b, j)
      BY Zenon
    <3>6. /\ w \in DOMAIN (clients'[n]) /\ clients'[n][w] = q
          /\ k \in DOMAIN f => k \in DOMAIN (clients'[n]) /\ (k # w => clients'[n][k] = f[k])
      <4>1. q.with = w
        <5>1. PICK g : g = inc[n]
          BY Zenon
        <5>2. [node |-> n, with |-> w, inc |-> g].with = w
          OBVIOUS
        <5> QED
          BY <1>2, <5>1, <5>2, Zenon
      <4>2. clients'[n] = Merge(Single(w, q), f)
        BY <1>2, <3>5, <4>1, Zenon DEF CInv, TypeOK
      <4>3. PICK h : h = Merge(Single(w, q), f)
        BY Zenon
      <4>4. Updated(h, f, w, q)
        BY <4>3, MergeUpdates, Zenon
      <4>5. /\ w \in DOMAIN h /\ h[w] = q
            /\ k \in DOMAIN f => k \in DOMAIN h /\ (k # w => h[k] = f[k])
        BY <4>4, Zenon DEF Updated
      <4> QED
        BY <4>2, <4>3, <4>5, Zenon
    <3>7. k = w => b = m /\ j = i
      <4>1. TypeOK /\ (k = w => ClientId(b, j) = ClientId(m, i))
        BY <1>2, <3>5, Zenon DEF CInv
      <4> QED
        BY <1>3, <4>1, IdInjective
    <3>8. /\ Reached(n, b, j) => End(n, b, j) /\ End(b, n, j) /\ k \in DOMAIN f /\ f[k] = Qp(n, b, j)
          /\ ClientId(n, j) \in DOMAIN admitted[b] =>
               admitted[b][ClientId(n, j)] = Qp(b, n, j) /\ End(b, n, j)
      BY <1>11, <3>2, <3>5, Zenon DEF Filed
    <3>9. b = m /\ j = i => End(n, b, j)' /\ End(b, n, j)
      BY <1>7, <1>8, <3>1, Zenon DEF Answered
    <3>10. b = m /\ j = i => k = w /\ q = Qp(n, b, j)
      BY <1>2, <1>7, <3>1, <3>5, Zenon
    <3>11. Reached(n, b, j)' => /\ End(n, b, j)' /\ End(b, n, j)'
                                /\ k \in DOMAIN (clients'[n]) /\ clients'[n][k] = Qp(n, b, j)
      <4> HAVE Reached(n, b, j)'
      <4>1. CASE b = m /\ j = i
        BY <3>3, <3>6, <3>9, <3>10, <4>1, Zenon
      <4>2. CASE ~(b = m /\ j = i)
        BY <3>3, <3>4, <3>6, <3>7, <3>8, <4>2, Zenon
      <4> QED
        BY <4>1, <4>2, Zenon
    <3>12. /\ ClientId(n, j)' = ClientId(n, j) /\ ClientId(b, j)' = k
           /\ Qp(n, b, j)' = Qp(n, b, j) /\ Qp(b, n, j)' = Qp(b, n, j)
      BY <1>1, <3>5, NamesFixed, Zenon
    <3>13. Filed(n, b, j)'
      BY <1>1, <3>3, <3>8, <3>11, <3>12, Zenon DEF Filed
    <3> QED
      BY <2>2, <3>13, Zenon
  <2> QED
    BY <2>1, <2>2, Zenon
<1>13. \A u \in Nodes : target_map'[u] # <<>> => phase'[u] \in Ready
  BY <1>1, <1>5, <1>11, Zenon DEF PInv
<1> QED
  BY <1>1, <1>9, <1>10, <1>12, <1>13, PInvIf, Zenon

\* The target maps are made of the two maps of clients, which are complete by then.
LEMMA TargetMade ==
  ASSUME CInv, PInv, NEW n \in Nodes, phase[n] = "wait", lpc[n] = "stopped", inc[n] = 0,
         NEW m \in Nodes, m # n, inc[m] = 0, NEW i \in PoolIds
  PROVE  TargetMap(n, i)[m] = Qp(n, m, i) /\ (m <= n => End(n, m, i))
<1>0. m \in Nat /\ n \in Nat /\ m < N /\ N \in Nat
  BY ConnectionAssumption DEF Nodes
<1>1. CASE m < n
  <2>1. phase[n] \notin Ready
    BY Zenon DEF Ready
  <2>2. ClientId(m, i) \in DOMAIN admitted[n]
    <3>1. DOMAIN admitted[n] = 0..(ExpectedClients(n) - 1)
      BY <2>1, Zenon DEF CInv, CountInv
    <3>2. TypeOK
      BY Zenon DEF CInv
    <3> QED
      BY <1>1, <3>1, <3>2, IdExpected, Zenon
  <2>3. admitted[n][ClientId(m, i)] = Qp(n, m, i) /\ End(n, m, i)
    BY <1>1, <2>2, Zenon DEF PInv, Filed
  <2>4. TargetMap(n, i)[m] = Find(admitted[n], ClientId(m, i))
    BY <1>0, <1>1 DEF TargetMap
  <2> QED
    BY <2>2, <2>3, <2>4, Zenon DEF Find
<1>2. CASE m > n
  <2>1. phase[n] \notin Ready /\ at[n] = <<N, 0>>
    BY Zenon DEF Ready, CInv, LoopInv
  <2>2. Reached(n, m, i)
    BY <1>0, <2>1 DEF Reached
  <2>3. n < m
    BY <1>0, <1>2, Zenon
  <2>4. ClientId(m, i) \in DOMAIN clients[n] /\ clients[n][ClientId(m, i)] = Qp(n, m, i)
    BY <2>1, <2>2, <2>3, Zenon DEF PInv, Filed
  <2>5. TargetMap(n, i)[m] = Find(clients[n], ClientId(m, i))
    BY <1>0, <1>2 DEF TargetMap
  <2>6. ~(m <= n)
    BY <1>0, <1>2
  <2> QED
    BY <2>4, <2>5, <2>6, Zenon DEF Find
<1> QED
  BY <1>0, <1>1, <1>2

LEMMA MakePoolsPInv ==
  ASSUME CInv, PInv, TypeOK', NEW n \in Nodes, MakePools(n)
  PROVE  PInv'
<1>1. /\ phase[n] = "wait" /\ lpc[n] = "stopped" /\ phase' = [phase EXCEPT ![n] = "exchange"]
      /\ admitted' = [admitted EXCEPT ![n] = <<>>] /\ clients' = [clients EXCEPT ![n] = <<>>]
      /\ target_map' = [target_map EXCEPT ![n] = [i \in PoolIds |-> TargetMap(n, i)]]
      /\ UNCHANGED <<local_pools, inc, at, toServer, toClient, lpc, serving>>
  BY Zenon DEF MakePools, config
<1>2. PICK D, F : /\ D = {LoopbackQp(n, i) : i \in PoolIds}
                  /\ F = [q \in D |-> [state |-> "RTS", dest |-> q]]
                  /\ qp' = Merge(F, qp)
  BY Zenon DEF MakePools
<1>3. /\ DOMAIN F = D /\ \A q \in D : F[q] = [state |-> "RTS", dest |-> q]
  BY <1>2, Zenon
<1>4. /\ \A q \in D : q \in DOMAIN qp' /\ qp'[q] = [state |-> "RTS", dest |-> q]
      /\ \A x \in DOMAIN qp : x \in DOMAIN qp' /\ (x \notin D => qp'[x] = qp[x])
  <2>1. PICK f, g : f = qp /\ g = qp' /\ g = Merge(F, f)
    BY <1>2, Zenon
  <2>2. /\ DOMAIN g = DOMAIN F \cup DOMAIN f
        /\ \A x \in DOMAIN F : g[x] = F[x]
        /\ \A x \in DOMAIN f : x \notin DOMAIN F => g[x] = f[x]
    BY <2>1, Zenon DEF Merge
  <2>3. /\ \A q \in D : q \in DOMAIN g /\ g[q] = [state |-> "RTS", dest |-> q]
        /\ \A x \in DOMAIN f : x \in DOMAIN g /\ (x \notin D => g[x] = f[x])
    BY <1>3, <2>2, Zenon
  <2> QED
    BY <2>1, <2>3, Zenon
<1>5. inc[n] = 0 => \A i \in PoolIds : Qp(n, n, i) \in D /\ End(n, n, i)'
  <2> SUFFICES ASSUME inc[n] = 0, NEW i \in PoolIds
               PROVE  Qp(n, n, i) \in D /\ End(n, n, i)'
    BY Zenon
  <2>1. LoopbackQp(n, i) = Qp(n, n, i)
    BY Zenon DEF LoopbackQp, Qp
  <2>2. Qp(n, n, i) \in D
    BY <1>2, <2>1, Zenon
  <2>3. Qp(n, n, i)' = Qp(n, n, i)
    BY <1>1, NamesFixed, Zenon
  <2> QED
    BY <1>4, <2>2, <2>3, Zenon DEF End
<1>6. Kept
  <2>1. ASSUME NEW a \in Nodes, NEW b \in Nodes, inc'[a] = 0, inc'[b] = 0, NEW j \in PoolIds,
               Qp(a, b, j) \in D
        PROVE  End(a, b, j)'
    <3>1. PICK k \in PoolIds : Qp(a, b, j) = LoopbackQp(n, k)
      BY <1>2, <2>1, Zenon
    <3>2. inc[n] = 0
      <4>1. PICK g, w : g = inc[n] /\ w = ClientId(n, k)
        BY Zenon
      <4>2. Qp(a, b, j) = [node |-> n, with |-> w, inc |-> g]
        BY <3>1, <4>1, Zenon DEF LoopbackQp
      <4> QED
        BY <4>1, <4>2, NotFirst, Zenon
    <3>3. TypeOK /\ Qp(a, b, j) = Qp(n, n, k)
      BY <3>1, <3>2, Zenon DEF LoopbackQp, Qp, CInv
    <3>4. a = n /\ b = n /\ j = k
      BY <3>3, QpInjective
    <3> QED
      BY <1>5, <3>2, <3>4, Zenon
  <2> QED
    BY <1>1, <1>4, <2>1, KeptBut, Zenon
<1>7. /\ phase'[n] = "exchange" /\ admitted'[n] = <<>>
      /\ \A u \in Nodes : u # n => /\ phase'[u] = phase[u] /\ admitted'[u] = admitted[u]
                                   /\ clients'[u] = clients[u] /\ target_map'[u] = target_map[u]
  BY <1>1, Zenon DEF CInv, TypeOK
<1>8. phase'[n] \in Ready
  BY <1>7, Zenon DEF Ready
<1>9. ASSUME NEW a \in Nodes, NEW b \in Nodes, a < b, inc'[a] = 0
      PROVE  SameWire(a, b)
  <2>1. Served(b, <<a, 0, b>>)' <=> Served(b, <<a, 0, b>>)
    BY <1>1, Zenon DEF Served
  <2>2. phase[a] \in {"recv", "fatal"} => phase'[a] \in {"recv", "fatal"}
    BY <1>1, <1>7, Zenon
  <2> QED
    BY <1>1, <2>1, <2>2, Zenon DEF SameWire
<1>10. ASSUME NEW a \in Nodes, NEW b \in Nodes, a < b, inc'[a] = 0, NEW j \in PoolIds
       PROVE  SameFiles(a, b, j)
  <2>1. Reached(a, b, j)' => Reached(a, b, j)
    BY <1>1, Zenon DEF Reached
  <2>2. DOMAIN <<>> = {}
    OBVIOUS
  <2>3. ClientId(a, j) \in DOMAIN (admitted'[b]) =>
          /\ ClientId(a, j) \in DOMAIN admitted[b]
          /\ admitted'[b][ClientId(a, j)] = admitted[b][ClientId(a, j)]
    BY <1>7, <2>2, Zenon
  <2>4. phase'[a] \notin Ready => a # n
    BY <1>8, Zenon
  <2>5. a # n => /\ phase'[a] = phase[a]
                 /\ ClientId(b, j) \in DOMAIN clients[a] =>
                      /\ ClientId(b, j) \in DOMAIN (clients'[a])
                      /\ clients'[a][ClientId(b, j)] = clients[a][ClientId(b, j)]
    BY <1>7, Zenon
  <2> QED
    BY <2>1, <2>3, <2>4, <2>5, Zenon DEF SameFiles
<1>11. \A u \in Nodes : target_map'[u] # <<>> => phase'[u] \in Ready
  BY <1>7, <1>8, Zenon DEF PInv
<1>12. ASSUME NEW u \in Nodes, NEW m \in Nodes, target_map'[u] # <<>>, inc'[u] = 0, inc'[m] = 0
       PROVE  target_map'[u] = target_map[u] \/ \A i \in PoolIds : Target(u, m, i)'
  <2>1. CASE u # n
    BY <1>7, <2>1, Zenon
  <2>2. CASE u = n
    <3> SUFFICES ASSUME NEW i \in PoolIds PROVE Target(n, m, i)'
      BY <2>2, Zenon
    <3>1. target_map'[n][i] = TargetMap(n, i)
      BY <1>1, Zenon DEF CInv, TypeOK
    <3>2. inc[n] = 0 /\ inc[m] = 0 /\ inc'[n] = 0
      BY <1>1, <1>12, <2>2, Zenon
    <3>3. Qp(n, m, i)' = Qp(n, m, i)
      BY <1>1, NamesFixed, Zenon
    <3>4. TargetMap(n, i)[m] = Qp(n, m, i) /\ (m <= n => End(n, m, i)')
      <4>1. CASE m = n
        <5>1. ~(n < n)
          BY DEF Nodes
        <5>2. TargetMap(n, i)[n] = LoopbackQp(n, i)
          BY <5>1, Zenon DEF TargetMap
        <5>3. LoopbackQp(n, i) = Qp(n, n, i)
          BY <3>2, Zenon DEF LoopbackQp, Qp
        <5> QED
          BY <1>5, <3>2, <4>1, <5>2, <5>3, Zenon
      <4>2. CASE m # n
        <5>1. TargetMap(n, i)[m] = Qp(n, m, i) /\ (m <= n => End(n, m, i))
          BY <1>1, <3>2, <4>2, TargetMade, Zenon
        <5>2. End(n, m, i) => End(n, m, i)'
          BY <1>6, <1>12, <3>2, Zenon DEF Kept
        <5> QED
          BY <5>1, <5>2, Zenon
      <4> QED
        BY <4>1, <4>2, Zenon
    <3> QED
      BY <3>1, <3>3, <3>4, Zenon DEF Target
  <2> QED
    BY <2>1, <2>2, Zenon
<1> QED
  BY <1>1, <1>6, <1>9, <1>10, <1>11, <1>12, PInvIf, Zenon

\* Node 0 was connecting, and is not the first incarnation any more.
LEMMA RestartPInv ==
  ASSUME CInv, PInv, TypeOK', Restart
  PROVE  PInv'
<1>1. /\ phase[0] \in Connecting
      /\ inc' = [inc EXCEPT ![0] = inc[0] + 1] /\ phase' = [phase EXCEPT ![0] = "down"]
      /\ at' = [at EXCEPT ![0] = <<0, 0>>] /\ lpc' = [lpc EXCEPT ![0] = "off"]
      /\ clients' = [clients EXCEPT ![0] = <<>>]
      /\ qp' = [q \in {q \in DOMAIN qp : q.node # 0} |-> qp[q]]
      /\ UNCHANGED <<local_pools, toServer, toClient, serving, admitted, target_map>>
  BY Zenon DEF Restart, config, Connecting
<1>2. 0 \in Nodes
  BY ConnectionAssumption DEF Nodes
<1>3. inc'[0] # 0
  <2>1. inc[0] \in Nat
    BY <1>2, ConnectionAssumption DEF CInv, TypeOK, Incarnations
  <2>2. inc'[0] = inc[0] + 1
    BY <1>1, <1>2, Zenon DEF CInv, TypeOK
  <2> QED
    BY <2>1, <2>2
<1>4. \A u \in Nodes : u # 0 => /\ inc'[u] = inc[u] /\ phase'[u] = phase[u] /\ at'[u] = at[u]
                                /\ lpc'[u] = lpc[u] /\ clients'[u] = clients[u]
  BY <1>1, Zenon DEF CInv, TypeOK
<1>5. Kept
  <2>1. ASSUME NEW a \in Nodes, NEW b \in Nodes, inc'[a] = 0, inc'[b] = 0, NEW i \in PoolIds,
               Qp(a, b, i) \in DOMAIN qp
        PROVE  Qp(a, b, i) \in DOMAIN qp' /\ qp'[Qp(a, b, i)] = qp[Qp(a, b, i)]
    <3>1. a # 0
      BY <1>3, <2>1, Zenon
    <3>2. PICK w : w = ClientId(b, i)
      BY Zenon
    <3>3. [node |-> a, with |-> w, inc |-> 0].node = a
      OBVIOUS
    <3>4. Qp(a, b, i) \in {q \in DOMAIN qp : q.node # 0}
      BY <2>1, <3>1, <3>2, <3>3, Zenon DEF Qp
    <3> QED
      BY <1>1, <3>4, Zenon
  <2> QED
    BY <1>1, <2>1, KeptIf, Zenon
<1>6. ASSUME NEW a \in Nodes, NEW b \in Nodes, a < b, inc'[a] = 0
      PROVE  /\ inc[a] = 0 /\ SameWire(a, b) /\ \A j \in PoolIds : SameFiles(a, b, j)
  <2>1. a # 0 /\ b # 0
    <3>1. b # 0
      BY <1>6 DEF Nodes
    <3> QED
      BY <1>3, <1>6, <3>1, Zenon
  <2>2. Served(b, <<a, 0, b>>)' <=> Served(b, <<a, 0, b>>)
    BY <1>1, <1>4, <2>1, Zenon DEF Served
  <2>3. SameWire(a, b)
    BY <1>1, <1>4, <2>1, <2>2, Zenon DEF SameWire
  <2>4. ASSUME NEW j \in PoolIds PROVE SameFiles(a, b, j)
    <3>1. Reached(a, b, j)' => Reached(a, b, j)
      BY <1>4, <2>1, Zenon DEF Reached
    <3>2. /\ ClientId(a, j) \in DOMAIN (admitted'[b]) =>
               /\ ClientId(a, j) \in DOMAIN admitted[b]
               /\ admitted'[b][ClientId(a, j)] = admitted[b][ClientId(a, j)]
          /\ ClientId(b, j) \in DOMAIN clients[a] =>
               /\ ClientId(b, j) \in DOMAIN (clients'[a])
               /\ clients'[a][ClientId(b, j)] = clients[a][ClientId(b, j)]
      BY <1>1, <1>4, <2>1, Zenon
    <3> QED
      BY <1>4, <2>1, <3>1, <3>2, Zenon DEF SameFiles
  <2> QED
    BY <1>4, <1>6, <2>1, <2>3, <2>4, Zenon
<1>7. \A u \in Nodes : inc'[u] = 0 => inc[u] = 0
  BY <1>3, <1>4, Zenon
<1>8. \A u \in Nodes : target_map'[u] # <<>> => phase'[u] \in Ready
  <2>1. phase[0] \notin Ready
    BY <1>1, Zenon DEF Ready, Connecting
  <2> QED
    BY <1>1, <1>2, <1>4, <2>1, Zenon DEF PInv
<1> QED
  BY <1>1, <1>5, <1>6, <1>7, <1>8, PInvIf, Zenon

\* A first incarnation sends only about the pool in turn.
LEMMA ContextInTurn ==
  ASSUME CInv, PInv, NEW m \in Nodes, NEW s \in Incoming(m), toServer[s] # <<>>, NEW p, p = s[1],
         inc[p] = 0, NEW i \in PoolIds, Head(toServer[s]).id = ClientId(p, i)
  PROVE  /\ s = <<p, 0, m>> /\ Asked(p, m, i) /\ at[p][1] = m /\ at[p][2] = i
         /\ phase[p] \in {"recv", "fatal"}
         /\ Head(toServer[s]).qp = Qp(p, m, i) /\ Tail(toServer[s]) = <<>>
<1>2. /\ s \in Sockets /\ p \in Nodes /\ p < m /\ s[2] \in Incarnations(p) /\ s = <<p, s[2], m>>
  BY SocketParts, Zenon
<1>3. ~(s[2] > inc[p])
  BY <1>2, Zenon DEF CInv, ContextInv
<1>4. s[2] = 0
  BY <1>2, <1>3, ConnectionAssumption DEF Incarnations
<1>5. s = <<p, 0, m>>
  BY <1>2, <1>4, Zenon
<1>6. Wire(p, m)
  BY <1>2, Zenon DEF PInv
<1>7. PICK k : k = at[p][2]
  BY Zenon
<1>8. phase[p] \in {"recv", "fatal"} /\ at[p][1] = m /\ Asked(p, m, k)
  BY <1>5, <1>6, <1>7, Zenon DEF Wire, Idle, Answering, Answered
<1>9. toServer[s] = <<[id |-> ClientId(p, k), qp |-> Qp(p, m, k)]>>
  BY <1>5, <1>8, Zenon DEF Asked
<1>10. Head(toServer[s]).id = ClientId(p, k) /\ Head(toServer[s]).qp = Qp(p, m, k) /\ Tail(toServer[s]) = <<>>
  <2>1. PICK w, d : w = ClientId(p, k) /\ d = Qp(p, m, k)
    BY Zenon
  <2>2. /\ Head(<<[id |-> w, qp |-> d]>>).id = w /\ Head(<<[id |-> w, qp |-> d]>>).qp = d
        /\ Tail(<<[id |-> w, qp |-> d]>>) = <<>>
    OBVIOUS
  <2> QED
    BY <1>9, <2>1, <2>2, Zenon
<1>11. k = i
  <2>1. TypeOK /\ ClientId(p, k) = ClientId(p, i)
    BY <1>10, Zenon DEF CInv
  <2>2. k \in PoolIds
    BY <1>2, <1>7 DEF CInv, TypeOK, LoopInv, PoolIds
  <2> QED
    BY <1>2, <2>1, <2>2, IdInjective, Zenon
<1> QED
  BY <1>5, <1>7, <1>8, <1>10, <1>11, Zenon

LEMMA HandleContextPInv ==
  ASSUME CInv, PInv, TypeOK', NEW m \in Nodes, NEW s \in Incoming(m), HandleContext(m, s)
  PROVE  PInv'
<1>1. PICK c, q, r, w :
        /\ c = Head(toServer[s]) /\ w = c.id /\ q = [node |-> m, with |-> w, inc |-> s[2]]
        /\ r = [state |-> "RTS", dest |-> c.qp] /\ qp' = Merge(Single(q, r), qp)
        /\ admitted' = [admitted EXCEPT ![m] = Merge(Single(w, q), admitted[m])]
        /\ serving' = [serving EXCEPT ![m] = [sock |-> s, qp |-> q]]
  BY Zenon DEF HandleContext, ConnectQp
<1>2. /\ lpc[m] = "listening" /\ toServer[s] # <<>>
      /\ toServer' = [toServer EXCEPT ![s] = Tail(toServer[s])]
      /\ lpc' = [lpc EXCEPT ![m] = "reply"]
      /\ UNCHANGED <<local_pools, inc, phase, at, toClient, clients, target_map>>
  BY Zenon DEF HandleContext, config
<1>3. PICK p : p = s[1]
  BY Zenon
<1>4. s \in Sockets /\ p \in Nodes /\ p < m /\ s = <<p, s[2], m>>
  BY <1>3, SocketParts, Zenon
<1>5. PICK i \in PoolIds : w = ClientId(p, i)
  BY <1>1, <1>2, <1>3, ContextOf, Zenon
<1>6. /\ lpc'[m] = "reply" /\ serving'[m] = [sock |-> s, qp |-> q]
      /\ toServer'[s] = Tail(toServer[s]) /\ \A x \in Sockets : x # s => toServer'[x] = toServer[x]
      /\ \A u \in Nodes : u # m => /\ lpc'[u] = lpc[u] /\ admitted'[u] = admitted[u]
                                   /\ serving'[u] = serving[u]
  BY <1>1, <1>2, <1>4, Zenon DEF CInv, TypeOK
<1>7. serving'[m].sock = s /\ serving'[m].qp = q
  BY <1>6
<1>8. /\ q \in DOMAIN qp' /\ qp'[q] = r
      /\ \A x \in DOMAIN qp : x \in DOMAIN qp' /\ (x \notin {q} => qp'[x] = qp[x])
  <2>1. qp' = Merge(Single(q, r), qp)
    BY <1>1, Zenon
  <2> QED
    BY <2>1, SetOne, Zenon
<1>9. ASSUME inc[p] = 0
      PROVE  /\ s = <<p, 0, m>> /\ Asked(p, m, i) /\ at[p][1] = m /\ at[p][2] = i
             /\ phase[p] \in {"recv", "fatal"}
             /\ c.qp = Qp(p, m, i) /\ Tail(toServer[s]) = <<>> /\ q = Qp(m, p, i) /\ End(m, p, i)'
  <2>1. /\ s = <<p, 0, m>> /\ Asked(p, m, i) /\ at[p][1] = m /\ at[p][2] = i
        /\ phase[p] \in {"recv", "fatal"}
        /\ c.qp = Qp(p, m, i) /\ Tail(toServer[s]) = <<>>
    <3>1. toServer[s] # <<>> /\ Head(toServer[s]).id = ClientId(p, i)
      BY <1>1, <1>2, <1>5, Zenon
    <3>2. /\ s = <<p, 0, m>> /\ Asked(p, m, i) /\ at[p][1] = m /\ at[p][2] = i
          /\ phase[p] \in {"recv", "fatal"}
          /\ Head(toServer[s]).qp = Qp(p, m, i) /\ Tail(toServer[s]) = <<>>
      BY <1>3, <1>9, <3>1, ContextInTurn
    <3> QED
      BY <1>1, <3>2, Zenon
  <2>2. s[2] = 0
    <3>1. <<p, 0, m>>[2] = 0
      OBVIOUS
    <3> QED
      BY <2>1, <3>1, Zenon
  <2>3. q = Qp(m, p, i)
    BY <1>1, <1>5, <2>2, Zenon DEF Qp
  <2>4. Qp(m, p, i)' = Qp(m, p, i) /\ Qp(p, m, i)' = Qp(p, m, i)
    BY <1>2, NamesFixed, Zenon
  <2>5. End(m, p, i)'
    BY <1>1, <1>8, <2>1, <2>3, <2>4, Zenon DEF End
  <2> QED
    BY <2>1, <2>3, <2>5, Zenon
<1>10. Kept
  <2>1. ASSUME NEW a \in Nodes, NEW b \in Nodes, inc'[a] = 0, inc'[b] = 0, NEW j \in PoolIds,
               Qp(a, b, j) \in {q}
        PROVE  End(a, b, j)'
    <3>1. PICK g, v : g = s[2] /\ v = ClientId(b, j)
      BY Zenon
    <3>2. [node |-> a, with |-> v, inc |-> 0] = [node |-> m, with |-> w, inc |-> g]
      BY <1>1, <2>1, <3>1, Zenon DEF Qp
    <3>3. a = m /\ v = w
      BY <3>2, Zenon
    <3>4. TypeOK /\ ClientId(b, j) = ClientId(p, i)
      BY <1>5, <3>1, <3>3, Zenon DEF CInv
    <3>5. b = p /\ j = i
      BY <1>4, <3>4, IdInjective
    <3> QED
      BY <1>2, <1>9, <2>1, <3>3, <3>5, Zenon
  <2> QED
    BY <1>2, <1>8, <2>1, KeptBut, Zenon
<1>11. ASSUME NEW a \in Nodes, NEW b \in Nodes, a < b, inc'[a] = 0
       PROVE  SameWire(a, b) \/ Wire(a, b)'
  <2>1. <<a, 0, b>> \in Sockets
    BY <1>2, <1>11, FirstSocket, Zenon DEF CInv
  <2>2. CASE <<a, 0, b>> # s
    <3>1. toServer'[<<a, 0, b>>] = toServer[<<a, 0, b>>]
      BY <1>6, <2>1, <2>2, Zenon
    <3>2. CASE b = m
      <4>1. ~Served(m, <<a, 0, b>>)
        BY <1>2, Zenon DEF Served
      <4>2. ~Served(m, <<a, 0, b>>)'
        BY <1>7, <2>2, Zenon DEF Served
      <4> QED
        BY <1>2, <3>1, <3>2, <4>1, <4>2, Zenon DEF SameWire
    <3>3. CASE b # m
      <4>1. Served(b, <<a, 0, b>>)' <=> Served(b, <<a, 0, b>>)
        BY <1>6, <3>3, Zenon DEF Served
      <4> QED
        BY <1>2, <1>6, <3>1, <3>3, <4>1, Zenon DEF SameWire
    <3> QED
      BY <3>2, <3>3, Zenon
  <2>3. CASE <<a, 0, b>> = s
    <3>1. a = p /\ b = m
      <4>1. PICK g : g = s[2]
        BY Zenon
      <4>2. <<a, 0, b>> = <<p, g, m>>
        BY <1>4, <2>3, <4>1, Zenon
      <4> QED
        BY <4>2, SameSocket, Zenon
    <3>2. inc[p] = 0
      BY <1>2, <1>11, <3>1, Zenon
    <3>3. Served(m, s)'
      BY <1>6, <1>7, Zenon DEF Served
    <3>4. toClient[s] = <<>>
      BY <1>9, <3>2, Zenon DEF Asked
    <3>5. Qp(m, p, i)' = Qp(m, p, i)
      BY <1>2, NamesFixed, Zenon
    <3>6. Answering(p, m, i)'
      BY <1>2, <1>6, <1>7, <1>9, <3>2, <3>3, <3>4, <3>5, Zenon DEF Answering
    <3>7. Wire(p, m)'
      BY <1>2, <1>9, <3>2, <3>6, Zenon DEF Wire
    <3> QED
      BY <3>1, <3>7, Zenon
  <2> QED
    BY <2>2, <2>3, Zenon
<1>12. ASSUME NEW a \in Nodes, NEW b \in Nodes, a < b, inc'[a] = 0, NEW j \in PoolIds
       PROVE  SameFiles(a, b, j) \/ Filed(a, b, j)'
  <2>1. Reached(a, b, j)' <=> Reached(a, b, j)
    BY <1>2, Zenon DEF Reached
  <2>2. ClientId(b, j) \in DOMAIN clients[a] =>
          /\ ClientId(b, j) \in DOMAIN (clients'[a])
          /\ clients'[a][ClientId(b, j)] = clients[a][ClientId(b, j)]
    BY <1>2, Zenon
  <2>3. CASE b # m
    <3>1. ClientId(a, j) \in DOMAIN (admitted'[b]) =>
            /\ ClientId(a, j) \in DOMAIN admitted[b]
            /\ admitted'[b][ClientId(a, j)] = admitted[b][ClientId(a, j)]
      BY <1>6, <2>3, Zenon
    <3> QED
      BY <1>2, <2>1, <2>2, <3>1, Zenon DEF SameFiles
  <2>4. CASE b = m
    <3>1. PICK f, h, k : f = admitted[m] /\ h = admitted'[m] /\ k = ClientId(a, j)
      BY Zenon
    <3>2. Updated(h, f, w, q)
      <4>1. h = Merge(Single(w, q), f)
        BY <1>1, <3>1, Zenon DEF CInv, TypeOK
      <4> QED
        BY <4>1, MergeUpdates, Zenon
    <3>3. CASE k # w
      <4>1. k \in DOMAIN h => k \in DOMAIN f /\ h[k] = f[k]
        BY <3>2, <3>3, Zenon DEF Updated
      <4>2. ClientId(a, j) \in DOMAIN (admitted'[b]) =>
              /\ ClientId(a, j) \in DOMAIN admitted[b]
              /\ admitted'[b][ClientId(a, j)] = admitted[b][ClientId(a, j)]
        BY <2>4, <3>1, <4>1, Zenon
      <4> QED
        BY <1>2, <2>1, <2>2, <4>2, Zenon DEF SameFiles
    <3>4. CASE k = w
      <4>1. TypeOK /\ ClientId(a, j) = ClientId(p, i)
        BY <1>5, <3>1, <3>4, Zenon DEF CInv
      <4>2. a = p /\ j = i
        BY <1>4, <4>1, IdInjective
      <4>3. inc[p] = 0 /\ inc'[p] = 0 /\ inc'[m] = 0
        BY <1>2, <1>4, <1>12, <4>2, LargerKeeps, Zenon DEF CInv
      <4>4. Filed(p, m, i)
        BY <1>4, <4>3, Zenon DEF PInv
      <4>5. (End(p, m, i) => End(p, m, i)') /\ (End(m, p, i) => End(m, p, i)')
        BY <1>4, <1>10, <4>3, Zenon DEF Kept
      <4>6. h[w] = q /\ q = Qp(m, p, i) /\ End(m, p, i)'
        BY <1>9, <3>2, <4>3, Zenon DEF Updated
      <4>7. admitted'[m][ClientId(p, i)] = Qp(m, p, i)
        BY <1>5, <3>1, <4>6, Zenon
      <4>8. Reached(p, m, i)' <=> Reached(p, m, i)
        BY <2>1, <2>4, <4>2, Zenon
      <4>9. Filed(p, m, i)'
        BY <1>2, <4>4, <4>5, <4>6, <4>7, <4>8, NamesFixed, Zenon DEF Filed
      <4> QED
        BY <2>4, <4>2, <4>9, Zenon
    <3> QED
      BY <3>3, <3>4, Zenon
  <2> QED
    BY <2>3, <2>4, Zenon
<1>13. \A u \in Nodes : target_map'[u] # <<>> => phase'[u] \in Ready
  BY <1>2, Zenon DEF PInv
<1> QED
  BY <1>2, <1>10, <1>11, <1>12, <1>13, PInvIf, Zenon

\* The listener answers the client whose pair it has connected.
LEMMA ReplyPInv ==
  ASSUME CInv, PInv, TypeOK', NEW m \in Nodes, Reply(m)
  PROVE  PInv'
<1>1. PICK s, q, w :
        /\ s = serving[m].sock /\ q = serving[m].qp /\ w = q.with
        /\ toClient' = [toClient EXCEPT ![s] = Append(toClient[s], [id |-> w, qp |-> q])]
  BY Zenon DEF Reply
<1>2. /\ lpc[m] = "reply" /\ lpc' = [lpc EXCEPT ![m] = "listening"]
      /\ serving' = [serving EXCEPT ![m] = NoServing]
      /\ UNCHANGED <<local_pools, inc, phase, at, toServer, qp, admitted, clients, target_map>>
  BY Zenon DEF Reply, config
<1>3. s \in Incoming(m)
  BY <1>1, <1>2, Zenon DEF CInv, CountInv
<1>4. PICK p : p = s[1] /\ s \in Sockets /\ p \in Nodes /\ p < m /\ s = <<p, s[2], m>>
  BY <1>3, SocketParts, Zenon
<1>5. /\ lpc'[m] = "listening"
      /\ toClient'[s] = Append(toClient[s], [id |-> w, qp |-> q])
      /\ \A x \in Sockets : x # s => toClient'[x] = toClient[x]
      /\ \A u \in Nodes : u # m => lpc'[u] = lpc[u] /\ serving'[u] = serving[u]
  BY <1>1, <1>2, <1>4, Zenon DEF CInv, TypeOK
<1>6. Kept
  BY <1>2, KeptIf, Zenon
<1>7. ASSUME NEW a \in Nodes, NEW b \in Nodes, a < b, inc'[a] = 0
      PROVE  SameWire(a, b) \/ Wire(a, b)'
  <2>1. <<a, 0, b>> \in Sockets
    BY <1>2, <1>7, FirstSocket, Zenon DEF CInv
  <2>2. CASE <<a, 0, b>> # s
    <3>1. toClient'[<<a, 0, b>>] = toClient[<<a, 0, b>>]
      BY <1>5, <2>1, <2>2, Zenon
    <3>2. CASE b = m
      <4>1. ~Served(m, <<a, 0, b>>)
        BY <1>1, <2>2, Zenon DEF Served
      <4>2. ~Served(m, <<a, 0, b>>)'
        BY <1>5, Zenon DEF Served
      <4> QED
        BY <1>2, <3>1, <3>2, <4>1, <4>2, Zenon DEF SameWire
    <3>3. CASE b # m
      <4>1. Served(b, <<a, 0, b>>)' <=> Served(b, <<a, 0, b>>)
        BY <1>5, <3>3, Zenon DEF Served
      <4> QED
        BY <1>2, <1>5, <3>1, <3>3, <4>1, Zenon DEF SameWire
    <3> QED
      BY <3>2, <3>3, Zenon
  <2>3. CASE <<a, 0, b>> = s
    <3>1. a = p /\ b = m
      <4>1. PICK g : g = s[2]
        BY Zenon
      <4>2. <<a, 0, b>> = <<p, g, m>>
        BY <1>4, <2>3, <4>1, Zenon
      <4> QED
        BY <4>2, SameSocket, Zenon
    <3>2. s = <<p, 0, m>> /\ inc[p] = 0 /\ inc'[p] = 0
      BY <1>2, <1>7, <2>3, <3>1, Zenon
    <3>3. Wire(p, m)
      BY <1>4, <3>2, Zenon DEF PInv
    <3>4. Served(m, s)
      BY <1>1, <1>2, Zenon DEF Served
    <3>5. PICK i : i = at[p][2]
      BY Zenon
    <3>6. phase[p] \in {"recv", "fatal"} /\ at[p][1] = m /\ Answering(p, m, i)
      BY <3>2, <3>3, <3>4, <3>5, Zenon DEF Wire, Idle, Asked, Answered
    <3>7. /\ toServer[s] = <<>> /\ toClient[s] = <<>> /\ q = Qp(m, p, i) /\ End(m, p, i)
      BY <1>1, <3>2, <3>6, Zenon DEF Answering
    <3>8. w = ClientId(p, i)
      <4>1. PICK k : k = ClientId(p, i)
        BY Zenon
      <4>2. [node |-> m, with |-> k, inc |-> 0].with = k
        OBVIOUS
      <4> QED
        BY <1>1, <3>7, <4>1, <4>2, Zenon DEF Qp
    <3>9. toClient'[s] = <<[id |-> ClientId(p, i), qp |-> Qp(m, p, i)]>>
      <4>1. Append(<<>>, [id |-> w, qp |-> q]) = <<[id |-> w, qp |-> q]>>
        OBVIOUS
      <4> QED
        BY <1>5, <3>7, <3>8, <4>1, Zenon
    <3>10. ~Served(m, s)'
      BY <1>5, Zenon DEF Served
    <3>11. End(m, p, i)'
      <4>1. inc'[m] = 0 /\ i \in PoolIds
        <5>1. i \in PoolIds
          BY <1>4, <3>5 DEF CInv, TypeOK, LoopInv, PoolIds
        <5>2. inc[m] = 0
          BY <1>4, LargerKeeps, Zenon DEF CInv
        <5> QED
          BY <1>2, <5>1, <5>2, Zenon
      <4> QED
        BY <1>4, <1>6, <3>2, <3>7, <4>1, Zenon DEF Kept
    <3>12. ClientId(p, i)' = ClientId(p, i) /\ Qp(m, p, i)' = Qp(m, p, i)
      BY <1>2, NamesFixed, Zenon
    <3>13. Answered(p, m, i)'
      BY <1>2, <3>2, <3>7, <3>9, <3>10, <3>11, <3>12, Zenon DEF Answered
    <3>14. Wire(p, m)'
      BY <1>2, <3>5, <3>6, <3>13, Zenon DEF Wire
    <3> QED
      BY <3>1, <3>14, Zenon
  <2> QED
    BY <2>2, <2>3, Zenon
<1>8. \A a, b \in Nodes : \A j \in PoolIds : SameFiles(a, b, j)
  BY <1>2, FilesSame, Zenon
<1>9. \A u \in Nodes : target_map'[u] # <<>> => phase'[u] \in Ready
  BY <1>2, Zenon DEF PInv
<1> QED
  BY <1>2, <1>6, <1>7, <1>8, <1>9, PInvIf, Zenon

LEMMA InitPInv == Init => PInv
<1> SUFFICES ASSUME Init PROVE PInv
  OBVIOUS
<1>1. /\ inc = [n \in Nodes |-> 0] /\ at = [n \in Nodes |-> <<n, 0>>]
      /\ toServer = [s \in Sockets |-> <<>>] /\ toClient = [s \in Sockets |-> <<>>]
      /\ lpc = [n \in Nodes |-> "off"] /\ admitted = [n \in Nodes |-> <<>>]
      /\ target_map = [n \in Nodes |-> <<>>]
  BY Zenon DEF Init
<1>2. \A n \in Nodes : target_map[n] = <<>>
  BY <1>1, Zenon
<1>3. ASSUME NEW n \in Nodes, NEW m \in Nodes, n < m
      PROVE  Wire(n, m) /\ \A i \in PoolIds : Filed(n, m, i)
  <2>1. <<n, 0, m>> \in Sockets
    <3>1. 0 \in Incarnations(n)
      BY ConnectionAssumption DEF Incarnations
    <3> QED
      BY <1>3, <3>1, SocketOf, Zenon DEF Incoming
  <2>2. toServer[<<n, 0, m>>] = <<>> /\ toClient[<<n, 0, m>>] = <<>>
    BY <1>1, <2>1, Zenon
  <2>3. ~Served(m, <<n, 0, m>>)
    BY <1>1, Zenon DEF Served
  <2>4. Wire(n, m)
    BY <2>2, <2>3, Zenon DEF Wire, Idle
  <2>5. ASSUME NEW i \in PoolIds PROVE Filed(n, m, i)
    <3>1. ~Reached(n, m, i)
      BY <1>1, <1>3 DEF Reached, Nodes
    <3>2. DOMAIN <<>> = {}
      OBVIOUS
    <3>3. ClientId(n, i) \notin DOMAIN admitted[m]
      BY <1>1, <3>2, Zenon
    <3> QED
      BY <3>1, <3>3, Zenon DEF Filed
  <2> QED
    BY <2>4, <2>5, Zenon
<1> QED
  BY <1>2, <1>3, Zenon DEF PInv

LEMMA NextPInv ==
  ASSUME CInv, PInv, CInv', [Next]_vars
  PROVE  PInv'
<1>0. TypeOK'
  BY Zenon DEF CInv
<1>1. CASE Restart
  BY <1>0, <1>1, RestartPInv, Zenon
<1>2. ASSUME NEW n \in Nodes, MainStep(n) PROVE PInv'
  <2>1. CASE Start(n)
    BY <1>0, <2>1, StartPInv, Zenon
  <2>2. CASE Connect(n)
    <3>1. /\ UNCHANGED <<local_pools, inc, at, toServer, toClient, serving, lpc, qp, admitted, clients, target_map>>
          /\ phase[n] = "connect" /\ phase' = [phase EXCEPT ![n] = "send"]
      BY <2>2, Zenon DEF Connect, config, listenerVars
    <3>2. "connect" \notin Ready /\ "send" \notin Ready /\ "connect" # "recv" /\ "connect" # "fatal"
      BY Zenon DEF Ready
    <3> QED
      BY <1>0, <3>1, <3>2, MovePInv, Zenon
  <2>3. CASE SendContext(n)
    BY <1>0, <2>3, SendContextPInv, Zenon
  <2>4. CASE ReceiveContext(n)
    BY <1>0, <2>4, ReceiveContextPInv, Zenon
  <2>5. CASE ReceiveFails(n)
    <3>1. /\ UNCHANGED <<local_pools, inc, at, toServer, toClient, serving, lpc, qp, admitted, clients, target_map>>
          /\ phase[n] = "recv" /\ phase' = [phase EXCEPT ![n] = "fatal"]
      BY <2>5, Zenon DEF ReceiveFails, config, connVars, listenerVars
    <3>2. "recv" \notin Ready /\ "fatal" \notin Ready /\ "recv" # "fatal"
      BY Zenon DEF Ready
    <3> QED
      BY <1>0, <3>1, <3>2, MovePInv, Zenon
  <2>6. CASE MakePools(n)
    BY <1>0, <2>6, MakePoolsPInv, Zenon
  <2>7. CASE Run(n)
    <3>1. /\ UNCHANGED <<local_pools, inc, at, toServer, toClient, serving, lpc, qp, admitted, clients, target_map>>
          /\ phase[n] = "exchange" /\ phase' = [phase EXCEPT ![n] = "run"]
      BY <2>7, Zenon DEF Run, config, connVars, listenerVars
    <3>2. "exchange" \in Ready /\ "run" \in Ready /\ "exchange" # "recv" /\ "exchange" # "fatal"
      BY Zenon DEF Ready
    <3> QED
      BY <1>0, <3>1, <3>2, MovePInv, Zenon
  <2>8. CASE Tally(n)
    <3>1. /\ UNCHANGED <<local_pools, inc, at, toServer, toClient, serving, lpc, qp, admitted, clients, target_map>>
          /\ phase[n] = "run" /\ phase' = [phase EXCEPT ![n] = "tally"]
      BY <2>8, Zenon DEF Tally, config, connVars, listenerVars
    <3>2. "run" \in Ready /\ "tally" \in Ready /\ "run" # "recv" /\ "run" # "fatal"
      BY Zenon DEF Ready
    <3> QED
      BY <1>0, <3>1, <3>2, MovePInv, Zenon
  <2> QED
    BY <1>2, <2>1, <2>2, <2>3, <2>4, <2>5, <2>6, <2>7, <2>8, Zenon DEF MainStep
<1>3. ASSUME NEW m \in Nodes, ListenerStep(m) PROVE PInv'
  <2>1. CASE Stop(m)
    <3>1. /\ UNCHANGED <<local_pools, inc, phase, at, toServer, toClient, serving, qp, admitted, clients, target_map>>
          /\ lpc[m] = "listening" /\ lpc' = [lpc EXCEPT ![m] = "stopped"]
      BY <2>1, Zenon DEF Stop, AtLoopTop, config
    <3>2. "stopped" # "reply"
      OBVIOUS
    <3> QED
      BY <1>0, <3>1, <3>2, ListenPInv, Zenon
  <2>2. CASE Select(m) \/ Accept(m)
    <3>1. /\ UNCHANGED <<local_pools, inc, phase, at, toServer, toClient, serving, qp, admitted, clients, target_map>>
          /\ lpc[m] = "listening" /\ lpc' = lpc
      BY <2>2, Zenon DEF Select, Accept, AtLoopTop, config, connVars
    <3>2. "stopped" # "reply"
      OBVIOUS
    <3> QED
      BY <1>0, <3>1, <3>2, ListenPInv, Zenon
  <2>3. CASE Reply(m)
    BY <1>0, <2>3, ReplyPInv, Zenon
  <2>4. ASSUME NEW s \in Incoming(m), HandleContext(m, s) PROVE PInv'
    BY <1>0, <2>4, HandleContextPInv, Zenon
  <2>5. ASSUME NEW s \in Incoming(m), HandleHangUp(m, s) PROVE PInv'
    <3>1. /\ UNCHANGED <<local_pools, inc, phase, at, toServer, toClient, serving, qp, admitted, clients, target_map>>
          /\ lpc[m] = "listening" /\ (lpc' = lpc \/ lpc' = [lpc EXCEPT ![m] = "fatal"])
      BY <2>5, Zenon DEF HandleHangUp, config
    <3>2. "fatal" # "reply"
      OBVIOUS
    <3> QED
      BY <1>0, <3>1, <3>2, ListenPInv, Zenon
  <2> QED
    BY <1>3, <2>1, <2>2, <2>3, <2>4, <2>5, Zenon DEF ListenerStep
<1>4. CASE UNCHANGED vars \/ \E n, m \in Nodes : Transfer(n, m)
  <2>1. UNCHANGED <<local_pools, inc, phase, at, toServer, toClient, serving, lpc, qp, admitted, clients, target_map>>
    BY <1>4, Zenon DEF vars, Transfer, config, connVars, listenerVars
  <2> QED
    BY <1>0, <2>1, QuietPInv, Zenon
<1> QED
  BY <1>1, <1>2, <1>3, <1>4, Zenon DEF Next

\* Whatever the order in which connectors and listeners of the nodes work, at most
\* one context of a pair of nodes is under way, it names the queue pair its sender
\* made for this pool and peer, and the maps of clients lead to such queue pairs.
THEOREM EndsAreNamed == Spec => [](CInv /\ PInv)
<1>1. CInv /\ PInv /\ CInv' /\ [Next]_vars => PInv'
  BY NextPInv, Zenon
<1> QED
  BY <1>1, InitPInv, ListenersCount, PTL DEF Spec

\* Both ends of the connections of n with m are ready when n's pools are made, and
\* m's too if m is the smaller one, which connects.
LEMMA EndsReady ==
  ASSUME CInv, PInv, NEW n \in Nodes, NEW m \in Nodes, target_map[n] # <<>>,
         n < m \/ target_map[m] # <<>>, ~Restarted(n), ~Restarted(m), NEW i \in PoolIds
  PROVE  /\ target_map[n][i][m] = Qp(n, m, i) /\ End(n, m, i) /\ End(m, n, i)
         /\ Linked(n, m, i)
<1>1. inc[n] = 0 /\ inc[m] = 0
  BY ConnectionAssumption DEF Restarted, CInv, TypeOK, Incarnations
<1>2. /\ target_map[n][i][m] = Qp(n, m, i) /\ (m <= n => End(n, m, i))
      /\ target_map[m] # <<>> /\ n <= m => End(m, n, i)
  BY <1>1, Zenon DEF PInv, Target
<1>3. \A k \in Nodes : target_map[k] # <<>> => at[k] = <<N, 0>>
  BY Zenon DEF PInv, CInv, LoopInv
<1>4. \A k, j \in Nodes : target_map[k] # <<>> => Reached(k, j, i)
  BY <1>3, ConnectionAssumption DEF Reached, Nodes
<1>5. End(n, m, i) /\ End(m, n, i)
  <2>1. CASE n < m
    BY <1>1, <1>4, <2>1, Zenon DEF PInv, Filed
  <2>2. CASE m < n /\ target_map[m] # <<>>
    BY <1>1, <1>4, <2>2, Zenon DEF PInv, Filed
  <2>3. n < m \/ m < n \/ (n <= m /\ m <= n)
    BY DEF Nodes
  <2> QED
    BY <1>2, <2>1, <2>2, <2>3, Zenon
<1>6. PICK q, d, f : q = Qp(n, m, i) /\ d = Qp(m, n, i) /\ f = qp
  BY Zenon
<1>7. /\ q \in DOMAIN f /\ f[q] = [state |-> "RTS", dest |-> d]
      /\ d \in DOMAIN f /\ f[d] = [state |-> "RTS", dest |-> q]
  BY <1>5, <1>6, Zenon DEF End
<1>8. f[q].state = "RTS" /\ f[q].dest = d /\ f[d].state = "RTS" /\ f[d].dest = q
  BY <1>7
<1>9. d.node = m
  BY <1>6, Zenon DEF Qp
<1> QED
  BY <1>2, <1>5, <1>6, <1>7, <1>8, <1>9, Zenon DEF Linked

\* The invariants give the pairing of the pools.
LEMMA PInvPaired == CInv /\ PInv => PoolsPaired
<1> SUFFICES ASSUME CInv, PInv, NEW n \in Nodes, NEW m \in Nodes, target_map[n] # <<>>,
                    target_map[m] # <<>>, ~Restarted(n), ~Restarted(m), NEW i \in PoolIds
             PROVE  Linked(n, m, i) /\ qp[target_map[n][i][m]].dest = target_map[m][i][n]
  BY Zenon DEF PoolsPaired
<1>1. /\ target_map[n][i][m] = Qp(n, m, i) /\ End(n, m, i) /\ Linked(n, m, i)
      /\ target_map[m][i][n] = Qp(m, n, i)
  BY EndsReady, Zenon
<1>2. PICK q, d, f : q = Qp(n, m, i) /\ d = Qp(m, n, i) /\ f = qp
  BY Zenon
<1>3. f[q] = [state |-> "RTS", dest |-> d]
  BY <1>1, <1>2, Zenon DEF End
<1>4. f[q].dest = d
  BY <1>3
<1> QED
  BY <1>1, <1>2, <1>4, Zenon

\* When InitMemoryPool has returned on two nodes that were not restarted, pool i of
\* one has pool i of the other at the far end of the queue pair in its target map,
\* and the reverse (PoolsPaired), for any number of nodes and pools.
THEOREM PoolsArePaired == Spec => []PoolsPaired
BY EndsAreNamed, PInvPaired, PTL

-----------------------------------------------------------------------------
(***************************************************************************)
(* The first messages.                                                     *)
(***************************************************************************)
\* The calls with a peer: what comes first, and what is left after it.
LEMMA CallForms ==
  /\ <<Send>> # <<>> /\ <<Receive>> # <<>> /\ <<Send, Receive>> # <<>> /\ <<Receive, Send>> # <<>>
  /\ <<Send>> # <<Receive>> /\ <<Send>> # <<Send, Receive>> /\ <<Send>> # <<Receive, Send>>
  /\ <<Receive>> # <<Send, Receive>> /\ <<Receive>> # <<Receive, Send>>
  /\ <<Send, Receive>> # <<Receive, Send>>
  /\ Head(<<Send>>) = Send /\ Head(<<Receive>>) = Receive
  /\ Head(<<Send, Receive>>) = Send /\ Head(<<Receive, Send>>) = Receive
  /\ Tail(<<Send>>) = <<>> /\ Tail(<<Receive>>) = <<>>
  /\ Tail(<<Send, Receive>>) = <<Receive>> /\ Tail(<<Receive, Send>>) = <<Send>>
  /\ Send # Receive
BY DEF Send, Receive

\* The names of phases.
LEMMA PhaseNames ==
  /\ "exchange" \in Ready /\ "run" \in Ready /\ "tally" \in Ready
  /\ "exchange" # "run" /\ "exchange" # "tally" /\ "run" # "tally"
  /\ "wait" \notin Ready
BY Zenon DEF Ready

\* At first nobody is ready and nothing is to be sent.
LEMMA InitEInv == Init => EInv
<1> SUFFICES ASSUME Init PROVE EInv
  OBVIOUS
<1>1. \A n \in Nodes : phase[n] = "down" /\ \A m \in Nodes : calls[n][m] = <<>>
  BY Zenon DEF Init
<1>2. "down" \notin Ready
  BY Zenon DEF Ready
<1>3. DOMAIN calls = Nodes /\ \A n \in Nodes : DOMAIN calls[n] = Nodes
  BY Zenon DEF Init
<1>4. CallInv
  BY <1>1, CallForms, Zenon DEF CallInv, LeftWith
<1>5. HeardInv
  BY <1>1, <1>2, Zenon DEF HeardInv, Heard
<1>6. HostInv
  BY <1>1, <1>2, Zenon DEF HostInv, SentTo
<1> QED
  BY <1>1, <1>2, <1>3, <1>4, <1>5, <1>6, Zenon DEF EInv

\* A step before the pools are made, or of the listener.
LEMMA QuietEInv ==
  ASSUME EInv, UNCHANGED <<dist, target_map, calls>>,
         \A k \in Nodes : phase'[k] = phase[k] \/ (phase[k] \notin Ready /\ phase'[k] \notin Ready)
  PROVE  EInv'
<1>1. ASSUME NEW k \in Nodes PROVE (phase[k] \in Ready)' <=> (phase[k] \in Ready)
  BY <1>1, Zenon
<1>2. ASSUME NEW k \in Nodes, NEW p \in Ready PROVE (phase[k] = p)' <=> (phase[k] = p)
  BY <1>2, Zenon
<1>3. CallInv'
  <2> SUFFICES ASSUME NEW n \in Nodes, NEW m \in Nodes PROVE LeftWith(n, m)'
    BY Zenon DEF CallInv
  <2>1. LeftWith(n, m)
    BY Zenon DEF EInv, CallInv
  <2>2. /\ (phase[n] = "exchange")' <=> (phase[n] = "exchange")
        /\ (phase[n] = "tally")' <=> (phase[n] = "tally")
    BY <1>2, PhaseNames, Zenon
  <2> QED
    BY <2>1, <2>2, Zenon DEF LeftWith
<1>4. HeardInv'
  <2> SUFFICES ASSUME NEW n \in Nodes, NEW m \in Nodes, n # m, (m \in Accessed(n))', Heard(n, m)'
               PROVE  (phase[m] \in Ready)'
    BY Zenon DEF HeardInv
  <2>1. m \in Accessed(n)
    BY Zenon DEF Accessed
  <2>2. Heard(n, m)
    BY <1>1, <1>2, PhaseNames, Zenon DEF Heard
  <2> QED
    BY <1>1, <2>1, <2>2, Zenon DEF EInv, HeardInv
<1>5. HostInv'
  <2> SUFFICES ASSUME dist # "uniform", LockHosts < N, NEW n \in Nodes, n < LockHosts,
                      SentTo(n, LockHosts)'
               PROVE  HeardUpTo(LockHosts, n)'
    BY Zenon DEF HostInv
  <2>1. SentTo(n, LockHosts)
    BY <1>1, <1>2, PhaseNames, Zenon DEF SentTo
  <2>2. HeardUpTo(LockHosts, n)
    BY <2>1, Zenon DEF EInv, HostInv
  <2>3. LockHosts \in Nodes
    BY ConnectionAssumption DEF Nodes
  <2> QED
    BY <1>1, <1>2, <2>2, <2>3, PhaseNames, Zenon DEF HeardUpTo
<1> QED
  BY <1>1, <1>3, <1>4, <1>5, Zenon DEF EInv

\* InitMemoryPool returns on n, whose first message is still to come.
LEMMA MakePoolsEInv ==
  ASSUME CInv, EInv, NEW n \in Nodes, MakePools(n)
  PROVE  EInv'
<1>1. /\ phase[n] = "wait" /\ phase'[n] = "exchange" /\ dist' = dist
      /\ \A k \in Nodes : k # n => phase'[k] = phase[k] /\ calls'[k] = calls[k]
                                   /\ target_map'[k] = target_map[k]
      /\ calls'[n] = Exchange(n) /\ DOMAIN calls' = Nodes
      /\ target_map'[n] = [i \in PoolIds |-> TargetMap(n, i)]
  BY Zenon DEF MakePools, config, CInv, TypeOK, EInv
<1>2. target_map'[n] # <<>>
  <2>1. 0 \in PoolIds
    BY DEF CInv, TypeOK, PoolIds
  <2>2. 0 \in DOMAIN target_map'[n] /\ DOMAIN <<>> = {}
    BY <1>1, <2>1
  <2> QED
    BY <2>2, Zenon
<1>3. \A m \in Nodes : calls'[n][m] = Exchange(n)[m]
  BY <1>1, Zenon
<1>4. ASSUME NEW m \in Nodes
      PROVE  /\ dist = "uniform" => Exchange(n)[m] = Meet(n, m)
             /\ dist # "uniform" /\ n < LockHosts =>
                  Exchange(n)[m] = IF m >= LockHosts THEN <<Send>> ELSE <<>>
             /\ dist # "uniform" /\ ~(n < LockHosts) =>
                  Exchange(n)[m] = IF m < LockHosts THEN <<Receive>> ELSE <<>>
  BY <1>4, Zenon DEF Exchange
<1>5. ASSUME NEW m \in Nodes
      PROVE  /\ m = n => Meet(n, m) = <<>>
             /\ n < m => Meet(n, m) = <<Send, Receive>>
             /\ m < n => Meet(n, m) = <<Receive, Send>>
             /\ m = n \/ n < m \/ m < n
  BY <1>5 DEF Meet, Nodes
<1>6. CallInv'
  <2> SUFFICES ASSUME NEW k \in Nodes, NEW m \in Nodes PROVE LeftWith(k, m)'
    BY Zenon DEF CallInv
  <2>1. CASE k # n
    <3>1. LeftWith(k, m)
      BY Zenon DEF EInv, CallInv
    <3> QED
      BY <1>1, <2>1, <3>1, Zenon DEF LeftWith
  <2>2. CASE k = n /\ dist = "uniform"
    <3>1. calls'[n][m] \in {<<>>, <<Send, Receive>>, <<Receive, Send>>}
      BY <1>3, <1>4, <1>5, <2>2, Zenon
    <3>2. calls'[n][m] = <<Send, Receive>> => n < m
      BY <1>3, <1>4, <1>5, <2>2, CallForms, Zenon
    <3> QED
      BY <1>1, <2>2, <3>1, <3>2, CallForms, Zenon DEF LeftWith
  <2>3. CASE k = n /\ dist # "uniform" /\ n < LockHosts
    <3>1. calls'[n][m] = <<>> \/ (calls'[n][m] = <<Send>> /\ m >= LockHosts)
      BY <1>3, <1>4, <2>3, Zenon
    <3>2. m >= LockHosts => n < m
      BY <2>3, ConnectionAssumption DEF Nodes
    <3> QED
      BY <1>1, <2>3, <3>1, <3>2, CallForms, PhaseNames, Zenon DEF LeftWith
  <2>4. CASE k = n /\ dist # "uniform" /\ ~(n < LockHosts)
    <3>1. calls'[n][m] = <<>> \/ calls'[n][m] = <<Receive>>
      BY <1>3, <1>4, <2>4, Zenon
    <3>2. LockHosts <= n
      BY <2>4, ConnectionAssumption DEF Nodes
    <3> QED
      BY <1>1, <2>4, <3>1, <3>2, CallForms, PhaseNames, Zenon DEF LeftWith
  <2> QED
    BY <2>1, <2>2, <2>3, <2>4, Zenon
<1>7. HeardInv'
  <2> SUFFICES ASSUME NEW k \in Nodes, NEW m \in Nodes, k # m, (m \in Accessed(k))', Heard(k, m)'
               PROVE  (phase[m] \in Ready)'
    BY Zenon DEF HeardInv
  <2>0. m \in Accessed(k)
    BY <1>1, Zenon DEF Accessed
  <2>1. CASE k # n
    <3>1. Heard(k, m)
      BY <1>1, <2>1, Zenon DEF Heard
    <3>2. phase[m] \in Ready
      BY <2>0, <3>1, Zenon DEF EInv, HeardInv
    <3> QED
      BY <1>1, <3>2, PhaseNames, Zenon
  <2>2. CASE k = n
    <3>1. calls'[n][m] \in {<<>>, <<Send>>}
      BY <1>1, <2>2, Zenon DEF Heard
    <3>2. CASE dist = "uniform"
      <4>1. calls'[n][m] \in {<<Send, Receive>>, <<Receive, Send>>}
        BY <1>3, <1>4, <1>5, <2>2, <3>2, Zenon
      <4> QED
        BY <3>1, <4>1, CallForms, Zenon
    <3>3. CASE dist # "uniform" /\ ~(n < LockHosts)
      <4>1. m < LockHosts
        <5>1. m \in 0..(LockHosts - 1)
          BY <2>0, <2>2, <3>3, Zenon DEF Accessed
        <5> QED
          BY <5>1, ConnectionAssumption DEF Nodes
      <4>2. calls'[n][m] = <<Receive>>
        BY <1>3, <1>4, <3>3, <4>1, Zenon
      <4> QED
        BY <3>1, <4>2, CallForms, Zenon
    <3>4. CASE dist # "uniform" /\ n < LockHosts
      BY <2>0, <2>2, <3>4, Zenon DEF Accessed
    <3> QED
      BY <3>2, <3>3, <3>4, Zenon
  <2> QED
    BY <2>1, <2>2, Zenon
<1>8. HostInv'
  <2> SUFFICES ASSUME dist # "uniform", LockHosts < N, NEW k \in Nodes, k < LockHosts,
                      SentTo(k, LockHosts)'
               PROVE  HeardUpTo(LockHosts, k)'
    BY <1>1, Zenon DEF HostInv
  <2>0. LockHosts \in Nodes /\ LockHosts >= LockHosts
    BY ConnectionAssumption DEF Nodes
  <2>1. CASE k # n
    <3>1. SentTo(k, LockHosts)
      BY <1>1, <2>1, Zenon DEF SentTo
    <3>2. HeardUpTo(LockHosts, k)
      BY <3>1, Zenon DEF EInv, HostInv
    <3>3. LockHosts # n
      BY <1>1, <3>2, PhaseNames, Zenon DEF HeardUpTo
    <3> QED
      BY <1>1, <2>0, <3>2, <3>3, Zenon DEF HeardUpTo
  <2>2. CASE k = n
    <3>1. calls'[n][LockHosts] = <<>>
      BY <1>1, <2>2, Zenon DEF SentTo
    <3>2. calls'[n][LockHosts] = <<Send>>
      BY <1>3, <1>4, <2>0, <2>2, Zenon
    <3> QED
      BY <3>1, <3>2, CallForms, Zenon
  <2> QED
    BY <2>1, <2>2, Zenon
<1>9. \A k \in Nodes : DOMAIN calls'[k] = Nodes
  BY <1>1, Zenon DEF EInv, Exchange
<1>10. \A k \in Nodes : (phase[k] \in Ready)' => target_map'[k] # <<>>
  BY <1>1, <1>2, Zenon DEF EInv
<1> QED
  BY <1>1, <1>6, <1>7, <1>8, <1>9, <1>10, Zenon DEF EInv

\* The threads start when all calls with peers are made.
LEMMA RunEInv ==
  ASSUME CInv, EInv, NEW n \in Nodes, Run(n)
  PROVE  EInv'
<1>1. /\ phase[n] = "exchange" /\ phase'[n] = "run" /\ dist' = dist
      /\ \A k \in Nodes : k # n => phase'[k] = phase[k]
      /\ calls' = calls /\ \A m \in Nodes : calls[n][m] = <<>>
      /\ target_map' = target_map
  BY Zenon DEF Run, config, CInv, TypeOK
<1>2. \A k \in Nodes : (phase[k] \in Ready)' <=> phase[k] \in Ready
  BY <1>1, PhaseNames, Zenon
<1>3. CallInv'
  <2> SUFFICES ASSUME NEW k \in Nodes, NEW m \in Nodes PROVE LeftWith(k, m)'
    BY Zenon DEF CallInv
  <2>1. LeftWith(k, m)
    BY Zenon DEF EInv, CallInv
  <2>2. CASE k = n
    BY <1>1, <2>2, CallForms, Zenon DEF LeftWith
  <2>3. CASE k # n
    BY <1>1, <2>1, <2>3, Zenon DEF LeftWith
  <2> QED
    BY <2>2, <2>3, Zenon
<1>4. HeardInv'
  <2> SUFFICES ASSUME NEW k \in Nodes, NEW m \in Nodes, k # m, (m \in Accessed(k))', Heard(k, m)'
               PROVE  (phase[m] \in Ready)'
    BY Zenon DEF HeardInv
  <2>1. m \in Accessed(k)
    BY <1>1, Zenon DEF Accessed
  <2>2. Heard(k, m)
    BY <1>1, <1>2, Zenon DEF Heard
  <2> QED
    BY <1>2, <2>1, <2>2, Zenon DEF EInv, HeardInv
<1>5. HostInv'
  <2> SUFFICES ASSUME dist # "uniform", LockHosts < N, NEW k \in Nodes, k < LockHosts,
                      SentTo(k, LockHosts)'
               PROVE  HeardUpTo(LockHosts, k)'
    BY <1>1, Zenon DEF HostInv
  <2>0. LockHosts \in Nodes
    BY ConnectionAssumption DEF Nodes
  <2>1. SentTo(k, LockHosts)
    BY <1>1, <1>2, <2>0, Zenon DEF SentTo
  <2>2. HeardUpTo(LockHosts, k)
    BY <2>1, Zenon DEF EInv, HostInv
  <2> QED
    BY <1>1, <1>2, <2>0, <2>2, PhaseNames, Zenon DEF HeardUpTo
<1> QED
  BY <1>1, <1>2, <1>3, <1>4, <1>5, Zenon DEF EInv

\* After the run the calls are those of TallyResults.
LEMMA TallyEInv ==
  ASSUME CInv, EInv, NEW n \in Nodes, Tally(n)
  PROVE  EInv'
<1>1. /\ phase[n] = "run" /\ phase'[n] = "tally" /\ dist' = dist
      /\ \A k \in Nodes : k # n => phase'[k] = phase[k] /\ calls'[k] = calls[k]
      /\ calls'[n] = Synchronize(n) /\ DOMAIN calls' = Nodes
      /\ target_map' = target_map
  BY Zenon DEF Tally, config, CInv, TypeOK, EInv
<1>2. \A k \in Nodes : (phase[k] \in Ready)' <=> phase[k] \in Ready
  BY <1>1, PhaseNames, Zenon
<1>3. CallInv'
  <2> SUFFICES ASSUME NEW k \in Nodes, NEW m \in Nodes PROVE LeftWith(k, m)'
    BY Zenon DEF CallInv
  <2>1. LeftWith(k, m)
    BY Zenon DEF EInv, CallInv
  <2>2. CASE k = n
    <3>1. \/ calls'[n][m] = <<>>
          \/ calls'[n][m] = <<Receive>>
          \/ calls'[n][m] = <<Send>> /\ m = 0
      BY <1>1, Zenon DEF Synchronize
    <3> QED
      BY <1>1, <2>2, <3>1, CallForms, PhaseNames, Zenon DEF LeftWith
  <2>3. CASE k # n
    BY <1>1, <2>1, <2>3, Zenon DEF LeftWith
  <2> QED
    BY <2>2, <2>3, Zenon
<1>4. HeardInv'
  <2> SUFFICES ASSUME NEW k \in Nodes, NEW m \in Nodes, k # m, (m \in Accessed(k))', Heard(k, m)'
               PROVE  (phase[m] \in Ready)'
    BY Zenon DEF HeardInv
  <2>1. m \in Accessed(k)
    BY <1>1, Zenon DEF Accessed
  <2>2. Heard(k, m)
    BY <1>1, <1>2, PhaseNames, Zenon DEF Heard
  <2> QED
    BY <1>2, <2>1, <2>2, Zenon DEF EInv, HeardInv
<1>5. HostInv'
  <2> SUFFICES ASSUME dist # "uniform", LockHosts < N, NEW k \in Nodes, k < LockHosts,
                      SentTo(k, LockHosts)'
               PROVE  HeardUpTo(LockHosts, k)'
    BY <1>1, Zenon DEF HostInv
  <2>0. LockHosts \in Nodes
    BY ConnectionAssumption DEF Nodes
  <2>1. SentTo(k, LockHosts)
    BY <1>1, <1>2, <2>0, PhaseNames, Zenon DEF SentTo
  <2>2. HeardUpTo(LockHosts, k)
    BY <2>1, Zenon DEF EInv, HostInv
  <2> QED
    BY <1>1, <1>2, <2>0, <2>2, PhaseNames, Zenon DEF HeardUpTo
<1>6. \A k \in Nodes : DOMAIN calls'[k] = Nodes
  BY <1>1, Zenon DEF EInv, Synchronize
<1> QED
  BY <1>1, <1>2, <1>3, <1>4, <1>5, <1>6, Zenon DEF EInv

\* A message: both nodes are ready, and the receiver has nothing to do with smaller
\* nodes any more.
LEMMA TransferEInv ==
  ASSUME EInv, NEW n \in Nodes, NEW m \in Nodes, Transfer(n, m)
  PROVE  EInv'
<1>1. /\ At(n, Send, m) /\ At(m, Receive, n) /\ phase' = phase /\ dist' = dist
      /\ target_map' = target_map
  BY Zenon DEF Transfer, config
<1>2. /\ Head(calls[n][m]) = Send /\ calls[n][m] # <<>>
      /\ Head(calls[m][n]) = Receive /\ calls[m][n] # <<>>
      /\ \A k \in Nodes : k < n => calls[m][k] = <<>>
  BY <1>1, Zenon DEF At
<1>3. n # m
  BY <1>2, CallForms, Zenon
<1>4. /\ calls'[n][m] = Tail(calls[n][m]) /\ calls'[m][n] = Tail(calls[m][n])
      /\ \A k, j \in Nodes : ~(k = n /\ j = m) /\ ~(k = m /\ j = n) => calls'[k][j] = calls[k][j]
      /\ DOMAIN calls' = Nodes /\ \A k \in Nodes : DOMAIN calls'[k] = Nodes
  BY <1>3, Zenon DEF Transfer, EInv
<1>5. LeftWith(n, m) /\ LeftWith(m, n)
  BY Zenon DEF EInv, CallInv
<1>6. \/ calls[n][m] = <<Send>> /\ calls'[n][m] = <<>>
      \/ calls[n][m] = <<Send, Receive>> /\ calls'[n][m] = <<Receive>>
  BY <1>2, <1>4, <1>5, CallForms, Zenon DEF LeftWith
<1>7. \/ calls[m][n] = <<Receive>> /\ calls'[m][n] = <<>>
      \/ calls[m][n] = <<Receive, Send>> /\ calls'[m][n] = <<Send>>
  BY <1>2, <1>4, <1>5, CallForms, Zenon DEF LeftWith
<1>8. /\ phase[n] \in {"exchange", "tally"} /\ phase[m] \in {"exchange", "tally"}
      /\ phase[n] \in Ready /\ phase[m] \in Ready
  BY <1>2, <1>5, PhaseNames, Zenon DEF LeftWith
<1>9. CallInv'
  <2> SUFFICES ASSUME NEW k \in Nodes, NEW j \in Nodes PROVE LeftWith(k, j)'
    BY Zenon DEF CallInv
  <2>1. CASE k = n /\ j = m
    <3>1. CASE calls'[n][m] = <<>>
      BY <2>1, <3>1, CallForms, Zenon DEF LeftWith
    <3>2. CASE calls[n][m] = <<Send, Receive>> /\ calls'[n][m] = <<Receive>>
      <4>1. phase[n] = "exchange" /\ dist = "uniform"
        BY <1>5, <3>2, Zenon DEF LeftWith
      <4> QED
        BY <1>1, <2>1, <3>2, <4>1, CallForms, Zenon DEF LeftWith
    <3> QED
      BY <1>6, <3>1, <3>2, Zenon
  <2>2. CASE k = m /\ j = n
    <3>1. CASE calls'[m][n] = <<>>
      BY <2>2, <3>1, CallForms, Zenon DEF LeftWith
    <3>2. CASE calls[m][n] = <<Receive, Send>> /\ calls'[m][n] = <<Send>>
      <4>1. phase[m] = "exchange" /\ dist = "uniform"
        BY <1>5, <3>2, Zenon DEF LeftWith
      <4> QED
        BY <1>1, <2>2, <3>2, <4>1, CallForms, PhaseNames, Zenon DEF LeftWith
    <3> QED
      BY <1>7, <3>1, <3>2, Zenon
  <2>3. CASE ~(k = n /\ j = m) /\ ~(k = m /\ j = n)
    <3>1. LeftWith(k, j) /\ calls'[k][j] = calls[k][j]
      BY <1>4, <2>3, Zenon DEF EInv, CallInv
    <3> QED
      BY <1>1, <3>1, Zenon DEF LeftWith
  <2> QED
    BY <2>1, <2>2, <2>3, Zenon
<1>10. HeardInv'
  <2> SUFFICES ASSUME NEW k \in Nodes, NEW j \in Nodes, k # j, (j \in Accessed(k))', Heard(k, j)'
               PROVE  (phase[j] \in Ready)'
    BY Zenon DEF HeardInv
  <2>1. CASE j = n \/ j = m
    BY <1>1, <1>8, <2>1, Zenon
  <2>2. CASE j # n /\ j # m
    <3>1. j \in Accessed(k)
      BY <1>1, Zenon DEF Accessed
    <3>2. Heard(k, j)
      BY <1>1, <1>4, <2>2, Zenon DEF Heard
    <3> QED
      BY <1>1, <3>1, <3>2, Zenon DEF EInv, HeardInv
  <2> QED
    BY <2>1, <2>2, Zenon
<1>11. HostInv'
  <2> SUFFICES ASSUME dist # "uniform", LockHosts < N, NEW k \in Nodes, k < LockHosts,
                      SentTo(k, LockHosts)'
               PROVE  HeardUpTo(LockHosts, k)'
    BY <1>1, Zenon DEF HostInv
  <2>0. LockHosts \in Nodes
    BY ConnectionAssumption DEF Nodes
  <2>1. \A a, b \in Nodes : calls[a][b] = <<>> => calls'[a][b] = <<>>
    BY <1>2, <1>4, Zenon
  <2>2. CASE SentTo(k, LockHosts)
    <3>1. HeardUpTo(LockHosts, k)
      BY <2>2, Zenon DEF EInv, HostInv
    <3> QED
      BY <1>1, <2>0, <2>1, <3>1, Zenon DEF HeardUpTo
  <2>3. CASE ~SentTo(k, LockHosts)
    <3>1. phase[k] = "exchange" /\ calls[k][LockHosts] # <<>> /\ calls'[k][LockHosts] = <<>>
      BY <1>1, <2>3, Zenon DEF SentTo
    <3>2. (k = n /\ LockHosts = m) \/ (k = m /\ LockHosts = n)
      BY <1>4, <2>0, <3>1, Zenon
    <3>3. CASE k = n /\ LockHosts = m
      <4>1. calls'[m][n] = <<>>
        BY <1>5, <1>7, Zenon DEF LeftWith
      <4>2. \A j \in Nodes : j <= n => j < n \/ j = n
        BY DEF Nodes
      <4>3. \A j \in Nodes : j <= n => calls'[m][j] = <<>>
        BY <1>2, <2>1, <4>1, <4>2, Zenon
      <4> QED
        BY <1>1, <1>8, <3>3, <4>3, Zenon DEF HeardUpTo
    <3>4. CASE k = m /\ LockHosts = n
      <4>1. calls[m][n] = <<Receive>>
        BY <1>5, <1>7, Zenon DEF LeftWith
      <4>2. LockHosts <= m
        BY <1>5, <3>1, <3>4, <4>1, Zenon DEF LeftWith
      <4>3. ~(m < LockHosts)
        BY <4>2, ConnectionAssumption DEF Nodes
      <4> QED
        BY <3>4, <4>3, Zenon
    <3> QED
      BY <3>2, <3>3, <3>4, Zenon
  <2> QED
    BY <2>2, <2>3, Zenon
<1> QED
  BY <1>1, <1>4, <1>9, <1>10, <1>11, Zenon DEF EInv

\* Every step keeps EInv: before its pools are made a node only moves between
\* phases in which it is not ready.
LEMMA NextEInv ==
  ASSUME CInv, EInv, [Next]_vars
  PROVE  EInv'
<1>1. ASSUME UNCHANGED <<dist, target_map, calls>>, NEW n \in Nodes, NEW p, p \notin Ready,
             phase[n] \notin Ready, phase' = phase \/ phase' = [phase EXCEPT ![n] = p]
      PROVE  EInv'
  <2>1. \A k \in Nodes : phase'[k] = phase[k] \/ (phase[k] \notin Ready /\ phase'[k] \notin Ready)
    BY <1>1, Zenon DEF CInv, TypeOK
  <2> QED
    BY <1>1, <2>1, QuietEInv, Zenon
<1>2. /\ "down" \notin Ready /\ "connect" \notin Ready /\ "send" \notin Ready
      /\ "recv" \notin Ready /\ "wait" \notin Ready /\ "fatal" \notin Ready
  BY Zenon DEF Ready
<1>3. CASE Restart
  <2>1. 0 \in Nodes
    BY ConnectionAssumption DEF Nodes
  <2>2. /\ UNCHANGED <<dist, target_map, calls>> /\ phase[0] \in {"connect", "send", "recv"}
        /\ phase' = [phase EXCEPT ![0] = "down"]
    BY <1>3, Zenon DEF Restart, config
  <2> QED
    BY <1>1, <1>2, <2>1, <2>2, Zenon
<1>4. ASSUME NEW n \in Nodes, MainStep(n) PROVE EInv'
  <2>1. CASE Start(n)
    <3>1. /\ UNCHANGED <<dist, target_map, calls>> /\ phase[n] = "down"
          /\ \/ phase' = [phase EXCEPT ![n] = "connect"]
             \/ phase' = [phase EXCEPT ![n] = "wait"]
      BY <2>1, Zenon DEF Start, Advance, config
    <3> QED
      BY <1>1, <1>2, <3>1, Zenon
  <2>2. CASE Connect(n)
    <3>1. /\ UNCHANGED <<dist, target_map, calls>> /\ phase[n] = "connect"
          /\ phase' = [phase EXCEPT ![n] = "send"]
      BY <2>2, Zenon DEF Connect, config
    <3> QED
      BY <1>1, <1>2, <3>1, Zenon
  <2>3. CASE SendContext(n)
    <3>1. /\ UNCHANGED <<dist, target_map, calls>> /\ phase[n] = "send"
          /\ phase' = [phase EXCEPT ![n] = "recv"]
      BY <2>3, Zenon DEF SendContext, config
    <3> QED
      BY <1>1, <1>2, <3>1, Zenon
  <2>4. CASE ReceiveContext(n)
    <3>1. /\ UNCHANGED <<dist, target_map, calls>> /\ phase[n] = "recv"
          /\ \/ phase' = [phase EXCEPT ![n] = "connect"]
             \/ phase' = [phase EXCEPT ![n] = "wait"]
      BY <2>4, Zenon DEF ReceiveContext, Advance, config
    <3> QED
      BY <1>1, <1>2, <3>1, Zenon
  <2>5. CASE ReceiveFails(n)
    <3>1. /\ UNCHANGED <<dist, target_map, calls>> /\ phase[n] = "recv"
          /\ phase' = [phase EXCEPT ![n] = "fatal"]
      BY <2>5, Zenon DEF ReceiveFails, config
    <3> QED
      BY <1>1, <1>2, <3>1, Zenon
  <2>6. CASE MakePools(n) \/ Run(n) \/ Tally(n)
    BY <2>6, MakePoolsEInv, RunEInv, TallyEInv, Zenon
  <2> QED
    BY <1>4, <2>1, <2>2, <2>3, <2>4, <2>5, <2>6, Zenon DEF MainStep
<1>5. CASE UNCHANGED vars \/ \E m \in Nodes : ListenerStep(m)
  <2>1. UNCHANGED <<dist, target_map, calls>> /\ phase' = phase
    BY <1>5, Zenon DEF vars, config, ListenerStep, Stop, Select, Accept, Reply, HandleContext, HandleHangUp
  <2> QED
    BY <2>1, QuietEInv, Zenon
<1>6. ASSUME NEW n \in Nodes, NEW m \in Nodes, Transfer(n, m) PROVE EInv'
  BY <1>6, TransferEInv, Zenon
<1> QED
  BY <1>3, <1>4, <1>5, <1>6, Zenon DEF Next

\* The first message to a node finds it ready: a larger one is connected when the
\* sender is ready, and from a smaller one something has been heard.
LEMMA FirstSend ==
  ASSUME LockHosts < N \/ dist = "uniform", EInv, NEW n \in Nodes, NEW m \in Nodes, n # m,
         At(n, Send, m)
  PROVE  phase[n] \in Ready /\ (n < m \/ phase[m] \in Ready)
<1>1. LeftWith(n, m) /\ calls[n][m] # <<>> /\ Head(calls[n][m]) = Send
  BY Zenon DEF EInv, CallInv, At
<1>2. calls[n][m] = <<Send>> \/ calls[n][m] = <<Send, Receive>>
  BY <1>1, CallForms, Zenon DEF LeftWith
<1>3. phase[n] = "exchange" \/ phase[n] = "tally"
  BY <1>1, Zenon DEF LeftWith
<1>4. phase[n] \in Ready
  BY <1>3, PhaseNames, Zenon
<1>5. dist = "uniform" => n \in Nodes /\ m \in Accessed(n)
  BY Zenon DEF Accessed
<1>6. CASE calls[n][m] = <<Send, Receive>>
  BY <1>1, <1>4, <1>6, Zenon DEF LeftWith
<1>7. CASE calls[n][m] = <<Send>> /\ phase[n] = "exchange"
  <2>1. n < m \/ dist = "uniform"
    BY <1>1, <1>7, Zenon DEF LeftWith
  <2>2. Heard(n, m)
    BY <1>4, <1>7, Zenon DEF Heard
  <2> QED
    BY <1>4, <1>5, <2>1, <2>2, Zenon DEF EInv, HeardInv
<1>8. CASE calls[n][m] = <<Send>> /\ phase[n] = "tally"
  <2>1. m = 0 /\ Heard(n, m) /\ SentTo(n, LockHosts)
    BY <1>1, <1>4, <1>8, PhaseNames, Zenon DEF LeftWith, Heard, SentTo
  <2>2. CASE dist = "uniform"
    BY <1>4, <1>5, <2>1, <2>2, Zenon DEF EInv, HeardInv
  <2>3. CASE dist # "uniform" /\ ~(n < LockHosts)
    <3>1. m \in 0..(LockHosts - 1)
      BY <2>1, ConnectionAssumption
    <3>2. m \in Accessed(n)
      BY <2>3, <3>1, Zenon DEF Accessed
    <3> QED
      BY <1>4, <2>1, <3>2, Zenon DEF EInv, HeardInv
  <2>4. CASE dist # "uniform" /\ n < LockHosts
    <3>1. /\ LockHosts \in Nodes /\ 0 \in Nodes /\ 0 # LockHosts /\ ~(LockHosts < LockHosts)
          /\ 0 \in 0..(LockHosts - 1) /\ 0 <= n
      BY <2>4, ConnectionAssumption DEF Nodes
    <3>2. HeardUpTo(LockHosts, n)
      BY <2>1, <2>4, Zenon DEF EInv, HostInv
    <3>3. Heard(LockHosts, 0)
      BY <3>1, <3>2, Zenon DEF HeardUpTo, Heard
    <3>4. 0 \in Accessed(LockHosts)
      BY <2>4, <3>1, Zenon DEF Accessed
    <3>5. phase[0] \in Ready
      BY <3>1, <3>3, <3>4, Zenon DEF EInv, HeardInv
    <3> QED
      BY <1>4, <2>1, <3>5, Zenon
  <2> QED
    BY <2>2, <2>3, <2>4, Zenon
<1> QED
  BY <1>2, <1>3, <1>6, <1>7, <1>8, Zenon

\* The invariants give that nobody is early.
LEMMA EInvNoEarlyUse ==
  ASSUME LockHosts < N \/ dist = "uniform", CInv, PInv, EInv
  PROVE  NoEarlyUse
<1> SUFFICES ASSUME NEW n \in Nodes, NEW m \in Nodes, n # m, ~Restarted(n), ~Restarted(m)
             PROVE  /\ At(n, Send, m) => Linked(n, m, 0)
                    /\ phase[n] = "run" /\ m \in Accessed(n) => \A i \in PoolIds : Linked(n, m, i)
  BY Zenon DEF NoEarlyUse
<1>1. 0 \in PoolIds
  BY DEF CInv, TypeOK, PoolIds
<1>2. \A k \in Nodes : phase[k] \in Ready => target_map[k] # <<>>
  BY Zenon DEF EInv
<1>3. ASSUME At(n, Send, m) PROVE Linked(n, m, 0)
  <2>1. target_map[n] # <<>> /\ (n < m \/ target_map[m] # <<>>)
    BY <1>2, <1>3, FirstSend, Zenon
  <2> QED
    BY <1>1, <2>1, EndsReady, Zenon
<1>4. ASSUME phase[n] = "run", m \in Accessed(n), NEW i \in PoolIds PROVE Linked(n, m, i)
  <2>1. Heard(n, m) /\ phase[n] \in Ready
    BY <1>4, PhaseNames, Zenon DEF Heard
  <2>2. phase[m] \in Ready
    BY <1>4, <2>1, Zenon DEF EInv, HeardInv
  <2> QED
    BY <1>2, <1>4, <2>1, <2>2, EndsReady, Zenon
<1> QED
  BY <1>3, <1>4, Zenon

\* Which distribution is in use does not change.
LEMMA DistConstant == (dist = "uniform") /\ [Next]_vars => (dist = "uniform")'
<1> SUFFICES ASSUME dist = "uniform", [Next]_vars PROVE dist' = dist
  BY Zenon
<1>1. CASE Restart \/ UNCHANGED vars
  BY <1>1, Zenon DEF Restart, vars, config
<1>2. ASSUME NEW n \in Nodes, MainStep(n) PROVE dist' = dist
  BY <1>2, Zenon DEF MainStep, Start, Connect, SendContext, ReceiveContext, ReceiveFails, MakePools,
     Run, Tally, config
<1>3. ASSUME NEW m \in Nodes, ListenerStep(m) PROVE dist' = dist
  BY <1>3, Zenon DEF ListenerStep, Stop, Select, Accept, Reply, HandleContext, HandleHangUp, config
<1>4. ASSUME NEW n \in Nodes, NEW m \in Nodes, Transfer(n, m) PROVE dist' = dist
  BY <1>4, Zenon DEF Transfer, config
<1> QED
  BY <1>1, <1>2, <1>3, <1>4, Zenon DEF Next

\* What is left of the calls and who has heard from whom (EInv), for any number of
\* nodes, pools, lock hosts and restarts of node 0.
THEOREM CallsAreOrdered == Spec => []EInv
<1>1. CInv /\ EInv /\ [Next]_vars => EInv'
  BY NextEInv, Zenon
<1> QED
  BY <1>1, InitEInv, ListenersCount, PTL DEF Spec

\* No node sends its first message to a peer, or lets its threads use the peer's
\* locks, before the peer's end of the connection is ready (NoEarlyUse), for any
\* number of nodes and pools, if some node is not a lock host or the distribution
\* is uniform.
THEOREM NobodyIsEarly ==
  ASSUME LockHosts < N \/ Distributions = {"uniform"}
  PROVE  Spec => []NoEarlyUse
<1>1. CASE LockHosts < N
  <2>1. CInv /\ PInv /\ EInv => NoEarlyUse
    BY <1>1, EInvNoEarlyUse, Zenon
  <2> QED
    BY <2>1, EndsAreNamed, CallsAreOrdered, PTL
<1>2. CASE Distributions = {"uniform"}
  <2>1. Init => dist = "uniform"
    BY <1>2, Zenon DEF Init
  <2>2. CInv /\ PInv /\ EInv /\ dist = "uniform" => NoEarlyUse
    BY EInvNoEarlyUse, Zenon
  <2> QED
    BY <2>1, <2>2, DistConstant, EndsAreNamed, CallsAreOrdered, PTL DEF Spec
<1> QED
  BY <1>1, <1>2
=============================================================================
