--------------------------- MODULE RdmaTicketLock ---------------------------
(***************************************************************************)
(* The ticket lock, src/include/locks/rdma_ticket_lock.h.  All threads,    *)
(* the lock's own node included, use RDMA, so that the fetch-and-adds on a *)
(* word are atomic with respect to each other.  The words wrap around.     *)
(***************************************************************************)
EXTENDS Naturals, FiniteSets

CONSTANTS
  Threads, Locks,
  W,       \* the number of values of ticket_ and turn_, 2^64 in the code
  None     \* no lock

\* Fewer threads than words have values, so that at most W - 1 tickets are out.
ASSUME WordAssumption == W \in Nat /\ IsFiniteSet(Threads) /\ Cardinality(Threads) < W
ASSUME NoLockAssumption == None \notin Locks

VARIABLES
  ticket, turn,   \* struct RdmaTicketLock, per lock
  pc, lk,         \* each thread: program counter, the lock it works on
  my_ticket       \* Lock's local variable

vars == <<ticket, turn, pc, lk, my_ticket>>

Init ==
  /\ ticket = [l \in Locks |-> 0]
  /\ turn = [l \in Locks |-> 0]
  /\ pc = [t \in Threads |-> "idle"]
  /\ lk = [t \in Threads |-> None]
  /\ my_ticket = [t \in Threads |-> 0]

-----------------------------------------------------------------------------
\* A mistake, not part of Next: Unlock closes the gap between the words instead
\* of admitting the next ticket.
UnlockStoresTicket(t) ==
  /\ pc[t] = "cs"
  /\ turn' = [turn EXCEPT ![lk[t]] = ticket[lk[t]]]
  /\ pc' = [pc EXCEPT ![t] = "idle"]
  /\ lk' = [lk EXCEPT ![t] = None]
  /\ my_ticket' = [my_ticket EXCEPT ![t] = 0]
  /\ UNCHANGED ticket

-----------------------------------------------------------------------------
\* my_ticket = FetchAndAdd(ticket_, 1)
Lock(t, l) ==
  /\ pc[t] = "idle"
  /\ pc' = [pc EXCEPT ![t] = "spin"]
  /\ lk' = [lk EXCEPT ![t] = l]
  /\ my_ticket' = [my_ticket EXCEPT ![t] = ticket[l]]
  /\ ticket' = [ticket EXCEPT ![l] = (@ + 1) % W]
  /\ UNCHANGED turn

\* while (Read(turn_) != my_ticket)
Spin(t) ==
  /\ pc[t] = "spin"
  /\ turn[lk[t]] = my_ticket[t]
  /\ pc' = [pc EXCEPT ![t] = "cs"]
  /\ UNCHANGED <<ticket, turn, lk, my_ticket>>

\* FetchAndAdd(turn_, 1)
Unlock(t) ==
  /\ pc[t] = "cs"
  /\ turn' = [turn EXCEPT ![lk[t]] = (@ + 1) % W]
  /\ pc' = [pc EXCEPT ![t] = "idle"]
  /\ lk' = [lk EXCEPT ![t] = None]
  /\ my_ticket' = [my_ticket EXCEPT ![t] = 0]
  /\ UNCHANGED ticket

Next == \E t \in Threads : Spin(t) \/ Unlock(t) \/ \E l \in Locks : Lock(t, l)

\* A thread that has called Lock keeps reading turn_, and critical sections end.
Spec == Init /\ [][Next]_vars /\ \A t \in Threads : WF_vars(Spin(t) \/ Unlock(t))

-----------------------------------------------------------------------------
\* The waiting line: the holders of the tickets from turn_ up to ticket_.
Outstanding(l) == (ticket[l] + W - turn[l]) % W
Holder(l, k) == CHOOSE t \in Threads : lk[t] = l /\ my_ticket[t] = k
Line == [l \in Locks |-> [i \in 1..Outstanding(l) |-> Holder(l, (turn[l] + i - 1) % W)]]
Held == [l \in Locks |-> \E t \in Threads : pc[t] = "cs" /\ lk[t] = l]

Fair == INSTANCE FairLock WITH line <- Line, held <- Held

\* The ticket lock implements FairLock, for ever: tickets are served one at a
\* time in the order of the fetch-and-adds and the line moves on, also when
\* the words wrap around.
ImplementsFairLock == Fair!FairSpec
=============================================================================
