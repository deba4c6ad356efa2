------------------------------- MODULE FairLock -------------------------------
(***************************************************************************)
(* What the ticket-based locks of this repository promise their callers:   *)
(* a thread joins a lock's waiting line once, only the thread at its front *)
(* may hold the lock, and the line moves when the holder leaves.  The      *)
(* specification says nothing of cohorts, descriptors, flags or RDMA.      *)
(***************************************************************************)
EXTENDS Naturals, Sequences

CONSTANTS Threads, Locks

VARIABLES
  line,   \* line[l]: the threads that drew a ticket for l, in ticket order
  held    \* held[l]: the thread at the front of line[l] holds l

fairVars == <<line, held>>

InLine(t, l) == \E i \in 1..Len(line[l]) : line[l][i] = t

Init ==
  /\ line = [l \in Locks |-> <<>>]
  /\ held = [l \in Locks |-> FALSE]

Join(t, l) ==
  /\ \A m \in Locks : ~InLine(t, m)
  /\ line' = [line EXCEPT ![l] = Append(@, t)]
  /\ UNCHANGED held

Enter(l) ==
  /\ line[l] # <<>> /\ ~held[l]
  /\ held' = [held EXCEPT ![l] = TRUE]
  /\ UNCHANGED line

Leave(l) ==
  /\ held[l]
  /\ held' = [held EXCEPT ![l] = FALSE]
  /\ line' = [line EXCEPT ![l] = Tail(@)]

Next == \E l \in Locks : Enter(l) \/ Leave(l) \/ \E t \in Threads : Join(t, l)

Spec == Init /\ [][Next]_fairVars

FairSpec ==
  Spec /\ \A l \in Locks : WF_fairVars(Enter(l)) /\ WF_fairVars(Leave(l))
=============================================================================
