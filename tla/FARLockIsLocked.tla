--------------------------- MODULE FARLockIsLocked ----------------------------
(***************************************************************************)
(* FARLockHandler::IsLocked, src/include/locks/farlock.h, beside threads   *)
(* that call Lock and Unlock.                                              *)
(*                                                                         *)
(* It compares remote_tail_ with local_tail_.  These are two loads of the  *)
(* CPU, which C++ leaves unordered, or two words of one RDMA read, which   *)
(* is not atomic: two steps, in either order, with steps of the threads in *)
(* between.  It writes nothing that Lock and Unlock read, so that one call *)
(* at a time stands for any number.                                        *)
(***************************************************************************)
EXTENDS FARLock

CONSTANT
  \* The pairs <<t, u>> such that the pointer to t's remote descriptor is the
  \* same number as the address of u's local one.  The pointer holds the id of
  \* t's node above the address: the two can agree if that id is 0, as the
  \* addresses are those of different processes.
  SameWord

ASSUME SameWordAssumption ==
  SameWord \subseteq {p \in Threads \X Threads : NodeOf[p[1]] # NodeOf[p[2]]}

VARIABLES
  asked,    \* the lock that IsLocked was called for, or None
  loaded,   \* the cohort whose tail was loaded first, or None ...
  got,      \* ... and what was there
  \* history of the call: the threads that have been at the lock since it
  \* began, and whether one was there at the first load
  staying, used

call == <<asked, loaded, got, staying, used>>

\* The threads between the exchange of a tail of lock l and the end of Unlock
Users(l) == {t \in Threads : pc[t] \in Queued /\ lk[t] = l}

-----------------------------------------------------------------------------
\* What the call has in its hands if it loads the other tail now
Got(c) == IF c = loaded THEN got ELSE tail[asked][c]

\* A mistake that the code could contain: only the one queue is looked at.
AnswerByOneTail == Got("local") # None

\* return remote_tail_ != local_tail_
Answer ==
  /\ Got("remote") # Got("local")
  /\ <<Got("remote"), Got("local")>> \notin SameWord

InitCall ==
  /\ asked = None /\ loaded = None /\ got = None
  /\ staying = {} /\ used = FALSE

IsLocked(l) ==
  /\ asked = None
  /\ asked' = l
  /\ staying' = Users(l)
  /\ UNCHANGED <<loaded, got, used>>

\* The first of IsLockedLocal's loads, or the first word that IsLockedRemote's
\* Read brings to lock_buffer_
LoadTail(c) ==
  /\ asked # None /\ loaded = None
  /\ loaded' = c
  /\ got' = tail[asked][c]
  /\ used' = (Users(asked) # {})
  /\ UNCHANGED <<asked, staying>>

\* The second; the answer is returned.
LoadOtherTail ==
  /\ loaded # None
  /\ asked' = None /\ loaded' = None /\ got' = None
  /\ staying' = {} /\ used' = FALSE

\* A step of a thread, while the call lasts
Meanwhile ==
  /\ UNCHANGED <<asked, loaded, got, used>>
  /\ staying' = staying \cap Users(asked)'

NextWithCall ==
  \/ Next /\ Meanwhile
  \/ UNCHANGED vars /\ \E l \in Locks : IsLocked(l)
  \/ UNCHANGED vars /\ \E c \in Cohorts : LoadTail(c)
  \/ UNCHANGED vars /\ LoadOtherTail

SpecWithCall == Init /\ InitCall /\ [][NextWithCall]_<<vars, call>>

-----------------------------------------------------------------------------
\* What an answer of IsLocked is worth while threads come and go, whenever the
\* second load takes place.  True: at one of the loads a thread was between
\* its exchange of a tail and the end of its Unlock.  False: no thread was
\* there throughout the call, or the two tails were descriptors at addresses
\* that happen to be equal.  It does not say that the lock was free at any
\* time: a thread of the one cohort may come before the other's last one goes.
IsLockedAnswer ==
  loaded # None =>
    /\ Answer => used \/ Users(asked) # {}
    /\ ~Answer => staying = {} \/ <<Got("remote"), Got("local")>> \in SameWord
=============================================================================
