-------------------------------- MODULE Verbs --------------------------------
(***************************************************************************)
(* The one-sided operations of MemoryPool, src/include/rdma/memory_pool.h. *)
(* Each takes the next word of the pool's ring of local buffers, posts a   *)
(* work request that names it, polls the completion and takes its result   *)
(* from the buffer; Exchange repeats a compare-and-swap until it succeeds. *)
(* A thread has a pool and queue pairs of its own, so that at most one of  *)
(* its requests is under way.  All callers leave signaled at its default,  *)
(* true.                                                                   *)
(*                                                                         *)
(* RDMA atomics are atomic with respect to each other, not to writes: a    *)
(* write may come between what an atomic fetches and what it stores.  The  *)
(* callers avoid that in two ways.  Most words of the locks are either for *)
(* Write or for the atomics.  The word of rdma_spin_lock.h is for both:    *)
(* Lock compares-and-swaps it until it finds UNLOCKED and leaves LOCKED,   *)
(* and only the thread that did so writes it, to unlock.                   *)
(***************************************************************************)
EXTENDS Naturals

CONSTANTS
  Threads,
  PlainWords, AtomicWordSet,  \* words for Write, words for the atomics
  SpinWords,                  \* words of spin locks, for both
  W,                          \* a word holds the numbers 0..(W - 1)
  BufferCount,                \* buffer_count_
  MaxCalls                    \* bound: the calls that a thread makes

ASSUME VerbsAssumption ==
  /\ W \in Nat \ {0, 1} /\ BufferCount \in Nat \ {0} /\ MaxCalls \in Nat
  /\ PlainWords \cap (AtomicWordSet \cup SpinWords) = {} /\ AtomicWordSet \cap SpinWords = {}

VARIABLES
  mem,           \* the words of the target's memory
  buffer,        \* buffer[t]: the ring of local buffers
  buffer_index,  \* buffer_index_: the next of them
  op,            \* op[t]: the operation that t called last
  bindex,        \* bindex[t]: its local buffer
  wr,            \* wr[t]: its work request, ...
  status,        \* status[t]: ... "none", "posted", "fetched" or "complete"
  result,        \* result[t]: what it returned
  calls          \* calls[t]: the calls of t so far

vars == <<mem, buffer, buffer_index, op, bindex, wr, status, result, calls>>

Words == PlainWords \cup AtomicWordSet \cup SpinWords
Values == 0..(W - 1)
Slots == 0..(BufferCount - 1)
Blank == [ok |-> FALSE, val |-> 0]
UNLOCKED == 0
LOCKED == 1

\* A work request: compare holds compare_add
Wr(opcode, word, compare, swap) ==
  [opcode |-> opcode, word |-> word, compare |-> compare, swap |-> swap]

\* *local or *prev, and what the operation returns
Prev(t) == buffer[t][bindex[t]]
Ok(val) == [ok |-> TRUE, val |-> val]

Finish(t, res) ==
  /\ status' = [status EXCEPT ![t] = "none"]
  /\ result' = [result EXCEPT ![t] = res]
  /\ UNCHANGED <<mem, buffer, buffer_index, op, bindex, wr, calls>>

-----------------------------------------------------------------------------
(***************************************************************************)
(* Mistakes that the code could contain; none is part of Next.             *)
(***************************************************************************)
\* Exchange takes any completion for a success.
ExchangeUnchecked(t) ==
  /\ status[t] = "complete" /\ op[t].verb = "Exchange"
  /\ Finish(t, Ok(Prev(t)))

\* Exchange tries again with the value it expected before.
RetrySame(t) ==
  /\ status[t] = "complete" /\ op[t].verb = "Exchange"
  /\ Prev(t) # wr[t].compare
  /\ status' = [status EXCEPT ![t] = "posted"]
  /\ UNCHANGED <<mem, buffer, buffer_index, op, bindex, wr, result, calls>>

-----------------------------------------------------------------------------
Init ==
  /\ mem = [w \in Words |-> 0]
  /\ buffer = [t \in Threads |-> [i \in Slots |-> 0]]
  /\ buffer_index = [t \in Threads |-> 0]
  /\ bindex = [t \in Threads |-> 0]
  /\ \E w \in Words :   \* op and wr mean nothing yet
       /\ op = [t \in Threads |-> [verb |-> "Read", word |-> w, arg |-> 0, desired |-> 0]]
       /\ wr = [t \in Threads |-> Wr("READ", w, 0, 0)]
  /\ status = [t \in Threads |-> "none"]
  /\ result = [t \in Threads |-> Blank]
  /\ calls = [t \in Threads |-> 0]

\* What the operations begin with: take a local buffer (Write stores the value
\* there), prepare the request and post it.
Post(t, r, opcode, compare, swap, stored) ==
  /\ status[t] = "none" /\ calls[t] < MaxCalls
  /\ calls' = [calls EXCEPT ![t] = @ + 1]
  /\ op' = [op EXCEPT ![t] = r]
  /\ bindex' = [bindex EXCEPT ![t] = buffer_index[t]]
  /\ buffer_index' = [buffer_index EXCEPT ![t] = (@ + 1) % BufferCount]
  /\ buffer' = [buffer EXCEPT ![t][buffer_index[t]] = stored]
  /\ wr' = [wr EXCEPT ![t] = Wr(opcode, r.word, compare, swap)]
  /\ status' = [status EXCEPT ![t] = "posted"]
  /\ UNCHANGED <<mem, result>>

Operation(verb, w, arg, desired) == [verb |-> verb, word |-> w, arg |-> arg, desired |-> desired]
NextBuffer(t) == buffer[t][buffer_index[t]]

Read(t, w) == Post(t, Operation("Read", w, 0, 0), "READ", 0, 0, NextBuffer(t))

Write(t, w, value) == Post(t, Operation("Write", w, value, 0), "WRITE", 0, 0, value)

CompareAndSwap(t, w, expected, desired) ==
  Post(t, Operation("CompareAndSwap", w, expected, desired), "CAS", expected, desired, NextBuffer(t))

CompareAndSwapExpected(t, w, expected, desired) ==
  Post(t, Operation("CompareAndSwapExpected", w, expected, desired), "CAS", expected, desired,
       NextBuffer(t))

FetchAndAdd(t, w, add) ==
  Post(t, Operation("FetchAndAdd", w, add, 0), "FAA", add, 0, NextBuffer(t))

Exchange(t, w, desired, hint) ==
  Post(t, Operation("Exchange", w, hint, desired), "CAS", hint, desired, NextBuffer(t))

-----------------------------------------------------------------------------
\* The network cards carry out a request.  A Read or a Write of one word is one
\* step; a Write takes its value from the local buffer.
Execute(t) ==
  LET w == wr[t].word IN
  /\ status[t] = "posted"
  /\ \/ /\ wr[t].opcode = "READ"
        /\ buffer' = [buffer EXCEPT ![t][bindex[t]] = mem[w]]
        /\ UNCHANGED mem
     \/ /\ wr[t].opcode = "WRITE"
        /\ mem' = [mem EXCEPT ![w] = Prev(t)]
        /\ UNCHANGED buffer
  /\ status' = [status EXCEPT ![t] = "complete"]
  /\ UNCHANGED <<buffer_index, op, bindex, wr, result, calls>>

\* An atomic fetches the word, which the local buffer receives, ...
Fetch(t) ==
  LET w == wr[t].word IN
  /\ status[t] = "posted" /\ wr[t].opcode \in {"FAA", "CAS"}
  /\ \A u \in Threads : status[u] = "fetched" => wr[u].word # w
  /\ buffer' = [buffer EXCEPT ![t][bindex[t]] = mem[w]]
  /\ status' = [status EXCEPT ![t] = "fetched"]
  /\ UNCHANGED <<mem, buffer_index, op, bindex, wr, result, calls>>

\* ... and stores what it makes of that, whatever the word holds by then; a
\* compare-and-swap that did not find its value stores nothing.
Fails(t) == wr[t].opcode = "CAS" /\ Prev(t) # wr[t].compare

ToStore(t) ==
  IF wr[t].opcode = "FAA" THEN (Prev(t) + wr[t].compare) % W ELSE wr[t].swap

Store(t) ==
  /\ status[t] = "fetched"
  /\ mem' = IF Fails(t) THEN mem ELSE [mem EXCEPT ![wr[t].word] = ToStore(t)]
  /\ status' = [status EXCEPT ![t] = "complete"]
  /\ UNCHANGED <<buffer, buffer_index, op, bindex, wr, result, calls>>

-----------------------------------------------------------------------------
\* The completion has been polled: the operation returns, ...
Completed(t, verb) == status[t] = "complete" /\ op[t].verb = verb

ReadReturns(t) == Completed(t, "Read") /\ Finish(t, Ok(Prev(t)))
WriteReturns(t) == Completed(t, "Write") /\ Finish(t, Ok(0))
FetchAndAddReturns(t) == Completed(t, "FetchAndAdd") /\ Finish(t, Ok(Prev(t)))

CompareAndSwapReturns(t) ==
  /\ Completed(t, "CompareAndSwap")
  /\ Finish(t, [ok |-> Prev(t) = op[t].arg, val |-> 0])

\* ... here with the value found left in *expected, ...
CompareAndSwapExpectedReturns(t) ==
  /\ Completed(t, "CompareAndSwapExpected")
  /\ Finish(t, [ok |-> Prev(t) = op[t].arg, val |-> Prev(t)])

\* ... or, in Exchange, only if the compare-and-swap has found what it was
\* given; otherwise it is posted again with the value that it found.
ExchangeReturns(t) ==
  /\ Completed(t, "Exchange") /\ Prev(t) = wr[t].compare
  /\ Finish(t, Ok(Prev(t)))

ExchangeRetries(t) ==
  /\ Completed(t, "Exchange") /\ Prev(t) # wr[t].compare
  /\ wr' = [wr EXCEPT ![t] = Wr(@.opcode, @.word, Prev(t), @.swap)]
  /\ status' = [status EXCEPT ![t] = "posted"]
  /\ UNCHANGED <<mem, buffer, buffer_index, op, bindex, result, calls>>

Poll(t) ==
  \/ ReadReturns(t) \/ WriteReturns(t) \/ FetchAndAddReturns(t) \/ CompareAndSwapReturns(t)
  \/ CompareAndSwapExpectedReturns(t) \/ ExchangeReturns(t) \/ ExchangeRetries(t)

CallAtomic(t) ==
  \E w \in AtomicWordSet, x, y \in Values :
    \/ CompareAndSwap(t, w, x, y) \/ CompareAndSwapExpected(t, w, x, y)
    \/ Exchange(t, w, x, y) \/ FetchAndAdd(t, w, x)

\* RdmaSpinLock::Lock has left its loop: t's last call found UNLOCKED.
Holds(t, w) ==
  /\ status[t] = "none" /\ op[t].verb = "CompareAndSwapExpected" /\ op[t].word = w
  /\ result[t].ok

\* A turn of the loop of RdmaSpinLock::Lock, and RdmaSpinLock::Unlock
CallSpinLock(t, w) ==
  \/ ~Holds(t, w) /\ CompareAndSwapExpected(t, w, UNLOCKED, LOCKED)
  \/ Holds(t, w) /\ Write(t, w, UNLOCKED)

Next ==
  \E t \in Threads :
    \/ CallAtomic(t) \/ Execute(t) \/ Fetch(t) \/ Store(t) \/ Poll(t)
    \/ \E w \in SpinWords : CallSpinLock(t, w)
    \/ \E w \in Words : Read(t, w)
    \/ \E w \in PlainWords, x \in Values : Write(t, w, x)

\* Requests that are posted are carried out, threads keep polling.
Fairness ==
  \A t \in Threads : WF_vars(Execute(t) \/ Fetch(t) \/ Store(t)) /\ WF_vars(Poll(t))

SafeSpec == Init /\ [][Next]_vars
Spec == SafeSpec /\ Fairness

-----------------------------------------------------------------------------
(***************************************************************************)
(* Properties.                                                             *)
(***************************************************************************)
\* An operation has taken effect once its request is carried out, a
\* compare-and-swap that fails when it has fetched the word, an Exchange when a
\* compare-and-swap of it has stored.
Performed(t) ==
  \/ status[t] = "complete" /\ (op[t].verb = "Exchange" => ~Fails(t))
  \/ status[t] = "fetched" /\ op[t].verb # "Exchange" /\ Fails(t)

AbstractState ==
  [t \in Threads |-> IF status[t] = "none" THEN "idle"
                     ELSE IF Performed(t) THEN "performed" ELSE "called"]

\* What the operation is going to return then
ToReturn(t) ==
  [ok  |-> op[t].verb \in {"CompareAndSwap", "CompareAndSwapExpected"} => Prev(t) = op[t].arg,
   val |-> IF op[t].verb \in {"Write", "CompareAndSwap"} THEN 0 ELSE Prev(t)]

AbstractOutcome == [t \in Threads |-> IF Performed(t) THEN ToReturn(t) ELSE Blank]

Abstract == INSTANCE AtomicWords WITH
  state <- AbstractState,
  outcome <- AbstractOutcome

\* Each operation acts on its word at one instant between its call and its
\* return and returns what it found, whatever other threads do meanwhile; the
\* loop of compare-and-swaps in Exchange is one swap, and its failed rounds
\* leave no trace.  That holds for the spin lock's word too, although atomics
\* and writes meet there.
ImplementsAtomicWords == Abstract!Spec

\* The inductive invariant of the refinement: types, that a work request under
\* way is the one its operation asks for, ...
TypeOK ==
  /\ mem \in [Words -> Values]
  /\ buffer \in [Threads -> [Slots -> Values]]
  /\ buffer_index \in [Threads -> Slots] /\ bindex \in [Threads -> Slots]
  /\ op \in [Threads -> Abstract!Operations]
  /\ wr \in [Threads -> [opcode : {"READ", "WRITE", "FAA", "CAS"}, word : Words,
                         compare : Values, swap : Values]]
  /\ status \in [Threads -> {"none", "posted", "fetched", "complete"}]
  /\ result \in [Threads -> [ok : BOOLEAN, val : Values]]

RequestOf(t) ==
  /\ wr[t].word = op[t].word
  /\ op[t].verb = "Read" => wr[t].opcode = "READ"
  /\ op[t].verb = "Write" => wr[t].opcode = "WRITE" /\ Prev(t) = op[t].arg
  /\ op[t].verb = "FetchAndAdd" => wr[t].opcode = "FAA" /\ wr[t].compare = op[t].arg
  /\ op[t].verb \in {"CompareAndSwap", "CompareAndSwapExpected"} =>
       wr[t].opcode = "CAS" /\ wr[t].compare = op[t].arg /\ wr[t].swap = op[t].desired
  /\ op[t].verb = "Exchange" => wr[t].opcode = "CAS" /\ wr[t].swap = op[t].desired

RequestsMatch == \A t \in Threads : status[t] # "none" => RequestOf(t)

\* ... that words are used as they are meant, ...
Uses(t) ==
  /\ op[t].verb = "Write" => op[t].word \in PlainWords \cup SpinWords
  /\ op[t].verb \notin {"Read", "Write"} => op[t].word \in AtomicWordSet \cup SpinWords
  /\ op[t].word \in SpinWords =>
       /\ op[t].verb \in {"Read", "Write", "CompareAndSwapExpected"}
       /\ op[t].arg = UNLOCKED

WordsUsed == \A t \in Threads : Uses(t)

\* ... and that only one atomic at a time is half done on a word, which still
\* holds what it fetched unless it fails: on a spin lock's word it fetched
\* UNLOCKED then, and that is all that is written there.
FetchedHolds ==
  \A t \in Threads : status[t] = "fetched" =>
    /\ wr[t].opcode \in {"FAA", "CAS"}
    /\ Fails(t) \/ mem[wr[t].word] = Prev(t)
    /\ \A u \in Threads \ {t} : status[u] = "fetched" => wr[u].word # wr[t].word

IInv == TypeOK /\ RequestsMatch /\ WordsUsed /\ FetchedHolds

\* Every call returns.  An Exchange may lose round after round, but only to
\* operations of others that succeed.
CallsReturn == \A t \in Threads : status[t] # "none" ~> status[t] = "none"
=============================================================================
