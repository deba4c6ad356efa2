----------------------------- MODULE VerbsProofs -----------------------------
(***************************************************************************)
(* MemoryPool's operations implement atomic words: a proof for any number  *)
(* of threads, words, values, local buffers and calls.  The point is that  *)
(* no write comes between the two halves of an atomic that stores.         *)
(***************************************************************************)
EXTENDS Verbs, TLAPS

\* A leaf that names no prover is tried with SMT, then with Zenon.
USE SMTT(30), ZenonT(30)

\* Facts about the ring of local buffers and about words, from the assumptions
LEMMA Arithmetic ==
  /\ 0 \in Values /\ 0 \in Slots
  /\ \A i \in Slots : (i + 1) % BufferCount \in Slots
  /\ \A x, y \in Values : (x + y) % W \in Values
BY VerbsAssumption DEF Values, Slots
LEMMA WordSets ==
  /\ PlainWords \cap AtomicWordSet = {} /\ PlainWords \cap SpinWords = {}
  /\ AtomicWordSet \cap SpinWords = {}
  /\ UNLOCKED \in Values /\ LOCKED \in Values
BY VerbsAssumption DEF Values, UNLOCKED, LOCKED

\* A posted operation: what Post changes, for every verb and opcode
LEMMA PostPreserves ==
  ASSUME IInv, NEW t \in Threads, NEW r \in Abstract!Operations,
         NEW opcode \in {"READ", "WRITE", "FAA", "CAS"}, NEW compare \in Values,
         NEW swap \in Values, NEW stored \in Values,
         Post(t, r, opcode, compare, swap, stored),
         r.verb = "Read" => opcode = "READ",
         r.verb = "Write" => opcode = "WRITE" /\ stored = r.arg /\ r.word \in PlainWords \cup SpinWords,
         r.verb \notin {"Read", "Write"} => r.word \in AtomicWordSet \cup SpinWords,
         r.word \in SpinWords =>
           r.verb \in {"Read", "Write", "CompareAndSwapExpected"} /\ r.arg = UNLOCKED,
         r.verb = "FetchAndAdd" => opcode = "FAA" /\ compare = r.arg,
         r.verb \in {"CompareAndSwap", "CompareAndSwapExpected"} =>
           opcode = "CAS" /\ compare = r.arg /\ swap = r.desired,
         r.verb = "Exchange" => opcode = "CAS" /\ swap = r.desired
  PROVE  IInv' /\ Abstract!Call(t, r)
<1>1. TypeOK'
  BY Arithmetic, Zenon DEF IInv, TypeOK, Post, Wr, Abstract!Operations
<1>2. ASSUME NEW u \in Threads, status'[u] # "none" PROVE RequestOf(u)'
  <2>1. CASE u = t
    BY <2>1 DEF IInv, TypeOK, Post, Wr, RequestOf, Prev
  <2>2. CASE u # t
    BY <1>2, <2>2, Zenon DEF IInv, RequestsMatch, TypeOK, Post, RequestOf, Prev
  <2> QED BY <2>1, <2>2, Zenon
<1>3. ASSUME NEW u \in Threads PROVE Uses(u)'
  BY <1>3, Zenon DEF IInv, TypeOK, WordsUsed, Uses, Post
<1>4. FetchedHolds'
  BY Zenon DEF IInv, TypeOK, FetchedHolds, Fails, Prev, Post
<1>5. Abstract!Call(t, r)
  <2>1. AbstractState' = [AbstractState EXCEPT ![t] = "called"]
    BY Zenon DEF AbstractState, Performed, Fails, Prev, IInv, TypeOK, Post, Wr
  <2>2. AbstractOutcome' = AbstractOutcome
    BY Zenon DEF AbstractOutcome, ToReturn, Performed, Fails, Prev, IInv, TypeOK, Post, Wr
  <2> QED BY <2>1, <2>2, Zenon DEF Abstract!Call, AbstractState, Post
<1> QED BY <1>1, <1>2, <1>3, <1>4, <1>5, Zenon DEF IInv, RequestsMatch, WordsUsed

\* An operation that returns: its result is the outcome fixed before.
LEMMA FinishPreserves ==
  ASSUME IInv, NEW t \in Threads, Performed(t), Finish(t, ToReturn(t))
  PROVE  IInv' /\ Abstract!Return(t)
<1>0. ToReturn(t) \in [ok : BOOLEAN, val : Values]
  BY Arithmetic DEF ToReturn, Prev, IInv, TypeOK
<1>1. TypeOK'
  BY <1>0, Zenon DEF IInv, TypeOK, Finish
<1>2. RequestsMatch' /\ WordsUsed' /\ FetchedHolds'
  <2>1. RequestsMatch'
    BY Zenon DEF IInv, TypeOK, Finish, RequestsMatch, RequestOf, Prev
  <2>2. WordsUsed'
    BY Zenon DEF IInv, Finish, WordsUsed, Uses
  <2>3. FetchedHolds'
    BY Zenon DEF IInv, TypeOK, Finish, FetchedHolds, Fails, Prev
  <2> QED BY <2>1, <2>2, <2>3, Zenon
<1>3. AbstractState[t] = "performed" /\ AbstractOutcome[t] = ToReturn(t)
  BY Zenon DEF AbstractState, AbstractOutcome, Performed
<1>4. AbstractState' = [AbstractState EXCEPT ![t] = "idle"]
  BY Zenon DEF AbstractState, Performed, Fails, Prev, IInv, TypeOK, Finish
<1>5. AbstractOutcome' = [AbstractOutcome EXCEPT ![t] = Abstract!Blank]
  BY Zenon DEF AbstractOutcome, ToReturn, Performed, Fails, Prev, IInv, TypeOK, Finish, Blank, Abstract!Blank
<1>6. Abstract!Return(t)
  BY <1>3, <1>4, <1>5, Zenon DEF Abstract!Return, Finish
<1> QED BY <1>1, <1>2, <1>6, Zenon DEF IInv

\* The steps of the network cards: t's operation acts, ...
LEMMA Performs ==
  ASSUME NEW t \in Threads, AbstractState[t] = "called", UNCHANGED <<op, result>>,
         mem' = [mem EXCEPT ![op[t].word] = Abstract!NewValue(op[t], mem[op[t].word])],
         Performed(t)', status'[t] # "none",
         ToReturn(t)' = Abstract!Outcome(op[t], mem[op[t].word]),
         \A u \in Threads \ {t} :
           AbstractState'[u] = AbstractState[u] /\ AbstractOutcome'[u] = AbstractOutcome[u]
  PROVE  Abstract!Perform(t)
<1>1. AbstractState' = [AbstractState EXCEPT ![t] = "performed"]
  BY Zenon DEF AbstractState
<1>2. AbstractOutcome' = [AbstractOutcome EXCEPT ![t] = Abstract!Outcome(op[t], mem[op[t].word])]
  BY Zenon DEF AbstractOutcome
<1> QED BY <1>1, <1>2, Zenon DEF Abstract!Perform

\* ... or nothing happens that a caller could tell.
LEMMA Stutters ==
  ASSUME NEW t \in Threads, UNCHANGED <<mem, op, result>>,
         \A u \in Threads : AbstractState'[u] = AbstractState[u] /\ AbstractOutcome'[u] = AbstractOutcome[u]
  PROVE  UNCHANGED Abstract!atomicVars
<1>1. AbstractState' = AbstractState /\ AbstractOutcome' = AbstractOutcome
  BY Zenon DEF AbstractState, AbstractOutcome
<1> QED BY <1>1, Zenon DEF Abstract!atomicVars

\* A write finds no atomic half done on its word that is going to store, unless
\* that has fetched what it writes.
LEMMA WriteAmongAtomics ==
  ASSUME IInv, NEW t \in Threads, status[t] = "posted", wr[t].opcode = "WRITE",
         NEW u \in Threads, status[u] = "fetched", wr[u].word = wr[t].word, ~Fails(u)
  PROVE  Prev(t) = Prev(u)
<1>1. /\ RequestOf(t) /\ RequestOf(u) /\ Uses(t) /\ Uses(u)
      /\ op[t].verb \in Abstract!Verbs /\ op[u].verb \in Abstract!Verbs
      /\ wr[u].opcode \in {"FAA", "CAS"}
  BY Zenon DEF IInv, RequestsMatch, WordsUsed, FetchedHolds, TypeOK, Abstract!Operations
<1>2. op[t].verb = "Write" /\ op[u].verb \notin {"Read", "Write"}
  BY <1>1, Zenon DEF RequestOf, Abstract!Verbs
<1>3. op[t].word \in SpinWords /\ op[u].word = op[t].word
  BY <1>1, <1>2, WordSets, Zenon DEF RequestOf, Uses
<1>4. Prev(t) = UNLOCKED /\ op[u].verb = "CompareAndSwapExpected" /\ op[u].arg = UNLOCKED
  BY <1>1, <1>2, <1>3, Zenon DEF RequestOf, Uses
<1> QED BY <1>1, <1>4, Zenon DEF RequestOf, Fails

\* A Read or a Write acts when it is carried out.
LEMMA ExecutePreserves ==
  ASSUME IInv, NEW t \in Threads, Execute(t)
  PROVE  IInv' /\ Abstract!Perform(t)
<1> DEFINE w == wr[t].word
           old == mem[w]
<1>0. /\ w \in Words /\ old \in Values /\ RequestOf(t) /\ w = op[t].word /\ bindex[t] \in Slots
      /\ op[t].verb \in Abstract!Verbs /\ Prev(t) \in Values /\ status[t] = "posted"
  <2>1. status[t] = "posted" /\ RequestOf(t)
    BY Zenon DEF Execute, IInv, RequestsMatch
  <2>2. w \in Words /\ bindex[t] \in Slots /\ op[t].verb \in Abstract!Verbs /\ Prev(t) \in Values
    BY DEF IInv, TypeOK, Prev, Abstract!Operations
  <2>3. old \in Values
    BY <2>2, Zenon DEF IInv, TypeOK
  <2> QED BY <2>1, <2>2, <2>3, Zenon DEF RequestOf
<1>1. status'[t] = "complete" /\ UNCHANGED <<wr, op, bindex, result>>
  BY Zenon DEF IInv, TypeOK, Execute
<1>2. TypeOK'
  <2>1. mem' \in [Words -> Values]
    BY <1>0, Zenon DEF IInv, TypeOK, Execute
  <2>2. buffer' \in [Threads -> [Slots -> Values]]
    <3>1. buffer' = buffer \/ buffer' = [buffer EXCEPT ![t][bindex[t]] = old]
      BY Zenon DEF Execute
    <3>2. buffer \in [Threads -> [Slots -> Values]]
      BY Zenon DEF IInv, TypeOK
    <3> HIDE DEF old
    <3> QED BY <1>0, <3>1, <3>2
  <2>3. status' \in [Threads -> {"none", "posted", "fetched", "complete"}]
    BY Zenon DEF IInv, TypeOK, Execute
  <2> QED BY <2>1, <2>2, <2>3, Zenon DEF IInv, TypeOK, Execute
<1>3. RequestsMatch' /\ WordsUsed'
  <2>1. ASSUME NEW u \in Threads, status'[u] # "none" PROVE RequestOf(u)'
    <3>1. CASE u = t
      BY <1>0, <3>1, Zenon DEF IInv, TypeOK, Execute, RequestOf, Prev
    <3>2. CASE u # t
      BY <2>1, <3>2, Zenon DEF IInv, RequestsMatch, TypeOK, Execute, RequestOf, Prev
    <3> QED BY <3>1, <3>2, Zenon
  <2> QED BY <1>1, <2>1, Zenon DEF IInv, RequestsMatch, WordsUsed, Uses
<1>4. ASSUME NEW u \in Threads, u # t
      PROVE  status'[u] = status[u] /\ Prev(u)' = Prev(u) /\ Fails(u)' = Fails(u)
  BY <1>4, Zenon DEF IInv, TypeOK, Execute, Prev, Fails
<1>5. FetchedHolds'
  <2> SUFFICES ASSUME NEW u \in Threads, u # t, status[u] = "fetched", ~Fails(u)
               PROVE  mem'[wr[u].word] = Prev(u)
    BY <1>1, <1>4, Zenon DEF IInv, FetchedHolds
  <2>1. wr[u].word \in Words /\ mem[wr[u].word] = Prev(u)
    BY Zenon DEF IInv, TypeOK, FetchedHolds
  <2>2. CASE wr[t].opcode = "READ"
    BY <2>1, <2>2, Zenon DEF Execute
  <2>3. CASE wr[t].opcode = "WRITE" /\ wr[u].word = w
    BY <1>0, <2>1, <2>3, WriteAmongAtomics, Zenon DEF Execute, IInv, TypeOK
  <2>4. CASE wr[t].opcode = "WRITE" /\ wr[u].word # w
    BY <1>0, <2>1, <2>4, Zenon DEF Execute, IInv, TypeOK
  <2> QED BY <2>2, <2>3, <2>4, Zenon DEF Execute
<1>6. op[t].verb \in {"Read", "Write"}
  BY <1>0, Zenon DEF RequestOf, Execute, Abstract!Verbs
<1>7. AbstractState[t] = "called"
  BY <1>0, Zenon DEF AbstractState, Performed
<1>8. Performed(t)'
  BY <1>1, <1>6, Zenon DEF Performed
<1>9. ToReturn(t)' = Abstract!Outcome(op[t], old)
  <2>1. op[t].verb = "Read" => Prev(t)' = old
    <3> SUFFICES ASSUME op[t].verb = "Read" PROVE Prev(t)' = old
      OBVIOUS
    <3>1. buffer' = [buffer EXCEPT ![t][bindex[t]] = old]
      BY <1>0, Zenon DEF Execute, RequestOf
    <3> QED BY <1>0, <1>1, <3>1, Zenon DEF IInv, TypeOK, Prev
  <2> QED BY <1>1, <1>6, <2>1, Zenon DEF ToReturn, Abstract!Outcome, Abstract!IsCas
<1>10. mem' = [mem EXCEPT ![w] = Abstract!NewValue(op[t], old)]
  <2>1. CASE op[t].verb = "Read"
    BY <1>0, <2>1, Zenon DEF IInv, TypeOK, Execute, Abstract!NewValue, RequestOf
  <2>2. CASE op[t].verb = "Write"
    BY <1>0, <2>2, Zenon DEF IInv, TypeOK, Execute, Abstract!NewValue, RequestOf
  <2> QED BY <1>6, <2>1, <2>2, Zenon
<1>11. \A u \in Threads \ {t} :
         AbstractState'[u] = AbstractState[u] /\ AbstractOutcome'[u] = AbstractOutcome[u]
  BY <1>1, <1>4, Zenon DEF AbstractState, AbstractOutcome, ToReturn, Performed
<1>12. Abstract!Perform(t)
  BY <1>0, <1>1, <1>7, <1>8, <1>9, <1>10, <1>11, Performs, Zenon
<1> QED BY <1>2, <1>3, <1>5, <1>12, Zenon DEF IInv

\* The first half of an atomic: a compare-and-swap that fails acts here, unless
\* it is a round of Exchange.
LEMMA FetchPreserves ==
  ASSUME IInv, NEW t \in Threads, Fetch(t)
  PROVE  IInv' /\ (Abstract!Perform(t) \/ UNCHANGED Abstract!atomicVars)
<1> DEFINE w == wr[t].word
           old == mem[w]
<1>0. /\ w \in Words /\ old \in Values /\ RequestOf(t) /\ w = op[t].word /\ bindex[t] \in Slots
      /\ op[t].verb \in Abstract!Verbs /\ status[t] = "posted"
  BY Zenon DEF IInv, RequestsMatch, TypeOK, Fetch, RequestOf, Abstract!Operations
<1>1. status'[t] = "fetched" /\ UNCHANGED <<wr, op, bindex, result, mem>> /\ Prev(t)' = old
  BY <1>0, Zenon DEF IInv, TypeOK, Fetch, Prev
<1>2. TypeOK'
  BY <1>0, Zenon DEF IInv, TypeOK, Fetch
<1>3. op[t].verb \notin {"Read", "Write"}
  BY <1>0, Zenon DEF RequestOf, Fetch
<1>4. ASSUME NEW u \in Threads, u # t
      PROVE  status'[u] = status[u] /\ Prev(u)' = Prev(u) /\ Fails(u)' = Fails(u)
  BY <1>4, Zenon DEF IInv, TypeOK, Fetch, Prev, Fails
<1>5. RequestsMatch' /\ WordsUsed'
  BY <1>0, <1>1, <1>3, <1>4, Zenon DEF IInv, RequestsMatch, RequestOf, WordsUsed, Uses
<1>6. FetchedHolds'
  BY <1>1, <1>4, Zenon DEF IInv, FetchedHolds, Fetch
<1>7. \A u \in Threads \ {t} :
         AbstractState'[u] = AbstractState[u] /\ AbstractOutcome'[u] = AbstractOutcome[u]
  BY <1>1, <1>4, Zenon DEF AbstractState, AbstractOutcome, ToReturn, Performed
<1>8. AbstractState[t] = "called" /\ AbstractOutcome[t] = Blank
  BY <1>0, Zenon DEF AbstractState, AbstractOutcome, Performed
<1>9. CASE op[t].verb # "Exchange" /\ Fails(t)'
  <2>1. Performed(t)'
    BY <1>1, <1>9, Zenon DEF Performed
  <2>2. op[t].verb \in {"CompareAndSwap", "CompareAndSwapExpected"} /\ old # op[t].arg
    BY <1>0, <1>1, <1>3, <1>9, Zenon DEF Fails, RequestOf, Abstract!Verbs
  <2>3. ToReturn(t)' = Abstract!Outcome(op[t], old)
    BY <1>1, <2>2, Zenon DEF ToReturn, Abstract!Outcome, Abstract!IsCas
  <2>4. mem' = [mem EXCEPT ![w] = Abstract!NewValue(op[t], old)]
    BY <1>0, <1>1, <2>2, Zenon DEF IInv, TypeOK, Abstract!NewValue
  <2>5. Abstract!Perform(t)
    BY <1>0, <1>1, <1>7, <1>8, <2>1, <2>3, <2>4, Performs, Zenon
  <2> QED BY <1>2, <1>5, <1>6, <2>5, Zenon DEF IInv
<1>10. CASE ~(op[t].verb # "Exchange" /\ Fails(t)')
  <2>1. ~Performed(t)'
    BY <1>1, <1>10, Zenon DEF Performed
  <2>2. AbstractState'[t] = "called" /\ AbstractOutcome'[t] = Blank
    BY <1>1, <2>1, Zenon DEF AbstractState, AbstractOutcome, Blank
  <2>3. UNCHANGED Abstract!atomicVars
    BY <1>1, <1>7, <1>8, <2>2, Stutters, Zenon
  <2> QED BY <1>2, <1>5, <1>6, <2>3, Zenon DEF IInv
<1> QED BY <1>9, <1>10, Zenon

\* The second half: an atomic that stores acts here, on a word that still holds
\* what it has fetched.
LEMMA StorePreserves ==
  ASSUME IInv, NEW t \in Threads, Store(t)
  PROVE  IInv' /\ (Abstract!Perform(t) \/ UNCHANGED Abstract!atomicVars)
<1> DEFINE w == wr[t].word
           old == Prev(t)
<1>0. /\ w \in Words /\ old \in Values /\ RequestOf(t) /\ w = op[t].word /\ wr[t].compare \in Values
      /\ wr[t].swap \in Values /\ op[t].verb \in Abstract!Verbs /\ status[t] = "fetched"
      /\ wr[t].opcode \in {"FAA", "CAS"} /\ (Fails(t) \/ mem[w] = old)
  <2>1. status[t] = "fetched" /\ RequestOf(t)
    BY Zenon DEF Store, IInv, RequestsMatch
  <2>2. wr[t].opcode \in {"FAA", "CAS"} /\ (Fails(t) \/ mem[w] = old)
    BY <2>1, Zenon DEF IInv, FetchedHolds
  <2>3. /\ w \in Words /\ old \in Values /\ wr[t].compare \in Values /\ wr[t].swap \in Values
        /\ op[t].verb \in Abstract!Verbs
    BY DEF IInv, TypeOK, Prev, Abstract!Operations
  <2> QED BY <2>1, <2>2, <2>3, Zenon DEF RequestOf
<1>1. status'[t] = "complete" /\ UNCHANGED <<buffer, wr, op, bindex, result>>
  BY Zenon DEF IInv, TypeOK, Store
<1>2. ToStore(t) \in Values
  BY <1>0, Arithmetic, Zenon DEF ToStore
<1>3. TypeOK'
  BY <1>0, <1>2, Zenon DEF IInv, TypeOK, Store
<1>4. \A u \in Threads : Prev(u)' = Prev(u) /\ Fails(u)' = Fails(u)
  BY <1>1, Zenon DEF Prev, Fails
<1>5. \A u \in Threads : u # t => status'[u] = status[u]
  BY Zenon DEF IInv, TypeOK, Store
<1>6. RequestsMatch' /\ WordsUsed'
  BY <1>0, <1>1, <1>4, <1>5, Zenon DEF IInv, RequestsMatch, RequestOf, WordsUsed, Uses
<1>7. FetchedHolds'
  <2> SUFFICES ASSUME NEW u \in Threads, u # t, status[u] = "fetched"
               PROVE  mem'[wr[u].word] = mem[wr[u].word]
    <3>1. FetchedHolds /\ \A u \in Threads : status'[u] = "fetched" => u # t /\ status[u] = "fetched"
      BY <1>1, <1>5, Zenon DEF IInv
    <3> QED BY <1>1, <1>4, <3>1, Zenon DEF FetchedHolds
  <2>1. wr[u].word # w /\ wr[u].word \in Words
    BY <1>0, Zenon DEF IInv, TypeOK, FetchedHolds
  <2> QED BY <2>1, Zenon DEF IInv, TypeOK, Store
<1>8. op[t].verb \notin {"Read", "Write"}
  BY <1>0, Zenon DEF RequestOf
<1>9. \A u \in Threads \ {t} :
         AbstractState'[u] = AbstractState[u] /\ AbstractOutcome'[u] = AbstractOutcome[u]
  BY <1>1, <1>4, <1>5, Zenon DEF AbstractState, AbstractOutcome, ToReturn, Performed
<1>10. CASE Fails(t)
  <2>1. Performed(t)' = Performed(t) /\ ToReturn(t)' = ToReturn(t)
    BY <1>0, <1>1, <1>4, <1>10, Zenon DEF Performed, ToReturn
  <2>2. AbstractState'[t] = AbstractState[t] /\ AbstractOutcome'[t] = AbstractOutcome[t]
    BY <1>0, <1>1, <2>1, Zenon DEF AbstractState, AbstractOutcome
  <2>3. UNCHANGED Abstract!atomicVars
    BY <1>1, <1>9, <1>10, <2>2, Stutters, Zenon DEF Store
  <2> QED BY <1>3, <1>6, <1>7, <2>3, Zenon DEF IInv
<1>11. CASE ~Fails(t)
  <2>1. AbstractState[t] = "called" /\ Performed(t)' /\ mem[w] = old
    BY <1>0, <1>1, <1>4, <1>11, Zenon DEF AbstractState, Performed
  <2>2. ToReturn(t)' = Abstract!Outcome(op[t], mem[w])
    BY <1>1, <1>4, <1>8, <2>1, Zenon DEF ToReturn, Abstract!Outcome, Abstract!IsCas
  <2>3. ToStore(t) = Abstract!NewValue(op[t], mem[w])
    <3>1. CASE op[t].verb = "FetchAndAdd"
      BY <1>0, <2>1, <3>1, Zenon DEF ToStore, Abstract!NewValue, RequestOf
    <3>2. CASE op[t].verb = "Exchange"
      BY <1>0, <2>1, <3>2, Zenon DEF ToStore, Abstract!NewValue, RequestOf
    <3>3. CASE op[t].verb \in {"CompareAndSwap", "CompareAndSwapExpected"}
      BY <1>0, <1>11, <2>1, <3>3, Zenon DEF ToStore, Abstract!NewValue, RequestOf, Fails
    <3> QED BY <1>0, <1>8, <3>1, <3>2, <3>3, Zenon DEF Abstract!Verbs
  <2>4. mem' = [mem EXCEPT ![w] = Abstract!NewValue(op[t], mem[w])]
    BY <1>11, <2>3, Zenon DEF Store
  <2>5. Abstract!Perform(t)
    BY <1>0, <1>1, <1>9, <2>1, <2>2, <2>4, Performs, Zenon
  <2> QED BY <1>3, <1>6, <1>7, <2>5, Zenon DEF IInv
<1> QED BY <1>10, <1>11, Zenon

\* A lost round of Exchange changes nothing that callers can see.
LEMMA RetryPreserves ==
  ASSUME IInv, NEW t \in Threads, ExchangeRetries(t)
  PROVE  IInv' /\ UNCHANGED Abstract!atomicVars
<1>1. TypeOK'
  BY DEF IInv, TypeOK, ExchangeRetries, Prev, Wr
<1>2. ASSUME NEW u \in Threads, status'[u] # "none" PROVE RequestOf(u)'
  BY <1>2, Zenon DEF IInv, RequestsMatch, TypeOK, ExchangeRetries, Completed, RequestOf, Prev, Wr
<1>3. WordsUsed' /\ FetchedHolds'
  BY Zenon DEF IInv, TypeOK, ExchangeRetries, WordsUsed, Uses, FetchedHolds, Fails, Prev
<1>4. \A u \in Threads : AbstractState'[u] = AbstractState[u] /\ AbstractOutcome'[u] = AbstractOutcome[u]
  <2>1. wr[t].opcode = "CAS"
    BY Zenon DEF IInv, RequestsMatch, RequestOf, ExchangeRetries, Completed
  <2>2. ~Performed(t) /\ ~Performed(t)' /\ status[t] # "none" /\ status'[t] # "none"
    BY <2>1, Zenon DEF IInv, TypeOK, Performed, Fails, ExchangeRetries, Completed
  <2>3. ASSUME NEW u \in Threads, u # t
        PROVE  /\ Performed(u)' = Performed(u) /\ ToReturn(u)' = ToReturn(u)
               /\ status'[u] = status[u]
    BY <2>3, Zenon DEF IInv, TypeOK, Performed, ToReturn, Fails, Prev, ExchangeRetries
  <2> QED BY <2>2, <2>3, Zenon DEF AbstractState, AbstractOutcome
<1>5. UNCHANGED Abstract!atomicVars
  BY <1>4, Stutters, Zenon DEF ExchangeRetries
<1> QED BY <1>1, <1>2, <1>3, <1>5, Zenon DEF IInv, RequestsMatch

\* One step of Verbs is a step of AtomicWords or leaves its variables alone.
LEMMA StepRefines ==
  ASSUME IInv, [Next]_vars
  PROVE  IInv' /\ [Abstract!Next]_(Abstract!atomicVars)
<1> USE DEF Abstract!Next
<1>1. CASE UNCHANGED vars
  <2>1. IInv'
    <3>1. TypeOK' /\ WordsUsed'
      BY <1>1, Zenon DEF vars, IInv, TypeOK, WordsUsed, Uses
    <3>2. RequestsMatch'
      BY <1>1, Zenon DEF vars, IInv, RequestsMatch, RequestOf, Prev
    <3>3. FetchedHolds'
      BY <1>1, Zenon DEF vars, IInv, FetchedHolds, Fails, Prev
    <3> QED BY <3>1, <3>2, <3>3, Zenon DEF IInv
  <2>2. AbstractState' = AbstractState /\ AbstractOutcome' = AbstractOutcome
    BY <1>1, Zenon DEF vars, AbstractState, AbstractOutcome, ToReturn, Performed, Fails, Prev
  <2> QED BY <1>1, <2>1, <2>2, Zenon DEF vars, Abstract!atomicVars
<1>2. ASSUME NEW t \in Threads, Execute(t) \/ Fetch(t) \/ Store(t)
      PROVE IInv' /\ [Abstract!Next]_(Abstract!atomicVars)
  BY <1>2, ExecutePreserves, FetchPreserves, StorePreserves, Zenon
<1>3. ASSUME NEW t \in Threads, Poll(t)
      PROVE IInv' /\ [Abstract!Next]_(Abstract!atomicVars)
  <2>1. CASE ExchangeRetries(t)
    BY <2>1, RetryPreserves, Zenon
  <2>2. CASE ~ExchangeRetries(t)
    <3>1. Performed(t) /\ Finish(t, ToReturn(t))
      BY <1>3, <2>2, Zenon DEF Poll, ReadReturns, WriteReturns, FetchAndAddReturns, CompareAndSwapReturns,
           CompareAndSwapExpectedReturns, ExchangeReturns, Completed, Performed, Fails, ToReturn, Ok
    <3> QED BY <3>1, FinishPreserves, Zenon
  <2> QED BY <2>1, <2>2, Zenon
<1>4. ASSUME NEW t \in Threads, NEW w \in Words, Read(t, w)
      PROVE IInv' /\ [Abstract!Next]_(Abstract!atomicVars)
  <2> DEFINE r == Operation("Read", w, 0, 0)
  <2>1. r \in Abstract!Operations /\ r.verb = "Read" /\ r.arg = UNLOCKED
    BY Arithmetic, Zenon DEF Operation, Abstract!Operations, Abstract!Verbs, Values, Abstract!Values, UNLOCKED
  <2>2. NextBuffer(t) \in Values
    BY DEF NextBuffer, IInv, TypeOK
  <2>3. Post(t, r, "READ", 0, 0, NextBuffer(t))
    BY <1>4, Zenon DEF Read
  <2> HIDE DEF r
  <2>4. IInv' /\ Abstract!Call(t, r)
    BY <2>1, <2>2, <2>3, PostPreserves, Arithmetic, Zenon
  <2> QED BY <2>1, <2>4, Zenon
<1>5. ASSUME NEW t \in Threads, NEW w \in PlainWords \cup SpinWords, NEW x \in Values, Write(t, w, x),
             w \in SpinWords => x = UNLOCKED
      PROVE IInv' /\ [Abstract!Next]_(Abstract!atomicVars)
  <2> DEFINE r == Operation("Write", w, x, 0)
  <2>1. r \in Abstract!Operations /\ r.verb = "Write" /\ r.arg = x /\ r.word = w
    BY Arithmetic, Zenon DEF Operation, Abstract!Operations, Abstract!Verbs, Values, Abstract!Values, Words
  <2>2. Post(t, r, "WRITE", 0, 0, x)
    BY <1>5, Zenon DEF Write
  <2> HIDE DEF r
  <2>3. IInv' /\ Abstract!Call(t, r)
    BY <1>5, <2>1, <2>2, PostPreserves, Arithmetic, Zenon
  <2> QED BY <2>1, <2>3, Zenon
<1>6. ASSUME NEW t \in Threads, CallAtomic(t)
      PROVE IInv' /\ [Abstract!Next]_(Abstract!atomicVars)
  <2>1. PICK w \in AtomicWordSet, x \in Values, y \in Values :
          \/ CompareAndSwap(t, w, x, y) \/ CompareAndSwapExpected(t, w, x, y)
          \/ Exchange(t, w, x, y) \/ FetchAndAdd(t, w, x)
    BY <1>6, Zenon DEF CallAtomic
  <2>2. \A verb \in Abstract!Verbs : \A a, d \in Values :
          LET r == Operation(verb, w, a, d) IN
          /\ r \in Abstract!Operations /\ r.verb = verb /\ r.arg = a /\ r.desired = d
          /\ r.word = w /\ r.word \notin SpinWords
    BY WordSets, Zenon DEF Operation, Abstract!Operations, Values, Abstract!Values, Words
  <2>3. NextBuffer(t) \in Values
    BY DEF NextBuffer, IInv, TypeOK
  <2>4. \E r \in Abstract!Operations : IInv' /\ Abstract!Call(t, r)
    <3>1. CASE CompareAndSwap(t, w, x, y)
      BY <3>1, <2>2, <2>3, PostPreserves, SMTT(30) DEF CompareAndSwap, Abstract!Verbs
    <3>2. CASE CompareAndSwapExpected(t, w, x, y)
      BY <3>2, <2>2, <2>3, PostPreserves, SMTT(30) DEF CompareAndSwapExpected, Abstract!Verbs
    <3>3. CASE Exchange(t, w, x, y)
      BY <3>3, <2>2, <2>3, PostPreserves, SMTT(30) DEF Exchange, Abstract!Verbs
    <3>4. CASE FetchAndAdd(t, w, x)
      BY <3>4, <2>2, <2>3, PostPreserves, Arithmetic, SMTT(30) DEF FetchAndAdd, Abstract!Verbs
    <3> QED BY <2>1, <3>1, <3>2, <3>3, <3>4, Zenon
  <2> QED BY <2>4, Zenon
<1>7. ASSUME NEW t \in Threads, NEW w \in SpinWords, CallSpinLock(t, w)
      PROVE IInv' /\ [Abstract!Next]_(Abstract!atomicVars)
  <2>1. CASE Write(t, w, UNLOCKED)
    BY <1>5, <2>1, WordSets, Zenon
  <2>2. CASE CompareAndSwapExpected(t, w, UNLOCKED, LOCKED)
    <3> DEFINE r == Operation("CompareAndSwapExpected", w, UNLOCKED, LOCKED)
    <3>1. /\ r \in Abstract!Operations /\ r.verb = "CompareAndSwapExpected" /\ r.word = w
          /\ r.arg = UNLOCKED /\ r.desired = LOCKED
      BY WordSets, Zenon DEF Operation, Abstract!Operations, Abstract!Verbs, Values, Abstract!Values, Words
    <3>2. NextBuffer(t) \in Values
      BY DEF NextBuffer, IInv, TypeOK
    <3>3. Post(t, r, "CAS", UNLOCKED, LOCKED, NextBuffer(t))
      BY <2>2, Zenon DEF CompareAndSwapExpected
    <3> HIDE DEF r
    <3>4. IInv' /\ Abstract!Call(t, r)
      BY <3>1, <3>2, <3>3, PostPreserves, WordSets, Zenon
    <3> QED BY <3>1, <3>4, Zenon
  <2> QED BY <1>7, <2>1, <2>2, Zenon DEF CallSpinLock
<1> QED BY <1>1, <1>2, <1>3, <1>4, <1>5, <1>6, <1>7, WordSets, Zenon DEF Next

\* The operations of MemoryPool, Exchange's loop of compare-and-swaps included,
\* behave as if each acted at one instant: ImplementsAtomicWords.
THEOREM OperationsAreAtomic == Spec => ImplementsAtomicWords
<1>1. Init => IInv /\ Abstract!Init
  <2> SUFFICES ASSUME Init PROVE IInv /\ Abstract!Init
    OBVIOUS
  <2>1. TypeOK
    BY Arithmetic DEF Init, TypeOK, Wr, Blank, Abstract!Operations, Abstract!Verbs, Values, Abstract!Values
  <2>2. \A t \in Threads : status[t] = "none" /\ op[t].verb = "Read" /\ op[t].arg = UNLOCKED
    <3>1. PICK w \in Words :
            op = [t \in Threads |-> [verb |-> "Read", word |-> w, arg |-> 0, desired |-> 0]]
      BY Zenon DEF Init
    <3>2. ASSUME NEW t \in Threads PROVE op[t].verb = "Read" /\ op[t].arg = 0
      BY <3>1
    <3>3. \A t \in Threads : status[t] = "none"
      BY Zenon DEF Init
    <3> QED BY <3>2, <3>3, Zenon DEF UNLOCKED
  <2>3. /\ AbstractState = [t \in Threads |-> "idle"]
        /\ AbstractOutcome = [t \in Threads |-> Abstract!Blank]
    BY <2>2, Zenon DEF AbstractState, AbstractOutcome, Performed, Blank, Abstract!Blank
  <2>4. Abstract!Init
    BY <2>1, <2>3, Zenon DEF Init, Abstract!Init, TypeOK, Blank, Abstract!Blank
  <2> QED BY <2>1, <2>2, <2>4, Zenon DEF IInv, RequestsMatch, WordsUsed, Uses, FetchedHolds
<1>2. IInv /\ [Next]_vars => IInv' /\ [Abstract!Next]_(Abstract!atomicVars)
  BY StepRefines, Zenon
<1> QED
  BY <1>1, <1>2, PTL DEF Spec, SafeSpec, ImplementsAtomicWords, Abstract!Spec
=============================================================================
