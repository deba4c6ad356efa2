----------------------------- MODULE AtomicWords -----------------------------
(***************************************************************************)
(* What callers of MemoryPool's one-sided operations rely on, and what the *)
(* lock modules of this project assume: between its call and its return an *)
(* operation acts once, at one instant, on one word, and returns what it   *)
(* found there.  In particular Exchange is a swap.                         *)
(***************************************************************************)
EXTENDS Naturals

CONSTANTS Threads, Words, W   \* a word holds the numbers 0..(W - 1)

VARIABLES
  mem,      \* mem[w]: the value of word w
  op,       \* op[t]: the last operation that t called
  state,    \* state[t]: "idle", "called" or "performed"
  outcome,  \* outcome[t]: what a performed operation will return
  result    \* result[t]: what t's last operation returned

atomicVars == <<mem, op, state, outcome, result>>

Values == 0..(W - 1)
Verbs == {"Read", "Write", "CompareAndSwap", "CompareAndSwapExpected", "FetchAndAdd", "Exchange"}

\* arg is the value written or added, the expected value, or Exchange's hint.
Operations == [verb : Verbs, word : Words, arg : Values, desired : Values]
Blank == [ok |-> FALSE, val |-> 0]

IsCas(r) == r.verb \in {"CompareAndSwap", "CompareAndSwapExpected"}

\* The effect of operation r on a word with value old
NewValue(r, old) ==
  IF r.verb = "Read" THEN old
  ELSE IF r.verb = "Write" THEN r.arg
  ELSE IF r.verb = "FetchAndAdd" THEN (old + r.arg) % W
  ELSE IF r.verb = "Exchange" \/ old = r.arg THEN r.desired
  ELSE old

\* What it returns: a truth value, the old value, or (CompareAndSwap with a
\* pointer to the expected value) both; Write returns nothing.
Outcome(r, old) ==
  [ok  |-> IsCas(r) => old = r.arg,
   val |-> IF r.verb \in {"Write", "CompareAndSwap"} THEN 0 ELSE old]

Init ==
  /\ mem = [w \in Words |-> 0]
  /\ op \in [Threads -> Operations]
  /\ state = [t \in Threads |-> "idle"]
  /\ outcome = [t \in Threads |-> Blank]
  /\ result = [t \in Threads |-> Blank]

Call(t, r) ==
  /\ state[t] = "idle"
  /\ op' = [op EXCEPT ![t] = r]
  /\ state' = [state EXCEPT ![t] = "called"]
  /\ UNCHANGED <<mem, outcome, result>>

Perform(t) ==
  LET r == op[t] IN
  /\ state[t] = "called"
  /\ mem' = [mem EXCEPT ![r.word] = NewValue(r, @)]
  /\ outcome' = [outcome EXCEPT ![t] = Outcome(r, mem[r.word])]
  /\ state' = [state EXCEPT ![t] = "performed"]
  /\ UNCHANGED <<op, result>>

Return(t) ==
  /\ state[t] = "performed"
  /\ result' = [result EXCEPT ![t] = outcome[t]]
  /\ outcome' = [outcome EXCEPT ![t] = Blank]
  /\ state' = [state EXCEPT ![t] = "idle"]
  /\ UNCHANGED <<mem, op>>

Next == \E t \in Threads : Perform(t) \/ Return(t) \/ \E r \in Operations : Call(t, r)

Spec == Init /\ [][Next]_atomicVars
=============================================================================
