------------------------------- MODULE Stack -------------------------------
(***************************************************************************)
(* stack.c: a chain of items that is used from both ends.  stack_push and  *)
(* stack_enqueue create the item; stack_push_item and stack_enqueue_item   *)
(* take one from the caller, who may have it from an earlier stack_pop or  *)
(* stack_dequeue, with the link it had in the chain.                       *)
(***************************************************************************)
EXTENDS Integers, Sequences, FiniteSets, Walks

CONSTANTS
  Items,   \* the items of the callers
  NULL     \* none of them

\* What is asked of them, by Containers.
StackAssumption == NULL \notin Items /\ IsFiniteSet(Items)

VARIABLES
  head, length,   \* struct stack
  next,           \* item->next
  outside,        \* items the caller has taken out and keeps
  taken,          \* what was taken out last
  stale           \* an item has been put in again with a link

vars == <<head, length, next, outside, taken, stale>>

Init ==
  /\ head = NULL /\ length = 0
  /\ next = [i \in Items |-> NULL]
  /\ outside = {} /\ taken = NULL /\ stale = FALSE

\* The chain as STACK_FOR_EACH meets it; items that went in with a link could
\* make it a circle.
Chain == Walk(head, next, NULL, Cardinality(Items) + 1)

Inside == {Chain[k] : k \in DOMAIN Chain}
LastItem == Chain[Len(Chain)]

-----------------------------------------------------------------------------
(* Putting in.  link is what the item has for its next one. *)

PushItem(i, link) ==
  /\ head' = i
  /\ next' = [next EXCEPT ![i] = IF head = NULL THEN link ELSE head]

EnqueueItem(i, link) ==
  /\ head' = IF head = NULL THEN i ELSE head
  /\ next' = [j \in Items |-> IF j = i THEN link
                              ELSE IF head # NULL /\ j = LastItem THEN i ELSE next[j]]

\* stack_push, stack_enqueue
Put(i) ==
  /\ i \notin Inside \cup outside
  /\ PushItem(i, NULL) \/ EnqueueItem(i, NULL)
  /\ length' = length + 1
  /\ UNCHANGED <<outside, taken, stale>>

\* stack_push_item, stack_enqueue_item of an item that has been in before
PutAgain(i) ==
  /\ i \in outside
  /\ \/ PushItem(i, next[i]) /\ stale' = (head = NULL /\ next[i] # NULL)
     \/ EnqueueItem(i, next[i]) /\ stale' = (next[i] # NULL)
  /\ length' = length + 1
  /\ outside' = outside \ {i}
  /\ UNCHANGED taken

-----------------------------------------------------------------------------
(* Taking out *)

\* stack_pop; the item keeps its link.
Pop ==
  IF head = NULL THEN taken' = NULL /\ UNCHANGED <<head, length, next, outside>>
  ELSE /\ taken' = head
       /\ head' = next[head]
       /\ length' = length - 1
       /\ outside' = outside \cup {head}
       /\ UNCHANGED next

\* Mutant: the one before is not told.
DequeueLinked ==
  IF head = NULL \/ length = 1 THEN Pop
  ELSE /\ taken' = LastItem
       /\ length' = length - 1
       /\ outside' = outside \cup {LastItem}
       /\ UNCHANGED <<head, next>>

\* stack_dequeue
Dequeue ==
  IF head = NULL \/ length = 1 THEN Pop
  ELSE /\ taken' = LastItem
       /\ next' = [next EXCEPT ![Chain[Len(Chain) - 1]] = NULL]
       /\ length' = length - 1
       /\ outside' = outside \cup {LastItem}
       /\ UNCHANGED head

\* stack_item_destroy
Forget(i) ==
  /\ i \in outside
  /\ outside' = outside \ {i}
  /\ next' = [next EXCEPT ![i] = NULL]
  /\ UNCHANGED <<head, length, taken>>

\* stack_destroy, stack_destroy_callback, and a new stack_create
Destroy ==
  /\ head' = NULL /\ length' = 0
  /\ next' = [i \in Items |-> IF i \in Inside THEN NULL ELSE next[i]]
  /\ UNCHANGED <<outside, taken>>

\* What comes after an item was put in with a link is not looked at.
Next ==
  /\ ~stale
  /\ \/ \E i \in Items : Put(i) \/ PutAgain(i) \/ (Forget(i) /\ UNCHANGED stale)
     \/ (Pop \/ Dequeue \/ Destroy) /\ UNCHANGED stale

Spec == Init /\ [][Next]_vars

-----------------------------------------------------------------------------
(* What can be relied on *)

\* stack_peek_n
PeekN(n) ==
  LET from[k \in 0 .. n] ==
        IF k = 0 THEN head ELSE IF next[from[k - 1]] = NULL THEN from[k - 1] ELSE next[from[k - 1]]
  IN  IF head = NULL \/ length < n THEN NULL ELSE from[n]

D == INSTANCE Deque WITH content <- Chain, taken <- taken

\* The chain is as long as the stack says, and stack_peek_n counts along it.
Counted ==
  /\ length = Len(Chain)
  /\ \A k \in 1 .. length : PeekN(k - 1) = Chain[k]

\* Used from both ends, and with items that go in again, a stack is what its
\* header offers, unless an item goes in that still has a link.
StackIsDeque ==
  D!Init /\ [][stale' \/ ((D!Next \/ UNCHANGED <<Chain, taken>>) /\ Counted')]_vars

\* An item that is put in again goes in alone (it does not).
OneAtATime == Counted

\* There is nothing at the end of a stack (there is the last item once more).
NothingBeyond == ~stale => PeekN(length) = NULL
=============================================================================
