---------------------------- MODULE LinkedList ----------------------------
(***************************************************************************)
(* The doubly linked list of list.c: clients of a workspace, monitors,     *)
(* items of a configuration array.  A node is created for each insertion;  *)
(* a removed one may be inserted again, which is how it is moved.          *)
(***************************************************************************)
EXTENDS Integers, FiniteSets, Sequences, Walks

CONSTANTS Nodes, NULL

ASSUME LinkedListAssumption == NULL \notin Nodes /\ IsFiniteSet(Nodes)

VARIABLES
  list,           \* [head, tail, size, next, previous]
  inside,         \* the nodes the callers have put in and not taken out
  clearing        \* clear_list: the node it has got to, or NULL

vars == <<list, inside, clearing>>

NoLinks == [n \in Nodes |-> NULL]

(***************************************************************************)
(* Inserting.  Neither operation sets both links of the new node: they are *)
(* NULL since node_create or list_remove.                                  *)
(***************************************************************************)
\* list_insert_node_after
NodeAfter(l, existing, new) ==
  LET after == l.next[existing]
  IN  [ head |-> l.head,
        tail |-> IF after = NULL THEN new ELSE l.tail,
        next |-> [n \in Nodes |-> CASE n = existing -> new
                                    [] n = new /\ after # NULL -> after
                                    [] OTHER -> l.next[n]],
        previous |-> [n \in Nodes |-> IF n = new THEN existing
                                      ELSE IF n = after THEN new ELSE l.previous[n]],
        size |-> l.size + 1 ]

\* list_insert_node_before
NodeBefore(l, existing, new) ==
  LET before == l.previous[existing]
  IN  [ head |-> IF before = NULL THEN new ELSE l.head,
        tail |-> l.tail,
        previous |-> [n \in Nodes |-> CASE n = existing -> new
                                        [] n = new /\ before # NULL -> before
                                        [] OTHER -> l.previous[n]],
        next |-> [n \in Nodes |-> IF n = new THEN existing
                                  ELSE IF n = before THEN new ELSE l.next[n]],
        size |-> l.size + 1 ]

\* list_insert_node
NodeFirst(l, new) ==
  IF l.head = NULL
  THEN [ head |-> new, tail |-> new, next |-> l.next, previous |-> l.previous,
         size |-> l.size + 1 ]
  ELSE NodeBefore(l, l.head, new)

\* list_insert_end
NodeLast(l, new) ==
  IF l.tail = NULL THEN NodeFirst(l, new) ELSE NodeAfter(l, l.tail, new)

(***************************************************************************)
(* Removing and moving.                                                    *)
(***************************************************************************)
\* Mutant: the links of the removed node stay.
WithoutKeepsLinks(l, node) ==
  [ head |-> IF l.previous[node] = NULL THEN l.next[node] ELSE l.head,
    tail |-> IF l.next[node] = NULL THEN l.previous[node] ELSE l.tail,
    next |-> [n \in Nodes |-> IF n = l.previous[node] THEN l.next[node] ELSE l.next[n]],
    previous |-> [n \in Nodes |-> IF n = l.next[node] THEN l.previous[node]
                                  ELSE l.previous[n]],
    size |-> l.size - 1 ]

\* list_remove
Without(l, node) ==
  [ head |-> IF l.previous[node] = NULL THEN l.next[node] ELSE l.head,
    tail |-> IF l.next[node] = NULL THEN l.previous[node] ELSE l.tail,
    next |-> [n \in Nodes |-> IF n = node THEN NULL
                              ELSE IF n = l.previous[node] THEN l.next[node]
                              ELSE l.next[n]],
    previous |-> [n \in Nodes |-> IF n = node THEN NULL
                                  ELSE IF n = l.next[node] THEN l.previous[node]
                                  ELSE l.previous[n]],
    size |-> l.size - 1 ]

\* list_move_node_to_head
ToHead(l, node) ==
  IF l.previous[node] = NULL THEN l ELSE NodeFirst(Without(l, node), node)

\* Mutant: the node goes before the tail.
ToTailBefore(l, node) ==
  IF l.next[node] = NULL THEN l
  ELSE LET rest == Without(l, node) IN NodeBefore(rest, rest.tail, node)

\* list_move_node_to_tail
ToTail(l, node) ==
  IF l.next[node] = NULL THEN l
  ELSE LET rest == Without(l, node) IN NodeAfter(rest, rest.tail, node)

(***************************************************************************)
(* The calls.                                                              *)
(***************************************************************************)
Init ==
  /\ list = [head |-> NULL, tail |-> NULL, size |-> 0, next |-> NoLinks, previous |-> NoLinks]
  /\ inside = {}
  /\ clearing = NULL

Put(n, l) ==
  /\ clearing = NULL /\ n \in Nodes \ inside
  /\ list' = l
  /\ inside' = inside \cup {n}
  /\ UNCHANGED clearing

Insert(n) == Put(n, NodeFirst(list, n))
InsertEnd(n) == Put(n, NodeLast(list, n))
InsertAfter(n, e) == e \in inside /\ Put(n, NodeAfter(list, e, n))
InsertBefore(n, e) == e \in inside /\ Put(n, NodeBefore(list, e, n))

Move(n, l) ==
  /\ clearing = NULL /\ n \in inside
  /\ list' = l
  /\ UNCHANGED <<inside, clearing>>

MoveToHead(n) == Move(n, ToHead(list, n))
MoveToTail(n) == Move(n, ToTail(list, n))

Remove(n) ==
  /\ clearing = NULL /\ n \in inside
  /\ list' = Without(list, n)
  /\ inside' = inside \ {n}
  /\ UNCHANGED clearing

\* list_empty and list_destroy begin with the head,
Clear ==
  /\ clearing = NULL
  /\ clearing' = list.head
  /\ UNCHANGED <<list, inside>>

\* Mutant: the next node is read after the node is removed.
ClearNodeRemovedFirst ==
  /\ clearing # NULL
  /\ clearing' = Without(list, clearing).next[clearing]
  /\ list' = Without(list, clearing)
  /\ inside' = inside \ {clearing}

\* and remember the next node before they remove one.
ClearNode ==
  /\ clearing # NULL
  /\ clearing' = list.next[clearing]
  /\ list' = Without(list, clearing)
  /\ inside' = inside \ {clearing}

Next ==
  \/ \E n \in Nodes : \/ Insert(n) \/ InsertEnd(n) \/ Remove(n)
                      \/ MoveToHead(n) \/ MoveToTail(n)
                      \/ \E e \in Nodes : InsertAfter(n, e) \/ InsertBefore(n, e)
  \/ Clear \/ ClearNode

Spec == Init /\ [][Next]_vars

(***************************************************************************)
(* Properties.                                                             *)
(***************************************************************************)
Links == [Nodes -> Nodes \cup {NULL}]

\* Pointers point to nodes or nowhere, and size counts the nodes inside.
TypeOK ==
  /\ list \in [head : Nodes \cup {NULL}, tail : Nodes \cup {NULL}, size : Nat,
               next : Links, previous : Links]
  /\ inside \subseteq Nodes
  /\ clearing \in inside \cup {NULL}
  /\ list.size = Cardinality(inside)

\* The two links of neighbours mirror each other.
Mirrored == \A a, b \in Nodes : list.next[a] = b <=> list.previous[b] = a

\* The ends are where the links end, and a node that has been taken out has no
\* links left: the next insertion of it relies on that.
Ended ==
  /\ list.head = NULL <=> inside = {}
  /\ list.tail = NULL <=> inside = {}
  /\ list.head \in inside \cup {NULL} /\ list.tail \in inside \cup {NULL}
  /\ \A n \in inside : /\ list.previous[n] = NULL <=> n = list.head
                       /\ list.next[n] = NULL <=> n = list.tail
  /\ \A n \in Nodes \ inside : list.next[n] = NULL /\ list.previous[n] = NULL

\* Every pointer of list.c is as it must be after each call, moves and the
\* steps of clear_list included.
Linked == Mirrored /\ Ended

\* The nodes as LIST_FOR_EACH meets them.
Forward == Walk(list.head, list.next, NULL, Cardinality(Nodes))

UpTo(i) == SubSeq(Forward, 1, i)
From(i) == SubSeq(Forward, i, Len(Forward))

Place(e) == CHOOSE i \in DOMAIN Forward : Forward[i] = e

Others(n) == UpTo(Place(n) - 1) \o From(Place(n) + 1)

\* What list.h promises of the order: each call puts its node where it says
\* and leaves the others in their order.
KeepsOrder ==
  [][/\ \A n \in Nodes :
          /\ Insert(n) => Forward' = <<n>> \o Forward
          /\ InsertEnd(n) => Forward' = Append(Forward, n)
          /\ Remove(n) => Forward' = Others(n)
          /\ MoveToHead(n) => Forward' = <<n>> \o Others(n)
          /\ MoveToTail(n) => Forward' = Append(Others(n), n)
          /\ \A e \in Nodes :
               /\ InsertAfter(n, e) => Forward' = UpTo(Place(e)) \o <<n>> \o From(Place(e) + 1)
               /\ InsertBefore(n, e) => Forward' = UpTo(Place(e) - 1) \o <<n>> \o From(Place(e))
     /\ ClearNode => Forward' = Tail(Forward)]_vars

\* A list that has been cleared is empty: clear_list ends with the last node,
\* not earlier.
ClearsAll == [][clearing # NULL /\ clearing' = NULL => inside' = {}]_vars
=============================================================================
