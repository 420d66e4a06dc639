-------------------------- MODULE ContainersProofs --------------------------
(***************************************************************************)
(* The pointers of list.c for any number of nodes.  The invariant says     *)
(* that they spell a sequence f of the nodes inside, which excludes a      *)
(* circle beside it as no statement about neighbours does, and that        *)
(* clear_list stands at the head.  Each operation on a list is one lemma   *)
(* about what it does to f; the actions are made of them.  A walk meets    *)
(* exactly f, hence the order.  In the second part the same, with one link *)
(* for each item, makes a stack a Deque.                                   *)
(***************************************************************************)
EXTENDS Containers, FiniteSetTheorems, SequenceTheorems, WellFoundedInduction, TLAPS

Pointer == Nodes \cup {NULL}

Shaped(l) ==
  l \in [head : Pointer, tail : Pointer, size : Int, next : Links, previous : Links]

\* f lists the nodes of S, once each, and k is how many they are.
Orders(f, k, S) ==
  /\ k \in Nat
  /\ f \in [1 .. k -> Nodes]
  /\ \A i, j \in 1 .. k : f[i] = f[j] => i = j
  /\ \A n \in Nodes : n \in S <=> \E i \in 1 .. k : f[i] = n
  /\ S \subseteq Nodes

\* The pointers of l spell f.
Spells(l, f, k) ==
  /\ l.head = IF k = 0 THEN NULL ELSE f[1]
  /\ l.tail = IF k = 0 THEN NULL ELSE f[k]
  /\ \A i \in 1 .. k : /\ l.next[f[i]] = IF i = k THEN NULL ELSE f[i + 1]
                       /\ l.previous[f[i]] = IF i = 1 THEN NULL ELSE f[i - 1]

Detached(l, S) == \A n \in Nodes \ S : l.next[n] = NULL /\ l.previous[n] = NULL

Lists(l, f, k, S) ==
  Shaped(l) /\ Orders(f, k, S) /\ Spells(l, f, k) /\ Detached(l, S)

\* f with n in position p, and f without its position p.
With(f, k, p, n) ==
  [i \in 1 .. k + 1 |-> IF i < p THEN f[i] ELSE IF i = p THEN n ELSE f[i - 1]]

Drop(f, k, p) == [i \in 1 .. k - 1 |-> IF i < p THEN f[i] ELSE f[i + 1]]

LEMMA WithOrders ==
  ASSUME NEW f, NEW k, NEW S, Orders(f, k, S),
         NEW p \in 1 .. k + 1, NEW n \in Nodes \ S
  PROVE  Orders(With(f, k, p, n), k + 1, S \cup {n})
<1> DEFINE g == With(f, k, p, n)
<1>1. k + 1 \in Nat /\ g \in [1 .. k + 1 -> Nodes]
  BY DEF Orders, With
<1>2. \A i, j \in 1 .. k + 1 : g[i] = g[j] => i = j
  <2> SUFFICES ASSUME NEW i \in 1 .. k + 1, NEW j \in 1 .. k + 1, g[i] = g[j]
               PROVE  i = j
    OBVIOUS
  <2>1. \A q \in 1 .. k : f[q] # n
    BY DEF Orders
  <2> QED BY <2>1 DEF Orders, With
<1>3. \A m \in Nodes : m \in S \cup {n} <=> \E i \in 1 .. k + 1 : g[i] = m
  <2> SUFFICES ASSUME NEW m \in Nodes
               PROVE  m \in S \cup {n} <=> \E i \in 1 .. k + 1 : g[i] = m
    OBVIOUS
  <2>1. ASSUME m \in S PROVE \E i \in 1 .. k + 1 : g[i] = m
    <3>1. PICK q \in 1 .. k : f[q] = m
      BY <2>1 DEF Orders
    <3>2. CASE q < p
      <4>1. q \in 1 .. k + 1 /\ g[q] = m
        BY <3>1, <3>2 DEF Orders, With
      <4> QED BY <4>1
    <3>3. CASE ~(q < p)
      <4>1. q + 1 \in 1 .. k + 1 /\ g[q + 1] = m
        BY <3>1, <3>3 DEF Orders, With
      <4> QED BY <4>1
    <3> QED BY <3>2, <3>3
  <2>2. g[p] = n
    BY DEF Orders, With
  <2>3. ASSUME NEW i \in 1 .. k + 1, g[i] = m PROVE m \in S \cup {n}
    BY <2>3 DEF Orders, With
  <2> QED BY <2>1, <2>2, <2>3
<1> QED BY <1>1, <1>2, <1>3 DEF Orders

LEMMA DropOrders ==
  ASSUME NEW f, NEW k, NEW S, Orders(f, k, S), NEW p \in 1 .. k
  PROVE  Orders(Drop(f, k, p), k - 1, S \ {f[p]})
<1> DEFINE g == Drop(f, k, p)
<1>1. k - 1 \in Nat /\ g \in [1 .. k - 1 -> Nodes]
  BY DEF Orders, Drop
<1>2. \A i, j \in 1 .. k - 1 : g[i] = g[j] => i = j
  BY DEF Orders, Drop
<1>3. \A m \in Nodes : m \in S \ {f[p]} <=> \E i \in 1 .. k - 1 : g[i] = m
  <2> SUFFICES ASSUME NEW m \in Nodes
               PROVE  m \in S \ {f[p]} <=> \E i \in 1 .. k - 1 : g[i] = m
    OBVIOUS
  <2>1. ASSUME m \in S \ {f[p]} PROVE \E i \in 1 .. k - 1 : g[i] = m
    <3>1. PICK q \in 1 .. k : f[q] = m
      BY <2>1 DEF Orders
    <3>2. CASE q < p
      <4>1. q \in 1 .. k - 1 /\ g[q] = m
        BY <3>1, <3>2 DEF Orders, Drop
      <4> QED BY <4>1
    <3>3. CASE q > p
      <4>1. q - 1 \in 1 .. k - 1 /\ g[q - 1] = m
        BY <3>1, <3>3 DEF Orders, Drop
      <4> QED BY <4>1
    <3>4. q # p
      BY <2>1, <3>1
    <3> QED BY <3>2, <3>3, <3>4
  <2>2. ASSUME NEW i \in 1 .. k - 1, g[i] = m PROVE m \in S \ {f[p]}
    BY <2>2 DEF Orders, Drop
  <2> QED BY <2>1, <2>2
<1> QED BY <1>1, <1>2, <1>3 DEF Orders

\* list_insert_node_after
LEMMA AfterLists ==
  ASSUME NEW l, NEW f, NEW k, NEW S, Lists(l, f, k, S),
         NEW p \in 1 .. k, NEW n \in Nodes \ S
  PROVE  Lists(NodeAfter(l, f[p], n), With(f, k, p + 1, n), k + 1, S \cup {n})
<1> DEFINE m == NodeAfter(l, f[p], n)
           g == With(f, k, p + 1, n)
<1>1. Orders(g, k + 1, S \cup {n})
  <2>1. k \in Nat /\ Orders(f, k, S)
    BY DEF Lists, Orders
  <2>2. p + 1 \in 1 .. k + 1
    BY <2>1
  <2> QED BY <2>1, <2>2, WithOrders
<1>2. l.head \in Pointer /\ l.tail \in Pointer /\ l.size \in Int
      /\ l.next \in Links /\ l.previous \in Links
  BY DEF Lists, Shaped
<1>3. f[p] \in S /\ f[p] \in Nodes /\ n # f[p] /\ n # NULL
  BY LinkedListAssumption DEF Lists, Orders
<1>4. Shaped(m)
  <2>1. m.next \in Links /\ m.previous \in Links
    BY <1>2, <1>3 DEF NodeAfter, Links, Pointer
  <2> QED BY <1>2, <1>3, <2>1 DEF Shaped, NodeAfter, Pointer
<1>5. l.next[f[p]] = IF p = k THEN NULL ELSE f[p + 1]
  BY DEF Lists, Spells
<1>6. Spells(m, g, k + 1)
  <2>1. \A i \in 1 .. k : f[i] # n
    BY DEF Lists, Orders
  <2>2. m.head = g[1] /\ m.tail = g[k + 1]
    BY <1>5, LinkedListAssumption DEF Lists, Spells, Orders, NodeAfter, With
  <2>3. ASSUME NEW i \in 1 .. k + 1
        PROVE  m.next[g[i]] = IF i = k + 1 THEN NULL ELSE g[i + 1]
    <3>1. CASE i <= p
      BY <1>3, <1>5, <2>1, <3>1 DEF Lists, Spells, Orders, NodeAfter, With
    <3>2. CASE i = p + 1
      BY <1>3, <1>5, <2>1, <3>2, LinkedListAssumption
         DEF Lists, Spells, Orders, Detached, NodeAfter, With
    <3>3. CASE i > p + 1
      BY <1>3, <1>5, <2>1, <3>3 DEF Lists, Spells, Orders, NodeAfter, With
    <3> QED BY <3>1, <3>2, <3>3 DEF Lists, Orders
  <2>4. ASSUME NEW i \in 1 .. k + 1
        PROVE  m.previous[g[i]] = IF i = 1 THEN NULL ELSE g[i - 1]
    <3>1. CASE i <= p
      BY <1>3, <1>5, <2>1, <3>1, LinkedListAssumption DEF Lists, Spells, Orders, NodeAfter, With
    <3>2. CASE i = p + 1
      BY <1>3, <1>5, <2>1, <3>2 DEF Lists, Spells, Orders, NodeAfter, With
    <3>3. CASE i > p + 1
      BY <1>3, <1>5, <2>1, <3>3 DEF Lists, Spells, Orders, NodeAfter, With
    <3> QED BY <3>1, <3>2, <3>3 DEF Lists, Orders
  <2> QED BY <2>2, <2>3, <2>4 DEF Spells, Lists, Orders
<1>7. Detached(m, S \cup {n})
  BY <1>3, <1>5, LinkedListAssumption DEF Lists, Detached, Orders, NodeAfter
<1> QED BY <1>1, <1>4, <1>6, <1>7 DEF Lists

\* list_insert_node_before
LEMMA BeforeLists ==
  ASSUME NEW l, NEW f, NEW k, NEW S, Lists(l, f, k, S),
         NEW p \in 1 .. k, NEW n \in Nodes \ S
  PROVE  Lists(NodeBefore(l, f[p], n), With(f, k, p, n), k + 1, S \cup {n})
<1> DEFINE m == NodeBefore(l, f[p], n)
           g == With(f, k, p, n)
<1>1. Orders(g, k + 1, S \cup {n})
  <2>1. k \in Nat /\ Orders(f, k, S)
    BY DEF Lists, Orders
  <2>2. p \in 1 .. k + 1
    BY <2>1
  <2> QED BY <2>1, <2>2, WithOrders
<1>2. l.head \in Pointer /\ l.tail \in Pointer /\ l.size \in Int
      /\ l.next \in Links /\ l.previous \in Links
  BY DEF Lists, Shaped
<1>3. f[p] \in S /\ f[p] \in Nodes /\ n # f[p] /\ n # NULL
  BY LinkedListAssumption DEF Lists, Orders
<1>4. Shaped(m)
  <2>1. m.next \in Links /\ m.previous \in Links
    BY <1>2, <1>3 DEF NodeBefore, Links, Pointer
  <2> QED BY <1>2, <1>3, <2>1 DEF Shaped, NodeBefore, Pointer
<1>5. l.previous[f[p]] = IF p = 1 THEN NULL ELSE f[p - 1]
  BY DEF Lists, Spells
<1>6. Spells(m, g, k + 1)
  <2>1. \A i \in 1 .. k : f[i] # n
    BY DEF Lists, Orders
  <2>2. m.head = g[1] /\ m.tail = g[k + 1]
    BY <1>5, LinkedListAssumption DEF Lists, Spells, Orders, NodeBefore, With
  <2>3. ASSUME NEW i \in 1 .. k + 1
        PROVE  m.next[g[i]] = IF i = k + 1 THEN NULL ELSE g[i + 1]
    <3>1. CASE i < p
      BY <1>3, <1>5, <2>1, <3>1, LinkedListAssumption DEF Lists, Spells, Orders, NodeBefore, With
    <3>2. CASE i = p
      BY <1>3, <1>5, <2>1, <3>2 DEF Lists, Spells, Orders, NodeBefore, With
    <3>3. CASE i > p
      <4>1. /\ i - 1 \in 1 .. k /\ g[i] = f[i - 1]
            /\ i # k + 1 => g[i + 1] = f[i]
        BY <3>3 DEF Lists, Orders, With
      <4>2. f[i - 1] # n /\ f[i - 1] # l.previous[f[p]]
        BY <1>5, <2>1, <3>3, <4>1, LinkedListAssumption DEF Lists, Orders
      <4>3. m.next[f[i - 1]] = l.next[f[i - 1]]
        BY <4>1, <4>2 DEF Lists, Orders, NodeBefore
      <4> QED BY <4>1, <4>3 DEF Lists, Spells, Orders
    <3> QED BY <3>1, <3>2, <3>3 DEF Lists, Orders
  <2>4. ASSUME NEW i \in 1 .. k + 1
        PROVE  m.previous[g[i]] = IF i = 1 THEN NULL ELSE g[i - 1]
    <3>1. CASE i < p
      BY <1>3, <1>5, <2>1, <3>1 DEF Lists, Spells, Orders, NodeBefore, With
    <3>2. CASE i = p
      BY <1>3, <1>5, <2>1, <3>2, LinkedListAssumption
         DEF Lists, Spells, Orders, Detached, NodeBefore, With
    <3>3. CASE i > p
      <4>1. /\ i - 1 \in 1 .. k /\ g[i] = f[i - 1] /\ f[i - 1] \in Nodes
            /\ g[i - 1] = IF i - 1 = p THEN n ELSE f[i - 2]
        BY <3>3 DEF Lists, Orders, With
      <4>2. f[i - 1] # n /\ (f[i - 1] = f[p] <=> i - 1 = p)
        BY <2>1, <4>1 DEF Lists, Orders
      <4>3. m.previous[f[i - 1]] = IF i - 1 = p THEN n ELSE l.previous[f[i - 1]]
        BY <4>1, <4>2 DEF NodeBefore
      <4> QED BY <3>3, <4>1, <4>3 DEF Lists, Spells, Orders
    <3> QED BY <3>1, <3>2, <3>3 DEF Lists, Orders
  <2> QED BY <2>2, <2>3, <2>4 DEF Spells, Lists, Orders
<1>7. Detached(m, S \cup {n})
  BY <1>3, <1>5, LinkedListAssumption DEF Lists, Detached, Orders, NodeBefore
<1> QED BY <1>1, <1>4, <1>6, <1>7 DEF Lists

\* list_remove
LEMMA WithoutLists ==
  ASSUME NEW l, NEW f, NEW k, NEW S, Lists(l, f, k, S), NEW p \in 1 .. k
  PROVE  Lists(Without(l, f[p]), Drop(f, k, p), k - 1, S \ {f[p]})
<1> DEFINE m == Without(l, f[p])
           g == Drop(f, k, p)
<1>1. Orders(g, k - 1, S \ {f[p]})
  BY DropOrders DEF Lists
<1>2. l.head \in Pointer /\ l.tail \in Pointer /\ l.size \in Int
      /\ l.next \in Links /\ l.previous \in Links
  BY DEF Lists, Shaped
<1>3. f[p] \in S /\ f[p] \in Nodes
  BY DEF Lists, Orders
<1>4. Shaped(m)
  <2>1. m.next \in Links /\ m.previous \in Links
    BY <1>2, <1>3 DEF Without, Links, Pointer
  <2>2. m.head \in Pointer /\ m.tail \in Pointer /\ m.size \in Int
    BY <1>2, <1>3 DEF Without, Links, Pointer
  <2> QED BY <2>1, <2>2 DEF Shaped, Without
<1>5. /\ l.previous[f[p]] = IF p = 1 THEN NULL ELSE f[p - 1]
      /\ l.next[f[p]] = IF p = k THEN NULL ELSE f[p + 1]
  BY DEF Lists, Spells
<1>6. Spells(m, g, k - 1)
  <2>1. \A i \in 1 .. k : f[i] # NULL
    BY LinkedListAssumption DEF Lists, Orders
  <2>2. /\ m.head = IF k - 1 = 0 THEN NULL ELSE g[1]
        /\ m.tail = IF k - 1 = 0 THEN NULL ELSE g[k - 1]
    BY <1>5, <2>1 DEF Lists, Spells, Orders, Without, Drop
  <2>3. ASSUME NEW i \in 1 .. k - 1
        PROVE  m.next[g[i]] = IF i = k - 1 THEN NULL ELSE g[i + 1]
    <3>1. CASE i < p
      BY <1>3, <1>5, <2>1, <3>1 DEF Lists, Spells, Orders, Without, Drop
    <3>2. CASE i >= p
      BY <1>3, <1>5, <2>1, <3>2 DEF Lists, Spells, Orders, Without, Drop
    <3> QED BY <3>1, <3>2 DEF Lists, Orders
  <2>4. ASSUME NEW i \in 1 .. k - 1
        PROVE  m.previous[g[i]] = IF i = 1 THEN NULL ELSE g[i - 1]
    <3>1. CASE i < p
      BY <1>3, <1>5, <2>1, <3>1 DEF Lists, Spells, Orders, Without, Drop
    <3>2. CASE i >= p
      BY <1>3, <1>5, <2>1, <3>2 DEF Lists, Spells, Orders, Without, Drop
    <3> QED BY <3>1, <3>2 DEF Lists, Orders
  <2> QED BY <2>2, <2>3, <2>4 DEF Spells, Lists, Orders
<1>7. Detached(m, S \ {f[p]})
  <2>1. /\ l.previous[f[p]] \in S \cup {NULL}
        /\ l.next[f[p]] \in S \cup {NULL}
    BY <1>5 DEF Lists, Orders
  <2> QED BY <1>3, <2>1, LinkedListAssumption DEF Lists, Detached, Without
<1> QED BY <1>1, <1>4, <1>6, <1>7 DEF Lists

\* What Orders says of Cardinality, and of the node of a given position.
LEMMA Counted ==
  ASSUME NEW f, NEW k, NEW S, Orders(f, k, S)
  PROVE  IsFiniteSet(S)
BY LinkedListAssumption, FS_Subset DEF Orders

LEMMA Positioned ==
  ASSUME NEW f, NEW k, NEW S, Orders(f, k, S), NEW n \in S
  PROVE  \E p \in 1 .. k : f[p] = n
BY DEF Orders

\* The size counts the nodes.
Sized(l, S) == l.size = Cardinality(S)

\* There is an order that l spells, and its size is right.
ListOf(l, S) == Sized(l, S) /\ \E k, f : Lists(l, f, k, S)

LEMMA ListOfIntro ==
  ASSUME NEW l, NEW f, NEW k, NEW S, Lists(l, f, k, S), Sized(l, S)
  PROVE  ListOf(l, S)
BY DEF ListOf, Lists, Orders

LEMMA AfterList ==
  ASSUME NEW l, NEW S, ListOf(l, S), NEW e \in S, NEW n \in Nodes \ S
  PROVE  ListOf(NodeAfter(l, e, n), S \cup {n})
<1>1. PICK k, f : Lists(l, f, k, S)
  BY DEF ListOf
<1>2. PICK p \in 1 .. k : f[p] = e
  BY <1>1, Positioned DEF Lists
<1>3. Lists(NodeAfter(l, e, n), With(f, k, p + 1, n), k + 1, S \cup {n})
  BY <1>1, <1>2, AfterLists
<1>4. Sized(NodeAfter(l, e, n), S \cup {n})
  BY <1>1, Counted, FS_AddElement DEF ListOf, Sized, NodeAfter, Lists
<1> QED BY <1>3, <1>4, ListOfIntro

LEMMA BeforeList ==
  ASSUME NEW l, NEW S, ListOf(l, S), NEW e \in S, NEW n \in Nodes \ S
  PROVE  ListOf(NodeBefore(l, e, n), S \cup {n})
<1>1. PICK k, f : Lists(l, f, k, S)
  BY DEF ListOf
<1>2. PICK p \in 1 .. k : f[p] = e
  BY <1>1, Positioned DEF Lists
<1>3. Lists(NodeBefore(l, e, n), With(f, k, p, n), k + 1, S \cup {n})
  BY <1>1, <1>2, BeforeLists
<1>4. Sized(NodeBefore(l, e, n), S \cup {n})
  BY <1>1, Counted, FS_AddElement DEF ListOf, Sized, NodeBefore, Lists
<1> QED BY <1>3, <1>4, ListOfIntro

LEMMA WithoutList ==
  ASSUME NEW l, NEW S, ListOf(l, S), NEW n \in S
  PROVE  ListOf(Without(l, n), S \ {n})
<1>1. PICK k, f : Lists(l, f, k, S)
  BY DEF ListOf
<1>2. PICK p \in 1 .. k : f[p] = n
  BY <1>1, Positioned DEF Lists
<1>3. Lists(Without(l, n), Drop(f, k, p), k - 1, S \ {n})
  BY <1>1, <1>2, WithoutLists
<1>4. Sized(Without(l, n), S \ {n})
  BY <1>1, Counted, FS_RemoveElement DEF ListOf, Sized, Without, Lists
<1> QED BY <1>3, <1>4, ListOfIntro

\* The ends of a list, and its neighbours.
LEMMA EndsOfList ==
  ASSUME NEW l, NEW S, ListOf(l, S)
  PROVE  /\ S \subseteq Nodes
         /\ l.head = NULL <=> S = {}
         /\ l.tail = NULL <=> S = {}
         /\ l.head \in S \cup {NULL} /\ l.tail \in S \cup {NULL}
         /\ \A n \in S : /\ l.previous[n] = NULL <=> n = l.head
                         /\ l.next[n] = NULL <=> n = l.tail
         /\ l.head # NULL /\ l.next[l.head] = NULL => S = {l.head}
<1>1. PICK k, f : Lists(l, f, k, S)
  BY DEF ListOf
<1>2. S = {f[i] : i \in 1 .. k} /\ S \subseteq Nodes
  BY <1>1 DEF Lists, Orders
<1>3. \A i \in 1 .. k : f[i] \in Nodes /\ f[i] # NULL
  BY <1>1, LinkedListAssumption DEF Lists, Orders
<1>4. CASE k = 0
  BY <1>1, <1>2, <1>4 DEF Lists, Spells, Orders
<1>5. CASE k # 0
  <2>1. /\ l.head = f[1] /\ l.tail = f[k] /\ 1 \in 1 .. k /\ k \in 1 .. k
    BY <1>1, <1>5 DEF Lists, Spells, Orders
  <2>2. \A i \in 1 .. k : /\ l.previous[f[i]] = NULL <=> i = 1
                          /\ l.next[f[i]] = NULL <=> i = k
    BY <1>1, <1>3 DEF Lists, Spells, Orders
  <2>3. \A i, j \in 1 .. k : f[i] = f[j] => i = j
    BY <1>1 DEF Lists, Orders
  <2>4. l.next[l.head] = NULL => S = {l.head}
    <3> SUFFICES ASSUME l.next[l.head] = NULL PROVE S = {l.head}
      OBVIOUS
    <3>1. k = 1
      BY <2>1, <2>2
    <3> QED BY <1>2, <2>1, <3>1
  <2> QED BY <1>2, <1>3, <2>1, <2>2, <2>3, <2>4
<1> QED BY <1>4, <1>5

LEMMA MirrorsOfList ==
  ASSUME NEW l, NEW S, ListOf(l, S), NEW a \in Nodes, NEW b \in Nodes
  PROVE  l.next[a] = b <=> l.previous[b] = a
<1>1. PICK k, f : Lists(l, f, k, S)
  BY DEF ListOf
<1>2. ASSUME l.next[a] = b PROVE l.previous[b] = a
  <2>1. a \in S
    BY <1>1, <1>2, LinkedListAssumption DEF Lists, Detached
  <2>2. PICK i \in 1 .. k : f[i] = a
    BY <1>1, <2>1, Positioned DEF Lists
  <2>3. i + 1 \in 1 .. k /\ f[i + 1] = b
    BY <1>1, <1>2, <2>2, LinkedListAssumption DEF Lists, Spells, Orders
  <2> QED BY <1>1, <2>2, <2>3 DEF Lists, Spells, Orders
<1>3. ASSUME l.previous[b] = a PROVE l.next[a] = b
  <2>1. b \in S
    BY <1>1, <1>3, LinkedListAssumption DEF Lists, Detached
  <2>2. PICK i \in 1 .. k : f[i] = b
    BY <1>1, <2>1, Positioned DEF Lists
  <2>3. i - 1 \in 1 .. k /\ f[i - 1] = a
    BY <1>1, <1>3, <2>2, LinkedListAssumption DEF Lists, Spells, Orders
  <2> QED BY <1>1, <2>2, <2>3 DEF Lists, Spells, Orders
<1> QED BY <1>2, <1>3

\* list_insert_node: an empty list spells nothing, the new one the node alone.
LEMMA FirstLists ==
  ASSUME NEW l, NEW f, NEW k, NEW S, Lists(l, f, k, S), NEW n \in Nodes \ S
  PROVE  Lists(NodeFirst(l, n), With(f, k, 1, n), k + 1, S \cup {n})
<1> DEFINE m == NodeFirst(l, n)
<1>1. k \in Nat /\ (l.head = NULL <=> k = 0)
  BY LinkedListAssumption DEF Lists, Orders, Spells
<1>2. Orders(With(f, k, 1, n), k + 1, S \cup {n})
  <2>1. 1 \in 1 .. k + 1 /\ Orders(f, k, S)
    BY <1>1 DEF Lists
  <2> QED BY <2>1, WithOrders
<1>3. CASE k = 0
  <2>1. m = [head |-> n, tail |-> n, next |-> l.next, previous |-> l.previous,
             size |-> l.size + 1]
    BY <1>1, <1>3 DEF NodeFirst
  <2>2. Shaped(m)
    BY <2>1 DEF Lists, Shaped, Pointer
  <2>3. l.next[n] = NULL /\ l.previous[n] = NULL
    BY DEF Lists, Detached
  <2>4. Spells(m, With(f, k, 1, n), k + 1)
    BY <1>3, <2>1, <2>3 DEF Spells, With
  <2>5. Detached(m, S \cup {n})
    BY <2>1 DEF Lists, Detached
  <2> QED BY <1>2, <2>2, <2>4, <2>5 DEF Lists
<1>4. CASE k # 0
  <2>1. 1 \in 1 .. k /\ l.head = f[1]
    BY <1>1, <1>4 DEF Lists, Spells
  <2> QED BY <1>1, <1>4, <2>1, BeforeLists DEF NodeFirst
<1> QED BY <1>3, <1>4

\* list_insert_end
LEMMA LastLists ==
  ASSUME NEW l, NEW f, NEW k, NEW S, Lists(l, f, k, S), NEW n \in Nodes \ S
  PROVE  Lists(NodeLast(l, n), With(f, k, k + 1, n), k + 1, S \cup {n})
<1>1. k \in Nat /\ (l.tail = NULL <=> k = 0)
  BY LinkedListAssumption DEF Lists, Orders, Spells
<1>2. CASE k = 0
  BY <1>1, <1>2, FirstLists DEF NodeLast
<1>3. CASE k # 0
  <2>1. k \in 1 .. k /\ l.tail = f[k]
    BY <1>1, <1>3 DEF Lists, Spells
  <2> QED BY <1>1, <1>3, <2>1, AfterLists DEF NodeLast
<1> QED BY <1>2, <1>3

\* list_move_node_to_head: f[p] goes before the others.
LEMMA ToHeadLists ==
  ASSUME NEW l, NEW f, NEW k, NEW S, Lists(l, f, k, S), NEW p \in 1 .. k
  PROVE  Lists(ToHead(l, f[p]), With(Drop(f, k, p), k - 1, 1, f[p]), k, S)
<1> DEFINE n == f[p]
           g == With(Drop(f, k, p), k - 1, 1, n)
<1>1. k \in Nat /\ n \in S /\ n \in Nodes /\ n # NULL
      /\ l.previous[n] = IF p = 1 THEN NULL ELSE f[p - 1]
  BY LinkedListAssumption DEF Lists, Orders, Spells
<1>2. CASE p = 1
  <2>1. g = f
    <3>1. g = [i \in 1 .. k |-> f[i]]
      BY <1>1, <1>2 DEF With, Drop
    <3> QED BY <3>1 DEF Lists, Orders
  <2>2. ToHead(l, n) = l
    BY <1>1, <1>2 DEF ToHead
  <2> QED BY <2>1, <2>2
<1>3. CASE p # 1
  <2>1. l.previous[n] # NULL
    BY <1>1, <1>3, LinkedListAssumption DEF Lists, Orders
  <2>2. Lists(Without(l, n), Drop(f, k, p), k - 1, S \ {n})
    BY WithoutLists
  <2>3. n \in Nodes \ (S \ {n})
    BY <1>1
  <2> HIDE DEF n
  <2>4. Lists(NodeFirst(Without(l, n), n), g, (k - 1) + 1, (S \ {n}) \cup {n})
    BY <2>2, <2>3, FirstLists
  <2>5. (k - 1) + 1 = k /\ (S \ {n}) \cup {n} = S
    BY <1>1
  <2> QED BY <2>1, <2>4, <2>5 DEF ToHead, n
<1> QED BY <1>2, <1>3

\* list_move_node_to_tail: the node is not the last one, so after its removal
\* there is still a tail to put it after.
LEMMA ToTailLists ==
  ASSUME NEW l, NEW f, NEW k, NEW S, Lists(l, f, k, S), NEW p \in 1 .. k
  PROVE  Lists(ToTail(l, f[p]), With(Drop(f, k, p), k - 1, k, f[p]), k, S)
<1> DEFINE n == f[p]
           rest == Without(l, n)
           d == Drop(f, k, p)
           g == With(d, k - 1, k, n)
<1>1. k \in Nat /\ n \in S /\ n \in Nodes /\ n # NULL
      /\ l.next[n] = IF p = k THEN NULL ELSE f[p + 1]
  BY LinkedListAssumption DEF Lists, Orders, Spells
<1>2. CASE p = k
  <2>1. g = f
    <3>1. g = [i \in 1 .. k |-> f[i]]
      BY <1>1, <1>2 DEF With, Drop
    <3> QED BY <3>1 DEF Lists, Orders
  <2>2. ToTail(l, n) = l
    BY <1>1, <1>2 DEF ToTail
  <2> QED BY <2>1, <2>2
<1>3. CASE p # k
  <2>1. l.next[n] # NULL
    BY <1>1, <1>3, LinkedListAssumption DEF Lists, Orders
  <2>2. Lists(rest, d, k - 1, S \ {n})
    BY WithoutLists
  <2>3. n \in Nodes \ (S \ {n}) /\ k - 1 \in 1 .. k - 1
    BY <1>1, <1>3
  <2>4. rest.tail = d[k - 1]
    BY <2>2, <2>3 DEF Lists, Spells
  <2> HIDE DEF n, rest, d
  <2>5. Lists(NodeAfter(rest, rest.tail, n), With(d, k - 1, (k - 1) + 1, n), (k - 1) + 1,
              (S \ {n}) \cup {n})
    BY <2>2, <2>3, <2>4, AfterLists
  <2>6. (k - 1) + 1 = k /\ (S \ {n}) \cup {n} = S
    BY <1>1
  <2>7. ToTail(l, n) = NodeAfter(rest, rest.tail, n)
    BY <2>1 DEF ToTail, rest
  <2> QED BY <2>5, <2>6, <2>7 DEF n, d
<1> QED BY <1>2, <1>3

\* The same four of a list without its order.
LEMMA FirstList ==
  ASSUME NEW l, NEW S, ListOf(l, S), NEW n \in Nodes \ S
  PROVE  ListOf(NodeFirst(l, n), S \cup {n})
<1>1. PICK k, f : Lists(l, f, k, S)
  BY DEF ListOf
<1>2. Lists(NodeFirst(l, n), With(f, k, 1, n), k + 1, S \cup {n})
  BY <1>1, FirstLists
<1>3. Sized(NodeFirst(l, n), S \cup {n})
  BY <1>1, Counted, FS_AddElement DEF ListOf, Sized, NodeFirst, NodeBefore, Lists
<1> QED BY <1>2, <1>3, ListOfIntro

LEMMA LastList ==
  ASSUME NEW l, NEW S, ListOf(l, S), NEW n \in Nodes \ S
  PROVE  ListOf(NodeLast(l, n), S \cup {n})
<1>1. PICK k, f : Lists(l, f, k, S)
  BY DEF ListOf
<1>2. Lists(NodeLast(l, n), With(f, k, k + 1, n), k + 1, S \cup {n})
  BY <1>1, LastLists
<1>3. Sized(NodeLast(l, n), S \cup {n})
  BY <1>1, Counted, FS_AddElement
     DEF ListOf, Sized, NodeLast, NodeFirst, NodeBefore, NodeAfter, Lists
<1> QED BY <1>2, <1>3, ListOfIntro

LEMMA ToHeadList ==
  ASSUME NEW l, NEW S, ListOf(l, S), NEW n \in S
  PROVE  ListOf(ToHead(l, n), S)
<1>1. PICK k, f : Lists(l, f, k, S)
  BY DEF ListOf
<1>2. PICK p \in 1 .. k : f[p] = n
  BY <1>1, Positioned DEF Lists
<1>3. Lists(ToHead(l, n), With(Drop(f, k, p), k - 1, 1, n), k, S)
  BY <1>1, <1>2, ToHeadLists
<1>4. ToHead(l, n).size = l.size
  BY <1>1 DEF ToHead, NodeFirst, NodeBefore, Without, Lists, Shaped
<1> QED BY <1>3, <1>4, ListOfIntro DEF ListOf, Sized

LEMMA ToTailList ==
  ASSUME NEW l, NEW S, ListOf(l, S), NEW n \in S
  PROVE  ListOf(ToTail(l, n), S)
<1>1. PICK k, f : Lists(l, f, k, S)
  BY DEF ListOf
<1>2. PICK p \in 1 .. k : f[p] = n
  BY <1>1, Positioned DEF Lists
<1>3. Lists(ToTail(l, n), With(Drop(f, k, p), k - 1, k, n), k, S)
  BY <1>1, <1>2, ToTailLists
<1>4. ToTail(l, n).size = l.size
  BY <1>1 DEF ToTail, NodeAfter, Without, Lists, Shaped
<1> QED BY <1>3, <1>4, ListOfIntro DEF ListOf, Sized

\* The invariant.
IInv == ListOf(list, inside) /\ clearing \in {NULL, list.head}

LEMMA InitHolds == Init => IInv
<1> SUFFICES ASSUME Init PROVE IInv
  OBVIOUS
<1> DEFINE f == [i \in 1 .. 0 |-> NULL]
<1>1. Shaped(list)
  BY DEF Init, Shaped, NoLinks, Links, Pointer
<1>2. Orders(f, 0, {})
  BY DEF Orders
<1>3. Spells(list, f, 0) /\ Detached(list, {})
  BY DEF Init, Spells, Detached, NoLinks
<1>4. Sized(list, {})
  BY FS_EmptySet DEF Init, Sized
<1> QED BY <1>1, <1>2, <1>3, <1>4, ListOfIntro DEF Init, IInv, Lists

LEMMA StepKeeps ==
  ASSUME IInv, [Next]_vars
  PROVE  IInv'
<1> inside \subseteq Nodes
  BY EndsOfList DEF IInv
<1>1. ASSUME NEW n \in Nodes, Insert(n) PROVE IInv'
  BY <1>1, FirstList DEF IInv, Insert, Put
<1>2. ASSUME NEW n \in Nodes, InsertEnd(n) PROVE IInv'
  BY <1>2, LastList DEF IInv, InsertEnd, Put
<1>3. ASSUME NEW n \in Nodes, NEW e \in Nodes, InsertAfter(n, e) PROVE IInv'
  BY <1>3, AfterList DEF IInv, InsertAfter, Put
<1>4. ASSUME NEW n \in Nodes, NEW e \in Nodes, InsertBefore(n, e) PROVE IInv'
  BY <1>4, BeforeList DEF IInv, InsertBefore, Put
<1>5. ASSUME NEW n \in Nodes, Remove(n) PROVE IInv'
  BY <1>5, WithoutList DEF IInv, Remove
<1>6. ASSUME NEW n \in Nodes, MoveToHead(n) PROVE IInv'
  BY <1>6, ToHeadList DEF IInv, MoveToHead, Move
<1>7. ASSUME NEW n \in Nodes, MoveToTail(n) PROVE IInv'
  BY <1>7, ToTailList DEF IInv, MoveToTail, Move
<1>8. CASE Clear
  BY <1>8 DEF IInv, Clear
<1>9. CASE ClearNode
  <2>1. clearing = list.head /\ clearing \in inside
    BY <1>9, EndsOfList DEF IInv, ClearNode
  <2>2. ListOf(list', inside')
    BY <1>9, <2>1, WithoutList DEF IInv, ClearNode
  <2>3. list.previous[list.head] = NULL
    BY <2>1, EndsOfList DEF IInv
  <2>4. list'.head = list.next[list.head]
    BY <1>9, <2>1, <2>3 DEF ClearNode, Without
  <2> QED BY <1>9, <2>1, <2>2, <2>4 DEF IInv, ClearNode
<1>10. CASE UNCHANGED vars
  BY <1>10 DEF IInv, vars
<1> QED BY <1>1, <1>2, <1>3, <1>4, <1>5, <1>6, <1>7, <1>8, <1>9, <1>10 DEF Next

LEMMA Invariant == Spec => []IInv
BY InitHolds, StepKeeps, PTL DEF Spec

\* Pointers point to nodes or nowhere, size counts the nodes, and clear_list is
\* always at a node that is still inside (list.c).
THEOREM TypeCorrect == Spec => []TypeOK
<1>1. IInv => TypeOK
  <2> SUFFICES ASSUME IInv PROVE TypeOK
    OBVIOUS
  <2>1. PICK k, f : Lists(list, f, k, inside)
    BY DEF IInv, ListOf
  <2>2. Cardinality(inside) \in Nat
    BY <2>1, Counted, FS_CardinalityType DEF Lists
  <2>3. list.size = Cardinality(inside)
    BY DEF IInv, ListOf, Sized
  <2>4. list \in [head : Nodes \cup {NULL}, tail : Nodes \cup {NULL}, size : Nat,
                  next : Links, previous : Links]
    BY <2>1, <2>2, <2>3 DEF Lists, Shaped, Pointer
  <2>5. inside \subseteq Nodes /\ clearing \in inside \cup {NULL}
    BY EndsOfList DEF IInv
  <2> QED BY <2>3, <2>4, <2>5 DEF TypeOK
<1> QED BY <1>1, Invariant, PTL

\* After every call all pointers of list.c are as they must be, for any number
\* of nodes.
THEOREM AlwaysLinked == Spec => []Linked
<1>1. IInv => Linked
  <2> SUFFICES ASSUME IInv PROVE Linked
    OBVIOUS
  <2>1. Mirrored
    BY MirrorsOfList DEF IInv, Mirrored
  <2>2. \A n \in Nodes \ inside : list.next[n] = NULL /\ list.previous[n] = NULL
    BY DEF IInv, ListOf, Lists, Detached
  <2>3. Ended
    BY <2>2, EndsOfList DEF IInv, Ended
  <2> QED BY <2>1, <2>3 DEF Linked
<1> QED BY <1>1, Invariant, PTL

\* clear_list takes out every node.
THEOREM ClearIsComplete == Spec => ClearsAll
<1>1. IInv /\ [Next]_vars => [clearing # NULL /\ clearing' = NULL => inside' = {}]_vars
  <2> SUFFICES ASSUME IInv, Next, clearing # NULL, clearing' = NULL PROVE inside' = {}
    BY DEF vars
  <2>1. ClearNode
    BY DEF Next, Insert, InsertEnd, InsertAfter, InsertBefore, Put, Remove,
           MoveToHead, MoveToTail, Move, Clear
  <2>2. clearing = list.head /\ list.next[list.head] = NULL
    BY <2>1 DEF IInv, ClearNode
  <2>3. inside = {list.head}
    BY <2>2, EndsOfList DEF IInv
  <2> QED BY <2>1, <2>2, <2>3 DEF ClearNode
<1> QED BY <1>1, Invariant, PTL DEF ClearsAll, Spec

-----------------------------------------------------------------------------
(* The order of the nodes *)

\* What containers hold.
Things == Nodes \cup Items

LEMMA NodesAreThings ==
  ASSUME NEW k \in Nat, NEW f \in [1 .. k -> Nodes]
  PROVE  f \in [1 .. k -> Things]
BY DEF Things

LEMMA Listing ==
  ASSUME NEW k \in Nat, NEW f \in [1 .. k -> Things]
  PROVE  f \in Seq(Things) /\ Len(f) = k /\ DOMAIN f = 1 .. k
BY SeqDef

LEMMA Piece ==
  ASSUME NEW k \in Nat, NEW f \in [1 .. k -> Things],
         NEW m \in 1 .. k + 1, NEW n \in 0 .. k, m <= n + 1
  PROVE  /\ SubSeq(f, m, n) \in Seq(Things) /\ Len(SubSeq(f, m, n)) = n - m + 1
         /\ \A i \in 1 .. n - m + 1 : SubSeq(f, m, n)[i] = f[m + i - 1]
<1>1. \A i \in m .. n : f[i] \in Things
  OBVIOUS
<1>2. /\ SubSeq(f, m, n) \in Seq(Things)
      /\ Len(SubSeq(f, m, n)) = IF m <= n THEN n - m + 1 ELSE 0
      /\ \A i \in 1 .. n - m + 1 : SubSeq(f, m, n)[i] = f[m + i - 1]
  <2>1. m \in Int /\ n \in Int
    OBVIOUS
  <2> QED BY <1>1, <2>1, SubSeqProperties
<1> QED BY <1>2

LEMMA Joined ==
  ASSUME NEW a \in Seq(Things), NEW c \in Seq(Things)
  PROVE  /\ a \o c \in Seq(Things) /\ Len(a \o c) = Len(a) + Len(c)
         /\ \A i \in 1 .. Len(a) : (a \o c)[i] = a[i]
         /\ \A i \in 1 .. Len(c) : (a \o c)[Len(a) + i] = c[i]
<1> DEFINE e == a \o c
<1>1. /\ e \in Seq(Things) /\ Len(e) = Len(a) + Len(c)
      /\ \A i \in 1 .. Len(a) + Len(c) : e[i] = IF i <= Len(a) THEN a[i] ELSE c[i - Len(a)]
  BY ConcatProperties
<1>2. Len(a) \in Nat /\ Len(c) \in Nat
  BY LenProperties
<1> HIDE DEF e
<1>3. ASSUME NEW i \in 1 .. Len(a) PROVE e[i] = a[i]
  <2>1. i \in 1 .. Len(a) + Len(c) /\ i <= Len(a)
    BY <1>2
  <2> QED BY <1>1, <2>1
<1>4. ASSUME NEW i \in 1 .. Len(c) PROVE e[Len(a) + i] = c[i]
  <2>1. Len(a) + i \in 1 .. Len(a) + Len(c) /\ ~(Len(a) + i <= Len(a)) /\ Len(a) + i - Len(a) = i
    BY <1>2
  <2>2. e[Len(a) + i] = IF Len(a) + i <= Len(a) THEN a[Len(a) + i] ELSE c[Len(a) + i - Len(a)]
    BY <1>1, <2>1
  <2> QED BY <2>1, <2>2
<1> QED BY <1>1, <1>3, <1>4 DEF e

\* Three pieces, of which the middle one is of one node.
LEMMA JoinedAround ==
  ASSUME NEW a \in Seq(Things), NEW c \in Seq(Things), NEW n \in Things
  PROVE  LET e == a \o <<n>> \o c
         IN  /\ e \in Seq(Things) /\ Len(e) = Len(a) + 1 + Len(c)
             /\ \A i \in 1 .. Len(a) : e[i] = a[i]
             /\ e[Len(a) + 1] = n
             /\ \A i \in 1 .. Len(c) : e[Len(a) + 1 + i] = c[i]
<1> DEFINE s == <<n>>
           b == a \o s
           e == b \o c
<1>1. s \in Seq(Things) /\ Len(s) = 1 /\ s[1] = n
  OBVIOUS
<1>2. Len(a) \in Nat /\ Len(c) \in Nat
  BY LenProperties
<1> HIDE DEF s
<1>3. /\ b \in Seq(Things) /\ Len(b) = Len(a) + Len(s)
      /\ \A i \in 1 .. Len(a) : b[i] = a[i]
      /\ \A i \in 1 .. Len(s) : b[Len(a) + i] = s[i]
  BY <1>1, Joined
<1> HIDE DEF b
<1>4. /\ e \in Seq(Things) /\ Len(e) = Len(b) + Len(c)
      /\ \A i \in 1 .. Len(b) : e[i] = b[i]
      /\ \A i \in 1 .. Len(c) : e[Len(b) + i] = c[i]
  BY <1>3, Joined
<1> HIDE DEF e
<1>5. Len(b) = Len(a) + 1
  BY <1>1, <1>3
<1>6. e[Len(a) + 1] = n
  <2>1. Len(a) + 1 \in 1 .. Len(b) /\ 1 \in 1 .. Len(s)
    BY <1>1, <1>2, <1>5
  <2>2. e[Len(a) + 1] = b[Len(a) + 1]
    BY <1>4, <2>1
  <2>3. b[Len(a) + 1] = s[1]
    BY <1>3, <2>1
  <2> QED BY <1>1, <2>2, <2>3
<1>7. ASSUME NEW i \in 1 .. Len(a) PROVE e[i] = a[i]
  <2>1. i \in 1 .. Len(b)
    BY <1>2, <1>5
  <2> QED BY <1>3, <1>4, <2>1
<1>8. \A i \in 1 .. Len(c) : e[Len(a) + 1 + i] = c[i]
  BY <1>4, <1>5
<1>9. e \in Seq(Things) /\ Len(e) = Len(a) + 1 + Len(c)
  BY <1>4, <1>5
<1> QED BY <1>6, <1>7, <1>8, <1>9 DEF e, b, s

\* What With and Drop are in terms of sequences.
LEMMA WithIs ==
  ASSUME NEW k \in Nat, NEW f \in [1 .. k -> Things], NEW p \in 1 .. k + 1, NEW n \in Things
  PROVE  With(f, k, p, n) = SubSeq(f, 1, p - 1) \o <<n>> \o SubSeq(f, p, k)
<1> DEFINE a == SubSeq(f, 1, p - 1)
           c == SubSeq(f, p, k)
           e == a \o <<n>> \o c
           g == With(f, k, p, n)
<1>1. /\ a \in Seq(Things) /\ Len(a) = p - 1
      /\ \A i \in 1 .. p - 1 : a[i] = f[i]
  <2>1. 1 \in 1 .. k + 1 /\ p - 1 \in 0 .. k /\ 1 <= (p - 1) + 1
    OBVIOUS
  <2>2. /\ a \in Seq(Things) /\ Len(a) = (p - 1) - 1 + 1
        /\ \A i \in 1 .. (p - 1) - 1 + 1 : a[i] = f[1 + i - 1]
    BY <2>1, Piece
  <2> HIDE DEF a
  <2> QED BY <2>2
<1>2. /\ c \in Seq(Things) /\ Len(c) = k - p + 1
      /\ \A i \in 1 .. k - p + 1 : c[i] = f[p + i - 1]
  <2>1. k \in 0 .. k /\ p <= k + 1
    OBVIOUS
  <2> QED BY <2>1, Piece
<1> HIDE DEF a, c
<1>3. /\ e \in Seq(Things) /\ Len(e) = Len(a) + 1 + Len(c)
      /\ \A i \in 1 .. Len(a) : e[i] = a[i]
      /\ e[Len(a) + 1] = n
      /\ \A i \in 1 .. Len(c) : e[Len(a) + 1 + i] = c[i]
  BY <1>1, <1>2, JoinedAround
<1> HIDE DEF e
<1>4. g \in [1 .. k + 1 -> Things]
  BY DEF With
<1>5. g \in Seq(Things) /\ Len(g) = k + 1
  BY <1>4, Listing
<1>6. Len(e) = k + 1
  BY <1>1, <1>2, <1>3
<1>7. ASSUME NEW i \in 1 .. k + 1 PROVE g[i] = e[i]
  <2>1. CASE i < p
    <3>1. i \in 1 .. p - 1 /\ i \in 1 .. Len(a)
      BY <1>1, <2>1
    <3>2. e[i] = f[i]
      BY <1>1, <1>3, <3>1
    <3>3. g[i] = f[i]
      BY <2>1 DEF With
    <3> QED BY <3>2, <3>3
  <2>2. CASE i = p
    <3>1. e[i] = n
      BY <1>1, <1>3, <2>2
    <3>2. g[i] = n
      BY <2>2 DEF With
    <3> QED BY <3>1, <3>2
  <2>3. CASE i > p
    <3>1. /\ i - p \in 1 .. k - p + 1 /\ i - p \in 1 .. Len(c)
          /\ Len(a) + 1 + (i - p) = i /\ p + (i - p) - 1 = i - 1
      BY <1>1, <1>2, <2>3
    <3>2. e[i] = c[i - p]
      BY <1>3, <3>1
    <3>3. c[i - p] = f[i - 1]
      BY <1>2, <3>1
    <3>4. g[i] = f[i - 1]
      BY <2>3 DEF With
    <3> QED BY <3>2, <3>3, <3>4
  <2> QED BY <2>1, <2>2, <2>3
<1> HIDE DEF g
<1>8. g = e
  BY <1>3, <1>5, <1>6, <1>7, SeqEqual
<1> QED BY <1>8 DEF g, e, a, c

LEMMA DropIs ==
  ASSUME NEW k \in Nat, NEW f \in [1 .. k -> Things], NEW p \in 1 .. k
  PROVE  Drop(f, k, p) = SubSeq(f, 1, p - 1) \o SubSeq(f, p + 1, k)
<1> DEFINE a == SubSeq(f, 1, p - 1)
           c == SubSeq(f, p + 1, k)
           e == a \o c
           g == Drop(f, k, p)
<1>1. /\ a \in Seq(Things) /\ Len(a) = p - 1
      /\ \A i \in 1 .. p - 1 : a[i] = f[i]
  <2>1. 1 \in 1 .. k + 1 /\ p - 1 \in 0 .. k /\ 1 <= (p - 1) + 1
    OBVIOUS
  <2>2. /\ a \in Seq(Things) /\ Len(a) = (p - 1) - 1 + 1
        /\ \A i \in 1 .. (p - 1) - 1 + 1 : a[i] = f[1 + i - 1]
    BY <2>1, Piece
  <2> HIDE DEF a
  <2> QED BY <2>2
<1>2. /\ c \in Seq(Things) /\ Len(c) = k - p
      /\ \A i \in 1 .. k - p : c[i] = f[(p + 1) + i - 1]
  <2>1. p + 1 \in 1 .. k + 1 /\ k \in 0 .. k /\ p + 1 <= k + 1 /\ k - (p + 1) + 1 = k - p
    OBVIOUS
  <2>2. /\ c \in Seq(Things) /\ Len(c) = k - (p + 1) + 1
        /\ \A i \in 1 .. k - (p + 1) + 1 : c[i] = f[(p + 1) + i - 1]
    BY <2>1, Piece
  <2> HIDE DEF c
  <2> QED BY <2>1, <2>2
<1> HIDE DEF a, c
<1>3. /\ e \in Seq(Things) /\ Len(e) = Len(a) + Len(c)
      /\ \A i \in 1 .. Len(a) : e[i] = a[i]
      /\ \A i \in 1 .. Len(c) : e[Len(a) + i] = c[i]
  BY <1>1, <1>2, Joined
<1> HIDE DEF e
<1>4. g \in [1 .. k - 1 -> Things] /\ k - 1 \in Nat
  BY DEF Drop
<1>5. g \in Seq(Things) /\ Len(g) = k - 1
  BY <1>4, Listing
<1>6. Len(e) = k - 1
  BY <1>1, <1>2, <1>3
<1>7. ASSUME NEW i \in 1 .. k - 1 PROVE g[i] = e[i]
  <2>1. CASE i < p
    <3>1. i \in 1 .. p - 1 /\ i \in 1 .. Len(a)
      BY <1>1, <2>1
    <3>2. e[i] = f[i]
      BY <1>1, <1>3, <3>1
    <3>3. g[i] = f[i]
      BY <2>1 DEF Drop
    <3> QED BY <3>2, <3>3
  <2>2. CASE i >= p
    <3> DEFINE j == i - (p - 1)
    <3>1. /\ j \in 1 .. k - p /\ j \in 1 .. Len(c)
          /\ Len(a) + j = i /\ (p + 1) + j - 1 = i + 1
      BY <1>1, <1>2, <2>2
    <3> HIDE DEF j
    <3>2. e[i] = c[j]
      BY <1>3, <3>1
    <3>3. c[j] = f[i + 1]
      BY <1>2, <3>1
    <3>4. g[i] = f[i + 1]
      BY <2>2 DEF Drop
    <3> QED BY <3>2, <3>3, <3>4
  <2> QED BY <2>1, <2>2
<1> HIDE DEF g
<1>8. g = e
  BY <1>3, <1>5, <1>6, <1>7, SeqEqual
<1> QED BY <1>8 DEF g, e, a, c

\* At the ends.
LEMMA WithEnds ==
  ASSUME NEW k \in Nat, NEW f \in [1 .. k -> Things], NEW n \in Things
  PROVE  With(f, k, 1, n) = <<n>> \o f /\ With(f, k, k + 1, n) = Append(f, n)
<1>1. f \in Seq(Things) /\ Len(f) = k
  BY Listing
<1>2. <<n>> \in Seq(Things) /\ Len(<<n>>) = 1 /\ <<n>>[1] = n
  OBVIOUS
<1>3. /\ <<n>> \o f \in Seq(Things) /\ Len(<<n>> \o f) = 1 + k
      /\ \A i \in 1 .. 1 + k : (<<n>> \o f)[i] = IF i <= 1 THEN <<n>>[i] ELSE f[i - 1]
  BY <1>1, <1>2, ConcatProperties
<1>4. /\ Append(f, n) \in Seq(Things) /\ Len(Append(f, n)) = k + 1
      /\ \A i \in 1 .. k : Append(f, n)[i] = f[i]
      /\ Append(f, n)[k + 1] = n
  BY <1>1, AppendProperties
<1> DEFINE g == With(f, k, 1, n)
           h == With(f, k, k + 1, n)
<1>5. g \in [1 .. k + 1 -> Things] /\ h \in [1 .. k + 1 -> Things]
  BY DEF With
<1>6. \A i \in 1 .. k + 1 : /\ g[i] = IF i <= 1 THEN n ELSE f[i - 1]
                            /\ h[i] = IF i <= k THEN f[i] ELSE n
  BY DEF With
<1> HIDE DEF g, h
<1>7. g \in Seq(Things) /\ Len(g) = k + 1 /\ h \in Seq(Things) /\ Len(h) = k + 1
  BY <1>5, Listing
<1>8. \A i \in 1 .. k + 1 : g[i] = (<<n>> \o f)[i]
  BY <1>2, <1>3, <1>6
<1>9. \A i \in 1 .. k + 1 : h[i] = Append(f, n)[i]
  BY <1>4, <1>6
<1>10. g = <<n>> \o f
  <2>1. Len(<<n>> \o f) = k + 1
    BY <1>3
  <2> QED BY <1>3, <1>7, <1>8, <2>1, SeqEqual
<1>11. h = Append(f, n)
  BY <1>4, <1>7, <1>9, SeqEqual
<1> QED BY <1>10, <1>11 DEF g, h

LEMMA DropFirst ==
  ASSUME NEW k \in Nat, NEW f \in [1 .. k -> Things], k # 0
  PROVE  Drop(f, k, 1) = Tail(f)
<1>1. f \in Seq(Things) /\ Len(f) = k
  BY Listing
<1>2. f # << >>
  BY <1>1
<1>3. Tail(f) = SubSeq(f, 2, Len(f))
  BY <1>1, <1>2, TailIsSubSeq
<1>4. SubSeq(f, 1, 0) = << >>
  BY <1>1, SubSeqEmpty
<1>5. SubSeq(f, 2, k) \in Seq(Things)
  BY <1>1, SubSeqProperties
<1>6. << >> \o SubSeq(f, 2, k) = SubSeq(f, 2, k)
  BY <1>5, ConcatEmptySeq
<1>7. Drop(f, k, 1) = SubSeq(f, 1, 1 - 1) \o SubSeq(f, 1 + 1, k)
  BY DropIs
<1> QED BY <1>1, <1>3, <1>4, <1>6, <1>7

LEMMA SmallestElement ==
  ASSUME NEW S, S \subseteq Nat, S # {}
  PROVE  \E x \in S : \A y \in S : x <= y
<1>1. PICK x \in S : \A y \in S : ~(<<y, x>> \in OpToRel(<, Nat))
  BY WFMin, NatLessThanWellFounded, Zenon
<1>2. ASSUME NEW y \in S PROVE x <= y
  <2>1. ~(y < x)
    BY <1>1 DEF OpToRel
  <2> QED BY <2>1
<1> QED BY <1>2

\* What links lead to that spell f: every node once, and null after the last.
Leads(start, link, null, f, k) ==
  /\ start = IF k = 0 THEN null ELSE f[1]
  /\ \A i \in 1 .. k : link[f[i]] = IF i = k THEN null ELSE f[i + 1]

LEMMA VisitsAre ==
  ASSUME NEW k \in Nat, NEW f, f = [i \in 1 .. k |-> f[i]], NEW N \in Nat, k <= N,
         NEW start, NEW link, NEW null, \A i \in 1 .. k : f[i] # null,
         Leads(start, link, null, f, k)
  PROVE  \A i \in 1 .. N : Visits(start, link, null, N)[i] = IF i <= k THEN f[i] ELSE null
<1> DEFINE a == [i \in 1 .. N |-> IF i <= k THEN f[i] ELSE null]
           v == Visits(start, link, null, N)
           Step(g, i) == IF i = 1 THEN start
                         ELSE IF g[i - 1] = null THEN null ELSE link[g[i - 1]]
<1>1. a = [i \in 1 .. N |-> Step(a, i)]
  <2>1. ASSUME NEW i \in 1 .. N PROVE a[i] = Step(a, i)
    <3>1. CASE i = 1
      BY <3>1 DEF Leads
    <3>2. CASE i # 1
      <4>1. i - 1 \in 1 .. N
        BY <3>2
      <4>2. a[i - 1] = IF i - 1 <= k THEN f[i - 1] ELSE null
        BY <4>1
      <4>3. CASE i - 1 <= k
        <5>1. i - 1 \in 1 .. k /\ f[i - 1] # null
          BY <4>1, <4>3
        <5>2. link[f[i - 1]] = IF i - 1 = k THEN null ELSE f[(i - 1) + 1]
          BY <5>1 DEF Leads
        <5> QED BY <3>2, <4>2, <4>3, <5>1, <5>2
      <4>4. CASE ~(i - 1 <= k)
        BY <3>2, <4>2, <4>4
      <4> QED BY <4>3, <4>4
    <3> QED BY <3>1, <3>2
  <2> HIDE DEF Step
  <2>2. a = [i \in 1 .. N |-> a[i]]
    OBVIOUS
  <2> HIDE DEF a
  <2> QED BY <2>1, <2>2
<1>2. v = [i \in 1 .. N |-> Step(v, i)]
  <2>1. a = [i \in 1 .. N |->
               IF i = 1 THEN start ELSE IF a[i - 1] = null THEN null ELSE link[a[i - 1]]]
    <3> HIDE DEF a
    <3> QED BY <1>1
  <2> HIDE DEF a
  <2>2. v = [i \in 1 .. N |->
               IF i = 1 THEN start ELSE IF v[i - 1] = null THEN null ELSE link[v[i - 1]]]
    BY <2>1, Zenon DEF Visits
  <2> HIDE DEF v
  <2> QED BY <2>2
<1>3. \A i \in 1 .. N : a[i] = Step(a, i) /\ v[i] = Step(v, i)
  <2> HIDE DEF a, v, Step
  <2> QED BY <1>1, <1>2
<1>4. \A i \in 1 .. N : v[i] = a[i]
  <2> HIDE DEF a, v
  <2> DEFINE Bad == {i \in 1 .. N : v[i] # a[i]}
  <2> SUFFICES ASSUME Bad # {} PROVE FALSE
    OBVIOUS
  <2>1. Bad \subseteq Nat
    OBVIOUS
  <2>2. PICK x \in Bad : \A y \in Bad : x <= y
    <3> HIDE DEF Bad
    <3> QED BY <2>1, SmallestElement
  <2>3. v[x] = Step(v, x) /\ a[x] = Step(a, x) /\ v[x] # a[x] /\ x \in 1 .. N
    <3> HIDE DEF Step
    <3> QED BY <1>3, <2>2
  <2>4. x # 1
    BY <2>3
  <2>5. x - 1 \in 1 .. N /\ ~(x <= x - 1)
    BY <2>3, <2>4
  <2>6. v[x - 1] = a[x - 1]
    BY <2>2, <2>5
  <2> QED BY <2>3, <2>4, <2>6
<1>5. \A i \in 1 .. N : a[i] = IF i <= k THEN f[i] ELSE null
  OBVIOUS
<1> HIDE DEF v, a
<1> QED BY <1>4, <1>5 DEF v

LEMMA WalkIs ==
  ASSUME NEW k \in Nat, NEW f, f = [i \in 1 .. k |-> f[i]], NEW N \in Nat, k <= N,
         NEW start, NEW link, NEW null, \A i \in 1 .. k : f[i] # null,
         Leads(start, link, null, f, k)
  PROVE  Walk(start, link, null, N) = f
<1> DEFINE v == Visits(start, link, null, N)
<1>1. \A i \in 1 .. N : v[i] = IF i <= k THEN f[i] ELSE null
  BY VisitsAre
<1>2. Walk(start, link, null, N) = [i \in {j \in 1 .. N : v[j] # null} |-> v[i]]
  BY DEF Walk
<1> HIDE DEF v
<1>3. {j \in 1 .. N : v[j] # null} = 1 .. k
  <2>1. ASSUME NEW j \in 1 .. N PROVE v[j] # null <=> j \in 1 .. k
    BY <1>1
  <2>2. \A j \in 1 .. k : j \in 1 .. N
    OBVIOUS
  <2> QED BY <2>1, <2>2
<1>4. [i \in 1 .. k |-> v[i]] = f
  BY <1>1
<1> QED BY <1>2, <1>3, <1>4

\* Different nodes in a row are no more than there are.
LEMMA NoMoreThan ==
  ASSUME NEW T, IsFiniteSet(T), NEW k \in Nat, NEW f \in [1 .. k -> T],
         \A i, j \in 1 .. k : f[i] = f[j] => i = j
  PROVE  k <= Cardinality(T) /\ Cardinality(T) \in Nat
<1>1. f \in Injection(1 .. k, T)
  BY DEF Injection, IsInjective
<1>2. Cardinality(1 .. k) <= Cardinality(T)
  BY <1>1, FS_Injection
<1>3. Cardinality(1 .. k) = IF 1 > k THEN 0 ELSE k - 1 + 1
  BY FS_Interval
<1> QED BY <1>2, <1>3, FS_CardinalityType

LEMMA ListWalk ==
  ASSUME NEW l, NEW f, NEW k, NEW S, Lists(l, f, k, S)
  PROVE  Walk(l.head, l.next, NULL, Cardinality(Nodes)) = f
<1>1. /\ k \in Nat /\ f \in [1 .. k -> Nodes]
      /\ \A i, j \in 1 .. k : f[i] = f[j] => i = j
  BY DEF Lists, Orders
<1>2. k <= Cardinality(Nodes) /\ Cardinality(Nodes) \in Nat
  BY <1>1, LinkedListAssumption, NoMoreThan
<1>3. Leads(l.head, l.next, NULL, f, k)
  BY DEF Lists, Spells, Leads
<1>4. f = [i \in 1 .. k |-> f[i]] /\ \A i \in 1 .. k : f[i] # NULL
  BY <1>1, LinkedListAssumption
<1> QED BY <1>1, <1>2, <1>3, <1>4, WalkIs

\* The list with its order, and what list.c does to it.
LEMMA ForwardIs ==
  ASSUME NEW f, NEW k, Lists(list, f, k, inside)
  PROVE  /\ Forward = f /\ k \in Nat /\ f \in [1 .. k -> Things] /\ DOMAIN f = 1 .. k
         /\ Len(f) = k /\ \A n \in inside : n \in Nodes /\ Place(n) \in 1 .. k /\ f[Place(n)] = n
<1>1. Forward = f
  BY ListWalk DEF Forward
<1>2. k \in Nat /\ f \in [1 .. k -> Nodes]
  BY DEF Lists, Orders
<1>3. f \in [1 .. k -> Things] /\ Len(f) = k /\ DOMAIN f = 1 .. k
  BY <1>2, NodesAreThings, Listing
<1>4. ASSUME NEW n \in inside PROVE n \in Nodes /\ Place(n) \in 1 .. k /\ f[Place(n)] = n
  <2>1. \E i \in 1 .. k : f[i] = n
    BY Positioned DEF Lists
  <2>2. Place(n) = CHOOSE i \in 1 .. k : f[i] = n
    BY <1>1, <1>3 DEF Place
  <2>3. n \in Nodes
    BY DEF Lists, Orders
  <2> QED BY <2>1, <2>2, <2>3
<1> QED BY <1>1, <1>2, <1>3, <1>4

LEMMA ForwardAfter ==
  ASSUME NEW f, NEW k, Lists(list', f, k, inside')
  PROVE  Forward' = f
BY ListWalk DEF Forward

\* The others are what is left without the place of a node.
LEMMA OthersAre ==
  ASSUME NEW f, NEW k, Lists(list, f, k, inside), NEW n \in inside
  PROVE  Others(n) = Drop(f, k, Place(n))
<1>1. /\ Forward = f /\ k \in Nat /\ f \in [1 .. k -> Things]
      /\ Len(f) = k /\ Place(n) \in 1 .. k
  BY ForwardIs
<1>2. Others(n) = SubSeq(f, 1, Place(n) - 1) \o SubSeq(f, Place(n) + 1, k)
  BY <1>1 DEF Others, UpTo, From
<1> DEFINE p == Place(n)
<1> HIDE DEF p
<1>3. Drop(f, k, p) = SubSeq(f, 1, p - 1) \o SubSeq(f, p + 1, k)
  BY <1>1, DropIs DEF p
<1> QED BY <1>2, <1>3 DEF p

\* Each call, on a list that has the order f.
Ordered(n) ==
  /\ Insert(n) => Forward' = <<n>> \o Forward
  /\ InsertEnd(n) => Forward' = Append(Forward, n)
  /\ Remove(n) => Forward' = Others(n)
  /\ MoveToHead(n) => Forward' = <<n>> \o Others(n)
  /\ MoveToTail(n) => Forward' = Append(Others(n), n)
  /\ \A e \in Nodes :
       /\ InsertAfter(n, e) => Forward' = UpTo(Place(e)) \o <<n>> \o From(Place(e) + 1)
       /\ InsertBefore(n, e) => Forward' = UpTo(Place(e) - 1) \o <<n>> \o From(Place(e))

LEMMA CallsOrder ==
  ASSUME NEW f, NEW k, Lists(list, f, k, inside), NEW n \in Nodes
  PROVE  Ordered(n)
<1>1. /\ Forward = f /\ k \in Nat /\ f \in [1 .. k -> Things] /\ Len(f) = k
      /\ \A m \in inside : m \in Nodes /\ Place(m) \in 1 .. k /\ f[Place(m)] = m
      /\ n \in Things
  BY ForwardIs DEF Things
<1>2. ASSUME Insert(n) PROVE Forward' = <<n>> \o Forward
  <2>1. n \in Nodes \ inside /\ list' = NodeFirst(list, n) /\ inside' = inside \cup {n}
    BY <1>2 DEF Insert, Put
  <2>2. Forward' = With(f, k, 1, n)
    BY <2>1, FirstLists, ForwardAfter
  <2> QED BY <1>1, <2>2, WithEnds
<1>3. ASSUME InsertEnd(n) PROVE Forward' = Append(Forward, n)
  <2>1. n \in Nodes \ inside /\ list' = NodeLast(list, n) /\ inside' = inside \cup {n}
    BY <1>3 DEF InsertEnd, Put
  <2>2. Forward' = With(f, k, k + 1, n)
    BY <2>1, LastLists, ForwardAfter
  <2> QED BY <1>1, <2>2, WithEnds
<1>4. ASSUME NEW e \in Nodes, InsertAfter(n, e)
      PROVE  Forward' = UpTo(Place(e)) \o <<n>> \o From(Place(e) + 1)
  <2>1. /\ n \in Nodes \ inside /\ e \in inside /\ list' = NodeAfter(list, e, n)
        /\ inside' = inside \cup {n}
    BY <1>4 DEF InsertAfter, Put
  <2> DEFINE p == Place(e)
  <2>2. p \in 1 .. k /\ f[p] = e
    BY <1>1, <2>1
  <2> HIDE DEF p
  <2>3. Forward' = With(f, k, p + 1, n)
    BY <2>1, <2>2, AfterLists, ForwardAfter
  <2> DEFINE q == p + 1
  <2>4. q \in 1 .. k + 1 /\ q - 1 = p
    BY <1>1, <2>2
  <2> HIDE DEF q
  <2>5. With(f, k, q, n) = SubSeq(f, 1, q - 1) \o <<n>> \o SubSeq(f, q, k)
    BY <1>1, <2>4, WithIs
  <2>6. Forward' = SubSeq(f, 1, p) \o <<n>> \o SubSeq(f, p + 1, k)
    BY <2>3, <2>4, <2>5 DEF q
  <2> QED BY <1>1, <2>6 DEF UpTo, From, p
<1>5. ASSUME NEW e \in Nodes, InsertBefore(n, e)
      PROVE  Forward' = UpTo(Place(e) - 1) \o <<n>> \o From(Place(e))
  <2>1. /\ n \in Nodes \ inside /\ e \in inside /\ list' = NodeBefore(list, e, n)
        /\ inside' = inside \cup {n}
    BY <1>5 DEF InsertBefore, Put
  <2> DEFINE p == Place(e)
  <2>2. p \in 1 .. k /\ f[p] = e
    BY <1>1, <2>1
  <2> HIDE DEF p
  <2>3. Forward' = With(f, k, p, n)
    BY <2>1, <2>2, BeforeLists, ForwardAfter
  <2>4. p \in 1 .. k + 1
    BY <1>1, <2>2
  <2>5. With(f, k, p, n) = SubSeq(f, 1, p - 1) \o <<n>> \o SubSeq(f, p, k)
    BY <1>1, <2>4, WithIs
  <2> QED BY <1>1, <2>3, <2>5 DEF UpTo, From, p
<1>6. ASSUME n \in inside
      PROVE  /\ Remove(n) => Forward' = Others(n)
             /\ MoveToHead(n) => Forward' = <<n>> \o Others(n)
             /\ MoveToTail(n) => Forward' = Append(Others(n), n)
  <2> DEFINE p == Place(n)
  <2>1. p \in 1 .. k /\ f[p] = n /\ Others(n) = Drop(f, k, p)
    BY <1>1, <1>6, OthersAre
  <2> HIDE DEF p
  <2> DEFINE d == Drop(f, k, p)
  <2>2. d \in [1 .. k - 1 -> Things] /\ k - 1 \in Nat /\ (k - 1) + 1 = k
    BY <1>1, <2>1 DEF Drop
  <2> HIDE DEF d
  <2>3. ASSUME Remove(n) PROVE Forward' = Others(n)
    <3>1. Lists(list', d, k - 1, inside')
      BY <2>1, <2>3, WithoutLists DEF Remove, d
    <3> QED BY <2>1, <3>1, ForwardAfter DEF d
  <2>4. ASSUME MoveToHead(n) PROVE Forward' = <<n>> \o Others(n)
    <3>1. Lists(list', With(d, k - 1, 1, n), k, inside')
      BY <2>1, <2>4, ToHeadLists DEF MoveToHead, Move, d
    <3>2. Forward' = With(d, k - 1, 1, n)
      BY <3>1, ForwardAfter
    <3>3. With(d, k - 1, 1, n) = <<n>> \o d
      BY <1>1, <2>2, WithEnds
    <3> QED BY <2>1, <3>2, <3>3 DEF d
  <2>5. ASSUME MoveToTail(n) PROVE Forward' = Append(Others(n), n)
    <3>1. Lists(list', With(d, k - 1, k, n), k, inside')
      BY <2>1, <2>5, ToTailLists DEF MoveToTail, Move, d
    <3>2. Forward' = With(d, k - 1, k, n)
      BY <3>1, ForwardAfter
    <3>3. With(d, k - 1, (k - 1) + 1, n) = Append(d, n)
      BY <1>1, <2>2, WithEnds
    <3> QED BY <2>1, <2>2, <3>2, <3>3 DEF d
  <2> QED BY <2>3, <2>4, <2>5
<1>7. Remove(n) \/ MoveToHead(n) \/ MoveToTail(n) => n \in inside
  BY DEF Remove, MoveToHead, MoveToTail, Move
<1> QED BY <1>2, <1>3, <1>4, <1>5, <1>6, <1>7 DEF Ordered

\* clear_list takes out the first of what is left.
LEMMA ClearNodeOrder ==
  ASSUME IInv, ClearNode
  PROVE  Forward' = Tail(Forward)
<1>1. PICK k, f : Lists(list, f, k, inside)
  BY DEF IInv, ListOf
<1>2. /\ Forward = f /\ k \in Nat /\ f \in [1 .. k -> Things]
  BY <1>1, ForwardIs
<1>3. clearing = list.head /\ list.head # NULL
  BY DEF IInv, ClearNode
<1>4. k # 0 /\ list.head = f[1]
  BY <1>1, <1>2, <1>3 DEF Lists, Spells
<1>5. 1 \in 1 .. k
  BY <1>2, <1>4
<1>6. Lists(list', Drop(f, k, 1), k - 1, inside')
  BY <1>1, <1>3, <1>4, <1>5, WithoutLists DEF ClearNode
<1>7. Forward' = Drop(f, k, 1)
  BY <1>6, ForwardAfter
<1> QED BY <1>2, <1>4, <1>7, DropFirst

\* Every call of list.c puts its node where it says and leaves the others in
\* their order, whichever calls came before and however the node was inside then.
THEOREM OrderKept == Spec => KeepsOrder
<1>1. IInv /\ [Next]_vars =>
        [/\ \A n \in Nodes :
              /\ Insert(n) => Forward' = <<n>> \o Forward
              /\ InsertEnd(n) => Forward' = Append(Forward, n)
              /\ Remove(n) => Forward' = Others(n)
              /\ MoveToHead(n) => Forward' = <<n>> \o Others(n)
              /\ MoveToTail(n) => Forward' = Append(Others(n), n)
              /\ \A e \in Nodes :
                   /\ InsertAfter(n, e) => Forward' = UpTo(Place(e)) \o <<n>> \o From(Place(e) + 1)
                   /\ InsertBefore(n, e) => Forward' = UpTo(Place(e) - 1) \o <<n>> \o From(Place(e))
         /\ ClearNode => Forward' = Tail(Forward)]_vars
  <2> SUFFICES ASSUME IInv
               PROVE  (\A n \in Nodes : Ordered(n)) /\ (ClearNode => Forward' = Tail(Forward))
    BY DEF Ordered
  <2>1. PICK k, f : Lists(list, f, k, inside)
    BY DEF IInv, ListOf
  <2> QED BY <2>1, CallsOrder, ClearNodeOrder
<1> QED BY <1>1, Invariant, PTL DEF KeepsOrder, Spec

-----------------------------------------------------------------------------
(* stack.c *)

\* The chain of a stack spells f, its length is right, and what is outside is
\* not in it.
Chains(f, k) ==
  /\ k \in Nat /\ f \in [1 .. k -> Items]
  /\ \A i, j \in 1 .. k : f[i] = f[j] => i = j
  /\ Leads(head, next, NULL, f, k)
  /\ next \in [Items -> Items \cup {NULL}]
  /\ length = k
  /\ outside \subseteq Items
  /\ \A i \in 1 .. k : f[i] \notin outside

ChainInv == Stacks!StackAssumption /\ (~stale => \E k, f : Chains(f, k))

\* Cardinalities are the same in both modules.
LEMMA SameCounts ==
  /\ Stacks!IsFiniteSet(Items) <=> IsFiniteSet(Items)
  /\ Stacks!Cardinality(Items) = Cardinality(Items)
<1>1. Stacks!IsFiniteSet(Items) <=> IsFiniteSet(Items)
  BY Zenon DEF Stacks!IsFiniteSet, IsFiniteSet
<1>2. Stacks!Cardinality(Items) = Cardinality(Items)
  BY Zenon DEF Stacks!Cardinality, Cardinality
<1> QED BY <1>1, <1>2

LEMMA ItemsAreThings ==
  ASSUME NEW k \in Nat, NEW f \in [1 .. k -> Items]
  PROVE  f \in [1 .. k -> Things]
BY DEF Things

LEMMA ChainIs ==
  ASSUME Stacks!StackAssumption, NEW f, NEW k, Chains(f, k)
  PROVE  /\ Stacks!Chain = f /\ k \in Nat /\ f \in [1 .. k -> Things]
         /\ DOMAIN f = 1 .. k /\ Len(f) = k
         /\ Stacks!Inside = {f[i] : i \in 1 .. k}
         /\ k # 0 => Stacks!LastItem = f[k]
         /\ head = NULL <=> k = 0
         /\ \A i \in 1 .. k : f[i] # NULL
<1>1. /\ k \in Nat /\ f \in [1 .. k -> Items]
      /\ \A i, j \in 1 .. k : f[i] = f[j] => i = j
      /\ Leads(head, next, NULL, f, k)
      /\ NULL \notin Items /\ IsFiniteSet(Items)
  BY SameCounts DEF Chains, Stacks!StackAssumption
<1> DEFINE N == Cardinality(Items) + 1
<1>2. N \in Nat /\ k <= N
  <2>1. k <= Cardinality(Items) /\ Cardinality(Items) \in Nat
    BY <1>1, NoMoreThan
  <2> QED BY <1>1, <2>1
<1> HIDE DEF N
<1>3. f = [i \in 1 .. k |-> f[i]] /\ \A i \in 1 .. k : f[i] # NULL
  BY <1>1
<1>4. Walk(head, next, NULL, N) = f
  BY <1>1, <1>2, <1>3, WalkIs
<1>5. Stacks!Chain = Walk(head, next, NULL, N)
  <2>1. Stacks!Chain = Stacks!Walk(head, next, NULL, N)
    BY SameCounts DEF Stacks!Chain, N
  <2>2. Stacks!Visits(head, next, NULL, N) = Visits(head, next, NULL, N)
    BY Zenon DEF Stacks!Visits, Visits
  <2> QED BY <2>1, <2>2 DEF Stacks!Walk, Walk
<1>6. Stacks!Chain = f
  BY <1>4, <1>5
<1>7. f \in [1 .. k -> Things] /\ Len(f) = k /\ DOMAIN f = 1 .. k
  BY <1>1, ItemsAreThings, Listing
<1>8. Stacks!Inside = {f[i] : i \in 1 .. k}
  BY <1>6, <1>7 DEF Stacks!Inside
<1>9. k # 0 => Stacks!LastItem = f[k]
  BY <1>6, <1>7 DEF Stacks!LastItem
<1>10. head = NULL <=> k = 0
  BY <1>1, <1>3 DEF Leads
<1> QED BY <1>1, <1>3, <1>6, <1>7, <1>8, <1>9, <1>10

\* stack_peek_n counts along the chain.
LEMMA PeekIs ==
  ASSUME Stacks!StackAssumption, NEW f, NEW k, Chains(f, k), NEW n \in 0 .. k - 1
  PROVE  Stacks!PeekN(n) = f[n + 1]
<1>1. /\ k \in Nat /\ \A i \in 1 .. k : f[i] # NULL
      /\ Leads(head, next, NULL, f, k) /\ length = k /\ head # NULL
  BY ChainIs DEF Chains
<1> DEFINE a == [j \in 0 .. n |-> f[j + 1]]
           Step(g, j) == IF j = 0 THEN head
                         ELSE IF next[g[j - 1]] = NULL THEN g[j - 1] ELSE next[g[j - 1]]
<1>2. a = [j \in 0 .. n |-> Step(a, j)]
  <2>1. ASSUME NEW j \in 0 .. n PROVE a[j] = Step(a, j)
    <3>1. CASE j = 0
      BY <1>1, <3>1 DEF Leads
    <3>2. CASE j # 0
      <4>1. j - 1 \in 0 .. n /\ a[j - 1] = f[(j - 1) + 1] /\ (j - 1) + 1 = j
            /\ j \in 1 .. k /\ j # k /\ j + 1 \in 1 .. k
        BY <1>1, <3>2
      <4>2. next[f[j]] = f[j + 1] /\ f[j + 1] # NULL
        BY <1>1, <4>1 DEF Leads
      <4>3. a[j] = f[j + 1] /\ a[j - 1] = f[j]
        BY <4>1
      <4> HIDE DEF a
      <4> QED BY <3>2, <4>2, <4>3
    <3> QED BY <3>1, <3>2
  <2> HIDE DEF Step
  <2>2. a = [j \in 0 .. n |-> a[j]]
    OBVIOUS
  <2> HIDE DEF a
  <2> QED BY <2>1, <2>2
<1> DEFINE v == CHOOSE v : v = [j \in 0 .. n |-> Step(v, j)]
<1>3. v = [j \in 0 .. n |-> Step(v, j)]
  <2> HIDE DEF a, Step
  <2> QED BY <1>2, Zenon
<1>4. \A j \in 0 .. n : a[j] = Step(a, j) /\ v[j] = Step(v, j)
  <2> HIDE DEF a, v, Step
  <2> QED BY <1>2, <1>3
<1>5. \A j \in 0 .. n : v[j] = a[j]
  <2> HIDE DEF a, v
  <2> DEFINE Bad == {j \in 0 .. n : v[j] # a[j]}
  <2> SUFFICES ASSUME Bad # {} PROVE FALSE
    OBVIOUS
  <2>1. Bad \subseteq Nat
    OBVIOUS
  <2>2. PICK x \in Bad : \A y \in Bad : x <= y
    <3> HIDE DEF Bad
    <3> QED BY <2>1, SmallestElement
  <2>3. v[x] = Step(v, x) /\ a[x] = Step(a, x) /\ v[x] # a[x] /\ x \in 0 .. n
    <3> HIDE DEF Step
    <3> QED BY <1>4, <2>2
  <2>4. x # 0
    BY <2>3
  <2>5. x - 1 \in 0 .. n /\ ~(x <= x - 1)
    BY <2>3, <2>4
  <2>6. v[x - 1] = a[x - 1]
    BY <2>2, <2>5
  <2> QED BY <2>3, <2>4, <2>6
<1>6. Stacks!PeekN(n) = v[n]
  <2>1. ~(head = NULL \/ length < n)
    BY <1>1
  <2> QED BY <2>1, Zenon DEF Stacks!PeekN
<1>7. a[n] = f[n + 1]
  OBVIOUS
<1> HIDE DEF a, v
<1> QED BY <1>5, <1>6, <1>7

\* So the two ways to look at a stack agree.
LEMMA ChainCounted ==
  ASSUME Stacks!StackAssumption, NEW f, NEW k, Chains(f, k)
  PROVE  Stacks!Counted
<1>1. Stacks!Chain = f /\ Len(f) = k /\ length = k /\ k \in Nat
  BY ChainIs DEF Chains
<1>2. ASSUME NEW j \in 1 .. k PROVE Stacks!PeekN(j - 1) = f[j]
  <2> DEFINE n == j - 1
  <2>1. n \in 0 .. k - 1 /\ n + 1 = j
    BY <1>1
  <2> HIDE DEF n
  <2>2. Stacks!PeekN(n) = f[n + 1]
    BY <2>1, PeekIs
  <2> QED BY <2>1, <2>2 DEF n
<1> QED BY <1>1, <1>2 DEF Stacks!Counted

\* stack_push_item of an item that is not in the stack, and whose link is NULL if
\* nothing is.
LEMMA PushChains ==
  ASSUME Stacks!StackAssumption, NEW f, NEW k, Chains(f, k), NEW i \in Items,
         \A j \in 1 .. k : f[j] # i,
         NEW link \in Items \cup {NULL}, head = NULL => link = NULL,
         Stacks!PushItem(i, link), length' = length + 1, outside' = outside \ {i}
  PROVE  Chains(With(f, k, 1, i), k + 1)'
<1> DEFINE g == With(f, k, 1, i)
<1>1. /\ k \in Nat /\ f \in [1 .. k -> Items] /\ (head = NULL <=> k = 0)
      /\ \A a, c \in 1 .. k : f[a] = f[c] => a = c
      /\ next \in [Items -> Items \cup {NULL}] /\ length = k /\ outside \subseteq Items
      /\ \A j \in 1 .. k : f[j] \notin outside
      /\ head = IF k = 0 THEN NULL ELSE f[1]
      /\ \A j \in 1 .. k : next[f[j]] = IF j = k THEN NULL ELSE f[j + 1]
  BY ChainIs DEF Chains, Leads
<1>2. /\ g \in [1 .. k + 1 -> Items] /\ g[1] = i
      /\ \A j \in 2 .. k + 1 : g[j] = f[j - 1]
  BY <1>1 DEF With
<1>3. /\ head' = i
      /\ next' = [next EXCEPT ![i] = IF head = NULL THEN link ELSE head]
  BY DEF Stacks!PushItem
<1> HIDE DEF g
<1>4. \A a, c \in 1 .. k + 1 : g[a] = g[c] => a = c
  <2> SUFFICES ASSUME NEW a \in 1 .. k + 1, NEW c \in 1 .. k + 1, g[a] = g[c] PROVE a = c
    OBVIOUS
  <2>1. \A j \in 2 .. k + 1 : j - 1 \in 1 .. k /\ g[j] = f[j - 1] /\ g[j] # i
    BY <1>1, <1>2
  <2>2. CASE a = 1 \/ c = 1
    BY <1>1, <1>2, <2>1, <2>2
  <2>3. CASE a # 1 /\ c # 1
    <3>1. a \in 2 .. k + 1 /\ c \in 2 .. k + 1
      BY <1>1, <2>3
    <3>2. a - 1 = c - 1
      BY <1>1, <2>1, <3>1
    <3> QED BY <3>1, <3>2
  <2> QED BY <2>2, <2>3
<1>5. next' \in [Items -> Items \cup {NULL}]
  BY <1>1, <1>3
<1>6. ASSUME NEW j \in 1 .. k + 1
      PROVE  next'[g[j]] = IF j = k + 1 THEN NULL ELSE g[j + 1]
  <2>1. CASE j = 1
    <3>1. next'[i] = IF head = NULL THEN link ELSE head
      BY <1>1, <1>3
    <3>2. k # 0 => g[2] = f[1]
      BY <1>1, <1>2
    <3> QED BY <1>1, <1>2, <2>1, <3>1, <3>2
  <2>2. CASE j # 1
    <3>1. j - 1 \in 1 .. k /\ g[j] = f[j - 1] /\ f[j - 1] # i /\ f[j - 1] \in Items
      BY <1>1, <1>2, <2>2
    <3>2. next'[f[j - 1]] = next[f[j - 1]]
      BY <1>1, <1>3, <3>1
    <3>3. j # k + 1 => g[j + 1] = f[(j - 1) + 1]
      BY <1>1, <1>2, <2>2
    <3>4. next[f[j - 1]] = IF j - 1 = k THEN NULL ELSE f[(j - 1) + 1]
      BY <1>1, <3>1
    <3> QED BY <1>1, <3>1, <3>2, <3>3, <3>4
  <2> QED BY <2>1, <2>2
<1>7. \A j \in 1 .. k + 1 : g[j] \notin outside'
  <2> SUFFICES ASSUME NEW j \in 1 .. k + 1 PROVE g[j] \notin outside'
    OBVIOUS
  <2>1. CASE j = 1
    BY <1>2, <2>1
  <2>2. CASE j # 1
    <3>1. j - 1 \in 1 .. k /\ g[j] = f[j - 1]
      BY <1>1, <1>2, <2>2
    <3> QED BY <1>1, <3>1
  <2> QED BY <2>1, <2>2
<1>8. Leads(head', next', NULL, g, k + 1)
  BY <1>1, <1>2, <1>3, <1>6 DEF Leads
<1> QED BY <1>1, <1>2, <1>4, <1>5, <1>7, <1>8 DEF Chains, g

\* stack_enqueue_item of an item that is not in the stack and has no link.
LEMMA EnqueueChains ==
  ASSUME Stacks!StackAssumption, NEW f, NEW k, Chains(f, k), NEW i \in Items,
         \A j \in 1 .. k : f[j] # i,
         Stacks!EnqueueItem(i, NULL), length' = length + 1, outside' = outside \ {i}
  PROVE  Chains(With(f, k, k + 1, i), k + 1)'
<1> DEFINE g == With(f, k, k + 1, i)
<1>1. /\ k \in Nat /\ f \in [1 .. k -> Items] /\ (head = NULL <=> k = 0)
      /\ \A a, c \in 1 .. k : f[a] = f[c] => a = c
      /\ next \in [Items -> Items \cup {NULL}] /\ length = k /\ outside \subseteq Items
      /\ \A j \in 1 .. k : f[j] \notin outside
      /\ head = IF k = 0 THEN NULL ELSE f[1]
      /\ \A j \in 1 .. k : next[f[j]] = IF j = k THEN NULL ELSE f[j + 1]
      /\ k # 0 => Stacks!LastItem = f[k]
  BY ChainIs DEF Chains, Leads
<1>2. /\ g \in [1 .. k + 1 -> Items] /\ g[k + 1] = i
      /\ \A j \in 1 .. k : g[j] = f[j]
  BY <1>1 DEF With
<1>3. /\ head' = IF head = NULL THEN i ELSE head
      /\ next' = [j \in Items |-> IF j = i THEN NULL
                                  ELSE IF head # NULL /\ j = Stacks!LastItem THEN i ELSE next[j]]
  BY DEF Stacks!EnqueueItem
<1> HIDE DEF g
<1>4. \A a, c \in 1 .. k + 1 : g[a] = g[c] => a = c
  <2> SUFFICES ASSUME NEW a \in 1 .. k + 1, NEW c \in 1 .. k + 1, g[a] = g[c] PROVE a = c
    OBVIOUS
  <2>1. \A j \in 1 .. k : g[j] = f[j] /\ g[j] # i
    BY <1>1, <1>2
  <2>2. CASE a = k + 1 \/ c = k + 1
    BY <1>1, <1>2, <2>1, <2>2
  <2>3. CASE a # k + 1 /\ c # k + 1
    <3>1. a \in 1 .. k /\ c \in 1 .. k
      BY <1>1, <2>3
    <3> QED BY <1>1, <2>1, <3>1
  <2> QED BY <2>2, <2>3
<1>5. next' \in [Items -> Items \cup {NULL}]
  BY <1>1, <1>3
<1>6. ASSUME NEW j \in 1 .. k + 1
      PROVE  next'[g[j]] = IF j = k + 1 THEN NULL ELSE g[j + 1]
  <2>1. CASE j = k + 1
    BY <1>2, <1>3, <2>1
  <2>2. CASE j # k + 1
    <3>1. j \in 1 .. k /\ g[j] = f[j] /\ f[j] # i /\ f[j] \in Items /\ head # NULL /\ k # 0
          /\ k \in 1 .. k
      BY <1>1, <1>2, <2>2
    <3>2. next'[f[j]] = IF f[j] = f[k] THEN i ELSE next[f[j]]
      BY <1>1, <1>3, <3>1
    <3>3. CASE j = k
      BY <1>1, <1>2, <3>1, <3>2, <3>3
    <3>4. CASE j # k
      <4>1. f[j] # f[k] /\ j + 1 \in 1 .. k
        BY <1>1, <3>1, <3>4
      <4>2. next[f[j]] = f[j + 1] /\ g[j + 1] = f[j + 1]
        BY <1>1, <1>2, <3>1, <3>4, <4>1
      <4> QED BY <2>2, <3>1, <3>2, <4>1, <4>2
    <3> QED BY <3>3, <3>4
  <2> QED BY <2>1, <2>2
<1>7. \A j \in 1 .. k + 1 : g[j] \notin outside'
  <2> SUFFICES ASSUME NEW j \in 1 .. k + 1 PROVE g[j] \notin outside'
    OBVIOUS
  <2>1. CASE j = k + 1
    BY <1>2, <2>1
  <2>2. CASE j # k + 1
    <3>1. j \in 1 .. k /\ g[j] = f[j]
      BY <1>1, <1>2, <2>2
    <3> QED BY <1>1, <3>1
  <2> QED BY <2>1, <2>2
<1>8. head' = g[1]
  <2>1. CASE k = 0
    BY <1>1, <1>2, <1>3, <2>1
  <2>2. CASE k # 0
    <3>1. 1 \in 1 .. k
      BY <1>1, <2>2
    <3> QED BY <1>1, <1>2, <1>3, <2>2, <3>1
  <2> QED BY <2>1, <2>2
<1>9. Leads(head', next', NULL, g, k + 1)
  BY <1>1, <1>6, <1>8 DEF Leads
<1> QED BY <1>1, <1>2, <1>4, <1>5, <1>7, <1>9 DEF Chains, g

\* stack_pop of a stack that is not empty.
LEMMA PopChains ==
  ASSUME Stacks!StackAssumption, NEW f, NEW k, Chains(f, k), k # 0, Stacks!Pop
  PROVE  Chains(Drop(f, k, 1), k - 1)' /\ taken' = f[1]
<1> DEFINE g == Drop(f, k, 1)
<1>1. /\ k \in Nat /\ f \in [1 .. k -> Items] /\ (head = NULL <=> k = 0)
      /\ \A a, c \in 1 .. k : f[a] = f[c] => a = c
      /\ next \in [Items -> Items \cup {NULL}] /\ length = k /\ outside \subseteq Items
      /\ \A j \in 1 .. k : f[j] \notin outside
      /\ head = f[1] /\ 1 \in 1 .. k
      /\ \A j \in 1 .. k : next[f[j]] = IF j = k THEN NULL ELSE f[j + 1]
  BY ChainIs DEF Chains, Leads
<1>2. /\ k - 1 \in Nat /\ g \in [1 .. k - 1 -> Items]
      /\ \A j \in 1 .. k - 1 : g[j] = f[j + 1]
  BY <1>1 DEF Drop
<1>3. /\ taken' = f[1] /\ head' = next[f[1]] /\ length' = k - 1
      /\ outside' = outside \cup {f[1]} /\ next' = next
  BY <1>1 DEF Stacks!Pop
<1> HIDE DEF g
<1>4. \A j \in 1 .. k - 1 : j + 1 \in 1 .. k /\ g[j] = f[j + 1] /\ j + 1 # 1
  BY <1>1, <1>2
<1>5. \A a, c \in 1 .. k - 1 : g[a] = g[c] => a = c
  <2> SUFFICES ASSUME NEW a \in 1 .. k - 1, NEW c \in 1 .. k - 1, g[a] = g[c] PROVE a = c
    OBVIOUS
  <2>1. a + 1 = c + 1
    BY <1>1, <1>4
  <2> QED BY <2>1
<1>6. \A j \in 1 .. k - 1 : g[j] \notin outside'
  <2> SUFFICES ASSUME NEW j \in 1 .. k - 1 PROVE g[j] \notin outside'
    OBVIOUS
  <2>1. f[j + 1] # f[1] /\ f[j + 1] \notin outside
    BY <1>1, <1>4
  <2> QED BY <1>3, <1>4, <2>1
<1>7. Leads(head', next', NULL, g, k - 1)
  <2>1. head' = IF k - 1 = 0 THEN NULL ELSE g[1]
    <3>1. k - 1 # 0 => 1 \in 1 .. k - 1
      BY <1>1
    <3>2. head' = IF 1 = k THEN NULL ELSE f[1 + 1]
      BY <1>1, <1>3
    <3> QED BY <1>1, <1>4, <3>1, <3>2
  <2>2. ASSUME NEW j \in 1 .. k - 1 PROVE next'[g[j]] = IF j = k - 1 THEN NULL ELSE g[j + 1]
    <3>1. next[f[j + 1]] = IF j + 1 = k THEN NULL ELSE f[(j + 1) + 1]
      BY <1>1, <1>4
    <3>2. j # k - 1 => g[j + 1] = f[(j + 1) + 1]
      BY <1>1, <1>2
    <3> QED BY <1>1, <1>3, <1>4, <3>1, <3>2
  <2> QED BY <2>1, <2>2 DEF Leads
<1>8. outside' \subseteq Items /\ next' \in [Items -> Items \cup {NULL}]
  BY <1>1, <1>3
<1> QED BY <1>2, <1>3, <1>5, <1>6, <1>7, <1>8 DEF Chains, g

\* stack_dequeue of a stack of several items.
LEMMA DequeueChains ==
  ASSUME Stacks!StackAssumption, NEW f, NEW k, Chains(f, k), k # 0, k # 1, Stacks!Dequeue
  PROVE  Chains(Drop(f, k, k), k - 1)' /\ taken' = f[k]
<1> DEFINE g == Drop(f, k, k)
<1>1. /\ k \in Nat /\ f \in [1 .. k -> Items] /\ (head = NULL <=> k = 0)
      /\ \A a, c \in 1 .. k : f[a] = f[c] => a = c
      /\ next \in [Items -> Items \cup {NULL}] /\ length = k /\ outside \subseteq Items
      /\ \A j \in 1 .. k : f[j] \notin outside
      /\ head = f[1] /\ 1 \in 1 .. k /\ k \in 1 .. k /\ k - 1 \in 1 .. k /\ 1 \in 1 .. k - 1
      /\ \A j \in 1 .. k : next[f[j]] = IF j = k THEN NULL ELSE f[j + 1]
      /\ Stacks!LastItem = f[k] /\ Stacks!Chain = f /\ Len(f) = k
  BY ChainIs DEF Chains, Leads
<1>2. /\ k - 1 \in Nat /\ g \in [1 .. k - 1 -> Items]
      /\ \A j \in 1 .. k - 1 : g[j] = f[j]
  BY <1>1 DEF Drop
<1>3. /\ taken' = f[k] /\ head' = f[1] /\ length' = k - 1
      /\ outside' = outside \cup {f[k]} /\ next' = [next EXCEPT ![f[k - 1]] = NULL]
  BY <1>1 DEF Stacks!Dequeue
<1> HIDE DEF g
<1>4. \A j \in 1 .. k - 1 : j \in 1 .. k /\ g[j] = f[j] /\ j # k
  BY <1>1, <1>2
<1>5. \A a, c \in 1 .. k - 1 : g[a] = g[c] => a = c
  BY <1>1, <1>4
<1>6. \A j \in 1 .. k - 1 : g[j] \notin outside'
  <2> SUFFICES ASSUME NEW j \in 1 .. k - 1 PROVE g[j] \notin outside'
    OBVIOUS
  <2>1. f[j] # f[k] /\ f[j] \notin outside
    BY <1>1, <1>4
  <2> QED BY <1>3, <1>4, <2>1
<1>7. Leads(head', next', NULL, g, k - 1)
  <2>1. head' = IF k - 1 = 0 THEN NULL ELSE g[1]
    BY <1>1, <1>3, <1>4
  <2>2. ASSUME NEW j \in 1 .. k - 1 PROVE next'[g[j]] = IF j = k - 1 THEN NULL ELSE g[j + 1]
    <3>1. f[j] \in Items /\ f[k - 1] \in Items /\ (f[j] = f[k - 1] <=> j = k - 1)
      BY <1>1, <1>4
    <3>2. next'[f[j]] = IF j = k - 1 THEN NULL ELSE next[f[j]]
      BY <1>1, <1>3, <3>1
    <3>3. j # k - 1 => j + 1 \in 1 .. k - 1 /\ next[f[j]] = f[j + 1]
      BY <1>1, <1>4
    <3> QED BY <1>4, <3>2, <3>3
  <2> QED BY <2>1, <2>2 DEF Leads
<1>8. outside' \subseteq Items /\ next' \in [Items -> Items \cup {NULL}]
  BY <1>1, <1>3
<1> QED BY <1>2, <1>3, <1>5, <1>6, <1>7, <1>8 DEF Chains, g

\* stack_item_destroy of an item outside, and stack_destroy.
LEMMA ForgetChains ==
  ASSUME NEW f, NEW k, Chains(f, k), NEW i \in Items, Stacks!Forget(i)
  PROVE  Chains(f, k)'
<1>1. /\ k \in Nat /\ f \in [1 .. k -> Items]
      /\ \A a, c \in 1 .. k : f[a] = f[c] => a = c
      /\ next \in [Items -> Items \cup {NULL}] /\ length = k /\ outside \subseteq Items
      /\ \A j \in 1 .. k : f[j] \notin outside
      /\ Leads(head, next, NULL, f, k)
  BY DEF Chains
<1>2. /\ i \in outside /\ outside' = outside \ {i} /\ next' = [next EXCEPT ![i] = NULL]
      /\ head' = head /\ length' = length
  BY DEF Stacks!Forget
<1>3. \A j \in 1 .. k : f[j] \in Items /\ f[j] # i /\ next'[f[j]] = next[f[j]]
  BY <1>1, <1>2
<1>4. Leads(head', next', NULL, f, k)
  BY <1>1, <1>2, <1>3 DEF Leads
<1>5. next' \in [Items -> Items \cup {NULL}] /\ outside' \subseteq Items
  BY <1>1, <1>2
<1> QED BY <1>1, <1>2, <1>4, <1>5 DEF Chains

LEMMA DestroyChains ==
  ASSUME NEW f, NEW k, Chains(f, k), Stacks!Destroy
  PROVE  Chains(<<>>, 0)'
<1>1. /\ next \in [Items -> Items \cup {NULL}] /\ outside \subseteq Items
  BY DEF Chains
<1>2. /\ head' = NULL /\ length' = 0 /\ outside' = outside
      /\ next' = [i \in Items |-> IF i \in Stacks!Inside THEN NULL ELSE next[i]]
  BY DEF Stacks!Destroy
<1>3. <<>> \in [1 .. 0 -> Items]
  OBVIOUS
<1>4. Leads(head', next', NULL, <<>>, 0)
  BY <1>2 DEF Leads
<1>5. next' \in [Items -> Items \cup {NULL}]
  BY <1>1, <1>2
<1> QED BY <1>1, <1>2, <1>3, <1>4, <1>5 DEF Chains

LEMMA DropLast ==
  ASSUME NEW k \in Nat, NEW f \in [1 .. k -> Things], k # 0
  PROVE  Drop(f, k, k) = SubSeq(f, 1, k - 1)
<1>1. SubSeq(f, k + 1, k) = << >>
  BY SubSeqEmpty
<1>2. SubSeq(f, 1, k - 1) \in Seq(Things)
  BY Piece
<1>3. SubSeq(f, 1, k - 1) \o << >> = SubSeq(f, 1, k - 1)
  BY <1>2, ConcatEmptySeq
<1>4. k \in 1 .. k
  OBVIOUS
<1>5. Drop(f, k, k) = SubSeq(f, 1, k - 1) \o SubSeq(f, k + 1, k)
  BY <1>4, DropIs
<1> QED BY <1>1, <1>3, <1>5

\* What a chain tells, before a call and after it.
LEMMA Tells ==
  ASSUME Stacks!StackAssumption
  PROVE  /\ \A f, k : Chains(f, k) => Stacks!Chain = f /\ Stacks!Counted
         /\ \A f, k : Chains(f, k)' => Stacks!Chain' = f /\ Stacks!Counted'
<1>1. \A f, k : Chains(f, k) => Stacks!Chain = f /\ Stacks!Counted
  BY ChainIs, ChainCounted
<1>2. (\A f, k : Chains(f, k) => Stacks!Chain = f /\ Stacks!Counted)'
  BY <1>1, PTL
<1> QED BY <1>1, <1>2

\* A call is one of a deque.
Step ==
  /\ \E f, k : Chains(f, k)'
  /\ Stacks!D!Next \/ UNCHANGED <<Stacks!Chain, taken>>

\* An item that goes in.
LEMMA PutStep ==
  ASSUME Stacks!StackAssumption, NEW f, NEW k, Chains(f, k), NEW i \in Items,
         \A j \in 1 .. k : f[j] # i, taken' = taken,
         length' = length + 1, outside' = outside \ {i},
         \/ Stacks!EnqueueItem(i, NULL)
         \/ \E link \in Items \cup {NULL} : Stacks!PushItem(i, link) /\ (head = NULL => link = NULL)
  PROVE  Step
<1>1. k \in Nat /\ f \in [1 .. k -> Things] /\ Stacks!Chain = f /\ i \in Things
  BY ChainIs DEF Things
<1>2. With(f, k, 1, i) = <<i>> \o f /\ With(f, k, k + 1, i) = Append(f, i)
  BY <1>1, WithEnds
<1>3. ASSUME NEW g, Chains(g, k + 1)', g = <<i>> \o f \/ g = Append(f, i) PROVE Step
  <2>1. Stacks!Chain' = g
    BY <1>3, Tells
  <2>2. Stacks!D!Put
    BY <1>1, <1>3, <2>1 DEF Stacks!D!Put
  <2> QED BY <1>3, <2>2 DEF Step, Stacks!D!Next
<1>4. CASE Stacks!EnqueueItem(i, NULL)
  <2>1. Chains(With(f, k, k + 1, i), k + 1)'
    BY <1>4, EnqueueChains
  <2> QED BY <1>2, <1>3, <2>1
<1>5. ASSUME NEW link \in Items \cup {NULL}, Stacks!PushItem(i, link), head = NULL => link = NULL
      PROVE Step
  <2>1. Chains(With(f, k, 1, i), k + 1)'
    BY <1>5, PushChains
  <2> QED BY <1>2, <1>3, <2>1
<1> QED BY <1>4, <1>5

LEMMA PopStep ==
  ASSUME Stacks!StackAssumption, NEW f, NEW k, Chains(f, k), Stacks!Pop
  PROVE  Step
<1>1. k \in Nat /\ f \in [1 .. k -> Things] /\ Stacks!Chain = f /\ (head = NULL <=> k = 0)
      /\ Len(f) = k /\ f \in Seq(Things)
  BY ChainIs, Listing
<1>2. CASE k = 0
  <2>1. taken' = NULL /\ UNCHANGED <<head, length, next, outside>>
    BY <1>1, <1>2 DEF Stacks!Pop
  <2>2. Chains(f, k)'
    BY <2>1 DEF Chains
  <2>3. Stacks!Chain' = f
    BY <2>2, Tells
  <2>4. f = << >>
    BY <1>1, <1>2
  <2>5. Stacks!D!Pop
    BY <1>1, <2>1, <2>3, <2>4 DEF Stacks!D!Pop
  <2> QED BY <2>2, <2>5 DEF Step, Stacks!D!Next
<1>3. CASE k # 0
  <2>1. Chains(Drop(f, k, 1), k - 1)' /\ taken' = f[1]
    BY <1>3, PopChains
  <2>2. Stacks!Chain' = Tail(f)
    BY <1>1, <1>3, <2>1, Tells, DropFirst
  <2>3. f # << >> /\ Head(f) = f[1]
    BY <1>1, <1>3
  <2>4. Stacks!D!Pop
    BY <1>1, <2>1, <2>2, <2>3 DEF Stacks!D!Pop
  <2> QED BY <2>1, <2>4 DEF Step, Stacks!D!Next
<1> QED BY <1>2, <1>3

LEMMA DequeueStep ==
  ASSUME Stacks!StackAssumption, NEW f, NEW k, Chains(f, k), Stacks!Dequeue
  PROVE  Step
<1>1. k \in Nat /\ f \in [1 .. k -> Things] /\ Stacks!Chain = f /\ (head = NULL <=> k = 0)
      /\ Len(f) = k /\ f \in Seq(Things) /\ length = k
  BY ChainIs, Listing DEF Chains
<1>2. CASE k = 0 \/ k = 1
  <2>1. Stacks!Pop
    BY <1>1, <1>2 DEF Stacks!Dequeue
  <2> QED BY <2>1, PopStep
<1>3. CASE k # 0 /\ k # 1
  <2>1. Chains(Drop(f, k, k), k - 1)' /\ taken' = f[k]
    BY <1>3, DequeueChains
  <2>2. Stacks!Chain' = SubSeq(f, 1, k - 1)
    BY <1>1, <1>3, <2>1, Tells, DropLast
  <2>3. f # << >>
    BY <1>1, <1>3
  <2>4. Stacks!D!Dequeue
    BY <1>1, <2>1, <2>2, <2>3 DEF Stacks!D!Dequeue, Stacks!D!Last, Stacks!D!Front
  <2> QED BY <2>1, <2>4 DEF Step, Stacks!D!Next
<1> QED BY <1>2, <1>3

\* Every call that puts in no item with a link it should not have.
LEMMA NextStep ==
  ASSUME ChainInv, Stacks!Next, ~stale'
  PROVE  Step
<1>1. Stacks!StackAssumption /\ ~stale
  BY DEF ChainInv, Stacks!Next
<1>2. PICK f, k : Chains(f, k)
  BY <1>1, Zenon DEF ChainInv
<1>3. /\ Stacks!Inside = {f[j] : j \in 1 .. k} /\ Stacks!Chain = f
      /\ next \in [Items -> Items \cup {NULL}] /\ outside \subseteq Items
      /\ \A j \in 1 .. k : f[j] \notin outside
  BY <1>1, <1>2, ChainIs DEF Chains
<1>4. ASSUME NEW i \in Items, Stacks!Put(i) PROVE Step
  <2>1. /\ \A j \in 1 .. k : f[j] # i
        /\ taken' = taken /\ length' = length + 1 /\ outside' = outside \ {i}
        /\ Stacks!PushItem(i, NULL) \/ Stacks!EnqueueItem(i, NULL)
    BY <1>3, <1>4 DEF Stacks!Put
  <2>2. NULL \in Items \cup {NULL}
    OBVIOUS
  <2> QED BY <1>1, <1>2, <2>1, <2>2, PutStep
<1>5. ASSUME NEW i \in Items, Stacks!PutAgain(i) PROVE Step
  <2>1. /\ \A j \in 1 .. k : f[j] # i
        /\ taken' = taken /\ length' = length + 1 /\ outside' = outside \ {i}
    BY <1>3, <1>5 DEF Stacks!PutAgain
  <2>2. \/ Stacks!PushItem(i, next[i]) /\ ~(head = NULL /\ next[i] # NULL)
        \/ Stacks!EnqueueItem(i, next[i]) /\ next[i] = NULL
    BY <1>5 DEF Stacks!PutAgain
  <2>3. next[i] \in Items \cup {NULL}
    BY <1>3
  <2>4. \/ Stacks!EnqueueItem(i, NULL)
        \/ \E link \in Items \cup {NULL} : Stacks!PushItem(i, link) /\ (head = NULL => link = NULL)
    BY <2>2, <2>3
  <2> QED BY <1>1, <1>2, <2>1, <2>4, PutStep
<1>6. ASSUME NEW i \in Items, Stacks!Forget(i) PROVE Step
  <2>1. Chains(f, k)'
    BY <1>2, <1>6, ForgetChains
  <2>2. Stacks!Chain' = f
    BY <1>1, <2>1, Tells
  <2>3. taken' = taken
    BY <1>6 DEF Stacks!Forget
  <2> QED BY <1>3, <2>1, <2>2, <2>3 DEF Step
<1>7. CASE Stacks!Destroy
  <2>1. Chains(<<>>, 0)'
    BY <1>2, <1>7, DestroyChains
  <2>2. Stacks!Chain' = <<>>
    BY <1>1, <2>1, Tells
  <2>3. Stacks!D!Empty
    BY <1>7, <2>2 DEF Stacks!Destroy, Stacks!D!Empty
  <2> QED BY <2>1, <2>3 DEF Step, Stacks!D!Next
<1> QED BY <1>1, <1>2, <1>4, <1>5, <1>6, <1>7, PopStep, DequeueStep DEF Stacks!Next

LEMMA ChainStart ==
  ASSUME Stacks!StackAssumption, Stacks!Init
  PROVE  ChainInv /\ Stacks!D!Init
<1>1. Chains(<<>>, 0)
  BY DEF Stacks!Init, Chains, Leads
<1>2. Stacks!Chain = <<>>
  BY <1>1, Tells
<1> QED BY <1>1, <1>2, Zenon DEF Stacks!Init, Stacks!D!Init, ChainInv

\* A stack is used as a deque of whatever items: pushing, popping, enqueueing and
\* dequeueing, also of items that have been in before, do what stack.h offers,
\* unless an item goes in with a link it still has; and peeking counts along.
THEOREM ActsAsDeque == Stacks!Spec => StackIsDeque
<1>1. ChainInv /\ [Stacks!Next]_Stacks!vars => ChainInv'
  <2> SUFFICES ASSUME ChainInv, [Stacks!Next]_Stacks!vars PROVE ChainInv'
    OBVIOUS
  <2>1. Stacks!StackAssumption
    BY DEF ChainInv
  <2>2. CASE Stacks!Next
    <3>1. ~stale' => \E f, k : Chains(f, k)'
      BY <2>2, NextStep DEF Step
    <3> QED BY <2>1, <3>1, Zenon DEF ChainInv
  <2>3. CASE UNCHANGED Stacks!vars
    BY <2>3 DEF Stacks!vars, ChainInv, Chains
  <2> QED BY <2>2, <2>3
<1>2. ChainInv /\ [Stacks!Next]_Stacks!vars =>
        [stale' \/ ((Stacks!D!Next \/ UNCHANGED <<Stacks!Chain, taken>>)
                    /\ Stacks!Counted')]_Stacks!vars
  <2> SUFFICES ASSUME ChainInv, Stacks!Next, ~stale'
               PROVE  /\ Stacks!D!Next \/ UNCHANGED <<Stacks!Chain, taken>>
                      /\ Stacks!Counted'
    OBVIOUS
  <2>1. Step /\ Stacks!StackAssumption
    BY NextStep DEF ChainInv
  <2>2. PICK f, k : Chains(f, k)'
    BY <2>1 DEF Step
  <2> QED BY <2>1, <2>2, Tells DEF Step
<1>3. Stacks!Init => ChainInv /\ Stacks!D!Init
  BY ChainStart, ContainersAssumption
<1> QED BY <1>1, <1>2, <1>3, PTL DEF Stacks!Spec, StackIsDeque, Stacks!StackIsDeque

=============================================================================
