--------------------------- MODULE HashMapProofs ---------------------------
(***************************************************************************)
(* Theorems about HashMap, for any keys, hashes and thresholds: there is   *)
(* no gap between an entry and its first bucket, no key is lost, and a map *)
(* that keys are only inserted into while they are absent is a Dictionary. *)
(*                                                                         *)
(* The invariant follows the path of each entry, from its first bucket to  *)
(* its place.  Going around the table is counted, not computed modulo its  *)
(* length: Ahead.  The loops of map_probe and map_resize are functions of  *)
(* the number of steps done, and what they keep is shown for the smallest  *)
(* number for which it could fail.  Nothing in map_probe depends on what   *)
(* get_dib measures, deletion needs that it falls by one with each bucket  *)
(* up to the end of the table, and is larger and rises beyond it.          *)
(***************************************************************************)
EXTENDS HashMap, FiniteSetTheorems, WellFoundedInduction, TLAPS

-----------------------------------------------------------------------------
(* Counting *)

\* A set of natural numbers that is not empty has a smallest element.
LEMMA SmallestElement ==
  ASSUME NEW S, S \subseteq Nat, S # {}
  PROVE  \E x \in S : \A y \in S : x <= y
<1>1. PICK x \in S : \A y \in S : ~(<<y, x>> \in OpToRel(<, Nat))
  BY WFMin, NatLessThanWellFounded, Zenon
<1>2. ASSUME NEW y \in S PROVE x <= y
  <2>1. ~(y < x) BY <1>1 DEF OpToRel
  <2>. QED BY <2>1
<1>. QED BY <1>2

\* What is true before a loop, and after a step if it was before it, is true
\* throughout.
LEMMA Throughout ==
  ASSUME NEW N \in Nat, NEW G, 0 \in G,
         \A n \in 0 .. N - 1 : n \in G => n + 1 \in G
  PROVE  \A n \in 0 .. N : n \in G
<1>. DEFINE Bad == {n \in 0 .. N : n \notin G}
<1>. SUFFICES ASSUME Bad # {} PROVE FALSE OBVIOUS
<1>. Bad \subseteq Nat OBVIOUS
<1>1. PICK x \in Bad : \A y \in Bad : x <= y
  <2>. HIDE DEF Bad
  <2>. QED BY SmallestElement
<1>2. x # 0 BY <1>1
<1>3. x - 1 \in 0 .. N - 1 /\ (x - 1) + 1 = x BY <1>1, <1>2
<1>4. x - 1 \notin Bad BY <1>1, <1>3
<1>. QED BY <1>1, <1>3, <1>4

\* The states of a loop of N steps t, from b.
Runs(N, b, t, f) == f[0] = b /\ \A n \in 1 .. N : f[n] = t[n][f[n - 1]]

\* A loop of N steps has its states.
LEMMA Loop ==
  ASSUME NEW N \in Nat, NEW S, NEW b \in S, NEW t \in [1 .. N -> [S -> S]]
  PROVE  \E f \in [0 .. N -> S] : Runs(N, b, t, f)
<1>. DEFINE G == {k \in 0 .. N : \E f \in [0 .. k -> S] : Runs(k, b, t, f)}
<1>1. 0 \in G
  <2>. DEFINE g == [n \in 0 .. 0 |-> b]
  <2>1. g \in [0 .. 0 -> S] /\ Runs(0, b, t, g) BY DEF Runs
  <2>2. 0 \in 0 .. N OBVIOUS
  <2>. HIDE DEF g
  <2>. QED BY <2>1, <2>2
<1>2. ASSUME NEW k \in 0 .. N - 1, k \in G PROVE k + 1 \in G
  <2>1. PICK f \in [0 .. k -> S] : Runs(k, b, t, f) BY <1>2
  <2>. DEFINE g == [n \in 0 .. k + 1 |-> IF n = k + 1 THEN t[k + 1][f[k]] ELSE f[n]]
  <2>2. k + 1 \in 1 .. N /\ k \in 0 .. k /\ f[k] \in S BY <2>1
  <2>3. t[k + 1][f[k]] \in S BY <2>2
  <2>4. g \in [0 .. k + 1 -> S] BY <2>1, <2>3
  <2>5. g[0] = b BY <2>1 DEF Runs
  <2>6. ASSUME NEW n \in 1 .. k + 1 PROVE g[n] = t[n][g[n - 1]]
    <3>1. n - 1 \in 0 .. k + 1 /\ n - 1 # k + 1 /\ n \in 0 .. k + 1 OBVIOUS
    <3>2. g[n - 1] = f[n - 1] BY <3>1
    <3>3. CASE n = k + 1 BY <3>2, <3>3
    <3>4. CASE n # k + 1
      <4>1. n \in 1 .. k BY <3>4
      <4>. QED BY <2>1, <3>1, <3>2, <3>4, <4>1 DEF Runs
    <3>. QED BY <3>3, <3>4
  <2>7. Runs(k + 1, b, t, g)
    <3>. HIDE DEF g
    <3>. QED BY <2>5, <2>6 DEF Runs
  <2>. HIDE DEF g
  <2>. QED BY <2>2, <2>4, <2>7
<1>3. N \in G
  <2>. HIDE DEF G
  <2>1. \A k \in 0 .. N : k \in G BY <1>1, <1>2, Throughout
  <2>. QED BY <2>1
<1>. QED BY <1>3

-----------------------------------------------------------------------------
(* Going around the table *)

\* The first bucket of an entry.
Home(L, e) == e.hash % L

\* How far i is from a, upwards and around a table of length L.
Ahead(L, a, i) == IF i < a THEN (L - a) + i ELSE i - a

\* get_dib, for first bucket a: as far as Ahead up to the end of the table, and
\* from the start of it more than the length, the less the farther.
Dib(L, a, i) == IF i < a THEN (L - i) + a ELSE i - a

\* The next bucket.
After(L, i) == IF i = L - 1 THEN 0 ELSE i + 1

\* Every hash has a first bucket.
LEMMA HomeType ==
  ASSUME NEW L \in Nat \ {0}, NEW e \in Entries
  PROVE  Home(L, e) \in 0 .. L - 1
<1>1. e.hash \in Nat BY DEF Entries
<1>. QED BY <1>1 DEF Home

\* Each bucket is ahead by a number of its own, below the length.
LEMMA AheadType ==
  ASSUME NEW L \in Nat \ {0}, NEW a \in 0 .. L - 1, NEW i \in 0 .. L - 1
  PROVE  /\ Ahead(L, a, i) \in 0 .. L - 1
         /\ Ahead(L, a, i) = 0 <=> i = a
BY DEF Ahead

LEMMA AheadOnce ==
  ASSUME NEW L \in Nat \ {0}, NEW a \in 0 .. L - 1, NEW i \in 0 .. L - 1,
         NEW j \in 0 .. L - 1, Ahead(L, a, i) = Ahead(L, a, j)
  PROVE  i = j
BY DEF Ahead

\* The next bucket is one further, unless it is where the count began.
LEMMA AheadNext ==
  ASSUME NEW L \in Nat \ {0}, NEW a \in 0 .. L - 1, NEW i \in 0 .. L - 1
  PROVE  /\ After(L, i) \in 0 .. L - 1
         /\ After(L, i) # a => Ahead(L, a, After(L, i)) = Ahead(L, a, i) + 1
BY DEF Ahead, After

\* The entries a step of map_probe compares are compared in one bucket.
LEMMA DibFacts ==
  ASSUME NEW L \in Nat \ {0}, NEW a \in 0 .. L - 1, NEW i \in 0 .. L - 1
  PROVE  /\ Dib(L, a, i) \in Nat
         /\ Dib(L, a, i) = 0 <=> i = a
BY DEF Dib

\* (a + n) % L is n ahead of a.
LEMMA AroundAhead ==
  ASSUME NEW L \in Nat \ {0}, NEW a \in 0 .. L - 1, NEW n \in 0 .. L - 1
  PROVE  /\ (a + n) % L \in 0 .. L - 1
         /\ Ahead(L, a, (a + n) % L) = n
         /\ (a + n) % L = IF a + n < L THEN a + n ELSE a + n - L
<1>1. CASE a + n < L
  <2>1. (a + n) % L = a + n BY <1>1
  <2>. QED BY <1>1, <2>1 DEF Ahead
<1>2. CASE ~(a + n < L)
  <2>. DEFINE x == a + n - L
  <2>1. x \in 0 .. L - 1 /\ a + n = x + L BY <1>2
  <2>2. (x + L) % L = x
    <3>. HIDE DEF x
    <3>. QED BY <2>1
  <2>3. (a + n) % L = x BY <2>1, <2>2
  <2>. QED BY <1>2, <2>1, <2>3 DEF Ahead
<1>. QED BY <1>1, <1>2

-----------------------------------------------------------------------------
(* What the table keeps *)

Slots(L) == [0 .. L - 1 -> Entries \cup {NULL}]

Filled(s) == {i \in DOMAIN s : s[i] # NULL}

Stored(s) == {s[i] : i \in Filled(s)}

Names(s) == {e.key : e \in Stored(s)}

\* The slots with entry e in bucket q.
Put(s, q, e) == [s EXCEPT ![q] = e]

\* A table with other slots.
With(m, s, count) == [m EXCEPT !.slots = s, !.count = count]

\* i is on the way of e to bucket p.
OnWay(L, e, i, p) == Ahead(L, Home(L, e), i) < Ahead(L, Home(L, e), p)

\* e could be in bucket p: the buckets on its way are taken and, in a map that
\* entries are deleted from, by entries that map_probe would not displace.
Reaches(L, s, ordered, e, p) ==
  \A i \in 0 .. L - 1 : OnWay(L, e, i, p) =>
    /\ s[i] # NULL
    /\ ordered => Dib(L, Home(L, e), i) <= Dib(L, Home(L, s[i]), i)

Sound(L, s, ordered) ==
  \A j \in 0 .. L - 1 : s[j] # NULL => Reaches(L, s, ordered, s[j], j)

\* There is a bucket that no entry comes to or past but from there.
Uncrossed(L, s) ==
  \E p \in 0 .. L - 1 : \A j \in 0 .. L - 1 :
    s[j] # NULL /\ Ahead(L, Home(L, s[j]), p) <= Ahead(L, Home(L, s[j]), j)
      => p = Home(L, s[j])

OneEach(s) == \A i, j \in Filled(s) : s[i].key = s[j].key => i = j

Table(m) ==
  /\ m \in [length : Nat, count : Nat, slots : UNION {Slots(L) : L \in Nat},
            locked : BOOLEAN]
  /\ m.length >= MinLength
  /\ m.slots \in Slots(m.length)
  /\ m.count = Cardinality(Filled(m.slots))

\* Strings may be there twice, and their order is lost when one is overwritten
\* with another hash.
Good(m, ordered) ==
  /\ Table(m)
  /\ Sound(m.length, m.slots, ordered)
  /\ ordered => OneEach(m.slots) /\ Uncrossed(m.length, m.slots)

-----------------------------------------------------------------------------
(* map_probe: one step *)

\* An entry in a bucket has a first bucket.
LEMMA InSlot ==
  ASSUME NEW L \in Nat \ {0}, NEW s \in Slots(L), NEW j \in 0 .. L - 1, s[j] # NULL
  PROVE  s[j] \in Entries /\ Home(L, s[j]) \in 0 .. L - 1
<1>1. s[j] \in Entries BY DEF Slots
<1>. QED BY <1>1, HomeType

\* An entry reaches its first bucket.
LEMMA ReachesHome ==
  ASSUME NEW L \in Nat \ {0}, NEW s \in Slots(L), NEW ordered, NEW e \in Entries
  PROVE  Reaches(L, s, ordered, e, Home(L, e))
<1>1. Home(L, e) \in 0 .. L - 1 BY HomeType
<1>2. ASSUME NEW i \in 0 .. L - 1 PROVE ~OnWay(L, e, i, Home(L, e))
  <2>1. Ahead(L, Home(L, e), Home(L, e)) = 0 BY <1>1, AheadType
  <2>2. Ahead(L, Home(L, e), i) \in 0 .. L - 1 BY <1>1, AheadType
  <2>. QED BY <2>1, <2>2 DEF OnWay
<1>. QED BY <1>2 DEF Reaches

\* What reaches a bucket, which is taken by an entry that stays or has just been
\* put there, reaches the next one.
LEMMA ReachesNext ==
  ASSUME NEW L \in Nat \ {0}, NEW s \in Slots(L), NEW ordered, NEW e \in Entries,
         NEW q \in 0 .. L - 1, Reaches(L, s, ordered, e, q),
         s[q] # NULL, Dib(L, Home(L, e), q) <= Dib(L, Home(L, s[q]), q)
  PROVE  Reaches(L, s, ordered, e, After(L, q))
<1>. DEFINE h == Home(L, e)
<1>1. h \in 0 .. L - 1 BY HomeType
<1>. HIDE DEF h
<1>2. ASSUME NEW i \in 0 .. L - 1, OnWay(L, e, i, After(L, q)), i # q
      PROVE  OnWay(L, e, i, q)
  <2>1. Ahead(L, h, i) < Ahead(L, h, After(L, q)) BY <1>2 DEF OnWay, h
  <2>2. Ahead(L, h, i) \in 0 .. L - 1 /\ Ahead(L, h, q) \in 0 .. L - 1
    BY <1>1, AheadType
  <2>3. Ahead(L, h, i) # Ahead(L, h, q) BY <1>1, <1>2, AheadOnce
  <2>4. After(L, q) # h
    <3>1. Ahead(L, h, h) = 0 BY <1>1, AheadType
    <3>. QED BY <2>1, <2>2, <3>1
  <2>5. Ahead(L, h, After(L, q)) = Ahead(L, h, q) + 1 BY <1>1, <2>4, AheadNext
  <2>6. Ahead(L, h, i) < Ahead(L, h, q) BY <2>1, <2>2, <2>3, <2>5
  <2>. QED BY <2>6 DEF OnWay, h
<1>. QED BY <1>2 DEF Reaches

\* The bucket of an entry, and those on its way, are not changed by an entry
\* that is put elsewhere.
LEMMA PutTypes ==
  ASSUME NEW L \in Nat \ {0}, NEW s \in Slots(L), NEW h \in Entries, NEW q \in 0 .. L - 1
  PROVE  /\ Put(s, q, h) \in Slots(L)
         /\ Put(s, q, h)[q] = h
         /\ \A i \in 0 .. L - 1 : i # q => Put(s, q, h)[i] = s[i]
         /\ h # NULL
<1>1. h # NULL BY HashMapAssumption
<1>. QED BY <1>1 DEF Slots, Put

\* Putting the entry in hand into a bucket it reaches: nothing is on the way of
\* another but what was there, or an entry that is put before a richer one.
LEMMA PutSound ==
  ASSUME NEW L \in Nat \ {0}, NEW s \in Slots(L), NEW ordered \in BOOLEAN,
         NEW h \in Entries, NEW q \in 0 .. L - 1,
         Sound(L, s, ordered), Reaches(L, s, ordered, h, q),
         s[q] # NULL => Dib(L, Home(L, s[q]), q) < Dib(L, Home(L, h), q)
  PROVE  /\ Sound(L, Put(s, q, h), ordered)
         /\ s[q] # NULL => Reaches(L, Put(s, q, h), ordered, s[q], q)
<1>. DEFINE t == Put(s, q, h)
<1>1. t \in Slots(L) /\ t[q] = h /\ h # NULL /\ \A i \in 0 .. L - 1 : i # q => t[i] = s[i]
  BY PutTypes
<1>. HIDE DEF t
<1>2. Home(L, h) \in 0 .. L - 1 BY HomeType
<1>3. ASSUME NEW e \in Entries, NEW p \in 0 .. L - 1, Reaches(L, s, ordered, e, p)
      PROVE  Reaches(L, t, ordered, e, p)
  <2>1. Home(L, e) \in 0 .. L - 1 BY HomeType
  <2>2. ASSUME NEW i \in 0 .. L - 1, OnWay(L, e, i, p)
        PROVE  t[i] # NULL /\ (ordered => Dib(L, Home(L, e), i) <= Dib(L, Home(L, t[i]), i))
    <3>1. s[i] # NULL /\ (ordered => Dib(L, Home(L, e), i) <= Dib(L, Home(L, s[i]), i))
      BY <1>3, <2>2 DEF Reaches
    <3>2. CASE i # q BY <1>1, <3>1, <3>2
    <3>3. CASE i = q
      <4>1. Home(L, s[q]) \in 0 .. L - 1 BY <3>1, <3>3, InSlot
      <4>2. /\ Dib(L, Home(L, e), q) \in Nat
            /\ Dib(L, Home(L, s[q]), q) \in Nat
            /\ Dib(L, Home(L, h), q) \in Nat
        BY <1>2, <2>1, <4>1, DibFacts
      <4>3. Dib(L, Home(L, s[q]), q) < Dib(L, Home(L, h), q) BY <3>1, <3>3
      <4>. QED BY <1>1, <3>1, <3>3, <4>2, <4>3
    <3>. QED BY <3>2, <3>3
  <2>. QED BY <2>2 DEF Reaches
<1>4. ASSUME NEW j \in 0 .. L - 1, t[j] # NULL PROVE Reaches(L, t, ordered, t[j], j)
  <2>1. CASE j = q BY <1>1, <1>3, <2>1
  <2>2. CASE j # q
    <3>1. t[j] = s[j] BY <1>1, <2>2
    <3>2. s[j] \in Entries BY <1>4, <3>1, InSlot
    <3>3. Reaches(L, s, ordered, s[j], j) BY <1>4, <3>1 DEF Sound
    <3>. QED BY <1>3, <3>1, <3>2, <3>3
  <2>. QED BY <2>1, <2>2
<1>5. ASSUME s[q] # NULL PROVE Reaches(L, t, ordered, s[q], q)
  <2>1. s[q] \in Entries BY <1>5, InSlot
  <2>2. Reaches(L, s, ordered, s[q], q) BY <1>5 DEF Sound
  <2>. QED BY <1>3, <2>1, <2>2
<1>. QED BY <1>4, <1>5 DEF Sound, t

\* Where a bucket is empty, no way crosses it to the next one.
LEMMA EmptyUncrossed ==
  ASSUME NEW L \in Nat \ {0}, NEW s \in Slots(L), NEW ordered, NEW q \in 0 .. L - 1,
         \A j \in 0 .. L - 1 : s[j] # NULL => ~OnWay(L, s[j], q, j)
  PROVE  Uncrossed(L, s)
<1>. DEFINE p == After(L, q)
<1>1. p \in 0 .. L - 1 BY AheadNext
<1>2. ASSUME NEW j \in 0 .. L - 1, s[j] # NULL,
             Ahead(L, Home(L, s[j]), p) <= Ahead(L, Home(L, s[j]), j), p # Home(L, s[j])
      PROVE  FALSE
  <2>. DEFINE a == Home(L, s[j])
  <2>1. a \in 0 .. L - 1 BY <1>2, InSlot
  <2>2. Ahead(L, a, p) = Ahead(L, a, q) + 1 BY <1>2, <2>1, AheadNext
  <2>3. Ahead(L, a, q) \in 0 .. L - 1 /\ Ahead(L, a, j) \in 0 .. L - 1
    BY <2>1, AheadType
  <2>4. Ahead(L, a, q) < Ahead(L, a, j) BY <1>2, <2>2, <2>3
  <2>5. OnWay(L, s[j], q, j) BY <2>4 DEF OnWay
  <2>. QED BY <1>2, <2>5
<1>. QED BY <1>1, <1>2 DEF Uncrossed

\* What the table has after an entry is put into an empty bucket.
LEMMA PutEmpty ==
  ASSUME NEW L \in Nat \ {0}, NEW s \in Slots(L), NEW h \in Entries,
         NEW q \in 0 .. L - 1, s[q] = NULL
  PROVE  /\ Filled(Put(s, q, h)) = Filled(s) \cup {q}
         /\ Stored(Put(s, q, h)) = Stored(s) \cup {h}
         /\ OneEach(s) /\ h.key \notin Names(s) => OneEach(Put(s, q, h))
<1>. DEFINE t == Put(s, q, h)
<1>1. t \in Slots(L) /\ t[q] = h /\ h # NULL /\ \A i \in 0 .. L - 1 : i # q => t[i] = s[i]
  BY PutTypes
<1>. HIDE DEF t
<1>2. DOMAIN s = 0 .. L - 1 /\ DOMAIN t = 0 .. L - 1 BY <1>1 DEF Slots
<1>3. Filled(t) = Filled(s) \cup {q} BY <1>1, <1>2 DEF Filled
<1>4. q \notin Filled(s) BY DEF Filled
<1>5. \A i \in Filled(s) : i # q /\ t[i] = s[i] BY <1>1, <1>2, <1>4 DEF Filled
<1>6. Stored(t) = Stored(s) \cup {h}
  <2>1. Stored(t) \subseteq Stored(s) \cup {h} BY <1>1, <1>3, <1>5 DEF Stored
  <2>2. Stored(s) \subseteq Stored(t) BY <1>3, <1>5, Zenon DEF Stored
  <2>3. h \in Stored(t) BY <1>1, <1>3 DEF Stored
  <2>. QED BY <2>1, <2>2, <2>3
<1>7. ASSUME OneEach(s), h.key \notin Names(s) PROVE OneEach(t)
  <2>1. \A i \in Filled(s) : s[i].key # h.key BY <1>7 DEF Names, Stored
  <2>2. ASSUME NEW i \in Filled(t), NEW j \in Filled(t), t[i].key = t[j].key PROVE i = j
    <3>1. CASE i = q /\ j = q BY <3>1
    <3>2. CASE i = q /\ j # q BY <1>1, <1>3, <1>5, <2>1, <2>2, <3>2
    <3>3. CASE i # q /\ j = q BY <1>1, <1>3, <1>5, <2>1, <2>2, <3>3
    <3>4. CASE i # q /\ j # q BY <1>3, <1>5, <1>7, <2>2, <3>4 DEF OneEach
    <3>. QED BY <3>1, <3>2, <3>3, <3>4
  <2>. QED BY <2>2 DEF OneEach
<1>. QED BY <1>3, <1>6, <1>7 DEF t

\* What it has after an entry is put where another was: nothing is lost as long
\* as the other is kept in hand.
LEMMA PutTaken ==
  ASSUME NEW L \in Nat \ {0}, NEW s \in Slots(L), NEW h \in Entries,
         NEW q \in 0 .. L - 1, s[q] # NULL
  PROVE  /\ Filled(Put(s, q, h)) = Filled(s)
         /\ Stored(Put(s, q, h)) \cup {s[q]} = Stored(s) \cup {h}
         /\ OneEach(s) /\ h.key \notin Names(s) =>
              /\ OneEach(Put(s, q, h))
              /\ s[q].key \notin Names(Put(s, q, h))
<1>. DEFINE t == Put(s, q, h)
<1>1. t \in Slots(L) /\ t[q] = h /\ h # NULL /\ \A i \in 0 .. L - 1 : i # q => t[i] = s[i]
  BY PutTypes
<1>. HIDE DEF t
<1>2. DOMAIN s = 0 .. L - 1 /\ DOMAIN t = 0 .. L - 1 BY <1>1 DEF Slots
<1>3. Filled(t) = Filled(s) BY <1>1, <1>2 DEF Filled
<1>4. q \in Filled(s) BY <1>2 DEF Filled
<1>5. \A i \in Filled(s) : i # q => t[i] = s[i] BY <1>1, <1>2 DEF Filled
<1>6. Stored(t) \cup {s[q]} = Stored(s) \cup {h}
  <2>1. Stored(t) \subseteq Stored(s) \cup {h} BY <1>1, <1>3, <1>5 DEF Stored
  <2>2. Stored(s) \subseteq Stored(t) \cup {s[q]} BY <1>3, <1>5 DEF Stored
  <2>3. h \in Stored(t) BY <1>1, <1>3, <1>4 DEF Stored
  <2>4. s[q] \in Stored(s) BY <1>4 DEF Stored
  <2>. QED BY <2>1, <2>2, <2>3, <2>4
<1>7. ASSUME OneEach(s), h.key \notin Names(s)
      PROVE  OneEach(t) /\ s[q].key \notin Names(t)
  <2>1. \A i \in Filled(s) : s[i].key # h.key BY <1>7 DEF Names, Stored
  <2>2. ASSUME NEW i \in Filled(t), NEW j \in Filled(t), t[i].key = t[j].key PROVE i = j
    <3>1. CASE i = q /\ j = q BY <3>1
    <3>2. CASE i = q /\ j # q BY <1>1, <1>3, <1>5, <2>1, <2>2, <3>2
    <3>3. CASE i # q /\ j = q BY <1>1, <1>3, <1>5, <2>1, <2>2, <3>3
    <3>4. CASE i # q /\ j # q BY <1>3, <1>5, <1>7, <2>2, <3>4 DEF OneEach
    <3>. QED BY <3>1, <3>2, <3>3, <3>4
  <2>3. ASSUME NEW i \in Filled(t), t[i].key = s[q].key PROVE FALSE
    <3>1. CASE i = q BY <1>1, <1>4, <2>1, <2>3, <3>1
    <3>2. CASE i # q BY <1>3, <1>4, <1>5, <1>7, <2>3, <3>2 DEF OneEach
    <3>. QED BY <3>1, <3>2
  <2>4. s[q].key \notin Names(t) BY <2>3 DEF Names, Stored
  <2>. QED BY <2>2, <2>4 DEF OneEach
<1>. QED BY <1>3, <1>6, <1>7 DEF t

-----------------------------------------------------------------------------
(* map_probe: the loop *)

\* After n steps for entry e, from slots s: either the loop has put down what it
\* had in hand, in a bucket that was empty, or all it has come past are taken and
\* the entry in hand reaches the next bucket.
Probed(L, s, e, ordered, n, probe) ==
  /\ probe \in [slots : Slots(L), hand : Entries \cup {NULL}]
  /\ Sound(L, probe.slots, ordered)
  /\ ordered => OneEach(probe.slots)
  /\ IF probe.hand = NULL
     THEN /\ \E q \in 0 .. L - 1 : s[q] = NULL /\ Filled(probe.slots) = Filled(s) \cup {q}
          /\ Stored(probe.slots) = Stored(s) \cup {e}
          /\ Uncrossed(L, probe.slots)
     ELSE /\ Filled(probe.slots) = Filled(s)
          /\ Stored(probe.slots) \cup {probe.hand} = Stored(s) \cup {e}
          /\ \A i \in 0 .. L - 1 : Ahead(L, Home(L, e), i) < n => s[i] # NULL
          /\ n < L => Reaches(L, probe.slots, ordered, probe.hand, (Home(L, e) + n) % L)
          /\ ordered => probe.hand.key \notin Names(probe.slots)

\* Where an entry is put down in an empty bucket, no other comes past it.
LEMMA PutUncrossed ==
  ASSUME NEW L \in Nat \ {0}, NEW s \in Slots(L), NEW ordered, NEW h \in Entries,
         NEW q \in 0 .. L - 1, s[q] = NULL, Sound(L, s, ordered)
  PROVE  Uncrossed(L, Put(s, q, h))
<1>. DEFINE t == Put(s, q, h)
<1>1. t \in Slots(L) /\ t[q] = h /\ \A i \in 0 .. L - 1 : i # q => t[i] = s[i]
  BY PutTypes
<1>. HIDE DEF t
<1>2. ASSUME NEW j \in 0 .. L - 1, t[j] # NULL PROVE ~OnWay(L, t[j], q, j)
  <2>1. CASE j = q
    <3>1. Home(L, t[j]) \in 0 .. L - 1 BY <1>1, <1>2, InSlot
    <3>2. Ahead(L, Home(L, t[j]), q) \in 0 .. L - 1 BY <3>1, AheadType
    <3>. QED BY <2>1, <3>2 DEF OnWay
  <2>2. CASE j # q BY <1>1, <1>2, <2>2 DEF Sound, Reaches
  <2>. QED BY <2>1, <2>2
<1>. QED BY <1>1, <1>2, EmptyUncrossed DEF t

\* The buckets of Around follow each other.
LEMMA AroundNext ==
  ASSUME NEW L \in Nat \ {0}, NEW a \in 0 .. L - 1, NEW n \in 0 .. L - 1, n + 1 < L
  PROVE  After(L, (a + n) % L) = (a + (n + 1)) % L
<1>1. n + 1 \in 0 .. L - 1 OBVIOUS
<1>2. (a + n) % L = IF a + n < L THEN a + n ELSE a + n - L BY AroundAhead
<1>3. (a + (n + 1)) % L = IF a + (n + 1) < L THEN a + (n + 1) ELSE a + (n + 1) - L
  BY <1>1, AroundAhead
<1>. QED BY <1>2, <1>3 DEF After

\* A step of the loop, in the bucket it has come to.
LEMMA ProbeStepKeeps ==
  ASSUME NEW m, NEW L \in Nat \ {0}, m.length = L, NEW s \in Slots(L),
         NEW ordered \in BOOLEAN, NEW e \in Entries, NEW n \in 0 .. L - 1, NEW probe,
         Probed(L, s, e, ordered, n, probe)
  PROVE  Probed(L, s, e, ordered, n + 1, ProbeStep(m, probe, (Home(L, e) + n) % L))
<1>. DEFINE a == Home(L, e)
            q == (a + n) % L
            h == probe.hand
            u == probe.slots
            next == ProbeStep(m, probe, q)
<1>1. a \in 0 .. L - 1 BY HomeType
<1>. HIDE DEF a
<1>2. q \in 0 .. L - 1 /\ Ahead(L, a, q) = n
  <2>1. (a + n) % L \in 0 .. L - 1 BY <1>1, AroundAhead
  <2>2. Ahead(L, a, (a + n) % L) = n BY <1>1, AroundAhead
  <2>. QED BY <2>1, <2>2
<1>3. n + 1 < L => After(L, q) = (a + (n + 1)) % L BY <1>1, AroundNext
<1>. HIDE DEF q
<1>4. /\ u \in Slots(L) /\ Sound(L, u, ordered) /\ (ordered => OneEach(u))
      /\ h = NULL \/ h \in Entries
      /\ probe = [slots |-> u, hand |-> h]
  BY DEF Probed
<1>5. CASE h = NULL
  <2>1. next = probe BY <1>5 DEF ProbeStep
  <2>2. Probed(L, s, e, ordered, n + 1, probe) BY <1>5 DEF Probed
  <2>. QED BY <2>1, <2>2 DEF q, a
<1>6. ASSUME h # NULL PROVE Probed(L, s, e, ordered, n + 1, next)
  <2>1. /\ h \in Entries
        /\ Filled(u) = Filled(s)
        /\ Stored(u) \cup {h} = Stored(s) \cup {e}
        /\ \A i \in 0 .. L - 1 : Ahead(L, a, i) < n => s[i] # NULL
        /\ Reaches(L, u, ordered, h, q)
        /\ ordered => h.key \notin Names(u)
    BY <1>4, <1>6 DEF Probed, a, q
  <2>2. s[q] = NULL <=> u[q] = NULL BY <1>2, <1>4, <2>1 DEF Filled, Slots
  <2>3. Put(u, q, h) \in Slots(L) BY <1>2, <1>4, <2>1, PutTypes
  <2>4. CASE u[q] = NULL
    <3>1. next = [slots |-> Put(u, q, h), hand |-> NULL]
      BY <1>6, <2>4 DEF ProbeStep, Put
    <3>2. Sound(L, Put(u, q, h), ordered) BY <1>2, <1>4, <2>1, <2>4, PutSound
    <3>3. Uncrossed(L, Put(u, q, h)) BY <1>2, <1>4, <2>1, <2>4, PutUncrossed
    <3>4. /\ Filled(Put(u, q, h)) = Filled(u) \cup {q}
          /\ Stored(Put(u, q, h)) = Stored(u) \cup {h}
          /\ OneEach(u) /\ h.key \notin Names(u) => OneEach(Put(u, q, h))
      BY <1>2, <1>4, <2>1, <2>4, PutEmpty
    <3>. DEFINE t == Put(u, q, h)
    <3>. HIDE DEF t, next
    <3>5. /\ next \in [slots : Slots(L), hand : Entries \cup {NULL}]
          /\ next.slots = t /\ next.hand = NULL
      BY <2>3, <3>1 DEF t
    <3>6. Sound(L, t, ordered) /\ Uncrossed(L, t) BY <3>2, <3>3 DEF t
    <3>7. /\ ordered => OneEach(t)
          /\ Filled(t) = Filled(s) \cup {q}
          /\ Stored(t) = Stored(s) \cup {e}
      BY <1>4, <2>1, <3>4 DEF t
    <3>. QED BY <1>2, <2>2, <2>4, <3>5, <3>6, <3>7 DEF Probed
  <2>5. ASSUME u[q] # NULL PROVE Probed(L, s, e, ordered, n + 1, next)
    <3>1. u[q] \in Entries /\ Home(L, u[q]) \in 0 .. L - 1 BY <1>2, <1>4, <2>5, InSlot
    <3>2. Home(L, h) \in 0 .. L - 1 BY <2>1, HomeType
    <3>3. Dib(L, Home(L, u[q]), q) \in Nat /\ Dib(L, Home(L, h), q) \in Nat
      BY <1>2, <3>1, <3>2, DibFacts
    <3>4. \A i \in 0 .. L - 1 : Ahead(L, a, i) < n + 1 => s[i] # NULL
      <4>1. ASSUME NEW i \in 0 .. L - 1, Ahead(L, a, i) < n + 1, ~(Ahead(L, a, i) < n)
            PROVE  i = q
        <5>1. Ahead(L, a, i) \in 0 .. L - 1 BY <1>1, AheadType
        <5>2. Ahead(L, a, i) = n BY <4>1, <5>1
        <5>. QED BY <1>1, <1>2, <5>2, AheadOnce
      <4>. QED BY <2>1, <2>2, <2>5, <4>1
    <3>5. /\ GetDib(m, u[q], q) = Dib(L, Home(L, u[q]), q)
          /\ GetDib(m, h, q) = Dib(L, Home(L, h), q)
      BY DEF GetDib, Initial, Dib, Home
    <3>6. CASE Dib(L, Home(L, u[q]), q) < Dib(L, Home(L, h), q)
      <4>. DEFINE t == Put(u, q, h)
      <4>1. next = [slots |-> t, hand |-> u[q]]
        BY <1>6, <2>5, <3>5, <3>6 DEF ProbeStep, Put
      <4>2. Sound(L, t, ordered) /\ Reaches(L, t, ordered, u[q], q)
        BY <1>2, <1>4, <2>1, <2>5, <3>6, PutSound
      <4>3. /\ Filled(t) = Filled(u)
            /\ Stored(t) \cup {u[q]} = Stored(u) \cup {h}
            /\ OneEach(u) /\ h.key \notin Names(u) => OneEach(t) /\ u[q].key \notin Names(t)
        BY <1>2, <1>4, <2>1, <2>5, PutTaken
      <4>4. t[q] = h /\ t \in Slots(L) BY <1>2, <1>4, <2>1, PutTypes
      <4>. HIDE DEF t, next
      <4>5. Reaches(L, t, ordered, u[q], After(L, q))
        BY <1>2, <1>6, <3>1, <3>3, <3>6, <4>2, <4>4, ReachesNext
      <4>6. /\ next \in [slots : Slots(L), hand : Entries \cup {NULL}]
            /\ next.slots = t /\ next.hand = u[q]
        BY <3>1, <4>1, <4>4
      <4>7. n + 1 < L => Reaches(L, t, ordered, u[q], (a + (n + 1)) % L)
        BY <1>3, <4>5
      <4>8. ordered => OneEach(t) /\ u[q].key \notin Names(t) BY <1>4, <2>1, <4>3
      <4>9. Filled(t) = Filled(s) /\ Stored(t) \cup {u[q]} = Stored(s) \cup {e}
        BY <2>1, <4>3
      <4>. QED BY <2>5, <3>4, <4>2, <4>6, <4>7, <4>8, <4>9 DEF Probed, a
    <3>7. CASE ~(Dib(L, Home(L, u[q]), q) < Dib(L, Home(L, h), q))
      <4>1. next = probe BY <1>6, <2>5, <3>5, <3>7 DEF ProbeStep
      <4>2. Reaches(L, u, ordered, h, After(L, q))
        BY <1>2, <1>4, <2>1, <2>5, <3>3, <3>7, ReachesNext
      <4>3. n + 1 < L => Reaches(L, u, ordered, h, (a + (n + 1)) % L) BY <1>3, <4>2
      <4>. HIDE DEF next
      <4>. QED BY <1>4, <1>6, <2>1, <3>4, <4>1, <4>3 DEF Probed, a
    <3>. QED BY <3>6, <3>7
  <2>. QED BY <2>4, <2>5
<1>. QED BY <1>5, <1>6 DEF q, a

\* The function of the steps satisfies its recursion.
LEMMA ProbeStepsAre ==
  ASSUME NEW m, NEW L \in Nat \ {0}, m.length = L, m.slots \in Slots(L), NEW e \in Entries
  PROVE  /\ ProbeSteps(m, e)[0] = [slots |-> m.slots, hand |-> e]
         /\ \A n \in 0 .. L - 1 : ProbeSteps(m, e)[n + 1]
              = ProbeStep(m, ProbeSteps(m, e)[n], (Home(L, e) + n) % L)
<1>. DEFINE S == [slots : Slots(L), hand : Entries \cup {NULL}]
            b == [slots |-> m.slots, hand |-> e]
            around == Around(m, e.hash)
            t == [n \in 1 .. L |-> [p \in S |-> ProbeStep(m, p, around[n])]]
<1>1. Home(L, e) \in 0 .. L - 1 BY HomeType
<1>2. ASSUME NEW n \in 0 .. L - 1
      PROVE  around[n + 1] = (Home(L, e) + n) % L /\ around[n + 1] \in 0 .. L - 1
  <2>1. around[n + 1] = (Home(L, e) + (n + 1) - 1) % L BY DEF Around, Initial, Home
  <2>2. Home(L, e) + (n + 1) - 1 = Home(L, e) + n BY <1>1
  <2>. HIDE DEF around
  <2>3. around[n + 1] = (Home(L, e) + n) % L BY <2>1, <2>2
  <2>4. (Home(L, e) + n) % L \in 0 .. L - 1 BY <1>1, AroundAhead
  <2>. QED BY <2>3, <2>4
<1>. HIDE DEF around
<1>3. ASSUME NEW n \in 1 .. L, NEW p \in S PROVE ProbeStep(m, p, around[n]) \in S
  <2>. DEFINE q == around[n]
  <2>1. n - 1 \in 0 .. L - 1 /\ (n - 1) + 1 = n OBVIOUS
  <2>2. q \in 0 .. L - 1 BY <1>2, <2>1
  <2>. HIDE DEF q
  <2>3. CASE p.hand = NULL BY <2>3 DEF ProbeStep, q
  <2>4. CASE p.hand # NULL
    <3>1. p.hand \in Entries BY <2>4
    <3>2. Put(p.slots, q, p.hand) \in Slots(L) BY <2>2, <3>1, PutTypes
    <3>3. CASE p.slots[q] = NULL
      <4>1. ProbeStep(m, p, q) = [slots |-> Put(p.slots, q, p.hand), hand |-> NULL]
        BY <2>4, <3>3 DEF ProbeStep, Put
      <4>. QED BY <3>2, <4>1 DEF q
    <3>4. CASE p.slots[q] # NULL
      <4>1. p.slots[q] \in Entries BY <2>2, <3>4, InSlot
      <4>2. \/ ProbeStep(m, p, q) = p
            \/ ProbeStep(m, p, q)
                 = [slots |-> Put(p.slots, q, p.hand), hand |-> p.slots[q]]
        BY <2>4, <3>4, Zenon DEF ProbeStep, Put
      <4>. QED BY <3>2, <4>1, <4>2 DEF q
    <3>. QED BY <3>3, <3>4
  <2>. QED BY <2>3, <2>4
<1>4. b \in S BY DEF S
<1>5. t \in [1 .. L -> [S -> S]]
  <2>. HIDE DEF S
  <2>. QED BY <1>3
<1>6. \A n \in 1 .. L : \A p \in S : t[n][p] = ProbeStep(m, p, around[n])
  <2>. HIDE DEF S
  <2>. QED OBVIOUS
<1>. HIDE DEF S, t, b
<1>7. PICK g \in [0 .. L -> S] : Runs(L, b, t, g) BY <1>4, <1>5, Loop
<1>8. g = [n \in 0 .. L |-> IF n = 0 THEN b ELSE ProbeStep(m, g[n - 1], around[n])]
  <2>1. ASSUME NEW n \in 0 .. L, n # 0 PROVE g[n] = ProbeStep(m, g[n - 1], around[n])
    <3>1. n \in 1 .. L /\ n - 1 \in 0 .. L BY <2>1
    <3>2. g[n - 1] \in S BY <1>7, <3>1
    <3>. QED BY <1>6, <1>7, <3>1, <3>2 DEF Runs
  <2>2. \A n \in 0 .. L :
          g[n] = (IF n = 0 THEN b ELSE ProbeStep(m, g[n - 1], around[n]))
    BY <1>7, <2>1, Zenon DEF Runs
  <2>. QED BY <1>7, <2>2
<1>. DEFINE f == ProbeSteps(m, e)
<1>9. f = [n \in 0 .. L |-> IF n = 0 THEN b ELSE ProbeStep(m, f[n - 1], around[n])]
  <2>1. g = [n \in 0 .. m.length |->
               IF n = 0 THEN [slots |-> m.slots, hand |-> e]
               ELSE ProbeStep(m, g[n - 1], Around(m, e.hash)[n])]
    BY <1>8 DEF b, around
  <2>2. f = [n \in 0 .. m.length |->
               IF n = 0 THEN [slots |-> m.slots, hand |-> e]
               ELSE ProbeStep(m, f[n - 1], Around(m, e.hash)[n])]
    BY <2>1, Zenon DEF ProbeSteps
  <2>. HIDE DEF f
  <2>. QED BY <2>2 DEF b, around
<1>. HIDE DEF f
<1>10. f[0] = b BY <1>9
<1>11. ASSUME NEW n \in 0 .. L - 1
       PROVE  f[n + 1] = ProbeStep(m, f[n], (Home(L, e) + n) % L)
  <2>1. n + 1 \in 0 .. L /\ n + 1 # 0 /\ (n + 1) - 1 = n OBVIOUS
  <2>2. f[n + 1] = ProbeStep(m, f[n], around[n + 1]) BY <1>9, <2>1
  <2>. QED BY <1>2, <2>2
<1>. QED BY <1>10, <1>11 DEF f, b

\* map_probe in a table with an empty bucket: the loop ends with an empty hand,
\* since it cannot have come past all buckets.
LEMMA ProbeGives ==
  ASSUME NEW m, NEW L \in Nat \ {0}, m.length = L, m.slots \in Slots(L),
         NEW ordered \in BOOLEAN, NEW e \in Entries,
         Sound(L, m.slots, ordered), NEW hole \in 0 .. L - 1, m.slots[hole] = NULL,
         ordered => OneEach(m.slots) /\ e.key \notin Names(m.slots)
  PROVE  LET t == Probe(m, e)
         IN  /\ t \in Slots(L)
             /\ Sound(L, t, ordered)
             /\ Uncrossed(L, t)
             /\ ordered => OneEach(t)
             /\ Stored(t) = Stored(m.slots) \cup {e}
             /\ \E q \in 0 .. L - 1 :
                  m.slots[q] = NULL /\ Filled(t) = Filled(m.slots) \cup {q}
<1>. DEFINE s == m.slots
            f == ProbeSteps(m, e)
            G == {n \in 0 .. L : Probed(L, s, e, ordered, n, f[n])}
<1>1. /\ f[0] = [slots |-> s, hand |-> e]
      /\ \A n \in 0 .. L - 1 : f[n + 1] = ProbeStep(m, f[n], (Home(L, e) + n) % L)
  BY ProbeStepsAre
<1>2. Home(L, e) \in 0 .. L - 1 BY HomeType
<1>3. e # NULL BY HashMapAssumption
<1>. HIDE DEF s, f
<1>4. s \in Slots(L) /\ s[hole] = NULL BY DEF s
<1>5. 0 \in G
  <2>1. \A i \in 0 .. L - 1 : ~(Ahead(L, Home(L, e), i) < 0) BY <1>2, AheadType
  <2>2. (Home(L, e) + 0) % L = Home(L, e) BY <1>2
  <2>3. Reaches(L, s, ordered, e, (Home(L, e) + 0) % L) BY <1>4, <2>2, ReachesHome
  <2>4. Probed(L, s, e, ordered, 0, [slots |-> s, hand |-> e])
    BY <1>3, <1>4, <2>1, <2>3 DEF Probed, s
  <2>. QED BY <1>1, <2>4
<1>6. ASSUME NEW n \in 0 .. L - 1, n \in G PROVE n + 1 \in G
  <2>1. Probed(L, s, e, ordered, n, f[n]) BY <1>6
  <2>2. Probed(L, s, e, ordered, n + 1, ProbeStep(m, f[n], (Home(L, e) + n) % L))
    BY <1>4, <2>1, ProbeStepKeeps
  <2>. QED BY <1>1, <2>2
<1>7. Probed(L, s, e, ordered, L, f[L])
  <2>. HIDE DEF G
  <2>1. \A n \in 0 .. L : n \in G BY <1>5, <1>6, Throughout
  <2>2. L \in G BY <2>1
  <2>. QED BY <2>2 DEF G
<1>8. f[L].hand = NULL
  <2>1. Ahead(L, Home(L, e), hole) < L BY <1>2, AheadType
  <2>. QED BY <1>4, <1>7, <2>1 DEF Probed
<1>9. Probe(m, e) = f[L].slots BY DEF Probe, f
<1>. DEFINE t == f[L].slots
<1>10. /\ t \in Slots(L) /\ Sound(L, t, ordered) /\ Uncrossed(L, t)
       /\ ordered => OneEach(t)
       /\ Stored(t) = Stored(s) \cup {e}
       /\ \E q \in 0 .. L - 1 : s[q] = NULL /\ Filled(t) = Filled(s) \cup {q}
  BY <1>7, <1>8 DEF Probed
<1>. HIDE DEF t
<1>. QED BY <1>9, <1>10 DEF s, t

-----------------------------------------------------------------------------
(* map_insert_entry where no resize is due *)

\* The bucket count is below the length as long as there is an empty bucket.
LEMMA Room ==
  ASSUME NEW L \in Nat \ {0}, NEW s \in Slots(L)
  PROVE  /\ IsFiniteSet(Filled(s))
         /\ Cardinality(Filled(s)) \in 0 .. L
         /\ Cardinality(Filled(s)) < L <=> \E q \in 0 .. L - 1 : s[q] = NULL
<1>1. DOMAIN s = 0 .. L - 1 BY DEF Slots
<1>2. Filled(s) \subseteq 0 .. L - 1 BY <1>1 DEF Filled
<1>3. IsFiniteSet(0 .. L - 1) /\ Cardinality(0 .. L - 1) = L BY FS_Interval
<1>4. /\ IsFiniteSet(Filled(s)) /\ Cardinality(Filled(s)) <= Cardinality(0 .. L - 1)
      /\ Cardinality(Filled(s)) = Cardinality(0 .. L - 1) => Filled(s) = 0 .. L - 1
  BY <1>2, <1>3, FS_Subset
<1>5. Cardinality(Filled(s)) \in Nat BY <1>4, FS_CardinalityType
<1>6. Filled(s) = 0 .. L - 1 <=> ~(\E q \in 0 .. L - 1 : s[q] = NULL)
  BY <1>1 DEF Filled
<1>. QED BY <1>3, <1>4, <1>5, <1>6

\* Another table of the same length, with its number of entries.
LEMMA TableWith ==
  ASSUME NEW m, Table(m), NEW s \in Slots(m.length), NEW c, c = Cardinality(Filled(s))
  PROVE  LET t == With(m, s, c)
         IN  /\ Table(t)
             /\ t.length = m.length /\ t.locked = m.locked /\ t.slots = s /\ t.count = c
<1>1. m.length \in Nat \ {0} BY DEF Table, MinLength
<1>2. c \in Nat
  <2>1. Cardinality(Filled(s)) \in 0 .. m.length BY <1>1, Room
  <2>. QED BY <2>1
<1>3. s \in UNION {Slots(L) : L \in Nat} BY <1>1
<1>. QED BY <1>2, <1>3 DEF Table, With

\* map_insert_entry keeps the table good and loses no name; in a map that entries
\* are deleted from, it adds the entry, or changes nothing if there is no room.
LEMMA InsertHereGood ==
  ASSUME NEW m, NEW ordered \in BOOLEAN, Good(m, ordered), NEW e \in Entries,
         ordered => e.key \notin Names(m.slots)
  PROVE  LET t == InsertHere(m, e)
         IN  /\ Good(t, ordered)
             /\ t.length = m.length /\ t.locked = m.locked
             /\ t.count = m.count \/ t.count = m.count + 1
             /\ Names(m.slots) \subseteq Names(t.slots)
             /\ ~Full(m) => e.key \in Names(t.slots)
             /\ ordered /\ ~Full(m) => Stored(t.slots) = Stored(m.slots) \cup {e}
             /\ ordered /\ Full(m) => t = m
<1>. DEFINE L == m.length
            s == m.slots
            a == Home(L, e)
            put == Put(s, a, e)
<1>1. /\ L \in Nat \ {0} /\ s \in Slots(L) /\ Sound(L, s, ordered) /\ Table(m)
      /\ ordered => OneEach(s) /\ Uncrossed(L, s)
      /\ m.count = Cardinality(Filled(s))
  BY DEF Good, Table, MinLength
<1>. HIDE DEF L, s
<1>2. a \in 0 .. L - 1 BY <1>1, HomeType
<1>3. Initial(m, e.hash) = a BY DEF Initial, Home, L
<1>4. /\ IsFiniteSet(Filled(s)) /\ m.count \in 0 .. L
      /\ m.count < L <=> \E q \in 0 .. L - 1 : s[q] = NULL
  BY <1>1, Room
<1>5. Full(m) <=> ~(m.count < L) BY <1>1, <1>4 DEF Full, L
<1>6. DOMAIN s = 0 .. L - 1 BY <1>1 DEF Slots
<1>7. Overwrites(m, e) <=> s[a] # NULL /\ s[a].key = e.key
  BY <1>2, <1>3, <1>6 DEF Overwrites, Holds, Present, s
<1>8. a \in Present(m) <=> s[a] # NULL BY <1>2, <1>6 DEF Present, s
<1>. HIDE DEF a
<1>9. Reaches(L, s, ordered, e, a) BY <1>1, ReachesHome DEF a
<1>10. put \in Slots(L) /\ put[a] = e BY <1>1, <1>2, PutTypes
<1>. DEFINE r == InsertHere(m, e)
<1>11. CASE Overwrites(m, e)
  <2>1. s[a] # NULL /\ s[a].key = e.key /\ a \in Filled(s) BY <1>2, <1>6, <1>7, <1>11 DEF Filled
  <2>2. ~ordered BY <1>1, <2>1 DEF Names, Stored, s
  <2>3. Filled(put) = Filled(s) /\ Stored(put) \cup {s[a]} = Stored(s) \cup {e}
    BY <1>1, <1>2, <2>1, PutTaken
  <2>4. Sound(L, put, ordered)
    <3>. SUFFICES ASSUME NEW j \in 0 .. L - 1, put[j] # NULL,
                         NEW i \in 0 .. L - 1, OnWay(L, put[j], i, j)
                  PROVE  put[i] # NULL
      BY <2>2 DEF Sound, Reaches
    <3>1. e # NULL /\ \A k \in 0 .. L - 1 : k # a => put[k] = s[k] BY <1>1, <1>2, PutTypes
    <3>2. CASE j = a
      <4>1. Ahead(L, a, a) = 0 /\ Ahead(L, a, i) \in 0 .. L - 1 BY <1>1, <1>2, AheadType
      <4>2. ~(Ahead(L, a, i) < Ahead(L, a, a)) BY <4>1
      <4>. QED BY <1>10, <3>2, <4>2 DEF OnWay, a
    <3>3. CASE j # a
      <4>1. s[i] # NULL BY <1>1, <3>1, <3>3 DEF Sound, Reaches
      <4>. QED BY <1>10, <3>1, <4>1
    <3>. QED BY <3>2, <3>3
  <2>5. r = With(m, put, m.count)
    <3>1. r = [m EXCEPT !.slots[a] = e] BY <1>3, <1>11 DEF InsertHere
    <3>. HIDE DEF r
    <3>. QED BY <1>1, <3>1 DEF Table, s, With, Put
  <2>. HIDE DEF put, r
  <2>6. /\ Table(r)
        /\ r.length = L /\ r.locked = m.locked
        /\ r.slots = put /\ r.count = m.count
    BY <1>1, <1>10, <2>3, <2>5, TableWith DEF L
  <2>7. Good(r, ordered) BY <2>2, <2>4, <2>6 DEF Good
  <2>8. e.key \in Names(put) /\ Names(s) \subseteq Names(put)
    <3>1. e \in Stored(put) BY <1>10, <2>1, <2>3 DEF Stored
    <3>2. \A f \in Stored(s) : f \in Stored(put) \/ f = s[a] BY <2>3
    <3>3. ASSUME NEW f \in Stored(s) PROVE \E g \in Stored(put) : g.key = f.key
      BY <2>1, <3>1, <3>2
    <3>. QED BY <3>1, <3>3, Zenon DEF Names
  <2>. QED BY <2>2, <2>6, <2>7, <2>8 DEF s, r, L
<1>12. ASSUME ~Overwrites(m, e), ~Full(m), NEW t \in Slots(L),
              r = With(m, t, m.count + 1),
              Sound(L, t, ordered), ordered => OneEach(t), Uncrossed(L, t),
              Stored(t) = Stored(s) \cup {e},
              NEW q \in 0 .. L - 1, s[q] = NULL, Filled(t) = Filled(s) \cup {q}
       PROVE  /\ Good(r, ordered)
              /\ r.length = L /\ r.locked = m.locked /\ r.count = m.count + 1
              /\ Names(s) \cup {e.key} = Names(r.slots)
              /\ Stored(r.slots) = Stored(s) \cup {e}
  <2>. HIDE DEF r
  <2>1. q \notin Filled(s) BY <1>12 DEF Filled
  <2>2. Cardinality(Filled(t)) = m.count + 1
    <3>1. Cardinality(Filled(s) \cup {q}) = Cardinality(Filled(s)) + 1
      BY <1>4, <2>1, FS_AddElement
    <3>. QED BY <1>1, <1>12, <3>1
  <2>3. /\ Table(r)
        /\ r.length = L /\ r.locked = m.locked
        /\ r.slots = t /\ r.count = m.count + 1
    <3>. DEFINE c == m.count + 1
    <3>1. t \in Slots(m.length) /\ c = Cardinality(Filled(t)) /\ r = With(m, t, c)
      BY <1>12, <2>2 DEF L
    <3>. HIDE DEF c
    <3>2. /\ Table(r)
          /\ r.length = m.length /\ r.locked = m.locked /\ r.slots = t /\ r.count = c
      BY <1>1, <3>1, TableWith
    <3>. QED BY <3>2 DEF L, c
  <2>4. Good(r, ordered) BY <1>12, <2>3 DEF Good
  <2>5. Names(t) = Names(s) \cup {e.key} BY <1>12 DEF Names
  <2>. QED BY <1>12, <2>3, <2>4, <2>5
<1>13. CASE ~Overwrites(m, e) /\ s[a] = NULL
  <2>1. ~Full(m) BY <1>2, <1>4, <1>5, <1>13
  <2>2. r = With(m, put, m.count + 1)
    <3>1. r = [m EXCEPT !.slots[a] = e, !.count = @ + 1]
      BY <1>3, <1>8, <1>13 DEF InsertHere
    <3>. HIDE DEF r
    <3>. QED BY <1>1, <3>1 DEF Table, s, With, Put
  <2>3. Sound(L, put, ordered) BY <1>1, <1>2, <1>9, <1>13, PutSound
  <2>4. Uncrossed(L, put) BY <1>1, <1>2, <1>13, PutUncrossed
  <2>5. /\ Filled(put) = Filled(s) \cup {a} /\ Stored(put) = Stored(s) \cup {e}
        /\ OneEach(s) /\ e.key \notin Names(s) => OneEach(put)
    BY <1>1, <1>2, <1>13, PutEmpty
  <2>6. ordered => OneEach(put) BY <1>1, <2>5 DEF s
  <2>. HIDE DEF put, r
  <2>7. /\ Good(r, ordered)
        /\ r.length = L /\ r.locked = m.locked /\ r.count = m.count + 1
        /\ Names(s) \cup {e.key} = Names(r.slots)
        /\ Stored(r.slots) = Stored(s) \cup {e}
    BY <1>2, <1>10, <1>12, <1>13, <2>1, <2>2, <2>3, <2>4, <2>5, <2>6
  <2>. QED BY <2>1, <2>7 DEF s, r, L
<1>14. CASE ~Overwrites(m, e) /\ s[a] # NULL /\ Full(m)
  <2>1. InsertHere(m, e) = m BY <1>3, <1>8, <1>14 DEF InsertHere
  <2>. QED BY <1>14, <2>1
<1>15. CASE ~Overwrites(m, e) /\ s[a] # NULL /\ ~Full(m)
  <2>. DEFINE t == Probe(m, e)
  <2>1. r = With(m, t, m.count + 1)
    <3>1. r = [m EXCEPT !.slots = t, !.count = @ + 1]
      BY <1>3, <1>8, <1>15 DEF InsertHere
    <3>. HIDE DEF r, t
    <3>. QED BY <1>1, <3>1 DEF Table, With
  <2>2. PICK hole \in 0 .. L - 1 : s[hole] = NULL BY <1>4, <1>5, <1>15
  <2>3. /\ t \in Slots(L) /\ Sound(L, t, ordered) /\ Uncrossed(L, t)
        /\ ordered => OneEach(t)
        /\ Stored(t) = Stored(s) \cup {e}
        /\ \E q \in 0 .. L - 1 : s[q] = NULL /\ Filled(t) = Filled(s) \cup {q}
    BY <1>1, <2>2, ProbeGives DEF L, s
  <2>. HIDE DEF t, r
  <2>4. PICK q \in 0 .. L - 1 : s[q] = NULL /\ Filled(t) = Filled(s) \cup {q} BY <2>3
  <2>5. /\ Good(r, ordered)
        /\ r.length = L /\ r.locked = m.locked /\ r.count = m.count + 1
        /\ Names(s) \cup {e.key} = Names(r.slots)
        /\ Stored(r.slots) = Stored(s) \cup {e}
    BY <1>12, <1>15, <2>1, <2>3, <2>4
  <2>. QED BY <1>15, <2>5 DEF s, r, L
<1>. QED BY <1>11, <1>13, <1>14, <1>15

-----------------------------------------------------------------------------
(* map_resize *)

\* The order is an addition.
LEMMA GoodUnordered ==
  ASSUME NEW m, NEW ordered \in BOOLEAN, Good(m, ordered)
  PROVE  Good(m, FALSE)
BY DEF Good, Sound, Reaches

\* A new table is good.
LEMMA EmptyGood ==
  ASSUME NEW L \in Nat, L >= MinLength, NEW ordered
  PROVE  /\ Good(Empty(L), ordered)
         /\ Empty(L).length = L /\ Empty(L).count = 0 /\ ~Empty(L).locked
         /\ Filled(Empty(L).slots) = {} /\ Stored(Empty(L).slots) = {}
<1>. DEFINE s == [i \in 0 .. L - 1 |-> NULL]
<1>1. Empty(L) = [length |-> L, count |-> 0, slots |-> s, locked |-> FALSE]
  BY DEF Empty
<1>2. /\ s \in Slots(L) /\ L \in Nat \ {0} /\ 0 \in 0 .. L - 1
      /\ \A i \in 0 .. L - 1 : s[i] = NULL
  BY DEF Slots, MinLength
<1>3. Filled(s) = {} BY DEF Filled
<1>. HIDE DEF s
<1>4. Stored(s) = {} /\ OneEach(s) BY <1>3 DEF Stored, OneEach
<1>5. Sound(L, s, ordered) BY <1>2 DEF Sound
<1>6. Uncrossed(L, s) BY <1>2 DEF Uncrossed
<1>7. Cardinality(Filled(s)) = 0 BY <1>3, FS_EmptySet
<1>8. s \in UNION {Slots(N) : N \in Nat} BY <1>2
<1>9. Table(Empty(L)) BY <1>1, <1>2, <1>7, <1>8 DEF Table
<1>. QED BY <1>1, <1>3, <1>4, <1>5, <1>6, <1>9 DEF Good

\* What the new table x has after the first n buckets of m are copied.
Copied(m, ordered, n, x) ==
  /\ Good(x, ordered)
  /\ x.length = 2 * m.length /\ ~x.locked
  /\ x.count <= n
  /\ \A i \in Filled(m.slots) : i < n => m.slots[i].key \in Names(x.slots)
  /\ ordered => Stored(x.slots) = {m.slots[i] : i \in {j \in Filled(m.slots) : j < n}}

\* The copy of a bucket: the new table always has room, and a key that is in the
\* old table once is not in the new one yet.
LEMMA CopyKeeps ==
  ASSUME NEW m, NEW ordered \in BOOLEAN, Good(m, ordered),
         NEW n \in 0 .. m.length - 1, NEW x, Copied(m, ordered, n, x)
  PROVE  Copied(m, ordered, n + 1, Copy(m, x, n))
<1>. DEFINE s == m.slots
            L == m.length
            y == Copy(m, x, n)
<1>1. L \in Nat \ {0} /\ s \in Slots(L) BY DEF Good, Table, MinLength
<1>2. DOMAIN s = 0 .. L - 1 BY <1>1 DEF Slots
<1>3. n \in Present(m) <=> n \in Filled(s) BY DEF Present, Filled
<1>. HIDE DEF s, L
<1>4. n \in 0 .. L - 1 BY DEF L
<1>5. x.count \in Nat BY DEF Copied, Good, Table
<1>6. ASSUME NEW i \in Filled(s), i < n + 1 PROVE i < n \/ i = n
  <2>1. i \in 0 .. L - 1 BY <1>2 DEF Filled
  <2>. QED BY <1>4, <1>6, <2>1
<1>7. ASSUME NEW i \in Filled(s), i < n PROVE i < n + 1
  <2>1. i \in 0 .. L - 1 BY <1>2 DEF Filled
  <2>. QED BY <1>4, <1>7, <2>1
<1>8. CASE n \notin Filled(s)
  <2>1. y = x BY <1>3, <1>8 DEF Copy
  <2>2. {j \in Filled(s) : j < n} = {j \in Filled(s) : j < n + 1} BY <1>6, <1>7, <1>8
  <2>3. x.count <= n + 1 BY <1>4, <1>5 DEF Copied
  <2>4. \A i \in Filled(s) : i < n + 1 => s[i].key \in Names(x.slots)
    BY <1>6, <1>8 DEF Copied, s
  <2>5. ordered => Stored(x.slots) = {s[i] : i \in {j \in Filled(s) : j < n + 1}}
    BY <2>2 DEF Copied, s
  <2>. QED BY <2>1, <2>3, <2>4, <2>5 DEF Copied, s
<1>9. CASE n \in Filled(s)
  <2>. DEFINE e == s[n]
  <2>1. y = InsertHere(x, e) BY <1>3, <1>9 DEF Copy, s
  <2>2. e \in Entries BY <1>1, <1>4, <1>9, InSlot DEF Filled
  <2>. HIDE DEF y, e
  <2>3. ordered => e.key \notin Names(x.slots)
    <3>. SUFFICES ASSUME ordered, e.key \in Names(x.slots) PROVE FALSE OBVIOUS
    <3>1. Stored(x.slots) = {s[i] : i \in {j \in Filled(s) : j < n}} BY DEF Copied, s
    <3>2. PICK i \in Filled(s) : i < n /\ s[i].key = e.key BY <3>1 DEF Names
    <3>3. i = n BY <1>9, <3>2 DEF Good, OneEach, e, s
    <3>. QED BY <1>4, <3>2, <3>3
  <2>4. ~Full(x)
    <3>1. x.length = 2 * L /\ x.count <= n BY DEF Copied, L
    <3>2. x.count + 1 <= 2 * L BY <1>1, <1>4, <1>5, <3>1
    <3>. QED BY <1>1, <1>5, <3>1, <3>2 DEF Full
  <2>5. /\ Good(y, ordered)
        /\ y.length = x.length /\ y.locked = x.locked
        /\ y.count = x.count \/ y.count = x.count + 1
        /\ Names(x.slots) \subseteq Names(y.slots)
        /\ e.key \in Names(y.slots)
        /\ ordered => Stored(y.slots) = Stored(x.slots) \cup {e}
    BY <2>1, <2>2, <2>3, <2>4, InsertHereGood DEF Copied
  <2>6. y.count <= n + 1 BY <1>4, <1>5, <2>5 DEF Copied
  <2>7. \A i \in Filled(s) : i < n + 1 => s[i].key \in Names(y.slots)
    BY <1>6, <2>5 DEF Copied, s, e
  <2>8. ASSUME ordered
        PROVE  Stored(y.slots) = {s[i] : i \in {j \in Filled(s) : j < n + 1}}
    <3>1. Stored(x.slots) = {s[i] : i \in {j \in Filled(s) : j < n}}
      BY <2>8 DEF Copied, s
    <3>2. {j \in Filled(s) : j < n + 1} = {j \in Filled(s) : j < n} \cup {n}
      <4>1. n < n + 1 BY <1>4
      <4>. QED BY <1>6, <1>7, <1>9, <4>1
    <3>3. {s[i] : i \in {j \in Filled(s) : j < n} \cup {n}}
            = {s[i] : i \in {j \in Filled(s) : j < n}} \cup {s[n]}
      OBVIOUS
    <3>. QED BY <2>5, <2>8, <3>1, <3>2, <3>3 DEF e
  <2>. QED BY <2>5, <2>6, <2>7, <2>8 DEF Copied, s, y
<1>. QED BY <1>8, <1>9

\* The function of the copies satisfies its recursion.
LEMMA CopiesAre ==
  ASSUME NEW m, NEW ordered \in BOOLEAN, Good(m, ordered)
  PROVE  /\ Copies(m)[0] = Empty(2 * m.length)
         /\ \A n \in 0 .. m.length - 1 : Copies(m)[n + 1] = Copy(m, Copies(m)[n], n)
<1>. DEFINE L == m.length
            S == {x \in [length : Nat, count : Nat, slots : UNION {Slots(N) : N \in Nat},
                         locked : BOOLEAN] : Good(x, FALSE)}
            b == Empty(2 * L)
            t == [n \in 1 .. L |-> [x \in S |-> Copy(m, x, n - 1)]]
<1>1. L \in Nat \ {0} /\ L >= MinLength /\ m.slots \in Slots(L)
  BY DEF Good, Table, MinLength
<1>2. b \in S
  <2>1. 2 * L \in Nat /\ 2 * L >= MinLength BY <1>1 DEF MinLength
  <2>2. Good(b, FALSE)
    <3>. HIDE DEF L
    <3>. QED BY <2>1, EmptyGood
  <2>. HIDE DEF b
  <2>. QED BY <2>2 DEF Good, Table
<1>3. ASSUME NEW n \in 1 .. L, NEW x \in S PROVE Copy(m, x, n - 1) \in S
  <2>1. n - 1 \in 0 .. L - 1 BY <1>1
  <2>2. Good(Copy(m, x, n - 1), FALSE)
    <3>1. CASE n - 1 \notin Present(m) BY <3>1 DEF Copy
    <3>2. CASE n - 1 \in Present(m)
      <4>1. m.slots[n - 1] \in Entries
        BY <1>1, <2>1, <3>2, InSlot DEF Present
      <4>2. Copy(m, x, n - 1) = InsertHere(x, m.slots[n - 1]) BY <3>2 DEF Copy
      <4>3. Good(x, FALSE) OBVIOUS
      <4>. QED BY <4>1, <4>2, <4>3, InsertHereGood
    <3>. QED BY <3>1, <3>2
  <2>. QED BY <2>2 DEF Good, Table
<1>. HIDE DEF S, b, L
<1>4. t \in [1 .. L -> [S -> S]] BY <1>3
<1>5. \A n \in 1 .. L : \A x \in S : t[n][x] = Copy(m, x, n - 1) OBVIOUS
<1>. HIDE DEF t
<1>6. PICK g \in [0 .. L -> S] : Runs(L, b, t, g) BY <1>1, <1>2, <1>4, Loop
<1>7. g = [n \in 0 .. L |-> IF n = 0 THEN b ELSE Copy(m, g[n - 1], n - 1)]
  <2>1. ASSUME NEW n \in 0 .. L, n # 0 PROVE g[n] = Copy(m, g[n - 1], n - 1)
    <3>1. n \in 1 .. L /\ n - 1 \in 0 .. L BY <1>1, <2>1
    <3>2. g[n - 1] \in S BY <1>6, <3>1
    <3>. QED BY <1>5, <1>6, <3>1, <3>2 DEF Runs
  <2>2. \A n \in 0 .. L : g[n] = (IF n = 0 THEN b ELSE Copy(m, g[n - 1], n - 1))
    BY <1>6, <2>1, Zenon DEF Runs
  <2>. QED BY <1>6, <2>2
<1>. DEFINE f == Copies(m)
<1>8. f = [n \in 0 .. L |-> IF n = 0 THEN b ELSE Copy(m, f[n - 1], n - 1)]
  BY <1>7, Zenon DEF Copies, b, L
<1>. HIDE DEF f
<1>9. f[0] = b BY <1>1, <1>8
<1>10. ASSUME NEW n \in 0 .. L - 1 PROVE f[n + 1] = Copy(m, f[n], n)
  <2>1. n + 1 \in 0 .. L /\ n + 1 # 0 /\ (n + 1) - 1 = n BY <1>1
  <2>. QED BY <1>8, <2>1
<1>. QED BY <1>9, <1>10 DEF f, b, L

\* At every step of the loop of map_resize.
LEMMA CopiedThroughout ==
  ASSUME NEW m, NEW ordered \in BOOLEAN, Good(m, ordered)
  PROVE  \A n \in 0 .. m.length : Copied(m, ordered, n, Copies(m)[n])
<1>. DEFINE L == m.length
            f == Copies(m)
            G == {n \in 0 .. L : Copied(m, ordered, n, f[n])}
<1>1. L \in Nat \ {0} /\ L >= MinLength /\ m.slots \in Slots(L)
  BY DEF Good, Table, MinLength
<1>2. f[0] = Empty(2 * L) /\ \A n \in 0 .. L - 1 : f[n + 1] = Copy(m, f[n], n)
  BY CopiesAre
<1>. HIDE DEF f
<1>3. Copied(m, ordered, 0, f[0])
  <2>. HIDE DEF L
  <2>1. 2 * L \in Nat /\ 2 * L >= MinLength BY <1>1 DEF MinLength
  <2>2. /\ Good(f[0], ordered)
        /\ f[0].length = 2 * L /\ f[0].count = 0 /\ ~f[0].locked
        /\ Stored(f[0].slots) = {}
    BY <1>2, <2>1, EmptyGood
  <2>3. \A i \in Filled(m.slots) : ~(i < 0) BY <1>1 DEF Filled, Slots
  <2>4. {j \in Filled(m.slots) : j < 0} = {} BY <2>3
  <2>. QED BY <2>2, <2>3, <2>4 DEF Copied, L
<1>4. ASSUME NEW n \in 0 .. L - 1, n \in G PROVE n + 1 \in G
  <2>1. Copied(m, ordered, n + 1, Copy(m, f[n], n)) BY <1>4, CopyKeeps
  <2>2. n + 1 \in 0 .. L BY <1>1
  <2>. QED BY <1>2, <2>1, <2>2
<1>5. \A n \in 0 .. L : n \in G
  <2>1. 0 \in G BY <1>1, <1>3
  <2>. HIDE DEF G, L
  <2>. QED BY <1>1, <1>4, <2>1, Throughout
<1>. QED BY <1>5 DEF f

\* While map_resize copies, and for the entry that is inserted after it, no
\* resize is due: map_insert_entry calls map_resize once at most.
LEMMA DoublesOnce ==
  ASSUME NEW m, NEW ordered \in BOOLEAN, Good(m, ordered), NEW n \in 0 .. m.length
  PROVE  ~Overloaded(Copies(m)[n])
<1>. DEFINE x == Copies(m)[n]
<1>1. Copied(m, ordered, n, x) BY CopiedThroughout
<1>. HIDE DEF x
<1>2. m.length \in Nat /\ m.length >= 4 BY DEF Good, Table, MinLength
<1>3. x.count \in Nat /\ x.count <= n /\ x.length = 2 * m.length
  BY <1>1 DEF Copied, Good, Table
<1>4. 4 * (x.count + 1) < 3 * x.length BY <1>2, <1>3
<1>. QED BY <1>2, <1>3, <1>4 DEF Overloaded, x

\* The doubled table has all there was, and room.
LEMMA ResizeGood ==
  ASSUME NEW m, NEW ordered \in BOOLEAN, Good(m, ordered)
  PROVE  LET t == Resize(m)
         IN  /\ Good(t, ordered)
             /\ ~t.locked /\ ~Full(t)
             /\ Names(m.slots) \subseteq Names(t.slots)
             /\ ordered => Stored(t.slots) = Stored(m.slots)
<1>. DEFINE t == Resize(m)
            L == m.length
            s == m.slots
<1>1. L \in Nat /\ L >= 4 /\ s \in Slots(L) BY DEF Good, Table, MinLength
<1>2. Copied(m, ordered, L, t) BY <1>1, CopiedThroughout DEF Resize
<1>. HIDE DEF t
<1>3. \A i \in Filled(s) : i < L BY <1>1 DEF Filled, Slots
<1>4. Good(t, ordered) /\ ~t.locked /\ t.length = 2 * L /\ t.count <= L
  BY <1>2 DEF Copied
<1>5. ~Full(t)
  <2>1. t.count \in Nat BY <1>4 DEF Good, Table
  <2>2. t.count + 1 <= 2 * L BY <1>1, <1>4, <2>1
  <2>. QED BY <1>1, <1>4, <2>1, <2>2 DEF Full
<1>6. Names(s) \subseteq Names(t.slots)
  <2>1. \A i \in Filled(s) : s[i].key \in Names(t.slots) BY <1>2, <1>3 DEF Copied
  <2>. HIDE DEF s
  <2>. QED BY <2>1 DEF Names, Stored
<1>7. ordered => Stored(t.slots) = Stored(s)
  <2>1. {j \in Filled(s) : j < L} = Filled(s) BY <1>3
  <2>. QED BY <1>2, <2>1 DEF Copied, Stored
<1>. QED BY <1>4, <1>5, <1>6, <1>7 DEF t

\* map_insert_entry, with the resize.
LEMMA InsertEntryGood ==
  ASSUME NEW m, NEW ordered \in BOOLEAN, Good(m, ordered), NEW e \in Entries,
         ordered => e.key \notin Names(m.slots)
  PROVE  LET t == InsertEntry(m, e)
         IN  /\ Good(t, ordered)
             /\ Names(m.slots) \subseteq Names(t.slots)
             /\ ordered => \/ Stored(t.slots) = Stored(m.slots) \cup {e}
                           \/ t.slots = m.slots
<1>1. CASE Resizes(m, e)
  <2>. DEFINE r == Resize(m)
              t == InsertHere(r, e)
  <2>1. /\ Good(r, ordered) /\ ~Full(r)
        /\ Names(m.slots) \subseteq Names(r.slots)
        /\ ordered => Stored(r.slots) = Stored(m.slots)
    BY ResizeGood
  <2>. HIDE DEF r
  <2>2. ordered => e.key \notin Names(r.slots) BY <2>1 DEF Names
  <2>3. /\ Good(t, ordered)
        /\ Names(r.slots) \subseteq Names(t.slots)
        /\ ordered => Stored(t.slots) = Stored(r.slots) \cup {e}
    BY <2>1, <2>2, InsertHereGood
  <2>4. InsertEntry(m, e) = t BY <1>1 DEF InsertEntry, r
  <2>. HIDE DEF t
  <2>. QED BY <2>1, <2>3, <2>4
<1>2. CASE ~Resizes(m, e)
  <2>. DEFINE t == InsertHere(m, e)
  <2>1. /\ Good(t, ordered)
        /\ Names(m.slots) \subseteq Names(t.slots)
        /\ ordered /\ ~Full(m) => Stored(t.slots) = Stored(m.slots) \cup {e}
        /\ ordered /\ Full(m) => t = m
    BY InsertHereGood
  <2>2. InsertEntry(m, e) = t BY <1>2 DEF InsertEntry
  <2>. HIDE DEF t
  <2>. QED BY <2>1, <2>2
<1>. QED BY <1>1, <1>2

-----------------------------------------------------------------------------
(* map_delete *)

\* The entry in bucket i has gone past its first one.
Moves(L, s, i) == s[i] # NULL /\ Dib(L, Home(L, s[i]), i) # 0

\* The slots after those from dest to last are shifted back by one.
Shift(s, dest, last) ==
  [i \in DOMAIN s |-> IF i = last THEN NULL
                      ELSE IF i \in dest .. last - 1 THEN s[i + 1] ELSE s[i]]

\* What is shifted from last back to dest, in the table: the run of entries that
\* have gone past their first bucket, up to last; beyond last there is none.
Run(L, s, dest, last) ==
  /\ dest <= last /\ s[dest] # NULL
  /\ \A i \in dest + 1 .. last : Moves(L, s, i)
  /\ ~(dest = 0 /\ last = L - 1) => ~Moves(L, s, After(L, last))

\* map_delete counts the run around the table, and reaches no end but its own as
\* long as it stays inside.
LEMMA ShiftedRun ==
  ASSUME NEW m, NEW L \in Nat \ {0}, m.length = L, m.slots \in Slots(L),
         NEW dest \in 0 .. L - 1, m.slots[dest] # NULL, ~LeavesTable(m, dest)
  PROVE  LET last == dest + Shifted(m, dest)
         IN  last \in 0 .. L - 1 /\ Run(L, m.slots, dest, last)
<1>. DEFINE s == m.slots
            Q(n) == /\ \A j \in 1 .. n : Movable(m, (dest + j) % L)
                    /\ n < L - 1 => ~Movable(m, (dest + n + 1) % L)
            n0 == Shifted(m, dest)
            Ends == {n \in 0 .. L - 1 : n < L - 1 => ~Movable(m, (dest + n + 1) % L)}
<1>1. \E n \in 0 .. L - 1 : Q(n)
  <2>1. L - 1 \in Ends OBVIOUS
  <2>2. PICK n \in Ends : \A k \in Ends : n <= k
    <3>1. Ends \subseteq Nat OBVIOUS
    <3>. HIDE DEF Ends
    <3>. QED BY <2>1, <3>1, SmallestElement
  <2>3. ASSUME NEW j \in 1 .. n PROVE Movable(m, (dest + j) % L)
    <3>1. j - 1 \notin Ends BY <2>2
    <3>2. j - 1 \in 0 .. L - 1 /\ dest + (j - 1) + 1 = dest + j BY <2>2
    <3>. QED BY <3>1, <3>2
  <2>. QED BY <2>2, <2>3
<1>2. n0 \in 0 .. L - 1 /\ Q(n0)
  <2>1. n0 = CHOOSE n \in 0 .. L - 1 : Q(n) BY DEF Shifted
  <2>. HIDE DEF Q, n0
  <2>. QED BY <1>1, <2>1
<1>. HIDE DEF n0
<1>3. ASSUME NEW i \in 0 .. L - 1 PROVE Movable(m, i) <=> Moves(L, s, i)
  <2>1. i \in Present(m) <=> s[i] # NULL BY DEF Present, Slots
  <2>2. GetDib(m, s[i], i) = Dib(L, Home(L, s[i]), i) BY DEF GetDib, Initial, Dib, Home
  <2>. QED BY <2>1, <2>2 DEF Movable, Moves
<1>. DEFINE last == dest + n0
<1>4. last \in 0 .. L - 1 BY <1>2 DEF LeavesTable, n0
<1>5. ASSUME NEW i \in dest + 1 .. last PROVE Moves(L, s, i)
  <2>1. i - dest \in 1 .. n0 /\ i \in 0 .. L - 1 /\ dest + (i - dest) = i BY <1>2, <1>4
  <2>2. i % L = i BY <2>1
  <2>3. Movable(m, i) BY <1>2, <2>1, <2>2
  <2>. QED BY <1>3, <2>1, <2>3
<1>6. ASSUME ~(dest = 0 /\ last = L - 1) PROVE ~Moves(L, s, After(L, last))
  <2>1. n0 < L - 1 BY <1>2, <1>4, <1>6
  <2>2. ~Movable(m, (dest + n0 + 1) % L) BY <1>2, <2>1
  <2>3. (dest + n0 + 1) % L = After(L, last) /\ After(L, last) \in 0 .. L - 1
    <3>. HIDE DEF last
    <3>1. CASE last = L - 1
      <4>1. dest + n0 + 1 = 0 + L BY <3>1 DEF last
      <4>2. (0 + L) % L = 0 OBVIOUS
      <4>. QED BY <3>1, <4>1, <4>2 DEF After
    <3>2. CASE last # L - 1
      <4>1. last + 1 \in 0 .. L - 1 BY <1>4, <3>2
      <4>2. (last + 1) % L = last + 1 BY <4>1
      <4>. QED BY <3>2, <4>1, <4>2 DEF After, last
    <3>. QED BY <3>1, <3>2
  <2>. QED BY <1>3, <2>2, <2>3
<1>. QED BY <1>2, <1>4, <1>5, <1>6 DEF Run, n0

\* What is in the slots after the shift: what was in From before.
From(dest, last, i) == IF i \in dest .. last - 1 THEN i + 1 ELSE i

LEMMA ShiftTypes ==
  ASSUME NEW L \in Nat \ {0}, NEW s \in Slots(L), NEW dest \in 0 .. L - 1,
         NEW last \in 0 .. L - 1
  PROVE  LET t == Shift(s, dest, last)
         IN  /\ t \in Slots(L)
             /\ t[last] = NULL
             /\ \A i \in 0 .. L - 1 : i # last =>
                  /\ From(dest, last, i) \in 0 .. L - 1
                  /\ t[i] = s[From(dest, last, i)]
<1>1. DOMAIN s = 0 .. L - 1 BY DEF Slots
<1>2. ASSUME NEW i \in 0 .. L - 1, i # last PROVE From(dest, last, i) \in 0 .. L - 1
  BY DEF From
<1>3. ASSUME NEW i \in 0 .. L - 1, i # last
      PROVE  Shift(s, dest, last)[i] = s[From(dest, last, i)]
  BY <1>1, <1>3 DEF Shift, From
<1>4. Shift(s, dest, last)[last] = NULL BY <1>1 DEF Shift
<1>5. ASSUME NEW i \in 0 .. L - 1 PROVE Shift(s, dest, last)[i] \in Entries \cup {NULL}
  BY <1>2, <1>3, <1>4 DEF Slots
<1>6. Shift(s, dest, last) = [i \in 0 .. L - 1 |-> Shift(s, dest, last)[i]]
  BY <1>1 DEF Shift
<1>. QED BY <1>2, <1>3, <1>4, <1>5, <1>6 DEF Slots

\* One bucket back, away from the end of the table, the one with the larger dib
\* still has it: both fall, or both rise, or the larger one rises.
LEMMA DibBack ==
  ASSUME NEW L \in Nat \ {0}, NEW a \in 0 .. L - 1, NEW b \in 0 .. L - 1,
         NEW i \in 0 .. L - 2, i + 1 # a, i + 1 # b,
         Dib(L, a, i + 1) <= Dib(L, b, i + 1)
  PROVE  Dib(L, a, i) <= Dib(L, b, i)
BY DEF Dib

\* Shifting back a run leaves no gap: an entry on whose way the last bucket is
\* would also come past the next one, whose entry would then be part of the run.
\* Where the run is the whole table, there is no next one; but then no way
\* crosses the start of the table, since some bucket is not crossed, and all
\* entries but the first have gone past theirs.
LEMMA ShiftSound ==
  ASSUME NEW L \in Nat \ {0}, NEW s \in Slots(L), NEW dest \in 0 .. L - 1,
         NEW last \in 0 .. L - 1, Run(L, s, dest, last), Sound(L, s, TRUE),
         Uncrossed(L, s)
  PROVE  Sound(L, Shift(s, dest, last), TRUE)
<1>. DEFINE t == Shift(s, dest, last)
<1>1. /\ t \in Slots(L) /\ t[last] = NULL
      /\ \A i \in 0 .. L - 1 : i # last =>
           From(dest, last, i) \in 0 .. L - 1 /\ t[i] = s[From(dest, last, i)]
  BY ShiftTypes
<1>. HIDE DEF t
<1>. SUFFICES ASSUME NEW j \in 0 .. L - 1, t[j] # NULL,
                     NEW i \in 0 .. L - 1, OnWay(L, t[j], i, j)
              PROVE  t[i] # NULL /\ Dib(L, Home(L, t[j]), i) <= Dib(L, Home(L, t[i]), i)
  BY DEF Sound, Reaches, t
<1>. DEFINE o == From(dest, last, j)
            e == t[j]
            h == Home(L, e)
<1>2. j # last /\ o \in 0 .. L - 1 /\ e = s[o] /\ e # NULL BY <1>1
<1>3. h \in 0 .. L - 1 BY <1>2, InSlot
<1>4. Ahead(L, h, i) < Ahead(L, h, j) BY DEF OnWay
<1>. HIDE DEF h, e
<1>5. /\ Ahead(L, h, i) \in 0 .. L - 1 /\ Ahead(L, h, j) \in 0 .. L - 1
      /\ Ahead(L, h, o) \in 0 .. L - 1
  BY <1>2, <1>3, AheadType
<1>6. \/ o = j /\ j \notin dest .. last - 1
      \/ o = j + 1 /\ j \in dest .. last - 1
  BY DEF From
<1>7. \/ Ahead(L, h, o) = Ahead(L, h, j) /\ o = j
      \/ Ahead(L, h, o) = Ahead(L, h, j) + 1 /\ o = j + 1
  <2>1. CASE o = j BY <2>1
  <2>2. CASE o = j + 1 /\ j \in dest .. last - 1
    <3>1. Moves(L, s, o) BY <2>2 DEF Run
    <3>2. o # h BY <1>2, <1>3, <3>1, DibFacts DEF Moves, h
    <3>3. o = After(L, j) BY <2>2 DEF After
    <3>4. Ahead(L, h, o) = Ahead(L, h, j) + 1 BY <1>3, <3>2, <3>3, AheadNext
    <3>. QED BY <2>2, <3>4
  <2>. QED BY <1>6, <2>1, <2>2
<1>. HIDE DEF o
<1>8. \A k \in 0 .. L - 1 : Ahead(L, h, k) < Ahead(L, h, o) =>
        s[k] # NULL /\ Dib(L, h, k) <= Dib(L, Home(L, s[k]), k)
  BY <1>2 DEF Sound, Reaches, OnWay, h
<1>. DEFINE x == After(L, i)
<1>9. x # h /\ x \in 0 .. L - 1 /\ Ahead(L, h, x) = Ahead(L, h, i) + 1
  <2>1. x \in 0 .. L - 1 /\ (x # h => Ahead(L, h, x) = Ahead(L, h, i) + 1)
    BY <1>3, AheadNext
  <2>2. ASSUME x = h PROVE FALSE
    <3>1. Ahead(L, h, i) = L - 1 BY <1>3, <2>2 DEF Ahead, After
    <3>. QED BY <1>4, <1>5, <3>1
  <2>. QED BY <2>1, <2>2
<1>10. s[i] # NULL /\ Dib(L, h, i) <= Dib(L, Home(L, s[i]), i)
  <2>1. Ahead(L, h, i) < Ahead(L, h, o) BY <1>4, <1>5, <1>7
  <2>. QED BY <1>8, <2>1
<1>11. Ahead(L, h, x) <= Ahead(L, h, o) BY <1>4, <1>5, <1>7, <1>9
<1>12. ASSUME i = last PROVE FALSE
  <2>1. Moves(L, s, x)
    <3>1. Dib(L, h, x) \in Nat /\ Dib(L, h, x) # 0 BY <1>3, <1>9, DibFacts
    <3>2. CASE Ahead(L, h, x) = Ahead(L, h, o)
      <4>1. x = o BY <1>2, <1>3, <1>9, <3>2, AheadOnce
      <4>. QED BY <1>2, <3>1, <4>1 DEF Moves, h
    <3>3. CASE Ahead(L, h, x) # Ahead(L, h, o)
      <4>1. Ahead(L, h, x) < Ahead(L, h, o) BY <1>5, <1>9, <1>11, <3>3
      <4>2. s[x] # NULL /\ Dib(L, h, x) <= Dib(L, Home(L, s[x]), x) BY <1>8, <1>9, <4>1
      <4>3. Dib(L, Home(L, s[x]), x) \in Nat BY <1>9, <4>2, InSlot, DibFacts
      <4>4. Dib(L, Home(L, s[x]), x) # 0 BY <3>1, <4>2, <4>3
      <4>. QED BY <4>2, <4>4 DEF Moves
    <3>. QED BY <3>2, <3>3
  <2>2. CASE ~(dest = 0 /\ last = L - 1) BY <1>12, <2>1, <2>2 DEF Run
  <2>3. CASE dest = 0 /\ last = L - 1
    <3>1. \A k \in 0 .. L - 1 : s[k] # NULL /\ (k # 0 => Moves(L, s, k))
      BY <2>3 DEF Run, Moves
    <3>2. PICK p \in 0 .. L - 1 : \A k \in 0 .. L - 1 :
            s[k] # NULL /\ Ahead(L, Home(L, s[k]), p) <= Ahead(L, Home(L, s[k]), k)
              => p = Home(L, s[k])
      BY DEF Uncrossed
    <3>3. p = 0
      <4>1. s[p] # NULL /\ Home(L, s[p]) \in 0 .. L - 1 BY <3>1, InSlot
      <4>2. Ahead(L, Home(L, s[p]), p) \in 0 .. L - 1 BY <4>1, AheadType
      <4>3. Ahead(L, Home(L, s[p]), p) <= Ahead(L, Home(L, s[p]), p) BY <4>2
      <4>4. p = Home(L, s[p]) BY <3>2, <4>1, <4>3
      <4>5. Dib(L, Home(L, s[p]), p) = 0 BY <4>1, <4>4, DibFacts
      <4>. QED BY <3>1, <4>5 DEF Moves
    <3>4. x = 0 BY <1>12, <2>3 DEF After
    <3>5. p = h BY <1>2, <1>11, <3>2, <3>3, <3>4 DEF h
    <3>. QED BY <1>9, <3>3, <3>4, <3>5
  <2>. QED BY <2>2, <2>3
<1>13. CASE i \notin dest .. last - 1
  <2>1. t[i] = s[i] BY <1>1, <1>12, <1>13 DEF From
  <2>. QED BY <1>10, <2>1 DEF h, e
<1>14. CASE i \in dest .. last - 1
  <2>1. x = i + 1 /\ i \in 0 .. L - 2 BY <1>14 DEF After
  <2>2. t[i] = s[x] BY <1>1, <1>12, <1>14, <2>1 DEF From
  <2>3. Moves(L, s, x) BY <1>14, <2>1 DEF Run
  <2>4. s[x] # NULL /\ Home(L, s[x]) \in 0 .. L - 1 BY <1>9, <2>3, InSlot DEF Moves
  <2>5. x # Home(L, s[x]) BY <1>9, <2>3, <2>4, DibFacts DEF Moves
  <2>6. Ahead(L, h, x) # Ahead(L, h, o)
    <3>. SUFFICES ASSUME Ahead(L, h, x) = Ahead(L, h, o) PROVE FALSE OBVIOUS
    <3>1. x = o BY <1>2, <1>3, <1>9, AheadOnce
    <3>2. o = j BY <1>4, <1>5, <1>7, <1>9
    <3>3. j \in dest + 1 .. last BY <1>14, <2>1, <3>1, <3>2
    <3>. QED BY <1>2, <1>6, <3>2, <3>3
  <2>7. Ahead(L, h, x) < Ahead(L, h, o) BY <1>5, <1>9, <1>11, <2>6
  <2>8. Dib(L, h, x) <= Dib(L, Home(L, s[x]), x) BY <1>8, <1>9, <2>7
  <2>9. Dib(L, h, i) <= Dib(L, Home(L, s[x]), i)
    <3>. DEFINE b == Home(L, s[x])
    <3>1. b \in 0 .. L - 1 /\ i + 1 # b /\ i + 1 # h /\ Dib(L, h, i + 1) <= Dib(L, b, i + 1)
      BY <1>9, <2>1, <2>4, <2>5, <2>8
    <3>. HIDE DEF b
    <3>2. Dib(L, h, i) <= Dib(L, b, i) BY <1>3, <2>1, <3>1, DibBack
    <3>. QED BY <3>2 DEF b
  <2>. QED BY <2>2, <2>4, <2>9 DEF h, e
<1>. QED BY <1>13, <1>14

\* The shift takes away the entry at dest and no other.
LEMMA ShiftContent ==
  ASSUME NEW L \in Nat \ {0}, NEW s \in Slots(L), NEW dest \in 0 .. L - 1,
         NEW last \in 0 .. L - 1, Run(L, s, dest, last), OneEach(s)
  PROVE  LET t == Shift(s, dest, last)
         IN  /\ OneEach(t)
             /\ Filled(t) = Filled(s) \ {last} /\ last \in Filled(s)
             /\ Stored(t) = Stored(s) \ {s[dest]}
             /\ s[dest].key \notin Names(t)
<1>. DEFINE t == Shift(s, dest, last)
<1>1. /\ t \in Slots(L) /\ t[last] = NULL
      /\ \A i \in 0 .. L - 1 : i # last =>
           From(dest, last, i) \in 0 .. L - 1 /\ t[i] = s[From(dest, last, i)]
  BY ShiftTypes
<1>. HIDE DEF t
<1>2. DOMAIN s = 0 .. L - 1 /\ DOMAIN t = 0 .. L - 1 BY <1>1 DEF Slots
<1>3. dest <= last /\ \A i \in dest .. last : s[i] # NULL
  <2>1. \A i \in dest + 1 .. last : s[i] # NULL BY DEF Run, Moves
  <2>2. \A i \in dest .. last : i = dest \/ i \in dest + 1 .. last OBVIOUS
  <2>. QED BY <2>1, <2>2 DEF Run
<1>4. \A i \in 0 .. L - 1 : i # last => (s[From(dest, last, i)] # NULL <=> s[i] # NULL)
  BY <1>3 DEF From
<1>5. Filled(t) = Filled(s) \ {last} BY <1>1, <1>2, <1>4 DEF Filled
<1>6. dest \in Filled(s) /\ last \in Filled(s) BY <1>2, <1>3 DEF Filled
<1>7. ASSUME NEW i \in Filled(t)
      PROVE  /\ From(dest, last, i) \in Filled(s) /\ t[i] = s[From(dest, last, i)]
             /\ From(dest, last, i) # dest
  <2>1. i \in 0 .. L - 1 /\ i # last /\ t[i] # NULL BY <1>1, <1>2 DEF Filled
  <2>2. From(dest, last, i) # dest BY <1>3, <2>1 DEF From
  <2>. QED BY <1>1, <1>2, <2>1, <2>2 DEF Filled
<1>8. ASSUME NEW i \in Filled(t), NEW k \in Filled(t),
             From(dest, last, i) = From(dest, last, k)
      PROVE  i = k
  <2>1. i \in 0 .. L - 1 /\ i # last /\ k \in 0 .. L - 1 /\ k # last
    BY <1>1, <1>2 DEF Filled
  <2>. QED BY <1>8, <2>1 DEF From
<1>9. OneEach(t) BY <1>7, <1>8 DEF OneEach
<1>10. \A i \in Filled(t) : t[i].key # s[dest].key BY <1>6, <1>7 DEF OneEach
<1>11. ASSUME NEW k \in Filled(s), k # dest PROVE s[k] \in Stored(t)
  <2>. DEFINE i == IF k \in dest + 1 .. last THEN k - 1 ELSE k
  <2>1. k \in 0 .. L - 1 BY <1>2 DEF Filled
  <2>2. i \in 0 .. L - 1 /\ i # last /\ From(dest, last, i) = k
    BY <1>3, <1>11, <2>1 DEF From
  <2>. HIDE DEF i
  <2>3. t[i] = s[k] /\ t[i] # NULL BY <1>1, <2>2 DEF Filled
  <2>. QED BY <1>2, <2>2, <2>3 DEF Stored, Filled
<1>12. Stored(t) = Stored(s) \ {s[dest]}
  <2>1. Stored(t) \subseteq Stored(s) BY <1>7 DEF Stored
  <2>2. s[dest] \notin Stored(t) BY <1>10 DEF Stored
  <2>3. ASSUME NEW e \in Stored(s), e # s[dest] PROVE e \in Stored(t)
    BY <1>11, <2>3 DEF Stored
  <2>. QED BY <2>1, <2>2, <2>3
<1>. QED BY <1>5, <1>6, <1>9, <1>10, <1>12 DEF Names, Stored, t

\* map_delete keeps the table good as long as it stays in it, and takes the entry
\* away.
LEMMA DeleteGood ==
  ASSUME NEW m, Good(m, TRUE), NEW dest \in 0 .. m.length - 1, m.slots[dest] # NULL,
         ~LeavesTable(m, dest)
  PROVE  LET t == DeleteAt(m, dest)
         IN  /\ Good(t, TRUE)
             /\ t.count < m.count
             /\ Stored(t.slots) = Stored(m.slots) \ {m.slots[dest]}
             /\ m.slots[dest].key \notin Names(t.slots)
<1>. DEFINE L == m.length
            s == m.slots
            last == dest + Shifted(m, dest)
            v == Shift(s, dest, last)
            t == DeleteAt(m, dest)
<1>1. /\ L \in Nat \ {0} /\ s \in Slots(L) /\ Sound(L, s, TRUE) /\ Table(m)
      /\ OneEach(s) /\ Uncrossed(L, s)
      /\ m.count = Cardinality(Filled(s))
  <2>1. Table(m) /\ Sound(L, s, TRUE) /\ OneEach(s) /\ Uncrossed(L, s) BY Zenon DEF Good
  <2>2. L \in Nat \ {0} /\ s \in Slots(L) /\ m.count = Cardinality(Filled(s))
    BY <2>1 DEF Table, MinLength
  <2>. QED BY <2>1, <2>2, Zenon
<1>2. last \in 0 .. L - 1 /\ Run(L, s, dest, last) BY <1>1, ShiftedRun
<1>3. t = [m EXCEPT !.count = @ - 1, !.slots = v]
  BY DEF DeleteAt, Shift
<1>. HIDE DEF last, t
<1>4. v \in Slots(L) /\ v[last] = NULL BY <1>1, <1>2, ShiftTypes
<1>5. Sound(L, v, TRUE) BY <1>1, <1>2, ShiftSound
<1>6. /\ OneEach(v)
      /\ Filled(v) = Filled(s) \ {last} /\ last \in Filled(s)
      /\ Stored(v) = Stored(s) \ {s[dest]}
      /\ s[dest].key \notin Names(v)
  BY <1>1, <1>2, ShiftContent
<1>. HIDE DEF v
<1>7. Uncrossed(L, v)
  <2>1. ASSUME NEW j \in 0 .. L - 1, v[j] # NULL PROVE ~OnWay(L, v[j], last, j)
    BY <1>2, <1>4, <1>5, <2>1 DEF Sound, Reaches
  <2>. QED BY <1>1, <1>2, <1>4, <2>1, EmptyUncrossed
<1>8. /\ m.count \in Nat /\ IsFiniteSet(Filled(s)) BY <1>1, Room DEF Table
<1>9. Cardinality(Filled(v)) = m.count - 1 /\ m.count - 1 \in Nat
  <2>1. Cardinality(Filled(s) \ {last}) = Cardinality(Filled(s)) - 1
    BY <1>6, <1>8, FS_RemoveElement
  <2>2. Cardinality(Filled(v)) \in Nat
    <3>1. Cardinality(Filled(v)) \in 0 .. L BY <1>1, <1>4, Room
    <3>. QED BY <3>1
  <2>. QED BY <1>1, <1>6, <2>1, <2>2
<1>10. /\ Table(t) /\ t.length = L /\ t.slots = v /\ t.count = m.count - 1
  <2>. DEFINE c == m.count - 1
  <2>1. c = Cardinality(Filled(v)) BY <1>9
  <2>2. t = With(m, v, c) BY <1>1, <1>3 DEF With, Table
  <2>. HIDE DEF c
  <2>3. Table(t) /\ t.length = m.length /\ t.slots = v /\ t.count = c
    BY <1>1, <1>4, <2>1, <2>2, TableWith
  <2>. QED BY <2>3 DEF c
<1>11. Good(t, TRUE) BY <1>5, <1>6, <1>7, <1>10 DEF Good
<1>12. t.count < m.count BY <1>8, <1>10
<1>. QED BY <1>6, <1>10, <1>11, <1>12 DEF t

-----------------------------------------------------------------------------
(* map_search *)

\* A key that is in the table is found where it is.
LEMMA SearchFinds ==
  ASSUME NEW m, NEW L \in Nat \ {0}, m.length = L, m.slots \in Slots(L),
         NEW key, NEW hash \in Nat, Found(m, key)
  PROVE  Search(m, key, hash) \in 0 .. L - 1 /\ Holds(m, key, Search(m, key, hash))
<1>. DEFINE around == Around(m, hash)
            a == hash % L
            Hits == {n \in 1 .. L : Holds(m, key, around[n])}
            First(n) == /\ Holds(m, key, around[n])
                        /\ \A l \in 1 .. n - 1 : ~Holds(m, key, around[l])
<1>1. a \in 0 .. L - 1 OBVIOUS
<1>2. ASSUME NEW n \in 1 .. L PROVE around[n] = (a + (n - 1)) % L
  <2>1. around[n] = (a + n - 1) % L BY DEF Around, Initial
  <2>2. a + n - 1 = a + (n - 1) BY <1>1
  <2>. HIDE DEF around
  <2>. QED BY <2>1, <2>2
<1>. HIDE DEF around, a
<1>3. ASSUME NEW n \in 1 .. L PROVE around[n] \in 0 .. L - 1
  <2>. DEFINE k == n - 1
  <2>1. k \in 0 .. L - 1 /\ around[n] = (a + k) % L BY <1>2
  <2>. HIDE DEF k
  <2>. QED BY <1>1, <2>1, AroundAhead
<1>4. PICK i \in 0 .. L - 1 : Holds(m, key, i)
  BY DEF Found, Slots
<1>5. \E n \in 1 .. L : around[n] = i
  <2>. DEFINE k == Ahead(L, a, i)
  <2>1. k \in 0 .. L - 1 BY <1>1, AheadType
  <2>. HIDE DEF k
  <2>2. k + 1 \in 1 .. L /\ (k + 1) - 1 = k BY <2>1
  <2>3. around[k + 1] = (a + k) % L BY <1>2, <2>2
  <2>4. (a + k) % L \in 0 .. L - 1 /\ Ahead(L, a, (a + k) % L) = k
    BY <1>1, <2>1, AroundAhead
  <2>. DEFINE p == (a + k) % L
  <2>. HIDE DEF p
  <2>5. p \in 0 .. L - 1 /\ Ahead(L, a, p) = Ahead(L, a, i) BY <2>4 DEF p, k
  <2>6. p = i BY <1>1, <2>5, AheadOnce
  <2>. QED BY <2>2, <2>3, <2>6 DEF p
<1>6. \E n \in 1 .. L : First(n)
  <2>1. Hits # {} /\ Hits \subseteq Nat BY <1>4, <1>5
  <2>2. PICK n \in Hits : \A k \in Hits : n <= k
    <3>. HIDE DEF Hits
    <3>. QED BY <2>1, SmallestElement
  <2>3. ASSUME NEW l \in 1 .. n - 1 PROVE ~Holds(m, key, around[l])
    <3>1. l \notin Hits BY <2>2
    <3>2. l \in 1 .. L BY <2>2
    <3>. QED BY <3>1, <3>2
  <2>. QED BY <2>2, <2>3
<1>. DEFINE n0 == CHOOSE n \in 1 .. L : First(n)
<1>7. n0 \in 1 .. L /\ Holds(m, key, around[n0])
  <2>1. n0 \in 1 .. L /\ First(n0)
    <3>. HIDE DEF First
    <3>. QED BY <1>6
  <2>. QED BY <2>1
<1>8. Search(m, key, hash) = around[n0] BY DEF Search, around
<1>. HIDE DEF n0
<1>. QED BY <1>3, <1>7, <1>8

-----------------------------------------------------------------------------
(* The content of a table *)

ContentOf(m) ==
  [k \in Keys |-> IF Found(m, k)
                  THEN m.slots[CHOOSE i \in Present(m) : m.slots[i].key = k].value
                  ELSE NULL]

\* A key is found where there is an entry with its name.
LEMMA FoundNames ==
  ASSUME NEW m, NEW key
  PROVE  Found(m, key) <=> key \in Names(m.slots)
BY DEF Found, Holds, Present, Names, Stored, Filled

\* With one entry each, the content of a key is the value of its entry.
LEMMA ContentIs ==
  ASSUME NEW m, OneEach(m.slots), NEW k \in Keys
  PROVE  /\ \A e \in Stored(m.slots) : e.key = k => ContentOf(m)[k] = e.value
         /\ k \notin Names(m.slots) => ContentOf(m)[k] = NULL
<1>1. ASSUME NEW e \in Stored(m.slots), e.key = k PROVE ContentOf(m)[k] = e.value
  <2>1. PICK j \in Filled(m.slots) : m.slots[j] = e BY DEF Stored
  <2>2. Filled(m.slots) = Present(m) BY DEF Filled, Present
  <2>. DEFINE i == CHOOSE i \in Present(m) : m.slots[i].key = k
  <2>3. i \in Present(m) /\ m.slots[i].key = k BY <1>1, <2>1, <2>2
  <2>. HIDE DEF i
  <2>4. i = j BY <1>1, <2>1, <2>2, <2>3 DEF OneEach
  <2>5. Found(m, k)
    <3>1. k \in Names(m.slots) BY <1>1 DEF Names
    <3>. QED BY <3>1, FoundNames
  <2>6. ContentOf(m)[k] = m.slots[i].value BY <2>5 DEF ContentOf, i
  <2>. QED BY <2>1, <2>4, <2>6
<1>2. ASSUME k \notin Names(m.slots) PROVE ContentOf(m)[k] = NULL
  <2>1. ~Found(m, k) BY <1>2, FoundNames
  <2>. QED BY <2>1 DEF ContentOf
<1>. QED BY <1>1, <1>2

\* An entry more is a value put.
LEMMA ContentPut ==
  ASSUME NEW m, NEW n, OneEach(m.slots), OneEach(n.slots), NEW e \in Entries,
         Stored(n.slots) = Stored(m.slots) \cup {e}
  PROVE  ContentOf(n) = [ContentOf(m) EXCEPT ![e.key] = e.value]
<1>1. DOMAIN ContentOf(m) = Keys /\ DOMAIN ContentOf(n) = Keys
      /\ ContentOf(n) = [k \in Keys |-> ContentOf(n)[k]]
  BY DEF ContentOf
<1>2. ASSUME NEW k \in Keys
      PROVE  ContentOf(n)[k] = IF k = e.key THEN e.value ELSE ContentOf(m)[k]
  <2>1. CASE k = e.key BY <2>1, ContentIs
  <2>2. CASE k # e.key /\ k \in Names(m.slots)
    <3>1. PICK f \in Stored(m.slots) : f.key = k BY <2>2 DEF Names
    <3>2. ContentOf(m)[k] = f.value BY <3>1, ContentIs
    <3>3. f \in Stored(n.slots) OBVIOUS
    <3>4. ContentOf(n)[k] = f.value BY <3>1, <3>3, ContentIs
    <3>. QED BY <2>2, <3>2, <3>4
  <2>3. CASE k # e.key /\ k \notin Names(m.slots)
    <3>1. k \notin Names(n.slots) BY <2>3 DEF Names
    <3>. QED BY <2>3, <3>1, ContentIs
  <2>. QED BY <2>1, <2>2, <2>3
<1>. QED BY <1>1, <1>2

\* An entry less is a value removed.
LEMMA ContentRemove ==
  ASSUME NEW m, NEW n, OneEach(m.slots), OneEach(n.slots), NEW e \in Stored(m.slots),
         Stored(n.slots) = Stored(m.slots) \ {e}, e.key \notin Names(n.slots)
  PROVE  ContentOf(n) = [ContentOf(m) EXCEPT ![e.key] = NULL]
<1>1. DOMAIN ContentOf(m) = Keys /\ DOMAIN ContentOf(n) = Keys
      /\ ContentOf(n) = [k \in Keys |-> ContentOf(n)[k]]
  BY DEF ContentOf
<1>2. ASSUME NEW k \in Keys
      PROVE  ContentOf(n)[k] = IF k = e.key THEN NULL ELSE ContentOf(m)[k]
  <2>1. CASE k = e.key BY <2>1, ContentIs
  <2>2. CASE k # e.key /\ k \in Names(m.slots)
    <3>1. PICK f \in Stored(m.slots) : f.key = k BY <2>2 DEF Names
    <3>2. ContentOf(m)[k] = f.value BY <3>1, ContentIs
    <3>3. f \in Stored(n.slots) BY <2>2, <3>1
    <3>4. ContentOf(n)[k] = f.value BY <3>1, <3>3, ContentIs
    <3>. QED BY <2>2, <3>2, <3>4
  <2>3. CASE k # e.key /\ k \notin Names(m.slots)
    <3>1. k \notin Names(n.slots) BY <2>3 DEF Names
    <3>. QED BY <2>3, <3>1, ContentIs
  <2>. QED BY <2>1, <2>2, <2>3
<1>. QED BY <1>1, <1>2

\* The content is that of the slots, whether the table is locked or not.
LEMMA ContentSame ==
  ASSUME NEW m, NEW n, n.slots = m.slots
  PROVE  ContentOf(n) = ContentOf(m)
BY DEF ContentOf, Found, Holds, Present

-----------------------------------------------------------------------------
(* The calls *)

\* Entries are in order, and there is one for each key, in a map that is deleted
\* from, where each key is inserted only when it is absent.
IInv == use \in Uses /\ Good(map, use.calls = "delete")

\* A key that was there still is.
KeepsNames == Names(map.slots) \subseteq Names(map'.slots)

\* What a step does, where the map is a dictionary.
Speaks == use.calls = "delete" => D!Next \/ UNCHANGED D!vars

LEMMA ContentHere == Content = ContentOf(map) /\ Content' = ContentOf(map')
BY DEF Content, ContentOf

\* Locking changes nothing else.
LEMMA LockedGood ==
  ASSUME NEW m, NEW ordered, Good(m, ordered)
  PROVE  LET t == [m EXCEPT !.locked = TRUE]
         IN  Good(t, ordered) /\ t.slots = m.slots
<1>. DEFINE t == [m EXCEPT !.locked = TRUE]
<1>1. Table(m) BY DEF Good
<1>2. /\ Table(t)
      /\ t.slots = m.slots /\ t.length = m.length
  BY <1>1 DEF Table
<1>. HIDE DEF t
<1>3. Good(t, ordered) BY <1>2 DEF Good
<1>. QED BY <1>2, <1>3 DEF t

\* A new map, empty.
LEMMA InitInv == Init => IInv /\ D!Init
<1>. SUFFICES ASSUME Init PROVE IInv /\ D!Init OBVIOUS
<1>1. MinLength \in Nat /\ MinLength >= MinLength BY DEF MinLength
<1>2. /\ Good(Empty(MinLength), use.calls = "delete")
      /\ Stored(Empty(MinLength).slots) = {}
  BY <1>1, EmptyGood
<1>3. IInv BY <1>2 DEF Init, IInv
<1>4. \A k \in Keys : ~Found(map, k)
  <2>1. Names(map.slots) = {} BY <1>2 DEF Init, Names
  <2>. QED BY <2>1, FoundNames
<1>5. Content = [k \in Keys |-> NULL] BY <1>4 DEF Content
<1>6. D!Init BY <1>5 DEF Init, D!Init
<1>. QED BY <1>3, <1>6

\* map_insert
LEMMA InsertStep ==
  ASSUME IInv, NEW k \in Keys, NEW v \in Values, Insert(k, v)
  PROVE  IInv' /\ KeepsNames /\ Speaks
<1>. DEFINE ordered == use.calls = "delete"
<1>1. ordered \in BOOLEAN /\ Good(map, ordered) /\ use \in Uses BY DEF IInv
<1>2. PICK hash \in use.hashes[k] :
        LET entry == [key |-> k, hash |-> hash, value |-> v]
        IN  IF Resizes(map, entry) /\ map.locked
            THEN fault' = "waits" /\ UNCHANGED map
            ELSE /\ \/ map' = InsertEntry(map, entry)
                    \/ use.calls = "delete" /\ map' \in FailedInsert(map, entry)
                 /\ UNCHANGED fault
  BY DEF Insert
<1>. DEFINE e == [key |-> k, hash |-> hash, value |-> v]
<1>3. hash \in Nat BY <1>1, HashMapAssumption
<1>4. e \in Entries /\ e.key = k /\ e.value = v BY <1>3 DEF Entries
<1>5. use' = use /\ answer' = answer BY DEF Insert
<1>6. ordered => k \notin Names(map.slots)
  <2>1. ordered => ~Found(map, k) BY DEF Insert
  <2>. QED BY <2>1, FoundNames
<1>7. \/ UNCHANGED map \/ map' = InsertEntry(map, e)
      \/ map' \in {map, [map EXCEPT !.locked = TRUE]}
  BY <1>2, Zenon DEF FailedInsert
<1>. HIDE DEF e, ordered
<1>8. Good(map', ordered) => IInv' BY <1>1, <1>5 DEF IInv, ordered
<1>9. CASE map'.slots = map.slots /\ Good(map', ordered)
  <2>1. Content' = Content BY <1>9, ContentHere, ContentSame
  <2>2. Speaks BY <1>5, <2>1 DEF Speaks, D!vars
  <2>. QED BY <1>8, <1>9, <2>2 DEF KeepsNames
<1>10. CASE map' = InsertEntry(map, e)
  <2>1. /\ Good(map', ordered)
        /\ Names(map.slots) \subseteq Names(map'.slots)
        /\ ordered => \/ Stored(map'.slots) = Stored(map.slots) \cup {e}
                      \/ map'.slots = map.slots
    BY <1>1, <1>4, <1>6, <1>10, InsertEntryGood
  <2>2. CASE map'.slots = map.slots BY <1>9, <2>1, <2>2
  <2>3. CASE map'.slots # map.slots
    <3>1. ASSUME ordered PROVE D!Next
      <4>1. OneEach(map.slots) /\ OneEach(map'.slots) BY <1>1, <2>1, <3>1 DEF Good
      <4>2. ContentOf(map') = [ContentOf(map) EXCEPT ![k] = v]
        BY <1>4, <2>1, <2>3, <3>1, <4>1, ContentPut
      <4>3. D!Put(k, v) BY <1>5, <4>2, ContentHere DEF D!Put
      <4>. QED BY <4>3 DEF D!Next
    <3>2. Speaks BY <3>1 DEF Speaks, ordered
    <3>. QED BY <1>8, <2>1, <3>2 DEF KeepsNames
  <2>. QED BY <2>2, <2>3
<1>11. CASE UNCHANGED map BY <1>1, <1>9, <1>11
<1>12. CASE map' = [map EXCEPT !.locked = TRUE]
  <2>1. Good(map', ordered) /\ map'.slots = map.slots BY <1>1, <1>12, LockedGood
  <2>. QED BY <1>9, <2>1
<1>. QED BY <1>7, <1>10, <1>11, <1>12

\* map_get
LEMMA GetStep ==
  ASSUME IInv, NEW k \in Keys, Get(k)
  PROVE  IInv' /\ KeepsNames /\ Speaks
<1>. DEFINE L == map.length
<1>1. use' = use /\ map' = map BY DEF Get
<1>2. IInv' /\ KeepsNames BY <1>1 DEF IInv, KeepsNames
<1>3. ASSUME use.calls = "delete" PROVE D!Next
  <2>1. OneEach(map.slots) /\ Table(map) BY <1>3 DEF IInv, Good
  <2>2. L \in Nat \ {0} /\ map.slots \in Slots(L) BY <2>1 DEF Table, MinLength
  <2>3. answer' = ContentOf(map)[k]
    <3>1. CASE Found(map, k)
      <4>1. PICK hash \in use.hashes[k] : answer' = map.slots[Search(map, k, hash)].value
        BY <3>1 DEF Get
      <4>2. hash \in Nat BY HashMapAssumption DEF IInv
      <4>. DEFINE i == Search(map, k, hash)
      <4>3. Holds(map, k, i) BY <2>2, <3>1, <4>2, SearchFinds
      <4>. HIDE DEF i
      <4>4. map.slots[i] \in Stored(map.slots) /\ map.slots[i].key = k
        BY <4>3 DEF Holds, Present, Stored, Filled
      <4>5. ContentOf(map)[k] = map.slots[i].value BY <2>1, <4>4, ContentIs
      <4>. QED BY <4>1, <4>5 DEF i
    <3>2. CASE ~Found(map, k)
      <4>1. answer' = NULL BY <3>2 DEF Get
      <4>2. k \notin Names(map.slots) BY <3>2, FoundNames
      <4>. QED BY <2>1, <4>1, <4>2, ContentIs
    <3>. QED BY <3>1, <3>2
  <2>4. D!Get(k) BY <1>1, <2>3, ContentHere DEF D!Get
  <2>. QED BY <2>4 DEF D!Next
<1>. QED BY <1>2, <1>3 DEF Speaks

\* map_delete
LEMMA DeleteStep ==
  ASSUME IInv, NEW k \in Keys, Delete(k)
  PROVE  IInv' /\ (KeepsNames \/ map'.count < map.count) /\ Speaks
<1>. DEFINE L == map.length
<1>1. use.calls = "delete" /\ use' = use /\ answer' = answer /\ Found(map, k)
  BY DEF Delete
<1>2. use \in Uses /\ Good(map, TRUE) BY <1>1 DEF IInv
<1>3. OneEach(map.slots) /\ Table(map) BY <1>2, Zenon DEF Good
<1>4. L \in Nat \ {0} /\ map.slots \in Slots(L) BY <1>3 DEF Table, MinLength
<1>5. PICK hash \in use.hashes[k] :
        LET dest == Search(map, k, hash)
        IN  \/ LeavesTable(map, dest) /\ UNCHANGED map
            \/ ~LeavesTable(map, dest) /\ map' = DeleteAt(map, dest)
  BY Zenon DEF Delete
<1>6. hash \in Nat BY <1>2, HashMapAssumption
<1>. DEFINE dest == Search(map, k, hash)
<1>7. dest \in 0 .. L - 1 /\ Holds(map, k, dest) BY <1>1, <1>4, <1>6, SearchFinds
<1>. HIDE DEF dest
<1>8. /\ map.slots[dest] # NULL /\ map.slots[dest].key = k
      /\ map.slots[dest] \in Stored(map.slots)
  BY <1>7 DEF Holds, Present, Stored, Filled
<1>9. CASE UNCHANGED map
  <2>1. IInv' /\ KeepsNames BY <1>1, <1>9 DEF IInv, KeepsNames
  <2>2. Content' = Content BY <1>9, ContentHere
  <2>3. Speaks BY <1>1, <2>2 DEF Speaks, D!vars
  <2>. QED BY <2>1, <2>3
<1>10. CASE ~LeavesTable(map, dest) /\ map' = DeleteAt(map, dest)
  <2>1. /\ Good(map', TRUE)
        /\ map'.count < map.count
        /\ Stored(map'.slots) = Stored(map.slots) \ {map.slots[dest]}
        /\ k \notin Names(map'.slots)
    BY <1>2, <1>7, <1>8, <1>10, DeleteGood
  <2>2. IInv' BY <1>1, <1>2, <2>1 DEF IInv
  <2>3. OneEach(map'.slots) BY <2>1, Zenon DEF Good
  <2>4. ContentOf(map') = [ContentOf(map) EXCEPT ![k] = NULL]
    BY <1>3, <1>8, <2>1, <2>3, ContentRemove
  <2>5. D!Remove(k) BY <1>1, <2>4, ContentHere DEF D!Remove
  <2>6. Speaks BY <2>5 DEF Speaks, D!Next
  <2>. QED BY <2>1, <2>2, <2>6
<1>. QED BY <1>5, <1>9, <1>10 DEF dest

\* Every call keeps the table good; no key goes but by map_delete; and where
\* there is one entry for each key every step is one of the dictionary.
LEMMA NextStep ==
  ASSUME IInv, [Next]_vars
  PROVE  IInv' /\ (KeepsNames \/ map'.count < map.count) /\ Speaks
<1>1. ASSUME NEW k \in Keys, NEW v \in Values, Insert(k, v)
      PROVE  IInv' /\ KeepsNames /\ Speaks
  BY <1>1, InsertStep
<1>2. ASSUME NEW k \in Keys, Get(k) PROVE IInv' /\ KeepsNames /\ Speaks
  BY <1>2, GetStep
<1>3. ASSUME NEW k \in Keys, Delete(k)
      PROVE  IInv' /\ (KeepsNames \/ map'.count < map.count) /\ Speaks
  BY <1>3, DeleteStep
<1>4. CASE UNCHANGED vars
  <2>1. use' = use /\ map' = map /\ answer' = answer BY <1>4 DEF vars
  <2>2. IInv' /\ KeepsNames BY <2>1 DEF IInv, KeepsNames
  <2>3. Content' = Content BY <2>1, ContentHere
  <2>4. Speaks BY <2>1, <2>3 DEF Speaks, D!vars
  <2>. QED BY <2>2, <2>4
<1>. QED BY <1>1, <1>2, <1>3, <1>4 DEF Next

-----------------------------------------------------------------------------
(* Theorems *)

\* The way of an entry, counted with %, has no gap.
LEMMA SoundNoGap == IInv => NoGap
<1>. SUFFICES ASSUME IInv, NEW i \in Present(map), NEW n \in 0 .. Distance(map, i)
              PROVE  (Initial(map, map.slots[i].hash) + n) % map.length \in Present(map)
  BY DEF NoGap
<1>. DEFINE L == map.length
            s == map.slots
            a == Home(L, s[i])
            p == (a + n) % L
<1>1. Table(map) /\ Sound(L, s, use.calls = "delete") BY DEF IInv, Good
<1>2. L \in Nat \ {0} /\ s \in Slots(L) BY <1>1 DEF Table, MinLength
<1>3. i \in 0 .. L - 1 /\ s[i] # NULL BY <1>2 DEF Present, Slots
<1>. HIDE DEF s, L
<1>4. a \in 0 .. L - 1 BY <1>2, <1>3, InSlot
<1>5. Initial(map, map.slots[i].hash) = a BY DEF Initial, Home, L, s
<1>6. Distance(map, i) = (L + i - a) % L BY <1>5 DEF Distance, L
<1>. HIDE DEF a
<1>7. (L + i - a) % L = Ahead(L, a, i)
  <2>. DEFINE x == i - a
  <2>1. CASE i < a
    <3>1. L + i - a = (L - a) + i /\ (L - a) + i \in 0 .. L - 1 BY <1>2, <1>3, <1>4, <2>1
    <3>. DEFINE y == (L - a) + i
    <3>2. y \in 0 .. L - 1 /\ L + i - a = y /\ Ahead(L, a, i) = y BY <2>1, <3>1 DEF Ahead
    <3>. HIDE DEF y
    <3>3. y % L = y BY <1>2, <3>2
    <3>. QED BY <3>2, <3>3
  <2>2. CASE ~(i < a)
    <3>1. x \in 0 .. L - 1 /\ L + i - a = x + L /\ Ahead(L, a, i) = x
      BY <1>2, <1>3, <1>4, <2>2 DEF Ahead
    <3>. HIDE DEF x
    <3>2. (x + L) % L = x BY <1>2, <3>1
    <3>. QED BY <3>1, <3>2
  <2>. QED BY <2>1, <2>2
<1>8. Ahead(L, a, i) \in 0 .. L - 1 BY <1>2, <1>3, <1>4, AheadType
<1>9. n \in 0 .. L - 1 /\ n <= Ahead(L, a, i) BY <1>2, <1>6, <1>7, <1>8
<1>10. p \in 0 .. L - 1 /\ Ahead(L, a, p) = n BY <1>2, <1>4, <1>9, AroundAhead
<1>. HIDE DEF p
<1>11. s[p] # NULL
  <2>1. CASE n = Ahead(L, a, i)
    <3>1. p = i BY <1>2, <1>3, <1>4, <1>10, <2>1, AheadOnce
    <3>. QED BY <1>3, <3>1
  <2>2. CASE n # Ahead(L, a, i)
    <3>1. Ahead(L, a, p) < Ahead(L, a, i) BY <1>8, <1>9, <1>10, <2>2
    <3>. QED BY <1>1, <1>3, <1>10, <3>1 DEF Sound, Reaches, OnWay, a, s, L
  <2>. QED BY <2>1, <2>2
<1>12. p \in Present(map) BY <1>2, <1>10, <1>11 DEF Present, Slots, s
<1>. QED BY <1>5, <1>12 DEF p, L

\* For any keys, hashes and values, and whatever is inserted, overwritten and
\* deleted: insertion, shifting back and resizing leave no hole between the first
\* bucket of an entry and its place, and no key goes but the one that map_delete
\* takes.
THEOREM NothingLost == Spec => NoKeyLost
<1>1. IInv /\ [Next]_vars => IInv' BY NextStep
<1>2. IInv /\ [Next]_vars => [KeepsKeys]_vars
  <2>. SUFFICES ASSUME IInv, [Next]_vars PROVE KeepsKeys OBVIOUS
  <2>1. KeepsNames \/ map'.count < map.count BY NextStep
  <2>2. \A k \in Keys : (Found(map, k) <=> k \in Names(map.slots))
                        /\ (Found(map', k) <=> k \in Names(map'.slots))
    BY FoundNames
  <2>. QED BY <2>1, <2>2 DEF KeepsKeys, KeepsNames
<1>. QED BY <1>1, <1>2, InitInv, SoundNoGap, PTL DEF Spec, NoKeyLost

\* A map into which a key is inserted only while it is absent does what the
\* dictionary says, for any keys and values, with hashes that change between the
\* calls, when the table is full, doubled, locked, or cannot be doubled.
THEOREM IsDictionary == Spec => ImplementsDictionary
<1>1. IInv /\ [Next]_vars => IInv' BY NextStep
<1>2. IInv /\ [Next]_vars => [use.calls = "delete" => D!Next \/ UNCHANGED D!vars]_vars
  <2>. SUFFICES ASSUME IInv, [Next]_vars
                PROVE  use.calls = "delete" => D!Next \/ UNCHANGED D!vars
    OBVIOUS
  <2>. QED BY NextStep DEF Speaks
<1>. QED BY <1>1, <1>2, InitInv, PTL DEF Spec, ImplementsDictionary

=============================================================================
