------------------------------ MODULE HashMap ------------------------------
(***************************************************************************)
(* The hash map of map.c: open addressing with robin hood insertion,       *)
(* deletion by shifting back, and doubling at a load of 3/4.               *)
(*                                                                         *)
(* It is the client_map of workspace.c (windows are inserted once, deleted *)
(* and searched) and the variables and items of the configuration (strings *)
(* are inserted, perhaps again, and never deleted).  A deleted entry and a *)
(* slot that never held one are both NULL: no branch tells them apart.     *)
(***************************************************************************)
EXTENDS Integers, FiniteSets

CONSTANTS
  Keys, Values, NULL,
  Uses,           \* what maps are used for: what is done to present keys, the
                  \* hashes the bytes of a key may give, and the number of
                  \* entries up to which keys are inserted
  Thresholds      \* MAP_FLAG_IGNORE_THRESHOLDS is not set

\* struct map_entry
Entries == [key : Keys, hash : Nat, value : Values]

\* get_client_list_key_size is the size of a pointer, so the hash of a window
\* takes in the four bytes after it: one window has several hashes.
ASSUME HashMapAssumption ==
  /\ NULL \notin Values
  /\ NULL \notin Entries
  /\ \A u \in Uses : /\ DOMAIN u = {"calls", "hashes", "bound"}
                     /\ u.calls \in {"overwrite", "delete"} /\ u.bound \in Nat
                     /\ \A k \in Keys : u.hashes[k] \subseteq Nat /\ u.hashes[k] # {}
  /\ Thresholds \in BOOLEAN

VARIABLES
  use,            \* what this map is used for
  map,            \* [length, count, slots, locked: its mutex is held]
  answer,         \* what the last map_get returned
  fault           \* "none", "outside": map_delete has left the table,
                  \* "waits": map_resize waits for a lock nobody gives back

vars == <<use, map, answer, fault>>

MinLength == 4

Empty(length) ==
  [length |-> length, count |-> 0, slots |-> [i \in 0 .. length - 1 |-> NULL],
   locked |-> FALSE]

Present(m) == {i \in DOMAIN m.slots : m.slots[i] # NULL}

Initial(m, hash) == hash % m.length

\* The positions of a search, once around the table.
Around(m, hash) == [n \in 1 .. m.length |-> (Initial(m, hash) + n - 1) % m.length]

GetDib(m, entry, i) ==
  LET initial == Initial(m, entry.hash)
  IN  IF i < initial THEN (m.length - i) + initial ELSE i - initial

(***************************************************************************)
(* Searching.                                                              *)
(***************************************************************************)
Holds(m, key, i) == i \in Present(m) /\ m.slots[i].key = key

Found(m, key) == \E i \in DOMAIN m.slots : Holds(m, key, i)

\* The first position with the key, starting at the one of the hash; holes
\* are passed over.
Search(m, key, hash) ==
  LET position == Around(m, hash)
  IN  position[CHOOSE n \in 1 .. m.length :
                 /\ Holds(m, key, position[n])
                 /\ \A l \in 1 .. n - 1 : ~Holds(m, key, position[l])]

(***************************************************************************)
(* Inserting.                                                              *)
(***************************************************************************)
\* Mutant: map_probe without carrying the displaced entry on.
ProbeStepDrops(m, probe, i) ==
  IF probe.hand = NULL THEN probe
  ELSE IF probe.slots[i] = NULL \/ GetDib(m, probe.slots[i], i) < GetDib(m, probe.hand, i)
  THEN [slots |-> [probe.slots EXCEPT ![i] = probe.hand], hand |-> NULL]
  ELSE probe

\* One step of map_probe: put the entry in hand down, or take up a richer one.
ProbeStep(m, probe, i) ==
  LET current == probe.slots[i]
  IN  CASE probe.hand = NULL -> probe
        [] probe.hand # NULL /\ current = NULL ->
             [slots |-> [probe.slots EXCEPT ![i] = probe.hand], hand |-> NULL]
        [] OTHER ->
             IF GetDib(m, current, i) < GetDib(m, probe.hand, i)
             THEN [slots |-> [probe.slots EXCEPT ![i] = probe.hand], hand |-> current]
             ELSE probe

\* The steps of map_probe, once around the table.
ProbeSteps(m, entry) ==
  LET probe[n \in 0 .. m.length] ==
        IF n = 0 THEN [slots |-> m.slots, hand |-> entry]
        ELSE ProbeStep(m, probe[n - 1], Around(m, entry.hash)[n])
  IN  probe

Probe(m, entry) == ProbeSteps(m, entry)[m.length].slots

\* A key is only recognised in the bucket where it would go first.
Overwrites(m, entry) == Holds(m, entry.key, Initial(m, entry.hash))

Full(m) == m.count + 1 > m.length

\* map_insert_entry where no resize is due.
InsertHere(m, entry) ==
  LET initial == Initial(m, entry.hash)
  IN  IF Overwrites(m, entry) THEN [m EXCEPT !.slots[initial] = entry]
      ELSE IF initial \notin Present(m)
      THEN [m EXCEPT !.slots[initial] = entry, !.count = @ + 1]
      ELSE IF Full(m) THEN m
      ELSE [m EXCEPT !.slots = Probe(m, entry), !.count = @ + 1]

Overloaded(m) == Thresholds /\ 4 * (m.count + 1) >= 3 * m.length

\* One step of the loop of map_resize: what is in bucket i of m is inserted.
Copy(m, new, i) ==
  IF i \in Present(m) THEN InsertHere(new, m.slots[i]) ELSE new

\* map_resize: the new table with the first n buckets of the old one.
Copies(m) ==
  LET new[n \in 0 .. m.length] ==
        IF n = 0 THEN Empty(2 * m.length) ELSE Copy(m, new[n - 1], n - 1)
  IN  new

Resize(m) == Copies(m)[m.length]

Resizes(m, entry) == ~Overwrites(m, entry) /\ Overloaded(m)

\* map_insert_entry.  The doubled table is never overloaded.
InsertEntry(m, entry) ==
  IF Resizes(m, entry) THEN InsertHere(Resize(m), entry) ELSE InsertHere(m, entry)

\* Mutant: the new table is put in place before the old one is copied.
FailedInsertEmpty(m, entry) ==
  IF Resizes(m, entry) THEN {m, [Empty(2 * m.length) EXCEPT !.locked = TRUE]} ELSE {m}

\* The same when an allocation fails: that of the entry, of the new table, or,
\* with the lock taken, of the copy of the old one.
FailedInsert(m, entry) ==
  IF Resizes(m, entry) THEN {m, [m EXCEPT !.locked = TRUE]} ELSE {m}

(***************************************************************************)
(* Deleting: the entries after the deleted one that are not in their first *)
(* bucket move back by one.  swap_index wraps around the table, dest_index *)
(* does not.                                                               *)
(***************************************************************************)
\* Mutant: the neighbours in their first bucket move as well.
MovableAny(m, i) == i \in Present(m)

Movable(m, i) == i \in Present(m) /\ GetDib(m, m.slots[i], i) # 0

\* How many entries move when the one at dest is deleted.
Shifted(m, dest) ==
  CHOOSE n \in 0 .. m.length - 1 :
    /\ \A j \in 1 .. n : Movable(m, (dest + j) % m.length)
    /\ n < m.length - 1 => ~Movable(m, (dest + n + 1) % m.length)

\* dest_index goes beyond the last bucket.
LeavesTable(m, dest) == dest + Shifted(m, dest) >= m.length

DeleteAt(m, dest) ==
  LET last == dest + Shifted(m, dest)
  IN  [m EXCEPT !.count = @ - 1,
                !.slots = [i \in DOMAIN m.slots |->
                             IF i = last THEN NULL
                             ELSE IF i \in dest .. last - 1 THEN m.slots[i + 1]
                             ELSE m.slots[i]]]

(***************************************************************************)
(* The calls.                                                              *)
(***************************************************************************)
Init ==
  /\ use \in Uses
  /\ map = Empty(MinLength)
  /\ answer = NULL
  /\ fault = "none"

\* map_insert.  The configuration gives up a map that it could not insert into;
\* the workspaces go on with client_map.
Insert(k, v) ==
  /\ fault = "none"
  /\ map.count < use.bound
  /\ use.calls = "overwrite" \/ ~Found(map, k)
  /\ \E hash \in use.hashes[k] :
       LET entry == [key |-> k, hash |-> hash, value |-> v]
       IN  IF Resizes(map, entry) /\ map.locked
           THEN fault' = "waits" /\ UNCHANGED map
           ELSE /\ \/ map' = InsertEntry(map, entry)
                   \/ use.calls = "delete" /\ map' \in FailedInsert(map, entry)
                /\ UNCHANGED fault
  /\ UNCHANGED <<use, answer>>

\* map_get
Get(k) ==
  /\ fault = "none"
  /\ IF Found(map, k)
     THEN \E hash \in use.hashes[k] : answer' = map.slots[Search(map, k, hash)].value
     ELSE answer' = NULL
  /\ UNCHANGED <<use, map, fault>>

\* map_delete
Delete(k) ==
  /\ fault = "none"
  /\ use.calls = "delete"
  /\ Found(map, k)
  /\ \E hash \in use.hashes[k] :
       LET dest == Search(map, k, hash)
       IN  \/ LeavesTable(map, dest) /\ fault' = "outside" /\ UNCHANGED map
           \/ ~LeavesTable(map, dest) /\ map' = DeleteAt(map, dest) /\ UNCHANGED fault
  /\ UNCHANGED <<use, answer>>

Next == \E k \in Keys : Get(k) \/ Delete(k) \/ \E v \in Values : Insert(k, v)

Spec == Init /\ [][Next]_vars

(***************************************************************************)
(* Properties.                                                             *)
(***************************************************************************)
\* The distance of position i from the first bucket of its entry.
Distance(m, i) == (m.length + i - Initial(m, m.slots[i].hash)) % m.length

\* Insertion, shifting back and resizing leave no hole between the bucket of
\* an entry and its place, which is what makes deletion by shifting possible.
NoGap ==
  \A i \in Present(map) : \A n \in 0 .. Distance(map, i) :
    (Initial(map, map.slots[i].hash) + n) % map.length \in Present(map)

Content ==
  [k \in Keys |-> IF Found(map, k)
                  THEN map.slots[CHOOSE i \in Present(map) : map.slots[i].key = k].value
                  ELSE NULL]

D == INSTANCE Dictionary WITH content <- Content

\* As long as each key is inserted only when it is absent, every call does what
\* the dictionary says, also with hashes that change between the calls; an
\* insertion without memory, into a full table, or into one that is locked
\* changes nothing.
ImplementsDictionary ==
  D!Init /\ [][use.calls = "delete" => D!Next \/ UNCHANGED D!vars]_vars

\* Inserting, with all it displaces and resizes, never loses another key.
KeepsKeys == \A k \in Keys : Found(map, k) /\ ~Found(map', k) => map'.count < map.count

\* Both, for strings that are inserted again and again as well as for windows.
NoKeyLost == []NoGap /\ [][KeepsKeys]_vars

\* map.c:284, "If there is a collision with the same key overwrite it".
OneEntryEach ==
  \A i, j \in Present(map) : map.slots[i].key = map.slots[j].key => i = j

\* map.c:130-131, "If the current entry has a lower dib then the entry we are
\* trying to insert then we swap the entries": after that an entry is at most
\* one bucket further from its first one than its neighbour before it.
RobinHood ==
  \A i \in Present(map) :
    LET next == (i + 1) % map.length
    IN  next \in Present(map) => Distance(map, next) <= Distance(map, i) + 1

\* map.h:23-24, "Deletion is performed using Emmanuel Goossaert's backward
\* shift deletion algorithm": it stays in the table.
DeletesInTable == fault # "outside"

\* map.c:73, "Attempt to lock the map", which is to fail if it cannot be locked
\* (it waits, after a resize that had no memory, forever).
NeverWaits == fault # "waits"
=============================================================================
