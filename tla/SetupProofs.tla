---------------------------- MODULE SetupProofs ----------------------------
(***************************************************************************)
(* Theorems about Setup, whatever the server is connected to, whatever the *)
(* configuration says, and wherever memory runs out or the connection is   *)
(* lost.                                                                   *)
(*                                                                         *)
(* A call of main is a set of outcomes, and a lemma about each says what   *)
(* they are: what is in memory after it has succeeded, and what is left    *)
(* after it has failed (Succeeds, Fails).  The exceptions have names:      *)
(* theme_create may follow a wild pointer (Astray), monitor_setup may read *)
(* a reply that is not there (Lost) or forget what it has found (Forgets). *)
(* natwm_state_destroy is the converse: it needs to find what it owns, and *)
(* leaves the rest (Owned, StateDestroyHas).  The invariant is then what   *)
(* main has at each of its calls (Stage).                                  *)
(*                                                                         *)
(* The last sections are about Parser, which is how the first of these     *)
(* calls reads a file: that each of its readers takes the parser on, the   *)
(* one of values by induction on the depth of the arrays (ValueOnward).    *)
(***************************************************************************)
EXTENDS Setup, Parser, FiniteSetTheorems, SequenceTheorems, WellFoundedInduction, TLAPS

\* A set of natural numbers that is not empty has a smallest element.
LEMMA SmallestElement ==
  ASSUME NEW S, S \subseteq Nat, S # {}
  PROVE  \E x \in S : \A y \in S : x <= y
<1>1. PICK x \in S : \A y \in S : ~(<<y, x>> \in OpToRel(<, Nat))
  BY WFMin, NatLessThanWellFounded, Zenon
<1>2. ASSUME NEW y \in S PROVE x <= y
  <2>1. ~(y < x) BY <1>1 DEF OpToRel
  <2>. QED BY <2>1
<1>. QED BY <1>2

\* What is true before a loop, and after a step if it was before it, is true
\* throughout.
LEMMA Throughout ==
  ASSUME NEW N \in Nat, NEW G, 0 \in G,
         \A n \in 0 .. N - 1 : n \in G => n + 1 \in G
  PROVE  \A n \in 0 .. N : n \in G
<1>. DEFINE Bad == {n \in 0 .. N : n \notin G}
<1>. SUFFICES ASSUME Bad # {} PROVE FALSE OBVIOUS
<1>. Bad \subseteq Nat OBVIOUS
<1>1. PICK x \in Bad : \A y \in Bad : x <= y
  <2>. HIDE DEF Bad
  <2>. QED BY SmallestElement
<1>2. x # 0 BY <1>1
<1>3. x - 1 \in 0 .. N - 1 /\ (x - 1) + 1 = x BY <1>1, <1>2
<1>4. x - 1 \notin Bad BY <1>1, <1>3
<1>. QED BY <1>1, <1>3, <1>4

-----------------------------------------------------------------------------
(* Memory *)

Fields == {"live", "set", "wild", "fault", "screenNum", "screen", "lost", "extension",
           "outputs", "entries", "offsets", "activeIndex", "focused", "visible",
           "shows", "written"}

\* A state of Setup, of which all but memory, the connection, and the offsets
\* are as in b.
Beside(s, b, offsets) ==
  /\ DOMAIN s = Fields
  /\ s.offsets = offsets
  /\ s.extension \in {"randr", "xinerama", "none"}
  /\ s.outputs = b.outputs /\ s.entries = b.entries
  /\ s.activeIndex = b.activeIndex /\ s.focused = b.focused /\ s.visible = b.visible
  /\ s.shows = b.shows /\ s.written = b.written

\* Its memory, with nothing wrong.
Has(s, live, set, wild) ==
  s.live = live /\ s.set = set /\ s.wild = wild /\ s.fault = "none"

\* What each of the operations on memory leaves.
LEMMA FreeAllHas ==
  ASSUME NEW b, NEW d, NEW L, NEW G, NEW W, NEW s, Beside(s, b, d), Has(s, L, G, W),
         NEW os, os \subseteq L
  PROVE  Beside(FreeAll(s, os), b, d) /\ Has(FreeAll(s, os), L \ os, G, W)
BY DEF Beside, Fields, FreeAll, Has

\* free.
LEMMA FreeHas ==
  ASSUME NEW b, NEW d, NEW L, NEW G, NEW W, NEW s, Beside(s, b, d), Has(s, L, G, W),
         NEW o \in L
  PROVE  Beside(Free(s, o), b, d) /\ Has(Free(s, o), L \ {o}, G, W)
BY DEF Beside, Fields, Free, Has

\* An assignment: a pointer that was wild is so no longer.
LEMMA AssignHas ==
  ASSUME NEW b, NEW d, NEW L, NEW G, NEW W, NEW s, Beside(s, b, d), Has(s, L, G, W),
         NEW o
  PROVE  Beside(Assign(s, o), b, d) /\ Has(Assign(s, o), L, G \cup {o}, W \ {o})
BY DEF Beside, Fields, Assign, Has

\* To follow a pointer to what is there changes nothing.
LEMMA UseHas ==
  ASSUME NEW L, NEW G, NEW W, NEW s, Has(s, L, G, W), NEW o \in L
  PROVE  Use(s, o) = s
BY DEF Use, Has

\* A call has succeeded or failed, with what is then in memory.
Succeeds(r, b, d, L, G, W) == r.ok = TRUE /\ Beside(r.state, b, d) /\ Has(r.state, L, G, W)
Fails(r, b, d, L, G, W) == r.ok = FALSE /\ Beside(r.state, b, d) /\ Has(r.state, L, G, W)

\* calloc fails, or there is one thing more.
LEMMA CallocHas ==
  ASSUME NEW b, NEW d, NEW L, NEW G, NEW W, NEW s, Beside(s, b, d), Has(s, L, G, W),
         NEW o, NEW r \in Calloc(s, o)
  PROVE  Fails(r, b, d, L, G, W) \/ Succeeds(r, b, d, L \cup {o}, G, W)
<1>1. r = Failed(s) \/ r = Done([s EXCEPT !.live = @ \cup {o}])
  BY DEF Calloc
<1>2. /\ Beside([s EXCEPT !.live = @ \cup {o}], b, d)
      /\ Has([s EXCEPT !.live = @ \cup {o}], L \cup {o}, G, W)
  BY DEF Beside, Fields, Has
<1> QED BY <1>1, <1>2 DEF Failed, Done, Succeeds, Fails

\* And it is kept.
LEMMA NewHas ==
  ASSUME NEW b, NEW d, NEW L, NEW G, NEW W, NEW s, Beside(s, b, d), Has(s, L, G, W),
         NEW o, NEW r \in New(s, o)
  PROVE  Fails(r, b, d, L, G, W) \/ Succeeds(r, b, d, L \cup {o}, G \cup {o}, W \ {o})
<1>1. PICK q \in Calloc(s, o) : r \in IF q.ok THEN {Done(Assign(q.state, o))} ELSE {q}
  BY DEF New, Then
<1>2. Fails(q, b, d, L, G, W) \/ Succeeds(q, b, d, L \cup {o}, G, W)
  BY CallocHas
<1>3. CASE Fails(q, b, d, L, G, W)
  BY <1>1, <1>3 DEF Fails
<1>4. CASE Succeeds(q, b, d, L \cup {o}, G, W)
  <2>1. r = Done(Assign(q.state, o))
    BY <1>1, <1>4 DEF Succeeds
  <2>2. /\ Beside(Assign(q.state, o), b, d)
        /\ Has(Assign(q.state, o), L \cup {o}, G \cup {o}, W \ {o})
    BY <1>4, AssignHas DEF Succeeds
  <2> QED BY <2>1, <2>2 DEF Succeeds, Done
<1> QED BY <1>2, <1>3, <1>4

\* The connection may be lost; memory is as it was.
LEMMA AskedHas ==
  ASSUME NEW b, NEW d, NEW L, NEW G, NEW W, NEW s, Beside(s, b, d), Has(s, L, G, W),
         NEW t \in Asked(s)
  PROVE  Beside(t, b, d) /\ Has(t, L, G, W)
<1>1. PICK l : t = [s EXCEPT !.lost = l]
  BY DEF Asked
<1> QED BY <1>1 DEF Beside, Fields, Has

\* The same where nothing is wild.
LEMMA NewHere ==
  ASSUME NEW b, NEW d, NEW L, NEW G, NEW s, Beside(s, b, d), Has(s, L, G, {}),
         NEW o, NEW r \in New(s, o)
  PROVE  Fails(r, b, d, L, G, {}) \/ Succeeds(r, b, d, L \cup {o}, G \cup {o}, {})
<1>1. Fails(r, b, d, L, G, {}) \/ Succeeds(r, b, d, L \cup {o}, G \cup {o}, {} \ {o})
  BY NewHas
<1>2. {} \ {o} = {}
  OBVIOUS
<1> QED BY <1>1, <1>2, Zenon

-----------------------------------------------------------------------------
(* The first calls of main *)

\* config_initialize_path leaves no buffer, whether it fails or not.
LEMMA ConfigOutcomes ==
  ASSUME NEW b, NEW d, NEW L, NEW G, NEW s, Beside(s, b, d), Has(s, L, G, {}),
         Buffer \notin L, NEW r \in ConfigInitializePath(s)
  PROVE  \/ \E g \in {G, G \cup {Buffer}} : Fails(r, b, d, L, g, {})
         \/ Succeeds(r, b, d, L \cup {Config}, G \cup {Buffer, Config}, {})
<1>1. CASE r = Failed(s)
  BY <1>1 DEF Failed, Fails
<1>2. ASSUME NEW q \in New(s, Buffer), ~q.ok, r = q
      PROVE  Fails(r, b, d, L, G, {})
  BY <1>2, NewHere DEF Succeeds
<1>3. ASSUME NEW q \in New(s, Buffer), q.ok,
             r \in OrElse(Then(New(q.state, Config), LAMBDA u : {Done(Free(u, Buffer))}),
                          LAMBDA u : Free(u, Buffer))
      PROVE  \/ Fails(r, b, d, L, G \cup {Buffer}, {})
             \/ Succeeds(r, b, d, L \cup {Config}, G \cup {Buffer, Config}, {})
  <2>1. Succeeds(q, b, d, L \cup {Buffer}, G \cup {Buffer}, {})
    BY <1>3, NewHere DEF Fails
  <2>2. PICK p \in Then(New(q.state, Config), LAMBDA u : {Done(Free(u, Buffer))}) :
          r = IF p.ok \/ Faulted(p.state) THEN p ELSE Failed(Free(p.state, Buffer))
    BY <1>3 DEF OrElse
  <2>3. PICK e \in New(q.state, Config) :
          p \in IF e.ok THEN {Done(Free(e.state, Buffer))} ELSE {e}
    BY <2>2 DEF Then
  <2>4. CASE Fails(e, b, d, L \cup {Buffer}, G \cup {Buffer}, {})
    <3>1. p = e /\ r = Failed(Free(e.state, Buffer))
      BY <2>2, <2>3, <2>4 DEF Fails, Has, Faulted
    <3>2. (L \cup {Buffer}) \ {Buffer} = L /\ Buffer \in L \cup {Buffer}
      OBVIOUS
    <3>3. /\ Beside(Free(e.state, Buffer), b, d)
          /\ Has(Free(e.state, Buffer), (L \cup {Buffer}) \ {Buffer}, G \cup {Buffer}, {})
      BY <2>4, <3>2, FreeHas DEF Fails
    <3> QED BY <3>1, <3>2, <3>3 DEF Fails, Failed
  <2>5. CASE Succeeds(e, b, d, L \cup {Buffer} \cup {Config}, G \cup {Buffer} \cup {Config}, {})
    <3>1. p = Done(Free(e.state, Buffer)) /\ p.ok
      <4>1. e.ok
        BY <2>5 DEF Succeeds
      <4>2. p = Done(Free(e.state, Buffer))
        BY <2>3, <4>1
      <4> QED BY <4>2 DEF Done
    <3>2. r = p
      BY <2>2, <3>1
    <3>3. Buffer # Config
      BY DEF Buffer, Config
    <3>4. /\ (L \cup {Buffer} \cup {Config}) \ {Buffer} = L \cup {Config}
          /\ G \cup {Buffer} \cup {Config} = G \cup {Buffer, Config}
      BY <3>3
    <3>5. /\ Beside(Free(e.state, Buffer), b, d)
          /\ Has(Free(e.state, Buffer), (L \cup {Buffer} \cup {Config}) \ {Buffer},
                 G \cup {Buffer} \cup {Config}, {})
      BY <2>5, FreeHas DEF Succeeds
    <3> QED BY <3>1, <3>2, <3>4, <3>5 DEF Succeeds, Done
  <2> QED BY <2>1, <2>3, <2>4, <2>5, NewHere DEF Succeeds
<1> QED BY <1>1, <1>2, <1>3 DEF ConfigInitializePath, Then

\* make_connection and find_default_screen.
LEMMA ConnectOutcomes ==
  ASSUME NEW b, NEW d, NEW L, NEW G, NEW s, Beside(s, b, d), Has(s, L, G, {}),
         NEW r \in Then(MakeConnection(s), LAMBDA t : {Done(u) : u \in FindDefaultScreen(t)})
  PROVE  Fails(r, b, d, L, G, {}) \/ Succeeds(r, b, d, L \cup {X}, G \cup {X}, {})
<1>1. PICK q \in New(s, X) :
        r \in IF q.ok THEN {Done(u) : u \in FindDefaultScreen(q.state)} ELSE {q}
  BY DEF Then, MakeConnection
<1>2. CASE Fails(q, b, d, L, G, {})
  BY <1>1, <1>2 DEF Fails
<1>3. CASE Succeeds(q, b, d, L \cup {X}, G \cup {X}, {})
  <2>1. PICK n : r = Done([q.state EXCEPT !.screen = n])
    BY <1>1, <1>3 DEF Succeeds, FindDefaultScreen
  <2>2. /\ Beside([q.state EXCEPT !.screen = n], b, d)
        /\ Has([q.state EXCEPT !.screen = n], L \cup {X}, G \cup {X}, {})
    BY <1>3 DEF Succeeds, Beside, Fields, Has
  <2> QED BY <2>1, <2>2 DEF Succeeds, Done
<1> QED BY <1>2, <1>3, NewHere

\* event_subscribe_to_root keeps nothing.
LEMMA SubscribeOutcomes ==
  ASSUME NEW b, NEW d, NEW L, NEW G, NEW s, Beside(s, b, d), Has(s, L, G, {}),
         X \in L, NEW r \in Subscribe(s)
  PROVE  Fails(r, b, d, L, G, {}) \/ Succeeds(r, b, d, L, G, {})
<1>1. Use(s, X) = s
  BY UseHas
<1>2. r = Failed(s) \/ \E t \in Asked(s) : r = Done(t)
  BY <1>1 DEF Subscribe
<1> QED BY <1>2, AskedHas DEF Failed, Done, Fails, Succeeds

\* ewmh_create and ewmh_init: all of it or nothing.
LEMMA EwmhOutcomes ==
  ASSUME NEW b, NEW d, NEW L, NEW G, NEW s, Beside(s, b, d), Has(s, L, G, {}),
         Ewmh \notin L, NEW r \in EwmhCreate(s)
  PROVE  \/ Fails(r, b, d, L, G, {})
         \/ Succeeds(r, b, d, L \cup {Ewmh, Window}, G \cup {Ewmh, Window}, {})
<1>1. PICK q \in Then(Calloc(s, Ewmh),
                      LAMBDA t : {IF u.lost THEN Failed(Free(u, Ewmh)) ELSE Done(Assign(u, Ewmh)) :
                                    u \in Asked(t)}) :
        r \in IF q.ok
              THEN {Done([Assign(q.state, Window) EXCEPT !.live = @ \cup {Window}])}
              ELSE {q}
  BY DEF EwmhCreate, Then
<1>2. PICK e \in Calloc(s, Ewmh) :
        q \in IF e.ok
              THEN {IF u.lost THEN Failed(Free(u, Ewmh)) ELSE Done(Assign(u, Ewmh)) :
                      u \in Asked(e.state)}
              ELSE {e}
  BY <1>1 DEF Then
<1>3. CASE Fails(e, b, d, L, G, {})
  <2>1. q = e /\ r = e
    BY <1>1, <1>2, <1>3 DEF Fails
  <2> QED BY <1>3, <2>1
<1>4. CASE Succeeds(e, b, d, L \cup {Ewmh}, G, {})
  <2>1. PICK u \in Asked(e.state) :
          q = IF u.lost THEN Failed(Free(u, Ewmh)) ELSE Done(Assign(u, Ewmh))
    BY <1>2, <1>4 DEF Succeeds
  <2>2. Beside(u, b, d) /\ Has(u, L \cup {Ewmh}, G, {})
    BY <1>4, <2>1, AskedHas DEF Succeeds
  <2>3. CASE u.lost
    <3>1. r = Failed(Free(u, Ewmh))
      BY <1>1, <2>1, <2>3 DEF Failed
    <3>2. Beside(Free(u, Ewmh), b, d) /\ Has(Free(u, Ewmh), (L \cup {Ewmh}) \ {Ewmh}, G, {})
      BY <2>2, FreeHas
    <3>3. (L \cup {Ewmh}) \ {Ewmh} = L
      OBVIOUS
    <3> QED BY <3>1, <3>2, <3>3 DEF Failed, Fails
  <2>4. CASE ~u.lost
    <3> DEFINE v == Assign(u, Ewmh)
               w == Assign(v, Window)
               x == [w EXCEPT !.live = @ \cup {Window}]
    <3>1. q.ok /\ q.state = v /\ r = Done(x)
      BY <1>1, <2>1, <2>4 DEF Done
    <3>2. Beside(v, b, d) /\ Has(v, L \cup {Ewmh}, G \cup {Ewmh}, {} \ {Ewmh})
      BY <2>2, AssignHas
    <3> HIDE DEF v
    <3>3. /\ Beside(w, b, d)
          /\ Has(w, L \cup {Ewmh}, G \cup {Ewmh} \cup {Window}, ({} \ {Ewmh}) \ {Window})
      BY <3>2, AssignHas
    <3> HIDE DEF w
    <3>4. Beside(x, b, d) /\ Has(x, L \cup {Ewmh, Window}, G \cup {Ewmh, Window}, {})
      BY <3>3 DEF Beside, Fields, Has
    <3> QED BY <3>1, <3>4 DEF Succeeds, Done
  <2> QED BY <2>3, <2>4
<1> QED BY <1>2, <1>3, <1>4, CallocHas

\* button_state_create goes on without the modifiers.
LEMMA ButtonsOutcomes ==
  ASSUME NEW b, NEW d, NEW L, NEW G, NEW s, Beside(s, b, d), Has(s, L, G, {}),
         NEW r \in ButtonStateCreate(s)
  PROVE  \/ Fails(r, b, d, L, G, {})
         \/ \E os \in {{ButtonState}, {ButtonState, Modifiers}} :
              Succeeds(r, b, d, L \cup os, G \cup os, {})
<1>1. PICK q \in New(s, ButtonState) :
        r \in IF q.ok THEN {Done(q.state)} \cup {p \in New(q.state, Modifiers) : p.ok} ELSE {q}
  BY DEF ButtonStateCreate, Then
<1>2. CASE Fails(q, b, d, L, G, {})
  BY <1>1, <1>2 DEF Fails
<1>3. CASE Succeeds(q, b, d, L \cup {ButtonState}, G \cup {ButtonState}, {})
  <2>1. r = Done(q.state) \/ (r.ok /\ r \in New(q.state, Modifiers))
    BY <1>1, <1>3 DEF Succeeds
  <2>2. CASE r = Done(q.state)
    BY <1>3, <2>2 DEF Done, Succeeds
  <2>3. CASE r.ok /\ r \in New(q.state, Modifiers)
    <3>1. Succeeds(r, b, d, L \cup {ButtonState} \cup {Modifiers},
                   G \cup {ButtonState} \cup {Modifiers}, {})
      BY <1>3, <2>3, NewHere DEF Succeeds, Fails
    <3>2. /\ L \cup {ButtonState} \cup {Modifiers} = L \cup {ButtonState, Modifiers}
          /\ G \cup {ButtonState} \cup {Modifiers} = G \cup {ButtonState, Modifiers}
      OBVIOUS
    <3> QED BY <3>1, <3>2
  <2> QED BY <2>1, <2>2, <2>3
<1> QED BY <1>2, <1>3, NewHere

-----------------------------------------------------------------------------
(* Loops *)

\* What a loop does in its i-th round, in t.
Round(kind, t, i) ==
  CASE kind = "shade"     -> ColorValue(t, Shade(i))
    [] kind = "workspace" -> WorkspaceCreate(t, i - 1)
    [] kind = "output"    -> RandrOutput(t, i)
    [] kind = "randr"     -> RandrMove(t, i)
    [] kind = "xinerama"  -> XineramaMove(t, i)

AfterRound(kind, outcomes, i) ==
  UNION {IF r.ok THEN Round(kind, r.state, i) ELSE {r} : r \in outcomes}

\* What comes of x in the i-th round, where p is what the loop is about.
After(kind, p, x, i) ==
  CASE kind = "position" -> x + NameLength(p, i - 1) + 1
    [] kind = "destroy"  -> WorkspaceRelease(x, i - 1)
    [] kind = "offset"   -> SetNext(p, x, i)
    [] kind = "cut"      -> Min({p.end} \cup {d \in p.commas : d > x})
    [] kind = "items"    -> IF x = NULL \/ p.strings[i] = NULL THEN NULL
                            ELSE IF p.item[x.pos][p.strings[i]] = NULL THEN NULL
                            ELSE [values |-> Append(x.values, p.item[x.pos][p.strings[i]].value),
                                  pos |-> p.item[x.pos][p.strings[i]].pos]
    [] kind = "value"    -> [q \in DOMAIN file |-> [s \in Strings |->
                               IF Head(s) = "[" THEN ParseArray(x, q, s)
                               ELSE IF ParseScalar(s) = NULL THEN NULL
                               ELSE [value |-> ParseScalar(s), pos |-> q]]]
    [] OTHER             -> AfterRound(kind, x, i)

\* f is how a loop of n rounds goes that begins with x.
Goes(f, n, kind, p, x) ==
  f = [i \in 0 .. n |-> IF i = 0 THEN x ELSE After(kind, p, f[i - 1], i)]

\* A loop over the calls of one kind, from one to the next.
LEMMA Going ==
  ASSUME NEW n \in Nat, NEW kind, NEW p, NEW x
  PROVE  \E f : Goes(f, n, kind, p, x)
<1> DEFINE G == {k \in 0 .. n : \E f : Goes(f, k, kind, p, x)}
<1>1. 0 \in G
  <2> DEFINE f == [i \in 0 .. 0 |-> x]
  <2>1. Goes(f, 0, kind, p, x)
    BY DEF Goes
  <2>2. 0 \in 0 .. n
    OBVIOUS
  <2> HIDE DEF f
  <2> QED BY <2>1, <2>2
<1>2. ASSUME NEW k \in 0 .. n - 1, k \in G PROVE k + 1 \in G
  <2>1. PICK f : Goes(f, k, kind, p, x)
    BY <1>2
  <2> DEFINE g == [i \in 0 .. k + 1 |-> IF i = k + 1 THEN After(kind, p, f[k], i) ELSE f[i]]
  <2>2. ASSUME NEW i \in 0 .. k + 1
        PROVE  g[i] = IF i = 0 THEN x ELSE After(kind, p, g[i - 1], i)
    <3>1. CASE i = k + 1
      <4>1. k + 1 - 1 = k /\ k \in 0 .. k + 1 /\ k # k + 1 /\ i # 0
        BY <3>1
      <4>2. g[i] = After(kind, p, f[k], i) /\ g[i - 1] = f[k]
        BY <3>1, <4>1
      <4> QED BY <4>1, <4>2
    <3>2. CASE i # k + 1
      <4>1. i \in 0 .. k /\ (i # 0 => i - 1 \in 0 .. k + 1 /\ i - 1 # k + 1)
        BY <3>2
      <4>2. g[i] = f[i] /\ (i # 0 => g[i - 1] = f[i - 1])
        BY <3>2, <4>1
      <4>3. f[i] = IF i = 0 THEN x ELSE After(kind, p, f[i - 1], i)
        BY <2>1, <4>1 DEF Goes
      <4> QED BY <4>2, <4>3
    <3> QED BY <3>1, <3>2
  <2>3. g = [i \in 0 .. k + 1 |-> g[i]]
    OBVIOUS
  <2> HIDE DEF g
  <2>4. Goes(g, k + 1, kind, p, x)
    BY <2>2, <2>3 DEF Goes
  <2>5. k + 1 \in 0 .. n
    OBVIOUS
  <2> QED BY <2>4, <2>5
<1>3. n \in G
  <2> HIDE DEF G
  <2>1. \A k \in 0 .. n : k \in G
    BY <1>1, <1>2, Throughout
  <2> QED BY <2>1
<1> QED BY <1>3

\* The same for calls that may fail, where f are the outcomes.
GoesOn(f, n, kind, t) ==
  f = [i \in 0 .. n |-> IF i = 0 THEN {Done(t)} ELSE AfterRound(kind, f[i - 1], i)]

\* Its outcomes after one more call.
LEMMA GoingOn ==
  ASSUME NEW n \in Nat, NEW kind, kind \in {"shade", "workspace", "output", "randr", "xinerama"},
         NEW t
  PROVE  \E f : GoesOn(f, n, kind, t)
<1>1. \A x, i : After(kind, t, x, i) = AfterRound(kind, x, i)
  BY DEF After
<1>2. PICK f : Goes(f, n, kind, t, {Done(t)})
  BY Going
<1>3. GoesOn(f, n, kind, t)
  BY <1>1, <1>2 DEF Goes, GoesOn
<1> QED BY <1>3

\* The loop over the values of an option is such a loop.
LEMMA ShadeRounds ==
  ASSUME NEW s
  PROVE  \E f : GoesOn(f, 4, "shade", s) /\ ColorValues(s) = f[4]
<1> DEFINE B(f, i) == IF i = 0 THEN {Done(s)}
                      ELSE UNION {IF r.ok THEN ColorValue(r.state, Shade(i)) ELSE {r} : r \in f[i - 1]}
           g == CHOOSE f : f = [i \in 0 .. 4 |-> B(f, i)]
<1>1. \A outcomes, i : AfterRound("shade", outcomes, i)
        = UNION {IF r.ok THEN ColorValue(r.state, Shade(i)) ELSE {r} : r \in outcomes}
  BY DEF AfterRound, Round
<1>2. \A f : GoesOn(f, 4, "shade", s) <=> f = [i \in 0 .. 4 |-> B(f, i)]
  BY <1>1 DEF GoesOn
<1>3. \E f : f = [i \in 0 .. 4 |-> B(f, i)]
  BY <1>2, GoingOn
<1>4. g = [i \in 0 .. 4 |-> B(g, i)]
  BY <1>3, Zenon
<1>5. ColorValues(s) = g[4]
  BY Zenon DEF ColorValues, ForEach, Rounds, Then
<1> HIDE DEF g
<1> QED BY <1>2, <1>4, <1>5

\* The rounds of a loop, one by one.
LEMMA RoundByRound ==
  ASSUME NEW n \in Nat, NEW f, NEW kind, NEW t, GoesOn(f, n, kind, t)
  PROVE  /\ f[0] = {Done(t)}
         /\ \A i \in 0 .. n - 1 : \A r \in f[i + 1] : \E q \in f[i] :
              IF q.ok THEN r \in Round(kind, q.state, i + 1) ELSE r = q
<1>1. f[0] = {Done(t)}
  BY DEF GoesOn
<1>2. ASSUME NEW i \in 0 .. n - 1, NEW r \in f[i + 1]
      PROVE  \E q \in f[i] : IF q.ok THEN r \in Round(kind, q.state, i + 1) ELSE r = q
  <2>1. f[i + 1] = AfterRound(kind, f[i], i + 1)
    <3>1. i + 1 \in 0 .. n /\ i + 1 # 0 /\ (i + 1) - 1 = i
      OBVIOUS
    <3> QED BY <3>1 DEF GoesOn
  <2> QED BY <2>1 DEF AfterRound
<1> QED BY <1>1, <1>2

-----------------------------------------------------------------------------
(* The theme *)

ShadesTo(n) == {Shade(k) : k \in 1 .. n}

\* After any number of them, those there are have been kept.
LEMMA ShadesOutcomes ==
  ASSUME NEW b, NEW d, NEW L, NEW G, NEW W, NEW s, Beside(s, b, d), Has(s, L, G, W),
         Shades \cap W = {},
         NEW r \in ColorValues(s)
  PROVE  \/ \E n \in 0 .. 3 : Fails(r, b, d, L \cup ShadesTo(n), G \cup ShadesTo(n), W)
         \/ Succeeds(r, b, d, L \cup Shades, G \cup Shades, W)
<1>1. PICK f : GoesOn(f, 4, "shade", s) /\ ColorValues(s) = f[4]
  BY ShadeRounds
<1> DEFINE P(n, q) == \/ \E m \in 0 .. 3 : Fails(q, b, d, L \cup ShadesTo(m), G \cup ShadesTo(m), W)
                      \/ Succeeds(q, b, d, L \cup ShadesTo(n), G \cup ShadesTo(n), W)
           I == {n \in 0 .. 4 : \A q \in f[n] : P(n, q)}
<1>2. 0 \in I
  <2>1. ShadesTo(0) = {}
    BY DEF ShadesTo
  <2>2. \A q \in f[0] : q = Done(s)
    BY <1>1, RoundByRound
  <2>3. P(0, Done(s))
    BY <2>1 DEF Done, Succeeds
  <2> HIDE DEF P
  <2> QED BY <2>2, <2>3
<1>3. ASSUME NEW n \in 0 .. 3, n \in I PROVE n + 1 \in I
  <2>1. ASSUME NEW q \in f[n + 1] PROVE P(n + 1, q)
    <3>1. PICK p \in f[n] : IF p.ok THEN q \in Round("shade", p.state, n + 1) ELSE q = p
      BY <1>1, RoundByRound
    <3>2. P(n, p)
      BY <1>3
    <3>3. CASE \E m \in 0 .. 3 : Fails(p, b, d, L \cup ShadesTo(m), G \cup ShadesTo(m), W)
      BY <3>1, <3>3 DEF Fails
    <3>4. CASE Succeeds(p, b, d, L \cup ShadesTo(n), G \cup ShadesTo(n), W)
      <4>1. q \in New(p.state, Shade(n + 1))
        BY <3>1, <3>4 DEF Succeeds, Round, ColorValue
      <4>2. /\ (L \cup ShadesTo(n)) \cup {Shade(n + 1)} = L \cup ShadesTo(n + 1)
            /\ (G \cup ShadesTo(n)) \cup {Shade(n + 1)} = G \cup ShadesTo(n + 1)
        BY DEF ShadesTo
      <4>3. W \ {Shade(n + 1)} = W
        BY DEF Shades
      <4>4. \/ Fails(q, b, d, L \cup ShadesTo(n), G \cup ShadesTo(n), W)
            \/ Succeeds(q, b, d, (L \cup ShadesTo(n)) \cup {Shade(n + 1)},
                        (G \cup ShadesTo(n)) \cup {Shade(n + 1)}, W \ {Shade(n + 1)})
        BY <3>4, <4>1, NewHas DEF Succeeds
      <4> QED BY <4>2, <4>3, <4>4
    <3> QED BY <3>2, <3>3, <3>4
  <2> HIDE DEF P
  <2> QED BY <2>1
<1>4. 4 \in I
  <2> HIDE DEF I
  <2>1. \A n \in 0 .. 3 : n \in I => n + 1 \in I
    BY <1>3
  <2>2. \A n \in 0 .. 4 : n \in I
    BY <1>2, <2>1, Throughout
  <2> QED BY <2>2
<1>5. r \in f[4]
  BY <1>1
<1>6. P(4, r)
  BY <1>4, <1>5
<1>7. ShadesTo(4) = Shades
  BY DEF ShadesTo, Shades
<1> QED BY <1>6, <1>7

\* The theme's pointers that are in memory nobody has written to.
Unset4 == {BorderWidth, Color, ResizeBackground, ResizeBorder}

\* color_theme_from_config returns what it has made if it fails.
LEMMA ColorsOutcomes ==
  ASSUME NEW b, NEW d, NEW L, NEW G, NEW W, NEW s, Beside(s, b, d), Has(s, L, G, W),
         W \subseteq Unset4, Color \notin L, L \cap Shades = {}, G \cap Shades = {},
         NEW r \in ColorThemeFromConfig(s)
  PROVE  \/ \E g \in SUBSET Shades : Fails(r, b, d, L, G \cup g, W)
         \/ Succeeds(r, b, d, L \cup {Color} \cup Shades, G \cup {Color} \cup Shades, W \ {Color})
<1>0. Color \notin Shades /\ W \cap Shades = {}
  BY DEF Color, Shades, Shade, Unset4, BorderWidth, ResizeBackground, ResizeBorder
<1>1. PICK q \in Then(Calloc(s, Color),
                      LAMBDA t : OrElse(ColorValues(t),
                                        ColorThemeDestroy)) :
        r \in IF q.ok THEN {Done(Assign(q.state, Color))} ELSE {q}
  BY DEF ColorThemeFromConfig, Then
<1>2. PICK e \in Calloc(s, Color) :
        q \in IF e.ok
              THEN OrElse(ColorValues(e.state),
                          ColorThemeDestroy)
              ELSE {e}
  BY <1>1 DEF Then
<1>3. CASE Fails(e, b, d, L, G, W)
  <2>1. q = e /\ r = e
    BY <1>1, <1>2, <1>3 DEF Fails
  <2>2. G \cup {} = G /\ {} \in SUBSET Shades
    OBVIOUS
  <2> QED BY <1>3, <2>1, <2>2
<1>4. CASE Succeeds(e, b, d, L \cup {Color}, G, W)
  <2>1. PICK p \in ColorValues(e.state) :
          q = IF p.ok \/ Faulted(p.state) THEN p ELSE Failed(ColorThemeDestroy(p.state))
    BY <1>2, <1>4 DEF Succeeds, OrElse
  <2>2. \/ \E n \in 0 .. 3 : Fails(p, b, d, L \cup {Color} \cup ShadesTo(n), G \cup ShadesTo(n), W)
        \/ Succeeds(p, b, d, L \cup {Color} \cup Shades, G \cup Shades, W)
    BY <1>0, <1>4, ShadesOutcomes DEF Succeeds
  <2>3. ASSUME NEW n \in 0 .. 3,
               Fails(p, b, d, L \cup {Color} \cup ShadesTo(n), G \cup ShadesTo(n), W)
        PROVE  \E g \in SUBSET Shades : Fails(r, b, d, L, G \cup g, W)
    <3> DEFINE os == {Color} \cup (Shades \cap p.state.set)
    <3>1. ShadesTo(n) \subseteq Shades
      BY DEF ShadesTo, Shades
    <3>2. os = {Color} \cup ShadesTo(n)
      BY <2>3, <3>1 DEF Fails, Has
    <3>3. q = Failed(FreeAll(p.state, os))
      BY <2>1, <2>3 DEF Fails, Has, Faulted, ColorThemeDestroy
    <3>4. os \subseteq L \cup {Color} \cup ShadesTo(n)
          /\ (L \cup {Color} \cup ShadesTo(n)) \ os = L
      BY <1>0, <3>1, <3>2
    <3> HIDE DEF os
    <3>5. /\ Beside(FreeAll(p.state, os), b, d)
          /\ Has(FreeAll(p.state, os), (L \cup {Color} \cup ShadesTo(n)) \ os, G \cup ShadesTo(n), W)
      BY <2>3, <3>4, FreeAllHas DEF Fails
    <3>6. r = q
      BY <1>1, <3>3 DEF Failed
    <3>7. Fails(r, b, d, L, G \cup ShadesTo(n), W)
      BY <3>3, <3>4, <3>5, <3>6 DEF Fails, Failed
    <3> QED BY <3>1, <3>7
  <2>4. CASE Succeeds(p, b, d, L \cup {Color} \cup Shades, G \cup Shades, W)
    <3>1. p.ok = TRUE
      BY <2>4 DEF Succeeds
    <3>2. q = p /\ r = Done(Assign(p.state, Color))
      BY <1>1, <2>1, <3>1
    <3>3. /\ Beside(Assign(p.state, Color), b, d)
          /\ Has(Assign(p.state, Color), L \cup {Color} \cup Shades,
                 G \cup Shades \cup {Color}, W \ {Color})
      BY <2>4, AssignHas DEF Succeeds
    <3>4. G \cup Shades \cup {Color} = G \cup {Color} \cup Shades
      OBVIOUS
    <3> QED BY <3>2, <3>3, <3>4 DEF Succeeds, Done
  <2> QED BY <2>2, <2>3, <2>4
<1> QED BY <1>2, <1>3, <1>4, CallocHas

\* A wild pointer of the theme has been followed.
Astray(s, b, d) ==
  Beside(s, b, d) /\ s.fault = "memory" /\ s.wild \cap {BorderWidth, Color} # {}

\* What happens after a wild pointer was followed does not matter any more.
LEMMA AstrayStays ==
  ASSUME NEW b, NEW d, NEW s, Astray(s, b, d)
  PROVE  /\ \A os : Astray(FreeAll(s, os), b, d)
         /\ \A o : Astray(Free(s, o), b, d)
         /\ \A o : Astray(Fault(s, "memory"), b, d)
BY DEF Astray, Beside, Fields, FreeAll, Free, Fault

\* It is followed as soon as it is to be released.
LEMMA GoesAstray ==
  ASSUME NEW b, NEW d, NEW L, NEW G, NEW W, NEW s, Beside(s, b, d), Has(s, L, G, W),
         W \cap {BorderWidth, Color} # {}
  PROVE  Astray(Fault(s, "memory"), b, d)
BY DEF Astray, Beside, Fields, Fault, Has

\* theme_destroy follows the border width or the colours, if either is wild.
LEMMA ThemeDestroyAstray ==
  ASSUME NEW b, NEW d, NEW L, NEW G, NEW W, NEW s, Beside(s, b, d), Has(s, L, G, W),
         W \cap {BorderWidth, Color} # {},
         BorderWidth \in G /\ BorderWidth \notin W => BorderWidth \in L
  PROVE  Astray(ThemeDestroy(s), b, d)
<1> DEFINE bordered == Release(s, BorderWidth, LAMBDA t : Free(t, BorderWidth))
           t == IF BorderWidth \in s.wild THEN Fault(s, "memory")
                ELSE IF BorderWidth \in s.set THEN Free(s, BorderWidth) ELSE s
           u == IF Color \in t.wild THEN Fault(t, "memory")
                ELSE IF Color \in t.set THEN ColorThemeDestroy(t) ELSE t
<1>1. ThemeDestroy(s) = Free(u, ThemePart)
  BY DEF ThemeDestroy, Release
<1>2. Astray(u, b, d)
  <2>1. CASE BorderWidth \in W
    <3>1. Astray(t, b, d)
      BY <2>1, GoesAstray DEF Has
    <3> HIDE DEF t
    <3> QED BY <3>1, AstrayStays DEF ColorThemeDestroy
  <2>2. CASE BorderWidth \notin W
    <3>1. \E l : Beside(t, b, d) /\ Has(t, l, G, W)
      BY <2>2, FreeHas DEF Has
    <3>2. Color \in W
      BY <2>2
    <3> HIDE DEF t
    <3>3. u = Fault(t, "memory")
      BY <3>1, <3>2 DEF Has
    <3> QED BY <3>1, <3>3, GoesAstray
  <2> QED BY <2>1, <2>2
<1> QED BY <1>1, <1>2, AstrayStays

\* What theme_destroy returns.
ThemeOwns(G) ==
  {ThemePart} \cup ({BorderWidth} \cap G) \cup (IF Color \in G THEN {Color} \cup (Shades \cap G) ELSE {})

\* If neither is, it returns what there is of the theme.
LEMMA ThemeDestroyHas ==
  ASSUME NEW b, NEW d, NEW L, NEW G, NEW W, NEW s, Beside(s, b, d), Has(s, L, G, W),
         W \cap {BorderWidth, Color} = {}, ThemeOwns(G) \subseteq L
  PROVE  /\ Beside(ThemeDestroy(s), b, d)
         /\ Has(ThemeDestroy(s), L \ ThemeOwns(G), G, W)
<1> DEFINE t == IF BorderWidth \in G THEN Free(s, BorderWidth) ELSE s
           u == IF Color \in G THEN ColorThemeDestroy(t) ELSE t
           L1 == L \ ({BorderWidth} \cap G)
           L2 == L1 \ (IF Color \in G THEN {Color} \cup (Shades \cap G) ELSE {})
<1>0. /\ BorderWidth \notin {Color, ThemePart} \cup Shades /\ Color # ThemePart
      /\ ThemePart \notin Shades
  BY DEF BorderWidth, Color, ThemePart, Shades, Shade
<1>1. Beside(t, b, d) /\ Has(t, L1, G, W)
  <2>1. CASE BorderWidth \in G
    <3>1. BorderWidth \in L /\ L1 = L \ {BorderWidth}
      BY <2>1 DEF ThemeOwns
    <3> QED BY <2>1, <3>1, FreeHas
  <2>2. CASE BorderWidth \notin G
    <3>1. L1 = L
      BY <2>2
    <3> QED BY <2>2, <3>1
  <2> QED BY <2>1, <2>2
<1>2. ThemeDestroy(s) = Free(u, ThemePart)
  <2>1. t = (IF BorderWidth \in s.wild THEN Fault(s, "memory")
             ELSE IF BorderWidth \in s.set THEN Free(s, BorderWidth) ELSE s)
    BY DEF Has
  <2>2. t.wild = W /\ t.set = G
    BY <1>1 DEF Has
  <2> HIDE DEF t
  <2>3. u = (IF Color \in t.wild THEN Fault(t, "memory")
             ELSE IF Color \in t.set THEN ColorThemeDestroy(t) ELSE t)
    BY <2>2
  <2> HIDE DEF u
  <2> QED BY <2>1, <2>3 DEF ThemeDestroy, Release
<1> HIDE DEF t
<1>3. Beside(u, b, d) /\ Has(u, L2, G, W)
  <2>1. CASE Color \in G
    <3> DEFINE os == {Color} \cup (Shades \cap t.set)
    <3>1. os = {Color} \cup (Shades \cap G) /\ t.set = G
      BY <1>1 DEF Has
    <3>2. os \subseteq L1 /\ L2 = L1 \ os
      BY <1>0, <2>1, <3>1 DEF ThemeOwns
    <3>3. u = FreeAll(t, os)
      BY <2>1 DEF ColorThemeDestroy
    <3> HIDE DEF os, u, L1, L2
    <3> QED BY <1>1, <3>2, <3>3, FreeAllHas
  <2>2. CASE Color \notin G
    <3>1. L2 = L1 /\ u = t
      BY <2>2
    <3> QED BY <1>1, <3>1
  <2> QED BY <2>1, <2>2
<1>4. ThemePart \in L2 /\ L2 \ {ThemePart} = L \ ThemeOwns(G)
  BY <1>0 DEF ThemeOwns
<1> HIDE DEF u, L2
<1> QED BY <1>2, <1>3, <1>4, FreeHas

\* malloc leaves the fields as they happen to be: NULL, or wild.
LEMMA MallocHas ==
  ASSUME NEW b, NEW d, NEW L, NEW G, NEW s, Beside(s, b, d), Has(s, L, G, {}),
         NEW o, NEW fields, NEW r \in Malloc(s, o, fields)
  PROVE  \/ Fails(r, b, d, L, G, {})
         \/ \E W \in {{}, fields} : Succeeds(r, b, d, L \cup {o}, G, W)
<1>1. PICK q \in Calloc(s, o) :
        r \in IF q.ok THEN {Done([q.state EXCEPT !.wild = @ \cup rest]) : rest \in {{}, fields}}
              ELSE {q}
  BY DEF Malloc, Then
<1>2. CASE Fails(q, b, d, L, G, {})
  BY <1>1, <1>2 DEF Fails
<1>3. CASE Succeeds(q, b, d, L \cup {o}, G, {})
  <2>1. PICK rest \in {{}, fields} : r = Done([q.state EXCEPT !.wild = @ \cup rest])
    BY <1>1, <1>3 DEF Succeeds
  <2>2. /\ Beside([q.state EXCEPT !.wild = @ \cup rest], b, d)
        /\ Has([q.state EXCEPT !.wild = @ \cup rest], L \cup {o}, G, {} \cup rest)
    BY <1>3 DEF Succeeds, Beside, Fields, Has
  <2>3. {} \cup rest = rest
    OBVIOUS
  <2> QED BY <2>1, <2>2, <2>3 DEF Done, Succeeds
<1> QED BY <1>2, <1>3, CallocHas

\* All of the theme.
Bordered == {BorderWidth, Color} \cup Shades
ThemeThings == {ThemePart, ResizeBackground, ResizeBorder} \cup Bordered

\* The parts of the theme as far as they succeed, with the pointers left unset.
LEMMA ThemeFillOutcomes ==
  ASSUME NEW b, NEW d, NEW L, NEW G, NEW W, NEW s, Beside(s, b, d), Has(s, L, G, W),
         W \subseteq Unset4, L \cap Bordered = {}, G \cap Bordered = {},
         NEW r \in ThemeFill(s)
  PROVE  \/ Fails(r, b, d, L, G, W)
         \/ \E g \in SUBSET Shades :
              Fails(r, b, d, L \cup {BorderWidth}, G \cup {BorderWidth} \cup g, W \ {BorderWidth})
         \/ \E l \in {{}, {ResizeBackground}} :
              Fails(r, b, d, L \cup Bordered \cup l, G \cup Bordered \cup l,
                    W \ ({BorderWidth, Color} \cup l))
         \/ Succeeds(r, b, d, L \cup Bordered \cup {ResizeBackground, ResizeBorder},
                     G \cup Bordered \cup {ResizeBackground, ResizeBorder}, {})
<1>0. /\ Color # BorderWidth /\ BorderWidth \notin Shades
      /\ Color \notin L \cup {BorderWidth} /\ (L \cup {BorderWidth}) \cap Shades = {}
      /\ (G \cup {BorderWidth}) \cap Shades = {}
  BY DEF Bordered, BorderWidth, Color, Shades, Shade
<1>1. PICK q \in Then(BorderThemeFromConfig(s), ColorThemeFromConfig) :
        r \in IF q.ok THEN ResizeColors(q.state) ELSE {q}
  BY DEF Then, ThemeFill
<1>2. PICK e \in New(s, BorderWidth) : q \in IF e.ok THEN ColorThemeFromConfig(e.state) ELSE {e}
  BY <1>1 DEF Then, BorderThemeFromConfig
<1>3. CASE Fails(e, b, d, L, G, W)
  <2>1. q = e /\ r = e
    BY <1>1, <1>2, <1>3 DEF Fails
  <2> QED BY <1>3, <2>1
<1>4. CASE Succeeds(e, b, d, L \cup {BorderWidth}, G \cup {BorderWidth}, W \ {BorderWidth})
  <2>1. q \in ColorThemeFromConfig(e.state)
    BY <1>2, <1>4 DEF Succeeds
  <2> DEFINE L2 == L \cup {BorderWidth} \cup {Color} \cup Shades
             G2 == G \cup {BorderWidth} \cup {Color} \cup Shades
             W2 == (W \ {BorderWidth}) \ {Color}
  <2>2. \/ \E g \in SUBSET Shades :
             Fails(q, b, d, L \cup {BorderWidth}, G \cup {BorderWidth} \cup g, W \ {BorderWidth})
        \/ Succeeds(q, b, d, L2, G2, W2)
    <3>1. W \ {BorderWidth} \subseteq Unset4
      OBVIOUS
    <3> QED BY <1>0, <1>4, <2>1, <3>1, ColorsOutcomes DEF Succeeds
  <2>3. L2 = L \cup Bordered /\ G2 = G \cup Bordered /\ W2 = W \ {BorderWidth, Color}
    BY DEF Bordered
  <2> HIDE DEF L2, G2, W2
  <2>4. ASSUME NEW g \in SUBSET Shades,
               Fails(q, b, d, L \cup {BorderWidth}, G \cup {BorderWidth} \cup g, W \ {BorderWidth})
        PROVE  Fails(r, b, d, L \cup {BorderWidth}, G \cup {BorderWidth} \cup g, W \ {BorderWidth})
    BY <1>1, <2>4 DEF Fails
  <2>5. CASE Succeeds(q, b, d, L2, G2, W2)
    <3>1. PICK p \in New(q.state, ResizeBackground) :
            r \in IF p.ok THEN New(p.state, ResizeBorder) ELSE {p}
      BY <1>1, <2>5 DEF Succeeds, ResizeColors, Then, ColorValue
    <3>2. \/ Fails(p, b, d, L2, G2, W2)
          \/ Succeeds(p, b, d, L2 \cup {ResizeBackground}, G2 \cup {ResizeBackground},
                      W2 \ {ResizeBackground})
      BY <2>5, <3>1, NewHas DEF Succeeds
    <3>3. CASE Fails(p, b, d, L2, G2, W2)
      <4>1. r = p
        BY <3>1, <3>3 DEF Fails
      <4>2. /\ L \cup Bordered \cup {} = L2 /\ G \cup Bordered \cup {} = G2
            /\ W \ ({BorderWidth, Color} \cup {}) = W2
        BY <2>3
      <4> QED BY <3>3, <4>1, <4>2
    <3>4. CASE Succeeds(p, b, d, L2 \cup {ResizeBackground}, G2 \cup {ResizeBackground},
                        W2 \ {ResizeBackground})
      <4>1. r \in New(p.state, ResizeBorder)
        BY <3>1, <3>4 DEF Succeeds
      <4>2. \/ Fails(r, b, d, L2 \cup {ResizeBackground}, G2 \cup {ResizeBackground},
                     W2 \ {ResizeBackground})
            \/ Succeeds(r, b, d, L2 \cup {ResizeBackground} \cup {ResizeBorder},
                        G2 \cup {ResizeBackground} \cup {ResizeBorder},
                        (W2 \ {ResizeBackground}) \ {ResizeBorder})
        BY <3>4, <4>1, NewHas DEF Succeeds
      <4>3. W2 \ {ResizeBackground} = W \ ({BorderWidth, Color} \cup {ResizeBackground})
        BY <2>3
      <4>4. /\ L2 \cup {ResizeBackground} \cup {ResizeBorder}
                 = L \cup Bordered \cup {ResizeBackground, ResizeBorder}
            /\ G2 \cup {ResizeBackground} \cup {ResizeBorder}
                 = G \cup Bordered \cup {ResizeBackground, ResizeBorder}
            /\ (W2 \ {ResizeBackground}) \ {ResizeBorder} = {}
        BY <2>3 DEF Unset4
      <4> QED BY <2>3, <4>2, <4>3, <4>4
    <3> QED BY <3>2, <3>3, <3>4
  <2> QED BY <2>2, <2>4, <2>5
<1> QED BY <1>2, <1>3, <1>4, NewHas

\* theme_create: the one call whose failure may follow a wild pointer.
LEMMA ThemeOutcomes ==
  ASSUME NEW b, NEW d, NEW L, NEW G, NEW s, Beside(s, b, d), Has(s, L, G, {}),
         ThemePart \notin L, L \cap Bordered = {}, G \cap Bordered = {},
         NEW r \in ThemeCreate(s)
  PROVE  \/ r.ok = FALSE /\ Astray(r.state, b, d)
         \/ \E l, w \in SUBSET {ResizeBackground, ResizeBorder}, g \in SUBSET (ThemeThings \ {ThemePart}) :
              Fails(r, b, d, L \cup l, G \cup g, w)
         \/ Succeeds(r, b, d, L \cup ThemeThings, G \cup ThemeThings, {})
<1> DEFINE RR == {ResizeBackground, ResizeBorder}
           Parts == ThemeThings \ {ThemePart}
           Failing == \/ r.ok = FALSE /\ Astray(r.state, b, d)
                      \/ \E l, w \in SUBSET RR, g \in SUBSET Parts :
                           Fails(r, b, d, L \cup l, G \cup g, w)
<1>0. /\ ThemePart \notin Bordered \cup RR /\ RR \cap Bordered = {}
      /\ BorderWidth # Color /\ BorderWidth \notin Shades /\ Color \notin Shades
  BY DEF ThemePart, Bordered, ResizeBackground, ResizeBorder, BorderWidth, Color, Shades, Shade
<1>1. PICK q : /\ r \in IF q.ok THEN {Done(Assign(q.state, ThemePart))} ELSE {q}
               /\ \E e \in Malloc(s, ThemePart, Unset4) :
                    q \in IF e.ok THEN OrElse(ThemeFill(e.state), ThemeDestroy) ELSE {e}
  BY DEF ThemeCreate, Then, Unset4
<1>2. PICK e \in Malloc(s, ThemePart, Unset4) :
        q \in IF e.ok THEN OrElse(ThemeFill(e.state), ThemeDestroy) ELSE {e}
  BY <1>1
<1>3. CASE Fails(e, b, d, L, G, {})
  <2>1. q = e /\ r = e
    BY <1>1, <1>2, <1>3 DEF Fails
  <2>2. L \cup {} = L /\ G \cup {} = G
    OBVIOUS
  <2>3. {} \in SUBSET RR /\ {} \in SUBSET Parts
    OBVIOUS
  <2> HIDE DEF RR, Parts
  <2>4. Fails(r, b, d, L \cup {}, G \cup {}, {})
    BY <1>3, <2>1, <2>2
  <2>5. Failing
    BY <2>3, <2>4
  <2> QED BY <2>5 DEF RR, Parts
<1>4. ASSUME NEW W \in {{}, Unset4}, Succeeds(e, b, d, L \cup {ThemePart}, G, W)
      PROVE  Failing \/ Succeeds(r, b, d, L \cup ThemeThings, G \cup ThemeThings, {})
  <2>1. PICK p \in ThemeFill(e.state) :
          q = IF p.ok \/ Faulted(p.state) THEN p ELSE Failed(ThemeDestroy(p.state))
    BY <1>2, <1>4 DEF Succeeds, OrElse
  <2> DEFINE L1 == L \cup {ThemePart}
             Out == \/ Fails(p, b, d, L1, G, W)
                    \/ \E g \in SUBSET Shades :
                         Fails(p, b, d, L1 \cup {BorderWidth}, G \cup {BorderWidth} \cup g, W \ {BorderWidth})
                    \/ \E l \in {{}, {ResizeBackground}} :
                         Fails(p, b, d, L1 \cup Bordered \cup l, G \cup Bordered \cup l,
                               W \ ({BorderWidth, Color} \cup l))
                    \/ Succeeds(p, b, d, L1 \cup Bordered \cup RR, G \cup Bordered \cup RR, {})
  <2>2. Out
    <3>1. L1 \cap Bordered = {} /\ W \subseteq Unset4
      BY <1>0
    <3>2. Beside(e.state, b, d) /\ Has(e.state, L1, G, W)
      BY <1>4 DEF Succeeds
    <3> HIDE DEF L1
    <3> QED BY <2>1, <3>1, <3>2, ThemeFillOutcomes
  \* A failure that returns what there is of the theme, or that goes astray.
  <2>3. ASSUME NEW l \in SUBSET RR, NEW g \in SUBSET Parts, NEW w \in SUBSET Unset4,
               NEW o \in SUBSET Bordered, Fails(p, b, d, L1 \cup o \cup l, G \cup g, w),
               o = IF BorderWidth \in g THEN IF Color \in g THEN Bordered ELSE {BorderWidth} ELSE {},
               Color \in g => BorderWidth \in g /\ Shades \subseteq g
        PROVE  Failing
    <3> DEFINE P == L1 \cup o \cup l
               D == ThemeDestroy(p.state)
    <3>1. q = Failed(D) /\ r = q
      BY <1>1, <2>1, <2>3 DEF Fails, Has, Faulted, Failed
    <3>2. BorderWidth \notin G /\ Color \notin G /\ G \cap Shades = {}
      BY DEF Bordered
    <3>3. CASE w \cap {BorderWidth, Color} # {}
      <4>1. BorderWidth \in G \cup g => BorderWidth \in P
        BY <2>3, <3>2 DEF Bordered
      <4> HIDE DEF P, D
      <4>2. Astray(ThemeDestroy(p.state), b, d)
        BY <2>3, <3>3, <4>1, ThemeDestroyAstray DEF Fails, P
      <4> QED BY <3>1, <4>2 DEF Failed, D
    <3>4. CASE w \cap {BorderWidth, Color} = {}
      <4>1. w \in SUBSET RR
        BY <3>4 DEF Unset4
      <4>2. ThemeOwns(G \cup g) = {ThemePart} \cup o
        BY <2>3, <3>2 DEF ThemeOwns, Bordered
      <4>3. ThemeOwns(G \cup g) \subseteq P /\ P \ ThemeOwns(G \cup g) = L \cup l
        BY <1>0, <4>2
      <4>4. Beside(D, b, d) /\ Has(D, P \ ThemeOwns(G \cup g), G \cup g, w)
        <5> HIDE DEF P, D
        <5> QED BY <2>3, <3>4, <4>3, ThemeDestroyHas DEF Fails, P, D
      <4>5. Fails(r, b, d, L \cup l, G \cup g, w)
        <5> HIDE DEF P, D
        <5> QED BY <3>1, <4>3, <4>4 DEF Failed, Fails
      <4> HIDE DEF RR, Parts, P, D
      <4> QED BY <4>1, <4>5
    <3> QED BY <3>3, <3>4
  <2>4. CASE Fails(p, b, d, L1, G, W)
    <3> DEFINE e0 == {}
    <3>1. e0 \in SUBSET RR /\ e0 \in SUBSET Parts /\ e0 \in SUBSET Bordered
      OBVIOUS
    <3>2. L1 \cup e0 \cup e0 = L1 /\ G \cup e0 = G /\ BorderWidth \notin e0 /\ Color \notin e0
      OBVIOUS
    <3>3. W \in SUBSET Unset4 /\ Fails(p, b, d, L1 \cup e0 \cup e0, G \cup e0, W)
      BY <2>4, <3>2
    <3>4. e0 = {}
      OBVIOUS
    <3> HIDE DEF e0, RR, Parts, L1, Failing
    <3> QED BY <2>3, <3>1, <3>2, <3>3, <3>4
  <2>5. ASSUME NEW g0 \in SUBSET Shades,
               Fails(p, b, d, L1 \cup {BorderWidth}, G \cup {BorderWidth} \cup g0, W \ {BorderWidth})
        PROVE  Failing
    <3> DEFINE g == {BorderWidth} \cup g0
               l == {}
               o == {BorderWidth}
    <3>1. l \in SUBSET RR /\ g \in SUBSET Parts /\ o \in SUBSET Bordered
      BY <1>0 DEF Bordered, ThemeThings
    <3>2. L1 \cup o \cup l = L1 \cup {BorderWidth} /\ G \cup g = G \cup {BorderWidth} \cup g0
      OBVIOUS
    <3>3. BorderWidth \in g /\ Color \notin g
      BY <1>0
    <3>4. W \ {BorderWidth} \in SUBSET Unset4 /\ Fails(p, b, d, L1 \cup o \cup l, G \cup g, W \ {BorderWidth})
      BY <2>5, <3>2
    <3>5. o = {BorderWidth}
      OBVIOUS
    <3> HIDE DEF g, l, o, RR, Parts, L1, Failing
    <3> QED BY <2>3, <3>1, <3>3, <3>4, <3>5
  <2>6. ASSUME NEW l \in {{}, {ResizeBackground}},
               Fails(p, b, d, L1 \cup Bordered \cup l, G \cup Bordered \cup l,
                     W \ ({BorderWidth, Color} \cup l))
        PROVE  Failing
    <3> DEFINE g == Bordered \cup l
               w == W \ ({BorderWidth, Color} \cup l)
    <3>1. l \in SUBSET RR /\ g \in SUBSET Parts /\ Bordered \in SUBSET Bordered
      BY <1>0 DEF ThemeThings
    <3>2. G \cup g = G \cup Bordered \cup l
      OBVIOUS
    <3>3. BorderWidth \in g /\ Color \in g /\ Shades \subseteq g
      BY DEF Bordered
    <3>4. w \in SUBSET Unset4 /\ Fails(p, b, d, L1 \cup Bordered \cup l, G \cup g, w)
      BY <2>6, <3>2
    <3> HIDE DEF g, w, RR, Parts, L1, Failing
    <3> QED BY <2>3, <3>1, <3>3, <3>4
  <2>7. CASE Succeeds(p, b, d, L1 \cup Bordered \cup RR, G \cup Bordered \cup RR, {})
    <3>1. q = p /\ r = Done(Assign(p.state, ThemePart))
      BY <1>1, <2>1, <2>7 DEF Succeeds
    <3>2. /\ L1 \cup Bordered \cup RR = L \cup ThemeThings
          /\ G \cup Bordered \cup RR \cup {ThemePart} = G \cup ThemeThings
          /\ {} \ {ThemePart} = {}
      BY DEF ThemeThings
    <3>3. /\ Beside(Assign(p.state, ThemePart), b, d)
          /\ Has(Assign(p.state, ThemePart), L1 \cup Bordered \cup RR,
                 G \cup Bordered \cup RR \cup {ThemePart}, {} \ {ThemePart})
      BY <2>7, AssignHas DEF Succeeds
    <3> QED BY <3>1, <3>2, <3>3 DEF Done, Succeeds
  <2> HIDE DEF Failing, L1, RR
  <2> QED BY <2>2, <2>4, <2>5, <2>6, <2>7
<1>5. Fails(e, b, d, L, G, {}) \/ \E W \in {{}, Unset4} : Succeeds(e, b, d, L \cup {ThemePart}, G, W)
  BY MallocHas
<1> QED BY <1>3, <1>4, <1>5

-----------------------------------------------------------------------------
(* The workspaces *)

\* The loop of workspace_list_init over the workspaces.
LEMMA WorkspaceRounds ==
  ASSUME NEW s, WorkspaceCount \in Nat
  PROVE  \E f : /\ GoesOn(f, WorkspaceCount, "workspace", s)
                /\ WorkspacesCreate(s) = f[WorkspaceCount]
<1> DEFINE B(f, i) == IF i = 0 THEN {Done(s)}
                      ELSE UNION {IF r.ok THEN WorkspaceCreate(r.state, i - 1) ELSE {r} : r \in f[i - 1]}
           g == CHOOSE f : f = [i \in 0 .. WorkspaceCount |-> B(f, i)]
<1>1. \A outcomes, i : AfterRound("workspace", outcomes, i)
        = UNION {IF r.ok THEN WorkspaceCreate(r.state, i - 1) ELSE {r} : r \in outcomes}
  BY DEF AfterRound, Round
<1>2. \A f : GoesOn(f, WorkspaceCount, "workspace", s)
             <=> f = [i \in 0 .. WorkspaceCount |-> B(f, i)]
  BY <1>1 DEF GoesOn
<1>3. \E f : f = [i \in 0 .. WorkspaceCount |-> B(f, i)]
  BY <1>2, GoingOn
<1>4. g = [i \in 0 .. WorkspaceCount |-> B(g, i)]
  BY <1>3, Zenon
<1>5. WorkspacesCreate(s) = g[WorkspaceCount]
  BY Zenon DEF WorkspacesCreate, ForEach, Rounds, Then
<1> HIDE DEF g
<1> QED BY <1>2, <1>4, <1>5

\* workspace_create: a workspace with its list, or nothing.
LEMMA WorkspaceOutcomes ==
  ASSUME NEW b, NEW d, NEW L, NEW G, NEW s, Beside(s, b, d), Has(s, L, G, {}),
         NEW i, Workspace(i) \notin L, NEW r \in WorkspaceCreate(s, i)
  PROVE  \/ Fails(r, b, d, L, G, {})
         \/ Succeeds(r, b, d, L \cup {Workspace(i), ClientList(i)},
                     G \cup {Workspace(i), ClientList(i)}, {})
<1>1. PICK e \in Calloc(s, Workspace(i)) :
        r \in IF e.ok
              THEN Then(OrElse(New(e.state, ClientList(i)), LAMBDA u : Free(u, Workspace(i))),
                        LAMBDA u : {Done(Assign(u, Workspace(i)))})
              ELSE {e}
  BY DEF WorkspaceCreate, Then
<1>2. CASE Fails(e, b, d, L, G, {})
  BY <1>1, <1>2 DEF Fails
<1>3. CASE Succeeds(e, b, d, L \cup {Workspace(i)}, G, {})
  <2>1. PICK q \in OrElse(New(e.state, ClientList(i)), LAMBDA u : Free(u, Workspace(i))) :
          r \in IF q.ok THEN {Done(Assign(q.state, Workspace(i)))} ELSE {q}
    BY <1>1, <1>3 DEF Succeeds, Then
  <2>2. PICK p \in New(e.state, ClientList(i)) :
          q = IF p.ok \/ Faulted(p.state) THEN p ELSE Failed(Free(p.state, Workspace(i)))
    BY <2>1 DEF OrElse
  <2>3. CASE Fails(p, b, d, L \cup {Workspace(i)}, G, {})
    <3>1. q = Failed(Free(p.state, Workspace(i))) /\ r = q
      BY <2>1, <2>2, <2>3 DEF Fails, Has, Faulted, Failed
    <3>2. Workspace(i) \in L \cup {Workspace(i)} /\ (L \cup {Workspace(i)}) \ {Workspace(i)} = L
      OBVIOUS
    <3>3. /\ Beside(Free(p.state, Workspace(i)), b, d)
          /\ Has(Free(p.state, Workspace(i)), (L \cup {Workspace(i)}) \ {Workspace(i)}, G, {})
      BY <2>3, <3>2, FreeHas DEF Fails
    <3> QED BY <3>1, <3>2, <3>3 DEF Fails, Failed
  <2>4. CASE Succeeds(p, b, d, L \cup {Workspace(i)} \cup {ClientList(i)}, G \cup {ClientList(i)}, {})
    <3>1. q = p /\ r = Done(Assign(p.state, Workspace(i)))
      BY <2>1, <2>2, <2>4 DEF Succeeds
    <3>2. /\ Beside(Assign(p.state, Workspace(i)), b, d)
          /\ Has(Assign(p.state, Workspace(i)), L \cup {Workspace(i)} \cup {ClientList(i)},
                 G \cup {ClientList(i)} \cup {Workspace(i)}, {} \ {Workspace(i)})
      BY <2>4, AssignHas DEF Succeeds
    <3>3. /\ L \cup {Workspace(i)} \cup {ClientList(i)} = L \cup {Workspace(i), ClientList(i)}
          /\ G \cup {ClientList(i)} \cup {Workspace(i)} = G \cup {Workspace(i), ClientList(i)}
          /\ {} \ {Workspace(i)} = {}
      OBVIOUS
    <3> QED BY <3>1, <3>2, <3>3 DEF Succeeds, Done
  <2> QED BY <1>3, <2>2, <2>3, <2>4, NewHere DEF Succeeds
<1> QED BY <1>2, <1>3, CallocHas

\* The first n workspaces, without their clients.
Spaces(n) == {Workspace(i) : i \in 0 .. n - 1} \cup {ClientList(i) : i \in 0 .. n - 1}

\* One workspace more.
LEMMA SpacesNext ==
  ASSUME NEW n \in Nat
  PROVE  /\ Spaces(0) = {}
         /\ Spaces(n + 1) = Spaces(n) \cup {Workspace(n), ClientList(n)}
         /\ Workspace(n) \notin Spaces(n) /\ ClientList(n) \notin Spaces(n)
<1>1. 0 .. (n + 1) - 1 = (0 .. n - 1) \cup {n} /\ n \notin 0 .. n - 1 /\ 0 .. 0 - 1 = {}
  OBVIOUS
<1> QED BY <1>1 DEF Spaces, Workspace, ClientList

\* After any number of them, the workspaces so far.
LEMMA WorkspacesOutcomes ==
  ASSUME WorkspaceCount \in Nat, NEW b, NEW d, NEW L, NEW G, NEW s,
         Beside(s, b, d), Has(s, L, G, {}), L \cap Spaces(WorkspaceCount) = {},
         NEW r \in WorkspacesCreate(s)
  PROVE  \/ \E n \in 0 .. WorkspaceCount : Fails(r, b, d, L \cup Spaces(n), G \cup Spaces(n), {})
         \/ Succeeds(r, b, d, L \cup Spaces(WorkspaceCount), G \cup Spaces(WorkspaceCount), {})
<1> DEFINE N == WorkspaceCount
<1>1. PICK f : GoesOn(f, N, "workspace", s) /\ WorkspacesCreate(s) = f[N]
  BY WorkspaceRounds
<1>0. /\ f[0] = {Done(s)}
      /\ \A i \in 0 .. N - 1 : \A q \in f[i + 1] : \E p \in f[i] :
           IF p.ok THEN q \in Round("workspace", p.state, i + 1) ELSE q = p
  BY <1>1, RoundByRound
<1> DEFINE P(n, q) == \/ \E m \in 0 .. N : Fails(q, b, d, L \cup Spaces(m), G \cup Spaces(m), {})
                      \/ Succeeds(q, b, d, L \cup Spaces(n), G \cup Spaces(n), {})
           I == {n \in 0 .. N : \A q \in f[n] : P(n, q)}
<1>2. 0 \in I
  <2>1. Spaces(0) = {}
    BY SpacesNext
  <2>2. \A q \in f[0] : q = Done(s)
    BY <1>0
  <2>3. P(0, Done(s))
    BY <2>1 DEF Done, Succeeds
  <2> HIDE DEF P
  <2> QED BY <2>2, <2>3
<1>3. ASSUME NEW n \in 0 .. N - 1, n \in I PROVE n + 1 \in I
  <2>1. ASSUME NEW q \in f[n + 1] PROVE P(n + 1, q)
    <3>1. PICK p \in f[n] : IF p.ok THEN q \in Round("workspace", p.state, n + 1) ELSE q = p
      BY <1>0
    <3>2. P(n, p)
      BY <1>3
    <3>0. n \in 0 .. N
      OBVIOUS
    <3>3. CASE \E m \in 0 .. N : Fails(p, b, d, L \cup Spaces(m), G \cup Spaces(m), {})
      BY <3>1, <3>3 DEF Fails
    <3>4. CASE Succeeds(p, b, d, L \cup Spaces(n), G \cup Spaces(n), {})
      <4>1. q \in WorkspaceCreate(p.state, n)
        <5>1. (n + 1) - 1 = n
          OBVIOUS
        <5> QED BY <3>1, <3>4, <5>1 DEF Succeeds, Round
      <4>2. /\ (L \cup Spaces(n)) \cup {Workspace(n), ClientList(n)} = L \cup Spaces(n + 1)
            /\ (G \cup Spaces(n)) \cup {Workspace(n), ClientList(n)} = G \cup Spaces(n + 1)
            /\ Workspace(n) \notin L \cup Spaces(n)
        <5>1. Workspace(n) \in Spaces(N)
          BY DEF Spaces
        <5> QED BY <5>1, SpacesNext
      <4>3. \/ Fails(q, b, d, L \cup Spaces(n), G \cup Spaces(n), {})
            \/ Succeeds(q, b, d, (L \cup Spaces(n)) \cup {Workspace(n), ClientList(n)},
                        (G \cup Spaces(n)) \cup {Workspace(n), ClientList(n)}, {})
        BY <3>4, <4>1, <4>2, WorkspaceOutcomes DEF Succeeds
      <4> QED BY <3>0, <4>2, <4>3
    <3> QED BY <3>2, <3>3, <3>4
  <2> HIDE DEF P
  <2> QED BY <2>1
<1>4. N \in I
  <2> HIDE DEF I
  <2>1. \A n \in 0 .. N - 1 : n \in I => n + 1 \in I
    BY <1>3
  <2>2. \A n \in 0 .. N : n \in I
    BY <1>2, <2>1, Throughout
  <2> QED BY <2>2
<1> QED BY <1>1, <1>4

\* The names, one after another.
LEMMA NamesWalk ==
  ASSUME NEW names, WorkspaceCount \in Nat
  PROVE  Goes(Positions(names), WorkspaceCount, "position", names, 0)
<1> DEFINE B(f, i) == IF i = 0 THEN 0 ELSE f[i - 1] + NameLength(names, i - 1) + 1
           g == CHOOSE f : f = [i \in 0 .. WorkspaceCount |-> B(f, i)]
<1>1. \A x, i : After("position", names, x, i) = x + NameLength(names, i - 1) + 1
  BY DEF After
<1>2. \A f : Goes(f, WorkspaceCount, "position", names, 0) <=> f = [i \in 0 .. WorkspaceCount |-> B(f, i)]
  BY <1>1 DEF Goes
<1>3. \E f : f = [i \in 0 .. WorkspaceCount |-> B(f, i)]
  BY <1>2, Going
<1>4. g = [i \in 0 .. WorkspaceCount |-> B(g, i)]
  BY <1>3, Zenon
<1>5. Positions(names) = g
  BY Zenon DEF Positions
<1> HIDE DEF g
<1> QED BY <1>2, <1>4, <1>5

\* Each name is written where the one before has ended, and none is longer than
\* NameMax: the last one ends within the buffer.
LEMMA NamesBounded ==
  ASSUME SetupAssumption, NEW names \in Names
  PROVE  Positions(names)[WorkspaceCount] \in 0 .. NameMax * WorkspaceCount + WorkspaceCount
<1> DEFINE N == WorkspaceCount
           M == NameMax + 1
           f == Positions(names)
           I == {n \in 0 .. N : f[n] \in 0 .. n * M}
<1>1. N \in Nat /\ NameMax \in Nat \ {0} /\ names \in Seq(Nat)
  BY DEF SetupAssumption
<1>2. Goes(f, N, "position", names, 0)
  BY <1>1, NamesWalk
<1>3. \A i \in Nat : NameLength(names, i) \in 0 .. NameMax
  <2> SUFFICES ASSUME NEW i \in Nat PROVE NameLength(names, i) \in 0 .. NameMax
    OBVIOUS
  <2>1. CASE i + 1 > Len(names) \/ names[i + 1] = Unset \/ names[i + 1] > NameMax
    BY <1>1, <2>1 DEF NameLength, DefaultName
  <2>2. CASE ~(i + 1 > Len(names) \/ names[i + 1] = Unset \/ names[i + 1] > NameMax)
    <3>1. i + 1 \in 1 .. Len(names)
      BY <1>1, <2>2
    <3>2. names[i + 1] \in Nat
      BY <1>1, <3>1
    <3> QED BY <1>1, <2>2, <3>2 DEF NameLength
  <2> QED BY <2>1, <2>2
<1> HIDE DEF f
<1>4. 0 \in I
  BY <1>1, <1>2 DEF Goes
<1>5. ASSUME NEW n \in 0 .. N - 1, n \in I PROVE n + 1 \in I
  <2>1. n + 1 \in 0 .. N /\ n + 1 # 0 /\ (n + 1) - 1 = n /\ n \in Nat
    BY <1>1
  <2>2. f[n + 1] = f[n] + NameLength(names, n) + 1
    BY <1>2, <2>1 DEF Goes, After
  <2>3. (n + 1) * M = n * M + M /\ n * M \in Nat
    BY <1>1, <2>1
  <2>4. f[n] \in 0 .. n * M /\ NameLength(names, n) \in 0 .. NameMax
    BY <1>3, <1>5, <2>1
  <2> DEFINE x == n * M
  <2>5. x \in Nat /\ f[n] \in 0 .. x /\ (n + 1) * M = x + M
    BY <2>3, <2>4
  <2> HIDE DEF x
  <2>6. f[n + 1] \in 0 .. x + M
    BY <1>1, <2>2, <2>4, <2>5
  <2> QED BY <2>1, <2>5, <2>6
<1>6. N \in I
  <2> HIDE DEF I
  <2>1. \A n \in 0 .. N - 1 : n \in I => n + 1 \in I
    BY <1>5
  <2>2. \A n \in 0 .. N : n \in I
    BY <1>1, <1>4, <2>1, Throughout
  <2> QED BY <1>1, <2>2
<1>7. N * M = NameMax * WorkspaceCount + WorkspaceCount
  BY <1>1
<1> QED BY <1>6, <1>7 DEF f

\* What workspace_list_destroy returns of the first n workspaces.
SpacesOwned(G, n) ==
  LET held == {i \in 0 .. n - 1 : Workspace(i) \in G}
  IN  {Workspace(i) : i \in held} \cup {ClientList(i) : i \in held}
        \cup {Client(i) : i \in {j \in held : Client(j) \in G}}

\* All of it is of these kinds.
LEMMA SpacesKinds ==
  ASSUME NEW G, NEW n, NEW o \in SpacesOwned(G, n)
  PROVE  o[1] \in {"workspace", "clients", "client"}
<1>1. \A i : Workspace(i)[1] = "workspace" /\ ClientList(i)[1] = "clients" /\ Client(i)[1] = "client"
  BY DEF Workspace, ClientList, Client
<1> QED BY <1>1 DEF SpacesOwned

\* One workspace more.
LEMMA SpacesOwnedNext ==
  ASSUME NEW G, NEW n \in Nat
  PROVE  /\ SpacesOwned(G, 0) = {}
         /\ SpacesOwned(G, n + 1) = SpacesOwned(G, n) \cup
              (IF Workspace(n) \in G
               THEN {Workspace(n), ClientList(n)} \cup ({Client(n)} \cap G) ELSE {})
         /\ SpacesOwned(G, n) \cap {Workspace(n), ClientList(n), Client(n)} = {}
<1>1. 0 .. (n + 1) - 1 = (0 .. n - 1) \cup {n} /\ n \notin 0 .. n - 1 /\ 0 .. 0 - 1 = {}
  OBVIOUS
<1>2. \A i, j : Workspace(i) # Client(j) /\ Workspace(i) # ClientList(j) /\ ClientList(i) # Client(j)
  BY DEF Workspace, ClientList, Client
<1>3. \A i, j : /\ Workspace(i) = Workspace(j) => i = j
                /\ ClientList(i) = ClientList(j) => i = j
                /\ Client(i) = Client(j) => i = j
  BY DEF Workspace, ClientList, Client
<1>4. SpacesOwned(G, 0) = {}
  BY <1>1 DEF SpacesOwned
<1>5. SpacesOwned(G, n + 1) = SpacesOwned(G, n) \cup
        (IF Workspace(n) \in G
         THEN {Workspace(n), ClientList(n)} \cup ({Client(n)} \cap G) ELSE {})
  BY <1>1 DEF SpacesOwned
<1>6. SpacesOwned(G, n) \cap {Workspace(n), ClientList(n), Client(n)} = {}
  BY <1>1, <1>2, <1>3 DEF SpacesOwned
<1> QED BY <1>4, <1>5, <1>6

\* The loop of workspace_list_destroy over the workspaces.
LEMMA DestroyWalk ==
  ASSUME NEW s, WorkspaceCount \in Nat
  PROVE  Goes(WorkspacesDestroyed(s), WorkspaceCount, "destroy", s, s)
<1> DEFINE B(f, i) == IF i = 0 THEN s ELSE WorkspaceRelease(f[i - 1], i - 1)
           g == CHOOSE f : f = [i \in 0 .. WorkspaceCount |-> B(f, i)]
<1>1. \A x, i : After("destroy", s, x, i) = WorkspaceRelease(x, i - 1)
  BY DEF After
<1>2. \A f : Goes(f, WorkspaceCount, "destroy", s, s) <=> f = [i \in 0 .. WorkspaceCount |-> B(f, i)]
  BY <1>1 DEF Goes
<1>3. \E f : f = [i \in 0 .. WorkspaceCount |-> B(f, i)]
  BY <1>2, Going
<1>4. g = [i \in 0 .. WorkspaceCount |-> B(g, i)]
  BY <1>3, Zenon
<1>5. WorkspacesDestroyed(s) = g
  BY Zenon DEF WorkspacesDestroyed
<1> HIDE DEF g
<1> QED BY <1>2, <1>4, <1>5

\* The only pointers that are left wild.
Loose == {ResizeBackground, ResizeBorder}

\* It returns each workspace that is there, with its list and its client.
LEMMA SpacesDestroyHas ==
  ASSUME WorkspaceCount \in Nat, NEW b, NEW d, NEW L, NEW G, NEW W, NEW s,
         Beside(s, b, d), Has(s, L, G, W), W \subseteq Loose,
         SpacesOwned(G, WorkspaceCount) \subseteq L
  PROVE  /\ Beside(WorkspacesDestroyed(s)[WorkspaceCount], b, d)
         /\ Has(WorkspacesDestroyed(s)[WorkspaceCount], L \ SpacesOwned(G, WorkspaceCount), G, W)
<1> DEFINE N == WorkspaceCount
           f == WorkspacesDestroyed(s)
           I == {n \in 0 .. N : Beside(f[n], b, d) /\ Has(f[n], L \ SpacesOwned(G, n), G, W)}
<1>1. Goes(f, N, "destroy", s, s)
  BY DestroyWalk
<1> HIDE DEF f
<1>2. 0 \in I
  <2>1. L \ SpacesOwned(G, 0) = L
    BY SpacesOwnedNext
  <2>2. f[0] = s
    BY <1>1 DEF Goes
  <2> QED BY <2>1, <2>2
<1>3. ASSUME NEW n \in 0 .. N - 1, n \in I PROVE n + 1 \in I
  <2>1. n + 1 \in 0 .. N /\ n + 1 # 0 /\ (n + 1) - 1 = n /\ n \in Nat
    OBVIOUS
  <2>2. f[n + 1] = WorkspaceRelease(f[n], n)
    BY <1>1, <2>1 DEF Goes, After
  <2> DEFINE os == {Workspace(n), ClientList(n)} \cup ({Client(n)} \cap G)
             L1 == L \ SpacesOwned(G, n)
  <2>3. Beside(f[n], b, d) /\ Has(f[n], L1, G, W)
    BY <1>3
  <2>4. Workspace(n) \notin W
    BY DEF Loose, Workspace, ResizeBackground, ResizeBorder
  <2>5. f[n + 1] = IF Workspace(n) \in G THEN FreeAll(f[n], os) ELSE f[n]
    BY <2>2, <2>3, <2>4 DEF WorkspaceRelease, Release, WorkspaceDestroy, Has
  <2>6. CASE Workspace(n) \in G
    <3>1. SpacesOwned(G, n + 1) = SpacesOwned(G, n) \cup os /\ SpacesOwned(G, n) \cap os = {}
      BY <2>1, <2>6, SpacesOwnedNext
    <3>2. SpacesOwned(G, n + 1) \subseteq SpacesOwned(G, N)
      BY <2>1 DEF SpacesOwned
    <3>3. os \subseteq L1 /\ L1 \ os = L \ SpacesOwned(G, n + 1)
      BY <3>1, <3>2
    <3> HIDE DEF os, L1
    <3>4. Beside(FreeAll(f[n], os), b, d) /\ Has(FreeAll(f[n], os), L1 \ os, G, W)
      BY <2>3, <3>3, FreeAllHas
    <3> QED BY <2>1, <2>5, <2>6, <3>3, <3>4
  <2>7. CASE Workspace(n) \notin G
    <3>1. SpacesOwned(G, n + 1) = SpacesOwned(G, n)
      <4> HIDE DEF os, L1
      <4>1. SpacesOwned(G, n + 1) = SpacesOwned(G, n) \cup {}
        BY <2>1, <2>7, SpacesOwnedNext
      <4> QED BY <4>1
    <3> QED BY <2>1, <2>3, <2>5, <2>7, <3>1
  <2> QED BY <2>6, <2>7
<1>4. N \in I
  <2> HIDE DEF I
  <2>1. \A n \in 0 .. N - 1 : n \in I => n + 1 \in I
    BY <1>3
  <2>2. \A n \in 0 .. N : n \in I
    BY <1>2, <2>1, Throughout
  <2> QED BY <2>2
<1> QED BY <1>4 DEF f

\* What workspace_list_destroy returns.
ListOwns(G) ==
  (IF ThemePart \in G THEN ThemeOwns(G) ELSE {})
    \cup SpacesOwned(G, WorkspaceCount) \cup {ClientMap, WorkspaceArray, WorkspaceList}

\* workspace_list_destroy returns all of it and touches nothing else.
LEMMA ListDestroyHas ==
  ASSUME WorkspaceCount \in Nat, NEW b, NEW d, NEW L, NEW G, NEW W, NEW s,
         Beside(s, b, d), Has(s, L, G, W), W \subseteq Loose, ListOwns(G) \subseteq L
  PROVE  /\ Beside(WorkspaceListDestroy(s), b, d)
         /\ Has(WorkspaceListDestroy(s), L \ ListOwns(G), G, W)
<1> DEFINE T == IF ThemePart \in G THEN ThemeOwns(G) ELSE {}
           S == SpacesOwned(G, WorkspaceCount)
           L1 == L \ T
           L2 == L1 \ {ClientMap}
           L3 == L2 \ S
           t == Release(s, ThemePart, ThemeDestroy)
           u == Free(t, ClientMap)
           v == WorkspacesDestroyed(u)[WorkspaceCount]
<1>1. /\ T \cap S = {} /\ T \cap {ClientMap, WorkspaceArray, WorkspaceList} = {}
      /\ S \cap {ClientMap, WorkspaceArray, WorkspaceList} = {}
      /\ ClientMap \notin {WorkspaceArray, WorkspaceList}
  <2>1. \A o \in T : o[1] \in {"theme", "border_width", "color", "color_value"}
    BY DEF ThemeOwns, ThemePart, BorderWidth, Color, Shades, Shade
  <2>2. \A o \in S : o[1] \in {"workspace", "clients", "client"}
    BY SpacesKinds
  <2>3. ClientMap[1] = "client_map" /\ WorkspaceArray[1] = "workspaces" /\ WorkspaceList[1] = "workspace_list"
    BY DEF ClientMap, WorkspaceArray, WorkspaceList
  <2> HIDE DEF T, S
  <2> QED BY <2>1, <2>2, <2>3
<1>2. W \cap {BorderWidth, Color} = {} /\ ThemePart \notin W
  BY DEF Loose, ResizeBackground, ResizeBorder, BorderWidth, Color, ThemePart
<1>3. T \subseteq L /\ S \subseteq L2 /\ {WorkspaceArray, WorkspaceList} \subseteq L3 /\ ClientMap \in L1
  BY <1>1 DEF ListOwns
<1>4. L3 \ {WorkspaceArray, WorkspaceList} = L \ ListOwns(G)
  BY DEF ListOwns
<1>5. Beside(t, b, d) /\ Has(t, L1, G, W)
  <2>1. t = IF ThemePart \in G THEN ThemeDestroy(s) ELSE s
    BY <1>2 DEF Release, Has
  <2>2. CASE ThemePart \in G
    <3>1. ThemeOwns(G) \subseteq L /\ L1 = L \ ThemeOwns(G)
      BY <1>3, <2>2
    <3> QED BY <1>2, <2>1, <2>2, <3>1, ThemeDestroyHas
  <2>3. CASE ThemePart \notin G
    <3>1. L1 = L
      BY <2>3
    <3> QED BY <2>1, <2>3, <3>1
  <2> QED BY <2>2, <2>3
<1>6. WorkspaceListDestroy(s) = FreeAll(v, {WorkspaceArray, WorkspaceList})
  BY DEF WorkspaceListDestroy
<1> HIDE DEF T, L1, t
<1>7. Beside(u, b, d) /\ Has(u, L2, G, W)
  BY <1>3, <1>5, FreeHas
<1> HIDE DEF L2, u
<1>8. Beside(v, b, d) /\ Has(v, L3, G, W)
  BY <1>3, <1>7, SpacesDestroyHas
<1> HIDE DEF L3, v, S
<1> QED BY <1>3, <1>4, <1>6, <1>8, FreeAllHas

\* The parts of the list of workspaces but for the workspaces.
Trio == {WorkspaceList, ClientMap, WorkspaceArray}

\* workspace_list_create: all three or nothing.
LEMMA ListCreateOutcomes ==
  ASSUME NEW b, NEW d, NEW L, NEW G, NEW s, Beside(s, b, d), Has(s, L, G, {}),
         L \cap Trio = {}, NEW r \in WorkspaceListCreate(s)
  PROVE  \/ \E g \in SUBSET {ClientMap} : Fails(r, b, d, L, G \cup g, {})
         \/ Succeeds(r, b, d, L \cup Trio, G \cup {ClientMap, WorkspaceArray}, {})
<1> DEFINE L1 == L \cup {WorkspaceList}
           L2 == L1 \cup {ClientMap}
           G2 == G \cup {ClientMap}
<1>0. ClientMap # WorkspaceList /\ ClientMap # WorkspaceArray /\ WorkspaceList # WorkspaceArray
  BY DEF ClientMap, WorkspaceList, WorkspaceArray
<1>1. PICK q \in Then(Calloc(s, WorkspaceList),
                      LAMBDA t : OrElse(New(t, ClientMap), LAMBDA u : Free(u, WorkspaceList))) :
        r \in IF q.ok
              THEN OrElse(New(q.state, WorkspaceArray),
                          LAMBDA u : FreeAll(u, {ClientMap, WorkspaceList}))
              ELSE {q}
  BY DEF WorkspaceListCreate, Then
<1>2. PICK e \in Calloc(s, WorkspaceList) :
        q \in IF e.ok
              THEN OrElse(New(e.state, ClientMap), LAMBDA u : Free(u, WorkspaceList))
              ELSE {e}
  BY <1>1 DEF Then
<1>3. CASE Fails(e, b, d, L, G, {})
  <2>1. q = e /\ r = e
    BY <1>1, <1>2, <1>3 DEF Fails
  <2>2. G \cup {} = G /\ {} \in SUBSET {ClientMap}
    OBVIOUS
  <2> QED BY <1>3, <2>1, <2>2
<1>4. CASE Succeeds(e, b, d, L1, G, {})
  <2>1. PICK p \in New(e.state, ClientMap) :
          q = IF p.ok \/ Faulted(p.state) THEN p ELSE Failed(Free(p.state, WorkspaceList))
    BY <1>2, <1>4 DEF Succeeds, OrElse
  <2>2. CASE Fails(p, b, d, L1, G, {})
    <3>1. q = Failed(Free(p.state, WorkspaceList)) /\ r = q
      BY <1>1, <2>1, <2>2 DEF Fails, Has, Faulted, Failed
    <3>2. WorkspaceList \in L1 /\ L1 \ {WorkspaceList} = L /\ G \cup {} = G
          /\ {} \in SUBSET {ClientMap}
      BY DEF Trio
    <3> HIDE DEF L1
    <3>3. /\ Beside(Free(p.state, WorkspaceList), b, d)
          /\ Has(Free(p.state, WorkspaceList), L1 \ {WorkspaceList}, G, {})
      BY <2>2, <3>2, FreeHas DEF Fails
    <3>4. Fails(r, b, d, L, G \cup {}, {})
      BY <3>1, <3>2, <3>3 DEF Fails, Failed
    <3> QED BY <3>2, <3>4
  <2>3. CASE Succeeds(p, b, d, L2, G2, {})
    <3>1. q = p
      BY <2>1, <2>3 DEF Succeeds
    <3>2. PICK m \in New(p.state, WorkspaceArray) :
            r = IF m.ok \/ Faulted(m.state) THEN m
                ELSE Failed(FreeAll(m.state, {ClientMap, WorkspaceList}))
      BY <1>1, <2>3, <3>1 DEF Succeeds, OrElse
    <3>3. CASE Fails(m, b, d, L2, G2, {})
      <4> DEFINE os == {ClientMap, WorkspaceList}
      <4>1. r = Failed(FreeAll(m.state, os))
        BY <3>2, <3>3 DEF Fails, Has, Faulted
      <4>2. os \subseteq L2 /\ L2 \ os = L
        BY DEF Trio
      <4> HIDE DEF os, L2, G2
      <4>3. /\ Beside(FreeAll(m.state, os), b, d)
            /\ Has(FreeAll(m.state, os), L2 \ os, G2, {})
        BY <3>3, <4>2, FreeAllHas DEF Fails
      <4>4. Fails(r, b, d, L, G2, {})
        BY <4>1, <4>2, <4>3 DEF Fails, Failed
      <4> QED BY <4>4 DEF G2
    <3>4. CASE Succeeds(m, b, d, L2 \cup {WorkspaceArray}, G2 \cup {WorkspaceArray}, {})
      <4>1. r = m
        BY <3>2, <3>4 DEF Succeeds
      <4>2. L2 \cup {WorkspaceArray} = L \cup Trio
            /\ G2 \cup {WorkspaceArray} = G \cup {ClientMap, WorkspaceArray}
        BY DEF Trio
      <4> QED BY <3>4, <4>1, <4>2
    <3> HIDE DEF L2, G2
    <3> QED BY <2>3, <3>2, <3>3, <3>4, NewHere DEF Succeeds
  <2> HIDE DEF L1
  <2>4. \/ Fails(p, b, d, L1, G, {})
        \/ Succeeds(p, b, d, L1 \cup {ClientMap}, G \cup {ClientMap}, {})
    BY <1>4, <2>1, NewHere DEF Succeeds
  <2> QED BY <2>2, <2>3, <2>4
<1> QED BY <1>2, <1>3, <1>4, CallocHas

AllSpaces == Spaces(WorkspaceCount)

\* If one workspace fails, the list is returned with those there are.
LEMMA FillOutcomes ==
  ASSUME WorkspaceCount \in Nat, NEW b, NEW d, NEW L, NEW G, NEW s,
         Beside(s, b, d), Has(s, L \cup Trio, G \cup {ClientMap, WorkspaceArray}, {}),
         L \cap (Trio \cup AllSpaces) = {}, ThemePart \notin G,
         \A i \in Int : Client(i) \notin G /\ Workspace(i) \notin G,
         NEW r \in OrElse(WorkspacesCreate(s), WorkspaceListDestroy)
  PROVE  \/ \E g \in SUBSET (AllSpaces \cup {ClientMap, WorkspaceArray}) : Fails(r, b, d, L, G \cup g, {})
         \/ Succeeds(r, b, d, L \cup Trio \cup AllSpaces,
                     G \cup {ClientMap, WorkspaceArray} \cup AllSpaces, {})
<1> DEFINE Two == {ClientMap, WorkspaceArray}
           L1 == L \cup Trio
           G1 == G \cup Two
<1>0. \A o \in AllSpaces : o[1] \in {"workspace", "clients"}
  BY DEF AllSpaces, Spaces, Workspace, ClientList
<1>1. PICK p \in WorkspacesCreate(s) :
        r = IF p.ok \/ Faulted(p.state) THEN p ELSE Failed(WorkspaceListDestroy(p.state))
  BY DEF OrElse
<1>2. \/ \E n \in 0 .. WorkspaceCount : Fails(p, b, d, L1 \cup Spaces(n), G1 \cup Spaces(n), {})
      \/ Succeeds(p, b, d, L1 \cup Spaces(WorkspaceCount), G1 \cup Spaces(WorkspaceCount), {})
  <2>1. L1 \cap Spaces(WorkspaceCount) = {}
    BY <1>0 DEF AllSpaces, Trio, ClientMap, WorkspaceArray, WorkspaceList
  <2> HIDE DEF L1
  <2>2. Has(s, L1, G1, {})
    BY DEF L1
  <2> HIDE DEF G1
  <2> QED BY <1>1, <2>1, <2>2, WorkspacesOutcomes
<1>3. ASSUME NEW n \in 0 .. WorkspaceCount, Fails(p, b, d, L1 \cup Spaces(n), G1 \cup Spaces(n), {})
      PROVE  \E g \in SUBSET (AllSpaces \cup Two) : Fails(r, b, d, L, G \cup g, {})
  <2> DEFINE P == L1 \cup Spaces(n)
             H == G1 \cup Spaces(n)
             g == Two \cup Spaces(n)
  <2>1. r = Failed(WorkspaceListDestroy(p.state))
    BY <1>1, <1>3 DEF Fails, Has, Faulted
  <2>2. Spaces(n) \subseteq AllSpaces
    BY DEF Spaces, AllSpaces
  <2>3. ThemePart \notin H
    BY <1>0, <2>2 DEF ThemePart, ClientMap, WorkspaceArray
  <2>4. \A i \in Int : /\ Client(i) \notin H
                       /\ Workspace(i) \in H <=> i \in 0 .. n - 1
    <3>1. \A i \in Int : Workspace(i) \notin Two /\ Client(i) \notin Two
      BY DEF Workspace, Client, ClientMap, WorkspaceArray
    <3>2. \A i \in Int : Client(i) \notin Spaces(n)
      BY <1>0, <2>2 DEF Client
    <3>3. \A i \in Int : Workspace(i) \in Spaces(n) <=> i \in 0 .. n - 1
      BY DEF Spaces, Workspace, ClientList
    <3> QED BY <3>1, <3>2, <3>3
  <2>5. SpacesOwned(H, WorkspaceCount) = Spaces(n)
    <3>1. {i \in 0 .. WorkspaceCount - 1 : Workspace(i) \in H} = 0 .. n - 1
      BY <2>4
    <3>2. {j \in 0 .. n - 1 : Client(j) \in H} = {}
      BY <2>4
    <3> HIDE DEF H
    <3> QED BY <3>1, <3>2 DEF SpacesOwned, Spaces
  <2>6. ListOwns(H) = Trio \cup Spaces(n)
    BY <2>3, <2>5 DEF ListOwns, Trio
  <2>7. ListOwns(H) \subseteq P /\ P \ ListOwns(H) = L
    BY <2>2, <2>6
  <2>8. H = G \cup g /\ g \in SUBSET (AllSpaces \cup Two)
    BY <2>2
  <2>9. {} \subseteq Loose
    OBVIOUS
  <2> HIDE DEF P, H, g
  <2>10. /\ Beside(WorkspaceListDestroy(p.state), b, d)
         /\ Has(WorkspaceListDestroy(p.state), P \ ListOwns(H), H, {})
    BY <1>3, <2>7, <2>9, ListDestroyHas DEF Fails, P, H
  <2>11. Fails(r, b, d, L, G \cup g, {})
    BY <2>1, <2>7, <2>8, <2>10 DEF Failed, Fails
  <2> QED BY <2>8, <2>11
<1>4. CASE Succeeds(p, b, d, L1 \cup Spaces(WorkspaceCount), G1 \cup Spaces(WorkspaceCount), {})
  BY <1>1, <1>4 DEF Succeeds, AllSpaces
<1> HIDE DEF L1, G1
<1> QED BY <1>2, <1>3, <1>4

\* The state with its hints, of the names that are written.
Attached(b, names) == UpdateDesktopNames(AttachToMonitors(b), names)

\* There is a monitor at least, so that one workspace has the focus.
LEMMA AttachHas ==
  ASSUME SetupAssumption, NEW b, NEW d \in Seq(Int), d # <<>>, DOMAIN b = Fields, b.offsets = d,
         NEW L, NEW G, NEW s, Beside(s, b, d), Has(s, L, G, {})
  PROVE  /\ Beside(AttachToMonitors(s), AttachToMonitors(b), d)
         /\ Has(AttachToMonitors(s), L, G, {})
         /\ AttachToMonitors(s).activeIndex # NULL
<1>1. Len(d) \in Nat \ {0} /\ WorkspaceCount \in Nat \ {0} /\ NULL # 0
  BY DEF SetupAssumption
<1> DEFINE n == IF Len(d) < WorkspaceCount THEN Len(d) ELSE WorkspaceCount
           shows == [k \in 1 .. Len(d) |-> IF Len(d) + 1 - k <= n THEN Len(d) + 1 - k - 1 ELSE NULL]
<1>2. n > 0
  BY <1>1
<1>3. \A t : t.offsets = d =>
        AttachToMonitors(t) = [t EXCEPT !.shows = shows, !.visible = 0 .. n - 1,
                                        !.focused = {0}, !.activeIndex = 0]
  <2> SUFFICES ASSUME NEW t, t.offsets = d
               PROVE  AttachToMonitors(t) = [t EXCEPT !.shows = shows, !.visible = 0 .. n - 1,
                                                      !.focused = {0}, !.activeIndex = 0]
    OBVIOUS
  <2>1. Found(t) = 1 .. Len(d) /\ \A k : At(t, k) = Len(d) + 1 - k
    BY DEF Found, At
  <2>2. [k \in Found(t) |-> IF At(t, k) <= n THEN At(t, k) - 1 ELSE NULL] = shows
    BY <2>1
  <2> HIDE DEF shows
  <2>3. AttachToMonitors(t) = [t EXCEPT !.shows = shows, !.visible = 0 .. n - 1,
                                        !.focused = IF n > 0 THEN {0} ELSE {},
                                        !.activeIndex = IF n > 0 THEN 0 ELSE NULL]
    BY <2>2 DEF AttachToMonitors
  <2> HIDE DEF n
  <2> QED BY <1>2, <2>3
<1> HIDE DEF n, shows
<1>4. s.offsets = d
  BY DEF Beside
<1>5. AttachToMonitors(s) = [s EXCEPT !.shows = shows, !.visible = 0 .. n - 1,
                                      !.focused = {0}, !.activeIndex = 0]
  BY <1>3, <1>4
<1>6. AttachToMonitors(b) = [b EXCEPT !.shows = shows, !.visible = 0 .. n - 1,
                                      !.focused = {0}, !.activeIndex = 0]
  BY <1>3
<1>7. Beside(AttachToMonitors(s), AttachToMonitors(b), d)
  BY <1>5, <1>6 DEF Beside, Fields
<1>8. Has(AttachToMonitors(s), L, G, {})
  BY <1>5 DEF Beside, Fields, Has
<1>9. AttachToMonitors(s).activeIndex = 0
  BY <1>5 DEF Beside, Fields
<1> QED BY <1>1, <1>7, <1>8, <1>9

\* workspace_list_init: everything, with names for the desktops, or nothing.
LEMMA ListInitOutcomes ==
  ASSUME SetupAssumption, NEW b, NEW d \in Seq(Int), d # <<>>, DOMAIN b = Fields, b.offsets = d,
         NEW L, NEW G, NEW s, Beside(s, b, d), Has(s, L, G, {}),
         L \cap (Trio \cup AllSpaces) = {}, ThemePart \notin G,
         \A i \in Int : Client(i) \notin G /\ Workspace(i) \notin G,
         MonitorList \in L, Config \in L,
         NEW r \in WorkspaceListInit(s)
  PROVE  \/ \E g \in SUBSET (AllSpaces \cup {ClientMap, WorkspaceArray}) : Fails(r, b, d, L, G \cup g, {})
         \/ \E names \in Names :
              Succeeds(r, Attached(b, names), d, L \cup Trio \cup AllSpaces,
                       G \cup Trio \cup AllSpaces, {})
<1> DEFINE Two == {ClientMap, WorkspaceArray}
           L2 == L \cup Trio \cup AllSpaces
           G2 == G \cup Two \cup AllSpaces
<1>0. WorkspaceCount \in Nat
  BY DEF SetupAssumption
<1>1. PICK q : /\ \E t : /\ t = AttachToMonitors(Use(Use(q.state, MonitorList), Config))
                         /\ r \in IF q.ok
                                  THEN {Done(Assign(UpdateDesktopNames(
                                          IF t.activeIndex = NULL THEN Fault(t, "memory") ELSE t, n),
                                                    WorkspaceList)) : n \in Names}
                                  ELSE {q}
               /\ \E c \in WorkspaceListCreate(s) :
                    q \in IF c.ok THEN OrElse(WorkspacesCreate(c.state), WorkspaceListDestroy) ELSE {c}
  BY DEF WorkspaceListInit, Then
<1>2. PICK c \in WorkspaceListCreate(s) :
        q \in IF c.ok THEN OrElse(WorkspacesCreate(c.state), WorkspaceListDestroy) ELSE {c}
  BY <1>1
<1>3. \/ \E g \in SUBSET {ClientMap} : Fails(c, b, d, L, G \cup g, {})
      \/ Succeeds(c, b, d, L \cup Trio, G \cup Two, {})
  <2>1. L \cap Trio = {}
    OBVIOUS
  <2> QED BY <2>1, ListCreateOutcomes
<1>4. ASSUME NEW g \in SUBSET {ClientMap}, Fails(c, b, d, L, G \cup g, {})
      PROVE  \E h \in SUBSET (AllSpaces \cup Two) : Fails(r, b, d, L, G \cup h, {})
  <2>1. q = c /\ r = c
    BY <1>1, <1>2, <1>4 DEF Fails
  <2> QED BY <1>4, <2>1
<1>5. CASE Succeeds(c, b, d, L \cup Trio, G \cup Two, {})
  <2>1. q \in OrElse(WorkspacesCreate(c.state), WorkspaceListDestroy)
    BY <1>2, <1>5 DEF Succeeds
  <2>2. \/ \E g \in SUBSET (AllSpaces \cup Two) : Fails(q, b, d, L, G \cup g, {})
        \/ Succeeds(q, b, d, L2, G2, {})
    BY <1>0, <1>5, <2>1, FillOutcomes DEF Succeeds
  <2>3. ASSUME NEW g \in SUBSET (AllSpaces \cup Two), Fails(q, b, d, L, G \cup g, {})
        PROVE  Fails(r, b, d, L, G \cup g, {})
    BY <1>1, <2>3 DEF Fails
  <2>4. CASE Succeeds(q, b, d, L2, G2, {})
    <3> DEFINE t == AttachToMonitors(q.state)
    <3>1. MonitorList \in L2 /\ Config \in L2
      OBVIOUS
    <3> HIDE DEF L2, G2
    <3>2. Use(Use(q.state, MonitorList), Config) = q.state
      BY <2>4, <3>1, UseHas DEF Succeeds
    <3>3. Beside(t, AttachToMonitors(b), d) /\ Has(t, L2, G2, {}) /\ t.activeIndex # NULL
      BY <2>4, AttachHas DEF Succeeds
    <3>4. PICK n \in Names : r = Done(Assign(UpdateDesktopNames(t, n), WorkspaceList))
      BY <1>1, <2>4, <3>2, <3>3 DEF Succeeds
    <3> HIDE DEF t
    <3> DEFINE u == UpdateDesktopNames(t, n)
    <3>5. DOMAIN AttachToMonitors(b) = Fields
      BY DEF AttachToMonitors
    <3>6. Beside(u, Attached(b, n), d) /\ Has(u, L2, G2, {})
      BY <3>3, <3>5 DEF UpdateDesktopNames, Attached, Beside, Fields, Has
    <3> HIDE DEF u
    <3>7. /\ Beside(Assign(u, WorkspaceList), Attached(b, n), d)
          /\ Has(Assign(u, WorkspaceList), L2, G2 \cup {WorkspaceList}, {} \ {WorkspaceList})
      BY <3>6, AssignHas
    <3>8. G2 \cup {WorkspaceList} = G \cup Trio \cup AllSpaces /\ {} \ {WorkspaceList} = {}
      BY DEF G2, Trio
    <3>9. Succeeds(r, Attached(b, n), d, L2, G \cup Trio \cup AllSpaces, {})
      BY <3>4, <3>7, <3>8 DEF Done, Succeeds, u
    <3> QED BY <3>9 DEF L2
  <2> HIDE DEF L2, G2
  <2> QED BY <2>2, <2>3, <2>4
<1> QED BY <1>3, <1>4, <1>5

-----------------------------------------------------------------------------
(* The monitors *)

\* A reply that was not there has been read.
Lost(s, b) == Beside(s, b, s.offsets) /\ s.fault = "reply" /\ s.wild = {}

\* It is read.
LEMMA FaultLost ==
  ASSUME NEW b, NEW d, NEW L, NEW G, NEW s, Beside(s, b, d), Has(s, L, G, {})
  PROVE  Lost(Fault(s, "reply"), b) /\ Faulted(Fault(s, "reply"))
BY DEF Beside, Fields, Has, Lost, Fault, Faulted

RandrThings(A) == {RandrMonitor(i) : i \in A}
Screen(n) == {Monitor(k) : k \in 1 .. n}

\* All there is while monitors are looked for; the extension is known before.
Findings == {Monitors, RandrArray, Rects} \cup {Monitor(k) : k \in Int} \cup RandrThings(Int)

\* What natwm forgets if it fails to find monitors, n of which it has made.
Forgotten(b, n) == {Monitors, RandrArray} \cup Screen(n) \cup RandrThings(Active(b))

\* Nothing is found: b with memory L and G, and what is forgotten.
Forgets(r, b, L, G) ==
  /\ r.ok = FALSE
  /\ \/ Lost(r.state, b)
     \/ \E d \in Seq({Unset}) : \E l \in SUBSET Forgotten(b, Len(d)), g \in SUBSET Findings :
          Beside(r.state, b, d) /\ Has(r.state, L \cup l, G \cup g, {})

\* A failure that leaves no more than what may be forgotten.
LEMMA FailureForgets ==
  ASSUME NEW b, NEW L, NEW G, NEW r, NEW d \in Seq({Unset}), NEW l \in SUBSET Forgotten(b, Len(d)),
         NEW g \in SUBSET Findings, NEW K, NEW H, K = L \cup l, H = G \cup g, Fails(r, b, d, K, H, {})
  PROVE  Forgets(r, b, L, G)
BY Zenon DEF Forgets, Fails

\* So does one for want of a reply, after which natwm has crashed.
LEMMA LossForgets ==
  ASSUME NEW b, NEW L, NEW G, NEW d, NEW K, NEW H, NEW s, Beside(s, b, d), Has(s, K, H, {}),
         NEW r, r = Failed(Fault(s, "reply"))
  PROVE  Forgets(r, b, L, G) /\ Faulted(r.state)
<1>1. Lost(Fault(s, "reply"), b) /\ Faulted(Fault(s, "reply"))
  BY FaultLost
<1> QED BY <1>1 DEF Failed, Forgets

\* What the server is connected to does not change.
LEMMA ActiveHas ==
  ASSUME NEW b, NEW d, NEW s, Beside(s, b, d)
  PROVE  Active(s) = Active(b) /\ s.outputs = b.outputs
BY DEF Beside, Active

\* monitor_create and list_insert.
LEMMA InsertOutcomes ==
  ASSUME NEW b, NEW d \in Seq({Unset}), NEW L, NEW G, NEW s, Beside(s, b, d), Has(s, L, G, {}),
         Screen(Len(d)) \cup {Monitors} \subseteq L, L \cap {Monitor(k) : k \in Int} \subseteq Screen(Len(d)),
         NEW r \in Insert(s)
  PROVE  \/ Fails(r, b, d, L \ (Screen(Len(d)) \cup {Monitors}), G, {})
         \/ /\ Append(d, Unset) \in Seq({Unset}) /\ Len(Append(d, Unset)) = Len(d) + 1
            /\ Succeeds(r, b, Append(d, Unset), L \cup {Monitor(Len(d) + 1)},
                        G \cup {Monitor(Len(d) + 1)}, {})
<1> DEFINE o == Monitor(Len(d) + 1)
           os == Screen(Len(d)) \cup {Monitors}
<1>1. s.offsets = d /\ Len(d) \in Nat
  BY DEF Beside
<1>2. o \notin L
  BY <1>1 DEF Screen, Monitor
<1>3. PICK q \in OrElse(New(s, o), LAMBDA t : FreeAll(t, Listed(t) \cup {Monitors})) :
        r \in IF q.ok THEN {Done([q.state EXCEPT !.offsets = Append(@, Unset)])} ELSE {q}
  BY <1>1 DEF Insert, Then
<1>4. PICK p \in New(s, o) :
        q = IF p.ok \/ Faulted(p.state) THEN p
            ELSE Failed(FreeAll(p.state, Listed(p.state) \cup {Monitors}))
  BY <1>3 DEF OrElse
<1>5. CASE Fails(p, b, d, L, G, {})
  <2>1. q = Failed(FreeAll(p.state, Listed(p.state) \cup {Monitors})) /\ r = q
    BY <1>3, <1>4, <1>5 DEF Fails, Has, Faulted, Failed
  <2>2. Listed(p.state) = Screen(Len(d))
    BY <1>5 DEF Fails, Beside, Listed, Found, Screen
  <2>3. os \subseteq L
    OBVIOUS
  <2> HIDE DEF os
  <2>4. Beside(FreeAll(p.state, os), b, d) /\ Has(FreeAll(p.state, os), L \ os, G, {})
    BY <1>5, <2>3, FreeAllHas DEF Fails
  <2>5. Fails(r, b, d, L \ os, G, {})
    BY <2>1, <2>2, <2>4 DEF Fails, Failed, os
  <2> QED BY <2>5 DEF os
<1>6. CASE Succeeds(p, b, d, L \cup {o}, G \cup {o}, {})
  <2>1. r = Done([p.state EXCEPT !.offsets = Append(@, Unset)])
    BY <1>3, <1>4, <1>6 DEF Succeeds
  <2>2. p.state.offsets = d
    BY <1>6 DEF Succeeds, Beside
  <2> HIDE DEF o
  <2> DEFINE e == Append(d, Unset)
  <2>3. e \in Seq({Unset}) /\ Len(e) = Len(d) + 1
    OBVIOUS
  <2> HIDE DEF e
  <2>4. /\ Beside([p.state EXCEPT !.offsets = e], b, e)
        /\ Has([p.state EXCEPT !.offsets = e], L \cup {o}, G \cup {o}, {})
    BY <1>6 DEF Succeeds, Beside, Fields, Has
  <2>5. r = Done([p.state EXCEPT !.offsets = e])
    BY <2>1, <2>2 DEF e
  <2> QED BY <2>3, <2>4, <2>5 DEF Done, Succeeds, e, o
<1> QED BY <1>4, <1>5, <1>6, NewHere

\* server_extension_detect.
LEMMA DetectOutcomes ==
  ASSUME NEW b, NEW d, NEW L, NEW G, NEW s, Beside(s, b, d), Has(s, L, G, {}),
         NEW r \in Detect(s)
  PROVE  \/ Fails(r, b, d, L, G, {})
         \/ r.ok = FALSE /\ Lost(r.state, b)
         \/ Succeeds(r, b, d, L \cup {Extension}, G \cup {Extension}, {})
<1> DEFINE L1 == L \cup {Extension}
           G1 == G \cup {Extension}
           None(t) == [t EXCEPT !.extension = "none"]
<1>1. PICK p \in New(s, Extension) :
        r \in IF p.ok
              THEN UNION {CASE u.lost \/ u.extension = "none" -> {Done(None(u))}
                            [] u.extension = "randr" -> {Done(u)}
                            [] u.extension = "xinerama" ->
                                 Trusting(u, LAMBDA v : {Done(v)} \cup {Done(None(v))})
                          : u \in Asked(p.state)}
              ELSE {p}
  BY DEF Detect, Then
<1>2. CASE Fails(p, b, d, L, G, {})
  BY <1>1, <1>2 DEF Fails
<1>3. CASE Succeeds(p, b, d, L1, G1, {})
  <2>1. PICK u \in Asked(p.state) :
          r \in CASE u.lost \/ u.extension = "none" -> {Done(None(u))}
                  [] u.extension = "randr" -> {Done(u)}
                  [] u.extension = "xinerama" ->
                       Trusting(u, LAMBDA v : {Done(v)} \cup {Done(None(v))})
    BY <1>1, <1>3 DEF Succeeds
  <2> HIDE DEF L1, G1
  <2>2. Beside(u, b, d) /\ Has(u, L1, G1, {})
    BY <1>3, <2>1, AskedHas DEF Succeeds
  <2>3. ASSUME NEW v, Beside(v, b, d), Has(v, L1, G1, {}), r \in {Done(v), Done(None(v))}
        PROVE  Succeeds(r, b, d, L1, G1, {})
    <3>1. Beside(None(v), b, d) /\ Has(None(v), L1, G1, {})
      BY <2>3 DEF Beside, Fields, Has
    <3> QED BY <2>3, <3>1 DEF Succeeds, Done
  <2>4. u.extension \in {"randr", "xinerama", "none"}
    BY <2>2 DEF Beside
  <2>5. \/ r \in {Done(u), Done(None(u))}
        \/ r \in Trusting(u, LAMBDA v : {Done(v)} \cup {Done(None(v))})
    BY <2>1, <2>4
  <2>6. CASE r \in {Done(u), Done(None(u))}
    BY <2>2, <2>3, <2>6 DEF L1, G1
  <2>7. CASE r \in Trusting(u, LAMBDA v : {Done(v)} \cup {Done(None(v))})
    <3>1. PICK v \in Asked(u) : r = Failed(Fault(v, "reply")) \/ r \in {Done(v), Done(None(v))}
      BY <2>7 DEF Trusting
    <3>2. Beside(v, b, d) /\ Has(v, L1, G1, {})
      BY <2>2, <3>1, AskedHas
    <3>3. CASE r = Failed(Fault(v, "reply"))
      BY <3>2, <3>3, FaultLost DEF Failed
    <3>4. CASE r \in {Done(v), Done(None(v))}
      BY <2>3, <3>2, <3>4 DEF L1, G1
    <3> QED BY <3>1, <3>3, <3>4
  <2> QED BY <2>5, <2>6, <2>7
<1> HIDE DEF L1, G1
<1>4. Fails(p, b, d, L, G, {}) \/ Succeeds(p, b, d, L1, G1, {})
  BY <1>1, NewHere DEF L1, G1
<1> QED BY <1>2, <1>3, <1>4

\* The loops over the outputs.
LEMMA OutputRounds ==
  ASSUME NEW s, Len(s.outputs) \in Nat
  PROVE  \E f : GoesOn(f, Len(s.outputs), "output", s) /\ RandrOutputs(s) = f[Len(s.outputs)]
<1> DEFINE n == Len(s.outputs)
           B(f, i) == IF i = 0 THEN {Done(s)}
                      ELSE UNION {IF r.ok THEN RandrOutput(r.state, i) ELSE {r} : r \in f[i - 1]}
           g == CHOOSE f : f = [i \in 0 .. n |-> B(f, i)]
<1>1. \A outcomes, i : AfterRound("output", outcomes, i)
        = UNION {IF r.ok THEN RandrOutput(r.state, i) ELSE {r} : r \in outcomes}
  BY DEF AfterRound, Round
<1>2. \A f : GoesOn(f, n, "output", s) <=> f = [i \in 0 .. n |-> B(f, i)]
  BY <1>1 DEF GoesOn
<1>3. \E f : f = [i \in 0 .. n |-> B(f, i)]
  BY <1>2, GoingOn
<1>4. g = [i \in 0 .. n |-> B(g, i)]
  BY <1>3, Zenon
<1>5. RandrOutputs(s) = g[n]
  BY Zenon DEF RandrOutputs, ForEach, Rounds, Then
<1> HIDE DEF g
<1> QED BY <1>2, <1>4, <1>5

\* And the loop over what was found there.
LEMMA RandrRounds ==
  ASSUME NEW s, Len(s.outputs) \in Nat
  PROVE  \E f : GoesOn(f, Len(s.outputs), "randr", s) /\ RandrMoves(s) = f[Len(s.outputs)]
<1> DEFINE n == Len(s.outputs)
           B(f, i) == IF i = 0 THEN {Done(s)}
                      ELSE UNION {IF r.ok THEN RandrMove(r.state, i) ELSE {r} : r \in f[i - 1]}
           g == CHOOSE f : f = [i \in 0 .. n |-> B(f, i)]
<1>1. \A outcomes, i : AfterRound("randr", outcomes, i)
        = UNION {IF r.ok THEN RandrMove(r.state, i) ELSE {r} : r \in outcomes}
  BY DEF AfterRound, Round
<1>2. \A f : GoesOn(f, n, "randr", s) <=> f = [i \in 0 .. n |-> B(f, i)]
  BY <1>1 DEF GoesOn
<1>3. \E f : f = [i \in 0 .. n |-> B(f, i)]
  BY <1>2, GoingOn
<1>4. g = [i \in 0 .. n |-> B(g, i)]
  BY <1>3, Zenon
<1>5. RandrMoves(s) = g[n]
  BY Zenon DEF RandrMoves, ForEach, Rounds, Then
<1> HIDE DEF g
<1> QED BY <1>2, <1>4, <1>5

\* And that of monitors_from_xinerama.
LEMMA XineramaRounds ==
  ASSUME NEW s, Len(s.outputs) \in Nat
  PROVE  \E f : GoesOn(f, Len(s.outputs), "xinerama", s) /\ XineramaMoves(s) = f[Len(s.outputs)]
<1> DEFINE n == Len(s.outputs)
           B(f, i) == IF i = 0 THEN {Done(s)}
                      ELSE UNION {IF r.ok THEN XineramaMove(r.state, i) ELSE {r} : r \in f[i - 1]}
           g == CHOOSE f : f = [i \in 0 .. n |-> B(f, i)]
<1>1. \A outcomes, i : AfterRound("xinerama", outcomes, i)
        = UNION {IF r.ok THEN XineramaMove(r.state, i) ELSE {r} : r \in outcomes}
  BY DEF AfterRound, Round
<1>2. \A f : GoesOn(f, n, "xinerama", s) <=> f = [i \in 0 .. n |-> B(f, i)]
  BY <1>1 DEF GoesOn
<1>3. \E f : f = [i \in 0 .. n |-> B(f, i)]
  BY <1>2, GoingOn
<1>4. g = [i \in 0 .. n |-> B(g, i)]
  BY <1>3, Zenon
<1>5. XineramaMoves(s) = g[n]
  BY Zenon DEF XineramaMoves, ForEach, Rounds, Then
<1> HIDE DEF g
<1> QED BY <1>2, <1>4, <1>5

\* The first n outputs that are active.
Upto(b, n) == Active(b) \cap 1 .. n

\* One output more.
LEMMA UptoNext ==
  ASSUME NEW b, Len(b.outputs) \in Nat, NEW n \in Nat
  PROVE  /\ Upto(b, 0) = {} /\ Upto(b, Len(b.outputs)) = Active(b)
         /\ Upto(b, n + 1) = IF n + 1 \in Active(b) THEN Upto(b, n) \cup {n + 1} ELSE Upto(b, n)
         /\ RandrThings(Upto(b, n + 1)) =
              IF n + 1 \in Active(b) THEN RandrThings(Upto(b, n)) \cup {RandrMonitor(n + 1)}
              ELSE RandrThings(Upto(b, n))
         /\ RandrMonitor(n + 1) \notin RandrThings(Upto(b, n))
         /\ Active(b) \subseteq 1 .. Len(b.outputs)
<1>1. /\ 1 .. n + 1 = (1 .. n) \cup {n + 1} /\ n + 1 \notin 1 .. n /\ 1 .. 0 = {}
      /\ Active(b) \subseteq 1 .. Len(b.outputs)
  BY DEF Active
<1>2. \A i, j : RandrMonitor(i) = RandrMonitor(j) => i = j
  BY DEF RandrMonitor
<1>3. Upto(b, n + 1) = IF n + 1 \in Active(b) THEN Upto(b, n) \cup {n + 1} ELSE Upto(b, n)
  BY <1>1 DEF Upto
<1>4. /\ Upto(b, 0) = {} /\ Upto(b, Len(b.outputs)) = Active(b) /\ n + 1 \notin Upto(b, n)
  BY <1>1 DEF Upto
<1> QED BY <1>1, <1>2, <1>3, <1>4 DEF RandrThings

\* One output: it is kept if it is active, and all are returned if there is no memory.
LEMMA OutputOutcomes ==
  ASSUME NEW b, Len(b.outputs) \in Nat, NEW d \in Seq({Unset}), NEW L, NEW G, NEW s,
         NEW n \in 0 .. Len(b.outputs) - 1,
         Beside(s, b, d),
         Has(s, L \cup {RandrArray} \cup RandrThings(Upto(b, n)), G \cup RandrThings(Upto(b, n)), {}),
         L \cap Findings \subseteq {Monitors}, NEW r \in RandrOutput(s, n + 1)
  PROVE  \/ r.ok = FALSE /\ Faulted(r.state) /\ Lost(r.state, b)
         \/ Fails(r, b, d, L, G \cup RandrThings(Upto(b, n)), {})
         \/ Succeeds(r, b, d, L \cup {RandrArray} \cup RandrThings(Upto(b, n + 1)),
                     G \cup RandrThings(Upto(b, n + 1)), {})
<1> DEFINE T == RandrThings(Upto(b, n))
           L1 == L \cup {RandrArray} \cup T
           G1 == G \cup T
           os == {RandrArray} \cup T
           o == RandrMonitor(n + 1)
<1>0. Active(s) = Active(b)
  BY ActiveHas
<1>9. /\ RandrThings(Upto(b, n + 1)) = IF n + 1 \in Active(b) THEN T \cup {o} ELSE T
      /\ T \subseteq RandrThings(Int)
  <2>1. n \in Nat
    OBVIOUS
  <2>2. RandrThings(Upto(b, n + 1)) =
          IF n + 1 \in Active(b) THEN RandrThings(Upto(b, n)) \cup {RandrMonitor(n + 1)}
          ELSE RandrThings(Upto(b, n))
    BY <2>1, UptoNext
  <2>3. T \subseteq RandrThings(Int)
    BY DEF Upto, RandrThings
  <2> QED BY <2>2, <2>3
<1>1. {RandrMonitor(j) : j \in Active(s) \cap 1 .. (n + 1) - 1} = T
  BY <1>0 DEF RandrThings, Upto
<1> DEFINE Tried(u) ==
             {IF p.ok \/ Faulted(p.state) THEN p
              ELSE Failed(FreeAll(p.state,
                     {RandrArray} \cup {RandrMonitor(j) : j \in Active(s) \cap 1 .. (n + 1) - 1})) :
                p \in IF n + 1 \notin Active(s) THEN {Done(u)} ELSE New(u, RandrMonitor(n + 1))}
<1>8. r \in UNION {IF t.lost THEN {Failed(Fault(t, "reply"))}
                  ELSE UNION {IF u.lost THEN {Failed(Fault(u, "reply"))} ELSE Tried(u) : u \in Asked(t)}
                  : t \in Asked(s)}
  BY Zenon DEF RandrOutput, Trusting, OrElse
<1> HIDE DEF Tried
<1>2. PICK t \in Asked(s) :
        \/ r = Failed(Fault(t, "reply"))
        \/ \E u \in Asked(t) : r = Failed(Fault(u, "reply")) \/ r \in Tried(u)
  BY <1>8
<1> HIDE DEF T, L1, G1, os, o
<1>3. Beside(s, b, d) /\ Has(s, L1, G1, {})
  BY DEF L1, G1, T
<1>4. Beside(t, b, d) /\ Has(t, L1, G1, {})
  BY <1>2, <1>3, AskedHas
<1>5. CASE r = Failed(Fault(t, "reply"))
  BY <1>4, <1>5, FaultLost DEF Failed
<1>6. ASSUME NEW u \in Asked(t), r = Failed(Fault(u, "reply"))
      PROVE  r.ok = FALSE /\ Faulted(r.state) /\ Lost(r.state, b)
  <2>1. Beside(u, b, d) /\ Has(u, L1, G1, {})
    BY <1>4, AskedHas
  <2> QED BY <1>6, <2>1, FaultLost DEF Failed
<1>7. ASSUME NEW u \in Asked(t), r \in Tried(u)
      PROVE  \/ Fails(r, b, d, L, G1, {})
             \/ Succeeds(r, b, d, L \cup {RandrArray} \cup RandrThings(Upto(b, n + 1)),
                         G \cup RandrThings(Upto(b, n + 1)), {})
  <2>0. PICK p \in IF n + 1 \notin Active(b) THEN {Done(u)} ELSE New(u, o) :
          r = IF p.ok \/ Faulted(p.state) THEN p ELSE Failed(FreeAll(p.state, os))
    BY <1>0, <1>1, <1>7 DEF Tried, o, os
  <2>1. Beside(u, b, d) /\ Has(u, L1, G1, {})
    BY <1>4, AskedHas
  <2>2. CASE n + 1 \notin Active(b)
    <3>1. RandrThings(Upto(b, n + 1)) = T
      BY <1>9, <2>2
    <3>2. r = Done(u)
      BY <2>0, <2>2 DEF Done
    <3> QED BY <2>1, <3>1, <3>2 DEF Done, Succeeds, L1, G1
  <2>3. CASE n + 1 \in Active(b)
    <3>1. Fails(p, b, d, L1, G1, {}) \/ Succeeds(p, b, d, L1 \cup {o}, G1 \cup {o}, {})
      BY <2>0, <2>1, <2>3, NewHere
    <3>2. CASE Fails(p, b, d, L1, G1, {})
      <4>1. r = Failed(FreeAll(p.state, os))
        BY <2>0, <3>2 DEF Fails, Has, Faulted
      <4>2. os \subseteq L1 /\ L1 \ os = L
        <5>1. os \subseteq Findings \ {Monitors}
          BY <1>9 DEF os, Findings, RandrThings, RandrArray, Monitors, RandrMonitor
        <5> QED BY <5>1 DEF L1, os
      <4>3. Beside(FreeAll(p.state, os), b, d) /\ Has(FreeAll(p.state, os), L1 \ os, G1, {})
        BY <3>2, <4>2, FreeAllHas DEF Fails
      <4> QED BY <4>1, <4>2, <4>3 DEF Fails, Failed
    <3>3. CASE Succeeds(p, b, d, L1 \cup {o}, G1 \cup {o}, {})
      <4>1. r = p
        BY <2>0, <3>3 DEF Succeeds
      <4>2. RandrThings(Upto(b, n + 1)) = T \cup {o}
        BY <1>9, <2>3
      <4>3. /\ L1 \cup {o} = L \cup {RandrArray} \cup RandrThings(Upto(b, n + 1))
            /\ G1 \cup {o} = G \cup RandrThings(Upto(b, n + 1))
        BY <4>2 DEF L1, G1
      <4> QED BY <3>3, <4>1, <4>3
    <3> QED BY <3>1, <3>2, <3>3
  <2> QED BY <2>2, <2>3
<1> QED BY <1>2, <1>5, <1>6, <1>7 DEF G1, T

\* After any number of them, the active ones so far.
LEMMA OutputsOutcomes ==
  ASSUME NEW b, Len(b.outputs) \in Nat, NEW d \in Seq({Unset}), NEW L, NEW G, NEW s,
         Beside(s, b, d), Has(s, L \cup {RandrArray}, G, {}),
         L \cap Findings \subseteq {Monitors}, NEW r \in RandrOutputs(s)
  PROVE  \/ r.ok = FALSE /\ Faulted(r.state) /\ Lost(r.state, b)
         \/ \E g \in SUBSET Findings : Fails(r, b, d, L, G \cup g, {})
         \/ Succeeds(r, b, d, L \cup {RandrArray} \cup RandrThings(Active(b)),
                     G \cup RandrThings(Active(b)), {})
<1> DEFINE N == Len(b.outputs)
<1>0. s.outputs = b.outputs /\ N \in Nat
  BY ActiveHas
<1>1. PICK f : GoesOn(f, N, "output", s) /\ RandrOutputs(s) = f[N]
  BY <1>0, OutputRounds
<1>2. /\ f[0] = {Done(s)}
      /\ \A i \in 0 .. N - 1 : \A q \in f[i + 1] : \E p \in f[i] :
           IF p.ok THEN q \in Round("output", p.state, i + 1) ELSE q = p
  BY <1>0, <1>1, RoundByRound
<1> DEFINE P(n, q) == \/ q.ok = FALSE /\ Faulted(q.state) /\ Lost(q.state, b)
                      \/ \E g \in SUBSET Findings : Fails(q, b, d, L, G \cup g, {})
                      \/ Succeeds(q, b, d, L \cup {RandrArray} \cup RandrThings(Upto(b, n)),
                                  G \cup RandrThings(Upto(b, n)), {})
           I == {n \in 0 .. N : \A q \in f[n] : P(n, q)}
<1>3. 0 \in I
  <2>1. RandrThings(Upto(b, 0)) = {}
    BY UptoNext DEF RandrThings
  <2>2. L \cup {RandrArray} \cup RandrThings(Upto(b, 0)) = L \cup {RandrArray}
        /\ G \cup RandrThings(Upto(b, 0)) = G
    BY <2>1
  <2>3. P(0, Done(s))
    BY <2>2 DEF Done, Succeeds
  <2> HIDE DEF P
  <2> QED BY <1>0, <1>2, <2>3
<1>4. ASSUME NEW n \in 0 .. N - 1, n \in I PROVE n + 1 \in I
  <2>1. ASSUME NEW q \in f[n + 1] PROVE P(n + 1, q)
    <3>1. PICK p \in f[n] : IF p.ok THEN q \in Round("output", p.state, n + 1) ELSE q = p
      BY <1>2
    <3>2. P(n, p)
      BY <1>4
    <3>3. CASE p.ok = FALSE
      <4>1. q = p
        BY <3>1, <3>3
      <4> QED BY <3>2, <3>3, <4>1 DEF Succeeds
    <3>4. CASE Succeeds(p, b, d, L \cup {RandrArray} \cup RandrThings(Upto(b, n)),
                        G \cup RandrThings(Upto(b, n)), {})
      <4>1. q \in RandrOutput(p.state, n + 1)
        BY <3>1, <3>4 DEF Succeeds, Round
      <4>2. \/ q.ok = FALSE /\ Faulted(q.state) /\ Lost(q.state, b)
            \/ Fails(q, b, d, L, G \cup RandrThings(Upto(b, n)), {})
            \/ Succeeds(q, b, d, L \cup {RandrArray} \cup RandrThings(Upto(b, n + 1)),
                        G \cup RandrThings(Upto(b, n + 1)), {})
        BY <3>4, <4>1, OutputOutcomes DEF Succeeds
      <4>3. RandrThings(Upto(b, n)) \in SUBSET Findings
        BY UptoNext DEF RandrThings, Findings, Upto
      <4> QED BY <4>2, <4>3
    <3> QED BY <3>2, <3>3, <3>4 DEF Fails
  <2> HIDE DEF P
  <2> QED BY <2>1
<1>5. N \in I
  <2> HIDE DEF I
  <2>1. \A n \in 0 .. N - 1 : n \in I => n + 1 \in I
    BY <1>4
  <2>2. \A n \in 0 .. N : n \in I
    BY <1>0, <1>3, <2>1, Throughout
  <2> QED BY <1>0, <2>2
<1>6. Upto(b, N) = Active(b)
  BY UptoNext
<1> QED BY <1>1, <1>5, <1>6

\* The list of monitors, each with its offset unset, besides K.
Lists(r, b, L, K, G) ==
  \E d \in Seq({Unset}), g \in SUBSET Findings :
    Succeeds(r, b, d, L \cup {Monitors} \cup K \cup Screen(Len(d)), G \cup g, {})

\* A failure that leaves K.
Leaves(r, b, L, K, G) ==
  \E d \in Seq({Unset}), g \in SUBSET Findings : Fails(r, b, d, L \cup K, G \cup g, {})

\* monitor_create and list_insert add one monitor to the list, or return it.
LEMMA InsertLists ==
  ASSUME NEW b, NEW L, NEW K, NEW G, L \cap Findings = {}, K \subseteq Findings,
         Monitors \notin K, \A k \in Int : Monitor(k) \notin K,
         NEW p, Lists(p, b, L, K, G), NEW r \in Insert(p.state)
  PROVE  Leaves(r, b, L, K, G) \/ Lists(r, b, L, K, G)
<1>1. PICK d \in Seq({Unset}), g \in SUBSET Findings :
        Succeeds(p, b, d, L \cup {Monitors} \cup K \cup Screen(Len(d)), G \cup g, {})
  BY DEF Lists
<1> DEFINE n == Len(d)
           L1 == L \cup {Monitors} \cup K \cup Screen(n)
           G1 == G \cup g
           o == Monitor(n + 1)
           e == Append(d, Unset)
           os == Screen(n) \cup {Monitors}
<1>2. n \in Nat
  OBVIOUS
<1>3. Screen(n) \subseteq {Monitor(k) : k \in Int} /\ Monitors \notin {Monitor(k) : k \in Int}
      /\ {Monitor(k) : k \in Int} \subseteq Findings
  BY DEF Screen, Findings, Monitor, Monitors
<1>4. /\ os \subseteq L1
      /\ L1 \cap {Monitor(k) : k \in Int} \subseteq Screen(n)
      /\ L1 \ os = L \cup K
  BY <1>3 DEF Findings
<1>5. Screen(n + 1) = Screen(n) \cup {o}
  <2>1. 1 .. n + 1 = (1 .. n) \cup {n + 1}
    BY <1>2
  <2> QED BY <2>1 DEF Screen
<1>6. L1 \cup {o} = L \cup {Monitors} \cup K \cup Screen(n + 1)
  BY <1>5
<1>7. G1 \cup {o} = G \cup (g \cup {o}) /\ g \cup {o} \in SUBSET Findings
  BY <1>2, <1>3
<1> HIDE DEF L1, G1
<1>8. Beside(p.state, b, d) /\ Has(p.state, L1, G1, {})
  BY <1>1 DEF Succeeds, L1, G1
<1>9. \/ Fails(r, b, d, L1 \ os, G1, {})
      \/ /\ e \in Seq({Unset}) /\ Len(e) = n + 1
         /\ Succeeds(r, b, e, L1 \cup {o}, G1 \cup {o}, {})
  BY <1>4, <1>8, InsertOutcomes
<1>10. CASE Fails(r, b, d, L1 \ os, G1, {})
  BY <1>4, <1>10 DEF Leaves, G1
<1> HIDE DEF o, e, os
<1>11. CASE /\ e \in Seq({Unset}) /\ Len(e) = n + 1
            /\ Succeeds(r, b, e, L1 \cup {o}, G1 \cup {o}, {})
  <2>1. Succeeds(r, b, e, L \cup {Monitors} \cup K \cup Screen(Len(e)), G \cup (g \cup {o}), {})
    BY <1>6, <1>7, <1>11
  <2> QED BY <1>7, <1>11, <2>1 DEF Lists
<1> QED BY <1>9, <1>10, <1>11

\* What is freed after all monitors are listed.
LEMMA ListsFree ==
  ASSUME NEW b, NEW L, NEW K, NEW G, L \cap Findings = {}, K \subseteq Findings,
         Monitors \notin K, \A k \in Int : Monitor(k) \notin K,
         NEW p, Lists(p, b, L, K, G), NEW o \in K
  PROVE  Lists(Done(Free(p.state, o)), b, L, K \ {o}, G)
<1>1. PICK d \in Seq({Unset}), g \in SUBSET Findings :
        Succeeds(p, b, d, L \cup {Monitors} \cup K \cup Screen(Len(d)), G \cup g, {})
  BY DEF Lists
<1> DEFINE L1 == L \cup {Monitors} \cup K \cup Screen(Len(d))
<1>2. L1 \ {o} = L \cup {Monitors} \cup (K \ {o}) \cup Screen(Len(d)) /\ o \in L1
  BY DEF Screen
<1> HIDE DEF L1
<1>3. Beside(Free(p.state, o), b, d) /\ Has(Free(p.state, o), L1 \ {o}, G \cup g, {})
  BY <1>1, <1>2, FreeHas DEF Succeeds, L1
<1> QED BY <1>2, <1>3 DEF Lists, Succeeds, Done

\* What is freed after a failure is not among what is left.
LEMMA LeavesFree ==
  ASSUME NEW b, NEW L, NEW K, NEW G, L \cap Findings = {}, K \subseteq Findings,
         NEW p, Leaves(p, b, L, K, G), NEW o \in K
  PROVE  Leaves(Failed(Free(p.state, o)), b, L, K \ {o}, G)
<1>1. PICK d \in Seq({Unset}), g \in SUBSET Findings : Fails(p, b, d, L \cup K, G \cup g, {})
  BY DEF Leaves
<1>2. (L \cup K) \ {o} = L \cup (K \ {o}) /\ o \in L \cup K
  OBVIOUS
<1>3. Beside(Free(p.state, o), b, d) /\ Has(Free(p.state, o), (L \cup K) \ {o}, G \cup g, {})
  BY <1>1, <1>2, FreeHas DEF Fails
<1> QED BY <1>2, <1>3 DEF Leaves, Fails, Failed

\* What RandR has found and is no monitor yet.
Remain(b, n) == {RandrArray} \cup RandrThings(Active(b) \ (1 .. n))

\* One output is done with.
LEMMA RemainNext ==
  ASSUME NEW b, Len(b.outputs) \in Nat, NEW n \in Nat
  PROVE  /\ Remain(b, 0) = {RandrArray} \cup RandrThings(Active(b))
         /\ Remain(b, Len(b.outputs)) = {RandrArray}
         /\ n + 1 \notin Active(b) => Remain(b, n + 1) = Remain(b, n)
         /\ n + 1 \in Active(b) =>
              /\ RandrMonitor(n + 1) \in Remain(b, n)
              /\ Remain(b, n + 1) = Remain(b, n) \ {RandrMonitor(n + 1)}
         /\ Remain(b, n) \subseteq Findings /\ Monitors \notin Remain(b, n)
         /\ \A k \in Int : Monitor(k) \notin Remain(b, n)
<1>1. /\ 1 .. n + 1 = (1 .. n) \cup {n + 1} /\ n + 1 \notin 1 .. n /\ 1 .. 0 = {}
      /\ Active(b) \subseteq 1 .. Len(b.outputs)
  BY DEF Active
<1>2. \A i, j : RandrMonitor(i) = RandrMonitor(j) => i = j
  BY DEF RandrMonitor
<1>3. \A i : RandrMonitor(i) # RandrArray /\ RandrMonitor(i) # Monitors
             /\ \A k : Monitor(k) # RandrMonitor(i) /\ Monitor(k) # RandrArray
  BY DEF RandrMonitor, RandrArray, Monitor, Monitors
<1>4. Monitors # RandrArray
  BY DEF RandrArray, Monitors
<1>5. Remain(b, n) \subseteq Findings
  BY <1>1 DEF Remain, RandrThings, Findings
<1>6. Active(b) \ 1 .. 0 = Active(b) /\ Active(b) \ 1 .. Len(b.outputs) = {}
  BY <1>1
<1>7. Remain(b, 0) = {RandrArray} \cup RandrThings(Active(b))
  BY <1>6 DEF Remain
<1>8. Remain(b, Len(b.outputs)) = {RandrArray}
  BY <1>6 DEF Remain, RandrThings
<1>9. ASSUME n + 1 \notin Active(b) PROVE Remain(b, n + 1) = Remain(b, n)
  <2>1. Active(b) \ (1 .. n + 1) = Active(b) \ (1 .. n)
    BY <1>1, <1>9
  <2> QED BY <2>1 DEF Remain
<1>10. ASSUME n + 1 \in Active(b)
       PROVE  /\ RandrMonitor(n + 1) \in Remain(b, n)
              /\ Remain(b, n + 1) = Remain(b, n) \ {RandrMonitor(n + 1)}
  BY <1>1, <1>2, <1>3, <1>10 DEF Remain, RandrThings
<1>11. Monitors \notin Remain(b, n) /\ \A k \in Int : Monitor(k) \notin Remain(b, n)
  BY <1>3, <1>4 DEF Remain, RandrThings
<1> QED BY <1>5, <1>7, <1>8, <1>9, <1>10, <1>11

\* monitors_from_randr: a monitor for each of them, of which nothing is left.
LEMMA RandrMovesOutcomes ==
  ASSUME NEW b, Len(b.outputs) \in Nat, NEW L, NEW G, L \cap Findings = {},
         NEW p, Lists(p, b, L, Remain(b, 0), G), NEW r \in RandrMoves(p.state)
  PROVE  \/ \E n \in Nat : Leaves(r, b, L, Remain(b, n), G)
         \/ Lists(r, b, L, {RandrArray}, G)
<1> DEFINE N == Len(b.outputs)
           s == p.state
<1>0. s.outputs = b.outputs /\ N \in Nat /\ Active(s) = Active(b)
  BY ActiveHas DEF Lists, Succeeds
<1>1. PICK f : GoesOn(f, N, "randr", s) /\ RandrMoves(s) = f[N]
  BY <1>0, RandrRounds
<1>2. /\ f[0] = {Done(s)}
      /\ \A i \in 0 .. N - 1 : \A q \in f[i + 1] : \E e \in f[i] :
           IF e.ok THEN q \in Round("randr", e.state, i + 1) ELSE q = e
  BY <1>0, <1>1, RoundByRound
<1> DEFINE P(n, q) == \/ \E m \in Nat : Leaves(q, b, L, Remain(b, m), G)
                      \/ Lists(q, b, L, Remain(b, n), G)
           I == {n \in 0 .. N : \A q \in f[n] : P(n, q)}
<1>3. 0 \in I
  <2>1. Lists(Done(s), b, L, Remain(b, 0), G)
    BY DEF Lists, Done, Succeeds
  <2> QED BY <1>0, <1>2, <2>1
<1>4. ASSUME NEW n \in 0 .. N - 1, n \in I PROVE n + 1 \in I
  <2>1. ASSUME NEW q \in f[n + 1] PROVE P(n + 1, q)
    <3>1. PICK e \in f[n] : IF e.ok THEN q \in Round("randr", e.state, n + 1) ELSE q = e
      BY <1>2
    <3>2. P(n, e)
      BY <1>4
    <3>3. CASE e.ok = FALSE
      <4>1. q = e
        BY <3>1, <3>3
      <4> QED BY <3>2, <3>3, <4>1 DEF Lists, Succeeds
    <3>4. CASE Lists(e, b, L, Remain(b, n), G)
      <4>1. q \in RandrMove(e.state, n + 1) /\ Active(e.state) = Active(b)
        BY <3>1, <3>4, ActiveHas DEF Lists, Succeeds, Round
      <4>2. n \in Nat
        OBVIOUS
      <4>3. CASE n + 1 \notin Active(b)
        <5>1. q = Done(e.state)
          BY <4>1, <4>3 DEF RandrMove
        <5>2. Lists(q, b, L, Remain(b, n), G)
          BY <3>4, <5>1 DEF Lists, Done, Succeeds
        <5>3. Remain(b, n + 1) = Remain(b, n)
          BY <4>2, <4>3, RemainNext
        <5> QED BY <5>2, <5>3
      <4>4. CASE n + 1 \in Active(b)
        <5>1. PICK c \in Insert(e.state) :
                q \in IF c.ok THEN {Done(Free(c.state, RandrMonitor(n + 1)))} ELSE {c}
          BY <4>1, <4>4 DEF RandrMove, Then
        <5> DEFINE K == Remain(b, n)
        <5>2. /\ K \subseteq Findings /\ Monitors \notin K /\ \A k \in Int : Monitor(k) \notin K
              /\ RandrMonitor(n + 1) \in K /\ Remain(b, n + 1) = K \ {RandrMonitor(n + 1)}
          BY <4>2, <4>4, RemainNext
        <5> HIDE DEF K
        <5>3. Leaves(c, b, L, K, G) \/ Lists(c, b, L, K, G)
          BY <3>4, <5>2, InsertLists DEF K
        <5>4. CASE Leaves(c, b, L, K, G)
          BY <4>2, <5>1, <5>4 DEF Leaves, Fails, K
        <5>5. CASE Lists(c, b, L, K, G)
          <6>1. q = Done(Free(c.state, RandrMonitor(n + 1)))
            BY <5>1, <5>5 DEF Lists, Succeeds
          <6>2. Lists(Done(Free(c.state, RandrMonitor(n + 1))), b, L, K \ {RandrMonitor(n + 1)}, G)
            BY <5>2, <5>5, ListsFree
          <6>3. Lists(q, b, L, Remain(b, n + 1), G)
            BY <5>2, <6>1, <6>2
          <6> QED BY <6>3
        <5> QED BY <5>3, <5>4, <5>5
      <4> QED BY <4>3, <4>4
    <3> QED BY <3>2, <3>3, <3>4 DEF Leaves, Fails
  <2> HIDE DEF P
  <2> QED BY <2>1
<1>5. N \in I
  <2> HIDE DEF I
  <2>1. \A n \in 0 .. N - 1 : n \in I => n + 1 \in I
    BY <1>4
  <2>2. \A n \in 0 .. N : n \in I
    BY <1>0, <1>3, <2>1, Throughout
  <2> QED BY <1>0, <2>2
<1>6. Remain(b, N) = {RandrArray}
  BY RemainNext
<1> QED BY <1>1, <1>5, <1>6

\* monitors_from_xinerama: a monitor for each screen.
LEMMA XineramaMovesOutcomes ==
  ASSUME NEW b, Len(b.outputs) \in Nat, NEW L, NEW G, L \cap Findings = {},
         NEW p, Lists(p, b, L, {Rects}, G), NEW r \in XineramaMoves(p.state)
  PROVE  Leaves(r, b, L, {}, G) \/ Lists(r, b, L, {Rects}, G)
<1> DEFINE N == Len(b.outputs)
           s == p.state
           K == {Rects}
<1>0. s.outputs = b.outputs /\ N \in Nat
  BY ActiveHas DEF Lists, Succeeds
<1>1. PICK f : GoesOn(f, N, "xinerama", s) /\ XineramaMoves(s) = f[N]
  BY <1>0, XineramaRounds
<1>2. /\ f[0] = {Done(s)}
      /\ \A i \in 0 .. N - 1 : \A q \in f[i + 1] : \E e \in f[i] :
           IF e.ok THEN q \in Round("xinerama", e.state, i + 1) ELSE q = e
  BY <1>0, <1>1, RoundByRound
<1>3. /\ K \subseteq Findings /\ Monitors \notin K /\ \A k \in Int : Monitor(k) \notin K
      /\ Rects \in K /\ K \ {Rects} = {}
  BY DEF Findings, Rects, Monitors, Monitor
<1> DEFINE P(q) == Leaves(q, b, L, {}, G) \/ Lists(q, b, L, K, G)
           I == {n \in 0 .. N : \A q \in f[n] : P(q)}
<1> HIDE DEF K
<1>4. 0 \in I
  <2>1. Lists(Done(s), b, L, K, G)
    BY DEF Lists, Done, Succeeds, K
  <2> QED BY <1>0, <1>2, <2>1
<1>5. ASSUME NEW n \in 0 .. N - 1, n \in I PROVE n + 1 \in I
  <2>1. ASSUME NEW q \in f[n + 1] PROVE P(q)
    <3>1. PICK e \in f[n] : IF e.ok THEN q \in Round("xinerama", e.state, n + 1) ELSE q = e
      BY <1>2
    <3>2. P(e)
      BY <1>5
    <3>3. CASE e.ok = FALSE
      <4>1. q = e
        BY <3>1, <3>3
      <4> QED BY <3>2, <4>1
    <3>4. CASE Lists(e, b, L, K, G)
      <4>1. \/ q = Done(e.state)
            \/ \E c \in Insert(e.state) :
                 q = IF c.ok \/ Faulted(c.state) THEN c ELSE Failed(Free(c.state, Rects))
        BY <3>1, <3>4 DEF Lists, Succeeds, Round, XineramaMove, OrElse
      <4>2. CASE q = Done(e.state)
        BY <3>4, <4>2 DEF Lists, Done, Succeeds
      <4>3. ASSUME NEW c \in Insert(e.state),
                   q = IF c.ok \/ Faulted(c.state) THEN c ELSE Failed(Free(c.state, Rects))
            PROVE  P(q)
        <5>1. Leaves(c, b, L, K, G) \/ Lists(c, b, L, K, G)
          BY <1>3, <3>4, InsertLists
        <5>2. CASE Leaves(c, b, L, K, G)
          <6>1. q = Failed(Free(c.state, Rects))
            BY <4>3, <5>2 DEF Leaves, Fails, Has, Faulted
          <6>2. Leaves(Failed(Free(c.state, Rects)), b, L, K \ {Rects}, G)
            BY <1>3, <5>2, LeavesFree
          <6> QED BY <1>3, <6>1, <6>2
        <5>3. CASE Lists(c, b, L, K, G)
          <6>1. q = c
            BY <4>3, <5>3 DEF Lists, Succeeds
          <6> QED BY <5>3, <6>1
        <5> QED BY <5>1, <5>2, <5>3
      <4> QED BY <4>1, <4>2, <4>3
    <3> QED BY <3>2, <3>3, <3>4 DEF Leaves, Fails
  <2> HIDE DEF P
  <2> QED BY <2>1
<1>6. N \in I
  <2> HIDE DEF I
  <2>1. \A n \in 0 .. N - 1 : n \in I => n + 1 \in I
    BY <1>5
  <2>2. \A n \in 0 .. N : n \in I
    BY <1>0, <1>4, <2>1, Throughout
  <2> QED BY <1>0, <2>2
<1> QED BY <1>1, <1>6 DEF K

\* What is left by a failure is forgotten.
LEMMA LeavesForgets ==
  ASSUME NEW b, NEW L, NEW K, NEW G, NEW r, Leaves(r, b, L, K, G),
         K \subseteq {RandrArray} \cup RandrThings(Active(b))
  PROVE  Forgets(r, b, L, G)
<1>1. PICK d \in Seq({Unset}), g \in SUBSET Findings : Fails(r, b, d, L \cup K, G \cup g, {})
  BY DEF Leaves
<1>2. K \in SUBSET Forgotten(b, Len(d))
  BY DEF Forgotten
<1> QED BY <1>1, <1>2 DEF Forgets, Fails

\* randr_get_screens: all active outputs, or nothing but the empty list.
LEMMA RandrScreensOutcomes ==
  ASSUME NEW b, Len(b.outputs) \in Nat, NEW d \in Seq({Unset}), NEW L, NEW G, NEW s,
         Beside(s, b, d), Has(s, L, G, {}), L \cap Findings \subseteq {Monitors},
         NEW r \in RandrGetScreens(s)
  PROVE  \/ r.ok = FALSE /\ Faulted(r.state) /\ Lost(r.state, b)
         \/ \E g \in SUBSET Findings : Fails(r, b, d, L, G \cup g, {})
         \/ \E g \in SUBSET Findings :
              Succeeds(r, b, d, L \cup {RandrArray} \cup RandrThings(Active(b)), G \cup g, {})
<1>1. PICK q \in Then({IF t.lost THEN Failed(t) ELSE Done(t) : t \in Asked(s)},
                      LAMBDA t : New(t, RandrArray)) :
        r \in IF q.ok THEN RandrOutputs(q.state) ELSE {q}
  BY DEF RandrGetScreens, Then
<1>2. PICK t \in Asked(s) :
        q = Failed(t) \/ q \in New(t, RandrArray)
  BY <1>1 DEF Then, Failed, Done
<1>3. Beside(t, b, d) /\ Has(t, L, G, {})
  BY <1>2, AskedHas
<1>4. \/ Fails(q, b, d, L, G, {})
      \/ Succeeds(q, b, d, L \cup {RandrArray}, G \cup {RandrArray}, {})
  <2>1. CASE q = Failed(t)
    BY <1>3, <2>1 DEF Fails, Failed
  <2>2. CASE q \in New(t, RandrArray)
    BY <1>3, <2>2, NewHere
  <2> QED BY <1>2, <2>1, <2>2
<1>5. CASE Fails(q, b, d, L, G, {})
  <2>1. r = q /\ G \cup {} = G /\ {} \in SUBSET Findings
    BY <1>1, <1>5 DEF Fails
  <2> QED BY <1>5, <2>1
<1>6. CASE Succeeds(q, b, d, L \cup {RandrArray}, G \cup {RandrArray}, {})
  <2> DEFINE G1 == G \cup {RandrArray}
             T == RandrThings(Active(b))
  <2>1. r \in RandrOutputs(q.state)
    BY <1>1, <1>6 DEF Succeeds
  <2>2. {RandrArray} \subseteq Findings /\ T \subseteq Findings
    BY DEF Findings, RandrThings, Active
  <2> HIDE DEF G1, T
  <2>3. \/ r.ok = FALSE /\ Faulted(r.state) /\ Lost(r.state, b)
        \/ \E g \in SUBSET Findings : Fails(r, b, d, L, G1 \cup g, {})
        \/ Succeeds(r, b, d, L \cup {RandrArray} \cup T, G1 \cup T, {})
    <3>1. Beside(q.state, b, d) /\ Has(q.state, L \cup {RandrArray}, G1, {})
      BY <1>6 DEF Succeeds, G1
    <3> QED BY <2>1, <3>1, OutputsOutcomes DEF T
  <2>4. ASSUME NEW g \in SUBSET Findings, Fails(r, b, d, L, G1 \cup g, {})
        PROVE  \E h \in SUBSET Findings : Fails(r, b, d, L, G \cup h, {})
    <3>1. G1 \cup g = G \cup ({RandrArray} \cup g) /\ {RandrArray} \cup g \in SUBSET Findings
      BY <2>2 DEF G1
    <3> QED BY <2>4, <3>1
  <2>5. G1 \cup T = G \cup ({RandrArray} \cup T) /\ {RandrArray} \cup T \in SUBSET Findings
    BY <2>2 DEF G1
  <2> QED BY <2>3, <2>4, <2>5 DEF T
<1> QED BY <1>4, <1>5, <1>6

\* Before there is any monitor.
LEMMA ScreenNone == Screen(0) = {} /\ <<>> \in Seq({Unset}) /\ Len(<<>>) = 0
<1>1. 1 .. 0 = {}
  OBVIOUS
<1> QED BY <1>1 DEF Screen

\* monitors_from_randr, from the extension to the list.
LEMMA RandrOutcomes ==
  ASSUME NEW b, Len(b.outputs) \in Nat, NEW L, NEW G, NEW s,
         Beside(s, b, <<>>), Has(s, L, G, {}), L \cap Findings = {},
         NEW r \in MonitorsFromRandr(s)
  PROVE  Forgets(r, b, L, G) \/ Lists(r, b, L, {}, G)
<1> DEFINE d == <<>>
           L1 == L \cup {Monitors}
           G1 == G \cup {Monitors}
           T == {RandrArray} \cup RandrThings(Active(b))
           Filled(p) == {IF e.ok \/ Faulted(e.state) THEN e ELSE Failed(Free(e.state, Monitors)) :
                           e \in RandrGetScreens(p.state)}
           AllFilled == UNION {IF p.ok THEN Filled(p) ELSE {p} : p \in New(s, Monitors)}
           Moved == UNION {IF q.ok THEN RandrMoves(q.state) ELSE {q} : q \in AllFilled}
<1>0. d \in Seq({Unset}) /\ Screen(Len(d)) = {} /\ Monitors \in Findings /\ T \subseteq Findings
  BY ScreenNone DEF Findings, RandrThings, Active
<1>a. r \in UNION {IF m.ok THEN {Done(Free(m.state, RandrArray))} ELSE {m} : m \in Moved}
  BY Zenon DEF MonitorsFromRandr, Then, OrElse
<1> HIDE DEF Moved
<1>2. PICK m \in Moved : r \in IF m.ok THEN {Done(Free(m.state, RandrArray))} ELSE {m}
  BY <1>a
<1> HIDE DEF AllFilled
<1>b. PICK q \in AllFilled : m \in IF q.ok THEN RandrMoves(q.state) ELSE {q}
  BY <1>2 DEF Moved
<1> HIDE DEF Filled
<1>1. PICK p \in New(s, Monitors) : q \in IF p.ok THEN Filled(p) ELSE {p}
  BY <1>b DEF AllFilled
<1>3. q \in (IF p.ok THEN Filled(p) ELSE {p}) /\ m \in (IF q.ok THEN RandrMoves(q.state) ELSE {q})
  BY <1>b, <1>1
<1> HIDE DEF d
<1>4. Fails(p, b, d, L, G, {}) \/ Succeeds(p, b, d, L1, G1, {})
  BY <1>1, NewHere DEF d
<1>5. CASE Fails(p, b, d, L, G, {})
  <2>1. q = p /\ m = p /\ r = p
    BY <1>2, <1>3, <1>5 DEF Fails
  <2>2. {} \in SUBSET Forgotten(b, Len(d)) /\ {} \in SUBSET Findings /\ L = L \cup {} /\ G = G \cup {}
    OBVIOUS
  <2> QED BY <1>0, <1>5, <2>1, <2>2, FailureForgets
<1>6. CASE Succeeds(p, b, d, L1, G1, {})
  <2>1. PICK e \in RandrGetScreens(p.state) :
          q = IF e.ok \/ Faulted(e.state) THEN e ELSE Failed(Free(e.state, Monitors))
    BY <1>3, <1>6 DEF Succeeds, Filled
  <2>2. L1 \cap Findings \subseteq {Monitors}
    OBVIOUS
  <2>3. \/ e.ok = FALSE /\ Faulted(e.state) /\ Lost(e.state, b)
        \/ \E g \in SUBSET Findings : Fails(e, b, d, L1, G1 \cup g, {})
        \/ \E g \in SUBSET Findings :
             Succeeds(e, b, d, L1 \cup {RandrArray} \cup RandrThings(Active(b)), G1 \cup g, {})
    <3> HIDE DEF L1, G1
    <3> QED BY <1>0, <1>6, <2>1, <2>2, RandrScreensOutcomes DEF Succeeds
  <2>4. CASE e.ok = FALSE /\ Faulted(e.state) /\ Lost(e.state, b)
    <3>1. q = e /\ m = e /\ r = e
      BY <1>2, <1>3, <2>1, <2>4
    <3> QED BY <2>4, <3>1 DEF Forgets
  <2>5. ASSUME NEW g \in SUBSET Findings, Fails(e, b, d, L1, G1 \cup g, {}) PROVE Forgets(r, b, L, G)
    <3>1. q = Failed(Free(e.state, Monitors)) /\ m = q /\ r = q
      BY <1>2, <1>3, <2>1, <2>5 DEF Fails, Has, Faulted, Failed
    <3>2. Monitors \in L1 /\ L1 \ {Monitors} = L \cup {}
      BY <1>0
    <3>3. G1 \cup g = G \cup ({Monitors} \cup g) /\ {Monitors} \cup g \in SUBSET Findings
          /\ {} \in SUBSET Forgotten(b, Len(d))
      BY <1>0
    <3> HIDE DEF L1, G1
    <3>4. /\ Beside(Free(e.state, Monitors), b, d)
          /\ Has(Free(e.state, Monitors), L1 \ {Monitors}, G1 \cup g, {})
      BY <2>5, <3>2, FreeHas DEF Fails
    <3>5. Fails(r, b, d, L1 \ {Monitors}, G1 \cup g, {})
      BY <3>1, <3>4 DEF Fails, Failed
    <3> QED BY <1>0, <3>2, <3>3, <3>5, FailureForgets
  <2>6. ASSUME NEW g \in SUBSET Findings,
               Succeeds(e, b, d, L1 \cup {RandrArray} \cup RandrThings(Active(b)), G1 \cup g, {})
        PROVE  Forgets(r, b, L, G) \/ Lists(r, b, L, {}, G)
    <3>1. q = e /\ m \in RandrMoves(q.state)
      BY <1>3, <2>1, <2>6 DEF Succeeds
    <3>2. Remain(b, 0) = T
      BY RemainNext
    <3>3. /\ L1 \cup {RandrArray} \cup RandrThings(Active(b)) = L \cup {Monitors} \cup Remain(b, 0) \cup Screen(Len(d))
          /\ G1 \cup g = G \cup ({Monitors} \cup g) /\ {Monitors} \cup g \in SUBSET Findings
      BY <1>0, <3>2
    <3> HIDE DEF L1, G1, T
    <3>4. Lists(q, b, L, Remain(b, 0), G)
      BY <1>0, <2>6, <3>1, <3>3 DEF Lists
    <3>5. \/ \E n \in Nat : Leaves(m, b, L, Remain(b, n), G)
          \/ Lists(m, b, L, {RandrArray}, G)
      BY <3>1, <3>4, RandrMovesOutcomes
    <3>6. ASSUME NEW n \in Nat, Leaves(m, b, L, Remain(b, n), G) PROVE Forgets(r, b, L, G)
      <4>1. r = m
        BY <1>2, <3>6 DEF Leaves, Fails
      <4>2. Remain(b, n) \subseteq {RandrArray} \cup RandrThings(Active(b))
        BY DEF Remain, RandrThings
      <4> QED BY <3>6, <4>1, <4>2, LeavesForgets
    <3>7. CASE Lists(m, b, L, {RandrArray}, G)
      <4> DEFINE K == {RandrArray}
      <4>1. r = Done(Free(m.state, RandrArray))
        BY <1>2, <3>7 DEF Lists, Succeeds
      <4>2. /\ K \subseteq Findings /\ Monitors \notin K /\ \A k \in Int : Monitor(k) \notin K
            /\ RandrArray \in K /\ K \ {RandrArray} = {}
        BY DEF Findings, RandrArray, Monitors, Monitor
      <4> HIDE DEF K
      <4>3. Lists(Done(Free(m.state, RandrArray)), b, L, K \ {RandrArray}, G)
        BY <3>7, <4>2, ListsFree DEF K
      <4> QED BY <4>1, <4>2, <4>3
    <3> QED BY <3>5, <3>6, <3>7
  <2> QED BY <2>3, <2>4, <2>5, <2>6
<1> HIDE DEF L1, G1
<1> QED BY <1>4, <1>5, <1>6

\* monitors_from_xinerama.
LEMMA XineramaOutcomes ==
  ASSUME NEW b, Len(b.outputs) \in Nat, NEW L, NEW G, NEW s,
         Beside(s, b, <<>>), Has(s, L, G, {}), L \cap Findings = {},
         NEW r \in MonitorsFromXinerama(s)
  PROVE  Forgets(r, b, L, G) \/ Lists(r, b, L, {}, G)
<1> DEFINE d == <<>>
           L1 == L \cup {Monitors}
           G1 == G \cup {Monitors}
           K == {Rects}
           Tried(u) == {IF e.ok \/ Faulted(e.state) THEN e ELSE Failed(Free(e.state, Monitors)) :
                          e \in New(u, Rects)}
           Filled(p) == UNION {IF u.lost THEN {Failed(Fault(u, "reply"))} ELSE Tried(u) :
                                 u \in Asked(p.state)}
           AllFilled == UNION {IF p.ok THEN Filled(p) ELSE {p} : p \in New(s, Monitors)}
           Moved == UNION {IF q.ok THEN XineramaMoves(q.state) ELSE {q} : q \in AllFilled}
<1>0. /\ d \in Seq({Unset}) /\ Screen(Len(d)) = {} /\ Monitors \in Findings
      /\ K \subseteq Findings /\ Monitors \notin K /\ \A k \in Int : Monitor(k) \notin K
      /\ Rects \in K /\ K \ {Rects} = {}
  BY ScreenNone DEF Findings, Rects, Monitors, Monitor
<1>a. r \in UNION {IF m.ok THEN {Done(Free(m.state, Rects))} ELSE {m} : m \in Moved}
  BY Zenon DEF MonitorsFromXinerama, Then, OrElse, Trusting
<1> HIDE DEF Moved
<1>2. PICK m \in Moved : r \in IF m.ok THEN {Done(Free(m.state, Rects))} ELSE {m}
  BY <1>a
<1> HIDE DEF AllFilled
<1>b. PICK q \in AllFilled : m \in IF q.ok THEN XineramaMoves(q.state) ELSE {q}
  BY <1>2 DEF Moved
<1> HIDE DEF Filled
<1>1. PICK p \in New(s, Monitors) : q \in IF p.ok THEN Filled(p) ELSE {p}
  BY <1>b DEF AllFilled
<1>3. q \in (IF p.ok THEN Filled(p) ELSE {p}) /\ m \in (IF q.ok THEN XineramaMoves(q.state) ELSE {q})
  BY <1>b, <1>1
<1> HIDE DEF d, K
<1>4. Fails(p, b, d, L, G, {}) \/ Succeeds(p, b, d, L1, G1, {})
  BY <1>1, NewHere DEF d
<1>5. CASE Fails(p, b, d, L, G, {})
  <2>1. q = p /\ m = p /\ r = p
    BY <1>2, <1>3, <1>5 DEF Fails
  <2>2. {} \in SUBSET Forgotten(b, Len(d)) /\ {} \in SUBSET Findings /\ L = L \cup {} /\ G = G \cup {}
    OBVIOUS
  <2> QED BY <1>0, <1>5, <2>1, <2>2, FailureForgets
<1>6. CASE Succeeds(p, b, d, L1, G1, {})
  <2>1. PICK u \in Asked(p.state) : q = Failed(Fault(u, "reply")) \/ q \in Tried(u)
    BY <1>3, <1>6 DEF Succeeds, Filled
  <2>2. Beside(u, b, d) /\ Has(u, L1, G1, {})
    BY <1>6, <2>1, AskedHas DEF Succeeds
  <2>3. CASE q = Failed(Fault(u, "reply"))
    <3>1. m = q /\ r = q
      BY <1>2, <1>3, <2>3 DEF Failed
    <3> QED BY <2>2, <2>3, <3>1, LossForgets
  <2>4. ASSUME NEW e \in New(u, Rects),
               q = IF e.ok \/ Faulted(e.state) THEN e ELSE Failed(Free(e.state, Monitors))
        PROVE  Forgets(r, b, L, G) \/ Lists(r, b, L, {}, G)
    <3>1. Fails(e, b, d, L1, G1, {}) \/ Succeeds(e, b, d, L1 \cup {Rects}, G1 \cup {Rects}, {})
      BY <2>2, <2>4, NewHere
    <3>2. CASE Fails(e, b, d, L1, G1, {})
      <4>1. q = Failed(Free(e.state, Monitors)) /\ m = q /\ r = q
        BY <1>2, <1>3, <2>4, <3>2 DEF Fails, Has, Faulted, Failed
      <4>2. Monitors \in L1 /\ L1 \ {Monitors} = L \cup {}
        BY <1>0
      <4>3. G1 = G \cup {Monitors} /\ {Monitors} \in SUBSET Findings /\ {} \in SUBSET Forgotten(b, Len(d))
        BY <1>0
      <4> HIDE DEF L1, G1
      <4>4. /\ Beside(Free(e.state, Monitors), b, d)
            /\ Has(Free(e.state, Monitors), L1 \ {Monitors}, G1, {})
        BY <3>2, <4>2, FreeHas DEF Fails
      <4>5. Fails(r, b, d, L1 \ {Monitors}, G1, {})
        BY <4>1, <4>4 DEF Fails, Failed
      <4> QED BY <1>0, <4>2, <4>3, <4>5, FailureForgets
    <3>3. CASE Succeeds(e, b, d, L1 \cup {Rects}, G1 \cup {Rects}, {})
      <4>1. q = e /\ m \in XineramaMoves(q.state)
        BY <1>3, <2>4, <3>3 DEF Succeeds
      <4>2. /\ L1 \cup {Rects} = L \cup {Monitors} \cup K \cup Screen(Len(d))
            /\ G1 \cup {Rects} = G \cup {Monitors, Rects} /\ {Monitors, Rects} \in SUBSET Findings
        BY <1>0 DEF K
      <4> HIDE DEF L1, G1
      <4>3. Lists(q, b, L, K, G)
        BY <1>0, <3>3, <4>1, <4>2 DEF Lists
      <4>4. Leaves(m, b, L, {}, G) \/ Lists(m, b, L, K, G)
        BY <4>1, <4>3, XineramaMovesOutcomes DEF K
      <4>5. CASE Leaves(m, b, L, {}, G)
        <5>1. r = m
          BY <1>2, <4>5 DEF Leaves, Fails
        <5>2. {} \subseteq {RandrArray} \cup RandrThings(Active(b))
          OBVIOUS
        <5> QED BY <4>5, <5>1, <5>2, LeavesForgets
      <4>6. CASE Lists(m, b, L, K, G)
        <5>1. r = Done(Free(m.state, Rects))
          BY <1>2, <4>6 DEF Lists, Succeeds
        <5>2. Lists(Done(Free(m.state, Rects)), b, L, K \ {Rects}, G)
          BY <1>0, <4>6, ListsFree
        <5> QED BY <1>0, <5>1, <5>2
      <4> QED BY <4>4, <4>5, <4>6
    <3> HIDE DEF L1, G1
    <3> QED BY <3>1, <3>2, <3>3
  <2> QED BY <2>1, <2>3, <2>4
<1> HIDE DEF L1, G1
<1> QED BY <1>4, <1>5, <1>6

\* monitor_from_x.
LEMMA XOutcomes ==
  ASSUME NEW b, NEW L, NEW G, NEW s,
         Beside(s, b, <<>>), Has(s, L, G, {}), L \cap Findings = {},
         NEW r \in MonitorFromX(s)
  PROVE  Forgets(r, b, L, G) \/ Lists(r, b, L, {}, G)
<1> DEFINE d == <<>>
           L1 == L \cup {Monitors}
           G1 == G \cup {Monitors}
           K == {}
<1>0. /\ d \in Seq({Unset}) /\ Screen(Len(d)) = {} /\ Monitors \in Findings
      /\ K \subseteq Findings /\ Monitors \notin K /\ \A k \in Int : Monitor(k) \notin K
  BY ScreenNone DEF Findings
<1>1. PICK p \in New(s, Monitors) : r \in IF p.ok THEN Insert(p.state) ELSE {p}
  BY DEF MonitorFromX, Then
<1> HIDE DEF d, K
<1>2. Fails(p, b, d, L, G, {}) \/ Succeeds(p, b, d, L1, G1, {})
  BY NewHere DEF d
<1>3. CASE Fails(p, b, d, L, G, {})
  <2>1. r = p
    BY <1>1, <1>3 DEF Fails
  <2>2. {} \in SUBSET Forgotten(b, Len(d)) /\ {} \in SUBSET Findings /\ L = L \cup {} /\ G = G \cup {}
    OBVIOUS
  <2> QED BY <1>0, <1>3, <2>1, <2>2, FailureForgets
<1>4. CASE Succeeds(p, b, d, L1, G1, {})
  <2>1. r \in Insert(p.state)
    BY <1>1, <1>4 DEF Succeeds
  <2>2. /\ L1 = L \cup {Monitors} \cup K \cup Screen(Len(d))
        /\ {Monitors} \in SUBSET Findings
    BY <1>0 DEF K
  <2>3. Lists(p, b, L, K, G)
    BY <1>0, <1>4, <2>2 DEF Lists
  <2>4. Leaves(r, b, L, K, G) \/ Lists(r, b, L, K, G)
    BY <1>0, <2>1, <2>3, InsertLists
  <2>5. K \subseteq {RandrArray} \cup RandrThings(Active(b))
    BY DEF K
  <2> QED BY <2>4, <2>5, LeavesForgets DEF K
<1> QED BY <1>2, <1>3, <1>4

\* The offsets, one monitor after another.
LEMMA OffsetsGo ==
  ASSUME NEW s, Len(s.offsets) \in Nat
  PROVE  Goes(OffsetsWalk(s), Len(s.offsets), "offset", s,
              [index |-> 1, ended |-> FALSE, offsets |-> s.offsets])
<1> DEFINE n == Len(s.offsets)
           x == [index |-> 1, ended |-> FALSE, offsets |-> s.offsets]
           B(f, i) == IF i = 0 THEN x ELSE SetNext(s, f[i - 1], i)
           g == CHOOSE f : f = [i \in 0 .. n |-> B(f, i)]
<1>1. \A w, i : After("offset", s, w, i) = SetNext(s, w, i)
  BY DEF After
<1>2. \A f : Goes(f, n, "offset", s, x) <=> f = [i \in 0 .. n |-> B(f, i)]
  BY <1>1 DEF Goes
<1>3. \E f : f = [i \in 0 .. n |-> B(f, i)]
  BY <1>2, Going
<1>4. g = [i \in 0 .. n |-> B(g, i)]
  BY <1>3, Zenon
<1>5. OffsetsWalk(s) = g
  BY Zenon DEF OffsetsWalk
<1> HIDE DEF g
<1> QED BY <1>2, <1>4, <1>5

\* Each monitor has the entry in the order of the workspaces, or none.
OwnSequence(d) == \A p \in 1 .. Len(d) : d[p] \in {Unset, Len(d) + 1 - p}

\* The index is behind only when there is no more to be taken.
OffsetsInv(s, w, k, n) ==
  /\ DOMAIN w = {"index", "ended", "offsets"}
  /\ w.ended \in BOOLEAN /\ w.index \in 1 .. k + 1
  /\ w.offsets \in Seq(Int) /\ Len(w.offsets) = n /\ OwnSequence(w.offsets)
  /\ w.ended \/ w.index = k + 1 \/ s.entries[w.index] = "scalar"

\* An entry is taken by the monitor whose turn it is, or by none.
LEMMA SetNextInv ==
  ASSUME NEW s, NEW n \in Nat, Len(s.offsets) = n, NEW k \in 0 .. n - 1,
         NEW w, OffsetsInv(s, w, k, n)
  PROVE  OffsetsInv(s, SetNext(s, w, k + 1), k + 1, n)
<1>1. CASE w.ended \/ s.entries[w.index] = "scalar"
  <2>1. SetNext(s, w, k + 1) = w
    BY <1>1 DEF SetNext
  <2> QED BY <1>1, <2>1 DEF OffsetsInv
<1>2. CASE ~w.ended /\ s.entries[w.index] = "bad"
  <2> DEFINE v == [w EXCEPT !.ended = TRUE]
  <2>1. SetNext(s, w, k + 1) = v
    BY <1>2 DEF SetNext
  <2>2. DOMAIN w = {"index", "ended", "offsets"}
    BY DEF OffsetsInv
  <2>3. DOMAIN v = DOMAIN w /\ v.ended = TRUE /\ v.index = w.index /\ v.offsets = w.offsets
    BY <2>2
  <2> HIDE DEF v
  <2>4. w.index \in 1 .. (k + 1) + 1
    BY DEF OffsetsInv
  <2>5. OffsetsInv(s, v, k + 1, n)
    BY <2>3, <2>4 DEF OffsetsInv
  <2> QED BY <2>1, <2>5
<1>3. CASE ~w.ended /\ s.entries[w.index] \notin {"bad", "scalar"}
  <2> DEFINE p == At(s, k + 1)
             d == w.offsets
             e == [d EXCEPT ![p] = w.index]
  <2>1. SetNext(s, w, k + 1) = [w EXCEPT !.index = @ + 1, !.offsets[p] = w.index]
    BY <1>3 DEF SetNext
  <2>2. w.index = k + 1
    BY <1>3 DEF OffsetsInv
  <2>3. p = n - k /\ p \in 1 .. n
    BY DEF At
  <2>4. d \in Seq(Int) /\ Len(d) = n /\ OwnSequence(d)
    BY DEF OffsetsInv
  <2> HIDE DEF d, p
  <2>5. e \in Seq(Int) /\ Len(e) = n
    BY <2>2, <2>3, <2>4
  <2>6. OwnSequence(e)
    <3> SUFFICES ASSUME NEW i \in 1 .. n PROVE e[i] \in {Unset, n + 1 - i}
      BY <2>5 DEF OwnSequence
    <3>1. d[i] \in {Unset, n + 1 - i}
      BY <2>4 DEF OwnSequence
    <3>2. CASE i = p
      <4>1. e[i] = k + 1 /\ n + 1 - i = k + 1
        BY <2>2, <2>3, <2>4, <3>2
      <4> QED BY <4>1
    <3>3. CASE i # p
      <4>1. e[i] = d[i]
        BY <2>4, <3>3
      <4> QED BY <3>1, <4>1
    <3> QED BY <3>2, <3>3
  <2> DEFINE v == [w EXCEPT !.index = @ + 1, !.offsets[p] = w.index]
  <2>7. DOMAIN w = {"index", "ended", "offsets"} /\ w.ended \in BOOLEAN
    BY DEF OffsetsInv
  <2>8. DOMAIN v = DOMAIN w /\ v.ended = w.ended /\ v.index = k + 2 /\ v.offsets = e
    BY <2>2, <2>7 DEF d
  <2> HIDE DEF v, e
  <2>9. OffsetsInv(s, v, k + 1, n)
    BY <2>5, <2>6, <2>7, <2>8 DEF OffsetsInv
  <2> QED BY <2>1, <2>9 DEF v
<1> QED BY <1>1, <1>2, <1>3 DEF OffsetsInv

\* monitor_list_set_offsets: each monitor has its own entry, or none.
LEMMA OffsetsOutcome ==
  ASSUME NEW s, s.offsets \in Seq({Unset})
  PROVE  \E d \in Seq(Int) : /\ Len(d) = Len(s.offsets) /\ OwnSequence(d)
                             /\ \/ SetOffsets(s) = [s EXCEPT !.offsets = d]
                                \/ SetOffsets(s) = s /\ d = s.offsets
<1> DEFINE n == Len(s.offsets)
           f == OffsetsWalk(s)
           x == [index |-> 1, ended |-> FALSE, offsets |-> s.offsets]
           I == {k \in 0 .. n : OffsetsInv(s, f[k], k, n)}
<1>1. n \in Nat /\ s.offsets \in Seq(Int) /\ OwnSequence(s.offsets)
  BY DEF OwnSequence, Unset
<1>2. Goes(f, n, "offset", s, x)
  BY <1>1, OffsetsGo
<1> HIDE DEF f
<1>3. 0 \in I
  <2>1. f[0] = x
    BY <1>1, <1>2 DEF Goes
  <2>2. OffsetsInv(s, x, 0, n)
    BY <1>1 DEF OffsetsInv
  <2> HIDE DEF x
  <2> QED BY <1>1, <2>1, <2>2
<1>4. ASSUME NEW k \in 0 .. n - 1, k \in I PROVE k + 1 \in I
  <2>1. k + 1 \in 0 .. n /\ k + 1 # 0 /\ (k + 1) - 1 = k
    BY <1>1
  <2> HIDE DEF x
  <2>2. f[k + 1] = SetNext(s, f[k], k + 1)
    BY <1>2, <2>1 DEF Goes, After
  <2>3. OffsetsInv(s, SetNext(s, f[k], k + 1), k + 1, n)
    BY <1>1, <1>4, SetNextInv
  <2> QED BY <2>1, <2>2, <2>3
<1>5. n \in I
  <2> HIDE DEF I
  <2>1. \A k \in 0 .. n - 1 : k \in I => k + 1 \in I
    BY <1>4
  <2>2. \A k \in 0 .. n : k \in I
    BY <1>1, <1>3, <2>1, Throughout
  <2> QED BY <1>1, <2>2
<1>6. CASE s.entries = <<>> \/ Len(s.offsets) > Len(s.entries)
  <2>1. SetOffsets(s) = s
    BY <1>6 DEF SetOffsets
  <2> QED BY <1>1, <2>1
<1>7. CASE ~(s.entries = <<>> \/ Len(s.offsets) > Len(s.entries))
  <2> DEFINE d == f[n].offsets
  <2>1. SetOffsets(s) = [s EXCEPT !.offsets = d]
    BY <1>7 DEF SetOffsets, f
  <2>2. d \in Seq(Int) /\ Len(d) = n /\ OwnSequence(d)
    BY <1>5 DEF OffsetsInv
  <2> HIDE DEF d
  <2> QED BY <2>1, <2>2
<1> QED BY <1>6, <1>7

\* The monitors are there.
Gets(r, b, L, G) ==
  \E d \in Seq(Int), g \in SUBSET Findings :
    /\ d # <<>> /\ OwnSequence(d)
    /\ Succeeds(r, b, d, L \cup {Extension, Monitors, MonitorList} \cup Screen(Len(d)),
                G \cup {Extension, MonitorList} \cup g, {})

\* Whatever is found, and where it comes from.
LEMMA SourceOutcomes ==
  ASSUME NEW b, Len(b.outputs) \in Nat, NEW L, NEW G, NEW s,
         Beside(s, b, <<>>), Has(s, L \cup {Extension}, G \cup {Extension}, {}),
         L \cap (Findings \cup {Extension}) = {},
         NEW e, \/ e \in MonitorsFromRandr(s)
                \/ e \in MonitorsFromXinerama(s)
                \/ e \in MonitorFromX(s),
         NEW r, r = IF e.ok \/ Faulted(e.state) THEN e ELSE Failed(Free(e.state, Extension))
  PROVE  \/ Forgets(r, b, L, G \cup {Extension})
         \/ Lists(r, b, L \cup {Extension}, {}, G \cup {Extension})
<1> DEFINE L1 == L \cup {Extension}
           G1 == G \cup {Extension}
<1>1. Extension \notin Findings
  BY DEF Findings, Extension, Monitors, RandrArray, Rects, Monitor, RandrThings, RandrMonitor
<1>2. L1 \cap Findings = {}
  BY <1>1
<1>3. Forgets(e, b, L1, G1) \/ Lists(e, b, L1, {}, G1)
  <2> HIDE DEF L1, G1
  <2>1. Has(s, L1, G1, {})
    BY DEF L1, G1
  <2> QED BY <1>2, <2>1, RandrOutcomes, XineramaOutcomes, XOutcomes
<1>4. CASE Lists(e, b, L1, {}, G1)
  BY <1>4 DEF Lists, Succeeds
<1>5. CASE Forgets(e, b, L1, G1)
  <2>1. CASE Lost(e.state, b)
    <3>1. r = e
      BY <2>1 DEF Lost, Faulted
    <3> QED BY <1>5, <2>1, <3>1 DEF Forgets
  <2>2. ASSUME NEW d \in Seq({Unset}), NEW l \in SUBSET Forgotten(b, Len(d)), NEW g \in SUBSET Findings,
               Beside(e.state, b, d), Has(e.state, L1 \cup l, G1 \cup g, {})
        PROVE  Forgets(r, b, L, G1)
    <3>1. r = Failed(Free(e.state, Extension))
      BY <1>5, <2>2 DEF Forgets, Has, Faulted
    <3>2. Extension \notin l
      BY DEF Forgotten, Extension, Monitors, RandrArray, Screen, Monitor, RandrThings, RandrMonitor
    <3>3. Extension \in L1 \cup l /\ (L1 \cup l) \ {Extension} = L \cup l
      BY <3>2
    <3> HIDE DEF L1, G1
    <3>4. /\ Beside(Free(e.state, Extension), b, d)
          /\ Has(Free(e.state, Extension), (L1 \cup l) \ {Extension}, G1 \cup g, {})
      BY <2>2, <3>3, FreeHas
    <3>5. Fails(r, b, d, (L1 \cup l) \ {Extension}, G1 \cup g, {})
      BY <3>1, <3>4 DEF Fails, Failed
    <3> QED BY <3>3, <3>5, FailureForgets
  <2> QED BY <1>5, <2>1, <2>2 DEF Forgets
<1> QED BY <1>3, <1>4, <1>5

\* The list of them.
LEMMA ListOutcomes ==
  ASSUME NEW b, NEW L, NEW G, NEW q, Lists(q, b, L \cup {Extension}, {}, G \cup {Extension}),
         L \cap (Findings \cup {Extension, MonitorList}) = {},
         NEW r, \/ q.state.offsets = <<>> /\ r = Failed(Free(q.state, Extension))
                \/ /\ q.state.offsets # <<>>
                   /\ \E e \in New(q.state, MonitorList) :
                        r = IF e.ok \/ Faulted(e.state) THEN e
                            ELSE Failed(FreeAll(e.state, {Extension, Monitors}))
  PROVE  \/ Forgets(r, b, L, G \cup {Extension})
         \/ \E d \in Seq({Unset}), g \in SUBSET Findings :
              /\ d # <<>>
              /\ Succeeds(r, b, d, L \cup {Extension, Monitors, MonitorList} \cup Screen(Len(d)),
                          G \cup {Extension, MonitorList} \cup g, {})
<1> DEFINE L0 == L \cup {Extension}
           G1 == G \cup {Extension}
<1>1. PICK d \in Seq({Unset}), g \in SUBSET Findings :
        Succeeds(q, b, d, L0 \cup {Monitors} \cup {} \cup Screen(Len(d)), G1 \cup g, {})
  BY DEF Lists
<1> DEFINE L1 == L0 \cup {Monitors} \cup Screen(Len(d))
           G2 == G1 \cup g
<1>2. Beside(q.state, b, d) /\ Has(q.state, L1, G2, {}) /\ q.state.offsets = d
  <2>1. L0 \cup {Monitors} \cup {} \cup Screen(Len(d)) = L1
    OBVIOUS
  <2> QED BY <1>1, <2>1 DEF Succeeds, Beside
<1>3. /\ Extension \notin Screen(Len(d)) /\ Extension # Monitors /\ Monitors \notin Screen(Len(d))
      /\ Monitors \in Findings
  BY DEF Extension, Monitors, Screen, Monitor, Findings
<1>4. CASE d = <<>> /\ r = Failed(Free(q.state, Extension))
  <2>1. Extension \in L1 /\ L1 \ {Extension} = L \cup {Monitors}
    BY <1>3, <1>4, ScreenNone
  <2>2. {Monitors} \in SUBSET Forgotten(b, Len(d))
    BY DEF Forgotten
  <2> HIDE DEF L1, G1, G2
  <2>3. /\ Beside(Free(q.state, Extension), b, d)
        /\ Has(Free(q.state, Extension), L1 \ {Extension}, G2, {})
    BY <1>2, <2>1, FreeHas
  <2>4. Fails(r, b, d, L1 \ {Extension}, G2, {})
    BY <1>4, <2>3 DEF Fails, Failed
  <2>5. Forgets(r, b, L, G1)
    BY <2>1, <2>2, <2>4, FailureForgets DEF G2
  <2> QED BY <2>5 DEF G1
<1>5. ASSUME d # <<>>, NEW e \in New(q.state, MonitorList),
             r = IF e.ok \/ Faulted(e.state) THEN e ELSE Failed(FreeAll(e.state, {Extension, Monitors}))
      PROVE  \/ Forgets(r, b, L, G1)
             \/ Succeeds(r, b, d, L \cup {Extension, Monitors, MonitorList} \cup Screen(Len(d)),
                         G \cup {Extension, MonitorList} \cup g, {})
  <2>1. Fails(e, b, d, L1, G2, {}) \/ Succeeds(e, b, d, L1 \cup {MonitorList}, G2 \cup {MonitorList}, {})
    <3> HIDE DEF L1, G2
    <3> QED BY <1>2, <1>5, NewHere
  <2>2. CASE Fails(e, b, d, L1, G2, {})
    <3> DEFINE os == {Extension, Monitors}
               l == Screen(Len(d))
    <3>1. r = Failed(FreeAll(e.state, os))
      BY <1>5, <2>2 DEF Fails, Has, Faulted
    <3>2. os \subseteq L1 /\ L1 \ os = L \cup l
      BY <1>3
    <3>3. l \in SUBSET Forgotten(b, Len(d))
      BY DEF Forgotten
    <3> HIDE DEF os, l, L1, G1, G2
    <3>4. Beside(FreeAll(e.state, os), b, d) /\ Has(FreeAll(e.state, os), L1 \ os, G2, {})
      BY <2>2, <3>2, FreeAllHas DEF Fails
    <3>5. Fails(r, b, d, L1 \ os, G2, {})
      BY <3>1, <3>4 DEF Fails, Failed
    <3>6. Forgets(r, b, L, G1)
      BY <3>2, <3>3, <3>5, FailureForgets DEF G2
    <3> QED BY <3>6
  <2>3. CASE Succeeds(e, b, d, L1 \cup {MonitorList}, G2 \cup {MonitorList}, {})
    <3>1. r = e
      BY <1>5, <2>3 DEF Succeeds
    <3>2. /\ L1 \cup {MonitorList} = L \cup {Extension, Monitors, MonitorList} \cup Screen(Len(d))
          /\ G2 \cup {MonitorList} = G \cup {Extension, MonitorList} \cup g
      OBVIOUS
    <3> QED BY <2>3, <3>1, <3>2
  <2> QED BY <2>1, <2>2, <2>3
<1> QED BY <1>2, <1>4, <1>5

\* monitor_setup: a list with its offsets, or a failure that forgets something.
LEMMA MonitorsOutcomes ==
  ASSUME NEW b, Len(b.outputs) \in Nat, NEW L, NEW G, NEW s,
         Beside(s, b, <<>>), Has(s, L, G, {}),
         L \cap (Findings \cup {Extension, MonitorList}) = {}, NEW r \in MonitorSetup(s)
  PROVE  \/ Forgets(r, b, L, G)
         \/ Forgets(r, b, L, G \cup {Extension})
         \/ Gets(r, b, L, G)
<1> DEFINE L1 == L \cup {Extension}
           G1 == G \cup {Extension}
           Source(t) == CASE t.extension = "randr" -> MonitorsFromRandr(t)
                          [] t.extension = "xinerama" -> MonitorsFromXinerama(t)
                          [] t.extension = "none" -> MonitorFromX(t)
           From(t) == {IF e.ok \/ Faulted(e.state) THEN e ELSE Failed(Free(e.state, Extension)) :
                         e \in Source(t)}
           List(t) == IF t.offsets = <<>> THEN {Failed(Free(t, Extension))}
                      ELSE {IF e.ok \/ Faulted(e.state) THEN e
                            ELSE Failed(FreeAll(e.state, {Extension, Monitors})) : e \in New(t, MonitorList)}
           AllFrom == UNION {IF p.ok THEN From(p.state) ELSE {p} : p \in Detect(s)}
           AllListed == UNION {IF q.ok THEN List(q.state) ELSE {q} : q \in AllFrom}
<1>1. r \in UNION {IF m.ok THEN {Done(SetOffsets(m.state))} ELSE {m} : m \in AllListed}
  BY Zenon DEF MonitorSetup, Then, OrElse
<1> HIDE DEF AllListed
<1>2. PICK m \in AllListed : r \in IF m.ok THEN {Done(SetOffsets(m.state))} ELSE {m}
  BY <1>1
<1> HIDE DEF AllFrom
<1>3. PICK q \in AllFrom : m \in IF q.ok THEN List(q.state) ELSE {q}
  BY <1>2 DEF AllListed
<1> HIDE DEF From
<1>4. PICK p \in Detect(s) : q \in IF p.ok THEN From(p.state) ELSE {p}
  BY <1>3 DEF AllFrom
<1>0. <<>> \in Seq({Unset}) /\ {} \in SUBSET Forgotten(b, Len(<<>>)) /\ {} \in SUBSET Findings
      /\ L = L \cup {} /\ G = G \cup {}
  BY ScreenNone
<1>5. \/ Fails(p, b, <<>>, L, G, {})
      \/ p.ok = FALSE /\ Lost(p.state, b)
      \/ Succeeds(p, b, <<>>, L1, G1, {})
  BY DetectOutcomes
<1>6. CASE p.ok = FALSE
  <2>1. r = p
    BY <1>2, <1>3, <1>4, <1>6
  <2>2. CASE Fails(p, b, <<>>, L, G, {})
    BY <1>0, <2>1, <2>2, FailureForgets
  <2>3. CASE Lost(p.state, b)
    BY <1>6, <2>1, <2>3 DEF Forgets
  <2> QED BY <1>5, <1>6, <2>2, <2>3 DEF Succeeds
<1>7. CASE Succeeds(p, b, <<>>, L1, G1, {})
  <2>1. q \in From(p.state)
    BY <1>4, <1>7 DEF Succeeds
  <2>2. PICK e \in Source(p.state) :
          q = IF e.ok \/ Faulted(e.state) THEN e ELSE Failed(Free(e.state, Extension))
    BY <2>1 DEF From
  <2>3. p.state.extension \in {"randr", "xinerama", "none"}
    BY <1>7 DEF Succeeds, Beside
  <2>4. \/ e \in MonitorsFromRandr(p.state)
        \/ e \in MonitorsFromXinerama(p.state)
        \/ e \in MonitorFromX(p.state)
    BY <2>2, <2>3
  <2> HIDE DEF Source
  <2>5. Forgets(q, b, L, G1) \/ Lists(q, b, L1, {}, G1)
    <3>1. Beside(p.state, b, <<>>) /\ Has(p.state, L1, G1, {})
      BY <1>7 DEF Succeeds
    <3> QED BY <2>2, <2>4, <3>1, SourceOutcomes
  <2>6. CASE Forgets(q, b, L, G1)
    <3>1. r = q
      BY <1>2, <1>3, <2>6 DEF Forgets
    <3> QED BY <2>6, <3>1
  <2>7. CASE Lists(q, b, L1, {}, G1)
    <3>1. m \in List(q.state)
      BY <1>3, <2>7 DEF Lists, Succeeds
    <3>2. \/ q.state.offsets = <<>> /\ m = Failed(Free(q.state, Extension))
          \/ /\ q.state.offsets # <<>>
             /\ \E x \in New(q.state, MonitorList) :
                  m = IF x.ok \/ Faulted(x.state) THEN x
                      ELSE Failed(FreeAll(x.state, {Extension, Monitors}))
      BY <3>1
    <3>3. \/ Forgets(m, b, L, G1)
          \/ \E d \in Seq({Unset}), g \in SUBSET Findings :
               /\ d # <<>>
               /\ Succeeds(m, b, d, L \cup {Extension, Monitors, MonitorList} \cup Screen(Len(d)),
                           G \cup {Extension, MonitorList} \cup g, {})
      <4> HIDE DEF List
      <4> QED BY <2>7, <3>2, ListOutcomes
    <3>4. CASE Forgets(m, b, L, G1)
      <4>1. r = m
        BY <1>2, <3>4 DEF Forgets
      <4> QED BY <3>4, <4>1
    <3>5. ASSUME NEW d \in Seq({Unset}), NEW g \in SUBSET Findings, d # <<>>,
                 Succeeds(m, b, d, L \cup {Extension, Monitors, MonitorList} \cup Screen(Len(d)),
                          G \cup {Extension, MonitorList} \cup g, {})
          PROVE  Gets(r, b, L, G)
      <4> DEFINE L2 == L \cup {Extension, Monitors, MonitorList} \cup Screen(Len(d))
                 G2 == G \cup {Extension, MonitorList} \cup g
                 t == m.state
      <4>1. r = Done(SetOffsets(t)) /\ t.offsets = d
        BY <1>2, <3>5 DEF Succeeds, Beside
      <4>2. PICK e2 \in Seq(Int) : /\ Len(e2) = Len(d) /\ OwnSequence(e2)
                                   /\ \/ SetOffsets(t) = [t EXCEPT !.offsets = e2]
                                      \/ SetOffsets(t) = t /\ e2 = d
        BY <4>1, OffsetsOutcome
      <4>3. e2 # <<>> /\ Screen(Len(e2)) = Screen(Len(d))
        BY <3>5, <4>2
      <4> HIDE DEF L2, G2, t
      <4>4. Beside(t, b, d) /\ Has(t, L2, G2, {})
        BY <3>5 DEF Succeeds, L2, G2, t
      <4>5. Beside(SetOffsets(t), b, e2) /\ Has(SetOffsets(t), L2, G2, {})
        BY <4>2, <4>4 DEF Beside, Fields, Has
      <4>6. Succeeds(r, b, e2, L2, G2, {})
        BY <4>1, <4>5 DEF Succeeds, Done
      <4> QED BY <4>2, <4>3, <4>6 DEF Gets, L2, G2
    <3> QED BY <3>3, <3>4, <3>5
  <2> QED BY <2>5, <2>6, <2>7
<1> HIDE DEF L1, G1
<1> QED BY <1>5, <1>6, <1>7 DEF Fails

-----------------------------------------------------------------------------
(* natwm_state_destroy *)

ButtonsOwned(G) == {ButtonState} \cup ({Modifiers} \cap G)
MonitorsOwned(d) == {Extension, Monitors, MonitorList} \cup Screen(Len(d))
EwmhOwned(G) == {Ewmh} \cup (IF X \in G /\ Window \in G THEN {Window} ELSE {})

\* What is returned in one of its steps, if there is o.
Part(o, G, owned) == IF o \in G THEN owned ELSE {}

\* What it returns.
Owned(G, d) ==
  Part(ButtonState, G, ButtonsOwned(G)) \cup Part(WorkspaceList, G, ListOwns(G))
    \cup Part(MonitorList, G, MonitorsOwned(d)) \cup Part(Config, G, {Config})
    \cup Part(Ewmh, G, EwmhOwned(G)) \cup Part(X, G, {X}) \cup {State}

\* What else is gone when the connection is closed.
Served(G) == IF X \in G THEN {Window, Helper} ELSE {}

\* One of its steps.
LEMMA PartHas ==
  ASSUME NEW b, NEW d, NEW L, NEW G, NEW W, NEW s, Beside(s, b, d), Has(s, L, G, W),
         NEW o, NEW owned, NEW u, NEW t,
         o \in G => t = u, o \notin G => t = s,
         o \in G => Beside(u, b, d) /\ Has(u, L \ owned, G, W)
  PROVE  Beside(t, b, d) /\ Has(t, L \ Part(o, G, owned), G, W)
<1>1. CASE o \in G
  BY <1>1 DEF Part
<1>2. CASE o \notin G
  <2>1. L \ Part(o, G, owned) = L
    BY <1>2 DEF Part
  <2> QED BY <1>2, <2>1
<1> QED BY <1>1, <1>2

\* button_state_destroy needs the connection if there is a helper.
LEMMA ButtonsDestroyHas ==
  ASSUME NEW b, NEW d, NEW L, NEW G, NEW W, NEW s, Beside(s, b, d), Has(s, L, G, W),
         ButtonsOwned(G) \subseteq L, Helper \in G => X \in L
  PROVE  /\ Beside(ButtonStateDestroy(s), b, d)
         /\ Has(ButtonStateDestroy(s), L \ ButtonsOwned(G), G, W)
<1>1. (IF Helper \in s.set THEN Use(s, X) ELSE s) = s
  BY UseHas DEF Has
<1>2. ButtonStateDestroy(s) = FreeAll(s, ButtonsOwned(G))
  BY <1>1 DEF ButtonStateDestroy, ButtonsOwned, Has
<1> QED BY <1>2, FreeAllHas

\* monitor_list_destroy.
LEMMA MonitorsDestroyHas ==
  ASSUME NEW b, NEW d, NEW L, NEW G, NEW W, NEW s, Beside(s, b, d), Has(s, L, G, W),
         MonitorsOwned(d) \subseteq L
  PROVE  /\ Beside(MonitorListDestroy(s), b, d)
         /\ Has(MonitorListDestroy(s), L \ MonitorsOwned(d), G, W)
<1>1. MonitorListDestroy(s) = FreeAll(s, MonitorsOwned(d))
  BY DEF MonitorListDestroy, Listed, Found, Screen, MonitorsOwned, Beside
<1> QED BY <1>1, FreeAllHas

\* ewmh_destroy needs the connection if there is a window.
LEMMA EwmhDestroyHas ==
  ASSUME NEW b, NEW d, NEW L, NEW G, NEW W, NEW s, Beside(s, b, d), Has(s, L, G, W),
         EwmhOwned(G) \subseteq L, X \in G => X \in L
  PROVE  /\ Beside(EwmhDestroy(s), b, d)
         /\ Has(EwmhDestroy(s), L \ EwmhOwned(G), G, W)
<1> DEFINE t == IF X \in s.set /\ Window \in s.set THEN Free(Use(s, X), Window) ELSE s
           L1 == L \ (IF X \in G /\ Window \in G THEN {Window} ELSE {})
<1>0. Ewmh # Window
  BY DEF Ewmh, Window
<1>1. Beside(t, b, d) /\ Has(t, L1, G, W)
  <2>1. CASE X \in G /\ Window \in G
    <3>1. Use(s, X) = s /\ Window \in L /\ L1 = L \ {Window}
      BY <2>1, UseHas DEF EwmhOwned
    <3>2. t = Free(s, Window)
      BY <2>1, <3>1 DEF Has
    <3> QED BY <3>1, <3>2, FreeHas
  <2>2. CASE ~(X \in G /\ Window \in G)
    <3>1. t = s /\ L1 = L
      BY <2>2 DEF Has
    <3> QED BY <3>1
  <2> QED BY <2>1, <2>2
<1>2. EwmhDestroy(s) = Free(t, Ewmh)
  BY DEF EwmhDestroy
<1>3. Ewmh \in L1 /\ L1 \ {Ewmh} = L \ EwmhOwned(G)
  BY <1>0 DEF EwmhOwned
<1> HIDE DEF t, L1
<1> QED BY <1>1, <1>2, <1>3, FreeHas

\* xcb_disconnect.
LEMMA DisconnectHas ==
  ASSUME NEW b, NEW d, NEW L, NEW G, NEW W, NEW s, Beside(s, b, d), Has(s, L, G, W), X \in L
  PROVE  /\ Beside(Disconnect(s), b, d)
         /\ Has(Disconnect(s), L \ {X, Window, Helper}, G, W)
<1>1. Beside(Free(s, X), b, d) /\ Has(Free(s, X), L \ {X}, G, W)
  BY FreeHas
<1>2. (L \ {X}) \ {Window, Helper} = L \ {X, Window, Helper}
  OBVIOUS
<1> QED BY <1>1, <1>2 DEF Disconnect, Beside, Fields, Has

\* What the steps return is of different kinds.
LEMMA OwnedKinds ==
  ASSUME NEW G, NEW d
  PROVE  /\ \A o \in Part(ButtonState, G, ButtonsOwned(G)) : o[1] \in {"button_state", "modifiers"}
         /\ \A o \in Part(WorkspaceList, G, ListOwns(G)) :
              o[1] \in {"theme", "border_width", "color", "color_value", "workspace", "clients",
                        "client", "client_map", "workspaces", "workspace_list"}
         /\ \A o \in Part(MonitorList, G, MonitorsOwned(d)) :
              o[1] \in {"extension", "monitors", "monitor_list", "monitor"}
         /\ \A o \in Part(Config, G, {Config}) : o[1] \in {"config"}
         /\ \A o \in Part(Ewmh, G, EwmhOwned(G)) : o[1] \in {"ewmh", "ewmh_supporting_window"}
         /\ \A o \in Part(X, G, {X}) : o[1] \in {"xcb"}
         /\ Window[1] = "ewmh_supporting_window" /\ Helper[1] = "resize_helper" /\ State[1] = "state"
<1>1. \A o \in ThemeOwns(G) : o[1] \in {"theme", "border_width", "color", "color_value"}
  BY DEF ThemeOwns, ThemePart, BorderWidth, Color, Shades, Shade
<1>2. \A o \in SpacesOwned(G, WorkspaceCount) : o[1] \in {"workspace", "clients", "client"}
  BY SpacesKinds
<1>3. \A o \in ListOwns(G) :
        o[1] \in {"theme", "border_width", "color", "color_value", "workspace", "clients",
                  "client", "client_map", "workspaces", "workspace_list"}
  BY <1>1, <1>2 DEF ListOwns, ClientMap, WorkspaceArray, WorkspaceList
<1>4. \A o \in ButtonsOwned(G) : o[1] \in {"button_state", "modifiers"}
  BY DEF ButtonsOwned, ButtonState, Modifiers
<1>5. \A o \in MonitorsOwned(d) : o[1] \in {"extension", "monitors", "monitor_list", "monitor"}
  BY DEF MonitorsOwned, Extension, Monitors, MonitorList, Screen, Monitor
<1>6. \A o \in EwmhOwned(G) : o[1] \in {"ewmh", "ewmh_supporting_window"}
  BY DEF EwmhOwned, Ewmh, Window
<1>7. Config[1] = "config" /\ X[1] = "xcb" /\ Window[1] = "ewmh_supporting_window"
      /\ Helper[1] = "resize_helper" /\ State[1] = "state"
  BY DEF Config, X, Window, Helper, State
<1> QED BY <1>3, <1>4, <1>5, <1>6, <1>7 DEF Part

\* Of what is freed in a step, all is there: the steps before it free nothing
\* of it.
LEMMA StateDestroyHas ==
  ASSUME WorkspaceCount \in Nat, NEW b, NEW d, NEW L, NEW G, NEW W, NEW s,
         Beside(s, b, d), Has(s, L, G, W), W \subseteq Loose, Owned(G, d) \subseteq L,
         Helper \in G => X \in G
  PROVE  /\ Beside(StateDestroy(s), b, d)
         /\ Has(StateDestroy(s), L \ (Owned(G, d) \cup Served(G)), G, W)
<1> DEFINE P1 == Part(ButtonState, G, ButtonsOwned(G))
           P2 == Part(WorkspaceList, G, ListOwns(G))
           P3 == Part(MonitorList, G, MonitorsOwned(d))
           P4 == Part(Config, G, {Config})
           P5 == Part(Ewmh, G, EwmhOwned(G))
           P6 == Part(X, G, {X})
           P7 == Part(X, G, {X, Window, Helper})
           a == Release(s, ButtonState, ButtonStateDestroy)
           e == Release(a, WorkspaceList, WorkspaceListDestroy)
           f == Release(e, MonitorList, MonitorListDestroy)
           g == Release(f, Config, LAMBDA t : Free(t, Config))
           h == Release(g, Ewmh, EwmhDestroy)
           i == Release(h, X, Disconnect)
           L1 == L \ P1
           L2 == L1 \ P2
           L3 == L2 \ P3
           L4 == L3 \ P4
           L5 == L4 \ P5
           L6 == L5 \ P7
<1>1. StateDestroy(s) = Free(i, State)
  BY DEF StateDestroy
<1>2. /\ ButtonState \notin W /\ WorkspaceList \notin W /\ MonitorList \notin W
      /\ Config \notin W /\ Ewmh \notin W /\ X \notin W
  BY DEF Loose, ResizeBackground, ResizeBorder, ButtonState, WorkspaceList, MonitorList, Config, Ewmh, X
<1>3. /\ P1 \subseteq L /\ P2 \subseteq L1 /\ P3 \subseteq L2 /\ P4 \subseteq L3 /\ P5 \subseteq L4
      /\ P6 \subseteq L5 /\ P6 \subseteq L4 /\ P6 \subseteq L3 /\ P6 \subseteq L
      /\ State \in L6
  <2>1. /\ P7 \subseteq P6 \cup {Window, Helper}
        /\ State \in L /\ P1 \subseteq L /\ P2 \subseteq L /\ P3 \subseteq L /\ P4 \subseteq L
        /\ P5 \subseteq L /\ P6 \subseteq L
    BY DEF Owned, Part
  <2>2. /\ \A o \in P1 : o[1] \in {"button_state", "modifiers"}
        /\ \A o \in P2 : o[1] \in {"theme", "border_width", "color", "color_value", "workspace", "clients",
                                   "client", "client_map", "workspaces", "workspace_list"}
        /\ \A o \in P3 : o[1] \in {"extension", "monitors", "monitor_list", "monitor"}
        /\ \A o \in P4 : o[1] \in {"config"}
        /\ \A o \in P5 : o[1] \in {"ewmh", "ewmh_supporting_window"}
        /\ \A o \in P6 : o[1] \in {"xcb"}
        /\ Window[1] = "ewmh_supporting_window" /\ Helper[1] = "resize_helper" /\ State[1] = "state"
    BY OwnedKinds
  <2> HIDE DEF P1, P2, P3, P4, P5, P6, P7
  <2> QED BY <2>1, <2>2
<1>4. L6 \ {State} = L \ (Owned(G, d) \cup Served(G))
  <2>1. P7 = P6 \cup Served(G)
    BY DEF Part, Served
  <2>2. Owned(G, d) = P1 \cup P2 \cup P3 \cup P4 \cup P5 \cup P6 \cup {State}
    BY DEF Owned
  <2> HIDE DEF P1, P2, P3, P4, P5, P6, P7
  <2> QED BY <2>1, <2>2
<1>5. Beside(a, b, d) /\ Has(a, L1, G, W)
  <2> DEFINE u == ButtonStateDestroy(s)
  <2>1. (ButtonState \in G => a = u) /\ (ButtonState \notin G => a = s)
    BY <1>2 DEF Release, Has
  <2>2. ASSUME ButtonState \in G
        PROVE  /\ Beside(u, b, d)
               /\ Has(u, L \ ButtonsOwned(G), G, W)
    <3>1. ButtonsOwned(G) \subseteq L /\ (Helper \in G => X \in L)
      BY <1>3, <2>2 DEF Part
    <3> QED BY <3>1, ButtonsDestroyHas
  <2> HIDE DEF u
  <2> HIDE DEF a
  <2> QED BY <2>1, <2>2, PartHas
<1>6. Beside(e, b, d) /\ Has(e, L2, G, W)
  <2> DEFINE u == WorkspaceListDestroy(a)
  <2>1. (WorkspaceList \in G => e = u) /\ (WorkspaceList \notin G => e = a)
    BY <1>2, <1>5 DEF Release, Has
  <2> HIDE DEF a, e, L1
  <2>2. ASSUME WorkspaceList \in G
        PROVE  /\ Beside(u, b, d)
               /\ Has(u, L1 \ ListOwns(G), G, W)
    <3>1. ListOwns(G) \subseteq L1
      BY <1>3, <2>2 DEF Part
    <3> QED BY <1>5, <3>1, ListDestroyHas
  <2> HIDE DEF u
  <2>3. Beside(e, b, d) /\ Has(e, L1 \ Part(WorkspaceList, G, ListOwns(G)), G, W)
    BY <1>5, <2>1, <2>2, PartHas
  <2> QED BY <2>3
<1>7. Beside(f, b, d) /\ Has(f, L3, G, W)
  <2> DEFINE u == MonitorListDestroy(e)
  <2>1. (MonitorList \in G => f = u) /\ (MonitorList \notin G => f = e)
    BY <1>2, <1>6 DEF Release, Has
  <2> HIDE DEF e, f, L2
  <2>2. ASSUME MonitorList \in G
        PROVE  /\ Beside(u, b, d)
               /\ Has(u, L2 \ MonitorsOwned(d), G, W)
    <3>1. MonitorsOwned(d) \subseteq L2
      BY <1>3, <2>2 DEF Part
    <3> QED BY <1>6, <3>1, MonitorsDestroyHas
  <2> HIDE DEF u
  <2>3. Beside(f, b, d) /\ Has(f, L2 \ Part(MonitorList, G, MonitorsOwned(d)), G, W)
    BY <1>6, <2>1, <2>2, PartHas
  <2> QED BY <2>3
<1>8. Beside(g, b, d) /\ Has(g, L4, G, W)
  <2> DEFINE u == Free(f, Config)
           owned == {Config}
  <2>1. (Config \in G => g = u) /\ (Config \notin G => g = f)
    BY <1>2, <1>7 DEF Release, Has
  <2> HIDE DEF f, g, L3
  <2>2. ASSUME Config \in G
        PROVE  Beside(u, b, d) /\ Has(u, L3 \ owned, G, W)
    <3>1. Config \in L3
      BY <1>3, <2>2 DEF Part
    <3> QED BY <1>7, <3>1, FreeHas
  <2> HIDE DEF u, owned
  <2>3. Beside(g, b, d) /\ Has(g, L3 \ Part(Config, G, owned), G, W)
    BY <1>7, <2>1, <2>2, PartHas
  <2> QED BY <2>3 DEF owned
<1>9. Beside(h, b, d) /\ Has(h, L5, G, W)
  <2> DEFINE u == EwmhDestroy(g)
  <2>1. (Ewmh \in G => h = u) /\ (Ewmh \notin G => h = g)
    BY <1>2, <1>8 DEF Release, Has
  <2> HIDE DEF g, h, L4
  <2>2. ASSUME Ewmh \in G
        PROVE  Beside(u, b, d) /\ Has(u, L4 \ EwmhOwned(G), G, W)
    <3>1. EwmhOwned(G) \subseteq L4 /\ (X \in G => X \in L4)
      BY <1>3, <2>2 DEF Part
    <3> QED BY <1>8, <3>1, EwmhDestroyHas
  <2> HIDE DEF u
  <2>3. Beside(h, b, d) /\ Has(h, L4 \ Part(Ewmh, G, EwmhOwned(G)), G, W)
    BY <1>8, <2>1, <2>2, PartHas
  <2> QED BY <2>3
<1>10. Beside(i, b, d) /\ Has(i, L6, G, W)
  <2> DEFINE u == Disconnect(h)
           owned == {X, Window, Helper}
  <2>1. (X \in G => i = u) /\ (X \notin G => i = h)
    BY <1>2, <1>9 DEF Release, Has
  <2> HIDE DEF h, i, L5
  <2>2. ASSUME X \in G
        PROVE  Beside(u, b, d) /\ Has(u, L5 \ owned, G, W)
    <3>1. X \in L5
      BY <1>3, <2>2 DEF Part
    <3> QED BY <1>9, <3>1, DisconnectHas
  <2> HIDE DEF u, owned
  <2>3. Beside(i, b, d) /\ Has(i, L5 \ Part(X, G, owned), G, W)
    BY <1>9, <2>1, <2>2, PartHas
  <2> QED BY <2>3 DEF owned
<1> HIDE DEF i, L6
<1> QED BY <1>1, <1>3, <1>4, <1>10, FreeHas

-----------------------------------------------------------------------------
(* The invariant *)

\* Pointers that may be left when what they point to is gone, because nobody
\* reads them again.
Unread == Findings \cup {Buffer}

\* What is there while natwm is set up, one call after another.
Connected == {State, Config, X}
Hinted == Connected \cup {Ewmh, Window}
Buttoned(s) == Hinted \cup {ButtonState} \cup ({Modifiers} \cap s.live)
Monitored(s) == Buttoned(s) \cup MonitorsOwned(s.offsets)
Spaced(s) == Monitored(s) \cup Trio \cup AllSpaces

\* And what comes and goes while it runs.
Clients == {Client(i) : i \in Workspaces}
Passing == {Helper} \cup Clients
Running(s) == Spaced(s) \cup ThemeThings \cup (Passing \cap s.live)

\* Exactly that is there, and each pointer that is read points to something.
Sound(s, L) ==
  /\ s.live = L /\ s.set \ Unread = L \ Unread
  /\ s.wild = {} /\ s.fault = "none"

Shaped(s) ==
  /\ DOMAIN s = Fields
  /\ s.extension \in {"randr", "xinerama", "none"} /\ s.outputs \in Outputs

\* The monitors as they have been given their offsets.
Placed(s) == s.offsets \in Seq(Int) /\ s.offsets # <<>> /\ OwnSequence(s.offsets)

\* And as they have been given their workspaces.
Covered(s) == IF Len(s.offsets) < WorkspaceCount THEN Len(s.offsets) ELSE WorkspaceCount

Showing(s) ==
  /\ Placed(s)
  /\ s.shows = [k \in 1 .. Len(s.offsets) |->
                  IF Len(s.offsets) + 1 - k <= Covered(s) THEN Len(s.offsets) + 1 - k - 1 ELSE NULL]
  /\ s.visible = 0 .. Covered(s) - 1
  /\ s.focused = {0} /\ s.activeIndex = 0

Tidy(s) ==
  /\ s.written \in Int /\ s.written <= NameMax * WorkspaceCount + WorkspaceCount
  /\ s.shows = <<>> \/ Showing(s)

Untouched(s) == s.offsets = <<>> /\ s.shows = <<>>

\* natwm_state_destroy finds all that it is to return, and nothing else is
\* left but what is lost.
Closable(s) ==
  /\ s.fault = "none" /\ s.wild \subseteq Loose
  /\ Owned(s.set, s.offsets) \subseteq s.live
  /\ s.live \subseteq Owned(s.set, s.offsets) \cup Served(s.set) \cup Loose
                        \cup (IF MonitorList \in s.set THEN {} ELSE Forgotten(s, Len(s.offsets)))
  /\ Helper \in s.set => X \in s.set

Crashed(s) ==
  \/ s.fault = "reply"
  \/ s.fault = "memory" /\ s.wild \cap {BorderWidth, Color} # {}

Gone(s) ==
  /\ s.fault = "none"
  /\ s.live \subseteq Loose \cup (IF MonitorList \in s.set THEN {} ELSE Forgotten(s, Len(s.offsets)))

\* What holds at each of the calls of main.
Stage(p, s) ==
  \/ p = "config" /\ Untouched(s) /\ Sound(s, {State})
  \/ p = "connect" /\ Untouched(s) /\ Sound(s, {State, Config})
  \/ p \in {"subscribe", "ewmh"} /\ Untouched(s) /\ Sound(s, Connected)
  \/ p = "buttons" /\ Untouched(s) /\ Sound(s, Hinted)
  \/ p = "monitors" /\ Untouched(s) /\ Sound(s, Buttoned(s))
  \/ p = "workspaces" /\ Placed(s) /\ s.shows = <<>> /\ Sound(s, Monitored(s))
  \/ p = "theme" /\ Showing(s) /\ Sound(s, Spaced(s))
  \/ p = "running" /\ Showing(s) /\ Sound(s, Running(s))
  \/ p \in {"free_and_error", "closing"} /\ Closable(s)
  \/ p = "crashed" /\ Crashed(s)
  \/ p = "exited" /\ Gone(s)

SetupInv == Shaped(state) /\ Tidy(state) /\ Stage(pc, state)

\* Everything is told apart by what kind it is of.
LEMMA Kinds ==
  /\ State[1] = "state" /\ Config[1] = "config" /\ Buffer[1] = "file_buffer" /\ X[1] = "xcb"
  /\ Window[1] = "ewmh_supporting_window" /\ Helper[1] = "resize_helper" /\ Ewmh[1] = "ewmh"
  /\ ButtonState[1] = "button_state" /\ Modifiers[1] = "modifiers"
  /\ WorkspaceList[1] = "workspace_list" /\ ClientMap[1] = "client_map"
  /\ WorkspaceArray[1] = "workspaces" /\ Extension[1] = "extension"
  /\ MonitorList[1] = "monitor_list" /\ Monitors[1] = "monitors" /\ ThemePart[1] = "theme"
  /\ ResizeBackground[1] = "resize_background_color" /\ ResizeBorder[1] = "resize_border_color"
  /\ \A i : Workspace(i)[1] = "workspace" /\ ClientList(i)[1] = "clients" /\ Client(i)[1] = "client"
  /\ \A n : \A o \in Screen(n) : o[1] = "monitor"
  /\ \A o \in AllSpaces : o[1] \in {"workspace", "clients"}
  /\ \A o \in Bordered : o[1] \in {"border_width", "color", "color_value"}
  /\ \A o \in Findings : o[1] \in {"monitors", "randr_monitors", "rects", "monitor", "randr_monitor"}
BY DEF State, Config, Buffer, X, Window, Helper, Ewmh, ButtonState, Modifiers, WorkspaceList,
       ClientMap, WorkspaceArray, Extension, MonitorList, Monitors, ThemePart, ResizeBackground,
       ResizeBorder, Workspace, ClientList, Client, Screen, Monitor, AllSpaces, Spaces, Bordered,
       BorderWidth, Color, Shades, Shade, Findings, RandrArray, Rects, RandrThings, RandrMonitor

\* What natwm_state_destroy reads; the rest of the pointers do not matter.
LEMMA UnreadKinds ==
  \A o \in Unread : o[1] \in {"monitors", "randr_monitors", "rects", "monitor", "randr_monitor", "file_buffer"}
BY Kinds DEF Unread

\* What it returns, from one stage of the setup to the next.
LEMMA OwnedEarly ==
  ASSUME NEW G, NEW d, G \cap {ButtonState, WorkspaceList, MonitorList} = {}
  PROVE  /\ G \cap {Config, X, Ewmh} = {} => Owned(G, d) = {State}
         /\ G \cap {Config, X, Ewmh} = {Config} => Owned(G, d) = {State, Config}
         /\ G \cap {Config, X, Ewmh} = {Config, X} => Owned(G, d) = Connected
         /\ {Config, X, Ewmh, Window} \subseteq G => Owned(G, d) = Hinted
<1>1. /\ Part(ButtonState, G, ButtonsOwned(G)) = {} /\ Part(WorkspaceList, G, ListOwns(G)) = {}
      /\ Part(MonitorList, G, MonitorsOwned(d)) = {}
  BY DEF Part
<1>2. Owned(G, d) = Part(Config, G, {Config}) \cup Part(Ewmh, G, EwmhOwned(G))
                      \cup Part(X, G, {X}) \cup {State}
  BY <1>1 DEF Owned
<1>3. Config # X /\ Config # Ewmh /\ X # Ewmh
  BY Kinds
<1>4. ASSUME G \cap {Config, X, Ewmh} = {} PROVE Owned(G, d) = {State}
  BY <1>2, <1>3, <1>4 DEF Part
<1>5. ASSUME G \cap {Config, X, Ewmh} = {Config} PROVE Owned(G, d) = {State, Config}
  BY <1>2, <1>3, <1>5 DEF Part
<1>6. ASSUME G \cap {Config, X, Ewmh} = {Config, X} PROVE Owned(G, d) = Connected
  BY <1>2, <1>3, <1>6 DEF Part, Connected
<1>7. ASSUME {Config, X, Ewmh, Window} \subseteq G PROVE Owned(G, d) = Hinted
  BY <1>2, <1>7 DEF Part, Hinted, Connected, EwmhOwned
<1> QED BY <1>4, <1>5, <1>6, <1>7

\* And from the buttons on.
LEMMA OwnedLate ==
  ASSUME NEW G, NEW d, {Config, X, Ewmh, Window, ButtonState} \subseteq G
  PROVE  /\ G \cap {WorkspaceList, MonitorList} = {} => Owned(G, d) = Hinted \cup ButtonsOwned(G)
         /\ WorkspaceList \notin G /\ MonitorList \in G =>
              Owned(G, d) = Hinted \cup ButtonsOwned(G) \cup MonitorsOwned(d)
         /\ {WorkspaceList, MonitorList} \subseteq G =>
              Owned(G, d) = Hinted \cup ButtonsOwned(G) \cup MonitorsOwned(d) \cup ListOwns(G)
<1>1. /\ Part(ButtonState, G, ButtonsOwned(G)) = ButtonsOwned(G) /\ Part(Config, G, {Config}) = {Config}
      /\ Part(Ewmh, G, EwmhOwned(G)) = {Ewmh, Window} /\ Part(X, G, {X}) = {X}
  BY DEF Part, EwmhOwned
<1>2. Owned(G, d) = Hinted \cup ButtonsOwned(G) \cup Part(WorkspaceList, G, ListOwns(G))
                      \cup Part(MonitorList, G, MonitorsOwned(d))
  <2> HIDE DEF ButtonsOwned
  <2> QED BY <1>1 DEF Owned, Hinted, Connected
<1> HIDE DEF ButtonsOwned, Hinted, MonitorsOwned
<1> QED BY <1>2 DEF Part

\* And what it returns of the workspaces.
LEMMA SpacesAll ==
  ASSUME WorkspaceCount \in Nat, NEW G, AllSpaces \subseteq G
  PROVE  SpacesOwned(G, WorkspaceCount) = AllSpaces \cup (Clients \cap G)
<1>1. \A i \in Workspaces : Workspace(i) \in G
  BY DEF AllSpaces, Spaces, Workspaces
<1>2. {i \in 0 .. WorkspaceCount - 1 : Workspace(i) \in G} = Workspaces
  BY <1>1 DEF Workspaces
<1>3. SpacesOwned(G, WorkspaceCount) =
        {Workspace(i) : i \in Workspaces} \cup {ClientList(i) : i \in Workspaces}
          \cup {Client(i) : i \in {j \in Workspaces : Client(j) \in G}}
  BY <1>2 DEF SpacesOwned
<1>4. {Client(i) : i \in {j \in Workspaces : Client(j) \in G}} = Clients \cap G
  BY DEF Clients
<1> QED BY <1>3, <1>4 DEF AllSpaces, Spaces, Workspaces

\* With the lists of windows, and with a theme or without one.
LEMMA ListAll ==
  ASSUME WorkspaceCount \in Nat, NEW G, AllSpaces \subseteq G
  PROVE  /\ ThemePart \notin G => ListOwns(G) = Trio \cup AllSpaces \cup (Clients \cap G)
         /\ ThemeThings \subseteq G =>
              ListOwns(G) \cup Loose = Trio \cup AllSpaces \cup (Clients \cap G) \cup ThemeThings
<1>1. SpacesOwned(G, WorkspaceCount) = AllSpaces \cup (Clients \cap G)
  BY SpacesAll
<1>2. ASSUME ThemeThings \subseteq G
      PROVE  ThemePart \in G /\ ThemeOwns(G) \cup Loose = ThemeThings
  BY <1>2 DEF ThemeThings, ThemeOwns, Bordered, Loose
<1> HIDE DEF ThemeOwns, ThemeThings, Loose, Clients, AllSpaces, SpacesOwned
<1>3. ASSUME ThemePart \notin G PROVE ListOwns(G) = Trio \cup AllSpaces \cup (Clients \cap G)
  BY <1>1, <1>3 DEF ListOwns, Trio
<1>4. ASSUME ThemeThings \subseteq G
      PROVE  ListOwns(G) \cup Loose = Trio \cup AllSpaces \cup (Clients \cap G) \cup ThemeThings
  BY <1>1, <1>2, <1>4 DEF ListOwns, Trio
<1> QED BY <1>3, <1>4

-----------------------------------------------------------------------------
(* One call of main *)

\* A state is beside itself.
LEMMA BesideSelf ==
  ASSUME NEW s, Shaped(s)
  PROVE  Beside(s, s, s.offsets)
BY DEF Shaped, Beside

\* What the user sees stays as it is.
LEMMA BesideShows ==
  ASSUME NEW b, NEW t, Beside(t, b, b.offsets)
  PROVE  /\ Showing(b) => Showing(t)
         /\ Placed(b) => Placed(t)
         /\ Untouched(b) => Untouched(t)
<1>1. /\ t.offsets = b.offsets /\ t.shows = b.shows /\ t.visible = b.visible
      /\ t.focused = b.focused /\ t.activeIndex = b.activeIndex
  BY DEF Beside
<1>2. Covered(t) = Covered(b)
  BY <1>1 DEF Covered
<1>3. Placed(b) => Placed(t)
  BY <1>1 DEF Placed
<1>4. Untouched(b) => Untouched(t)
  BY <1>1 DEF Untouched
<1> HIDE DEF Covered, Placed
<1>5. Showing(b) => Showing(t)
  BY <1>1, <1>2, <1>3, Zenon DEF Showing
<1> QED BY <1>3, <1>4, <1>5

\* And so do the offsets, once there are workspaces.
LEMMA BesideKeeps ==
  ASSUME NEW b, NEW d, NEW t, Beside(t, b, d), Shaped(b), Tidy(b), b.shows = <<>> \/ d = b.offsets
  PROVE  Shaped(t) /\ Tidy(t)
<1>1. Shaped(t)
  BY DEF Shaped, Beside
<1>2. t.written = b.written /\ t.shows = b.shows
  BY DEF Beside
<1>3. t.shows = <<>> \/ Showing(t)
  <2>1. CASE b.shows = <<>>
    BY <1>2, <2>1
  <2>2. CASE b.shows # <<>>
    <3>1. Showing(b) /\ d = b.offsets
      BY <2>2 DEF Tidy
    <3> QED BY <3>1, BesideShows
  <2> QED BY <2>1, <2>2
<1> QED BY <1>1, <1>2, <1>3 DEF Tidy

\* Where main is after a call.
Onward(r, to) == IF Faulted(r.state) THEN "crashed" ELSE IF r.ok THEN to ELSE "free_and_error"

Lands(r, to) == Shaped(r.state) /\ Tidy(r.state) /\ Stage(Onward(r, to), r.state)

\* A call that succeeds with what its next one needs.
LEMMA LandsWell ==
  ASSUME NEW b, NEW d, NEW L, NEW G, NEW W, NEW r, Succeeds(r, b, d, L, G, W), Shaped(b), Tidy(b),
         b.shows = <<>> \/ d = b.offsets, NEW to, Stage(to, r.state)
  PROVE  Lands(r, to)
<1>1. Shaped(r.state) /\ Tidy(r.state)
  BY BesideKeeps DEF Succeeds
<1>2. Onward(r, to) = to
  BY DEF Succeeds, Has, Onward, Faulted
<1> QED BY <1>1, <1>2 DEF Lands

\* A call that fails and leaves what natwm_state_destroy needs.
LEMMA LandsFailing ==
  ASSUME NEW b, NEW d, NEW L, NEW G, NEW W, NEW r, Fails(r, b, d, L, G, W), Shaped(b), Tidy(b),
         b.shows = <<>> \/ d = b.offsets, NEW to,
         W \subseteq Loose, Owned(G, d) \subseteq L,
         L \subseteq Owned(G, d) \cup Served(G) \cup Loose
                       \cup (IF MonitorList \in G THEN {} ELSE Forgotten(b, Len(d))),
         Helper \in G => X \in G
  PROVE  Lands(r, to)
<1>1. Shaped(r.state) /\ Tidy(r.state)
  BY BesideKeeps DEF Fails
<1>2. Onward(r, to) = "free_and_error"
  BY DEF Fails, Has, Onward, Faulted
<1>3. Forgotten(r.state, Len(d)) = Forgotten(b, Len(d))
  BY ActiveHas DEF Forgotten, Fails
<1>4. /\ r.state.live = L /\ r.state.set = G /\ r.state.wild = W /\ r.state.fault = "none"
      /\ r.state.offsets = d
  BY DEF Fails, Has, Beside
<1>5. Closable(r.state)
  <2> HIDE DEF Loose, Owned, Served, Forgotten
  <2> QED BY <1>3, <1>4 DEF Closable
<1> QED BY <1>1, <1>2, <1>5 DEF Lands, Stage

\* A pointer that is read points to something if it is not NULL.
LEMMA SoundReads ==
  ASSUME NEW s, NEW L, Sound(s, L), NEW o,
         o[1] \notin {"monitors", "randr_monitors", "rects", "monitor", "randr_monitor", "file_buffer"}
  PROVE  o \in s.set <=> o \in L
<1>1. o \notin Unread
  BY UnreadKinds
<1> QED BY <1>1 DEF Sound

\* The calls of main, one after another, lead to the next stage or leave what can
\* be returned.
LEMMA ConfigLands ==
  ASSUME NEW s, Shaped(s), Tidy(s), Untouched(s), Sound(s, {State}), NEW r \in ConfigInitializePath(s)
  PROVE  Lands(r, "connect")
<1> DEFINE G == s.set
           L == {State}
<1>1. Beside(s, s, s.offsets) /\ Has(s, L, G, {}) /\ s.shows = <<>>
  BY BesideSelf DEF Sound, Has, Untouched
<1>2. Buffer \notin L
  BY Kinds
<1>3. /\ ButtonState \notin G /\ WorkspaceList \notin G /\ MonitorList \notin G /\ Config \notin G
      /\ X \notin G /\ Ewmh \notin G /\ Helper \notin G
  <2> HIDE DEF G
  <2>1. \A o : o[1] \in {"button_state", "workspace_list", "monitor_list", "config", "xcb", "ewmh",
                         "resize_helper"} => o \notin G
    BY SoundReads, Kinds DEF G
  <2> QED BY <2>1, Kinds
<1>4. \/ \E g \in {G, G \cup {Buffer}} : Fails(r, s, s.offsets, L, g, {})
      \/ Succeeds(r, s, s.offsets, L \cup {Config}, G \cup {Buffer, Config}, {})
  BY <1>1, <1>2, ConfigOutcomes
<1>5. ASSUME NEW g \in {G, G \cup {Buffer}}, Fails(r, s, s.offsets, L, g, {})
      PROVE  Lands(r, "connect")
  <2>1. /\ g \cap {ButtonState, WorkspaceList, MonitorList} = {}
        /\ g \cap {Config, X, Ewmh} = {} /\ Helper \notin g
    BY <1>3, Kinds
  <2>2. Owned(g, s.offsets) = L
    BY <2>1, OwnedEarly
  <2> HIDE DEF G, L
  <2> QED BY <1>1, <1>5, <2>1, <2>2, LandsFailing
<1>6. CASE Succeeds(r, s, s.offsets, L \cup {Config}, G \cup {Buffer, Config}, {})
  <2>1. Untouched(r.state)
    BY <1>6, BesideShows DEF Succeeds
  <2>2. (G \cup {Buffer, Config}) \ Unread = {State, Config} \ Unread
    BY UnreadKinds, Kinds DEF Sound, Unread
  <2>3. Sound(r.state, {State, Config})
    BY <1>6, <2>2 DEF Succeeds, Has, Sound
  <2>4. Stage("connect", r.state)
    BY <2>1, <2>3 DEF Stage
  <2> QED BY <1>1, <1>6, <2>4, LandsWell
<1> QED BY <1>4, <1>5, <1>6

\* The pointers of the first stages.
LEMMA SoundEarly ==
  ASSUME NEW s, NEW L, Sound(s, L), L \subseteq Hinted
  PROVE  /\ s.set \cap {ButtonState, WorkspaceList, MonitorList} = {} /\ Helper \notin s.set
         /\ s.set \cap {Config, X, Ewmh} = L \cap {Config, X, Ewmh}
         /\ Window \in s.set <=> Window \in L
<1>1. {ButtonState, WorkspaceList, MonitorList, Helper} \cap L = {}
  BY Kinds DEF Hinted, Connected
<1>2. \A o \in {ButtonState, WorkspaceList, MonitorList, Helper, Config, X, Ewmh, Window} :
        o \in s.set <=> o \in L
  <2>1. \A o : o[1] \in {"button_state", "workspace_list", "monitor_list", "config", "xcb", "ewmh",
                         "resize_helper", "ewmh_supporting_window"} => (o \in s.set <=> o \in L)
    BY SoundReads
  <2> QED BY <2>1, Kinds
<1> QED BY <1>1, <1>2

\* The same memory and one pointer more.
LEMMA SoundMore ==
  ASSUME NEW s, NEW L, Sound(s, L), NEW t, NEW b, NEW d, NEW os,
         Beside(t, b, d), Has(t, L \cup os, s.set \cup os, {})
  PROVE  Sound(t, L \cup os)
<1>1. (s.set \cup os) \ Unread = (L \cup os) \ Unread
  <2> HIDE DEF Unread
  <2> QED BY DEF Sound
<1> QED BY <1>1 DEF Sound, Has

\* A failure of one of the first calls, which leaves nothing behind.
LEMMA FailsEarly ==
  ASSUME NEW s, NEW L, Shaped(s), Tidy(s), Untouched(s), Sound(s, L),
         NEW r, Fails(r, s, s.offsets, L, s.set, {}), NEW to,
         L \subseteq Hinted, Owned(s.set, s.offsets) = L
  PROVE  Lands(r, to)
<1>1. s.shows = <<>>
  BY DEF Untouched
<1>2. Helper \notin s.set
  BY SoundEarly
<1> HIDE DEF Owned
<1> QED BY <1>1, <1>2, LandsFailing

\* make_connection.
LEMMA ConnectLands ==
  ASSUME NEW s, Shaped(s), Tidy(s), Untouched(s), Sound(s, {State, Config}),
         NEW r \in Then(MakeConnection(s), LAMBDA t : {Done(u) : u \in FindDefaultScreen(t)})
  PROVE  Lands(r, "subscribe")
<1> DEFINE G == s.set
           L == {State, Config}
<1>1. Beside(s, s, s.offsets) /\ Has(s, L, G, {}) /\ s.shows = <<>>
  BY BesideSelf DEF Sound, Has, Untouched
<1>2. Fails(r, s, s.offsets, L, G, {}) \/ Succeeds(r, s, s.offsets, L \cup {X}, G \cup {X}, {})
  BY <1>1, ConnectOutcomes
<1>3. L \subseteq Hinted /\ L \cap {Config, X, Ewmh} = {Config}
  BY Kinds DEF Hinted, Connected
<1>4. Owned(G, s.offsets) = L
  <2>1. G \cap {ButtonState, WorkspaceList, MonitorList} = {} /\ G \cap {Config, X, Ewmh} = {Config}
    <3> HIDE DEF L
    <3>1. Sound(s, L)
      BY DEF L
    <3> QED BY <1>3, <3>1, SoundEarly
  <2> QED BY <2>1, OwnedEarly
<1>5. CASE Fails(r, s, s.offsets, L, G, {})
  BY <1>3, <1>4, <1>5, FailsEarly
<1>6. CASE Succeeds(r, s, s.offsets, L \cup {X}, G \cup {X}, {})
  <2>1. Untouched(r.state)
    BY <1>6, BesideShows DEF Succeeds
  <2>2. Sound(r.state, L \cup {X})
    BY <1>6, SoundMore DEF Succeeds
  <2>3. L \cup {X} = Connected
    BY DEF Connected
  <2>4. Stage("subscribe", r.state)
    BY <2>1, <2>2, <2>3 DEF Stage
  <2> QED BY <1>1, <1>6, <2>4, LandsWell
<1> QED BY <1>2, <1>5, <1>6

\* With a connection.
LEMMA ConnectedOwned ==
  ASSUME NEW s, Sound(s, Connected)
  PROVE  /\ Owned(s.set, s.offsets) = Connected
         /\ Connected \subseteq Hinted /\ X \in Connected /\ Ewmh \notin Connected
<1>1. Connected \subseteq Hinted /\ X \in Connected /\ Ewmh \notin Connected
      /\ Connected \cap {Config, X, Ewmh} = {Config, X}
  BY Kinds DEF Hinted, Connected
<1>2. /\ s.set \cap {ButtonState, WorkspaceList, MonitorList} = {}
      /\ s.set \cap {Config, X, Ewmh} = {Config, X}
  BY <1>1, SoundEarly
<1> QED BY <1>1, <1>2, OwnedEarly

\* event_subscribe_to_root.
LEMMA SubscribeLands ==
  ASSUME NEW s, Shaped(s), Tidy(s), Untouched(s), Sound(s, Connected), NEW r \in Subscribe(s)
  PROVE  Lands(r, "ewmh")
<1>1. Beside(s, s, s.offsets) /\ Has(s, Connected, s.set, {}) /\ s.shows = <<>>
  BY BesideSelf DEF Sound, Has, Untouched
<1>2. \/ Fails(r, s, s.offsets, Connected, s.set, {})
      \/ Succeeds(r, s, s.offsets, Connected, s.set, {})
  BY <1>1, ConnectedOwned, SubscribeOutcomes
<1>3. CASE Fails(r, s, s.offsets, Connected, s.set, {})
  BY <1>3, ConnectedOwned, FailsEarly
<1>4. CASE Succeeds(r, s, s.offsets, Connected, s.set, {})
  <2>1. Untouched(r.state)
    BY <1>4, BesideShows DEF Succeeds
  <2>2. Sound(r.state, Connected)
    BY <1>4 DEF Succeeds, Has, Sound
  <2>3. Stage("ewmh", r.state)
    BY <2>1, <2>2 DEF Stage
  <2> QED BY <1>1, <1>4, <2>3, LandsWell
<1> QED BY <1>2, <1>3, <1>4

\* ewmh_create.
LEMMA EwmhLands ==
  ASSUME NEW s, Shaped(s), Tidy(s), Untouched(s), Sound(s, Connected), NEW r \in EwmhCreate(s)
  PROVE  Lands(r, "buttons")
<1> DEFINE os == {Ewmh, Window}
<1>1. Beside(s, s, s.offsets) /\ Has(s, Connected, s.set, {}) /\ s.shows = <<>>
  BY BesideSelf DEF Sound, Has, Untouched
<1>2. \/ Fails(r, s, s.offsets, Connected, s.set, {})
      \/ Succeeds(r, s, s.offsets, Connected \cup os, s.set \cup os, {})
  BY <1>1, ConnectedOwned, EwmhOutcomes
<1>3. CASE Fails(r, s, s.offsets, Connected, s.set, {})
  BY <1>3, ConnectedOwned, FailsEarly
<1>4. CASE Succeeds(r, s, s.offsets, Connected \cup os, s.set \cup os, {})
  <2>1. Untouched(r.state)
    BY <1>4, BesideShows DEF Succeeds
  <2>2. Sound(r.state, Connected \cup os)
    BY <1>4, SoundMore DEF Succeeds
  <2>3. Connected \cup os = Hinted
    BY DEF Hinted
  <2>4. Stage("buttons", r.state)
    BY <2>1, <2>2, <2>3 DEF Stage
  <2> QED BY <1>1, <1>4, <2>4, LandsWell
<1> QED BY <1>2, <1>3, <1>4

\* With the hints.
LEMMA HintedOwned ==
  ASSUME NEW s, Sound(s, Hinted)
  PROVE  Owned(s.set, s.offsets) = Hinted
<1>1. {Config, X, Ewmh, Window} \subseteq Hinted
  BY DEF Hinted, Connected
<1>2. /\ s.set \cap {ButtonState, WorkspaceList, MonitorList} = {}
      /\ s.set \cap {Config, X, Ewmh} = Hinted \cap {Config, X, Ewmh}
      /\ Window \in s.set
  BY <1>1, SoundEarly
<1>3. {Config, X, Ewmh, Window} \subseteq s.set
  BY <1>1, <1>2
<1> QED BY <1>2, <1>3, OwnedEarly

\* button_state_create.
LEMMA ButtonsLands ==
  ASSUME NEW s, Shaped(s), Tidy(s), Untouched(s), Sound(s, Hinted), NEW r \in ButtonStateCreate(s)
  PROVE  Lands(r, "monitors")
<1>1. Beside(s, s, s.offsets) /\ Has(s, Hinted, s.set, {}) /\ s.shows = <<>>
  BY BesideSelf DEF Sound, Has, Untouched
<1>2. \/ Fails(r, s, s.offsets, Hinted, s.set, {})
      \/ \E os \in {{ButtonState}, {ButtonState, Modifiers}} :
           Succeeds(r, s, s.offsets, Hinted \cup os, s.set \cup os, {})
  BY <1>1, ButtonsOutcomes
<1>3. CASE Fails(r, s, s.offsets, Hinted, s.set, {})
  BY <1>3, HintedOwned, FailsEarly
<1>4. ASSUME NEW os \in {{ButtonState}, {ButtonState, Modifiers}},
             Succeeds(r, s, s.offsets, Hinted \cup os, s.set \cup os, {})
      PROVE  Lands(r, "monitors")
  <2>1. Untouched(r.state)
    BY <1>4, BesideShows DEF Succeeds
  <2>2. Sound(r.state, Hinted \cup os)
    BY <1>4, SoundMore DEF Succeeds
  <2>3. Hinted \cup os = Buttoned(r.state)
    <3>1. Modifiers \notin Hinted \cup {ButtonState} /\ r.state.live = Hinted \cup os
      BY <2>2, Kinds DEF Sound, Hinted, Connected
    <3> HIDE DEF Hinted
    <3> QED BY <3>1 DEF Buttoned
  <2>4. Stage("monitors", r.state)
    BY <2>1, <2>2, <2>3 DEF Stage
  <2> QED BY <1>1, <1>4, <2>4, LandsWell
<1> QED BY <1>2, <1>3, <1>4

\* A reply that was not there.
LEMMA LandsLost ==
  ASSUME NEW b, Shaped(b), Tidy(b), b.shows = <<>>, NEW r, Lost(r.state, b), NEW to
  PROVE  Lands(r, to)
<1>1. Shaped(r.state) /\ Tidy(r.state)
  BY BesideKeeps DEF Lost
<1>2. Onward(r, to) = "crashed" /\ Crashed(r.state)
  BY DEF Lost, Onward, Faulted, Crashed
<1> QED BY <1>1, <1>2 DEF Lands, Stage

\* The pointers of the other stages.
LEMMA SoundLate ==
  ASSUME NEW s, NEW L, Sound(s, L), Hinted \cup {ButtonState} \subseteq L
  PROVE  /\ {Config, X, Ewmh, Window, ButtonState} \subseteq s.set
         /\ Modifiers \in s.set <=> Modifiers \in L
         /\ WorkspaceList \in s.set <=> WorkspaceList \in L
         /\ MonitorList \in s.set <=> MonitorList \in L
         /\ ThemePart \in s.set <=> ThemePart \in L
         /\ Helper \in s.set <=> Helper \in L
         /\ \A i : Client(i) \in s.set <=> Client(i) \in L
         /\ \A i : Workspace(i) \in s.set <=> Workspace(i) \in L
<1>1. \A o : o[1] \in {"config", "xcb", "ewmh", "ewmh_supporting_window", "button_state", "modifiers",
                       "workspace_list", "monitor_list", "theme", "resize_helper", "client", "workspace"} =>
               (o \in s.set <=> o \in L)
  BY SoundReads
<1>2. {Config, X, Ewmh, Window, ButtonState} \subseteq L
  BY DEF Hinted, Connected
<1> QED BY <1>1, <1>2, Kinds

\* What natwm has besides its buttons when it looks for monitors.
LEMMA ButtonedKinds ==
  ASSUME NEW s
  PROVE  /\ \A o \in Buttoned(s) : o[1] \in {"state", "config", "xcb", "ewmh", "ewmh_supporting_window",
                                             "button_state", "modifiers"}
         /\ Hinted \cup {ButtonState} \subseteq Buttoned(s)
BY Kinds DEF Buttoned, Hinted, Connected

\* It is all there, with the modifiers or without them.
LEMMA ButtonedOwned ==
  ASSUME NEW s, NEW G, {Config, X, Ewmh, Window, ButtonState} \subseteq G,
         Modifiers \in G <=> Modifiers \in s.live
  PROVE  Hinted \cup ButtonsOwned(G) = Buttoned(s)
BY DEF Buttoned, ButtonsOwned

\* monitor_setup: the list of monitors is not set if it fails, so that what it
\* has forgotten is not looked at.
LEMMA MonitorsLands ==
  ASSUME SetupAssumption, NEW s, Shaped(s), Tidy(s), Untouched(s), Sound(s, Buttoned(s)),
         NEW r \in MonitorSetup(s)
  PROVE  Lands(r, "workspaces")
<1> DEFINE G == s.set
           L == Buttoned(s)
<1>1. Beside(s, s, <<>>) /\ Has(s, L, G, {}) /\ s.shows = <<>>
  BY BesideSelf DEF Sound, Has, Untouched
<1>2. Len(s.outputs) \in Nat
  <2>1. s.outputs \in Seq({"active", "inactive"})
    BY DEF Shaped, SetupAssumption
  <2> QED BY <2>1
<1>3. L \cap (Findings \cup {Extension, MonitorList}) = {}
  <2> HIDE DEF L
  <2>1. \A o \in L : o[1] \in {"state", "config", "xcb", "ewmh", "ewmh_supporting_window",
                               "button_state", "modifiers"}
    BY ButtonedKinds DEF L
  <2> QED BY <2>1, Kinds
<1>4. /\ {Config, X, Ewmh, Window, ButtonState} \subseteq G
      /\ Modifiers \in G <=> Modifiers \in s.live
      /\ WorkspaceList \notin G /\ MonitorList \notin G /\ Helper \notin G
  <2>1. /\ WorkspaceList \notin L /\ MonitorList \notin L /\ Helper \notin L
        /\ Hinted \cup {ButtonState} \subseteq L
    BY ButtonedKinds, Kinds
  <2>2. L = s.live
    BY DEF Sound
  <2> HIDE DEF L
  <2>3. Sound(s, L)
    BY DEF L
  <2> QED BY <2>1, <2>2, <2>3, SoundLate
<1> HIDE DEF L, G
<1>5. \/ Forgets(r, s, L, G) \/ Forgets(r, s, L, G \cup {Extension}) \/ Gets(r, s, L, G)
  BY <1>1, <1>2, <1>3, MonitorsOutcomes
<1>6. ASSUME NEW H \in {G, G \cup {Extension}}, Forgets(r, s, L, H)
      PROVE  Lands(r, "workspaces")
  <2>1. CASE Lost(r.state, s)
    BY <1>1, <2>1, LandsLost
  <2>2. ASSUME NEW d \in Seq({Unset}), NEW l \in SUBSET Forgotten(s, Len(d)), NEW g \in SUBSET Findings,
               Beside(r.state, s, d), Has(r.state, L \cup l, H \cup g, {})
        PROVE  Lands(r, "workspaces")
    <3>1. Fails(r, s, d, L \cup l, H \cup g, {})
      BY <1>6, <2>2 DEF Forgets, Fails
    <3>2. \A o \in g \cup {Extension} :
            o \notin {Config, X, Ewmh, Window, ButtonState, Modifiers, WorkspaceList, MonitorList, Helper}
      <4>1. \A o \in g : o[1] \in {"monitors", "randr_monitors", "rects", "monitor", "randr_monitor"}
        BY Kinds
      <4> QED BY <4>1, Kinds
    <3>3. /\ {Config, X, Ewmh, Window, ButtonState} \subseteq H \cup g
          /\ Modifiers \in H \cup g <=> Modifiers \in s.live
          /\ (H \cup g) \cap {WorkspaceList, MonitorList} = {} /\ Helper \notin H \cup g
      BY <1>4, <3>2
    <3>4. Owned(H \cup g, d) = L
      <4> DEFINE K == H \cup g
      <4>1. /\ {Config, X, Ewmh, Window, ButtonState} \subseteq K
            /\ Modifiers \in K <=> Modifiers \in s.live
            /\ K \cap {WorkspaceList, MonitorList} = {}
        BY <3>3
      <4> HIDE DEF K
      <4>2. Owned(K, d) = Hinted \cup ButtonsOwned(K)
        BY <4>1, OwnedLate
      <4>3. Hinted \cup ButtonsOwned(K) = L
        BY <4>1, ButtonedOwned DEF L
      <4> QED BY <4>2, <4>3 DEF K
    <3> DEFINE K == H \cup g
               M == L \cup l
    <3>5. /\ Owned(K, d) \subseteq M
          /\ M \subseteq Owned(K, d) \cup Served(K) \cup Loose
                           \cup (IF MonitorList \in K THEN {} ELSE Forgotten(s, Len(d)))
      BY <3>3, <3>4
    <3>6. Helper \notin K
      BY <3>3
    <3> HIDE DEF K, M
    <3>7. Fails(r, s, d, M, K, {})
      BY <3>1 DEF K, M
    <3> QED BY <1>1, <3>5, <3>6, <3>7, LandsFailing
  <2> QED BY <1>6, <2>1, <2>2 DEF Forgets
<1>7. CASE Gets(r, s, L, G)
  <2>1. PICK d \in Seq(Int), g \in SUBSET Findings :
          /\ d # <<>> /\ OwnSequence(d)
          /\ Succeeds(r, s, d, L \cup {Extension, Monitors, MonitorList} \cup Screen(Len(d)),
                      G \cup {Extension, MonitorList} \cup g, {})
    BY <1>7 DEF Gets
  <2> DEFINE M == L \cup {Extension, Monitors, MonitorList} \cup Screen(Len(d))
             K == G \cup {Extension, MonitorList} \cup g
  <2>2. r.state.live = M /\ r.state.set = K /\ r.state.offsets = d /\ r.state.shows = <<>>
        /\ r.state.wild = {} /\ r.state.fault = "none"
    BY <1>1, <2>1 DEF Succeeds, Beside, Has
  <2>3. M = Monitored(r.state)
    <3>1. Modifiers \notin {Extension, Monitors, MonitorList} \cup Screen(Len(d))
      BY Kinds
    <3>2. Modifiers \in M <=> Modifiers \in s.live
      <4>1. L = s.live
        BY DEF L, Sound
      <4> QED BY <3>1, <4>1
    <3>3. Buttoned(r.state) = L
      BY <2>2, <3>2 DEF Buttoned, L
    <3> QED BY <2>2, <3>3 DEF Monitored, MonitorsOwned
  <2>4. K \ Unread = M \ Unread
    <3>1. G \ Unread = L \ Unread
      BY DEF Sound, L, G
    <3>2. Findings \subseteq Unread /\ Monitors \in Unread /\ Screen(Len(d)) \subseteq Unread
      BY DEF Findings, Unread, Screen
    <3> HIDE DEF Unread
    <3> QED BY <3>1, <3>2
  <2>5. Sound(r.state, Monitored(r.state))
    BY <2>2, <2>3, <2>4 DEF Sound
  <2>6. Placed(r.state)
    BY <2>1, <2>2 DEF Placed
  <2>7. Stage("workspaces", r.state)
    BY <2>2, <2>5, <2>6 DEF Stage
  <2> HIDE DEF K, M
  <2>8. Succeeds(r, s, d, M, K, {})
    BY <2>1 DEF K, M
  <2> QED BY <1>1, <2>7, <2>8, LandsWell
<1> QED BY <1>5, <1>6, <1>7

\* The workspaces go to the monitors in their order, and the names fit.
LEMMA AttachedTidy ==
  ASSUME SetupAssumption, NEW s, Shaped(s), Placed(s), NEW names \in Names
  PROVE  LET t == Attached(s, names)
         IN  Shaped(t) /\ Showing(t) /\ Tidy(t) /\ t.offsets = s.offsets
<1> DEFINE t == Attached(s, names)
           n == Covered(s)
           p == Positions(names)[WorkspaceCount]
           shows == [k \in 1 .. Len(s.offsets) |->
                       IF Len(s.offsets) + 1 - k <= n THEN Len(s.offsets) + 1 - k - 1 ELSE NULL]
           a == [s EXCEPT !.shows = shows, !.visible = 0 .. n - 1, !.focused = {0}, !.activeIndex = 0]
<1>1. p \in 0 .. NameMax * WorkspaceCount + WorkspaceCount
  BY NamesBounded
<1>2. n > 0
  <2>1. Len(s.offsets) \in Nat \ {0} /\ WorkspaceCount \in Nat \ {0}
    BY DEF Placed, SetupAssumption
  <2> QED BY <2>1 DEF Covered
<1>3. AttachToMonitors(s) = a
  <2>1. ASSUME NEW k \in Found(s)
        PROVE  At(s, k) = Len(s.offsets) + 1 - k /\ At(s, k) - 1 = Len(s.offsets) + 1 - k - 1
    <3>1. Len(s.offsets) \in Nat /\ k \in Nat
      BY DEF Placed, Found
    <3>2. \A l, m \in Nat : (l + 1 - m) - 1 = l + 1 - m - 1
      OBVIOUS
    <3> QED BY <3>1, <3>2, Zenon DEF At
  <2> DEFINE before(k) == IF Len(s.offsets) + 1 - k <= n THEN Len(s.offsets) + 1 - k - 1 ELSE NULL
             here(k) == IF At(s, k) <= n THEN At(s, k) - 1 ELSE NULL
  <2>2. \A k \in Found(s) : before(k) = here(k)
    BY <2>1, Zenon
  <2>3. shows = [k \in Found(s) |-> before(k)]
    BY Zenon DEF Found
  <2>4. [k \in Found(s) |-> before(k)] = [k \in Found(s) |-> here(k)]
    <3> HIDE DEF before, here
    <3> QED BY <2>2
  <2>5. shows = [k \in Found(s) |-> IF At(s, k) <= n THEN At(s, k) - 1 ELSE NULL]
    BY <2>3, <2>4, Zenon
  <2> HIDE DEF shows
  <2>6. AttachToMonitors(s) =
          [s EXCEPT !.shows = shows, !.visible = 0 .. n - 1,
                    !.focused = IF n > 0 THEN {0} ELSE {},
                    !.activeIndex = IF n > 0 THEN 0 ELSE NULL]
    BY <2>5 DEF AttachToMonitors, Covered
  <2> HIDE DEF n
  <2> QED BY <1>2, <2>6
<1> HIDE DEF p, shows, n
<1>4. t = [a EXCEPT !.written = p]
  BY <1>3 DEF Attached, UpdateDesktopNames, p
<1>5. /\ DOMAIN t = Fields /\ t.extension = s.extension /\ t.outputs = s.outputs
      /\ t.offsets = s.offsets /\ t.written = p /\ t.shows = shows /\ t.visible = 0 .. n - 1
      /\ t.focused = {0} /\ t.activeIndex = 0
  <2>1. DOMAIN s = Fields
    BY DEF Shaped
  <2> HIDE DEF t
  <2> QED BY <1>4, <2>1 DEF Fields
<1> HIDE DEF t
<1>6. Shaped(t)
  BY <1>5 DEF Shaped
<1>7. Covered(t) = n
  BY <1>5 DEF Covered, n
<1>8. Placed(t)
  BY <1>5 DEF Placed
<1>9. t.shows = [k \in 1 .. Len(t.offsets) |->
                   IF Len(t.offsets) + 1 - k <= n THEN Len(t.offsets) + 1 - k - 1 ELSE NULL]
  BY <1>5 DEF shows
<1>10. Showing(t)
  <2> HIDE DEF Covered, Placed
  <2> QED BY <1>5, <1>7, <1>8, <1>9, Zenon DEF Showing
<1>11. Tidy(t)
  BY <1>1, <1>5, <1>10 DEF Tidy
<1> QED BY <1>5, <1>6, <1>10, <1>11 DEF t

\* What natwm has besides its monitors and its workspaces.
LEMMA MonitoredKinds ==
  ASSUME NEW s
  PROVE  /\ \A o \in Monitored(s) : o[1] \in {"state", "config", "xcb", "ewmh", "ewmh_supporting_window",
              "button_state", "modifiers", "extension", "monitors", "monitor_list", "monitor"}
         /\ Hinted \cup {ButtonState} \subseteq Monitored(s) /\ MonitorList \in Monitored(s)
<1>1. \A o \in MonitorsOwned(s.offsets) : o[1] \in {"extension", "monitors", "monitor_list", "monitor"}
  BY Kinds DEF MonitorsOwned
<1>2. MonitorList \in MonitorsOwned(s.offsets)
  BY DEF MonitorsOwned
<1> HIDE DEF Buttoned, MonitorsOwned
<1> QED BY <1>1, <1>2, ButtonedKinds DEF Monitored

\* And besides its theme.
LEMMA SpacedKinds ==
  ASSUME NEW s
  PROVE  /\ \A o \in Spaced(s) : o[1] \in {"state", "config", "xcb", "ewmh", "ewmh_supporting_window",
              "button_state", "modifiers", "extension", "monitors", "monitor_list", "monitor",
              "workspace_list", "client_map", "workspaces", "workspace", "clients"}
         /\ Hinted \cup {ButtonState} \subseteq Spaced(s)
         /\ MonitorList \in Spaced(s) /\ WorkspaceList \in Spaced(s) /\ AllSpaces \subseteq Spaced(s)
<1>1. \A o \in Trio : o[1] \in {"workspace_list", "client_map", "workspaces"}
  BY Kinds DEF Trio
<1>2. WorkspaceList \in Trio
  BY DEF Trio
<1>3. \A o \in AllSpaces : o[1] \in {"workspace", "clients"}
  BY Kinds
<1> HIDE DEF Monitored, AllSpaces, Trio
<1> QED BY <1>1, <1>2, <1>3, MonitoredKinds DEF Spaced

\* A list that is not kept is not returned.
LEMMA MonitoredOwned ==
  ASSUME NEW s, NEW G, {Config, X, Ewmh, Window, ButtonState, MonitorList} \subseteq G,
         Modifiers \in G <=> Modifiers \in s.live, WorkspaceList \notin G
  PROVE  Owned(G, s.offsets) = Monitored(s)
<1>1. Owned(G, s.offsets) = Hinted \cup ButtonsOwned(G) \cup MonitorsOwned(s.offsets)
  BY OwnedLate
<1>2. Hinted \cup ButtonsOwned(G) = Buttoned(s)
  BY ButtonedOwned
<1> QED BY <1>1, <1>2 DEF Monitored

\* workspace_list_init: the list is not set if it fails.
LEMMA WorkspacesLands ==
  ASSUME SetupAssumption, NEW s, Shaped(s), Tidy(s), Placed(s), s.shows = <<>>,
         Sound(s, Monitored(s)), NEW r \in WorkspaceListInit(s)
  PROVE  Lands(r, "theme")
<1> DEFINE G == s.set
           L == Monitored(s)
           d == s.offsets
<1>1. Beside(s, s, d) /\ Has(s, L, G, {}) /\ DOMAIN s = Fields /\ d \in Seq(Int) /\ d # <<>>
  BY BesideSelf DEF Sound, Has, Placed, Shaped
<1>2. \A o \in L : o[1] \in {"state", "config", "xcb", "ewmh", "ewmh_supporting_window",
              "button_state", "modifiers", "extension", "monitors", "monitor_list", "monitor"}
  BY MonitoredKinds
<1>3. Hinted \cup {ButtonState} \subseteq L /\ MonitorList \in L /\ Config \in L
  BY MonitoredKinds DEF Hinted, Connected
<1>4. Sound(s, L) /\ L = s.live
  BY DEF Sound
<1> HIDE DEF L
<1>5. /\ L \cap (Trio \cup AllSpaces) = {}
      /\ WorkspaceList \notin L /\ ThemePart \notin L /\ Helper \notin L
      /\ \A i : Client(i) \notin L /\ Workspace(i) \notin L
  <2>1. \A o \in Trio : o[1] \in {"workspace_list", "client_map", "workspaces"}
    BY Kinds DEF Trio
  <2> QED BY <1>2, <2>1, Kinds
<1>6. /\ {Config, X, Ewmh, Window, ButtonState, MonitorList} \subseteq G
      /\ Modifiers \in G <=> Modifiers \in s.live
      /\ WorkspaceList \notin G /\ ThemePart \notin G /\ Helper \notin G
      /\ \A i : Client(i) \notin G /\ Workspace(i) \notin G
  BY <1>3, <1>4, <1>5, SoundLate
<1> HIDE DEF G
<1>7. \/ \E g \in SUBSET (AllSpaces \cup {ClientMap, WorkspaceArray}) : Fails(r, s, d, L, G \cup g, {})
      \/ \E names \in Names :
           Succeeds(r, Attached(s, names), d, L \cup Trio \cup AllSpaces, G \cup Trio \cup AllSpaces, {})
  BY <1>1, <1>3, <1>5, <1>6, ListInitOutcomes
<1>8. ASSUME NEW g \in SUBSET (AllSpaces \cup {ClientMap, WorkspaceArray}), Fails(r, s, d, L, G \cup g, {})
      PROVE  Lands(r, "theme")
  <2> DEFINE K == G \cup g
  <2>1. \A o \in g : o \notin {WorkspaceList, Modifiers, Helper}
    <3>1. \A o \in AllSpaces \cup {ClientMap, WorkspaceArray} :
            o[1] \in {"workspace", "clients", "client_map", "workspaces"}
      BY Kinds
    <3> QED BY <1>8, <3>1, Kinds
  <2>2. /\ {Config, X, Ewmh, Window, ButtonState, MonitorList} \subseteq K
        /\ Modifiers \in K <=> Modifiers \in s.live
        /\ WorkspaceList \notin K /\ Helper \notin K
    BY <1>6, <2>1
  <2> HIDE DEF K
  <2>3. Owned(K, d) = L
    BY <2>2, MonitoredOwned DEF L
  <2>4. Fails(r, s, d, L, K, {})
    BY <1>8 DEF K
  <2> HIDE DEF d
  <2>5. s.shows = <<>> \/ d = s.offsets
    OBVIOUS
  <2> QED BY <2>2, <2>3, <2>4, <2>5, LandsFailing
<1>9. ASSUME NEW names \in Names,
             Succeeds(r, Attached(s, names), d, L \cup Trio \cup AllSpaces, G \cup Trio \cup AllSpaces, {})
      PROVE  Lands(r, "theme")
  <2> DEFINE t == Attached(s, names)
             os == Trio \cup AllSpaces
             M == L \cup os
  <2>1. Shaped(t) /\ Showing(t) /\ Tidy(t) /\ t.offsets = d
    BY AttachedTidy
  <2> HIDE DEF t, os
  <2>2. Succeeds(r, t, t.offsets, M, G \cup os, {})
    <3>1. L \cup Trio \cup AllSpaces = M /\ G \cup Trio \cup AllSpaces = G \cup os
      BY DEF os
    <3> QED BY <1>9, <2>1, <3>1 DEF t
  <2>3. Showing(r.state) /\ r.state.offsets = d
    BY <2>1, <2>2, BesideShows DEF Succeeds, Beside
  <2>4. Sound(r.state, M)
    BY <1>4, <2>2, SoundMore DEF Succeeds, G
  <2>5. M = Spaced(r.state)
    <3>1. \A o \in os : o # Modifiers
      <4>1. \A o \in Trio : o # Modifiers
        BY Kinds DEF Trio
      <4>2. \A o \in AllSpaces : o # Modifiers
        BY Kinds
      <4> QED BY <4>1, <4>2 DEF os
    <3>2. r.state.live = L \cup os
      BY <2>4 DEF Sound
    <3>3. Modifiers \in r.state.live <=> Modifiers \in s.live
      BY <1>4, <3>1, <3>2
    <3>4. Buttoned(r.state) = Buttoned(s)
      BY <3>3 DEF Buttoned
    <3>5. Monitored(r.state) = L
      BY <2>3, <3>4 DEF Monitored, L
    <3> QED BY <3>5 DEF Spaced, os
  <2>6. Stage("theme", r.state)
    BY <2>3, <2>4, <2>5 DEF Stage
  <2> QED BY <2>1, <2>2, <2>6, LandsWell
<1> QED BY <1>7, <1>8, <1>9

\* What the list returns without a theme, and with one.
LEMMA SpacedOwned ==
  ASSUME WorkspaceCount \in Nat, NEW s, NEW G,
         {Config, X, Ewmh, Window, ButtonState, MonitorList, WorkspaceList} \cup AllSpaces \subseteq G,
         Modifiers \in G <=> Modifiers \in s.live
  PROVE  /\ ThemePart \notin G => Owned(G, s.offsets) = Spaced(s) \cup (Clients \cap G)
         /\ ThemeThings \subseteq G =>
              Owned(G, s.offsets) \cup Loose = Spaced(s) \cup ThemeThings \cup (Clients \cap G)
<1>1. Owned(G, s.offsets) = Hinted \cup ButtonsOwned(G) \cup MonitorsOwned(s.offsets) \cup ListOwns(G)
  BY OwnedLate
<1>2. Hinted \cup ButtonsOwned(G) = Buttoned(s)
  BY ButtonedOwned
<1>3. Owned(G, s.offsets) = Monitored(s) \cup ListOwns(G)
  BY <1>1, <1>2 DEF Monitored
<1> HIDE DEF Owned, Monitored, ListOwns, Clients, Loose, ThemeThings, AllSpaces, Trio
<1>4. ASSUME ThemePart \notin G PROVE Owned(G, s.offsets) = Spaced(s) \cup (Clients \cap G)
  <2>1. ListOwns(G) = Trio \cup AllSpaces \cup (Clients \cap G)
    BY <1>4, ListAll
  <2> QED BY <1>3, <2>1 DEF Spaced
<1>5. ASSUME ThemeThings \subseteq G
      PROVE  Owned(G, s.offsets) \cup Loose = Spaced(s) \cup ThemeThings \cup (Clients \cap G)
  <2>1. ListOwns(G) \cup Loose = Trio \cup AllSpaces \cup (Clients \cap G) \cup ThemeThings
    BY <1>5, ListAll
  <2> QED BY <1>3, <2>1 DEF Spaced
<1> QED BY <1>4, <1>5

\* The theme is none of it.
LEMMA ThemeKinds ==
  \A o \in ThemeThings : o[1] \in {"theme", "resize_background_color", "resize_border_color",
                                   "border_width", "color", "color_value"}
BY Kinds DEF ThemeThings

\* Nor are the clients and the helper.
LEMMA PassingKinds == \A o \in Passing : o[1] \in {"resize_helper", "client"}
BY Kinds DEF Passing, Clients

\* With the workspaces, before there is a theme.
LEMMA SpacedReads ==
  ASSUME NEW s, Sound(s, Spaced(s))
  PROVE  /\ s.live = Spaced(s)
         /\ {Config, X, Ewmh, Window, ButtonState, MonitorList, WorkspaceList} \cup AllSpaces \subseteq s.set
         /\ Modifiers \in s.set <=> Modifiers \in s.live
         /\ s.set \cap (ThemeThings \cup Passing) = {}
         /\ s.live \cap (ThemeThings \cup Passing) = {}
<1> DEFINE L == Spaced(s)
<1>1. \A o \in L : o[1] \in {"state", "config", "xcb", "ewmh", "ewmh_supporting_window",
              "button_state", "modifiers", "extension", "monitors", "monitor_list", "monitor",
              "workspace_list", "client_map", "workspaces", "workspace", "clients"}
  BY SpacedKinds
<1>2. /\ Hinted \cup {ButtonState} \subseteq L
      /\ MonitorList \in L /\ WorkspaceList \in L /\ AllSpaces \subseteq L
  BY SpacedKinds
<1>3. Sound(s, L) /\ s.live = L
  BY DEF Sound
<1> HIDE DEF L
<1>4. \A o \in ThemeThings \cup Passing : o \notin L /\ o \notin s.set
  <2>1. \A o \in ThemeThings \cup Passing :
          o[1] \in {"theme", "resize_background_color", "resize_border_color",
                    "border_width", "color", "color_value", "resize_helper", "client"}
    BY ThemeKinds, PassingKinds
  <2>2. \A o \in ThemeThings \cup Passing : o \in s.set <=> o \in L
    BY <1>3, <2>1, SoundReads
  <2> QED BY <1>1, <2>1, <2>2
<1>5. \A o \in AllSpaces : o \in s.set
  <2>1. \A o \in AllSpaces : o[1] \in {"workspace", "clients"}
    BY Kinds
  <2> QED BY <1>2, <1>3, <2>1, SoundReads
<1>6. /\ {Config, X, Ewmh, Window, ButtonState, MonitorList, WorkspaceList} \subseteq s.set
      /\ Modifiers \in s.set <=> Modifiers \in s.live
  BY <1>2, <1>3, SoundLate
<1> QED BY <1>3, <1>4, <1>5, <1>6 DEF L

\* theme_create: it fails with the list as it was, or natwm has crashed.
LEMMA ThemeLands ==
  ASSUME SetupAssumption, NEW s, Shaped(s), Tidy(s), Showing(s), Sound(s, Spaced(s)),
         NEW r \in ThemeCreate(s)
  PROVE  Lands(r, "running")
<1> DEFINE G == s.set
           L == Spaced(s)
           d == s.offsets
<1>0. WorkspaceCount \in Nat
  BY DEF SetupAssumption
<1>1. Beside(s, s, d) /\ Has(s, L, G, {})
  BY BesideSelf DEF Sound, Has
<1>2. /\ s.live = L
      /\ {Config, X, Ewmh, Window, ButtonState, MonitorList, WorkspaceList} \cup AllSpaces \subseteq G
      /\ Modifiers \in G <=> Modifiers \in s.live
      /\ G \cap (ThemeThings \cup Passing) = {}
      /\ L \cap (ThemeThings \cup Passing) = {}
  BY SpacedReads
<1>3. ThemePart \in ThemeThings /\ Bordered \subseteq ThemeThings
  BY DEF ThemeThings
<1>4. ThemePart # Modifiers /\ \A o \in ThemeThings : o # Modifiers
  BY ThemeKinds, Kinds
<1>5. Helper \in Passing /\ Clients \subseteq Passing /\ Passing \cap ThemeThings = {}
  <2>1. Passing \cap ThemeThings = {}
    BY ThemeKinds, PassingKinds
  <2> QED BY <2>1 DEF Passing
<1> HIDE DEF G, L, ThemeThings, Passing, Clients, AllSpaces, Bordered
<1>6. \/ r.ok = FALSE /\ Astray(r.state, s, d)
      \/ \E l, w \in SUBSET {ResizeBackground, ResizeBorder}, g \in SUBSET (ThemeThings \ {ThemePart}) :
           Fails(r, s, d, L \cup l, G \cup g, w)
      \/ Succeeds(r, s, d, L \cup ThemeThings, G \cup ThemeThings, {})
  <2>1. ThemePart \notin L /\ L \cap Bordered = {} /\ G \cap Bordered = {}
    BY <1>2, <1>3
  <2> HIDE DEF d
  <2> QED BY <1>1, <2>1, ThemeOutcomes
<1>7. CASE r.ok = FALSE /\ Astray(r.state, s, d)
  <2>1. Shaped(r.state) /\ Tidy(r.state)
    BY <1>7, BesideKeeps DEF Astray
  <2>2. Onward(r, "running") = "crashed" /\ Crashed(r.state)
    BY <1>7 DEF Astray, Onward, Faulted, Crashed
  <2> QED BY <2>1, <2>2 DEF Lands, Stage
<1>8. ASSUME NEW l \in SUBSET {ResizeBackground, ResizeBorder},
             NEW w \in SUBSET {ResizeBackground, ResizeBorder},
             NEW g \in SUBSET (ThemeThings \ {ThemePart}), Fails(r, s, d, L \cup l, G \cup g, w)
      PROVE  Lands(r, "running")
  <2> DEFINE K == G \cup g
             M == L \cup l
  <2>1. /\ {Config, X, Ewmh, Window, ButtonState, MonitorList, WorkspaceList} \cup AllSpaces \subseteq K
        /\ Modifiers \in K <=> Modifiers \in s.live
        /\ ThemePart \notin K /\ Clients \cap K = {} /\ Helper \notin K
    BY <1>2, <1>3, <1>4, <1>5, <1>8
  <2> HIDE DEF K
  <2>2. Owned(K, d) = L
    <3>1. Owned(K, d) = Spaced(s) \cup (Clients \cap K)
      BY <1>0, <2>1, SpacedOwned
    <3> QED BY <2>1, <3>1 DEF L
  <2>3. w \subseteq Loose /\ l \subseteq Loose
    BY <1>8 DEF Loose
  <2>4. /\ Owned(K, d) \subseteq M
        /\ M \subseteq Owned(K, d) \cup Served(K) \cup Loose
                         \cup (IF MonitorList \in K THEN {} ELSE Forgotten(s, Len(d)))
    BY <2>2, <2>3
  <2> HIDE DEF M
  <2>5. Fails(r, s, d, M, K, w)
    BY <1>8 DEF K, M
  <2> HIDE DEF d
  <2>6. s.shows = <<>> \/ d = s.offsets
    BY DEF d
  <2> QED BY <2>1, <2>3, <2>4, <2>5, <2>6, LandsFailing
<1>9. CASE Succeeds(r, s, d, L \cup ThemeThings, G \cup ThemeThings, {})
  <2>1. Showing(r.state) /\ r.state.offsets = d
    BY <1>9, BesideShows DEF Succeeds, Beside
  <2>2. Sound(r.state, L \cup ThemeThings)
    <3>1. Sound(s, L)
      BY DEF L
    <3> QED BY <1>9, <3>1, SoundMore DEF Succeeds, G
  <2>3. r.state.live = L \cup ThemeThings
    BY <2>2 DEF Sound
  <2>4. L \cup ThemeThings = Running(r.state)
    <3>1. Modifiers \in r.state.live <=> Modifiers \in s.live
      BY <1>2, <1>4, <2>3
    <3>2. Buttoned(r.state) = Buttoned(s)
      BY <3>1 DEF Buttoned
    <3>3. Spaced(r.state) = L
      BY <2>1, <3>2 DEF Spaced, Monitored, L
    <3>4. Passing \cap r.state.live = {}
      BY <1>2, <1>5, <2>3
    <3> QED BY <3>3, <3>4 DEF Running
  <2>5. Stage("running", r.state)
    BY <2>1, <2>2, <2>4 DEF Stage
  <2> QED BY <1>9, <2>5, LandsWell
<1> QED BY <1>6, <1>7, <1>8, <1>9

\* What natwm reads while it runs is there, and so is what it returns at the end.
LEMMA RunningReads ==
  ASSUME WorkspaceCount \in Nat, NEW s, Sound(s, Running(s))
  PROVE  /\ {X, ThemePart, BorderWidth, Color, ResizeBackground, ResizeBorder} \subseteq s.live
         /\ Closable(s)
<1> DEFINE G == s.set
           L == Running(s)
           A == Spaced(s) \cup ThemeThings
<1>1. L = s.live /\ s.wild = {} /\ s.fault = "none" /\ Sound(s, L)
  BY DEF Sound
<1>2. A \subseteq L
  BY DEF Running
<1>3. /\ Hinted \cup {ButtonState} \subseteq A
      /\ MonitorList \in A /\ WorkspaceList \in A /\ AllSpaces \subseteq A
  BY SpacedKinds
<1>4. {ThemePart, BorderWidth, Color, ResizeBackground, ResizeBorder} \subseteq A /\ ThemeThings \subseteq A
  BY DEF ThemeThings, Bordered
<1>5. X \in A
  BY <1>3 DEF Hinted, Connected
<1>6. \A o \in AllSpaces \cup ThemeThings \cup Passing : o \in G <=> o \in L
  <2>1. \A o \in AllSpaces \cup ThemeThings \cup Passing :
          o[1] \in {"workspace", "clients", "theme", "resize_background_color", "resize_border_color",
                    "border_width", "color", "color_value", "resize_helper", "client"}
    BY Kinds, ThemeKinds, PassingKinds
  <2> HIDE DEF L, AllSpaces, ThemeThings, Passing
  <2> QED BY <1>1, <2>1, SoundReads
<1>7. L = A \cup (Passing \cap s.live)
  BY DEF Running
<1> HIDE DEF A, L
<1>8. /\ {Config, X, Ewmh, Window, ButtonState, MonitorList, WorkspaceList} \subseteq G
      /\ Modifiers \in G <=> Modifiers \in s.live
  <2>1. Hinted \cup {ButtonState} \subseteq L /\ MonitorList \in L /\ WorkspaceList \in L
    BY <1>2, <1>3
  <2> QED BY <1>1, <2>1, SoundLate
<1>9. AllSpaces \subseteq G /\ ThemeThings \subseteq G
  BY <1>2, <1>3, <1>4, <1>6
<1>10. Owned(G, s.offsets) \cup Loose = A \cup (Clients \cap G)
  <2> HIDE DEF G, Owned, Loose, Clients, AllSpaces, ThemeThings
  <2> QED BY <1>8, <1>9, SpacedOwned DEF A
<1>11. Clients \cap G = Clients \cap L /\ Passing = {Helper} \cup Clients
  BY <1>6 DEF Passing
<1>12. Served(G) = {Window, Helper}
  BY <1>8 DEF Served
<1>13. Closable(s)
  <2>1. Owned(G, s.offsets) \subseteq s.live
    BY <1>1, <1>2, <1>10, <1>11
  <2>2. s.live \subseteq Owned(G, s.offsets) \cup Served(G) \cup Loose
    BY <1>1, <1>7, <1>10, <1>11, <1>12
  <2> HIDE DEF Owned, Served, Loose, Forgotten
  <2> QED BY <1>1, <1>8, <2>1, <2>2 DEF Closable
<1> QED BY <1>1, <1>2, <1>4, <1>5, <1>13

\* A client or the helper comes or goes.
LEMMA RunningChange ==
  ASSUME NEW s, Sound(s, Running(s)), NEW o \in Passing, NEW t, Beside(t, s, s.offsets),
         \/ Has(t, s.live \cup {o}, s.set \cup {o}, {})
         \/ Has(t, s.live \ {o}, s.set \ {o}, {})
  PROVE  Sound(t, Running(t))
<1> DEFINE A == Spaced(s) \cup ThemeThings
<1>1. o \notin A /\ o # Modifiers
  <2>1. \A q \in Spaced(s) : q[1] \in {"state", "config", "xcb", "ewmh", "ewmh_supporting_window",
              "button_state", "modifiers", "extension", "monitors", "monitor_list", "monitor",
              "workspace_list", "client_map", "workspaces", "workspace", "clients"}
    BY SpacedKinds
  <2> QED BY <2>1, ThemeKinds, PassingKinds, Kinds
<1>2. s.live = A \cup (Passing \cap s.live) /\ s.set \ Unread = s.live \ Unread
  BY DEF Sound, Running
<1>3. Spaced(t) = Spaced(s)
  <2>1. Modifiers \in t.live <=> Modifiers \in s.live
    BY <1>1 DEF Has
  <2>2. Buttoned(t) = Buttoned(s)
    BY <2>1 DEF Buttoned
  <2> QED BY <2>2 DEF Spaced, Monitored, Beside
<1> HIDE DEF A, Passing, Unread
<1>4. Running(t) = A \cup (Passing \cap t.live)
  BY <1>3 DEF Running, A
<1>5. t.live = A \cup (Passing \cap t.live)
  BY <1>1, <1>2 DEF Has
<1>6. t.set \ Unread = t.live \ Unread
  BY <1>2 DEF Has
<1> QED BY <1>4, <1>5, <1>6 DEF Sound, Has

\* natwm_state_destroy, wherever main came from.
LEMMA DestroyGone ==
  ASSUME SetupAssumption, NEW s, Shaped(s), Tidy(s), Closable(s)
  PROVE  LET t == StateDestroy(s)
         IN  Shaped(t) /\ Tidy(t) /\ Gone(t)
<1> DEFINE t == StateDestroy(s)
           G == s.set
           d == s.offsets
           K == s.live \ (Owned(G, d) \cup Served(G))
<1>1. WorkspaceCount \in Nat
  BY DEF SetupAssumption
<1>2. Beside(s, s, d) /\ Has(s, s.live, G, s.wild)
  BY BesideSelf DEF Closable, Has
<1>3. s.wild \subseteq Loose /\ Owned(G, d) \subseteq s.live /\ (Helper \in G => X \in G)
  BY DEF Closable
<1>4. Beside(t, s, d) /\ Has(t, K, G, s.wild)
  <2> HIDE DEF G, d
  <2> QED BY <1>1, <1>2, <1>3, StateDestroyHas
<1> HIDE DEF t
<1>5. Shaped(t) /\ Tidy(t)
  BY <1>4, BesideKeeps
<1>6. Forgotten(t, Len(d)) = Forgotten(s, Len(d))
  BY <1>4, ActiveHas DEF Forgotten
<1>7. K \subseteq Loose \cup (IF MonitorList \in G THEN {} ELSE Forgotten(s, Len(d)))
  <2> HIDE DEF Owned, Served, Loose, Forgotten
  <2> QED BY DEF Closable
<1>8. t.offsets = d /\ t.live = K /\ t.set = G /\ t.fault = "none"
  BY <1>4 DEF Beside, Has
<1> HIDE DEF K
<1>9. Gone(t)
  <2> HIDE DEF Loose, Forgotten
  <2> QED BY <1>6, <1>7, <1>8 DEF Gone
<1> QED BY <1>5, <1>9 DEF t

-----------------------------------------------------------------------------
(* The theorems *)

\* The way begins with the state alone.
LEMMA InitInv == SetupAssumption /\ Init => SetupInv
<1> SUFFICES ASSUME SetupAssumption, Init PROVE SetupInv
  OBVIOUS
<1>1. PICK e \in Extensions, o \in Outputs, n \in Entries :
        state = [live |-> {State}, set |-> {State}, wild |-> {}, fault |-> "none",
                 screenNum |-> 0, screen |-> 0, lost |-> FALSE, extension |-> e, outputs |-> o, entries |-> n,
                 offsets |-> <<>>, activeIndex |-> NULL, focused |-> {}, visible |-> {}, shows |-> <<>>,
                 written |-> 0]
  BY DEF Init
<1>2. DOMAIN state = Fields
  BY <1>1 DEF Fields
<1>3. Shaped(state)
  BY <1>1, <1>2 DEF Shaped, SetupAssumption
<1>4. 0 <= NameMax * WorkspaceCount + WorkspaceCount
  <2>1. NameMax \in Nat /\ WorkspaceCount \in Nat
    BY DEF SetupAssumption
  <2>2. NameMax * WorkspaceCount \in Nat
    BY <2>1
  <2> QED BY <2>1, <2>2
<1>5. Tidy(state)
  BY <1>1, <1>4 DEF Tidy
<1>6. Untouched(state) /\ Sound(state, {State})
  BY <1>1 DEF Untouched, Sound
<1>7. Stage(pc, state)
  BY <1>6 DEF Init, Stage
<1> QED BY <1>3, <1>5, <1>7 DEF SetupInv

\* A call of main that can only land where it should.
LEMMA CallLands ==
  ASSUME NEW from, NEW outcomes, NEW to, Call(from, outcomes, to),
         \A r \in outcomes : Lands(r, to)
  PROVE  SetupInv'
<1>1. PICK r \in outcomes : state' = r.state /\ pc' = Onward(r, to)
  BY DEF Call, Onward
<1> QED BY <1>1 DEF Lands, SetupInv

\* Each step of main leads to a stage.
LEMMA NextInv == SetupAssumption /\ SetupInv /\ [Next]_vars => SetupInv'
<1> SUFFICES ASSUME SetupAssumption, SetupInv, [Next]_vars PROVE SetupInv'
  OBVIOUS
<1>0. Shaped(state) /\ Tidy(state) /\ Stage(pc, state) /\ WorkspaceCount \in Nat
  BY DEF SetupInv, SetupAssumption
<1>1. CASE ReadConfig
  <2>1. Untouched(state) /\ Sound(state, {State})
    BY <1>0, <1>1 DEF ReadConfig, Call, Stage
  <2>2. \A r \in ConfigInitializePath(state) : Lands(r, "connect")
    BY <1>0, <2>1, ConfigLands
  <2> QED BY <1>1, <2>2, CallLands DEF ReadConfig
<1>2. CASE Connect
  <2> DEFINE outcomes == Then(MakeConnection(state), LAMBDA s : {Done(t) : t \in FindDefaultScreen(s)})
  <2>1. Untouched(state) /\ Sound(state, {State, Config})
    BY <1>0, <1>2 DEF Connect, Call, Stage
  <2>2. \A r \in outcomes : Lands(r, "subscribe")
    BY <1>0, <2>1, ConnectLands
  <2>3. Call("connect", outcomes, "subscribe")
    BY <1>2 DEF Connect
  <2> HIDE DEF outcomes
  <2> QED BY <2>2, <2>3, CallLands
<1>3. CASE Register
  <2>1. Untouched(state) /\ Sound(state, Connected)
    BY <1>0, <1>3 DEF Register, Call, Stage
  <2>2. \A r \in Subscribe(state) : Lands(r, "ewmh")
    BY <1>0, <2>1, SubscribeLands
  <2> QED BY <1>3, <2>2, CallLands DEF Register
<1>4. CASE Hints
  <2>1. Untouched(state) /\ Sound(state, Connected)
    BY <1>0, <1>4 DEF Hints, Call, Stage
  <2>2. \A r \in EwmhCreate(state) : Lands(r, "buttons")
    BY <1>0, <2>1, EwmhLands
  <2> QED BY <1>4, <2>2, CallLands DEF Hints
<1>5. CASE SetButtons
  <2>1. Untouched(state) /\ Sound(state, Hinted)
    BY <1>0, <1>5 DEF SetButtons, Call, Stage
  <2>2. \A r \in ButtonStateCreate(state) : Lands(r, "monitors")
    BY <1>0, <2>1, ButtonsLands
  <2> QED BY <1>5, <2>2, CallLands DEF SetButtons
<1>6. CASE FindMonitors
  <2>1. Untouched(state) /\ Sound(state, Buttoned(state))
    BY <1>0, <1>6 DEF FindMonitors, Call, Stage
  <2>2. \A r \in MonitorSetup(state) : Lands(r, "workspaces")
    BY <1>0, <2>1, MonitorsLands
  <2> QED BY <1>6, <2>2, CallLands DEF FindMonitors
<1>7. CASE SetupWorkspaces
  <2>1. Placed(state) /\ state.shows = <<>> /\ Sound(state, Monitored(state))
    BY <1>0, <1>7 DEF SetupWorkspaces, Call, Stage
  <2>2. \A r \in WorkspaceListInit(state) : Lands(r, "theme")
    BY <1>0, <2>1, WorkspacesLands
  <2> QED BY <1>7, <2>2, CallLands DEF SetupWorkspaces
<1>8. CASE LoadTheme
  <2>1. Showing(state) /\ Sound(state, Spaced(state))
    BY <1>0, <1>8 DEF LoadTheme, Call, Stage
  <2>2. \A r \in ThemeCreate(state) : Lands(r, "running")
    BY <1>0, <2>1, ThemeLands
  <2> QED BY <1>8, <2>2, CallLands DEF LoadTheme
<1>9. ASSUME pc = "running"
      PROVE  /\ Showing(state) /\ Sound(state, Running(state))
             /\ Has(state, state.live, state.set, {}) /\ Beside(state, state, state.offsets)
             /\ {X, ThemePart, BorderWidth, Color, ResizeBackground, ResizeBorder} \subseteq state.live
             /\ Closable(state)
  <2>1. Showing(state) /\ Sound(state, Running(state))
    BY <1>0, <1>9 DEF Stage
  <2> QED BY <1>0, <2>1, RunningReads, BesideSelf DEF Sound, Has
<1>10. ASSUME pc = "running", pc' = pc, NEW o \in Passing, Beside(state', state, state.offsets),
              \/ Has(state', state.live \cup {o}, state.set \cup {o}, {})
              \/ Has(state', state.live \ {o}, state.set \ {o}, {})
       PROVE  SetupInv'
  <2>1. Sound(state', Running(state'))
    BY <1>9, <1>10, RunningChange
  <2>2. Shaped(state') /\ Tidy(state') /\ Showing(state')
    BY <1>0, <1>9, <1>10, BesideKeeps, BesideShows
  <2> QED BY <1>10, <2>1, <2>2 DEF SetupInv, Stage
<1>11. CASE AddClient
  <2>1. PICK i \in Workspaces :
          state' = Assign([Themed(state) EXCEPT !.live = @ \cup {Client(i)}], Client(i))
    BY <1>11 DEF AddClient
  <2>2. Themed(state) = state
    BY <1>9, <1>11, UseHas DEF AddClient, Themed
  <2>3. Beside(state', state, state.offsets)
        /\ Has(state', state.live \cup {Client(i)}, state.set \cup {Client(i)}, {})
    BY <1>9, <1>11, <2>1, <2>2 DEF AddClient, Assign, Beside, Fields, Has
  <2>4. Client(i) \in Passing
    BY DEF Passing, Clients
  <2> QED BY <1>10, <1>11, <2>3, <2>4 DEF AddClient
<1>12. CASE RemoveClient
  <2>1. PICK i \in Workspaces : /\ Client(i) \in state.live
                                /\ state' = [Free(state, Client(i)) EXCEPT !.set = @ \ {Client(i)}]
    BY <1>12 DEF RemoveClient
  <2>2. Beside(state', state, state.offsets)
        /\ Has(state', state.live \ {Client(i)}, state.set \ {Client(i)}, {})
    BY <1>9, <1>12, <2>1 DEF RemoveClient, Free, Beside, Fields, Has
  <2>3. Client(i) \in Passing
    BY DEF Passing, Clients
  <2> QED BY <1>10, <1>12, <2>2, <2>3 DEF RemoveClient
<1>13. CASE ShowHelper
  <2>1. Use(Use(Use(state, X), ResizeBackground), ResizeBorder) = state
    BY <1>9, <1>13, UseHas DEF ShowHelper
  <2>2. state' = Assign([state EXCEPT !.live = @ \cup {Helper}], Helper)
    BY <1>13, <2>1 DEF ShowHelper
  <2>3. Beside(state', state, state.offsets)
        /\ Has(state', state.live \cup {Helper}, state.set \cup {Helper}, {})
    BY <1>9, <1>13, <2>2 DEF ShowHelper, Assign, Beside, Fields, Has
  <2>4. Helper \in Passing
    BY DEF Passing
  <2> QED BY <1>10, <1>13, <2>3, <2>4 DEF ShowHelper
<1>14. CASE Stop
  <2>1. pc' \in {"closing", "free_and_error"} /\ state' = state /\ Closable(state)
    BY <1>9, <1>14 DEF Stop
  <2> QED BY <1>0, <2>1 DEF SetupInv, Stage
<1>15. CASE Destroy
  <2>1. Closable(state)
    BY <1>0, <1>15 DEF Destroy, Stage
  <2>2. state' = StateDestroy(state)
    BY <1>15 DEF Destroy
  <2>3. Shaped(state') /\ Tidy(state') /\ Gone(state')
    BY <1>0, <2>1, <2>2, DestroyGone
  <2>4. pc' = "exited"
    BY <1>15, <2>3 DEF Destroy, Faulted, Gone
  <2> QED BY <2>3, <2>4 DEF SetupInv, Stage
<1>16. CASE UNCHANGED vars
  BY <1>0, <1>16 DEF vars, SetupInv
<1> QED BY <1>1, <1>2, <1>3, <1>4, <1>5, <1>6, <1>7, <1>8, <1>11, <1>12, <1>13, <1>14, <1>15, <1>16
        DEF Next

\* So the invariant holds throughout.
LEMMA Inductive == Spec => []SetupInv
<1>1. Init => SetupInv
  BY InitInv, SetupAssumption
<1>2. SetupInv /\ [Next]_vars => SetupInv'
  BY NextInv, SetupAssumption
<1> QED BY <1>1, <1>2, PTL DEF Spec

\* Whichever call of main fails, and wherever in it, no pointer is followed on
\* the way back that does not point to what it should; the one exception are
\* the two that theme_create leaves unset (natwm_state_destroy, theme_destroy).
THEOREM OnlyWild == Spec => []OnlyThemeIsWild
<1>1. SetupInv => OnlyThemeIsWild
  BY DEF SetupInv, Stage, Sound, Closable, Crashed, Gone, OnlyThemeIsWild
<1> QED BY <1>1, Inductive, PTL

\* Before main returns it has returned all that was allocated, but for the
\* colours of the resize helper, and for what monitor_setup forgets if it fails.
THEOREM AllReturned == Spec => []Returned
<1>1. SetupInv => Returned
  <2> SUFFICES ASSUME SetupInv, pc = "exited"
               PROVE  state.live \ {ResizeBackground, ResizeBorder} \subseteq
                        IF MonitorList \in state.set THEN {}
                        ELSE {Monitors, RandrArray} \cup Listed(state)
                               \cup {RandrMonitor(i) : i \in Active(state)}
    BY DEF Returned
  <2>1. Gone(state)
    BY DEF SetupInv, Stage
  <2>2. Forgotten(state, Len(state.offsets)) =
          {Monitors, RandrArray} \cup Listed(state) \cup {RandrMonitor(i) : i \in Active(state)}
    BY DEF Forgotten, Screen, Listed, Found, RandrThings
  <2> HIDE DEF Forgotten
  <2> QED BY <2>1, <2>2 DEF Gone, Loose
<1> QED BY <1>1, Inductive, PTL

\* However many monitors there are and whatever the configuration says of
\* them, a monitor has the offsets that go with the workspace it shows first
\* (monitor_list_set_offsets, attach_to_monitors).
THEOREM OffsetsOwned == Spec => []OwnOffsets
<1>1. SetupInv => OwnOffsets
  <2> SUFFICES ASSUME SetupInv, state.shows # <<>>, NEW k \in Found(state)
               PROVE  /\ state.offsets[k] \in {Unset, At(state, k)}
                      /\ state.shows[k] \in {NULL, At(state, k) - 1}
    BY DEF OwnOffsets
  <2>1. Showing(state)
    BY DEF SetupInv, Tidy
  <2>2. OwnSequence(state.offsets)
    BY <2>1 DEF Showing, Placed
  <2>3. /\ state.shows = [i \in 1 .. Len(state.offsets) |->
              IF Len(state.offsets) + 1 - i <= Covered(state) THEN Len(state.offsets) + 1 - i - 1 ELSE NULL]
        /\ k \in 1 .. Len(state.offsets)
    BY <2>1 DEF Showing, Found
  <2>4. state.offsets[k] \in {Unset, At(state, k)}
    BY <2>2, <2>3 DEF OwnSequence, At
  <2>5. At(state, k) - 1 = Len(state.offsets) + 1 - k - 1
    <3>1. Len(state.offsets) \in Nat /\ k \in Nat
      BY <2>1, <2>3 DEF Showing, Placed
    <3>2. \A l, n \in Nat : (l + 1 - n) - 1 = l + 1 - n - 1
      OBVIOUS
    <3> QED BY <3>1, <3>2, Zenon DEF At
  <2>6. state.shows[k] \in {NULL, At(state, k) - 1}
    BY <2>3, <2>5
  <2> QED BY <2>4, <2>6
<1> QED BY <1>1, Inductive, PTL

\* Whatever the names of the workspaces, what ewmh_update_desktop_names writes
\* fits into the buffer that it has.
THEOREM NamesWritten == Spec => []NamesFit
<1>1. SetupInv => NamesFit
  BY DEF SetupInv, Tidy, NamesFit
<1> QED BY <1>1, Inductive, PTL

\* What the setup builds is where the desktop starts: natwm shows the first
\* workspaces, one on each monitor, the flags of the workspaces say so, and the
\* first one has the focus (workspace_list_init, attach_to_monitors).
THEOREM Promised == Spec => []BeginsAsPromised
<1>1. SetupInv => BeginsAsPromised
  <2> SUFFICES ASSUME SetupInv, pc = "running"
               PROVE  /\ \A n \in UNION {1 .. Len(o) : o \in Outputs} :
                           n = Len(state.offsets) => Promise(n)!Init
                      /\ state.focused = {state.activeIndex}
                      /\ state.visible = {i \in Workspaces : \E k \in Found(state) : state.shows[k] = i}
    BY DEF BeginsAsPromised
  <2> DEFINE N == Len(state.offsets)
             c == Covered(state)
  <2>1. /\ Placed(state)
        /\ state.shows = [k \in 1 .. N |-> IF N + 1 - k <= c THEN N + 1 - k - 1 ELSE NULL]
        /\ state.visible = 0 .. c - 1
        /\ state.focused = {0} /\ state.activeIndex = 0
    BY DEF SetupInv, Stage, Showing
  <2>2. /\ N \in Nat \ {0} /\ WorkspaceCount \in Nat \ {0} /\ NULL \notin Int
        /\ c = IF N < WorkspaceCount THEN N ELSE WorkspaceCount
    BY <2>1, SetupAssumption DEF Placed, SetupAssumption, Covered
  <2>3. Found(state) = 1 .. N /\ \A k : At(state, k) = N + 1 - k
    BY DEF Found, At
  <2> HIDE DEF N, c
  <2>4. ASSUME NEW n, n = N PROVE Promise(n)!Init
    <3>1. \A p \in 1 .. N : state.shows[N + 1 - p] = IF p <= WorkspaceCount THEN p - 1 ELSE NULL
      <4> SUFFICES ASSUME NEW p \in 1 .. N
                   PROVE  state.shows[N + 1 - p] = IF p <= WorkspaceCount THEN p - 1 ELSE NULL
        OBVIOUS
      <4> DEFINE q == N + 1 - p
      <4>1. q \in 1 .. N /\ N + 1 - q = p
        BY <2>2
      <4>2. p <= c <=> p <= WorkspaceCount
        BY <2>2
      <4> HIDE DEF q
      <4>3. state.shows[q] = IF N + 1 - q <= c THEN N + 1 - q - 1 ELSE NULL
        BY <2>1, <4>1
      <4>4. state.shows[q] = IF p <= WorkspaceCount THEN p - 1 ELSE NULL
        BY <2>2, <4>1, <4>2, <4>3
      <4> QED BY <4>4 DEF q
    <3>2. [p \in Found(state) |-> state.shows[At(state, p)]]
            = [p \in 1 .. N |-> IF p <= WorkspaceCount THEN p - 1 ELSE NULL]
      BY <2>3, <3>1
    <3> QED BY <2>1, <2>4, <3>2 DEF Promise!Init, Promise!Monitors
  <2>5. state.visible = {i \in Workspaces : \E k \in Found(state) : state.shows[k] = i}
    <3>1. ASSUME NEW i \in 0 .. c - 1
          PROVE  i \in Workspaces /\ \E k \in 1 .. N : state.shows[k] = i
      <4>1. N - i \in 1 .. N /\ N + 1 - (N - i) <= c /\ N + 1 - (N - i) - 1 = i /\ i \in Workspaces
        BY <2>2, <3>1 DEF Workspaces
      <4>2. state.shows[N - i] = i
        BY <2>1, <4>1
      <4> QED BY <4>1, <4>2
    <3>2. ASSUME NEW i \in Workspaces, NEW k \in 1 .. N, state.shows[k] = i
          PROVE  i \in 0 .. c - 1
      BY <2>1, <2>2, <3>2 DEF Workspaces
    <3> QED BY <2>1, <2>3, <3>1, <3>2
  <2> QED BY <2>1, <2>4, <2>5 DEF N
<1> QED BY <1>1, Inductive, PTL

-----------------------------------------------------------------------------
(* The loops of the parser *)

\* A loop, round by round.
LEMMA RoundsAre ==
  ASSUME NEW n \in Nat, NEW f, NEW kind, NEW p, NEW x, Goes(f, n, kind, p, x)
  PROVE  f[0] = x /\ \A i \in 0 .. n - 1 : f[i + 1] = After(kind, p, f[i], i + 1)
<1>1. f[0] = x
  BY DEF Goes
<1>2. ASSUME NEW i \in 0 .. n - 1 PROVE f[i + 1] = After(kind, p, f[i], i + 1)
  <2>1. i + 1 \in 0 .. n /\ i + 1 # 0 /\ (i + 1) - 1 = i
    OBVIOUS
  <2> QED BY <2>1 DEF Goes
<1> QED BY <1>1, <1>2

-----------------------------------------------------------------------------
(* Strings *)

\* The first of some places.
LEMMA Least ==
  ASSUME NEW S, S \subseteq Nat, S # {}
  PROVE  Min(S) \in S /\ \A y \in S : Min(S) <= y
BY SmallestElement, Zenon DEF Min

\* The last of some places.
LEMMA Largest ==
  ASSUME NEW n \in Nat, NEW S, S \subseteq 1 .. n, S # {}
  PROVE  Max(S) \in S
<1> DEFINE T == {n - x : x \in S}
<1>1. T \subseteq Nat /\ T # {}
  <2>1. ASSUME NEW x \in S PROVE n - x \in Nat
    OBVIOUS
  <2>2. PICK x \in S : TRUE
    OBVIOUS
  <2>3. n - x \in T
    BY <2>2
  <2> QED BY <2>1, <2>3
<1>2. PICK t \in T : \A u \in T : t <= u
  <2> HIDE DEF T
  <2> QED BY <1>1, SmallestElement
<1>3. PICK x \in S : t = n - x
  BY <1>2
<1>4. ASSUME NEW y \in S PROVE x >= y
  <2>1. n - y \in T
    OBVIOUS
  <2>2. n - x <= n - y
    BY <1>2, <1>3, <2>1
  <2>3. x \in Nat /\ y \in Nat
    OBVIOUS
  <2> QED BY <2>2, <2>3
<1> QED BY <1>4, Zenon DEF Max

\* Part of a string is a string.
LEMMA Substring ==
  ASSUME NEW s \in Strings, NEW a \in Nat \ {0}, NEW b \in 0 .. Len(s)
  PROVE  SubSeq(s, a, b) \in Strings
BY DEF Strings

\* Spaces around a string go.
LEMMA Stripped ==
  ASSUME NEW s \in Strings
  PROVE  IF \E i \in DOMAIN s : s[i] \notin {Space, NewLine}
         THEN Strip(s) \in Strings
         ELSE Strip(s) = NULL
<1> DEFINE solid == {i \in DOMAIN s : s[i] \notin {Space, NewLine}}
<1>1. DOMAIN s = 1 .. Len(s) /\ Len(s) \in Nat
  BY DEF Strings
<1>2. CASE solid = {}
  BY <1>2 DEF Strip
<1>3. CASE solid # {}
  <2>1. Min(solid) \in solid /\ Max(solid) \in solid
    <3> HIDE DEF solid
    <3>1. solid \subseteq 1 .. Len(s) BY <1>1 DEF solid
    <3>2. Min(solid) \in solid
      <4>1. solid \subseteq Nat BY <3>1
      <4> QED BY <1>3, <4>1, Least
    <3>3. Max(solid) \in solid
      BY <1>3, <1>1, <3>1, Largest
    <3> QED BY <3>2, <3>3
  <2>2. SubSeq(s, Min(solid), Max(solid)) \in Strings
    BY <1>1, <2>1, Substring
  <2>3. Strip(s) = SubSeq(s, Min(solid), Max(solid))
    BY <1>3 DEF Strip
  <2> QED BY <1>3, <2>2, <2>3
<1> QED BY <1>2, <1>3

\* Delimiters are places in the string.
LEMMA DelimitersInside ==
  ASSUME NEW s \in Strings, NEW c
  PROVE  /\ Delimiters(s, c) \subseteq 1 .. Len(s)
         /\ IsFiniteSet(Delimiters(s, c)) /\ Cardinality(Delimiters(s, c)) \in Nat
         /\ \A k \in Delimiters(s, c) : s[k] = c
<1>1. DOMAIN s = 1 .. Len(s) /\ Len(s) \in Nat
  BY DEF Strings
<1>2. Delimiters(s, c) \subseteq 1 .. Len(s) /\ \A k \in Delimiters(s, c) : s[k] = c
  BY <1>1, Zenon DEF Delimiters
<1>3. IsFiniteSet(1 .. Len(s))
  BY <1>1, FS_Interval
<1>4. IsFiniteSet(Delimiters(s, c))
  BY <1>2, <1>3, FS_Subset
<1> QED BY <1>2, <1>4, FS_CardinalityType

\* The commas of the outer array, and the pieces between them.
Commas(s) == Delimiters(s, ",")
Pieces(s) == Cardinality(Commas(s)) + 1

\* They are places too, and there is a piece more.
LEMMA CommasAre ==
  ASSUME NEW s \in Strings
  PROVE  Commas(s) \subseteq 1 .. Len(s) /\ Len(s) \in Nat /\ Pieces(s) \in Nat \ {0}
<1>1. Commas(s) \subseteq 1 .. Len(s) /\ Cardinality(Commas(s)) \in Nat
  BY DelimitersInside, Zenon DEF Commas
<1>2. Len(s) \in Nat
  BY DEF Strings
<1> QED BY <1>1, <1>2 DEF Pieces

\* Where the items of a string end.
LEMMA CutsAre ==
  ASSUME NEW s \in Strings
  PROVE  \E cut :
           /\ Split(s) = [k \in 1 .. Pieces(s) |-> SubSeq(s, cut[k - 1] + 1, cut[k] - 1)]
           /\ Goes(cut, Pieces(s), "cut", [commas |-> Commas(s), end |-> Len(s) + 1], 0)
<1> DEFINE p == [commas |-> Commas(s), end |-> Len(s) + 1]
           B(f, k) == IF k = 0 THEN 0 ELSE Min({Len(s) + 1} \cup {d \in Commas(s) : d > f[k - 1]})
           cut == CHOOSE f : f = [k \in 0 .. Pieces(s) |-> B(f, k)]
<1>1. \A x, k : After("cut", p, x, k) = Min({Len(s) + 1} \cup {d \in Commas(s) : d > x})
  BY DEF After
<1>2. \A f : Goes(f, Pieces(s), "cut", p, 0) <=> f = [k \in 0 .. Pieces(s) |-> B(f, k)]
  BY <1>1, Zenon DEF Goes
<1>3. Pieces(s) \in Nat
  BY CommasAre
<1>4. \E f : Goes(f, Pieces(s), "cut", p, 0)
  <2> HIDE DEF p
  <2> QED BY <1>3, Going
<1>5. cut = [k \in 0 .. Pieces(s) |-> B(cut, k)]
  <2>1. \E f : f = [k \in 0 .. Pieces(s) |-> B(f, k)]
    BY <1>2, <1>4, Zenon
  <2> QED BY <2>1, Zenon
<1>6. Split(s) = [k \in 1 .. Pieces(s) |-> SubSeq(s, cut[k - 1] + 1, cut[k] - 1)]
  BY Zenon DEF Split, Pieces, Commas
<1>7. Goes(cut, Pieces(s), "cut", p, 0)
  BY <1>2, <1>5, Zenon
<1> HIDE DEF cut
<1> QED BY <1>6, <1>7, Zenon

\* What is between the commas of a string are strings, at least one.
LEMMA SplitStrings ==
  ASSUME NEW s \in Strings
  PROVE  Split(s) \in Seq(Strings) /\ Len(Split(s)) \in Nat \ {0}
<1> DEFINE p == [commas |-> Commas(s), end |-> Len(s) + 1]
           n == Pieces(s)
<1>1. PICK cut : /\ Split(s) = [k \in 1 .. n |-> SubSeq(s, cut[k - 1] + 1, cut[k] - 1)]
                 /\ Goes(cut, n, "cut", p, 0)
  BY CutsAre, Zenon
<1>2. Commas(s) \subseteq 1 .. Len(s) /\ Len(s) \in Nat /\ n \in Nat \ {0}
  BY CommasAre
<1> HIDE DEF n
<1>3. cut[0] = 0 /\ \A i \in 0 .. n - 1 : cut[i + 1] = After("cut", p, cut[i], i + 1)
  <2> HIDE DEF p
  <2> QED BY <1>1, <1>2, RoundsAre
<1>4. ASSUME NEW i \in 0 .. n - 1 PROVE cut[i + 1] \in 1 .. Len(s) + 1
  <2> DEFINE D == {Len(s) + 1} \cup {d \in Commas(s) : d > cut[i]}
  <2>1. cut[i + 1] = Min(D)
    BY <1>3 DEF After
  <2>2. D \subseteq Nat /\ D # {} /\ D \subseteq 1 .. Len(s) + 1
    BY <1>2
  <2> HIDE DEF D
  <2> QED BY <2>1, <2>2, Least
<1>5. ASSUME NEW k \in 1 .. n PROVE SubSeq(s, cut[k - 1] + 1, cut[k] - 1) \in Strings
  <2>1. k - 1 \in 0 .. n - 1 /\ (k - 1) + 1 = k
    BY <1>2
  <2>2. cut[k] \in 1 .. Len(s) + 1
    BY <1>4, <2>1
  <2>3. cut[k - 1] \in Nat
    <3>1. CASE k = 1
      BY <1>3, <3>1
    <3>2. CASE k # 1
      <4>1. (k - 1) - 1 \in 0 .. n - 1 /\ ((k - 1) - 1) + 1 = k - 1
        BY <1>2, <3>2
      <4> QED BY <1>2, <1>4, <4>1
    <3> QED BY <3>1, <3>2
  <2> QED BY <1>2, <2>2, <2>3, Substring
<1>6. Split(s) \in [1 .. n -> Strings]
  BY <1>1, <1>5
<1> QED BY <1>2, <1>6

\* The items of an array are strings, or blank.
LEMMA ItemStringsAre ==
  ASSUME NEW text \in Strings
  PROVE  ItemStrings(text) \in Seq(Strings \cup {NULL})
<1> DEFINE strings == [i \in DOMAIN Split(text) |-> Strip(Split(text)[i])]
<1>1. Split(text) \in Seq(Strings) /\ Len(Split(text)) \in Nat \ {0}
  BY SplitStrings
<1>2. strings \in Seq(Strings \cup {NULL}) /\ Len(strings) \in Nat \ {0}
  <2>1. ASSUME NEW i \in DOMAIN Split(text)
        PROVE  Strip(Split(text)[i]) \in Strings \cup {NULL}
    <3>1. Split(text)[i] \in Strings
      BY <1>1
    <3> QED BY <3>1, Stripped
  <2>2. DOMAIN Split(text) = 1 .. Len(Split(text))
    BY <1>1
  <2>3. strings \in [1 .. Len(Split(text)) -> Strings \cup {NULL}]
    BY <2>1, <2>2
  <2> HIDE DEF strings
  <2> QED BY <1>1, <2>3
<1> HIDE DEF strings
<1>3. SubSeq(strings, 1, Len(strings) - 1) \in Seq(Strings \cup {NULL})
  BY <1>2
<1>4. ItemStrings(text) =
        IF Last(strings) = NULL THEN Front(strings) ELSE strings
  BY DEF ItemStrings, strings
<1> QED BY <1>2, <1>3, <1>4 DEF Front

-----------------------------------------------------------------------------
(* Values *)

\* What is read at p leaves the parser between p and the end of the file.
Advances(read, p) == read = NULL \/ read.pos \in p .. Len(file)

\* Where an array that begins at p may end.
Closing(p) == Delimiters(SubSeq(file, p, Len(file)), "]")

\* The text of an array and the position after finding it.
LEMMA ArrayStringOnward ==
  ASSUME file \in Strings, NEW p \in DOMAIN file, NEW s \in Strings
  PROVE  \/ ArrayString(p, s) = NULL
         \/ /\ ArrayString(p, s).text \in Strings
            /\ ArrayString(p, s).pos \in p .. Len(file)
<1> DEFINE rest == SubSeq(file, p, Len(file))
           e == Min(Closing(p))
<1>1. Len(file) \in Nat /\ p \in 1 .. Len(file)
  BY DEF Strings
<1>2. rest \in Strings /\ Len(rest) = Len(file) - p + 1
  BY <1>1 DEF Strings
<1> HIDE DEF rest
<1>3. Closing(p) \subseteq 1 .. Len(rest) /\ \A k \in Closing(p) : rest[k] = "]"
  BY <1>2, DelimitersInside, Zenon DEF Closing, rest
<1>4. CASE Last(s) = "]"
  <2>1. ArrayString(p, s) = [text |-> s, pos |-> p]
    BY <1>4, Zenon DEF ArrayString
  <2> QED BY <1>1, <2>1
<1>5. CASE Last(s) # "]" /\ Closing(p) = {}
  BY <1>5, Zenon DEF ArrayString, Closing
<1>6. CASE Last(s) # "]" /\ Closing(p) # {}
  <2>1. ArrayString(p, s) = [text |-> Strip(SubSeq(rest, 1, e)), pos |-> p + e - 1]
    BY <1>6, Zenon DEF ArrayString, Closing, rest
  <2>2. e \in Closing(p)
    <3>1. Closing(p) \subseteq Nat
      BY <1>1, <1>2, <1>3
    <3> QED BY <1>6, <3>1, Least
  <2> HIDE DEF e
  <2>3. e \in 1 .. Len(rest) /\ rest[e] = "]"
    BY <1>3, <2>2
  <2>4. p + e - 1 \in p .. Len(file)
    BY <1>1, <1>2, <2>3
  <2> DEFINE t == SubSeq(rest, 1, e)
  <2>5. t \in Strings /\ e \in DOMAIN t /\ t[e] = rest[e]
    BY <1>2, <2>3 DEF Strings
  <2> HIDE DEF t
  <2>6. t[e] \notin {Space, NewLine}
    BY <2>3, <2>5 DEF Space, NewLine
  <2>7. Strip(t) \in Strings
    BY <2>5, <2>6, Stripped
  <2> QED BY <2>1, <2>4, <2>7 DEF t
<1> QED BY <1>4, <1>5, <1>6

\* item is a way to read a value that never takes the parser back.
Readable(item) == \A q \in DOMAIN file, t \in Strings : Advances(item[q][t], q)

\* How the items of an array are read.
LEMMA ItemsAre ==
  ASSUME NEW item, NEW p, NEW strings, Len(strings) \in Nat
  PROVE  \E read : /\ ParseItems(item, p, strings) = read[Len(strings)]
                   /\ Goes(read, Len(strings), "items", [item |-> item, strings |-> strings],
                           [values |-> <<>>, pos |-> p])
<1> DEFINE n == Len(strings)
           a == [item |-> item, strings |-> strings]
           b == [values |-> <<>>, pos |-> p]
           More(x, s) == IF item[x.pos][s] = NULL THEN NULL
                         ELSE [values |-> Append(x.values, item[x.pos][s].value),
                               pos |-> item[x.pos][s].pos]
           B(f, k) == IF k = 0 THEN b
                      ELSE IF f[k - 1] = NULL \/ strings[k] = NULL THEN NULL
                      ELSE More(f[k - 1], strings[k])
           read == CHOOSE f : f = [k \in 0 .. n |-> B(f, k)]
<1>1. \A x, k : After("items", a, x, k) = IF x = NULL \/ strings[k] = NULL THEN NULL
                                          ELSE More(x, strings[k])
  BY DEF After
<1>2. \A f : Goes(f, n, "items", a, b) <=> f = [k \in 0 .. n |-> B(f, k)]
  <2> DEFINE A(f, k) == IF k = 0 THEN b ELSE After("items", a, f[k - 1], k)
  <2> HIDE DEF More
  <2>1. \A f, k : A(f, k) = B(f, k)
    BY <1>1, Zenon
  <2>2. \A f : Goes(f, n, "items", a, b) <=> f = [k \in 0 .. n |-> A(f, k)]
    BY Zenon DEF Goes
  <2> HIDE DEF A, B
  <2> QED BY <2>1, <2>2, Zenon
<1>3. \E f : Goes(f, n, "items", a, b)
  <2> HIDE DEF a, b
  <2> QED BY Going
<1>4. read = [k \in 0 .. n |-> B(read, k)]
  <2>1. \E f : f = [k \in 0 .. n |-> B(f, k)]
    BY <1>2, <1>3, Zenon
  <2> QED BY <2>1, Zenon
<1>5. ParseItems(item, p, strings) = read[n]
  BY Zenon DEF ParseItems
<1>6. Goes(read, n, "items", a, b)
  BY <1>2, <1>4, Zenon
<1> HIDE DEF read
<1> QED BY <1>5, <1>6, Zenon

\* Item after item the parser moves on.
LEMMA ItemsOnward ==
  ASSUME file \in Strings, NEW item, Readable(item), NEW p \in DOMAIN file,
         NEW strings \in Seq(Strings \cup {NULL})
  PROVE  Advances(ParseItems(item, p, strings), p)
<1> DEFINE n == Len(strings)
           a == [item |-> item, strings |-> strings]
           b == [values |-> <<>>, pos |-> p]
<1>1. n \in Nat /\ \A k \in 1 .. n : strings[k] \in Strings \cup {NULL}
  OBVIOUS
<1>2. PICK read : ParseItems(item, p, strings) = read[n] /\ Goes(read, n, "items", a, b)
  BY <1>1, ItemsAre, Zenon
<1>3. read[0] = b /\ \A k \in 0 .. n - 1 : read[k + 1] = After("items", a, read[k], k + 1)
  <2> HIDE DEF n, a, b
  <2> QED BY <1>1, <1>2, RoundsAre
<1> DEFINE G == {k \in 0 .. n : Advances(read[k], p)}
<1>4. Len(file) \in Nat /\ p \in 1 .. Len(file) /\ DOMAIN file = 1 .. Len(file)
  BY DEF Strings
<1>5. 0 \in G
  BY <1>1, <1>3, <1>4 DEF Advances
<1>6. ASSUME NEW k \in 0 .. n - 1, k \in G PROVE k + 1 \in G
  <2>1. k + 1 \in 1 .. n
    BY <1>1
  <2> DEFINE x == read[k]
             s == strings[k + 1]
  <2>2. s \in Strings \cup {NULL} /\ Advances(x, p)
    BY <1>1, <1>6, <2>1
  <2>3. read[k + 1] = IF x = NULL \/ s = NULL THEN NULL
                      ELSE IF item[x.pos][s] = NULL THEN NULL
                      ELSE [values |-> Append(x.values, item[x.pos][s].value),
                            pos |-> item[x.pos][s].pos]
    BY <1>3 DEF After
  <2> HIDE DEF x, s
  <2>4. Advances(read[k + 1], p)
    <3>1. CASE x = NULL \/ s = NULL
      BY <2>3, <3>1 DEF Advances
    <3>2. CASE x # NULL /\ s # NULL
      <4>1. x.pos \in p .. Len(file) /\ s \in Strings
        BY <2>2, <3>2 DEF Advances
      <4>2. x.pos \in DOMAIN file
        BY <1>4, <4>1
      <4>3. Advances(item[x.pos][s], x.pos)
        BY <4>1, <4>2 DEF Readable
      <4> QED BY <1>4, <2>3, <3>2, <4>1, <4>3 DEF Advances
    <3> QED BY <3>1, <3>2
  <2> QED BY <1>1, <2>4
<1>7. n \in G
  <2> HIDE DEF G
  <2>1. \A k \in 0 .. n : k \in G
    BY <1>1, <1>5, <1>6, Throughout
  <2> QED BY <1>1, <2>1
<1> QED BY <1>2, <1>7

\* So it does array in array.
LEMMA ArrayOnward ==
  ASSUME file \in Strings, NEW item, Readable(item),
         NEW p \in DOMAIN file, NEW s \in Strings
  PROVE  Advances(ParseArray(item, p, s), p)
<1> DEFINE array == ArrayString(p, s)
           inner == SubSeq(array.text, 2, Len(array.text) - 1)
           read  == ParseItems(item, array.pos, ItemStrings(inner))
<1>1. ParseArray(item, p, s) =
        IF array = NULL \/ Len(array.text) < 2 \/ read = NULL THEN NULL
        ELSE [value |-> Scalar("array", read.values), pos |-> read.pos]
  BY DEF ParseArray
<1>2. SUFFICES ASSUME array # NULL, ~(Len(array.text) < 2), read # NULL
               PROVE  read.pos \in p .. Len(file)
  BY <1>1 DEF Advances
<1>3. array.text \in Strings /\ array.pos \in p .. Len(file)
  BY <1>2, ArrayStringOnward
<1>4. Len(file) \in Nat /\ p \in 1 .. Len(file) /\ DOMAIN file = 1 .. Len(file)
  BY DEF Strings
<1> HIDE DEF array
<1>5. Len(array.text) \in Nat /\ Len(array.text) - 1 \in 0 .. Len(array.text)
  BY <1>2, <1>3 DEF Strings
<1>6. inner \in Strings
  BY <1>3, <1>5, Substring
<1> HIDE DEF inner
<1>7. ItemStrings(inner) \in Seq(Strings \cup {NULL})
  BY <1>6, ItemStringsAre
<1>8. array.pos \in DOMAIN file
  BY <1>3, <1>4
<1>9. Advances(read, array.pos)
  BY <1>7, <1>8, ItemsOnward
<1> QED BY <1>2, <1>3, <1>4, <1>9 DEF Advances

\* How a value within n arrays is read.
LEMMA ValuesAre ==
  ASSUME file \in Strings
  PROVE  Goes(ParseValue, Len(file), "value", NULL,
              [q \in DOMAIN file |-> [s \in Strings |-> NULL]])
<1> DEFINE n == Len(file)
           b == [q \in DOMAIN file |-> [s \in Strings |-> NULL]]
           More(x, q, s) == IF Head(s) = "[" THEN ParseArray(x, q, s)
                            ELSE IF ParseScalar(s) = NULL THEN NULL
                            ELSE [value |-> ParseScalar(s), pos |-> q]
           A(f, k) == IF k = 0 THEN b ELSE After("value", NULL, f[k - 1], k)
           B(f, k) == [q \in DOMAIN file |-> [s \in Strings |->
                         IF k = 0 THEN NULL ELSE More(f[k - 1], q, s)]]
<1>1. \A x, k : After("value", NULL, x, k) =
        [q \in DOMAIN file |-> [s \in Strings |-> More(x, q, s)]]
  BY Zenon DEF After
<1>2. \A f, k : A(f, k) = B(f, k)
  <2> SUFFICES ASSUME NEW f, NEW k PROVE A(f, k) = B(f, k)
    OBVIOUS
  <2> HIDE DEF More
  <2>1. CASE k = 0
    BY <2>1, Zenon
  <2>2. CASE k # 0
    <3>1. A(f, k) = [q \in DOMAIN file |-> [s \in Strings |-> More(f[k - 1], q, s)]]
      BY <1>1, <2>2, Zenon
    <3>2. \A q, s : (IF k = 0 THEN NULL ELSE More(f[k - 1], q, s)) = More(f[k - 1], q, s)
      BY <2>2, Zenon
    <3>3. B(f, k) = [q \in DOMAIN file |-> [s \in Strings |-> More(f[k - 1], q, s)]]
      BY <3>2, Zenon
    <3> QED BY <3>1, <3>3, Zenon
  <2> QED BY <2>1, <2>2
<1>3. \A f : Goes(f, n, "value", NULL, b) <=> f = [k \in 0 .. n |-> B(f, k)]
  <2>1. \A f : Goes(f, n, "value", NULL, b) <=> f = [k \in 0 .. n |-> A(f, k)]
    BY Zenon DEF Goes
  <2> HIDE DEF A, B
  <2> QED BY <1>2, <2>1, Zenon
<1>4. \E f : f = [k \in 0 .. n |-> B(f, k)]
  <2>1. n \in Nat
    BY DEF Strings
  <2>2. \E f : Goes(f, n, "value", NULL, b)
    <3> HIDE DEF b, n
    <3> QED BY <2>1, Going
  <2> HIDE DEF B
  <2> QED BY <1>3, <2>2, Zenon
<1>5. ParseValue = CHOOSE f : f = [k \in 0 .. n |-> B(f, k)]
  BY Zenon DEF ParseValue
<1>6. ParseValue = [k \in 0 .. n |-> B(ParseValue, k)]
  <2> HIDE DEF B
  <2> QED BY <1>4, <1>5, Zenon
<1> HIDE DEF B
<1> QED BY <1>3, <1>6, Zenon

\* However deep, reading a value moves the parser on.
LEMMA ValueOnward ==
  ASSUME file \in Strings
  PROVE  Readable(ParseValue[Len(file)])
<1> DEFINE n == Len(file)
           b == [q \in DOMAIN file |-> [s \in Strings |-> NULL]]
           G == {k \in 0 .. n : Readable(ParseValue[k])}
<1>1. n \in Nat /\ DOMAIN file = 1 .. n
  BY DEF Strings
<1>2. /\ ParseValue[0] = b
      /\ \A k \in 0 .. n - 1 :
           ParseValue[k + 1] = After("value", NULL, ParseValue[k], k + 1)
  <2>1. Goes(ParseValue, n, "value", NULL, b)
    BY ValuesAre
  <2> HIDE DEF n, b
  <2> QED BY <1>1, <2>1, RoundsAre
<1>3. 0 \in G
  BY <1>1, <1>2 DEF Readable, Advances
<1>4. ASSUME NEW k \in 0 .. n - 1, k \in G PROVE k + 1 \in G
  <2> DEFINE x == ParseValue[k]
             y == ParseValue[k + 1]
  <2>1. Readable(x)
    BY <1>4
  <2>2. y = [q \in DOMAIN file |-> [s \in Strings |->
               IF Head(s) = "[" THEN ParseArray(x, q, s)
               ELSE IF ParseScalar(s) = NULL THEN NULL
               ELSE [value |-> ParseScalar(s), pos |-> q]]]
    BY <1>2, Zenon DEF After
  <2> HIDE DEF x, y
  <2>3. ASSUME NEW q \in DOMAIN file, NEW s \in Strings PROVE Advances(y[q][s], q)
    <3>1. Advances(ParseArray(x, q, s), q)
      BY <2>1, ArrayOnward
    <3>2. q \in q .. Len(file)
      BY <1>1
    <3>3. y[q][s] = IF Head(s) = "[" THEN ParseArray(x, q, s)
                    ELSE IF ParseScalar(s) = NULL THEN NULL
                    ELSE [value |-> ParseScalar(s), pos |-> q]
      BY <2>2
    <3> QED BY <3>1, <3>2, <3>3 DEF Advances
  <2>4. Readable(y)
    BY <2>3 DEF Readable
  <2> QED BY <1>1, <2>4 DEF y
<1>5. n \in G
  <2> HIDE DEF G
  <2>1. \A k \in 0 .. n : k \in G
    BY <1>1, <1>3, <1>4, Throughout
  <2> QED BY <1>1, <2>1
<1> QED BY <1>5

-----------------------------------------------------------------------------
(* Definitions *)

\* A character is found behind the place where the search begins, or there is
\* none.
LEMMA FoundIn ==
  ASSUME file \in Strings, NEW c, NEW from \in Nat \ {0}
  PROVE  \/ Find(c, from) \in from .. Len(file) /\ file[Find(c, from)] = c
         \/ Find(c, from) = 0 /\ \A i \in from .. Len(file) : file[i] # c
<1> DEFINE I == {i \in from .. Len(file) : file[i] = c}
<1>1. Find(c, from) = IF I # {} THEN Min(I) ELSE 0
  BY Zenon DEF Find, SelectInSubSeq
<1>2. Len(file) \in Nat
  BY DEF Strings
<1>3. CASE I = {}
  BY <1>1, <1>3
<1>4. CASE I # {}
  <2>1. Min(I) \in I
    <3>1. I \subseteq Nat
      BY <1>2
    <3> HIDE DEF I
    <3> QED BY <1>4, <3>1, Least
  <2> QED BY <1>1, <1>4, <2>1
<1> QED BY <1>3, <1>4

\* What is read at p, a key, "=" and a value, takes the parser beyond p.
LEMMA ItemOnward ==
  ASSUME file \in Strings, NEW p \in Nat \ {0}, ReadItem(p) # NULL
  PROVE  ReadItem(p).pos \in p .. Len(file)
<1> DEFINE key   == ReadKey(p)
           value == ReadValue(key.pos)
           read  == ParseValue[Len(file)][value.pos][value.string]
<1>1. /\ ReadItem(p) = [key |-> key.key, value |-> read.value, pos |-> read.pos]
      /\ key # NULL /\ value # NULL /\ read # NULL
  BY Zenon DEF ReadItem
<1>2. Len(file) \in Nat /\ DOMAIN file = 1 .. Len(file)
  BY DEF Strings
<1>3. key.pos \in p .. Len(file)
  <2> DEFINE equal == Find("=", p)
  <2>1. equal # 0 /\ key = [key |-> Strip(SubSeq(file, p, equal - 1)), pos |-> equal]
    BY <1>1, Zenon DEF ReadKey
  <2>2. equal \in p .. Len(file)
    BY <2>1, FoundIn
  <2> HIDE DEF equal
  <2> QED BY <2>1, <2>2
<1> DEFINE at == key.pos
           end == Find(NewLine, at + 1)
           string == Strip(SubSeq(file, at + 1, end - 1))
<1>4. end # 0 /\ string # NULL /\ value = [string |-> string, pos |-> end - 1]
  BY <1>1, Zenon DEF ReadValue
<1> HIDE DEF at, key
<1>5. at \in p .. Len(file) /\ at + 1 \in Nat \ {0}
  BY <1>2, <1>3 DEF at
<1>6. end \in at + 1 .. Len(file)
  BY <1>4, <1>5, FoundIn
<1> HIDE DEF end
<1>7. end - 1 \in DOMAIN file /\ end - 1 \in at .. Len(file) /\ end - 1 \in 0 .. Len(file)
  BY <1>2, <1>5, <1>6
<1>8. string \in Strings
  <2>1. SubSeq(file, at + 1, end - 1) \in Strings
    BY <1>5, <1>7, Substring
  <2> QED BY <1>4, <2>1, Stripped
<1> HIDE DEF string, value
<1>9. Advances(read, value.pos)
  BY <1>4, <1>7, <1>8, ValueOnward DEF Readable
<1>10. read.pos \in end - 1 .. Len(file)
  BY <1>1, <1>4, <1>9 DEF Advances
<1> HIDE DEF read
<1>11. read.pos \in p .. Len(file)
  BY <1>2, <1>5, <1>7, <1>10
<1> QED BY <1>1, <1>11

-----------------------------------------------------------------------------
(* config_parse *)

\* Past the terminator there is the comment that it went past.
InComment ==
  pos > Len(file) + 1 =>
    \E i \in DOMAIN file : file[i] = "#" /\ \A j \in i .. Len(file) : file[j] # NewLine

\* Inductive: that of a comment in the last line is needed with its place.
ParserInv == file \in Strings /\ pos \in Nat \ {0} /\ InComment

\* A round of the loop moves the parser, or ends the loop.
LEMMA RoundOnward ==
  ASSUME ParserInv, ParserNext
  PROVE  /\ file' = file
         /\ \/ pos' \in pos + 1 .. Len(file) + 1
            \/ /\ pos' = Len(file) + 2 /\ pos \in DOMAIN file
               /\ file[pos] = "#" /\ Find(NewLine, pos) = 0
            \/ pos' = pos /\ status' # "reading"
<1>1. Len(file) \in Nat /\ DOMAIN file = 1 .. Len(file)
  BY DEF ParserInv, Strings
<1>2. CASE Comment
  <2> DEFINE end == Find(NewLine, pos)
  <2>1. /\ file' = file /\ pos \in DOMAIN file /\ file[pos] = "#"
        /\ pos' = IF end = 0 THEN Len(file) + 2 ELSE end + 1
    BY <1>2 DEF Comment, Reading
  <2>2. end = 0 \/ end \in pos .. Len(file)
    BY FoundIn DEF ParserInv
  <2> HIDE DEF end
  <2>3. pos' \in pos + 1 .. Len(file) + 1 \/ (pos' = Len(file) + 2 /\ end = 0)
    BY <1>1, <2>1, <2>2 DEF ParserInv
  <2> QED BY <2>1, <2>3 DEF end
<1>3. CASE CreateVariable
  <2>1. file' = file /\ ReadItem(pos + 1) # NULL /\ pos' = ReadItem(pos + 1).pos + 1
    BY <1>3, Zenon DEF CreateVariable
  <2>2. pos + 1 \in Nat \ {0} /\ pos \in Nat
    BY DEF ParserInv
  <2>3. ReadItem(pos + 1).pos \in pos + 1 .. Len(file)
    BY <2>1, <2>2, ItemOnward DEF ParserInv
  <2> QED BY <1>1, <2>1, <2>2, <2>3
<1>4. CASE CreateItem
  <2>1. file' = file /\ ReadItem(pos) # NULL /\ pos' = ReadItem(pos).pos + 1
    BY <1>4, Zenon DEF CreateItem
  <2>2. pos \in Nat
    BY DEF ParserInv
  <2>3. ReadItem(pos).pos \in pos .. Len(file)
    BY <2>1, ItemOnward DEF ParserInv
  <2> QED BY <1>1, <2>1, <2>2, <2>3
<1>5. CASE Skip
  BY <1>1, <1>5 DEF Skip, Reading, ParserInv
<1>6. CASE Fail
  BY <1>6 DEF Fail
<1>7. CASE Finish
  BY <1>7 DEF Finish
<1> QED BY <1>2, <1>3, <1>4, <1>5, <1>6, <1>7 DEF ParserNext

\* It holds at the beginning, and each round keeps it.
LEMMA ParserInductive == ParserSpec => []ParserInv
<1>1. ParserInit => ParserInv
  BY DEF ParserInit, ParserInv, InComment, Strings
<1>2. ASSUME ParserInv, [ParserNext]_parserVars PROVE ParserInv'
  <2>1. CASE UNCHANGED parserVars
    BY <1>2, <2>1 DEF parserVars, ParserInv, InComment, NewLine
  <2>2. CASE ParserNext
    <3>1. Len(file) \in Nat /\ DOMAIN file = 1 .. Len(file)
      BY <1>2 DEF ParserInv, Strings
    <3>2. file' = file
      BY <1>2, <2>2, RoundOnward
    <3>3. CASE pos' \in pos + 1 .. Len(file) + 1
      BY <1>2, <3>1, <3>2, <3>3 DEF ParserInv, InComment
    <3>4. CASE pos' = pos
      BY <1>2, <3>2, <3>4 DEF ParserInv, InComment, NewLine
    <3>5. CASE /\ pos' = Len(file) + 2 /\ pos \in DOMAIN file
               /\ file[pos] = "#" /\ Find(NewLine, pos) = 0
      <4>1. \A j \in pos .. Len(file) : file[j] # NewLine
        BY <1>2, <3>1, <3>5, FoundIn DEF ParserInv
      <4>2. InComment'
        BY <3>2, <3>5, <4>1 DEF InComment, NewLine
      <4> QED BY <1>2, <3>1, <3>2, <3>5, <4>2 DEF ParserInv
    <3> QED BY <1>2, <2>2, <3>3, <3>4, <3>5, RoundOnward
  <2> QED BY <1>2, <2>1, <2>2
<1> QED BY <1>1, <1>2, PTL DEF ParserSpec

\* Whatever is in the file, config_parse stays within it and its terminator,
\* however its arrays are nested, and unless it ends in a comment.
THEOREM ReadInside == ParserSpec => []StaysInside
<1>1. ASSUME ParserInv PROVE StaysInside
  <2>1. Len(file) \in Nat /\ DOMAIN file = 1 .. Len(file)
    BY <1>1 DEF ParserInv, Strings
  <2>2. SUFFICES ASSUME pos > Len(file) + 1
                 PROVE  /\ file[Len(file)] # NewLine
                        /\ \E i \in DOMAIN file : file[i] = "#" /\ Find(NewLine, i) = 0
    BY DEF StaysInside, Last
  <2>3. PICK i \in DOMAIN file : file[i] = "#" /\ \A j \in i .. Len(file) : file[j] # NewLine
    BY <1>1, <2>2 DEF ParserInv, InComment
  <2>4. i \in Nat \ {0} /\ Len(file) \in i .. Len(file)
    BY <2>1
  <2>5. ~(/\ Find(NewLine, i) \in i .. Len(file)
          /\ file[Find(NewLine, i)] = NewLine)
    BY <2>3
  <2>6. Find(NewLine, i) = 0
    BY <1>1, <2>4, <2>5, FoundIn DEF ParserInv
  <2> QED BY <2>3, <2>4, <2>6
<1> QED BY <1>1, ParserInductive, PTL

\* Each round of config_parse takes the parser on or is the last one: the
\* readers of keys, values and arrays never take it back behind what they read.
THEOREM ReadOnwards == ParserSpec => MovesOn
<1>1. ParserInv /\ [ParserNext]_parserVars =>
        [pos' > pos \/ status' # "reading"]_parserVars
  <2> SUFFICES ASSUME ParserInv, ParserNext PROVE pos' > pos \/ status' # "reading"
    OBVIOUS
  <2>1. Len(file) \in Nat /\ pos \in Nat /\ DOMAIN file = 1 .. Len(file)
    BY DEF ParserInv, Strings
  <2> QED BY <2>1, RoundOnward
<1> QED BY <1>1, ParserInductive, PTL DEF ParserSpec, MovesOn
=============================================================================
