--------------------------- MODULE BindingsProofs ---------------------------
(***************************************************************************)
(* What natwm has grabbed, for every keyboard and every chord of the user. *)
(***************************************************************************)
EXTENDS Bindings, TLAPS

\* A lock key has at most one modifier, the first one that was found.
Typed ==
  /\ managed \subseteq Clients
  /\ focused \subseteq managed
  /\ active \in managed \cup {NULL}
  /\ modifiers = NULL
       \/ \A t \in Toggles : modifiers[t] = {} \/ \E m \in Modifiers : modifiers[t] = {m}

\* What is grabbed without Mod1 is grabbed to focus.
OnlyToFocus ==
  \A g \in grabs : Mod1 \notin g[3] => g \in FocusBinding(g[1])

\* What a binding is grabbed with.
Combinations == AlsoWith(modifiers)

\* The gestures of every client, and the click of every one without the flag.
Wanted(c, button, mask) ==
  /\ c \in managed
  /\ \E also \in Combinations :
       \/ button \in {1, 3} /\ mask = {Mod1} \cup also
       \/ button = 1 /\ mask = also /\ c \notin focused

\* Exactly these are grabbed, unless Mod1 is a lock, which mixes the two up.
Exact ==
  Mod1 \notin Ignored =>
    \A c \in Clients, button \in Buttons, mask \in SUBSET Modifiers :
      <<c, button, mask>> \in grabs <=> Wanted(c, button, mask)

Grabbed == Typed /\ OnlyToFocus /\ OwnClicks /\ Exact

-----------------------------------------------------------------------------
(* The combinations of the lock keys *)

LEMMA FirstOnly ==
  ASSUME NEW k \in Keymaps, NEW key \in LockKeys
  PROVE  MaskFrom(k, key) = {} \/ \E m \in Modifiers : MaskFrom(k, key) = {m}
<1>1. k[key] \subseteq Modifiers
  BY BindingsAssumption
<1>2. \A m, n \in MaskFrom(k, key) : m = n
  BY <1>1, SMT DEF MaskFrom, Modifiers
<1>3. MaskFrom(k, key) \subseteq Modifiers
  BY <1>1 DEF MaskFrom
<1> QED
  BY <1>2, <1>3

LEMMA LockedMask ==
  ASSUME Typed, NEW locked \in SUBSET Ignored
  PROVE  locked \in Combinations
<1>1. CASE modifiers = NULL
  BY <1>1 DEF Ignored, AlsoWith, Combinations
<1>2. CASE modifiers # NULL
  <2> DEFINE T == {t \in Toggles : modifiers[t] \subseteq locked}
  <2>1. UNION {modifiers[t] : t \in T} = locked
    <3>1. UNION {modifiers[t] : t \in T} \subseteq locked
      OBVIOUS
    <3>2. ASSUME NEW m \in locked PROVE m \in UNION {modifiers[t] : t \in T}
      <4>1. PICK t \in Toggles : m \in modifiers[t]
        BY <1>2 DEF Ignored
      <4>2. modifiers[t] = {m}
        BY <1>2, <4>1 DEF Typed
      <4> QED
        BY <4>1, <4>2
    <3> QED
      BY <3>1, <3>2
  <2>2. T \in SUBSET Toggles
    OBVIOUS
  <2>3. locked \in {UNION {modifiers[t] : t \in U} : U \in SUBSET Toggles}
    BY <2>1, <2>2
  <2> QED
    BY <1>2, <2>3 DEF Combinations, AlsoWith, Masks
<1> QED
  BY <1>1, <1>2

LEMMA MaskIgnored ==
  ASSUME NEW also \in Combinations
  PROVE  also \subseteq Ignored
BY DEF Combinations, AlsoWith, Masks, Ignored

-----------------------------------------------------------------------------
(* The invariant *)

LEMMA InitGrabbed == Init => Grabbed
<1> SUFFICES ASSUME Init PROVE Grabbed
  OBVIOUS
<1>1. Typed
  <2>1. CASE modifiers = NULL
    BY <2>1 DEF Init, Typed
  <2>2. CASE modifiers = Resolve(keymap)
    <3>1. ASSUME NEW t \in Toggles
          PROVE  modifiers[t] = {} \/ \E m \in Modifiers : modifiers[t] = {m}
      <4>1. t \in LockKeys
        BY DEF LockKeys
      <4>2. MaskFrom(keymap, t) = {} \/ \E m \in Modifiers : MaskFrom(keymap, t) = {m}
        BY <4>1, FirstOnly DEF Init
      <4>3. Lock \in Modifiers
        BY DEF Lock, Modifiers
      <4> QED
        BY <2>2, <4>2, <4>3 DEF Resolve
    <3> QED
      BY <3>1 DEF Init, Typed
  <2> QED
    BY <2>1, <2>2 DEF Init
<1>2. OnlyToFocus /\ OwnClicks /\ Exact
  BY DEF Init, OnlyToFocus, OwnClicks, Exact, Wanted
<1> QED
  BY <1>1, <1>2 DEF Grabbed

\* Some clients lose the focus and others gain it, one of them perhaps new.
LEMMA FocusGrabbed ==
  ASSUME Grabbed, NEW lost \in SUBSET managed, NEW gained \in SUBSET managed', NEW made,
         Focus(lost, gained, made), modifiers' = modifiers, active' \in managed' \cup {NULL},
         \/ managed' = managed /\ made = {}
         \/ \E c \in Clients : /\ c \notin managed /\ managed' = managed \cup {c}
                              /\ made = Listeners(c) /\ c \in gained
  PROVE  Grabbed'
<1>1. Typed'
  BY DEF Grabbed, Typed, Focus
<1>2. \A d : FocusBinding(d)' = FocusBinding(d)
  BY DEF FocusBinding, Binding, Combinations
<1>3. ASSUME NEW g \in made PROVE Mod1 \in g[3]
  BY <1>3 DEF Listeners, Binding, Combinations
<1>4. ASSUME NEW d, NEW g \in FocusBinding(d) PROVE g[1] = d
  BY <1>4 DEF FocusBinding, Binding, Combinations
<1>5. OnlyToFocus'
  <2> SUFFICES ASSUME NEW g \in grabs', Mod1 \notin g[3] PROVE g \in FocusBinding(g[1])
    BY <1>2 DEF OnlyToFocus
  <2>1. g \in grabs \/ \E d \in lost : g \in FocusBinding(d)
    BY <1>3 DEF Focus
  <2> QED
    BY <2>1, <1>4 DEF Grabbed, OnlyToFocus
<1>6. OwnClicks'
  <2> SUFFICES ASSUME NEW d \in focused', NEW g \in grabs', g[1] = d, Mod1 \notin g[3] PROVE FALSE
    BY DEF OwnClicks
  <2>1. g \in FocusBinding(d)
    BY <1>5, <1>2 DEF OnlyToFocus
  <2>2. d \notin gained
    BY <2>1 DEF Focus, FocusUngrab
  <2>3. d \in focused \ lost
    BY <2>2 DEF Focus
  <2>4. g \in grabs
    BY <2>3, <1>3, <1>4 DEF Focus
  <2> QED
    BY <2>3, <2>4 DEF Grabbed, OwnClicks
<1>7. Exact'
  <2>0. Ignored' = Ignored /\ Combinations' = Combinations
    BY DEF Ignored, Combinations, AlsoWith, Masks
  <2> SUFFICES ASSUME Mod1 \notin Ignored, NEW d \in Clients, NEW button \in Buttons,
                      NEW mask \in SUBSET Modifiers
               PROVE  <<d, button, mask>> \in grabs' <=> Wanted(d, button, mask)'
    BY <2>0 DEF Exact
  <2>1. <<d, button, mask>> \in grabs <=> Wanted(d, button, mask)
    BY DEF Grabbed, Exact
  <2>2. \A e : <<d, button, mask>> \in FocusBinding(e)
                 <=> d = e /\ button = 1 /\ mask \in Combinations
    BY DEF FocusBinding, Binding, Combinations
  <2>3. <<d, button, mask>> \in made
          <=> /\ d \notin managed /\ d \in managed' /\ button \in {1, 3}
              /\ \E also \in Combinations : mask = {Mod1} \cup also
    <3>1. \A e : <<d, button, mask>> \in Listeners(e)
                   <=> /\ d = e /\ button \in {1, 3}
                       /\ \E also \in Combinations : mask = {Mod1} \cup also
      BY DEF Listeners, Binding, Combinations
    <3> QED
      BY <3>1
  <2>4. mask \in Combinations => Mod1 \notin mask
    BY MaskIgnored
  <2>5. <<d, button, mask>> \in grabs'
          <=> /\ \/ <<d, button, mask>> \in grabs
                 \/ <<d, button, mask>> \in made
                 \/ \E e \in lost : <<d, button, mask>> \in FocusBinding(e)
              /\ ~\E e \in gained : <<d, button, mask>> \in FocusBinding(e)
    BY DEF Focus, FocusUngrab
  <2>6. d \in focused' <=> (d \in focused /\ d \notin lost) \/ d \in gained
    BY DEF Focus
  <2>7. focused \subseteq managed /\ managed \subseteq managed'
        /\ (d \in managed' /\ d \notin managed => d \in gained)
    BY DEF Grabbed, Typed
  <2>8. mask \in Combinations <=> \E also \in Combinations : mask = also
    OBVIOUS
  <2>9. Wanted(d, button, mask)'
          <=> /\ d \in managed'
              /\ \/ button \in {1, 3} /\ \E also \in Combinations : mask = {Mod1} \cup also
                 \/ button = 1 /\ mask \in Combinations /\ d \notin focused'
    BY <2>0 DEF Wanted
  <2>10. Wanted(d, button, mask)
          <=> /\ d \in managed
              /\ \/ button \in {1, 3} /\ \E also \in Combinations : mask = {Mod1} \cup also
                 \/ button = 1 /\ mask \in Combinations /\ d \notin focused
    BY DEF Wanted
  <2>11. (\E also \in Combinations : mask = {Mod1} \cup also) => Mod1 \in mask
    OBVIOUS
  <2> QED
    BY <2>1, <2>2, <2>3, <2>4, <2>5, <2>6, <2>7, <2>9, <2>10, <2>11
<1> QED
  BY <1>1, <1>5, <1>6, <1>7 DEF Grabbed

\* The same for a client that becomes the active one.
LEMMA ActivateGrabbed ==
  ASSUME Grabbed, NEW c \in managed', NEW made, Activate(c, made), modifiers' = modifiers,
         \/ managed' = managed /\ made = {}
         \/ c \in Clients /\ c \notin managed /\ managed' = managed \cup {c} /\ made = Listeners(c)
  PROVE  Grabbed'
<1>1. {active} \ {NULL} \in SUBSET managed /\ {c} \in SUBSET managed'
  BY DEF Grabbed, Typed
<1>2. Focus({active} \ {NULL}, {c}, made) /\ active' \in managed' \cup {NULL}
  BY DEF Activate
<1> QED
  BY <1>1, <1>2, FocusGrabbed

LEMMA NextGrabbed == Grabbed /\ [Next]_vars => Grabbed'
<1> SUFFICES ASSUME Grabbed, [Next]_vars PROVE Grabbed'
  OBVIOUS
<1> USE DEF Grabbed
<1>0. ASSUME UNCHANGED <<grabs, modifiers, managed, focused, active>> PROVE Grabbed'
  <2>1. Ignored' = Ignored /\ Combinations' = Combinations
    BY <1>0 DEF Ignored, Combinations, AlsoWith, Masks
  <2>2. \A c : FocusBinding(c)' = FocusBinding(c)
    BY <1>0 DEF FocusBinding, Binding, Combinations
  <2>3. Typed' /\ OwnClicks'
    BY <1>0 DEF Typed, OwnClicks
  <2>4. OnlyToFocus'
    BY <1>0, <2>2 DEF OnlyToFocus
  <2>5. \A c, button, mask : Wanted(c, button, mask)' <=> Wanted(c, button, mask)
    BY <1>0, <2>1 DEF Wanted
  <2>6. Exact'
    BY <1>0, <2>1, <2>5 DEF Exact
  <2> QED
    BY <2>3, <2>4, <2>6
<1>1. ASSUME NEW c \in Clients, Register(c) PROVE Grabbed'
  BY <1>1, ActivateGrabbed DEF Register
<1>2. ASSUME NEW c \in Clients, Raise(c) PROVE Grabbed'
  BY <1>2, ActivateGrabbed DEF Raise
<1>3. ASSUME NEW c \in Clients, Refocus(c) PROVE Grabbed'
  <2>1. {} \in SUBSET managed /\ {c} \in SUBSET managed' /\ active' \in managed' \cup {NULL}
    BY <1>3 DEF Refocus, Typed
  <2> QED
    BY <1>3, <2>1, FocusGrabbed DEF Refocus
<1>4. CASE Unfocus
  <2>1. PICK lost \in {{active} \ {NULL}, focused} : Focus(lost, {}, {})
    BY <1>4 DEF Unfocus
  <2>2. lost \in SUBSET managed /\ {} \in SUBSET managed' /\ active' \in managed' \cup {NULL}
    BY <1>4 DEF Unfocus, Typed
  <2> QED
    BY <1>4, <2>1, <2>2, FocusGrabbed DEF Unfocus
<1>5. ASSUME NEW c \in Clients, NEW button \in Buttons, NEW held \in Chords,
             Press(c, button, held)
      PROVE  Grabbed'
  <2>1. CASE UNCHANGED <<focused, active, grabs>>
    BY <1>5, <2>1, <1>0 DEF Press
  <2>2. CASE Activate(c, {})
    BY <1>5, <2>2, ActivateGrabbed DEF Press
  <2> QED
    BY <1>5, <2>1, <2>2 DEF Press, HandlePress
<1>6. ASSUME NEW key \in LockKeys, Toggle(key) PROVE Grabbed'
  BY <1>6, <1>0 DEF Toggle
<1>7. CASE Remap
  BY <1>7, <1>0 DEF Remap
<1>8. CASE UNCHANGED vars
  BY <1>8, <1>0 DEF vars
<1> QED
  BY <1>1, <1>2, <1>3, <1>4, <1>5, <1>6, <1>7, <1>8 DEF Next

LEMMA AlwaysGrabbed == Spec => []Grabbed
BY InitGrabbed, NextGrabbed, PTL DEF Spec

-----------------------------------------------------------------------------
(* The theorems *)

\* A client with the flag keeps its clicks, whatever lock keys there are, whichever
\* of them are on and however many clients have the flag: client_set_focused removes
\* all that client_set_unfocused made.
THEOREM FocusedKeepsClicks == Spec => []OwnClicks
BY AlwaysGrabbed, PTL DEF Grabbed

LEMMA PressMeant ==
  ASSUME Grabbed, NEW c \in Clients, NEW button \in Buttons, NEW held \in Chords,
         Press(c, button, held), Locked \subseteq Ignored,
         (held \cup {Mod1}) \cap Ignored = {}
  PROVE  result' = Meant(c, button, held) /\ (result' = "focus" => c \in focused' /\ active' = c)
<1> DEFINE mask == held \cup Locked
<1> USE DEF Mod1
<1>1. Ignored \subseteq Modifiers
  BY DEF Grabbed, Typed, Ignored
<1>2. mask \in SUBSET Modifiers /\ c \in managed
  BY <1>1, BindingsAssumption DEF Press
<1>3. Locked \in Combinations
  BY LockedMask DEF Grabbed
<1>4. \A also \in Combinations : also \subseteq Ignored
  BY MaskIgnored
<1>5. <<c, button, mask>> \in grabs <=>
        \/ button \in {1, 3} /\ held = {Mod1}
        \/ button = 1 /\ held = {} /\ c \notin focused
  <2>1. <<c, button, mask>> \in grabs <=>
          \E also \in Combinations :
            \/ button \in {1, 3} /\ mask = {Mod1} \cup also
            \/ button = 1 /\ mask = also /\ c \notin focused
    BY <1>2 DEF Grabbed, Exact, Wanted
  <2>2. ASSUME NEW also \in Combinations
        PROVE  /\ mask = {Mod1} \cup also => held = {Mod1}
               /\ mask = also => held = {}
    BY <1>4
  <2>3. held = {Mod1} => mask = {Mod1} \cup Locked
    OBVIOUS
  <2>4. held = {} => mask = Locked
    OBVIOUS
  <2> QED
    BY <2>1, <2>2, <2>3, <2>4, <1>3
<1>6. held \in {{}, {Mod1}} => CleanMask(mask) = held
  <2>1. CASE modifiers = NULL
    <3>1. Locked = {}
      BY <2>1 DEF Ignored
    <3> QED
      BY <2>1, <3>1 DEF CleanMask, Lock
  <2>2. CASE modifiers # NULL
    <3>1. CleanMask(mask) = mask \ Ignored
      BY <2>2 DEF CleanMask, Ignored
    <3> QED
      BY <3>1
  <2> QED
    BY <2>1, <2>2
<1>7. CASE button \in {1, 3} /\ held = {Mod1}
  BY <1>7, <1>5, <1>6 DEF Press, HandlePress, Meant
<1>8. CASE button = 1 /\ held = {} /\ c \notin focused
  BY <1>8, <1>5, <1>6 DEF Press, HandlePress, Meant, Activate, Focus
<1>9. CASE ~(button \in {1, 3} /\ held = {Mod1}) /\ ~(button = 1 /\ held = {} /\ c \notin focused)
  BY <1>9, <1>5 DEF Press, Meant
<1> QED
  BY <1>7, <1>8, <1>9

\* A press means the same whatever lock keys are on, for every keyboard and any
\* number of clients with the flag: the combinations of resolve_toggle_masks are
\* all there are, and no other binding than the one that was meant looks the same
\* once the locks are taken out.
THEOREM LocksDoNotMatter == Spec => PressIsMeant
<1>1. Grabbed /\ [Next]_vars =>
        [\A c \in Clients, button \in Buttons, held \in Chords :
           Press(c, button, held) /\ Locked \subseteq Ignored
           /\ (held \cup {Mod1}) \cap Ignored = {} =>
             /\ result' = Meant(c, button, held)
             /\ result' = "focus" => c \in focused' /\ active' = c]_vars
  BY PressMeant
<1> QED
  BY <1>1, AlwaysGrabbed, PTL DEF Spec, PressIsMeant

=============================================================================
