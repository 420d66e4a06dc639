------------------------------ MODULE Bindings ------------------------------
(***************************************************************************)
(* The mouse bindings of button.c and the keys that lock: Num Lock, Caps   *)
(* Lock and Scroll Lock are modifiers to the X server, which activates a   *)
(* grab only for exactly the modifiers it was made with.  natwm therefore  *)
(* looks up the modifiers of these keys once, makes each grab again with   *)
(* every combination of them, and takes them out of the events it gets.    *)
(*                                                                         *)
(* A mask is the set of its bits: Shift is 0, Lock 1, Control 2, Mod1 3,   *)
(* up to Mod5.  An event is handled at once; what happens when it is not   *)
(* is the subject of Natwm (clicks) and Pointer (drags).  The clients are  *)
(* those of one workspace and are not hidden; Natwm has several of them,   *)
(* and a click is one grab there.                                          *)
(***************************************************************************)
EXTENDS Integers, FiniteSets

CONSTANTS
  Clients, NULL,
  Keymaps,        \* what the keyboard may be set to: lock key -> its modifiers
  Chords          \* modifiers the user may hold down

Modifiers == 0 .. 7
Lock == 1
Mod1 == 3
Buttons == 1 .. 3

Toggles == {"num_lock", "caps_lock", "scroll_lock"}
LockKeys == Toggles \cup {"shift_lock"}

ASSUME BindingsAssumption ==
  /\ NULL \notin Clients
  /\ Keymaps \subseteq [LockKeys -> SUBSET Modifiers] /\ Keymaps # {}
  /\ Chords \subseteq SUBSET Modifiers

VARIABLES
  keymap,         \* of the server, now
  on,             \* the lock keys that are on
  grabs,          \* of the server: <<window, button, modifiers>>
  modifiers,      \* button_state->modifiers
  managed,        \* clients that are registered
  focused,        \* clients with is_focused
  active,         \* active_client of the workspace
  result          \* of the last press: who got it

vars == <<keymap, on, grabs, modifiers, managed, focused, active, result>>

-----------------------------------------------------------------------------
(* button_state_create *)

\* modifier_mask_from_keysym: the first modifier with a key of this name.
MaskFrom(k, key) == {m \in k[key] : \A n \in k[key] : m <= n}

\* resolve_toggle_modifiers
Resolve(k) ==
  [t \in Toggles |-> IF t = "caps_lock" /\ k[t] = {} THEN {Lock} ELSE MaskFrom(k, t)]

\* Mutant: the keys are taken one at a time.
MasksSingle(m) == {m[t] : t \in Toggles} \ {{}}

\* resolve_toggle_masks: every combination of the keys that have a modifier.
Masks(m) == {UNION {m[t] : t \in T} : T \in SUBSET Toggles} \ {{}}

\* toggle_modifiers_get_clean_mask
CleanMask(mask) ==
  IF modifiers = NULL THEN mask \ {Lock} ELSE mask \ UNION {modifiers[t] : t \in Toggles}

\* The combinations a binding is grabbed with.
AlsoWith(m) == {{}} \cup IF m = NULL THEN {} ELSE Masks(m)

\* button_binding_grab, button_binding_ungrab: what they add or remove.
Binding(c, button, mods) == {<<c, button, mods \cup mask>> : mask \in AlsoWith(modifiers)}

\* Mutant: only the binding without locks is removed.
FocusUngrabOne(c) == {<<c, 1, {}>>}

FocusBinding(c) == Binding(c, 1, {})
FocusUngrab(c) == FocusBinding(c)

\* button_events, button_initialize_client_listeners
Listeners(c) == Binding(c, 1, {Mod1}) \cup Binding(c, 3, {Mod1})

-----------------------------------------------------------------------------
(* natwm *)

\* client_set_unfocused of the clients in lost, then client_set_focused of those in
\* gained.
Focus(lost, gained, made) ==
  /\ focused' = (focused \ lost) \cup gained
  /\ grabs' = (grabs \cup made \cup UNION {FocusBinding(c) : c \in lost})
                \ UNION {FocusUngrab(c) : c \in gained}

\* focus_client: the active client is the one that loses the focus.
Activate(c, made) == Focus({active} \ {NULL}, {c}, made) /\ active' = c

\* client_register_window, with workspace_add_client
Register(c) ==
  /\ c \notin managed
  /\ managed' = managed \cup {c}
  /\ Activate(c, Listeners(c))
  /\ UNCHANGED <<keymap, on, modifiers, result>>

\* client_configure_window with a stack mode: workspace_focus_client
Raise(c) ==
  /\ c \in managed \ focused
  /\ Activate(c, {})
  /\ UNCHANGED <<keymap, on, modifiers, managed, result>>

\* client_focus_window: no other client loses the focus, and the active client
\* remains what it was.  workspace_reset_focus does so to the active client when the
\* workspace is shown again.
Refocus(c) ==
  /\ c \in managed \ focused
  /\ Focus({}, {c}, {})
  /\ UNCHANGED <<keymap, on, modifiers, managed, active, result>>

\* workspace_set_unfocused or workspace_hide, as another workspace gets the focus:
\* the active client loses the focus, or every client that has it.
Unfocus ==
  /\ \E lost \in {{active} \ {NULL}, focused} : Focus(lost, {}, {})
  /\ UNCHANGED <<keymap, on, modifiers, managed, active, result>>

\* client_handle_button_press: which binding it was is told from the modifiers.
HandlePress(c, mask) ==
  CASE CleanMask(mask) = {} /\ c \notin focused -> result' = "focus" /\ Activate(c, {})
    [] CleanMask(mask) = {Mod1} -> result' = "grab" /\ UNCHANGED <<focused, active, grabs>>
    [] OTHER -> result' = "nobody" /\ UNCHANGED <<focused, active, grabs>>

-----------------------------------------------------------------------------
(* The user and the X server *)

\* The modifiers the lock keys that are on stand for.
Locked == UNION {keymap[key] : key \in on}

\* A press is reported to natwm if there is a grab for exactly this, else it
\* goes to the window.
Press(c, button, held) ==
  LET mask == held \cup Locked
  IN  /\ c \in managed
      /\ IF <<c, button, mask>> \in grabs THEN HandlePress(c, mask)
         ELSE result' = "window" /\ UNCHANGED <<focused, active, grabs>>
      /\ UNCHANGED <<keymap, on, modifiers, managed>>

Toggle(key) ==
  /\ on' = IF key \in on THEN on \ {key} ELSE on \cup {key}
  /\ UNCHANGED <<keymap, grabs, modifiers, managed, focused, active, result>>

\* Another keyboard, or xmodmap: natwm ignores the MappingNotify.
Remap ==
  /\ keymap' \in Keymaps
  /\ UNCHANGED <<on, grabs, modifiers, managed, focused, active, result>>

\* button_state_create; the replies it needs may be missing.
Init ==
  /\ keymap \in Keymaps /\ on = {} /\ grabs = {}
  /\ modifiers \in {Resolve(keymap), NULL}
  /\ managed = {} /\ focused = {} /\ active = NULL /\ result = "none"

Next ==
  \/ \E c \in Clients :
       \/ Register(c) \/ Raise(c) \/ Refocus(c)
       \/ \E button \in Buttons, held \in Chords : Press(c, button, held)
  \/ Unfocus
  \/ \E key \in LockKeys : Toggle(key)
  \/ Remap

Spec == Init /\ [][Next]_vars

-----------------------------------------------------------------------------
(* What the user can rely on *)

\* The modifiers natwm takes for those of lock keys.
Ignored == IF modifiers = NULL THEN {} ELSE UNION {modifiers[t] : t \in Toggles}

\* What a press is for: locks do not matter.  A client that natwm takes for focused
\* gets its clicks, also one that kept the flag when client_focus_window gave the
\* focus to another.
Meant(c, button, held) ==
  IF button = 1 /\ held = {} /\ c \notin focused THEN "focus"
  ELSE IF button \in {1, 3} /\ held = {Mod1} THEN "grab"
  ELSE "window"

\* A press is what it was meant to be, and a click on a client without the flag
\* makes it the focused and active one, whatever lock keys are on and however the
\* others came by their focus, as long as the modifiers of these keys are those
\* natwm has found, and the modifiers of the user are not.
PressIsMeant ==
  [][\A c \in Clients, button \in Buttons, held \in Chords :
       Press(c, button, held) /\ Locked \subseteq Ignored
       /\ (held \cup {Mod1}) \cap Ignored = {} =>
         /\ result' = Meant(c, button, held)
         /\ result' = "focus" => c \in focused' /\ active' = c]_vars

\* A client with the flag has its clicks to itself: all that was grabbed for "click
\* to focus" is gone, so no lock key brings it back, wherever its modifier is now.
OwnClicks ==
  \A c \in focused, g \in grabs : g[1] = c => Mod1 \in g[3]

=============================================================================
