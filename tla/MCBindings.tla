----------------------------- MODULE MCBindings -----------------------------
(***************************************************************************)
(* Small instances of Bindings for TLC.                                    *)
(***************************************************************************)
EXTENDS Bindings

CONSTANTS c1, c2

TwoClients == {c1, c2}

Keys(num, caps, scroll, shift) ==
  [key \in LockKeys |-> CASE key = "num_lock" -> num
                          [] key = "caps_lock" -> caps
                          [] key = "scroll_lock" -> scroll
                          [] key = "shift_lock" -> shift]

\* As X comes; with a Scroll Lock; both on one modifier; with a Shift Lock
\* instead of Caps Lock; with Num Lock on two modifiers, and on that of natwm.
Keyboards == {Keys({4}, {1}, {}, {}), Keys({4}, {1}, {7}, {}), Keys({4}, {1}, {4}, {}),
              Keys({4}, {}, {}, {1}), Keys({4, 6}, {1}, {}, {}), Keys({3}, {1}, {}, {})}

\* Nothing, Mod1, Shift, both, and a modifier that may be one of a lock key.
Held == {{}, {Mod1}, {0}, {0, Mod1}, {4}}
=============================================================================
