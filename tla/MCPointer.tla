----------------------------- MODULE MCPointer -----------------------------
(***************************************************************************)
(* PointerLag for TLC: the monitor is a part of the screen, so that the    *)
(* pointer can leave it.                                                   *)
(***************************************************************************)
EXTENDS PointerLag

CONSTANTS c1, c2

TwoClients == {c1, c2}

\* Two clients, or natwm further behind, with one button at a time; one client
\* with everything.
CalmOrNot == {[clients |-> TwoClients, allowed |-> {}, lag |-> 2],
              [clients |-> {c1}, allowed |-> {}, lag |-> 3],
              [clients |-> {c1}, allowed |-> Disturbances, lag |-> 1]}
=============================================================================
