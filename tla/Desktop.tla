------------------------------ MODULE Desktop ------------------------------
(***************************************************************************)
(* What natwm promises about workspaces: which monitor shows which         *)
(* workspace, which workspace is current, and which window is on which.    *)
(* Module Natwm, without the requests to activate a window, implements it. *)
(***************************************************************************)
EXTENDS Integers

CONSTANTS Windows, WorkspaceCount, MonitorCount, NULL

Workspaces == 0 .. WorkspaceCount - 1
Monitors   == 1 .. MonitorCount

VARIABLES
  current,   \* the focused workspace
  shows,     \* the workspace on each monitor; NULL if there are too few
  home       \* the workspace of each window; NULL if it is not managed

vars == <<current, shows, home>>

Shown(i) == \E m \in Monitors : shows[m] = i

Init ==
  /\ current = 0
  /\ shows = [m \in Monitors |-> IF m <= WorkspaceCount THEN m - 1 ELSE NULL]
  /\ home = [w \in Windows |-> NULL]

\* Bring workspace i to the monitor of the current one.  If it is on another
\* monitor the two change places.
Switch(i) ==
  /\ i # current
  /\ current' = i
  /\ shows' = [m \in Monitors |-> IF shows[m] = current THEN i
                                  ELSE IF shows[m] = i THEN current
                                  ELSE shows[m]]
  /\ UNCHANGED home

\* Turn to a workspace on another monitor: a window there is clicked on or
\* raised.
Turn(i) == Shown(i) /\ current' = i /\ UNCHANGED <<shows, home>>

Manage(w) ==
  /\ home[w] = NULL
  /\ home' = [home EXCEPT ![w] = current]
  /\ UNCHANGED <<current, shows>>

\* Nothing is sent to the workspace one is on.
Move(w, i) ==
  /\ home[w] # NULL /\ i # current
  /\ home' = [home EXCEPT ![w] = i]
  /\ UNCHANGED <<current, shows>>

Forget(w) ==
  /\ home' = [home EXCEPT ![w] = NULL]
  /\ UNCHANGED <<current, shows>>

Next ==
  \/ \E i \in Workspaces : Switch(i) \/ Turn(i)
  \/ \E w \in Windows : \/ Manage(w) \/ Forget(w)
                        \/ \E i \in Workspaces : Move(w, i)

Spec == Init /\ [][Next]_vars

-----------------------------------------------------------------------------
(* What the user can rely on *)

\* The shape of the state; every index is that of a workspace.
TypeOK ==
  /\ current \in Workspaces
  /\ shows \in [Monitors -> Workspaces \cup {NULL}]
  /\ home \in [Windows -> Workspaces \cup {NULL}]

\* The current workspace is always on a monitor.
CurrentShown == Shown(current)

\* No workspace is on two monitors.
ShownOnce ==
  \A m, n \in Monitors : shows[m] = shows[n] /\ shows[m] # NULL => m = n
=============================================================================
