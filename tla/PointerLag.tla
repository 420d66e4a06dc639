----------------------------- MODULE PointerLag -----------------------------
(***************************************************************************)
(* Pointer with a history: whether natwm is behind the pointer, so that    *)
(* what it measured a position from is no longer there.                    *)
(***************************************************************************)
EXTENDS Pointer

VARIABLE behind

lagVars == <<vars, behind>>

LagInit == Init /\ behind = FALSE

\* A press with events before it takes hold of the window at a place it will
\* have left; of two motions in the queue, the second is measured from a place
\* the window will have left.  A motion with nothing before it makes up for that.
Behind ==
  CASE ~Calm -> FALSE
    [] grab = NoGrab /\ grab' # NoGrab -> queue # <<>>
    [] pointer' # pointer ->
         queue # <<>> /\ (behind \/ \E i \in DOMAIN queue : queue[i].typ = "motion")
    [] OTHER -> behind

LagNext == Next /\ behind' = Behind

LagSpec == LagInit /\ [][LagNext]_lagVars /\ WF_lagVars(LagNext /\ Handle)

\* A window that is dragged is under the pointer, at the place where it was
\* taken hold of, whenever natwm has caught up, unless the last motion came
\* before an earlier one was handled (event_x is relative to the window):
\* however far natwm fell behind, the next motion brings the window back.
Follows ==
  /\ Calm /\ ~behind /\ queue = <<>>
  /\ grabbed # NULL /\ held = {1} /\ pointer <= MonitorWidth
  => pointer - at[grabbed] = start
=============================================================================
