----------------------------- MODULE NatwmCalm -----------------------------
(***************************************************************************)
(* The behaviours of Natwm with a history: whether natwm has so far        *)
(* handled each event before anything else happened, and no X client has   *)
(* unmapped its window.                                                    *)
(***************************************************************************)
EXTENDS Natwm

VARIABLE calm

CalmInit == Init /\ calm = TRUE

KeepsCalm ==
  \/ EventLoop
  \/ state.queue = <<>> /\ ~(\E w \in Windows : Withdraw(w))

CalmNext == Next /\ calm' = (calm /\ KeepsCalm)

CalmSpec == CalmInit /\ [][CalmNext]_<<state, calm>>

\* In calm natwm takes no client for hidden but one whose window is being
\* destroyed: the notifies its own switches cause are recognised by
\* CLIENT_OFF_SCREEN.
SwitchHidesNothing == calm => \A c \in state.hidden : state.win[Win(c)] = "gone"

=============================================================================
