------------------------------- MODULE Natwm -------------------------------
(***************************************************************************)
(* The window manager proper: workspaces, clients, monitors, focus.        *)
(*                                                                         *)
(* natwm is one thread that takes X events one at a time (natwm.c          *)
(* wm_event_loop, events/event.c event_handle) and mutates one structure,  *)
(* struct natwm_state.  "state" is that structure together with the part   *)
(* of the X server it talks to.  A C function that changes the structure   *)
(* is an operator from the state before the call to the state after it, so *)
(* that nested calls compose as they do in the code; an event handler is   *)
(* an action.                                                              *)
(*                                                                         *)
(* Requests of natwm are executed by the server when they are issued, and  *)
(* the events they cause go to the end of "queue".  Events that depend on  *)
(* the state of the server when they are produced (notifies, the focus     *)
(* click) travel through "queue"; client messages, map requests and        *)
(* configure requests are handled at any moment, which stands for a        *)
(* message sent before everything that is still in the queue.              *)
(*                                                                         *)
(* Geometry, borders, fullscreen, mouse dragging and the EWMH hints other  *)
(* than the two below are not here.                                        *)
(***************************************************************************)
EXTENDS Integers, Sequences, FiniteSets

CONSTANTS
  Windows,         \* windows of the X clients
  Docks,           \* those whose _NET_WM_WINDOW_TYPE is not NORMAL
  WorkspaceCount,  \* NATWM_WORKSPACE_COUNT, 10 in constants.h
  MonitorCount,    \* monitors found by monitor_setup
  Remaps,          \* how often a still registered window asks to be mapped
  Messages,        \* what other programs ask natwm to do
  QueueBound,      \* environment pauses with more events than this pending
  NULL, Root, PointerRoot

AllMessages == {"switch", "send", "activate", "raise", "lower", "withdraw",
                "destroy", "click"}

ASSUME ConstantsAssumption ==
  /\ Docks \subseteq Windows
  /\ WorkspaceCount \in Nat \ {0}
  /\ MonitorCount \in Nat \ {0}
  /\ Remaps \in Nat
  /\ QueueBound \in Nat
  /\ Messages \subseteq AllMessages
  /\ NULL \notin Windows /\ Root \notin Windows /\ PointerRoot \notin Windows
  /\ NULL \notin Int /\ NULL \notin Windows \X Int

Workspaces == 0 .. WorkspaceCount - 1
Monitors   == 1 .. MonitorCount      \* in the order of monitor_list->monitors
Clients    == Windows \X (0 .. Remaps)

\* struct client is <<window, n>>, the n-th structure made for that window.
Win(c) == c[1]

EventTypes == {"MapNotify", "UnmapNotify", "DestroyNotify", "ButtonPress"}
Events     == [type : EventTypes, window : Windows]
Event(t, w) == [type |-> t, window |-> w]

OptWorkspace == Workspaces \cup {NULL}
OptClient    == Clients \cup {NULL}
OptWindow    == Windows \cup {NULL}
FocusWindows == Windows \cup {Root, PointerRoot}    \* of the input focus
WinStates    == {"unmapped", "mapped", "gone"}

VARIABLE state

State ==
  [ \* struct workspace_list and its workspaces
    activeIndex : Workspaces,
    clients   : [Workspaces -> Seq(Clients)],
    active    : [Workspaces -> OptClient],
    visible   : SUBSET Workspaces,             \* is_visible
    wsFocused : SUBSET Workspaces,             \* is_focused
    registry  : [Windows -> OptWorkspace],     \* client_map
    \* struct monitor: workspace
    shows     : [Monitors -> OptWorkspace],
    \* struct client: which are allocated, and their flags
    live      : SUBSET Clients,
    focused   : SUBSET Clients,                \* is_focused
    hidden    : SUBSET Clients,                \* CLIENT_HIDDEN
    offscreen : SUBSET Clients,                \* CLIENT_OFF_SCREEN
    \* the X server
    win       : [Windows -> WinStates],
    grabs     : SUBSET Windows,                \* windows with the focus grab
    frozen    : OptWindow,                     \* pointer frozen by a click on
    input     : FocusWindows,                  \* input focus
    activeWin : FocusWindows,                  \* _NET_ACTIVE_WINDOW
    desktop   : Workspaces,                    \* _NET_CURRENT_DESKTOP
    queue     : Seq(Events) ]

-----------------------------------------------------------------------------
(* Requests natwm sends to the X server *)

\* xcb_map_window: a window already mapped, or gone, gives no event.
XMap(s, w) ==
  IF s.win[w] # "unmapped" THEN s
  ELSE [s EXCEPT !.win[w] = "mapped",
                 !.queue = Append(@, Event("MapNotify", w))]

\* Unmapping a set of windows, reported in the order of es.  A grab ends when
\* its window is no longer viewable, and the focus reverts.
XUnmapAll(s, ws, es) ==
  [s EXCEPT !.win = [w \in Windows |-> IF w \in ws THEN "unmapped" ELSE @[w]],
            !.queue = @ \o es,
            !.frozen = IF @ \in ws THEN NULL ELSE @,
            !.input = IF @ \in ws THEN PointerRoot ELSE @]

XUnmap(s, w) ==
  IF s.win[w] # "mapped" THEN s
  ELSE XUnmapAll(s, {w}, <<Event("UnmapNotify", w)>>)

\* button_binding_grab and button_binding_ungrab with client_focus_event: the
\* next plain click on the window freezes the pointer and is reported.
XGrab(s, ws) == [s EXCEPT !.grabs = @ \cup {w \in ws : s.win[w] # "gone"}]

XUngrab(s, w) == [s EXCEPT !.grabs = @ \ {w}]

\* client_set_window_input_focus.  The server refuses (BadMatch, BadWindow) to
\* focus a window that is not viewable; the property is written regardless.
XFocus(s, w) ==
  [s EXCEPT !.activeWin = w,
            !.input = IF s.win[w] = "mapped" THEN w ELSE @]

\* reset_input_focus
ResetInputFocus(s) == [s EXCEPT !.activeWin = Root, !.input = Root]

-----------------------------------------------------------------------------
(* Lookups *)

Members(s, i) == {s.clients[i][k] : k \in 1 .. Len(s.clients[i])}

\* get_client_node_from_client, workspace_find_window_client: the positions
\* with this window, of which the code takes the first.
Nodes(s, i, w) == {k \in 1 .. Len(s.clients[i]) : Win(s.clients[i][k]) = w}

FirstNode(s, i, w) ==
  CHOOSE k \in Nodes(s, i, w) : \A l \in Nodes(s, i, w) : k <= l

FindClient(s, i, w) ==
  IF Nodes(s, i, w) = {} THEN NULL ELSE s.clients[i][FirstNode(s, i, w)]

\* workspace_list_find_window_client: workspaces are scanned from the first.
HomesOf(s, w) == {i \in Workspaces : Nodes(s, i, w) # {}}

FindListedClient(s, w) ==
  IF HomesOf(s, w) = {} THEN NULL
  ELSE FindClient(s, CHOOSE i \in HomesOf(s, w) :
                       \A j \in HomesOf(s, w) : i <= j, w)

\* monitor_list_get_workspace_monitor and monitor_list_get_active_monitor
MonitorsOf(s, i) == {m \in Monitors : s.shows[m] = i}

FirstOf(ms) == IF ms = {} THEN NULL ELSE CHOOSE m \in ms : \A n \in ms : m <= n

ActiveMonitor(s) == FirstOf({m \in Monitors : s.shows[m] \in s.wsFocused})

\* list_remove, list_move_node_to_head, list_move_node_to_tail
Without(q, k)    == SubSeq(q, 1, k - 1) \o SubSeq(q, k + 1, Len(q))
ToHead(q, k)     == <<q[k]>> \o Without(q, k)
ToTail(q, k)     == Without(q, k) \o <<q[k]>>

-----------------------------------------------------------------------------
(* client.c and workspace.c: focus *)

ClientSetUnfocused(s, c) ==
  IF c = NULL \/ c \in s.hidden THEN s
  ELSE XGrab([s EXCEPT !.focused = @ \ {c}], {Win(c)})

WorkspaceSetUnfocused(s, i) ==
  IF i \notin s.wsFocused THEN s
  ELSE [ClientSetUnfocused(s, s.active[i]) EXCEPT !.wsFocused = @ \ {i}]

WorkspaceSetFocusedTwice(s, i) ==
  IF i \in s.wsFocused THEN s
  ELSE [s EXCEPT !.wsFocused = @ \cup {i}, !.activeIndex = i, !.desktop = i]

WorkspaceSetFocused(s, i) ==
  IF i \in s.wsFocused THEN s
  ELSE [WorkspaceSetUnfocused(s, s.activeIndex)
          EXCEPT !.wsFocused = @ \cup {i},
                 !.activeIndex = i,
                 !.desktop = i]

ClientSetFocused(s, c) ==
  IF c = NULL \/ c \in s.hidden THEN s
  ELSE IF s.registry[Win(c)] = NULL THEN s
  ELSE LET s1 == XFocus([s EXCEPT !.focused = @ \cup {c}], Win(c))
       IN  XUngrab(WorkspaceSetFocused(s1, s.registry[Win(c)]), Win(c))

FocusClient(s, i, k, c) ==
  LET s1 == ClientSetUnfocused(s, s.active[i])
      s2 == [s1 EXCEPT !.active[i] = c, !.clients[i] = ToHead(@, k)]
  IN  ClientSetFocused(s2, c)

\* The positions of the clients workspace_reset_focus may turn to.
Showable(s, i) == {k \in 1 .. Len(s.clients[i]) : s.clients[i][k] \notin s.hidden}

WorkspaceResetFocus(s, i) ==
  IF i \notin s.wsFocused THEN s
  ELSE IF s.clients[i] = <<>> THEN ResetInputFocus(s)
  ELSE IF s.active[i] # NULL
       THEN IF s.active[i] \in s.offscreen THEN ClientSetFocused(s, s.active[i])
            ELSE XFocus(s, Win(s.active[i]))
  ELSE IF Showable(s, i) = {} THEN ResetInputFocus(s)
  ELSE LET k == FirstOf(Showable(s, i)) IN FocusClient(s, i, k, s.clients[i][k])

\* The cases in which workspace_focus_client returns NO_ERROR.
MayFocus(s, i, c) ==
  c \notin s.focused /\ c \notin s.hidden /\ Nodes(s, i, Win(c)) # {}

WorkspaceFocusClient(s, i, c) ==
  IF ~MayFocus(s, i, c) THEN s
  ELSE WorkspaceSetFocused(FocusClient(s, i, FirstNode(s, i, Win(c)), c), i)

WorkspaceUnfocusClient(s, i, c) ==
  LET k == FirstNode(s, i, Win(c))
  IN  IF Nodes(s, i, Win(c)) = {} \/ k = Len(s.clients[i]) THEN s
      ELSE LET s1 == IF c \in s.focused
                     THEN WorkspaceFocusClient(s, i, s.clients[i][k + 1])
                     ELSE s
           IN  [s1 EXCEPT !.clients[i] = ToTail(@, FirstNode(s1, i, Win(c)))]

-----------------------------------------------------------------------------
(* workspace.c: hiding, showing, moving *)

\* client_hide
ClientHide(s, c) ==
  LET s1 == IF c \in s.focused THEN ClientSetUnfocused(s, c) ELSE s
  IN  XUnmap([s1 EXCEPT !.offscreen = @ \cup {c}], Win(c))

\* client_show; client_map also clears CLIENT_HIDDEN
ClientShow(s, c) == XMap([s EXCEPT !.hidden = @ \ {c}], Win(c))

\* The positions the loops over workspace->clients do not skip and at which the
\* window is still in "from"; the events they cause, in the order of the list.
LoopNodes(s, i, from) ==
  {k \in Showable(s, i) :
     LET w == Win(s.clients[i][k])
     IN  s.win[w] = from /\ \A l \in Nodes(s, i, w) \cap Showable(s, i) : k <= l}

LoopWindows(s, i, from) == {Win(s.clients[i][k]) : k \in LoopNodes(s, i, from)}

\* The n-th smallest number of K.
Nth(K, n) == CHOOSE k \in K : Cardinality({l \in K : l <= k}) = n

LoopEvents(s, i, from, type) ==
  LET K == LoopNodes(s, i, from)
  IN  [n \in 1 .. Cardinality(K) |-> Event(type, Win(s.clients[i][Nth(K, n)]))]

\* Mutant: windows are hidden without client_set_unfocused.
WorkspaceHideFocused(s, i) ==
  IF i \notin s.visible THEN s
  ELSE XUnmapAll([s EXCEPT !.wsFocused = @ \ {i},
                           !.visible = @ \ {i},
                           !.focused = @ \ (Members(s, i) \ s.hidden),
                           !.offscreen = @ \cup (Members(s, i) \ s.hidden)],
                 LoopWindows(s, i, "mapped"),
                 LoopEvents(s, i, "mapped", "UnmapNotify"))

WorkspaceHide(s, i) ==
  IF i \notin s.visible THEN s
  ELSE LET loop == Members(s, i) \ s.hidden
           s1   == [s EXCEPT !.wsFocused = @ \ {i},
                             !.visible = @ \ {i},
                             !.focused = @ \ loop,
                             !.offscreen = @ \cup loop]
           s2   == XGrab(s1, {Win(c) : c \in loop \cap s.focused})
       IN  XUnmapAll(s2, LoopWindows(s, i, "mapped"),
                     LoopEvents(s, i, "mapped", "UnmapNotify"))

WorkspaceSendToMonitor(s, i, m) ==
  LET ws == LoopWindows(s, i, "unmapped")
  IN  [s EXCEPT !.win = [w \in Windows |-> IF w \in ws THEN "mapped" ELSE @[w]],
                !.queue = @ \o LoopEvents(s, i, "unmapped", "MapNotify"),
                !.visible = @ \cup {i},
                !.shows[m] = i]

\* Mutants: a workspace that is on another monitor is not taken from there; the
\* workspace changes without workspace_reset_focus.
WorkspaceTakeMonitor(s, next) ==
  LET s1 == WorkspaceSendToMonitor(WorkspaceHide(s, s.activeIndex), next, ActiveMonitor(s))
  IN  IF next \in s.wsFocused \/ ActiveMonitor(s) = NULL THEN s
      ELSE WorkspaceResetFocus(WorkspaceSetFocused(s1, next), next)

WorkspaceChangeKeepFocus(s, next) ==
  LET cur  == s.activeIndex
      nxtM == FirstOf(MonitorsOf(s, next))
      s1   == WorkspaceHide(s, cur)
      s2   == IF next \in s1.visible /\ nxtM # NULL
              THEN WorkspaceSendToMonitor(WorkspaceHide(s1, next), cur, nxtM)
              ELSE s1
  IN  IF next \in s.wsFocused \/ ActiveMonitor(s) = NULL THEN s
      ELSE WorkspaceSetFocused(WorkspaceSendToMonitor(s2, next, ActiveMonitor(s)), next)

\* Called by workspace_list_switch_to_workspace only, which checks the same
\* is_focused first.
WorkspaceChangeMonitor(s, next) ==
  LET cur  == s.activeIndex
      curM == ActiveMonitor(s)
      nxtM == FirstOf(MonitorsOf(s, next))
      s1   == WorkspaceHide(s, cur)
      s2   == IF next \in s1.visible /\ nxtM # NULL
              THEN WorkspaceSendToMonitor(WorkspaceHide(s1, next), cur, nxtM)
              ELSE s1
      s3   == WorkspaceSendToMonitor(s2, next, curM)
  IN  IF next \in s.wsFocused \/ curM = NULL THEN s
      ELSE WorkspaceResetFocus(WorkspaceSetFocused(s3, next), next)

WorkspaceAddClient(s, i, c) ==
  LET s1 == [s EXCEPT !.clients[i] = <<c>> \o @, !.registry[Win(c)] = i]
  IN  [ClientSetUnfocused(s1, s.active[i]) EXCEPT !.active[i] = c]

\* Mutants: the entry of the map stays; active_client keeps the pointer.
WorkspaceRemoveUnmapped(s, i, c) ==
  LET s1 == [s EXCEPT !.clients[i] = Without(@, FirstNode(s, i, Win(c)))]
  IN  IF Nodes(s, i, Win(c)) = {} THEN s
      ELSE IF s.active[i] # c THEN s1
      ELSE WorkspaceResetFocus([s1 EXCEPT !.active[i] = NULL], i)

WorkspaceRemoveDangling(s, i, c) ==
  LET s1 == [s EXCEPT !.clients[i] = Without(@, FirstNode(s, i, Win(c))),
                      !.registry[Win(c)] = NULL]
  IN  IF Nodes(s, i, Win(c)) = {} THEN s ELSE WorkspaceResetFocus(s1, i)

WorkspaceRemoveClient(s, i, c) ==
  LET s1 == [s EXCEPT !.clients[i] = Without(@, FirstNode(s, i, Win(c))),
                      !.registry[Win(c)] = NULL]
  IN  IF Nodes(s, i, Win(c)) = {} THEN s
      ELSE IF s.active[i] # c THEN s1
      ELSE WorkspaceResetFocus([s1 EXCEPT !.active[i] = NULL], i)

\* Mutants: a client sent to another monitor is not mapped there; the focus
\* follows the window to its new workspace.
SendUnshown(s, c, j) ==
  LET i  == s.registry[Win(c)]
      s1 == ClientHide(s, c)
  IN  IF j \in s.wsFocused \/ i = NULL THEN s
      ELSE IF Nodes(s1, i, Win(c)) = {} THEN s1
      ELSE WorkspaceAddClient(WorkspaceRemoveClient(s1, i, c), j, c)

SendAndFollow(s, c, j) ==
  LET i  == s.registry[Win(c)]
      s1 == ClientHide(s, c)
      s2 == WorkspaceAddClient(WorkspaceRemoveClient(s1, i, c), j, c)
  IN  IF j \in s.wsFocused \/ i = NULL THEN s
      ELSE IF Nodes(s1, i, Win(c)) = {} THEN s1
      ELSE ClientSetFocused(IF j \in s2.visible THEN ClientShow(s2, c) ELSE s2, c)

\* A client that is not found stays hidden where it is.
SendToWorkspace(s, c, j) ==
  LET i  == s.registry[Win(c)]
      s1 == ClientHide(s, c)
      s2 == WorkspaceAddClient(WorkspaceRemoveClient(s1, i, c), j, c)
  IN  IF j \in s.wsFocused \/ i = NULL THEN s
      ELSE IF Nodes(s1, i, Win(c)) = {} THEN s1
      ELSE IF j \in s2.visible /\ MonitorsOf(s2, j) # {} THEN ClientShow(s2, c)
      ELSE s2

-----------------------------------------------------------------------------
(* What the handlers of client.c do with the window of an event *)

\* The client the code finds through client_map, if any.
RegisteredClient(s, w) ==
  IF s.registry[w] = NULL THEN NULL ELSE FindClient(s, s.registry[w], w)

\* client_register_window.  Replies that fail make it give up unchanged.
RegisterWindow(s, w, c) ==
  LET i  == s.activeIndex
      s1 == XMap([s EXCEPT !.live = @ \cup {c}], w)
  IN  IF MonitorsOf(s, i) = {} THEN s
      ELSE ClientSetFocused(WorkspaceAddClient(s1, i, c), c)

HandleMapNotify(s, w) ==
  LET c == RegisteredClient(s, w)
  IN  IF c \notin s.offscreen \/ s.registry[w] \notin s.visible THEN s
      ELSE [s EXCEPT !.offscreen = @ \ {c}]

\* Mutant: CLIENT_OFF_SCREEN is not looked at.
HandleUnmapNotifyHides(s, w) ==
  LET c  == RegisteredClient(s, w)
      s1 == [s EXCEPT !.hidden = @ \cup {c}]
  IN  IF c = NULL THEN s
      ELSE IF c \in s.focused THEN WorkspaceResetFocus(s1, s.registry[w])
      ELSE s1

\* client_unmap_window
HandleUnmapNotify(s, w) ==
  LET c  == RegisteredClient(s, w)
      s1 == IF c \in s.offscreen THEN s ELSE [s EXCEPT !.hidden = @ \cup {c}]
  IN  IF c = NULL THEN s
      ELSE IF c \in s.focused THEN WorkspaceResetFocus(s1, s.registry[w])
      ELSE s1

\* client_destroy: the structure and its flags no longer exist.
ClientDestroy(s, c) ==
  [s EXCEPT !.live = @ \ {c}, !.focused = @ \ {c},
            !.hidden = @ \ {c}, !.offscreen = @ \ {c}]

\* Mutant: a window that was unmapped before is taken for handled.
HandleDestroyHidden(s, w) ==
  LET c == RegisteredClient(s, w)
  IN  IF s.registry[w] = NULL THEN WorkspaceResetFocus(s, s.activeIndex)
      ELSE IF c = NULL \/ c \in s.hidden THEN s
      ELSE ClientDestroy(WorkspaceRemoveClient(s, s.registry[w], c), c)

HandleDestroyNotify(s, w) ==
  LET c == RegisteredClient(s, w)
  IN  IF s.registry[w] = NULL THEN WorkspaceResetFocus(s, s.activeIndex)
      ELSE IF c = NULL THEN s
      ELSE ClientDestroy(WorkspaceRemoveClient(s, s.registry[w], c), c)

\* client_handle_button_press and button_handle_focus.  The pointer is
\* released (xcb_allow_events) only if the client could be focused.
HandleButtonPress(s, w) ==
  LET i == s.registry[w]
      c == RegisteredClient(s, w)
  IN  IF c = NULL \/ MonitorsOf(s, i) = {} \/ ~MayFocus(s, i, c) THEN s
      ELSE [WorkspaceFocusClient(s, i, c) EXCEPT !.frozen = NULL]

\* client_configure_window with XCB_STACK_MODE_ABOVE or BELOW
HandleConfigureRequest(s, w, mode) ==
  LET i == s.registry[w]
      c == RegisteredClient(s, w)
  IN  IF c = NULL \/ MonitorsOf(s, i) = {} THEN s
      ELSE IF mode = "raise" THEN WorkspaceFocusClient(s, i, c)
      ELSE WorkspaceUnfocusClient(s, i, c)

\* client_focus_window, for _NET_ACTIVE_WINDOW
HandleActiveWindow(s, w) ==
  LET c == FindListedClient(s, w)
  IN  IF c = NULL THEN XFocus(s, w)
      ELSE IF c \in s.focused THEN s
      ELSE ClientSetFocused(s, c)

\* client_send_window_to_workspace, for _NET_WM_DESKTOP
HandleWmDesktop(s, w, j) ==
  LET c == FindListedClient(s, w)
  IN  IF c = NULL \/ j \notin Workspaces THEN s ELSE SendToWorkspace(s, c, j)

\* workspace_list_switch_to_workspace, for _NET_CURRENT_DESKTOP
HandleCurrentDesktop(s, j) ==
  IF j \notin Workspaces \/ j \in s.wsFocused THEN s
  ELSE WorkspaceChangeMonitor(s, j)

-----------------------------------------------------------------------------
(* The X clients and the user *)

EnvironmentMay(message) ==
  message \in Messages /\ Len(state.queue) <= QueueBound

\* The events of a window still in the queue tell what it was in the past:
\* the state it had when everything that is in the queue was still to come.
Pending(w) == {k \in 1 .. Len(state.queue) :
                 state.queue[k].window = w /\ state.queue[k].type # "ButtonPress"}

FrontState(w) ==
  IF Pending(w) = {} THEN state.win[w]
  ELSE IF state.queue[FirstOf(Pending(w))].type = "UnmapNotify" THEN "mapped"
  ELSE "unmapped"

\* event_handle_map_request
MapRequest(w) ==
  /\ Len(state.queue) <= QueueBound
  /\ FrontState(w) = "unmapped" /\ state.win[w] # "gone"
  /\ \/ /\ w \in Docks
        /\ state' = XMap(state, w)
     \/ /\ w \notin Docks
        /\ \E n \in 0 .. Remaps :
             /\ <<w, n>> \notin state.live
             /\ \A m \in 0 .. n - 1 : <<w, m>> \in state.live
             /\ state' = RegisterWindow(state, w, <<w, n>>)

\* An X client unmaps its window.
Withdraw(w) ==
  /\ EnvironmentMay("withdraw")
  /\ state.win[w] = "mapped"
  /\ state' = XUnmap(state, w)

\* An X client destroys its window, or natwm does so on _NET_CLOSE_WINDOW.
DestroyWindow(w) ==
  /\ EnvironmentMay("destroy")
  /\ state.win[w] # "gone"
  /\ LET s1 == XUnmap(state, w)
     IN  state' = [s1 EXCEPT !.win[w] = "gone",
                             !.grabs = @ \ {w},
                             !.queue = Append(@, Event("DestroyNotify", w))]

\* A click on a window with the focus grab freezes the pointer.
Click(w) ==
  /\ EnvironmentMay("click")
  /\ state.win[w] = "mapped" /\ w \in state.grabs /\ state.frozen = NULL
  /\ state' = [state EXCEPT !.frozen = w,
                            !.queue = Append(@, Event("ButtonPress", w))]

ConfigureRequest(w, mode) ==
  /\ EnvironmentMay(mode)
  /\ state.win[w] # "gone" \/ Pending(w) # {}
  /\ state' = HandleConfigureRequest(state, w, mode)

ActiveWindow(w) ==
  /\ EnvironmentMay("activate")
  /\ state' = HandleActiveWindow(state, w)

\* WorkspaceCount stands for every index that does not exist.
WmDesktop(w, j) ==
  /\ EnvironmentMay("send")
  /\ state' = HandleWmDesktop(state, w, j)

CurrentDesktop(j) ==
  /\ EnvironmentMay("switch")
  /\ state' = HandleCurrentDesktop(state, j)

-----------------------------------------------------------------------------
(* The event loop *)

Receive(type, Handler(_, _)) ==
  \E w \in Windows :
    /\ state.queue # <<>>
    /\ Head(state.queue) = Event(type, w)
    /\ state' = Handler([state EXCEPT !.queue = Tail(@)], w)

MapNotify     == Receive("MapNotify", HandleMapNotify)
UnmapNotify   == Receive("UnmapNotify", HandleUnmapNotify)
DestroyNotify == Receive("DestroyNotify", HandleDestroyNotify)
ButtonPress   == Receive("ButtonPress", HandleButtonPress)

EventLoop == MapNotify \/ UnmapNotify \/ DestroyNotify \/ ButtonPress

\* natwm_state_create, workspace_list_init, attach_to_monitors: as long as
\* there are workspaces, a monitor gets the next one.
Init ==
  LET shown == [m \in Monitors |-> IF m - 1 \in Workspaces THEN m - 1 ELSE NULL]
  IN  state =
        [activeIndex |-> 0,
         clients   |-> [i \in Workspaces |-> <<>>],
         active    |-> [i \in Workspaces |-> NULL],
         visible   |-> {i \in Workspaces : i < MonitorCount},
         wsFocused |-> {0},
         registry  |-> [w \in Windows |-> NULL],
         shows     |-> shown,
         live |-> {}, focused |-> {}, hidden |-> {}, offscreen |-> {},
         win       |-> [w \in Windows |-> "unmapped"],
         grabs |-> {}, frozen |-> NULL, input |-> Root, activeWin |-> Root,
         desktop   |-> 0,
         queue     |-> <<>>]

Next ==
  \/ EventLoop
  \/ \E w \in Windows :
       \/ MapRequest(w) \/ Withdraw(w) \/ DestroyWindow(w) \/ Click(w)
       \/ ActiveWindow(w)
       \/ \E mode \in {"raise", "lower"} : ConfigureRequest(w, mode)
       \/ \E j \in 0 .. WorkspaceCount : WmDesktop(w, j)
  \/ \E j \in 0 .. WorkspaceCount : CurrentDesktop(j)

\* wm_event_loop reads the connection again and again.
Spec == Init /\ [][Next]_state /\ WF_state(EventLoop)

-----------------------------------------------------------------------------
(* What other programs and the user can rely on *)

\* The state keeps its shape; in particular every index that active_index, the
\* client map and _NET_CURRENT_DESKTOP hold is that of a workspace.
TypeOK == state \in State

\* There is one focused workspace, it is the one active_index says
\* (workspace_set_focused and workspace_set_unfocused run nested in
\* client_set_focused, and workspace_hide clears the flag on its own), and
\* _NET_CURRENT_DESKTOP names it.
OneFocusedWorkspace ==
  /\ state.wsFocused = {state.activeIndex}
  /\ state.desktop = state.activeIndex

\* is_visible, which workspace_hide and workspace_send_to_monitor maintain, and
\* monitor->workspace never disagree, and no workspace is on two monitors.
MonitorsAgree ==
  /\ state.visible = {state.shows[m] : m \in Monitors} \ {NULL}
  /\ \A m, n \in Monitors :
       state.shows[m] = state.shows[n] /\ state.shows[m] # NULL => m = n

\* client_map and the lists agree: the window of an entry is on the list of the
\* workspace of the entry, once and with an allocated structure, and on no
\* other list (workspace_add_client, workspace_remove_client).
RegistryAgrees ==
  \A w \in Windows, i \in Workspaces :
    IF state.registry[w] = i
    THEN \E k \in 1 .. Len(state.clients[i]) :
           Nodes(state, i, w) = {k} /\ state.clients[i][k] \in state.live
    ELSE Nodes(state, i, w) = {}

\* active_client never dangles: it is on the list of its workspace, allocated.
ActiveOnList ==
  \A i \in Workspaces :
    state.active[i] # NULL => state.active[i] \in Members(state, i) \cap state.live

\* The button grab for "click to focus" follows is_focused: exactly the clients
\* that are not focused can be clicked to be (client_set_focused,
\* client_set_unfocused, client_hide, workspace_add_client).
FocusGrab ==
  \A c \in state.live :
    state.win[Win(c)] # "gone" => (Win(c) \in state.grabs <=> c \notin state.focused)

\* The focused workspace is on a monitor; otherwise workspace_change_monitor
\* and client_register_window give up.
FocusedWorkspaceShown == MonitorsOf(state, state.activeIndex) # {}

\* When every event is handled, the clients that are not CLIENT_HIDDEN are
\* mapped if and only if their workspace is on a monitor, and CLIENT_OFF_SCREEN
\* says so, however switches and late notifies overtook each other.
ScreensSettle ==
  state.queue = <<>> =>
    \A i \in Workspaces : \A c \in Members(state, i) \ state.hidden :
      IF i \in state.visible
      THEN state.win[Win(c)] = "mapped" /\ c \notin state.offscreen
      ELSE state.win[Win(c)] = "unmapped" /\ c \in state.offscreen

\* When every event is handled, the keyboard is with the active client of the
\* focused workspace, or, if it has none to show, with the root window, and
\* _NET_ACTIVE_WINDOW says so.
FocusSettles ==
  state.queue = <<>> =>
    LET c == state.active[state.activeIndex]
    IN  /\ c = NULL => /\ Showable(state, state.activeIndex) = {}
                       /\ state.input = Root /\ state.activeWin = Root
        /\ c # NULL /\ c \notin state.hidden =>
             state.input = Win(c) /\ state.activeWin = Win(c)

\* When the events of a destroyed window are handled nothing refers to it any
\* more, neither a list, the map nor an active_client, whatever was sent or
\* switched meanwhile (client_handle_destroy_notify).
Forgotten ==
  \A w \in Windows :
    state.win[w] = "gone" /\ Pending(w) = {} =>
      /\ state.registry[w] = NULL
      /\ \A i \in Workspaces :
           Nodes(state, i, w) = {} /\ state.active[i] \notin {w} \X (0 .. Remaps)

\* What natwm promises about workspaces and monitors, see module Desktop.
D == INSTANCE Desktop WITH current <- state.activeIndex,
                           shows <- state.shows,
                           home <- state.registry

ImplementsDesktop == D!Spec

-----------------------------------------------------------------------------
(* What comments of the code say, and the code does not do *)

\* client.h: "CLIENT_HIDDEN ... Client is not mapped on any screen".
HiddenNotMapped ==
  state.queue = <<>> =>
    \A c \in state.hidden : state.win[Win(c)] # "mapped"

\* workspace.c: "If there are only hidden clients, then again focus on the root
\* window".
RootIfAllHidden ==
  LET i == state.activeIndex
  IN  state.queue = <<>> /\ Showable(state, i) = {} => state.activeWin = Root

\* button.c: "we queue the event, and once we have focused both the workspace
\* (if needed) and the client we release the queued event".
ClickReleased == state.queue = <<>> => state.frozen = NULL

\* client.c: "When a client is unfocused we need to grab the mouse button
\* required for click to focus".
ClickToFocus ==
  state.queue = <<>> =>
    \A i \in state.visible : \A c \in Members(state, i) \ state.hidden :
      state.input # Win(c) => Win(c) \in state.grabs

=============================================================================
