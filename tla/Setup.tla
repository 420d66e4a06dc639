------------------------------- MODULE Setup -------------------------------
(***************************************************************************)
(* main (natwm.c) from one call to the next, the state it builds up        *)
(* (state.c) and the way back: whichever call fails, natwm_state_destroy   *)
(* is to return what there is by then, and nothing else.  What happens     *)
(* while natwm runs is in Natwm and MainLoop; here it is the two things    *)
(* the way back depends on, a client and the helper window of a resize.    *)
(***************************************************************************)
EXTENDS Theme, Screens, Null, FiniteSets

CONSTANTS
  WorkspaceCount,   \* NATWM_WORKSPACE_COUNT
  NameMax,          \* NATWM_WORKSPACE_NAME_MAX_LEN
  Extensions,       \* subset of {"randr", "xinerama", "none"}
  Displays,         \* numbers of the screen that DISPLAY may name
  Outputs,          \* what the server may be connected to
  Entries,          \* what monitor.offsets may be; <<>> if it is missing
  Names             \* what "workspaces" may be: the length of each name, or
                    \* Unset for one that is no string; <<>> if it is missing

ASSUME SetupAssumption ==
  /\ WorkspaceCount \in Nat \ {0} /\ NameMax \in Nat \ {0}
  /\ Extensions \subseteq {"randr", "xinerama", "none"}
  /\ Outputs \subseteq Seq({"active", "inactive"}) /\ \A o \in Outputs : Len(o) > 0
  /\ Entries \subseteq Seq({"sizes", "bad", "scalar"}) /\ Names \subseteq Seq(Nat)
  /\ Displays \subseteq Nat
  /\ NULL \notin Int

Workspaces == 0 .. WorkspaceCount - 1
DefaultName == 1      \* "one" to "ten" are no longer than NameMax

State == <<"state", 0>>
Config == <<"config", 0>>
Buffer == <<"file_buffer", 0>>
X == <<"xcb", 0>>
Window == <<"ewmh_supporting_window", 0>>     \* of the server, as is the next
Helper == <<"resize_helper", 0>>
Ewmh == <<"ewmh", 0>>
ButtonState == <<"button_state", 0>>
Modifiers == <<"modifiers", 0>>
WorkspaceList == <<"workspace_list", 0>>
ClientMap == <<"client_map", 0>>
WorkspaceArray == <<"workspaces", 0>>
Workspace(i) == <<"workspace", i>>
ClientList(i) == <<"clients", i>>
Client(i) == <<"client", i>>          \* the only one of workspace i

VARIABLES
  pc,        \* the next call of main, or what natwm does
  state      \* see Memory and Screens; and the fields of Init below

vars == <<pc, state>>

\* natwm_state_create has been called, by calloc.
Init ==
  /\ pc = "config"
  /\ \E e \in Extensions, o \in Outputs, n \in Entries :
       state = [live |-> {State}, set |-> {State}, wild |-> {}, fault |-> "none",
                screenNum |-> 0, screen |-> 0, lost |-> FALSE, extension |-> e, outputs |-> o, entries |-> n,
                offsets |-> <<>>,
                activeIndex |-> NULL,     \* not set by workspace_list_create
                focused |-> {}, visible |-> {}, shows |-> <<>>,
                written |-> 0]            \* to the buffer of the desktop names

-----------------------------------------------------------------------------
(* What main calls *)

\* config_initialize_path: open_config_file, read_file_into_buffer and
\* config_read_string; the buffer is not kept.
ConfigInitializePath(s) ==
  {Failed(s)} \cup
    Then(New(s, Buffer),
         LAMBDA t : OrElse(Then(New(t, Config), LAMBDA u : {Done(Free(u, Buffer))}),
                           LAMBDA u : Free(u, Buffer)))

\* make_connection: a connection with an error is disconnected.
MakeConnection(s) == New(s, X)

\* find_default_screen, with the number xcb_connect has returned, which is not
\* the one in the state.
FindDefaultScreen(s) == {[s EXCEPT !.screen = n] : n \in Displays}

\* event_subscribe_to_root: refused if there is another
\* window manager; on a lost connection there is no error to be seen.
Subscribe(s) ==
  {Failed(s)} \cup {Done(t) : t \in Asked(Use(s, X))}

\* ewmh_create, then ewmh_init with create_supporting_window.
EwmhCreate(s) ==
  LET replies(t) == {IF u.lost THEN Failed(Free(u, Ewmh)) ELSE Done(Assign(u, Ewmh)) : u \in Asked(t)}
      init(t) == {Done([Assign(t, Window) EXCEPT !.live = @ \cup {Window}])}
  IN  Then(Then(Calloc(s, Ewmh), replies), init)

\* button_state_create; without the toggle modifiers it goes on all the same.
ButtonStateCreate(s) ==
  Then(New(s, ButtonState),
       LAMBDA t : {Done(t)} \cup {r \in New(t, Modifiers) : r.ok})

\* Mutant: the name is taken as it is.
NameLengthAny(names, i) ==
  IF i + 1 > Len(names) \/ names[i + 1] = Unset THEN DefaultName ELSE names[i + 1]

\* workspace_init: the length of the name of workspace i.
NameLength(names, i) ==
  IF i + 1 > Len(names) \/ names[i + 1] = Unset \/ names[i + 1] > NameMax
  THEN DefaultName ELSE names[i + 1]

\* workspace_create
WorkspaceCreate(s, i) ==
  Then(Calloc(s, Workspace(i)),
       LAMBDA t : Then(OrElse(New(t, ClientList(i)), LAMBDA u : Free(u, Workspace(i))),
                       LAMBDA u : {Done(Assign(u, Workspace(i)))}))

\* All of them, one after another.
WorkspacesCreate(s) == ForEach(WorkspaceCount, s, LAMBDA t, i : WorkspaceCreate(t, i - 1))

\* workspace_list_create
WorkspaceListCreate(s) ==
  LET maps(t) == OrElse(New(t, ClientMap), LAMBDA u : Free(u, WorkspaceList))
      array(t) == OrElse(New(t, WorkspaceArray),
                         LAMBDA u : FreeAll(u, {ClientMap, WorkspaceList}))
  IN  Then(Then(Calloc(s, WorkspaceList), maps), array)

\* Mutant: a monitor without a workspace is not expected.
AttachToMonitorsAll(s) ==
  [s EXCEPT !.shows = [k \in Found(s) |-> At(s, k) - 1],
            !.visible = Workspaces,
            !.focused = {0},
            !.activeIndex = 0]

\* attach_to_monitors: one each, as far as there are workspaces.
AttachToMonitors(s) ==
  LET n == IF Len(s.offsets) < WorkspaceCount THEN Len(s.offsets) ELSE WorkspaceCount
  IN  [s EXCEPT !.shows = [k \in Found(s) |-> IF At(s, k) <= n THEN At(s, k) - 1 ELSE NULL],
                !.visible = 0 .. n - 1,
                !.focused = IF n > 0 THEN {0} ELSE {},
                !.activeIndex = IF n > 0 THEN 0 ELSE NULL]

\* Where the next name is written, each with its terminator.
Positions(names) ==
  LET pos[i \in 0 .. WorkspaceCount] ==
        IF i = 0 THEN 0 ELSE pos[i - 1] + NameLength(names, i - 1) + 1
  IN  pos

\* ewmh_update_desktop_names
UpdateDesktopNames(s, names) ==
  [s EXCEPT !.written = Positions(names)[WorkspaceCount]]

\* Mutant: the clients are left to the table.
WorkspaceDestroyList(s, i) == FreeAll(s, {Workspace(i), ClientList(i)})

\* workspace_destroy: its clients, the list, itself.
WorkspaceDestroy(s, i) ==
  FreeAll(s, {Workspace(i), ClientList(i)} \cup ({Client(i)} \cap s.set))

WorkspaceRelease(s, i) == Release(s, Workspace(i), LAMBDA t : WorkspaceDestroy(t, i))

\* The workspaces that are there, one after another.
WorkspacesDestroyed(s) ==
  LET upTo[i \in 0 .. WorkspaceCount] ==
        IF i = 0 THEN s
        ELSE WorkspaceRelease(upTo[i - 1], i - 1)
  IN  upTo

\* workspace_list_destroy
WorkspaceListDestroy(s) ==
  LET themed == Release(s, ThemePart, ThemeDestroy)
      emptied == WorkspacesDestroyed(Free(themed, ClientMap))[WorkspaceCount]
  IN  FreeAll(emptied, {WorkspaceArray, WorkspaceList})

\* workspace_list_init.  Both hints are written before the list is kept.
WorkspaceListInit(s) ==
  LET fill(t) == OrElse(WorkspacesCreate(t), WorkspaceListDestroy)
      hints(t) == {Done(Assign(UpdateDesktopNames(t, n), WorkspaceList)) : n \in Names}
  IN  Then(Then(WorkspaceListCreate(s), fill),
           LAMBDA t : LET u == AttachToMonitors(Use(Use(t, MonitorList), Config))
                      IN  hints(IF u.activeIndex = NULL THEN Fault(u, "memory") ELSE u))

-----------------------------------------------------------------------------
(* natwm_state_destroy *)

\* button_state_destroy: the helper window is taken off the screen.
ButtonStateDestroy(s) ==
  LET unmapped == IF Helper \in s.set THEN Use(s, X) ELSE s
  IN  FreeAll(unmapped, {ButtonState} \cup ({Modifiers} \cap s.set))

\* ewmh_destroy
EwmhDestroy(s) ==
  Free(IF X \in s.set /\ Window \in s.set THEN Free(Use(s, X), Window) ELSE s, Ewmh)

\* xcb_disconnect: the server destroys the windows that are left.
Disconnect(s) == [Free(s, X) EXCEPT !.live = @ \ {Window, Helper}]

\* Mutant: the connection is closed before what needs it is returned.
StateDestroyEarly(s) ==
  LET a == Release(s, X, Disconnect)
      b == Release(a, ButtonState, ButtonStateDestroy)
      c == Release(b, WorkspaceList, WorkspaceListDestroy)
      d == Release(c, MonitorList, MonitorListDestroy)
      e == Release(d, Config, LAMBDA t : Free(t, Config))
      f == Release(e, Ewmh, EwmhDestroy)
  IN  Free(f, State)

StateDestroy(s) ==
  LET a == Release(s, ButtonState, ButtonStateDestroy)
      b == Release(a, WorkspaceList, WorkspaceListDestroy)
      c == Release(b, MonitorList, MonitorListDestroy)
      d == Release(c, Config, LAMBDA t : Free(t, Config))
      e == Release(d, Ewmh, EwmhDestroy)
      f == Release(e, X, Disconnect)
  IN  Free(f, State)

-----------------------------------------------------------------------------
(* main *)

\* A call of main with these outcomes: on to the next, or free_and_error.
Call(from, outcomes, to) ==
  /\ pc = from
  /\ \E r \in outcomes :
       /\ state' = r.state
       /\ pc' = IF Faulted(r.state) THEN "crashed" ELSE IF r.ok THEN to ELSE "free_and_error"

ReadConfig == Call("config", ConfigInitializePath(state), "connect")
Connect    == Call("connect",
                   Then(MakeConnection(state), LAMBDA s : {Done(t) : t \in FindDefaultScreen(s)}),
                   "subscribe")
Register   == Call("subscribe", Subscribe(state), "ewmh")
Hints      == Call("ewmh", EwmhCreate(state), "buttons")
SetButtons == Call("buttons", ButtonStateCreate(state), "monitors")
FindMonitors    == Call("monitors", MonitorSetup(state), "workspaces")
SetupWorkspaces == Call("workspaces", WorkspaceListInit(state), "theme")
LoadTheme       == Call("theme", ThemeCreate(state), "running")

\* While natwm runs: client_register_window and workspace_add_client, later
\* client_destroy; create_resize_helper.  The theme is read by each of them.
Themed(s) == Use(Use(Use(s, ThemePart), BorderWidth), Color)

AddClient ==
  /\ pc = "running"
  /\ \E i \in Workspaces :
       /\ Client(i) \notin state.live
       /\ state' = Assign([Themed(state) EXCEPT !.live = @ \cup {Client(i)}], Client(i))
  /\ UNCHANGED pc

RemoveClient ==
  /\ pc = "running"
  /\ \E i \in Workspaces :
       /\ Client(i) \in state.live
       /\ state' = [Free(state, Client(i)) EXCEPT !.set = @ \ {Client(i)}]
  /\ UNCHANGED pc

ShowHelper ==
  /\ pc = "running" /\ Helper \notin state.set
  /\ LET s == Use(Use(Use(state, X), ResizeBackground), ResizeBorder)
     IN  state' = Assign([s EXCEPT !.live = @ \cup {Helper}], Helper)
  /\ UNCHANGED pc

\* The event loop ends, well or not.
Stop ==
  /\ pc = "running"
  /\ pc' \in {"closing", "free_and_error"}
  /\ UNCHANGED state

\* The end of main: natwm_state_destroy.
Destroy ==
  /\ pc \in {"closing", "free_and_error"}
  /\ state' = StateDestroy(state)
  /\ pc' = IF Faulted(state') THEN "crashed" ELSE "exited"

Next ==
  \/ ReadConfig \/ Connect \/ Register \/ Hints \/ SetButtons \/ FindMonitors
  \/ SetupWorkspaces \/ LoadTheme
  \/ AddClient \/ RemoveClient \/ ShowHelper \/ Stop \/ Destroy

Spec == Init /\ [][Next]_vars

-----------------------------------------------------------------------------
(* What main promises *)

\* Whatever fails, and wherever, the way back follows and frees only what is
\* there; the one exception is theme_create, which leaves two pointers unset.
OnlyThemeIsWild ==
  state.fault = "memory" => state.wild \cap {BorderWidth, Color} # {}

\* All that was allocated is returned before main returns, but for the colours
\* of the resize helper; and unless monitor_setup fails, which forgets monitors.
Returned ==
  pc = "exited" =>
    state.live \ {ResizeBackground, ResizeBorder} \subseteq
      IF MonitorList \in state.set THEN {}
      ELSE {Monitors, RandrArray} \cup Listed(state)
             \cup {RandrMonitor(i) : i \in Active(state)}

\* Offsets and workspaces are given out in the same order: a monitor has the
\* entry that goes with the workspace it shows first, or none.
OwnOffsets ==
  state.shows # <<>> => \A k \in Found(state) :
    state.offsets[k] \in {Unset, At(state, k)}
    /\ state.shows[k] \in {NULL, At(state, k) - 1}

\* The names of the desktops, all as long as they may be, fit their buffer.
NamesFit == state.written <= NameMax * WorkspaceCount + WorkspaceCount

\* natwm starts in the state that the user is promised, however many monitors
\* there are, and the flags of the workspaces agree with it.
Promise(n) == INSTANCE Desktop WITH
  Windows <- {}, MonitorCount <- n,
  current <- state.activeIndex,
  shows <- [p \in Found(state) |-> state.shows[At(state, p)]],
  home <- [w \in {} |-> NULL]

BeginsAsPromised ==
  pc = "running" =>
    /\ \A n \in UNION {1 .. Len(o) : o \in Outputs} :
         n = Len(state.offsets) => Promise(n)!Init
    /\ state.focused = {state.activeIndex}
    /\ state.visible = {i \in Workspaces : \E k \in Found(state) : state.shows[k] = i}

\* An error during the setup is reported and natwm closes (not so, see the run
\* theme).
ErrorCloses == state.fault # "memory"

\* So is the loss of the connection (not so either).
LossCloses == state.fault # "reply"

\* workspace.c: "The ordering of the monitors is based on the order we receive
\* information about them" (the last one comes first).
AsReceived == pc = "running" => state.shows[1] = 0

\* The hints are written to the root window of the screen that natwm manages
\* (not so on any but the first).
HintsOnScreen == state.screenNum = state.screen
=============================================================================
