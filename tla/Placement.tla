----------------------------- MODULE Placement -----------------------------
(***************************************************************************)
(* The rectangle of one client: what struct client says of it, what the X  *)
(* server shows, and the monitor it is to fit on (client.c, monitor.c,     *)
(* button.c).  x with width and y with height are treated alike and apart  *)
(* from each other, so one dimension, a position and a size, stands for    *)
(* both.  The border around the window is drawn outside of it; its width   *)
(* says whether the client is focused.  Of the workspace of the client     *)
(* only its monitor and its focus are here; what else is in a handler that *)
(* acts on several clients is in Natwm.                                    *)
(***************************************************************************)
EXTENDS Integers

CONSTANTS
  Monitors,       \* monitor -> [at, length], its rectangle on the screen
  Offsets,        \* what the option monitor.offsets may say of a monitor
  Leftovers,      \* what the memory of a new monitor may hold there instead
  HasOption,      \* the option is set
  Hints,          \* [min, max], the client's size hints
  Spans,          \* the positions and sizes clients ask for
  Steps,          \* distances of the pointer from where it was pressed
  DragBound,      \* how far a client is dragged
  Widths,         \* [focused, unfocused], struct border_theme
  Requests,       \* what happens beside dragging and resizing
  NULL

\* int16_t and uint16_t, and lengths of a screen.
Positions == {n \in Int : -32768 <= n /\ n <= 32767}
Sizes     == {n \in Int : 0 <= n /\ n <= 65535}
Lengths   == {n \in Int : 0 <= n /\ n <= 32767}

Rects   == [at : Positions, size : Sizes]
Windows == [at : Positions, size : Sizes, border : Sizes]
Margins == [near : Sizes, far : Sizes]

ASSUME PlacementAssumption ==
  /\ Monitors \in [DOMAIN Monitors -> [at : Lengths, length : Lengths \ {0}]]
  /\ Offsets \subseteq Margins /\ Leftovers \subseteq Margins
  /\ HasOption \in BOOLEAN
  /\ Hints \in [min : Sizes, max : Sizes]
  /\ Spans \subseteq Rects /\ Steps \subseteq Positions /\ DragBound \in Lengths
  /\ Widths \in [focused : Sizes, unfocused : Sizes]
  /\ NULL \notin DOMAIN Monitors

VARIABLES
  offsets,        \* monitor -> [near, far], struct box_sizes
  monitor,        \* that of the client's workspace, NULL if it is on none
  active,         \* is_focused of the client's workspace
  rect,           \* client->rect, relative to the monitor
  full,           \* client->is_fullscreen
  focused,        \* client->is_focused
  offscreen,      \* CLIENT_OFF_SCREEN
  hidden,         \* CLIENT_HIDDEN
  held,           \* the monitor of button_state->monitor_rect, NULL without a gesture
  shown           \* the window on the screen: [at, size, border]

vars == <<offsets, monitor, active, rect, full, focused, offscreen, hidden, held, shown>>

place == <<offsets, monitor, active>>
flags == <<focused, offscreen, hidden>>

\* Conversions to uint16_t and int16_t.
Unsigned(n) == n % 65536

Signed(n) == ((n + 32768) % 65536) - 32768

\* monitor_get_offset_rect
Usable(length, margin) == Unsigned(length - (margin.near + margin.far))

\* How far the end of a span is beyond the usable part.
Beyond(span, length, margin) == span.at + span.size - margin.near - Usable(length, margin)

\* Mutant: a client is moved to the near edge only where it is cut.
ClampFar(span, length, margin) ==
  LET beyond == Beyond(span, length, margin)
      excess == beyond - (span.at - margin.near)
  IN [at   |-> Signed(IF beyond <= 0 THEN span.at
                      ELSE IF excess > 0 THEN margin.near ELSE span.at - beyond),
      size |-> Unsigned(IF beyond > 0 /\ excess > 0 THEN span.size - excess ELSE span.size)]

\* Mutant: the position does not count for the end.
ClampSize(span, length, margin) ==
  LET excess == span.size - Usable(length, margin)
  IN [at   |-> Signed(IF span.at < margin.near THEN margin.near ELSE span.at),
      size |-> Unsigned(IF excess > 0 THEN span.size - excess ELSE span.size)]

\* monitor_clamp_client_rect: a client that ends beyond the usable part is moved
\* back, and cut by what the move does not make good.
Clamp(span, length, margin) ==
  LET beyond == Beyond(span, length, margin)
      excess == beyond - (span.at - margin.near)
  IN [at   |-> Signed(IF beyond > 0
                      THEN IF excess > 0 THEN margin.near ELSE span.at - beyond
                      ELSE IF span.at < margin.near THEN margin.near ELSE span.at),
      size |-> Unsigned(IF beyond > 0 /\ excess > 0 THEN span.size - excess ELSE span.size)]

Fit(span) == Clamp(span, Monitors[monitor].length, offsets[monitor])

\* A rectangle of monitor m in coordinates of the screen.
On(m, span) == [span EXCEPT !.at = Signed(@ + Monitors[m].at)]

\* client_get_active_border_width; nothing sets CLIENT_URGENT and CLIENT_STICKY.
Width ==
  IF full THEN 0 ELSE IF focused /\ ~offscreen THEN Widths.focused ELSE Widths.unfocused

\* client_configure_window_rect; the server refuses a window without size.
Shown(window, span, width) ==
  IF span.size = 0 THEN window ELSE [at |-> span.at, size |-> span.size, border |-> width]

Show(span, width) == shown' = Shown(shown, span, width)

\* What natwm keeps of a client and what the server shows of it.
View == [rect |-> rect, shown |-> shown]

Become(view) == rect' = view.rect /\ shown' = view.shown

\* What does not fit with its border is cut, however much it is.
Bordered(span, length, margin, width) ==
  LET beyond == span.size + span.at + 2 * width - (Usable(length, margin) + margin.near)
  IN  [span EXCEPT !.size = IF beyond > 0 THEN Unsigned(@ - beyond) ELSE @]

\* update_theme: the client has got another width, on what has been done so far.
Themed(view, previous) ==
  LET cut == Bordered(view.rect, Monitors[monitor].length, offsets[monitor], Width')
  IN  IF full' \/ previous = Width' \/ monitor = NULL THEN view
      ELSE [rect  |-> cut,
            shown |-> IF cut.size = 0 THEN view.shown
                      ELSE [at |-> view.shown.at, size |-> cut.size, border |-> Width']]

\* monitor_create leaves the offsets as malloc has them; with the option
\* monitor_list_set_offsets fills them in.  client_register_window follows: the
\* client is mapped without the focus, and has no border before it gets it.
Init ==
  /\ offsets \in [DOMAIN Monitors -> IF HasOption THEN Offsets ELSE Leftovers]
  /\ monitor \in DOMAIN Monitors
  /\ active = TRUE /\ full = FALSE /\ held = NULL
  /\ focused = TRUE /\ offscreen = FALSE /\ hidden = FALSE
  /\ \E span \in Spans :
       LET themed == Widths.focused # 0
       IN  /\ rect = IF themed THEN Bordered(Fit(span), Monitors[monitor].length,
                                             offsets[monitor], Widths.focused)
                     ELSE Fit(span)
           /\ shown = [at     |-> On(monitor, rect).at,
                       size   |-> IF rect.size = 0 THEN Fit(span).size ELSE rect.size,
                       border |-> IF themed /\ rect.size # 0 THEN Widths.focused
                                  ELSE Widths.unfocused]

-----------------------------------------------------------------------------
(* The pointer *)

\* button_handle_grab, for a client on a monitor and no other grabbed.
Press ==
  /\ held = NULL /\ monitor # NULL /\ ~full
  /\ held' = monitor
  /\ UNCHANGED <<place, rect, full, flags, shown>>

\* client_handle_drag: shown as on the monitor of the press, whatever monitor the
\* workspace is on now; button_handle_motion ignores a fullscreen client.
Drag(d) ==
  /\ held # NULL /\ ~full
  /\ rect.at + d \in -DragBound .. DragBound
  /\ rect' = [rect EXCEPT !.at = Signed(@ + d)]
  /\ shown' = [shown EXCEPT !.at = On(held, rect').at]
  /\ UNCHANGED <<place, full, flags, held>>

\* button_handle_drag_end
Release ==
  /\ held # NULL
  /\ held' = NULL
  /\ UNCHANGED <<place, rect, full, flags, shown>>

\* Mutant: the new rectangle is shown as on a monitor at the origin.
ResizeAtOrigin(d) ==
  /\ held # NULL /\ monitor # NULL
  /\ rect' = Fit([rect EXCEPT !.size = Unsigned(@ + d)])
  /\ Show(rect', Width)
  /\ held' = NULL
  /\ UNCHANGED <<place, full, flags>>

\* button_handle_resize_end with client_handle_resize: as on the monitor the
\* workspace is on now; without one the gesture goes on.
Resize(d) ==
  /\ held # NULL /\ monitor # NULL
  /\ rect' = Fit([rect EXCEPT !.size = Unsigned(@ + d)])
  /\ Show(On(monitor, rect'), Width)
  /\ held' = NULL
  /\ UNCHANGED <<place, full, flags>>

-----------------------------------------------------------------------------
(* Requests *)

\* A request for some parts of span, within the size hints.
Hinted(size) == IF size < Hints.min THEN Hints.min ELSE IF size > Hints.max THEN Hints.max ELSE size

Asked(span, parts) ==
  [at   |-> IF "at" \in parts THEN span.at ELSE rect.at,
   size |-> IF "size" \in parts THEN Hinted(span.size) ELSE rect.size]

\* client_configure_window: the request is adjusted, and after that passed on
\* as it came.
Configure(span, parts) ==
  /\ "configure" \in Requests /\ monitor # NULL
  /\ rect' = Fit(Asked(span, parts))
  /\ shown' = [shown EXCEPT !.at = IF "at" \in parts THEN span.at ELSE @,
                            !.size = IF "size" \in parts /\ span.size # 0 THEN span.size ELSE @]
  /\ UNCHANGED <<place, full, flags, held>>

Whole(m) == [at |-> Monitors[m].at, size |-> Monitors[m].length]

\* client_set_fullscreen: refused without a monitor.
SetFullscreen ==
  /\ "fullscreen" \in Requests /\ monitor # NULL
  /\ full' = TRUE
  /\ Show(Whole(monitor), 0)
  /\ UNCHANGED <<place, rect, flags, held>>

\* client_unset_fullscreen: the rectangle is shown as on a monitor at the
\* origin, with the border of a fullscreen client, which is then put right.
UnsetFullscreen ==
  /\ "fullscreen" \in Requests
  /\ full' = FALSE
  /\ UNCHANGED <<place, flags, held>>
  /\ Become(Themed([View EXCEPT !.shown = Shown(@, rect, Width)], Width))

-----------------------------------------------------------------------------
(* Workspaces and focus *)

\* client_set_focused, which focuses the workspace too.  It is also called of a
\* client that has the flag.
SetFocused ==
  /\ "focus" \in Requests /\ ~hidden
  /\ focused' = TRUE /\ active' = TRUE
  /\ UNCHANGED <<offsets, monitor, full, offscreen, hidden, held>>
  /\ Become(Themed(View, Widths.unfocused))

\* client_set_unfocused, for another client of the workspace or, called by
\* workspace_set_unfocused, for another workspace.
SetUnfocused ==
  /\ "focus" \in Requests /\ ~hidden
  /\ focused' = FALSE /\ active' \in {active, FALSE}
  /\ UNCHANGED <<offsets, monitor, full, offscreen, hidden, held>>
  /\ Become(Themed(View, Widths.focused))

\* The workspace gets the focus by another of its clients, or loses it while this
\* one is hidden or not its active client: the client keeps the flag it has.
FocusElsewhere ==
  /\ "focus" \in Requests
  /\ active' = ~active
  /\ UNCHANGED <<offsets, monitor, rect, full, flags, held, shown>>

\* What client_hide leaves.
Left == IF focused /\ ~hidden THEN Themed(View, Widths.focused) ELSE View

\* client_show, on monitor m, with client_map.
Placed(view, m) ==
  LET fit == Clamp(view.rect, Monitors[m].length, offsets[m])
  IN  [rect  |-> fit,
       shown |-> Shown(view.shown, IF full THEN Whole(m) ELSE On(m, fit), Width')]

\* Mutant: a workspace that was on another monitor is only hidden there.
ChangeMonitorOnce(m) ==
  /\ "map" \in Requests /\ m # monitor
  /\ (monitor = NULL => ~active) /\ (m = NULL => active)
  /\ monitor' = m /\ active' = ~active
  /\ UNCHANGED <<offsets, full, hidden, held>>
  /\ \/ hidden /\ UNCHANGED <<focused, offscreen, rect, shown>>
     \/ /\ ~hidden
        /\ offscreen' = (offscreen \/ monitor # NULL)
        /\ focused' \in {focused /\ monitor = NULL, ~active}
        /\ Become(IF m = NULL \/ monitor # NULL THEN Left ELSE Placed(Left, m))

\* workspace_change_monitor: the workspace is hidden, or shown on m after hiding
\* it if it was on another monitor; clients that are hidden are passed over.  It
\* had the focus or gets it, and may then focus this client, which is off screen
\* and keeps its width.
ChangeMonitor(m) ==
  /\ "map" \in Requests /\ m # monitor
  /\ (monitor = NULL => ~active) /\ (m = NULL => active)
  /\ monitor' = m /\ active' = ~active
  /\ UNCHANGED <<offsets, full, hidden, held>>
  /\ \/ hidden /\ UNCHANGED <<focused, offscreen, rect, shown>>
     \/ /\ ~hidden
        /\ offscreen' = (offscreen \/ monitor # NULL)
        /\ focused' \in {focused /\ monitor = NULL, ~active}
        /\ Become(IF m = NULL THEN Left ELSE Placed(Left, m))

\* workspace_list_send_to_workspace, to one without the focus, on monitor m or on
\* none.  client_hide does not unfocus a hidden client, and client_show maps it.
Send(m) ==
  /\ "map" \in Requests
  /\ active /\ m # NULL => m # monitor
  /\ monitor' = m /\ active' = FALSE
  /\ offscreen' = TRUE /\ focused' = (focused /\ hidden) /\ hidden' = (hidden /\ m = NULL)
  /\ UNCHANGED <<offsets, full, held>>
  /\ Become(IF m = NULL THEN Left ELSE Placed(Left, m))

\* client_unmap_window: a notify of this time the client is shown or of an
\* earlier.  The focus stays where it is, or is given to this client again.
Unmap ==
  /\ "map" \in Requests /\ ~offscreen
  /\ hidden' = TRUE
  /\ UNCHANGED <<place, rect, full, focused, offscreen, held, shown>>

\* Mutant: the border is that of the last time the client was shown.
HandleMapNotifyOnly ==
  /\ offscreen /\ monitor # NULL
  /\ offscreen' = FALSE
  /\ UNCHANGED <<place, full, focused, hidden, held, rect, shown>>

\* client_handle_map_notify: of this time the client is shown or of an earlier.
HandleMapNotify ==
  /\ offscreen /\ monitor # NULL
  /\ offscreen' = FALSE
  /\ UNCHANGED <<place, full, focused, hidden, held>>
  /\ IF focused /\ active THEN Become(Themed(View, Width)) ELSE UNCHANGED <<rect, shown>>

Next ==
  \/ Press \/ Release
  \/ \E d \in Steps : Drag(d) \/ Resize(d)
  \/ \E span \in Spans, parts \in SUBSET {"at", "size"} : Configure(span, parts)
  \/ SetFullscreen \/ UnsetFullscreen
  \/ SetFocused \/ SetUnfocused \/ FocusElsewhere
  \/ \E m \in DOMAIN Monitors \cup {NULL} : ChangeMonitor(m) \/ Send(m)
  \/ Unmap \/ HandleMapNotify

Spec == Init /\ [][Next]_vars

-----------------------------------------------------------------------------
(* What can be relied on *)

\* The rectangle of a client survives the conversions to 16 bits.
TypeOK ==
  /\ offsets \in [DOMAIN Monitors -> Margins]
  /\ monitor \in DOMAIN Monitors \cup {NULL}
  /\ rect \in Rects /\ shown \in Windows
  /\ held \in DOMAIN Monitors \cup {NULL}
  /\ active \in BOOLEAN /\ full \in BOOLEAN
  /\ focused \in BOOLEAN /\ offscreen \in BOOLEAN /\ hidden \in BOOLEAN

Near == offsets[monitor].near
Far  == Monitors[monitor].length - offsets[monitor].far

\* Offsets that leave something of the monitor.
Sane == monitor # NULL /\ Near <= Far

\* A client that is resized or asks for a place never begins in the margin at
\* the near edge, wherever it has been dragged before.
KeepsNear ==
  Sane /\ (\/ \E d \in Steps : Resize(d)
           \/ \E span \in Spans, parts \in SUBSET {"at", "size"} : Configure(span, parts))
    => rect'.at >= Near

\* One that begins beyond that margin also ends before the far one.
KeepsFar ==
  Sane /\ (\/ \E d \in Steps : Resize(d) /\ rect.at >= Near
           \/ \E span \in Spans, parts \in SUBSET {"at", "size"} :
                Configure(span, parts) /\ Asked(span, parts).at >= Near)
    => rect'.at + rect'.size <= Far

\* Clients keep to the margins of their monitor as far as
\* monitor_clamp_client_rect promises it.
MarginsKept == [][KeepsNear /\ KeepsFar]_vars

\* Fitting a client to its monitor never makes it larger than the pointer did.
NeverLarger ==
  [][\A d \in Steps : Resize(d) /\ rect.size + d \in Sizes => rect'.size <= rect.size + d]_vars

\* The window on the screen is the rectangle natwm keeps for the client.  A hidden
\* one is not on the screen.
OnScreen == monitor # NULL /\ ~hidden

ServerAgrees ==
  ~full /\ OnScreen => shown.at = On(monitor, rect).at /\ shown.size = rect.size

\* A motion after the client has come to another monitor than that of the press.
LateMotion == held # monitor /\ \E d \in Steps : Drag(d)

\* Only a motion that comes late, passing a request on, leaving fullscreen and the
\* loss of all size part the two: dragging, resizing, changing monitors with the
\* button held or not and the cuts a border makes, in any order, with a client
\* fullscreen, hidden or off screen in between or not, keep them together, although
\* each is computed from what the last step left of it.
GesturesAgree ==
  [][ /\ ServerAgrees
      /\ ~(\E span \in Spans, parts \in SUBSET {"at", "size"} : Configure(span, parts))
      /\ ~UnsetFullscreen /\ ~LateMotion
      /\ rect'.size > 0
      => ServerAgrees' ]_vars

\* The border on the screen is that of the client's state.
Border == OnScreen => shown.border = Width

\* A map notify of a client that has kept the flag, because it was hidden or not the
\* active client, on a workspace that has no focus: natwm does not redraw it.
FlagLeftBehind == focused /\ ~active /\ HandleMapNotify

\* The border tells the state from the first time the client is shown, if a focused
\* client has a border, and stays so whether it is focused, fullscreen, hidden or
\* off screen in between, on whichever workspace, and in whichever order the
\* notifies come, unless a change leaves the window without a size or a map notify
\* finds a flag that was left behind.
BorderTells ==
  /\ rect.size > 0 /\ Widths.focused # 0 => Border
  /\ [][Border /\ rect'.size > 0 /\ ~FlagLeftBehind => Border']_vars

-----------------------------------------------------------------------------
(* What the documentation says, and the code does not do *)

\* README: offsets "prevent the window manager from taking up space reserved for
\* other programs".
ReservedLeft ==
  [][Sane /\ (\E d \in Steps : Resize(d)) => rect'.at + rect'.size <= Far]_vars

\* client.c: a request of a window that is not registered is passed along; that
\* of a registered one is not.
ClientsAdjusted ==
  [][\A span \in Spans :
       Configure(span, {"at", "size"}) => shown'.at \in {rect'.at, On(monitor, rect').at}]_vars

\* client.c, update_theme: "Check if either the width or the height will not be
\* able to fit on the monitor. If either doesn't correct the width to fit".
ThemeFits ==
  [][SetFocused \/ SetUnfocused => rect'.size <= rect.size]_vars

\* button.c: "Ignore full screen clients".
FullscreenLeftAlone == [][full /\ (\E d \in Steps : Resize(d)) => shown' = shown]_vars

\* event.c: "We should only process motion events if they are within the current
\* monitor".
DragsWhereItIs ==
  [][(\E d \in Steps : Drag(d)) /\ ServerAgrees => ServerAgrees']_vars

\* monitor.c: "By default we will have no offset".
NoOffsetByDefault ==
  [][\A span \in Spans :
       /\ Configure(span, {"at", "size"}) /\ ~HasOption
       /\ Hinted(span.size) = span.size /\ span.at \in 0 .. Monitors[monitor].length - span.size
       => rect' = span]_vars

=============================================================================
