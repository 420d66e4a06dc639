------------------------------ MODULE Pointer ------------------------------
(***************************************************************************)
(* Moving and resizing a client with the pointer (button.c, event.c,       *)
(* client.c).  The X server grants natwm a grab while a button is held; a  *)
(* gesture is a press, motions and a release, which natwm handles later,   *)
(* one by one.  struct button_state remembers the client in between.       *)
(*                                                                         *)
(* There is one monitor at the origin, one dimension, and only presses     *)
(* with the modifier held.  Where windows end is the subject of Placement. *)
(***************************************************************************)
EXTENDS Integers, Sequences

CONSTANTS
  Clients, NULL,
  MonitorWidth, ScreenWidth,
  DragBound,      \* how far off the screen a client may be to be dragged on
  Situations      \* which clients there are, what happens beside gestures, and
                  \* how many events natwm may lag behind

\* With one button at a time; a second button, and what becomes of clients.
Disturbances == {"chord", "destroy", "hide", "fullscreen"}

ASSUME PointerAssumption ==
  /\ NULL \notin Clients
  /\ Situations \subseteq
       [clients : SUBSET Clients, allowed : SUBSET Disturbances, lag : Nat]
  /\ MonitorWidth \in Nat /\ ScreenWidth \in Nat /\ DragBound \in Nat

Buttons == {1, 3}

VARIABLES
  situation,      \* the one of Situations that is played through
  pointer,        \* its position
  held,           \* buttons
  grab,           \* the server's: [win, button], or none
  queue,          \* events not handled
  at,             \* client -> position of its window, and client->rect.x
  full,           \* clients with is_fullscreen
  visible,        \* clients whose workspace is on the monitor
  registered,     \* clients with a struct client
  existing,       \* windows that are not destroyed
  grabbed,        \* button_state->grabbed_client
  monitorRect,    \* button_state->monitor_rect: "unset" as malloc has it
  start,          \* button_state->start_x
  helper,         \* button_state->resize_helper: "none", or whether it shows
  fault           \* what was dereferenced and did not exist

vars == <<situation, pointer, held, grab, queue, at, full, visible, registered, existing,
          grabbed, monitorRect, start, helper, fault>>

serverVars == <<pointer, held, grab, existing>>
clientVars == <<at, full, visible, registered>>
buttonVars == <<grabbed, monitorRect, start, helper>>

NoGrab == [win |-> NULL, button |-> 0]

Init ==
  /\ pointer = 0 /\ held = {} /\ grab = NoGrab /\ queue = <<>>
  /\ at = [c \in Clients |-> 0]
  /\ full = {}
  /\ situation \in Situations
  /\ visible = situation.clients
  /\ registered = situation.clients /\ existing = situation.clients
  /\ grabbed = NULL /\ monitorRect = "unset" /\ start = 0 /\ helper = "none"
  /\ fault = "none"

Calm == situation.allowed = {}

Enqueue(e) == Len(queue) < situation.lag /\ queue' = Append(queue, e)

\* An event of the pointer, as the server reports it in the grab window.
Event(typ, win, button) ==
  [typ |-> typ, win |-> win, button |-> button, buttons |-> held,
   x |-> IF win = NULL THEN 0 ELSE pointer - at[win], root |-> pointer]

-----------------------------------------------------------------------------
(* The user, the X server, and the programs *)

\* button_initialize_client_listeners: the first press on a window starts a grab.
Press(c, b) ==
  /\ held = {} /\ grab = NoGrab /\ c \in existing \cap visible
  /\ Enqueue(Event("press", c, b))
  /\ held' = {b} /\ grab' = [win |-> c, button |-> b]
  /\ UNCHANGED <<pointer, existing, clientVars, buttonVars, fault>>

\* A second button; the grab reports it if there still is one.
PressMore(b) ==
  /\ "chord" \in situation.allowed
  /\ held # {} /\ b \notin held
  /\ IF grab = NoGrab THEN UNCHANGED queue ELSE Enqueue(Event("press", grab.win, b))
  /\ held' = held \cup {b}
  /\ UNCHANGED <<pointer, grab, existing, clientVars, buttonVars, fault>>

\* The grab ends with the last button.
Release(b) ==
  /\ b \in held
  /\ IF grab = NoGrab THEN UNCHANGED queue ELSE Enqueue(Event("release", grab.win, b))
  /\ held' = held \ {b}
  /\ grab' = IF held = {b} THEN NoGrab ELSE grab
  /\ UNCHANGED <<pointer, existing, clientVars, buttonVars, fault>>

\* The grab reports motion while its own button is held.
Move ==
  /\ \E p \in 0 .. ScreenWidth :
       /\ p # pointer /\ pointer' = p
       /\ grab # NoGrab => at[grab.win] \in -DragBound .. ScreenWidth + DragBound
       /\ IF grab.button \in held /\ grab # NoGrab
          THEN Enqueue([Event("motion", grab.win, 0) EXCEPT !.x = @ + p - pointer, !.root = p])
          ELSE UNCHANGED queue
  /\ UNCHANGED <<held, grab, existing, clientVars, buttonVars, fault>>

\* A window that is no longer viewable ends the grab; nobody is told.
GrabWithout(c) == grab' = IF grab.win = c THEN NoGrab ELSE grab

Destroy(c) ==
  /\ "destroy" \in situation.allowed /\ c \in existing
  /\ Enqueue([Event("destroy", c, 0) EXCEPT !.buttons = {}, !.x = 0, !.root = 0])
  /\ existing' = existing \ {c} /\ GrabWithout(c)
  /\ UNCHANGED <<pointer, held, clientVars, buttonVars, fault>>

\* workspace_hide: another workspace is switched to.
Hide(c) ==
  /\ "hide" \in situation.allowed /\ c \in registered \cap visible
  /\ visible' = visible \ {c} /\ GrabWithout(c)
  /\ UNCHANGED <<pointer, held, queue, existing, at, full, registered, buttonVars, fault>>

Show(c) ==
  /\ "hide" \in situation.allowed /\ c \in registered \ visible
  /\ visible' = visible \cup {c}
  /\ UNCHANGED <<queue, serverVars, at, full, registered, buttonVars, fault>>

\* client_handle_fullscreen_window
Fullscreen(c) ==
  /\ "fullscreen" \in situation.allowed /\ c \in registered
  /\ full' = IF c \in full THEN full \ {c} ELSE IF c \in visible THEN full \cup {c} ELSE full
  /\ UNCHANGED <<queue, serverVars, at, visible, registered, buttonVars, fault>>

-----------------------------------------------------------------------------
(* natwm *)

\* Mutant: the rectangle of the monitor is kept.
ResetClient ==
  /\ grabbed' = NULL /\ start' = 0
  /\ helper' = IF helper = "none" THEN "none" ELSE "shown"
  /\ UNCHANGED monitorRect

\* hide_resize_helper, button_state_reset
Reset ==
  /\ grabbed' = NULL /\ monitorRect' = "null" /\ start' = 0
  /\ helper' = IF helper = "none" THEN "none" ELSE "hidden"

\* Undefined behaviour: nothing is said of what comes after.
Fault(what) == fault' = what /\ UNCHANGED <<clientVars, buttonVars>>

Ignored == UNCHANGED <<clientVars, buttonVars, fault>>

\* client_handle_button_press, button_handle_grab
GrabRefused(e) ==
  \/ e.win \notin registered \cap visible
  \/ e.buttons # {}
  \/ grabbed # NULL
  \/ e.win \in full

\* Mutant: a second grab takes over, and the monitor is forgotten.
PressTakesOver(e) ==
  /\ grabbed' = e.win /\ start' = e.x
  /\ helper' = IF e.button = 3 THEN "shown" ELSE helper
  /\ UNCHANGED <<clientVars, monitorRect, fault>>

HandlePress(e) ==
  IF GrabRefused(e) THEN Ignored
  ELSE /\ grabbed' = e.win /\ monitorRect' = "set" /\ start' = e.x
       /\ helper' = IF e.button = 3 THEN "shown" ELSE helper
       /\ UNCHANGED <<clientVars, fault>>

\* client_handle_drag
Drag(c, offset) ==
  /\ at' = [at EXCEPT ![c] = @ + offset]
  /\ UNCHANGED <<full, visible, registered, buttonVars, fault>>

\* Mutant: the position in the root window is taken for the one in the window.
MotionRoot(e) ==
  IF monitorRect # "set" THEN Fault("monitor_rect")
  ELSE IF e.root > MonitorWidth \/ grabbed = NULL THEN Ignored
  ELSE IF grabbed \notin registered THEN Fault("client")
  ELSE IF grabbed \in full \/ 1 \notin e.buttons THEN Ignored
  ELSE Drag(grabbed, e.root - start)

\* event_handle_motion_notify, button_handle_motion: the rectangle is looked at
\* before anything else.  Resizing only changes the helper.
HandleMotion(e) ==
  IF monitorRect # "set" THEN Fault("monitor_rect")
  ELSE IF e.root > MonitorWidth \/ grabbed = NULL THEN Ignored
  ELSE IF grabbed \notin registered THEN Fault("client")
  ELSE IF grabbed \in full \/ 1 \notin e.buttons THEN Ignored
  ELSE Drag(grabbed, e.x - start)

\* Mutant: a resize that ends leaves the grab.
ReleaseOne(e) ==
  IF e.button = 1 /\ grabbed # NULL THEN Reset /\ UNCHANGED <<clientVars, fault>> ELSE Ignored

\* button_handle_drag_end, button_handle_resize_end.  A client that is not on a
\* monitor cannot be resized, and stays grabbed.
HandleRelease(e) ==
  IF grabbed = NULL THEN Ignored
  ELSE IF e.button = 1 THEN Reset /\ UNCHANGED <<clientVars, fault>>
  ELSE IF grabbed \notin registered THEN Fault("client")
  ELSE IF grabbed \notin visible THEN Ignored
  ELSE Reset /\ UNCHANGED <<clientVars, fault>>

\* client_handle_destroy_notify frees the client; button_state is not told.
HandleDestroy(e) ==
  /\ registered' = registered \ {e.win}
  /\ UNCHANGED <<at, full, visible, buttonVars, fault>>

Handle ==
  /\ queue # <<>>
  /\ LET e == Head(queue)
     IN \/ e.typ = "press" /\ HandlePress(e)
        \/ e.typ = "motion" /\ HandleMotion(e)
        \/ e.typ = "release" /\ HandleRelease(e)
        \/ e.typ = "destroy" /\ HandleDestroy(e)
  /\ queue' = Tail(queue)
  /\ UNCHANGED serverVars

Next ==
  /\ fault = "none" /\ UNCHANGED situation
  /\ \/ \E c \in Clients, b \in Buttons : Press(c, b)
     \/ \E b \in Buttons : PressMore(b) \/ Release(b)
     \/ Move
     \/ \E c \in Clients : Destroy(c) \/ Hide(c) \/ Show(c) \/ Fullscreen(c)
     \/ Handle

Spec == Init /\ [][Next]_vars /\ WF_vars(Handle)

-----------------------------------------------------------------------------
(* What can be relied on *)

\* Types; the grabbed client is one, perhaps a freed one.
TypeOK ==
  /\ situation \in Situations /\ pointer \in 0 .. ScreenWidth /\ held \subseteq Buttons
  /\ grab \in [win : Clients, button : Buttons] \cup {NoGrab}
  /\ at \in [Clients -> Int]
  /\ full \subseteq Clients /\ visible \subseteq Clients
  /\ registered \subseteq Clients /\ existing \subseteq registered
  /\ grabbed \in Clients \cup {NULL}
  /\ monitorRect \in {"unset", "null", "set"} /\ start \in Int
  /\ helper \in {"none", "hidden", "shown"}
  /\ fault \in {"none", "monitor_rect", "client"}

\* Whoever looks at monitor_rect because a client is grabbed finds a rectangle,
\* and the resize helper does not stay on the screen without a client.
StateTogether ==
  /\ grabbed # NULL <=> monitorRect = "set"
  /\ helper = "shown" => grabbed # NULL

\* With one button at a time, and clients that stay, a client is grabbed only
\* while the server's grab on its window lasts, or its release is still to be
\* handled: no gesture acts on another one's client.
GrabbedHeld ==
  Calm /\ grabbed # NULL =>
    \/ grab.win = grabbed
    \/ \E i \in 1 .. Len(queue) : queue[i].typ = "release" /\ queue[i].win = grabbed

\* Then motion and release find what they use.
NoFault == Calm => fault = "none"

\* Once the events of a gesture are handled it has ended.
GestureEnds == Calm /\ grab = NoGrab /\ grabbed # NULL ~> grabbed = NULL

-----------------------------------------------------------------------------
(* What comments and messages of the code say, and the code does not do *)

\* button.c: "Ignore clients if they are currently fullscreen"; and motion
\* "when there isn't a currently grabbed client" is an error that is returned.
RectPresent == fault # "monitor_rect"

=============================================================================
