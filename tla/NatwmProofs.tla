---------------------------- MODULE NatwmProofs ----------------------------
(***************************************************************************)
(* Theorems about Natwm for any number of windows, workspaces and          *)
(* monitors.                                                               *)
(*                                                                         *)
(* First, in every situation: the state keeps its shape, one workspace is  *)
(* focused, and workspaces and monitors agree about what is on screen.     *)
(* The operators of Natwm take a state to a state, so a lemma about each   *)
(* says which parts it leaves alone; the order of the lemmas is that of    *)
(* the operators.  The three invariants are inductive only together.       *)
(*                                                                         *)
(* Then, from "Sequences without repetition" on, where a window has one    *)
(* structure at a time (Remaps = 0; with two of them, found by the window, *)
(* the lists do not agree with the map): the lists of clients, client_map, *)
(* active_client and the grabs for "click to focus" agree; natwm refines   *)
(* module Desktop; the windows on the screen and the one with the keyboard *)
(* are the right ones once every event is handled; and as long as natwm    *)
(* keeps up with the events, its own switches hide nothing.  Each fact is  *)
(* needed for the next, but the last needs only the first.                 *)
(***************************************************************************)
EXTENDS NatwmCalm, FiniteSetTheorems, SequenceTheorems, WellFoundedInduction, TLAPS

-----------------------------------------------------------------------------
(* Numbers and finite sets *)

\* A set of natural numbers that is not empty has a smallest element.
LEMMA SmallestElement ==
  ASSUME NEW S, S \subseteq Nat, S # {}
  PROVE  \E x \in S : \A y \in S : x <= y
<1>1. PICK x \in S : \A y \in S : ~(<<y, x>> \in OpToRel(<, Nat))
  BY WFMin, NatLessThanWellFounded, Zenon
<1>2. ASSUME NEW y \in S PROVE x <= y
  <2>1. ~(y < x) BY <1>1 DEF OpToRel
  <2>. QED BY <2>1
<1>. QED BY <1>2

\* FirstOf finds a member of any set of positions that is not empty.
LEMMA FirstOfType ==
  ASSUME NEW S, S \subseteq Nat, S # {}
  PROVE  FirstOf(S) \in S
BY SmallestElement DEF FirstOf

-----------------------------------------------------------------------------
(* Requests to the X server change what the server keeps and nothing else *)

SameScreens(s, t) == t.visible = s.visible /\ t.shows = s.shows

SameFocus(s, t) ==
  t.activeIndex = s.activeIndex /\ t.wsFocused = s.wsFocused /\ t.desktop = s.desktop

SameLists(s, t) ==
  t.clients = s.clients /\ t.active = s.active /\ t.registry = s.registry /\ t.live = s.live

SameFlags(s, t) ==
  t.focused = s.focused /\ t.hidden = s.hidden /\ t.offscreen = s.offscreen

XOnly(s, t) ==
  t \in State /\ SameScreens(s, t) /\ SameFocus(s, t) /\ SameLists(s, t) /\ SameFlags(s, t)

\* Event makes events.
LEMMA EventTyped ==
  ASSUME NEW t \in EventTypes, NEW w \in Windows
  PROVE  Event(t, w) \in Events
BY DEF Event, Events

\* The queue stays a queue when an event is appended.
LEMMA AppendEvent ==
  ASSUME NEW s \in State, NEW t \in EventTypes, NEW w \in Windows
  PROVE  Append(s.queue, Event(t, w)) \in Seq(Events)
<1>1. s.queue \in Seq(Events) BY DEF State
<1>. QED BY <1>1, EventTyped

\* Mapping a window.
LEMMA XMapTyped ==
  ASSUME NEW s \in State, NEW w \in Windows
  PROVE  XOnly(s, XMap(s, w))
<1>1. ASSUME s.win[w] = "unmapped" PROVE XOnly(s, XMap(s, w))
  <2>. DEFINE win   == [s.win EXCEPT ![w] = "mapped"]
              queue == Append(s.queue, Event("MapNotify", w))
  <2>1. XMap(s, w) = [s EXCEPT !.win = win, !.queue = queue]
    BY <1>1 DEF XMap, State
  <2>2. win \in [Windows -> WinStates] BY DEF State, WinStates
  <2>3. queue \in Seq(Events) BY AppendEvent DEF EventTypes
  <2>. HIDE DEF win, queue
  <2>. QED BY <2>1, <2>2, <2>3 DEF State, XOnly, SameScreens, SameFocus, SameLists, SameFlags
<1>. QED BY <1>1 DEF XMap, XOnly, SameScreens, SameFocus, SameLists, SameFlags

\* Unmapping windows, whatever events report it.
LEMMA XUnmapAllTyped ==
  ASSUME NEW s \in State, NEW ws \in SUBSET Windows, NEW es \in Seq(Events)
  PROVE  XOnly(s, XUnmapAll(s, ws, es))
<1>. DEFINE win    == [w \in Windows |-> IF w \in ws THEN "unmapped" ELSE s.win[w]]
            queue  == s.queue \o es
            frozen == IF s.frozen \in ws THEN NULL ELSE s.frozen
            input  == IF s.input \in ws THEN PointerRoot ELSE s.input
<1>1. XUnmapAll(s, ws, es) = [s EXCEPT !.win = win, !.queue = queue,
                                       !.frozen = frozen, !.input = input]
  BY DEF XUnmapAll, State
<1>2. win \in [Windows -> WinStates] BY DEF State, WinStates
<1>3. queue \in Seq(Events)
  <2>1. s.queue \in Seq(Events) BY DEF State
  <2>. QED BY <2>1, ConcatProperties
<1>4. frozen \in OptWindow BY DEF State, OptWindow
<1>5. input \in FocusWindows BY DEF State, FocusWindows
<1>. HIDE DEF win, queue, frozen, input
<1>6. XUnmapAll(s, ws, es) \in State
  BY <1>1, <1>2, <1>3, <1>4, <1>5, ZenonT(60) DEF State
<1>7. /\ SameScreens(s, XUnmapAll(s, ws, es)) /\ SameFocus(s, XUnmapAll(s, ws, es))
      /\ SameLists(s, XUnmapAll(s, ws, es)) /\ SameFlags(s, XUnmapAll(s, ws, es))
  BY <1>1 DEF State, SameScreens, SameFocus, SameLists, SameFlags
<1>. QED BY <1>6, <1>7 DEF XOnly

\* Unmapping one window.
LEMMA XUnmapTyped ==
  ASSUME NEW s \in State, NEW w \in Windows
  PROVE  XOnly(s, XUnmap(s, w))
<1>1. <<Event("UnmapNotify", w)>> \in Seq(Events) BY EventTyped DEF EventTypes
<1>2. {w} \in SUBSET Windows OBVIOUS
<1>. QED BY <1>1, <1>2, XUnmapAllTyped DEF XUnmap, XOnly, SameScreens, SameFocus, SameLists, SameFlags

\* Grabbing the button of "click to focus".
LEMMA XGrabTyped ==
  ASSUME NEW s \in State, NEW ws \in SUBSET Windows
  PROVE  XOnly(s, XGrab(s, ws))
BY DEF XGrab, XOnly, State, SameScreens, SameFocus, SameLists, SameFlags

\* Giving the grab up.
LEMMA XUngrabTyped ==
  ASSUME NEW s \in State, NEW w \in Windows
  PROVE  XOnly(s, XUngrab(s, w))
BY DEF XUngrab, XOnly, State, SameScreens, SameFocus, SameLists, SameFlags

\* client_set_window_input_focus.
LEMMA XFocusTyped ==
  ASSUME NEW s \in State, NEW w \in Windows
  PROVE  XOnly(s, XFocus(s, w))
<1>1. w \in FocusWindows BY DEF FocusWindows
<1>. QED BY <1>1 DEF XFocus, XOnly, State, SameScreens, SameFocus, SameLists, SameFlags

\* reset_input_focus.
LEMMA ResetInputFocusTyped ==
  ASSUME NEW s \in State
  PROVE  XOnly(s, ResetInputFocus(s))
<1>1. Root \in FocusWindows BY DEF FocusWindows
<1>. QED BY <1>1 DEF ResetInputFocus, XOnly, State, SameScreens, SameFocus, SameLists, SameFlags
-----------------------------------------------------------------------------
(* Lists and lookups *)

\* The window of a client.
LEMMA WinTyped ==
  ASSUME NEW c \in Clients
  PROVE  Win(c) \in Windows
BY DEF Win, Clients

\* The list of a workspace.
LEMMA ListTyped ==
  ASSUME NEW s \in State, NEW i \in Workspaces
  PROVE  s.clients[i] \in Seq(Clients) /\ Len(s.clients[i]) \in Nat
<1>1. s.clients[i] \in Seq(Clients) BY DEF State
<1>. QED BY <1>1

\* The entries of that list are clients.
LEMMA EntryTyped ==
  ASSUME NEW s \in State, NEW i \in Workspaces, NEW k \in 1 .. Len(s.clients[i])
  PROVE  s.clients[i][k] \in Clients /\ s.clients[i][k] \in OptClient
BY ListTyped, ElementOfSeq DEF OptClient

\* A window that is on a list is found at a position of it.
LEMMA FirstNodeTyped ==
  ASSUME NEW s \in State, NEW i \in Workspaces, NEW w, Nodes(s, i, w) # {}
  PROVE  FirstNode(s, i, w) \in Nodes(s, i, w) /\ FirstNode(s, i, w) \in 1 .. Len(s.clients[i])
<1>1. Nodes(s, i, w) \subseteq 1 .. Len(s.clients[i]) BY DEF Nodes
<1>2. Nodes(s, i, w) \subseteq Nat BY <1>1, ListTyped
<1>3. \E k \in Nodes(s, i, w) : \A l \in Nodes(s, i, w) : k <= l
  BY <1>2, SmallestElement
<1>4. FirstNode(s, i, w) \in Nodes(s, i, w) BY <1>3 DEF FirstNode
<1>. QED BY <1>1, <1>4

\* workspace_find_window_client returns a client or NULL.
LEMMA FindClientTyped ==
  ASSUME NEW s \in State, NEW i \in Workspaces, NEW w
  PROVE  FindClient(s, i, w) \in OptClient
<1>1. CASE Nodes(s, i, w) = {} BY <1>1 DEF FindClient, OptClient
<1>2. CASE Nodes(s, i, w) # {} BY <1>2, FirstNodeTyped, EntryTyped DEF FindClient
<1>. QED BY <1>1, <1>2

\* workspace_list_find_window_client returns a client or NULL.
LEMMA FindListedClientTyped ==
  ASSUME NEW s \in State, NEW w
  PROVE  FindListedClient(s, w) \in OptClient
<1>1. CASE HomesOf(s, w) = {} BY <1>1 DEF FindListedClient, OptClient
<1>2. CASE HomesOf(s, w) # {}
  <2>1. HomesOf(s, w) \subseteq Nat BY ConstantsAssumption DEF HomesOf, Workspaces
  <2>2. \E i \in HomesOf(s, w) : \A j \in HomesOf(s, w) : i <= j
    BY <1>2, <2>1, SmallestElement
  <2>. DEFINE i == CHOOSE i \in HomesOf(s, w) : \A j \in HomesOf(s, w) : i <= j
  <2>3. i \in HomesOf(s, w) BY <2>2
  <2>4. i \in Workspaces BY <2>3 DEF HomesOf
  <2>5. FindListedClient(s, w) = FindClient(s, i, w) BY <1>2 DEF FindListedClient
  <2>. HIDE DEF i
  <2>. QED BY <2>4, <2>5, FindClientTyped
<1>. QED BY <1>1, <1>2

\* The first of some monitors is one of them.
LEMMA MonitorTyped ==
  ASSUME NEW S \in SUBSET Monitors, S # {}
  PROVE  FirstOf(S) \in S
<1>1. S \subseteq Nat BY DEF Monitors
<1>. QED BY <1>1, FirstOfType

\* list_remove leaves a list.
LEMMA WithoutTyped ==
  ASSUME NEW S, NEW q \in Seq(S), NEW k \in 1 .. Len(q)
  PROVE  Without(q, k) \in Seq(S)
<1>1. SubSeq(q, 1, k - 1) \in Seq(S)
  BY SubSeqProperties, ElementOfSeq
<1>2. SubSeq(q, k + 1, Len(q)) \in Seq(S)
  BY SubSeqProperties, ElementOfSeq
<1>. QED BY <1>1, <1>2, ConcatProperties DEF Without

\* What is left of a list without its k-th node.
LEMMA WithoutElements ==
  ASSUME NEW S, NEW q \in Seq(S), NEW k \in 1 .. Len(q)
  PROVE  /\ Len(Without(q, k)) = Len(q) - 1
         /\ \A l \in 1 .. Len(q) - 1 :
              Without(q, k)[l] = IF l < k THEN q[l] ELSE q[l + 1]
<1>. DEFINE a == SubSeq(q, 1, k - 1)
            b == SubSeq(q, k + 1, Len(q))
<1>1. k \in Nat /\ Len(q) \in Nat /\ 1 <= k /\ k <= Len(q) OBVIOUS
<1>2. \A l \in 1 .. k - 1 : q[l] \in S BY <1>1, ElementOfSeq
<1>3. \A l \in k + 1 .. Len(q) : q[l] \in S BY <1>1, ElementOfSeq
<1>4. a \in Seq(S) /\ Len(a) = k - 1 /\ \A l \in 1 .. k - 1 : a[l] = q[l]
  BY <1>1, <1>2, SubSeqProperties
<1>5. b \in Seq(S) /\ Len(b) = Len(q) - k /\ \A l \in 1 .. Len(q) - k : b[l] = q[k + l]
  BY <1>1, <1>3, SubSeqProperties
<1>6. Without(q, k) = a \o b BY DEF Without
<1>. HIDE DEF a, b
<1>7. Len(a \o b) = Len(q) - 1
  <2>1. Len(a \o b) = Len(a) + Len(b) BY <1>4, <1>5, ConcatProperties
  <2>. QED BY <1>1, <1>4, <1>5, <2>1
<1>8. ASSUME NEW l \in 1 .. Len(q) - 1
      PROVE  (a \o b)[l] = IF l < k THEN q[l] ELSE q[l + 1]
  <2>1. (a \o b)[l] = IF l <= Len(a) THEN a[l] ELSE b[l - Len(a)]
    BY <1>1, <1>4, <1>5, ConcatProperties
  <2>2. CASE l < k BY <1>1, <1>4, <2>1, <2>2
  <2>3. CASE ~(l < k)
    <3>1. l - Len(a) \in 1 .. Len(q) - k /\ k + (l - Len(a)) = l + 1
      BY <1>1, <1>4, <2>3
    <3>. QED BY <1>1, <1>4, <1>5, <2>1, <2>3, <3>1
  <2>. QED BY <2>2, <2>3
<1>. QED BY <1>6, <1>7, <1>8

\* Moving a node to the head loses none.
LEMMA ToHeadKeeps ==
  ASSUME NEW S, NEW q \in Seq(S), NEW k \in 1 .. Len(q), NEW j \in 1 .. Len(q)
  PROVE  \E l \in 1 .. Len(ToHead(q, k)) : ToHead(q, k)[l] = q[j]
<1>. DEFINE h == <<q[k]>>
            r == Without(q, k)
<1>1. h \in Seq(S) /\ Len(h) = 1 /\ h[1] = q[k] BY ElementOfSeq
<1>2. r \in Seq(S) /\ Len(r) = Len(q) - 1 BY WithoutTyped, WithoutElements
<1>3. \A l \in 1 .. Len(q) - 1 : r[l] = IF l < k THEN q[l] ELSE q[l + 1]
  BY WithoutElements
<1>4. ToHead(q, k) = h \o r BY DEF ToHead
<1>. HIDE DEF h, r
<1>5. Len(h \o r) = Len(q) /\ Len(q) \in Nat
  <2>1. Len(h \o r) = Len(h) + Len(r) BY <1>1, <1>2, ConcatProperties
  <2>2. Len(q) \in Nat BY LenProperties
  <2>. QED BY <1>1, <1>2, <2>1, <2>2
<1>6. CASE j = k
  <2>1. 1 \in 1 .. Len(h \o r) BY <1>5
  <2>2. (h \o r)[1] = q[k] BY <1>1, <1>2, <1>5, ConcatProperties
  <2>. QED BY <1>4, <1>6, <2>1, <2>2
<1>7. CASE j < k
  <2>1. j + 1 \in 1 .. Len(h \o r) BY <1>5, <1>7
  <2>2. (h \o r)[j + 1] = r[j] BY <1>1, <1>2, <1>5, <2>1, ConcatProperties
  <2>3. r[j] = q[j] BY <1>3, <1>7
  <2>. QED BY <1>4, <2>1, <2>2, <2>3
<1>8. CASE j > k
  <2>1. j \in 1 .. Len(h \o r) /\ j - 1 \in 1 .. Len(q) - 1 BY <1>5, <1>8
  <2>2. (h \o r)[j] = r[j - 1] BY <1>1, <1>2, <1>5, <1>8, <2>1, ConcatProperties
  <2>3. r[j - 1] = q[j] BY <1>3, <1>8, <2>1
  <2>. QED BY <1>4, <2>1, <2>2, <2>3
<1>. QED BY <1>6, <1>7, <1>8

\* list_move_node_to_head leaves a list.
LEMMA ToHeadTyped ==
  ASSUME NEW S, NEW q \in Seq(S), NEW k \in 1 .. Len(q)
  PROVE  ToHead(q, k) \in Seq(S)
<1>1. <<q[k]>> \in Seq(S) BY ElementOfSeq
<1>. QED BY <1>1, WithoutTyped, ConcatProperties DEF ToHead

\* list_move_node_to_tail leaves a list.
LEMMA ToTailTyped ==
  ASSUME NEW S, NEW q \in Seq(S), NEW k \in 1 .. Len(q)
  PROVE  ToTail(q, k) \in Seq(S)
<1>1. <<q[k]>> \in Seq(S) BY ElementOfSeq
<1>. QED BY <1>1, WithoutTyped, ConcatProperties DEF ToTail

-----------------------------------------------------------------------------
(* Focus: whatever is focused, afterwards exactly one workspace is, and no   *)
(* monitor shows another workspace than before.                              *)

Focused(s) == s.wsFocused = {s.activeIndex} /\ s.desktop = s.activeIndex

\* While workspace_change_monitor runs no workspace is focused.
AtMostFocused(s) == s.wsFocused \subseteq {s.activeIndex} /\ s.desktop = s.activeIndex

Refocused(s, t) == t \in State /\ SameScreens(s, t) /\ Focused(t)

\* What focus_client does to the lists.
Reordered(s, t, i, k, c) ==
  /\ t.clients = [s.clients EXCEPT ![i] = ToHead(s.clients[i], k)]
  /\ t.active = [s.active EXCEPT ![i] = c]
  /\ t.registry = s.registry
  /\ t.live = s.live

\* client_set_unfocused changes a flag and a grab.
LEMMA ClientSetUnfocusedTyped ==
  ASSUME NEW s \in State, NEW c \in OptClient
  PROVE  /\ ClientSetUnfocused(s, c) \in State
         /\ SameScreens(s, ClientSetUnfocused(s, c))
         /\ SameFocus(s, ClientSetUnfocused(s, c))
         /\ SameLists(s, ClientSetUnfocused(s, c))
<1>1. CASE c = NULL \/ c \in s.hidden
  BY <1>1 DEF ClientSetUnfocused, SameScreens, SameFocus, SameLists
<1>2. CASE c # NULL /\ c \notin s.hidden
  <2>. DEFINE t == [s EXCEPT !.focused = @ \ {c}]
  <2>1. c \in Clients BY <1>2 DEF OptClient
  <2>2. /\ t \in State
        /\ SameScreens(s, t) /\ SameFocus(s, t) /\ SameLists(s, t)
    BY DEF State, SameScreens, SameFocus, SameLists
  <2>3. XOnly(t, XGrab(t, {Win(c)})) BY <2>1, <2>2, WinTyped, XGrabTyped
  <2>4. ClientSetUnfocused(s, c) = XGrab(t, {Win(c)}) BY <1>2 DEF ClientSetUnfocused
  <2>. HIDE DEF t
  <2>. QED BY <2>2, <2>3, <2>4 DEF XOnly, SameScreens, SameFocus, SameLists
<1>. QED BY <1>1, <1>2

\* active_client is a client or NULL.
LEMMA ActiveTyped ==
  ASSUME NEW s \in State, NEW i \in Workspaces
  PROVE  s.active[i] \in OptClient
BY DEF State

\* workspace_set_unfocused takes the flag from one workspace.
LEMMA WorkspaceSetUnfocusedTyped ==
  ASSUME NEW s \in State, NEW i \in Workspaces
  PROVE  LET t == WorkspaceSetUnfocused(s, i)
         IN  /\ t \in State /\ SameScreens(s, t) /\ SameLists(s, t)
             /\ t.wsFocused = s.wsFocused \ {i}
             /\ t.activeIndex = s.activeIndex /\ t.desktop = s.desktop
<1>1. CASE i \notin s.wsFocused
  BY <1>1 DEF WorkspaceSetUnfocused, SameScreens, SameLists, State
<1>2. CASE i \in s.wsFocused
  <2>. DEFINE u == ClientSetUnfocused(s, s.active[i])
  <2>1. u \in State /\ SameScreens(s, u) /\ SameFocus(s, u) /\ SameLists(s, u)
    BY ActiveTyped, ClientSetUnfocusedTyped
  <2>2. WorkspaceSetUnfocused(s, i) = [u EXCEPT !.wsFocused = @ \ {i}]
    BY <1>2 DEF WorkspaceSetUnfocused
  <2>. HIDE DEF u
  <2>3. WorkspaceSetUnfocused(s, i) \in State BY <2>1, <2>2, ZenonT(60) DEF State
  <2>. QED BY <2>1, <2>2, <2>3 DEF State, SameScreens, SameFocus, SameLists
<1>. QED BY <1>1, <1>2

\* workspace_set_focused leaves its workspace as the only focused one.
LEMMA WorkspaceSetFocusedTyped ==
  ASSUME NEW s \in State, AtMostFocused(s), NEW i \in Workspaces
  PROVE  LET t == WorkspaceSetFocused(s, i)
         IN  Refocused(s, t) /\ SameLists(s, t) /\ t.activeIndex = i
<1>1. CASE i \in s.wsFocused
  BY <1>1 DEF WorkspaceSetFocused, AtMostFocused, Refocused, Focused, SameScreens, SameLists
<1>2. CASE i \notin s.wsFocused
  <2>. DEFINE u == WorkspaceSetUnfocused(s, s.activeIndex)
  <2>1. s.activeIndex \in Workspaces BY DEF State
  <2>2. /\ u \in State /\ SameScreens(s, u) /\ SameLists(s, u)
        /\ u.wsFocused = s.wsFocused \ {s.activeIndex}
    BY <2>1, WorkspaceSetUnfocusedTyped
  <2>3. u.wsFocused = {} BY <2>2 DEF AtMostFocused
  <2>. DEFINE one == {i}
  <2>4. one \in SUBSET Workspaces OBVIOUS
  <2>5. WorkspaceSetFocused(s, i)
          = [u EXCEPT !.wsFocused = one, !.activeIndex = i, !.desktop = i]
    <3>1. WorkspaceSetFocused(s, i)
            = [u EXCEPT !.wsFocused = u.wsFocused \cup {i}, !.activeIndex = i, !.desktop = i]
      BY <1>2, <2>2 DEF WorkspaceSetFocused
    <3>2. u.wsFocused \cup {i} = one BY <2>3
    <3>. QED BY <3>1, <3>2
  <2>. HIDE DEF u, one
  <2>. DEFINE t == [u EXCEPT !.wsFocused = one, !.activeIndex = i, !.desktop = i]
  <2>6. t \in State BY <2>2, <2>4 DEF State
  <2>7. /\ t.wsFocused = one /\ t.activeIndex = i /\ t.desktop = i
        /\ SameScreens(u, t) /\ SameLists(u, t)
    BY <2>2 DEF State, SameScreens, SameLists
  <2>. HIDE DEF t
  <2>8. one = {i} BY DEF one
  <2>9. WorkspaceSetFocused(s, i) = t BY <2>5 DEF t
  <2>. QED
    BY <2>2, <2>6, <2>7, <2>8, <2>9 DEF Refocused, Focused, SameScreens, SameLists
<1>. QED BY <1>1, <1>2

\* client_set_focused may change the focused workspace, to one that exists.
LEMMA ClientSetFocusedTyped ==
  ASSUME NEW s \in State, Focused(s), NEW c \in OptClient
  PROVE  LET t == ClientSetFocused(s, c)
         IN  Refocused(s, t) /\ SameLists(s, t)
<1>1. CASE c = NULL \/ c \in s.hidden
  BY <1>1 DEF ClientSetFocused, Refocused, SameScreens, SameLists
<1>2. CASE c # NULL /\ c \notin s.hidden
  <2>1. c \in Clients /\ Win(c) \in Windows BY <1>2, WinTyped DEF OptClient
  <2>2. CASE s.registry[Win(c)] = NULL
    BY <1>2, <2>2 DEF ClientSetFocused, Refocused, SameScreens, SameLists
  <2>3. CASE s.registry[Win(c)] # NULL
    <3>. DEFINE i == s.registry[Win(c)]
                s0 == [s EXCEPT !.focused = @ \cup {c}]
                s1 == XFocus(s0, Win(c))
                s2 == WorkspaceSetFocused(s1, i)
    <3>1. i \in Workspaces BY <2>1, <2>3 DEF State, OptWorkspace
    <3>2. s0 \in State /\ SameScreens(s, s0) /\ SameFocus(s, s0) /\ SameLists(s, s0)
      BY <2>1 DEF State, SameScreens, SameFocus, SameLists
    <3>3. XOnly(s0, s1) BY <2>1, <3>2, XFocusTyped
    <3>4. s1 \in State /\ SameScreens(s, s1) /\ SameFocus(s, s1) /\ SameLists(s, s1)
      BY <3>2, <3>3 DEF XOnly, SameScreens, SameFocus, SameLists
    <3>5. AtMostFocused(s1) BY <3>4 DEF Focused, AtMostFocused, SameFocus
    <3>6. Refocused(s1, s2) /\ SameLists(s1, s2)
      BY <3>1, <3>4, <3>5, WorkspaceSetFocusedTyped
    <3>7. XOnly(s2, XUngrab(s2, Win(c))) BY <2>1, <3>6, XUngrabTyped DEF Refocused
    <3>8. ClientSetFocused(s, c) = XUngrab(s2, Win(c))
      BY <1>2, <2>3, Zenon DEF ClientSetFocused
    <3>. HIDE DEF i, s0, s1, s2
    <3>. QED BY <3>4, <3>6, <3>7, <3>8
         DEF XOnly, Refocused, Focused, SameScreens, SameFocus, SameLists
  <2>. QED BY <2>2, <2>3
<1>. QED BY <1>1, <1>2

\* focus_client, and what it does to the lists.
LEMMA FocusClientTyped ==
  ASSUME NEW s \in State, Focused(s), NEW i \in Workspaces,
         NEW k \in 1 .. Len(s.clients[i]), NEW c \in Clients
  PROVE  Refocused(s, FocusClient(s, i, k, c)) /\ Reordered(s, FocusClient(s, i, k, c), i, k, c)
<1>. DEFINE s1 == ClientSetUnfocused(s, s.active[i])
            active  == [s1.active EXCEPT ![i] = c]
            clients == [s1.clients EXCEPT ![i] = ToHead(s1.clients[i], k)]
            s2 == [s1 EXCEPT !.active = active, !.clients = clients]
<1>1. /\ s1 \in State /\ SameScreens(s, s1) /\ SameFocus(s, s1) /\ SameLists(s, s1)
  BY ActiveTyped, ClientSetUnfocusedTyped
<1>2. c \in OptClient BY DEF OptClient
<1>3. active \in [Workspaces -> OptClient] BY <1>1, <1>2 DEF State
<1>4. clients \in [Workspaces -> Seq(Clients)]
  <2>1. s1.clients[i] \in Seq(Clients) /\ k \in 1 .. Len(s1.clients[i])
    BY <1>1, ListTyped DEF SameLists
  <2>2. ToHead(s1.clients[i], k) \in Seq(Clients) BY <2>1, ToHeadTyped
  <2>. QED BY <1>1, <2>2 DEF State
<1>5. FocusClient(s, i, k, c) = ClientSetFocused(s2, c)
  BY <1>1 DEF FocusClient, State
<1>. HIDE DEF s1, active, clients
<1>6. s2 \in State /\ SameScreens(s1, s2) /\ SameFocus(s1, s2)
  BY <1>1, <1>3, <1>4 DEF State, SameScreens, SameFocus
<1>11. s2.active = active /\ s2.clients = clients /\ s2.registry = s1.registry /\ s2.live = s1.live
  BY <1>1 DEF State
<1>. HIDE DEF s2
<1>7. Focused(s2) BY <1>1, <1>6 DEF Focused, SameFocus
<1>8. Refocused(s2, ClientSetFocused(s2, c)) /\ SameLists(s2, ClientSetFocused(s2, c))
  BY <1>2, <1>6, <1>7, ClientSetFocusedTyped
<1>9. Refocused(s, FocusClient(s, i, k, c))
  BY <1>1, <1>5, <1>6, <1>8 DEF Refocused, SameScreens
<1>10. Reordered(s, FocusClient(s, i, k, c), i, k, c)
  BY <1>1, <1>5, <1>8, <1>11 DEF Reordered, SameLists, active, clients
<1>. QED BY <1>9, <1>10

\* workspace_reset_focus, in each of its cases.
LEMMA WorkspaceResetFocusTyped ==
  ASSUME NEW s \in State, Focused(s), NEW i \in Workspaces
  PROVE  Refocused(s, WorkspaceResetFocus(s, i))
<1>1. XOnly(s, ResetInputFocus(s)) BY ResetInputFocusTyped
<1>2. Refocused(s, s) /\ Refocused(s, ResetInputFocus(s))
  BY <1>1 DEF XOnly, Refocused, Focused, SameScreens, SameFocus
<1>3. CASE s.active[i] # NULL
  <2>1. s.active[i] \in Clients /\ s.active[i] \in OptClient
    BY <1>3, ActiveTyped DEF OptClient
  <2>2. Refocused(s, ClientSetFocused(s, s.active[i])) BY <2>1, ClientSetFocusedTyped
  <2>3. XOnly(s, XFocus(s, Win(s.active[i]))) BY <2>1, WinTyped, XFocusTyped
  <2>4. Refocused(s, XFocus(s, Win(s.active[i])))
    BY <2>3 DEF XOnly, Refocused, Focused, SameScreens, SameFocus
  <2>. QED BY <1>2, <1>3, <2>2, <2>4 DEF WorkspaceResetFocus
<1>4. CASE s.active[i] = NULL /\ Showable(s, i) # {}
  <2>. DEFINE k == FirstOf(Showable(s, i))
  <2>1. Showable(s, i) \subseteq 1 .. Len(s.clients[i]) BY DEF Showable
  <2>2. Showable(s, i) \subseteq Nat BY <2>1, ListTyped
  <2>3. k \in 1 .. Len(s.clients[i]) BY <1>4, <2>1, <2>2, FirstOfType
  <2>. HIDE DEF k
  <2>4. Refocused(s, FocusClient(s, i, k, s.clients[i][k]))
    BY <2>3, EntryTyped, FocusClientTyped
  <2>. QED BY <1>2, <1>4, <2>4 DEF WorkspaceResetFocus, k
<1>5. CASE s.active[i] = NULL /\ Showable(s, i) = {}
  BY <1>2, <1>5 DEF WorkspaceResetFocus
<1>. QED BY <1>3, <1>4, <1>5

\* workspace_focus_client.
LEMMA WorkspaceFocusClientTyped ==
  ASSUME NEW s \in State, Focused(s), NEW i \in Workspaces, NEW c \in Clients
  PROVE  LET t == WorkspaceFocusClient(s, i, c)
         IN  /\ Refocused(s, t)
             /\ \/ SameLists(s, t)
                \/ \E k \in 1 .. Len(s.clients[i]) : Reordered(s, t, i, k, c)
<1>1. CASE ~MayFocus(s, i, c)
  BY <1>1 DEF WorkspaceFocusClient, Refocused, SameScreens, SameLists
<1>2. CASE MayFocus(s, i, c)
  <2>. DEFINE k == FirstNode(s, i, Win(c))
              t == FocusClient(s, i, k, c)
  <2>1. k \in 1 .. Len(s.clients[i]) BY <1>2, FirstNodeTyped DEF MayFocus
  <2>. HIDE DEF k
  <2>2. Refocused(s, t) /\ Reordered(s, t, i, k, c) BY <2>1, FocusClientTyped
  <2>3. WorkspaceFocusClient(s, i, c) = WorkspaceSetFocused(t, i)
    BY <1>2 DEF WorkspaceFocusClient, k
  <2>. HIDE DEF t
  <2>4. AtMostFocused(t) BY <2>2 DEF Refocused, Focused, AtMostFocused
  <2>5. Refocused(t, WorkspaceSetFocused(t, i)) /\ SameLists(t, WorkspaceSetFocused(t, i))
    BY <2>2, <2>4, WorkspaceSetFocusedTyped DEF Refocused
  <2>6. Refocused(s, WorkspaceFocusClient(s, i, c))
    BY <2>2, <2>3, <2>5 DEF Refocused, SameScreens
  <2>7. Reordered(s, WorkspaceFocusClient(s, i, c), i, k, c)
    BY <2>2, <2>3, <2>5 DEF Reordered, SameLists
  <2>. QED BY <2>1, <2>6, <2>7
<1>. QED BY <1>1, <1>2

\* workspace_unfocus_client: the client it puts at the tail is still on the list
\* after the next one was focused.
LEMMA WorkspaceUnfocusClientTyped ==
  ASSUME NEW s \in State, Focused(s), NEW i \in Workspaces, NEW c \in Clients
  PROVE  Refocused(s, WorkspaceUnfocusClient(s, i, c))
<1>. DEFINE k == FirstNode(s, i, Win(c))
<1>1. CASE Nodes(s, i, Win(c)) = {} \/ k = Len(s.clients[i])
  BY <1>1 DEF WorkspaceUnfocusClient, Refocused, SameScreens
<1>2. CASE ~(Nodes(s, i, Win(c)) = {} \/ k = Len(s.clients[i]))
  <2>. DEFINE s1 == IF c \in s.focused
                    THEN WorkspaceFocusClient(s, i, s.clients[i][k + 1]) ELSE s
              k1 == FirstNode(s1, i, Win(c))
              clients == [s1.clients EXCEPT ![i] = ToTail(s1.clients[i], k1)]
  <2>1. k \in Nodes(s, i, Win(c)) /\ k \in 1 .. Len(s.clients[i])
    BY <1>2, FirstNodeTyped
  <2>2. k + 1 \in 1 .. Len(s.clients[i]) BY <1>2, <2>1, ListTyped
  <2>3. WorkspaceUnfocusClient(s, i, c) = [s1 EXCEPT !.clients[i] = ToTail(@, k1)]
    BY <1>2, Zenon DEF WorkspaceUnfocusClient
  <2>. HIDE DEF k
  <2>4. /\ Refocused(s, s1)
        /\ SameLists(s, s1) \/ \E l \in 1 .. Len(s.clients[i]) :
                                Reordered(s, s1, i, l, s.clients[i][k + 1])
    <3>1. CASE c \in s.focused
      BY <2>2, <3>1, EntryTyped, WorkspaceFocusClientTyped
    <3>2. CASE c \notin s.focused
      BY <3>2 DEF Refocused, SameScreens, SameLists
    <3>. QED BY <3>1, <3>2
  <2>5. s1 \in State BY <2>4 DEF Refocused
  <2>. HIDE DEF s1
  <2>6. Nodes(s1, i, Win(c)) # {}
    <3>1. Win(s.clients[i][k]) = Win(c) BY <2>1 DEF Nodes
    <3>2. \E l \in 1 .. Len(s1.clients[i]) : s1.clients[i][l] = s.clients[i][k]
      <4>1. CASE SameLists(s, s1) BY <2>1, <4>1 DEF SameLists
      <4>2. CASE \E l \in 1 .. Len(s.clients[i]) : Reordered(s, s1, i, l, s.clients[i][k + 1])
        <5>1. PICK l \in 1 .. Len(s.clients[i]) : Reordered(s, s1, i, l, s.clients[i][k + 1])
          BY <4>2
        <5>2. s1.clients[i] = ToHead(s.clients[i], l) BY <5>1 DEF Reordered, State
        <5>3. s.clients[i] \in Seq(Clients) BY ListTyped
        <5>4. \E j \in 1 .. Len(ToHead(s.clients[i], l)) :
                ToHead(s.clients[i], l)[j] = s.clients[i][k]
          BY <2>1, <5>3, ToHeadKeeps
        <5>. QED BY <5>2, <5>4
      <4>. QED BY <2>4, <4>1, <4>2
    <3>. QED BY <3>1, <3>2 DEF Nodes
  <2>7. ToTail(s1.clients[i], k1) \in Seq(Clients)
    BY <2>5, <2>6, FirstNodeTyped, ListTyped, ToTailTyped
  <2>8. clients \in [Workspaces -> Seq(Clients)] BY <2>5, <2>7 DEF State
  <2>9. WorkspaceUnfocusClient(s, i, c) = [s1 EXCEPT !.clients = clients]
    BY <2>3, <2>5 DEF State
  <2>. HIDE DEF clients
  <2>. QED BY <2>4, <2>8, <2>9 DEF Refocused, Focused, SameScreens, State
<1>. QED BY <1>1, <1>2

-----------------------------------------------------------------------------
(* Hiding, showing and moving *)

\* client_hide changes flags and the server only.
LEMMA ClientHideTyped ==
  ASSUME NEW s \in State, NEW c \in Clients
  PROVE  LET t == ClientHide(s, c)
         IN  t \in State /\ SameScreens(s, t) /\ SameFocus(s, t) /\ SameLists(s, t)
<1>. DEFINE s1 == IF c \in s.focused THEN ClientSetUnfocused(s, c) ELSE s
            offscreen == s1.offscreen \cup {c}
            s2 == [s1 EXCEPT !.offscreen = offscreen]
<1>1. s1 \in State /\ SameScreens(s, s1) /\ SameFocus(s, s1) /\ SameLists(s, s1)
  BY ClientSetUnfocusedTyped DEF OptClient, SameScreens, SameFocus, SameLists
<1>2. offscreen \in SUBSET Clients BY <1>1 DEF State
<1>3. ClientHide(s, c) = XUnmap(s2, Win(c)) BY DEF ClientHide
<1>. HIDE DEF s1, offscreen
<1>4. s2 \in State /\ SameScreens(s1, s2) /\ SameFocus(s1, s2) /\ SameLists(s1, s2)
  BY <1>1, <1>2 DEF State, SameScreens, SameFocus, SameLists
<1>. HIDE DEF s2
<1>5. XOnly(s2, XUnmap(s2, Win(c))) BY <1>4, WinTyped, XUnmapTyped
<1>. QED BY <1>1, <1>3, <1>4, <1>5 DEF XOnly, SameScreens, SameFocus, SameLists

\* So does client_show.
LEMMA ClientShowTyped ==
  ASSUME NEW s \in State, NEW c \in Clients
  PROVE  LET t == ClientShow(s, c)
         IN  t \in State /\ SameScreens(s, t) /\ SameFocus(s, t) /\ SameLists(s, t)
<1>. DEFINE s1 == [s EXCEPT !.hidden = @ \ {c}]
<1>1. s1 \in State /\ SameScreens(s, s1) /\ SameFocus(s, s1) /\ SameLists(s, s1)
  BY DEF State, SameScreens, SameFocus, SameLists
<1>2. ClientShow(s, c) = XMap(s1, Win(c)) BY DEF ClientShow
<1>. HIDE DEF s1
<1>3. XOnly(s1, XMap(s1, Win(c))) BY <1>1, WinTyped, XMapTyped
<1>. QED BY <1>1, <1>2, <1>3 DEF XOnly, SameScreens, SameFocus, SameLists

\* The n-th smallest number of a finite set exists.
LEMMA NthType ==
  ASSUME NEW L \in Nat, NEW K \in SUBSET (1 .. L), NEW n \in 1 .. Cardinality(K)
  PROVE  Nth(K, n) \in K
<1>. DEFINE below(m) == {l \in K : l <= m}
<1>1. IsFiniteSet(K) /\ \A l \in K : l \in Nat /\ 1 <= l /\ l <= L
  <2>1. IsFiniteSet(1 .. L) BY FS_Interval
  <2>2. IsFiniteSet(K) BY <2>1, FS_Subset
  <2>3. \A l \in K : l \in 1 .. L OBVIOUS
  <2>. QED BY <2>2, <2>3
<1>2. \A m : IsFiniteSet(below(m)) /\ Cardinality(below(m)) \in Nat
  BY <1>1, FS_Subset, FS_CardinalityType
<1>. DEFINE B == {m \in Nat : Cardinality(below(m)) >= n}
<1>3. B \subseteq Nat /\ B # {}
  <2>1. below(L) = K BY <1>1
  <2>2. Cardinality(below(L)) >= n BY <1>2, <2>1
  <2>. QED BY <2>2
<1>4. PICK m \in B : \A x \in B : m <= x
  <2>. HIDE DEF B
  <2>. QED BY <1>3, SmallestElement
<1>5. m # 0
  <2>3. \A l \in K : ~(l <= 0) BY <1>1
  <2>1. below(0) = {} BY <2>3, Zenon
  <2>2. Cardinality(below(0)) = 0 BY <2>1, FS_EmptySet
  <2>. QED BY <1>4, <2>2
<1>6. m \in Nat /\ m - 1 \in Nat /\ m - 1 \notin B
  <2>1. m \in Nat BY <1>4
  <2>2. m - 1 \in Nat /\ ~(m <= m - 1) BY <1>5, <2>1
  <2>. HIDE DEF B
  <2>. QED BY <1>4, <2>1, <2>2
<1>7. Cardinality(below(m - 1)) < n /\ Cardinality(below(m)) >= n
  <2>. HIDE DEF below
  <2>. QED BY <1>2, <1>4, <1>6
<1>8. m \in K /\ Cardinality(below(m)) = n
  <2>1. CASE m \notin K
    <3>2. \A l \in K : l <= m <=> l <= m - 1 BY <1>1, <1>6, <2>1
    <3>1. below(m) = below(m - 1) BY <3>2, Zenon
    <3>. QED BY <1>2, <1>7, <3>1
  <2>2. CASE m \in K
    <3>4. \A l \in K : l <= m <=> l <= m - 1 \/ l = m BY <1>1, <1>6
    <3>5. m <= m BY <1>6
    <3>1. below(m) = below(m - 1) \cup {m} BY <2>2, <3>4, <3>5, Zenon
    <3>2. m \notin below(m - 1) BY <1>6
    <3>. HIDE DEF below
    <3>3. Cardinality(below(m)) = Cardinality(below(m - 1)) + 1
      BY <1>2, <3>1, <3>2, FS_AddElement
    <3>. QED BY <1>2, <1>7, <2>2, <3>3
  <2>. QED BY <2>1, <2>2
<1>. QED BY <1>8 DEF Nth

\* The events of a loop over the clients of a workspace.
LEMMA LoopEventsTyped ==
  ASSUME NEW s \in State, NEW i \in Workspaces, NEW from, NEW type \in EventTypes
  PROVE  /\ LoopEvents(s, i, from, type) \in Seq(Events)
         /\ LoopWindows(s, i, from) \in SUBSET Windows
<1>. DEFINE K == LoopNodes(s, i, from)
            N == Cardinality(K)
<1>1. K \in SUBSET (1 .. Len(s.clients[i])) /\ Len(s.clients[i]) \in Nat
  BY ListTyped DEF LoopNodes, Showable
<1>2. \A k \in K : Win(s.clients[i][k]) \in Windows BY <1>1, EntryTyped, WinTyped
<1>3. N \in Nat
  <2>1. IsFiniteSet(1 .. Len(s.clients[i])) BY <1>1, FS_Interval
  <2>2. IsFiniteSet(K) BY <1>1, <2>1, FS_Subset
  <2>. QED BY <2>2, FS_CardinalityType
<1>4. \A n \in 1 .. N : Nth(K, n) \in K
  <2>. HIDE DEF K
  <2>. QED BY <1>1, NthType
<1>5. \A n \in 1 .. N : Event(type, Win(s.clients[i][Nth(K, n)])) \in Events
  BY <1>2, <1>4, EventTyped
<1>6. LoopEvents(s, i, from, type)
        = [n \in 1 .. N |-> Event(type, Win(s.clients[i][Nth(K, n)]))]
  BY DEF LoopEvents
<1>7. LoopWindows(s, i, from) \in SUBSET Windows BY <1>2 DEF LoopWindows
<1>. HIDE DEF K, N
<1>. QED BY <1>3, <1>5, <1>6, <1>7

\* workspace_hide takes is_visible and is_focused from one workspace.
LEMMA WorkspaceHideTyped ==
  ASSUME NEW s \in State, NEW i \in Workspaces
  PROVE  LET t == WorkspaceHide(s, i)
         IN  /\ t \in State /\ SameLists(s, t)
             /\ t.visible = s.visible \ {i} /\ t.shows = s.shows
             /\ t.wsFocused \subseteq s.wsFocused
             /\ t.activeIndex = s.activeIndex /\ t.desktop = s.desktop
<1>1. CASE i \notin s.visible BY <1>1 DEF WorkspaceHide, SameLists
<1>2. CASE i \in s.visible
  <2>. DEFINE loop == Members(s, i) \ s.hidden
              wsFocused == s.wsFocused \ {i}
              visible   == s.visible \ {i}
              focused   == s.focused \ loop
              offscreen == s.offscreen \cup loop
              s1 == [s EXCEPT !.wsFocused = wsFocused, !.visible = visible,
                              !.focused = focused, !.offscreen = offscreen]
              ws == {Win(c) : c \in loop \cap s.focused}
              s2 == XGrab(s1, ws)
              es == LoopEvents(s, i, "mapped", "UnmapNotify")
              wins == LoopWindows(s, i, "mapped")
  <2>1. loop \in SUBSET Clients BY EntryTyped DEF Members
  <2>2. ws \in SUBSET Windows BY <2>1, WinTyped
  <2>3. es \in Seq(Events) /\ wins \in SUBSET Windows BY LoopEventsTyped DEF EventTypes
  <2>4. WorkspaceHide(s, i) = XUnmapAll(s2, wins, es) BY <1>2, Zenon DEF WorkspaceHide
  <2>5. /\ wsFocused \in SUBSET Workspaces /\ visible \in SUBSET Workspaces
        /\ focused \in SUBSET Clients /\ offscreen \in SUBSET Clients
    <3>. HIDE DEF loop
    <3>. QED BY <2>1 DEF State
  <2>. HIDE DEF loop, wsFocused, visible, focused, offscreen, ws, es, wins
  <2>6. /\ s1 \in State /\ SameLists(s, s1)
        /\ s1.visible = visible /\ s1.shows = s.shows
        /\ s1.wsFocused = wsFocused
        /\ s1.activeIndex = s.activeIndex /\ s1.desktop = s.desktop
    BY <2>5 DEF State, SameLists
  <2>. HIDE DEF s1
  <2>7. XOnly(s1, s2) BY <2>2, <2>6, XGrabTyped
  <2>. HIDE DEF s2
  <2>8. XOnly(s2, XUnmapAll(s2, wins, es)) BY <2>3, <2>7, XUnmapAllTyped DEF XOnly
  <2>. QED BY <2>4, <2>6, <2>7, <2>8
       DEF XOnly, SameScreens, SameFocus, SameLists, wsFocused, visible
<1>. QED BY <1>1, <1>2

\* workspace_send_to_monitor makes one workspace visible on one monitor.
LEMMA WorkspaceSendToMonitorTyped ==
  ASSUME NEW s \in State, NEW i \in Workspaces, NEW m \in Monitors
  PROVE  LET t == WorkspaceSendToMonitor(s, i, m)
         IN  /\ t \in State /\ SameLists(s, t) /\ SameFocus(s, t)
             /\ t.visible = s.visible \cup {i}
             /\ t.shows = [s.shows EXCEPT ![m] = i]
<1>. DEFINE ws      == LoopWindows(s, i, "unmapped")
            win     == [w \in Windows |-> IF w \in ws THEN "mapped" ELSE s.win[w]]
            queue   == s.queue \o LoopEvents(s, i, "unmapped", "MapNotify")
            visible == s.visible \cup {i}
            shows   == [s.shows EXCEPT ![m] = i]
<1>1. WorkspaceSendToMonitor(s, i, m)
        = [s EXCEPT !.win = win, !.queue = queue, !.visible = visible, !.shows = shows]
  BY DEF WorkspaceSendToMonitor, State
<1>2. win \in [Windows -> WinStates] BY DEF State, WinStates
<1>3. queue \in Seq(Events)
  <2>1. s.queue \in Seq(Events) BY DEF State
  <2>2. LoopEvents(s, i, "unmapped", "MapNotify") \in Seq(Events)
    BY LoopEventsTyped DEF EventTypes
  <2>. QED BY <2>1, <2>2, ConcatProperties
<1>4. visible \in SUBSET Workspaces BY DEF State
<1>5. shows \in [Monitors -> OptWorkspace] BY DEF State, OptWorkspace
<1>. HIDE DEF ws, win, queue, visible, shows
<1>6. WorkspaceSendToMonitor(s, i, m) \in State
  BY <1>1, <1>2, <1>3, <1>4, <1>5, ZenonT(60) DEF State
<1>7. LET t == WorkspaceSendToMonitor(s, i, m)
      IN  /\ SameLists(s, t) /\ SameFocus(s, t)
          /\ t.visible = visible /\ t.shows = shows
  BY <1>1 DEF State, SameLists, SameFocus
<1>. QED BY <1>6, <1>7 DEF visible, shows

\* MonitorsAgree, of any state.
Agree(s) ==
  /\ s.visible = {s.shows[m] : m \in Monitors} \ {NULL}
  /\ \A m, n \in Monitors : s.shows[m] = s.shows[n] /\ s.shows[m] # NULL => m = n

\* NULL is not a workspace.
LEMMA NullNoWorkspace == NULL \notin Workspaces
BY ConstantsAssumption DEF Workspaces

\* Putting a workspace that is on no monitor in the place of another one.
LEMMA Replaced ==
  ASSUME NEW s \in State, Agree(s), NEW m \in Monitors, NEW i \in Workspaces,
         s.shows[m] # NULL, i \notin s.visible, NEW t \in State,
         t.visible = (s.visible \ {s.shows[m]}) \cup {i},
         t.shows = [s.shows EXCEPT ![m] = i]
  PROVE  Agree(t)
BY NullNoWorkspace DEF Agree, State

\* Swapping the workspaces of two monitors.
LEMMA Swapped ==
  ASSUME NEW s \in State, Agree(s), NEW m \in Monitors, NEW n \in Monitors,
         m # n, s.shows[m] # NULL, s.shows[n] # NULL, NEW t \in State,
         t.visible = s.visible,
         t.shows = [s.shows EXCEPT ![m] = s.shows[n], ![n] = s.shows[m]]
  PROVE  Agree(t)
<1>1. t.shows[m] = s.shows[n] /\ t.shows[n] = s.shows[m] BY DEF State
<1>2. \A x \in Monitors \ {m, n} : t.shows[x] = s.shows[x] BY DEF State
<1>3. {t.shows[x] : x \in Monitors} = {s.shows[x] : x \in Monitors}
  BY <1>1, <1>2
<1>4. \A x, y \in Monitors : t.shows[x] = t.shows[y] /\ t.shows[x] # NULL => x = y
  BY <1>1, <1>2 DEF Agree
<1>. QED BY <1>3, <1>4 DEF Agree

\* workspace_change_monitor: no workspace is focused between its workspace_hide
\* and its workspace_set_focused, and the monitors agree again at the end, both
\* when the next workspace was on no monitor and when two monitors swap.
LEMMA WorkspaceChangeMonitorTyped ==
  ASSUME NEW s \in State, Focused(s), Agree(s), NEW next \in Workspaces
  PROVE  LET t == WorkspaceChangeMonitor(s, next)
         IN  t \in State /\ Focused(t) /\ Agree(t)
<1>. DEFINE cur  == s.activeIndex
            curM == ActiveMonitor(s)
            nxtM == FirstOf(MonitorsOf(s, next))
            s1   == WorkspaceHide(s, cur)
            s1h  == WorkspaceHide(s1, next)
            s2   == IF next \in s1.visible /\ nxtM # NULL
                    THEN WorkspaceSendToMonitor(s1h, cur, nxtM) ELSE s1
            s3   == WorkspaceSendToMonitor(s2, next, curM)
            s4   == WorkspaceSetFocused(s3, next)
<1>1. CASE next \in s.wsFocused \/ curM = NULL BY <1>1 DEF WorkspaceChangeMonitor
<1>2. CASE next \notin s.wsFocused /\ curM # NULL
  <2>1. cur \in Workspaces /\ next # cur BY <1>2 DEF State, Focused
  <2>2. curM \in Monitors /\ s.shows[curM] = cur
    <3>1. {m \in Monitors : s.shows[m] \in s.wsFocused} # {} BY <1>2 DEF ActiveMonitor, FirstOf
    <3>2. curM \in {m \in Monitors : s.shows[m] \in s.wsFocused}
      BY <3>1, MonitorTyped DEF ActiveMonitor
    <3>. QED BY <3>2 DEF Focused
  <2>3. cur \in s.visible /\ cur # NULL BY <2>1, <2>2, NullNoWorkspace DEF Agree
  <2>4. WorkspaceChangeMonitor(s, next) = WorkspaceResetFocus(s4, next)
    BY <1>2, Zenon DEF WorkspaceChangeMonitor
  <2>5. /\ s1 \in State /\ s1.visible = s.visible \ {cur} /\ s1.shows = s.shows
        /\ AtMostFocused(s1)
    BY <2>1, WorkspaceHideTyped DEF Focused, AtMostFocused
  <2>. HIDE DEF s1, curM
  <2>6. ASSUME next \in s1.visible /\ nxtM # NULL
        PROVE  s3 \in State /\ AtMostFocused(s3) /\ Agree(s3)
    <3>1. MonitorsOf(s, next) # {} BY <2>6 DEF FirstOf
    <3>2. nxtM \in MonitorsOf(s, next) BY <3>1, MonitorTyped DEF MonitorsOf
    <3>3. nxtM \in Monitors /\ s.shows[nxtM] = next BY <3>2 DEF MonitorsOf
    <3>. HIDE DEF nxtM
    <3>4. /\ s1h \in State /\ s1h.visible = s1.visible \ {next} /\ s1h.shows = s1.shows
          /\ AtMostFocused(s1h)
      BY <2>5, WorkspaceHideTyped DEF AtMostFocused
    <3>. HIDE DEF s1h
    <3>5. /\ s2 \in State /\ s2.visible = s1h.visible \cup {cur}
          /\ s2.shows = [s1h.shows EXCEPT ![nxtM] = cur] /\ AtMostFocused(s2)
      BY <2>1, <2>6, <3>3, <3>4, WorkspaceSendToMonitorTyped DEF AtMostFocused, SameFocus
    <3>. HIDE DEF s2
    <3>6. /\ s3 \in State /\ s3.visible = s2.visible \cup {next}
          /\ s3.shows = [s2.shows EXCEPT ![curM] = next] /\ AtMostFocused(s3)
      BY <2>2, <3>5, WorkspaceSendToMonitorTyped DEF AtMostFocused, SameFocus
    <3>7. s3.visible = s.visible BY <2>3, <2>5, <2>6, <3>4, <3>5, <3>6
    <3>8. s3.shows = [s.shows EXCEPT ![nxtM] = cur, ![curM] = next]
      BY <2>5, <3>4, <3>5, <3>6
    <3>. HIDE DEF s3
    <3>9. Agree(s3)
      BY <2>1, <2>2, <2>3, <3>3, <3>6, <3>7, <3>8, NullNoWorkspace, Swapped
    <3>. QED BY <3>6, <3>9
  <2>7. ASSUME ~(next \in s1.visible /\ nxtM # NULL)
        PROVE  s3 \in State /\ AtMostFocused(s3) /\ Agree(s3)
    <3>1. next \notin s.visible
      <4>1. ASSUME next \in s.visible PROVE FALSE
        <5>1. PICK m \in Monitors : s.shows[m] = next BY <4>1 DEF Agree
        <5>2. MonitorsOf(s, next) # {} BY <5>1 DEF MonitorsOf
        <5>3. nxtM \in MonitorsOf(s, next) BY <5>2, MonitorTyped DEF MonitorsOf
        <5>4. nxtM # NULL BY <5>3, ConstantsAssumption DEF MonitorsOf, Monitors
        <5>. QED BY <2>1, <2>5, <2>7, <4>1, <5>4
      <4>. QED BY <4>1
    <3>2. s2 = s1 BY <2>7
    <3>. HIDE DEF s2
    <3>3. /\ s3 \in State /\ s3.visible = s1.visible \cup {next}
          /\ s3.shows = [s1.shows EXCEPT ![curM] = next] /\ AtMostFocused(s3)
      BY <2>2, <2>5, <3>2, WorkspaceSendToMonitorTyped DEF AtMostFocused, SameFocus
    <3>. HIDE DEF s3
    <3>4. Agree(s3) BY <2>2, <2>3, <2>5, <3>1, <3>3, Replaced
    <3>. QED BY <3>3, <3>4
  <2>8. s3 \in State /\ AtMostFocused(s3) /\ Agree(s3) BY <2>6, <2>7
  <2>. HIDE DEF s3
  <2>9. Refocused(s3, s4) BY <2>8, WorkspaceSetFocusedTyped
  <2>. HIDE DEF s4
  <2>10. Refocused(s4, WorkspaceResetFocus(s4, next))
    BY <2>9, WorkspaceResetFocusTyped DEF Refocused
  <2>. QED BY <2>4, <2>8, <2>9, <2>10 DEF Refocused, SameScreens, Agree
<1>. QED BY <1>1, <1>2

\* workspace_add_client touches neither monitors nor the focused workspace.
LEMMA WorkspaceAddClientTyped ==
  ASSUME NEW s \in State, NEW i \in Workspaces, NEW c \in Clients
  PROVE  LET t == WorkspaceAddClient(s, i, c)
         IN  t \in State /\ SameScreens(s, t) /\ SameFocus(s, t)
<1>. DEFINE clients  == [s.clients EXCEPT ![i] = <<c>> \o s.clients[i]]
            registry == [s.registry EXCEPT ![Win(c)] = i]
            s1 == [s EXCEPT !.clients = clients, !.registry = registry]
            s2 == ClientSetUnfocused(s1, s.active[i])
            active == [s2.active EXCEPT ![i] = c]
<1>1. clients \in [Workspaces -> Seq(Clients)]
  <2>1. s.clients[i] \in Seq(Clients) BY ListTyped
  <2>2. <<c>> \in Seq(Clients) OBVIOUS
  <2>3. <<c>> \o s.clients[i] \in Seq(Clients) BY <2>1, <2>2, ConcatProperties
  <2>. QED BY <2>3 DEF State
<1>2. registry \in [Windows -> OptWorkspace] BY WinTyped DEF State, OptWorkspace
<1>3. WorkspaceAddClient(s, i, c) = [s2 EXCEPT !.active[i] = c]
  BY DEF WorkspaceAddClient, State
<1>. HIDE DEF clients, registry
<1>4. s1 \in State /\ SameScreens(s, s1) /\ SameFocus(s, s1)
  BY <1>1, <1>2 DEF State, SameScreens, SameFocus
<1>. HIDE DEF s1
<1>5. s2 \in State /\ SameScreens(s1, s2) /\ SameFocus(s1, s2)
  BY <1>4, ActiveTyped, ClientSetUnfocusedTyped
<1>6. active \in [Workspaces -> OptClient] BY <1>5 DEF State, OptClient
<1>7. WorkspaceAddClient(s, i, c) = [s2 EXCEPT !.active = active] BY <1>3, <1>5 DEF State
<1>. HIDE DEF s2, active
<1>. QED BY <1>4, <1>5, <1>6, <1>7 DEF State, SameScreens, SameFocus

\* workspace_remove_client may turn the focus, within the workspace.
LEMMA WorkspaceRemoveClientTyped ==
  ASSUME NEW s \in State, Focused(s), NEW i \in Workspaces, NEW c \in Clients
  PROVE  Refocused(s, WorkspaceRemoveClient(s, i, c))
<1>1. CASE Nodes(s, i, Win(c)) = {}
  BY <1>1 DEF WorkspaceRemoveClient, Refocused, SameScreens
<1>2. CASE Nodes(s, i, Win(c)) # {}
  <2>. DEFINE k == FirstNode(s, i, Win(c))
              clients  == [s.clients EXCEPT ![i] = Without(s.clients[i], k)]
              registry == [s.registry EXCEPT ![Win(c)] = NULL]
              s1 == [s EXCEPT !.clients = clients, !.registry = registry]
              active == [s1.active EXCEPT ![i] = NULL]
              s2 == [s1 EXCEPT !.active = active]
  <2>1. clients \in [Workspaces -> Seq(Clients)]
    <3>1. k \in 1 .. Len(s.clients[i]) BY <1>2, FirstNodeTyped
    <3>2. Without(s.clients[i], k) \in Seq(Clients) BY <3>1, ListTyped, WithoutTyped
    <3>. QED BY <3>2 DEF State
  <2>2. registry \in [Windows -> OptWorkspace] BY WinTyped DEF State, OptWorkspace
  <2>3. WorkspaceRemoveClient(s, i, c)
          = IF s.active[i] # c THEN s1
            ELSE WorkspaceResetFocus([s1 EXCEPT !.active[i] = NULL], i)
    BY <1>2 DEF WorkspaceRemoveClient, State
  <2>. HIDE DEF clients, registry
  <2>4. s1 \in State /\ SameScreens(s, s1) /\ SameFocus(s, s1)
    BY <2>1, <2>2 DEF State, SameScreens, SameFocus
  <2>. HIDE DEF s1
  <2>5. active \in [Workspaces -> OptClient] BY <2>4 DEF State, OptClient
  <2>6. [s1 EXCEPT !.active[i] = NULL] = s2 BY <2>4 DEF State
  <2>. HIDE DEF active
  <2>7. s2 \in State /\ SameScreens(s1, s2) /\ SameFocus(s1, s2)
    BY <2>4, <2>5 DEF State, SameScreens, SameFocus
  <2>. HIDE DEF s2
  <2>8. Focused(s1) /\ Focused(s2) BY <2>4, <2>7 DEF Focused, SameFocus
  <2>9. Refocused(s2, WorkspaceResetFocus(s2, i)) BY <2>7, <2>8, WorkspaceResetFocusTyped
  <2>. QED BY <2>3, <2>4, <2>6, <2>7, <2>8, <2>9 DEF Refocused, SameScreens
<1>. QED BY <1>1, <1>2

-----------------------------------------------------------------------------
(* The invariant, as a predicate on any state                                *)

Good(s) == s \in State /\ Focused(s) /\ Agree(s)

\* What leaves screens and focus alone keeps the invariant;
LEMMA Unchanged ==
  ASSUME NEW s, Good(s), NEW t \in State, SameScreens(s, t), SameFocus(s, t)
  PROVE  Good(t)
BY DEF Good, Focused, Agree, SameScreens, SameFocus

\* so does what leaves the screens alone and one workspace focused;
LEMMA OnlyFocus ==
  ASSUME NEW s, Good(s), NEW t, Refocused(s, t)
  PROVE  Good(t)
BY DEF Good, Refocused, Agree, SameScreens

\* so does what changes nothing but the X server.
LEMMA OnlyX ==
  ASSUME NEW s, Good(s), NEW t, XOnly(s, t)
  PROVE  Good(t)
BY Unchanged DEF XOnly

\* workspace_list_send_to_workspace, including its early returns.
LEMMA SendToWorkspaceGood ==
  ASSUME NEW s, Good(s), NEW c \in Clients, NEW j \in Workspaces
  PROVE  Good(SendToWorkspace(s, c, j))
<1>. DEFINE i  == s.registry[Win(c)]
            s1 == ClientHide(s, c)
            r  == WorkspaceRemoveClient(s1, i, c)
            s2 == WorkspaceAddClient(r, j, c)
            s3 == IF j \in s2.visible /\ MonitorsOf(s2, j) # {} THEN ClientShow(s2, c) ELSE s2
<1>. USE DEF Good
<1>1. Good(s1) BY ClientHideTyped, Unchanged
<1>2. SendToWorkspace(s, c, j)
        = IF j \in s.wsFocused \/ i = NULL THEN s
          ELSE IF Nodes(s1, i, Win(c)) = {} THEN s1 ELSE s3
  BY Zenon DEF SendToWorkspace
<1>3. ASSUME i # NULL PROVE Good(s3)
  <2>1. i \in Workspaces BY <1>3, WinTyped DEF State, OptWorkspace
  <2>. HIDE DEF s1, i
  <2>2. Good(r) BY <1>1, <2>1, WorkspaceRemoveClientTyped, OnlyFocus
  <2>. HIDE DEF r
  <2>3. Good(s2) BY <2>2, WorkspaceAddClientTyped, Unchanged
  <2>. HIDE DEF s2
  <2>4. Good(ClientShow(s2, c)) BY <2>3, ClientShowTyped, Unchanged
  <2>. HIDE DEF Good
  <2>. QED BY <2>3, <2>4
<1>. HIDE DEF Good, s1, s3
<1>. QED BY <1>1, <1>2, <1>3

-----------------------------------------------------------------------------
(* The handlers                                                              *)

\* A client found through client_map has an existing workspace.
LEMMA RegisteredClientTyped ==
  ASSUME NEW s \in State, NEW w \in Windows
  PROVE  /\ RegisteredClient(s, w) \in OptClient
         /\ RegisteredClient(s, w) # NULL => s.registry[w] \in Workspaces
<1>1. s.registry[w] \in OptWorkspace BY DEF State
<1>. QED BY <1>1, FindClientTyped DEF RegisteredClient, OptClient, OptWorkspace

\* client_register_window.
LEMMA RegisterWindowGood ==
  ASSUME NEW s, Good(s), NEW w \in Windows, NEW c \in Clients
  PROVE  Good(RegisterWindow(s, w, c))
<1>. DEFINE i  == s.activeIndex
            s0 == [s EXCEPT !.live = @ \cup {c}]
            s1 == XMap(s0, w)
            s2 == WorkspaceAddClient(s1, i, c)
<1>. USE DEF Good
<1>1. s0 \in State /\ SameScreens(s, s0) /\ SameFocus(s, s0)
  BY DEF State, SameScreens, SameFocus
<1>2. RegisterWindow(s, w, c)
        = IF MonitorsOf(s, i) = {} THEN s ELSE ClientSetFocused(s2, c)
  BY Zenon DEF RegisterWindow
<1>3. i \in Workspaces BY DEF State
<1>4. Good(s0) BY <1>1, Unchanged
<1>. HIDE DEF s0, i
<1>5. Good(s1) BY <1>4, XMapTyped, OnlyX
<1>. HIDE DEF s1
<1>6. Good(s2) BY <1>3, <1>5, WorkspaceAddClientTyped, Unchanged
<1>. HIDE DEF s2
<1>7. Good(ClientSetFocused(s2, c)) BY <1>6, ClientSetFocusedTyped, OnlyFocus DEF OptClient
<1>. HIDE DEF Good
<1>. QED BY <1>2, <1>7

\* client_handle_map_notify.
LEMMA HandleMapNotifyGood ==
  ASSUME NEW s, Good(s), NEW w \in Windows
  PROVE  Good(HandleMapNotify(s, w))
<1>. DEFINE c == RegisteredClient(s, w)
            t == [s EXCEPT !.offscreen = @ \ {c}]
<1>1. t \in State /\ SameScreens(s, t) /\ SameFocus(s, t)
  BY DEF Good, State, SameScreens, SameFocus
<1>2. Good(t) BY <1>1, Unchanged
<1>. QED BY <1>2 DEF HandleMapNotify

\* client_unmap_window.
LEMMA HandleUnmapNotifyGood ==
  ASSUME NEW s, Good(s), NEW w \in Windows
  PROVE  Good(HandleUnmapNotify(s, w))
<1>. DEFINE c  == RegisteredClient(s, w)
            i  == s.registry[w]
            t  == [s EXCEPT !.hidden = @ \cup {c}]
            s1 == IF c \in s.offscreen THEN s ELSE t
<1>1. CASE c = NULL BY <1>1 DEF HandleUnmapNotify
<1>2. CASE c # NULL
  <2>1. c \in Clients /\ i \in Workspaces
    BY <1>2, RegisteredClientTyped DEF Good, OptClient
  <2>2. HandleUnmapNotify(s, w)
          = IF c \in s.focused THEN WorkspaceResetFocus(s1, i) ELSE s1
    BY <1>2, Zenon DEF HandleUnmapNotify
  <2>. HIDE DEF c, i
  <2>3. t \in State /\ SameScreens(s, t) /\ SameFocus(s, t)
    BY <2>1 DEF Good, State, SameScreens, SameFocus
  <2>4. Good(t) BY <2>3, Unchanged
  <2>. HIDE DEF t
  <2>5. Good(s1) BY <2>4
  <2>. HIDE DEF s1
  <2>6. Good(WorkspaceResetFocus(s1, i))
    BY <2>1, <2>5, WorkspaceResetFocusTyped, OnlyFocus DEF Good
  <2>. QED BY <2>2, <2>5, <2>6
<1>. QED BY <1>1, <1>2

\* client_handle_destroy_notify.
LEMMA HandleDestroyNotifyGood ==
  ASSUME NEW s, Good(s), NEW w \in Windows
  PROVE  Good(HandleDestroyNotify(s, w))
<1>. DEFINE c == RegisteredClient(s, w)
            i == s.registry[w]
            r == WorkspaceRemoveClient(s, i, c)
            t == ClientDestroy(r, c)
<1>1. Good(WorkspaceResetFocus(s, s.activeIndex))
  <2>1. s.activeIndex \in Workspaces BY DEF Good, State
  <2>. QED BY <2>1, WorkspaceResetFocusTyped, OnlyFocus DEF Good
<1>2. ASSUME c # NULL PROVE Good(t)
  <2>1. c \in Clients /\ i \in Workspaces
    BY <1>2, RegisteredClientTyped DEF Good, OptClient
  <2>. HIDE DEF c, i
  <2>2. Good(r) BY <2>1, WorkspaceRemoveClientTyped, OnlyFocus DEF Good
  <2>. HIDE DEF r
  <2>3. t \in State /\ SameScreens(r, t) /\ SameFocus(r, t)
    BY <2>2 DEF ClientDestroy, Good, State, SameScreens, SameFocus
  <2>. HIDE DEF t
  <2>. QED BY <2>2, <2>3, Unchanged
<1>. QED BY <1>1, <1>2 DEF HandleDestroyNotify

\* client_handle_button_press without modifiers.
LEMMA HandleButtonPressGood ==
  ASSUME NEW s, Good(s), NEW w \in Windows
  PROVE  Good(HandleButtonPress(s, w))
<1>. DEFINE c == RegisteredClient(s, w)
            i == s.registry[w]
            f == WorkspaceFocusClient(s, i, c)
            t == [f EXCEPT !.frozen = NULL]
<1>1. ASSUME c # NULL PROVE Good(t)
  <2>1. c \in Clients /\ i \in Workspaces
    BY <1>1, RegisteredClientTyped DEF Good, OptClient
  <2>. HIDE DEF c, i
  <2>2. Good(f) BY <2>1, WorkspaceFocusClientTyped, OnlyFocus DEF Good
  <2>. HIDE DEF f
  <2>3. NULL \in OptWindow BY DEF OptWindow
  <2>4. t \in State /\ SameScreens(f, t) /\ SameFocus(f, t)
    BY <2>2, <2>3 DEF Good, State, SameScreens, SameFocus
  <2>. HIDE DEF t
  <2>. QED BY <2>2, <2>4, Unchanged
<1>. QED BY <1>1 DEF HandleButtonPress

\* client_configure_window.
LEMMA HandleConfigureRequestGood ==
  ASSUME NEW s, Good(s), NEW w \in Windows, NEW mode
  PROVE  Good(HandleConfigureRequest(s, w, mode))
<1>. DEFINE c == RegisteredClient(s, w)
            i == s.registry[w]
<1>1. ASSUME c # NULL
      PROVE  Good(WorkspaceFocusClient(s, i, c)) /\ Good(WorkspaceUnfocusClient(s, i, c))
  <2>1. c \in Clients /\ i \in Workspaces
    BY <1>1, RegisteredClientTyped DEF Good, OptClient
  <2>. HIDE DEF c, i
  <2>. QED BY <2>1, WorkspaceFocusClientTyped, WorkspaceUnfocusClientTyped, OnlyFocus DEF Good
<1>. QED BY <1>1 DEF HandleConfigureRequest

\* client_focus_window.
LEMMA HandleActiveWindowGood ==
  ASSUME NEW s, Good(s), NEW w \in Windows
  PROVE  Good(HandleActiveWindow(s, w))
<1>. DEFINE c == FindListedClient(s, w)
<1>1. c \in OptClient BY FindListedClientTyped DEF Good
<1>2. Good(XFocus(s, w)) BY XFocusTyped, OnlyX DEF Good
<1>3. Good(ClientSetFocused(s, c)) BY <1>1, ClientSetFocusedTyped, OnlyFocus DEF Good
<1>. QED BY <1>2, <1>3 DEF HandleActiveWindow

\* client_send_window_to_workspace.
LEMMA HandleWmDesktopGood ==
  ASSUME NEW s, Good(s), NEW w \in Windows, NEW j
  PROVE  Good(HandleWmDesktop(s, w, j))
<1>. DEFINE c == FindListedClient(s, w)
<1>1. c # NULL => c \in Clients BY FindListedClientTyped DEF Good, OptClient
<1>. HIDE DEF c
<1>2. c # NULL /\ j \in Workspaces => Good(SendToWorkspace(s, c, j))
  BY <1>1, SendToWorkspaceGood
<1>. QED BY <1>2 DEF HandleWmDesktop, c

\* workspace_list_switch_to_workspace.
LEMMA HandleCurrentDesktopGood ==
  ASSUME NEW s, Good(s), NEW j
  PROVE  Good(HandleCurrentDesktop(s, j))
<1>1. j \in Workspaces => Good(WorkspaceChangeMonitor(s, j))
  BY WorkspaceChangeMonitorTyped DEF Good
<1>. QED BY <1>1 DEF HandleCurrentDesktop

-----------------------------------------------------------------------------
(* The specification                                                         *)

IInv == TypeOK /\ OneFocusedWorkspace /\ MonitorsAgree

\* The invariant is that predicate, of the current state.
LEMMA IInvGood == IInv <=> Good(state)
BY DEF IInv, TypeOK, OneFocusedWorkspace, MonitorsAgree, Good, Focused, Agree

\* Monitor m begins with workspace m - 1, if there is one.
LEMMA InitGood == Init => IInv
<1>. SUFFICES ASSUME Init PROVE Good(state) BY IInvGood
<1>. DEFINE shown == [m \in Monitors |-> IF m - 1 \in Workspaces THEN m - 1 ELSE NULL]
            vis   == {i \in Workspaces : i < MonitorCount}
            nobody   == [i \in Workspaces |-> NULL]
            nothing  == [i \in Workspaces |-> <<>>]
            nowhere  == [w \in Windows |-> NULL]
            unmapped == [w \in Windows |-> "unmapped"]
<1>1. state =
        [activeIndex |-> 0, clients |-> nothing, active |-> nobody,
         visible |-> vis, wsFocused |-> {0}, registry |-> nowhere, shows |-> shown,
         live |-> {}, focused |-> {}, hidden |-> {}, offscreen |-> {},
         win |-> unmapped,
         grabs |-> {}, frozen |-> NULL, input |-> Root, activeWin |-> Root,
         desktop |-> 0, queue |-> <<>>]
  BY DEF Init
<1>2. 0 \in Workspaces BY ConstantsAssumption DEF Workspaces
<1>3. shown \in [Monitors -> OptWorkspace] BY DEF OptWorkspace
<1>4. nothing \in [Workspaces -> Seq(Clients)] OBVIOUS
<1>5. nobody \in [Workspaces -> OptClient] /\ nowhere \in [Windows -> OptWorkspace]
  BY DEF OptClient, OptWorkspace
<1>6. unmapped \in [Windows -> WinStates] BY DEF WinStates
<1>7. vis \in SUBSET Workspaces /\ {0} \in SUBSET Workspaces BY <1>2
<1>8. NULL \in OptWindow /\ Root \in FocusWindows BY DEF OptWindow, FocusWindows
<1>9. <<>> \in Seq(Events) OBVIOUS
<1>10. vis = {shown[m] : m \in Monitors} \ {NULL}
  <2>1. \A i \in Workspaces : i < MonitorCount => i + 1 \in Monitors /\ shown[i + 1] = i
    BY ConstantsAssumption DEF Workspaces, Monitors
  <2>2. \A m \in Monitors : shown[m] # NULL => shown[m] = m - 1 /\ m - 1 \in Workspaces
    OBVIOUS
  <2>3. \A m \in Monitors : m - 1 < MonitorCount BY ConstantsAssumption DEF Monitors
  <2>4. ASSUME NEW i \in vis PROVE i \in {shown[m] : m \in Monitors} \ {NULL}
    <3>. HIDE DEF shown
    <3>. QED BY <2>1, <2>4, NullNoWorkspace
  <2>5. ASSUME NEW i \in {shown[m] : m \in Monitors} \ {NULL} PROVE i \in vis
    <3>. HIDE DEF shown
    <3>. QED BY <2>2, <2>3, <2>5
  <2>. QED BY <2>4, <2>5
<1>11. \A m, n \in Monitors : shown[m] = shown[n] /\ shown[m] # NULL => m = n
  BY DEF Monitors
<1>. HIDE DEF shown, vis, nobody, nothing, nowhere, unmapped
<1>12. state \in State
  BY <1>1, <1>2, <1>3, <1>4, <1>5, <1>6, <1>7, <1>8, <1>9 DEF State
<1>. QED BY <1>1, <1>10, <1>11, <1>12 DEF Good, Focused, Agree

\* Each event: its handler works on the state without the event.
LEMMA EventLoopGood ==
  ASSUME Good(state), EventLoop
  PROVE  Good(state')
<1>. DEFINE rest == [state EXCEPT !.queue = Tail(@)]
<1>1. state.queue # <<>> => Good(rest)
  <2>1. state.queue # <<>> => Tail(state.queue) \in Seq(Events) BY DEF Good, State
  <2>2. state.queue # <<>> => rest \in State /\ SameScreens(state, rest) /\ SameFocus(state, rest)
    BY <2>1 DEF Good, State, SameScreens, SameFocus
  <2>. QED BY <2>2, Unchanged
<1>. HIDE DEF rest
<1>2. CASE MapNotify
  <2>1. \E w \in Windows : state.queue # <<>> /\ state' = HandleMapNotify(rest, w)
    BY <1>2, Zenon DEF MapNotify, Receive, rest
  <2>. QED BY <1>1, <2>1, HandleMapNotifyGood
<1>3. CASE UnmapNotify
  <2>1. \E w \in Windows : state.queue # <<>> /\ state' = HandleUnmapNotify(rest, w)
    BY <1>3, Zenon DEF UnmapNotify, Receive, rest
  <2>. QED BY <1>1, <2>1, HandleUnmapNotifyGood
<1>4. CASE DestroyNotify
  <2>1. \E w \in Windows : state.queue # <<>> /\ state' = HandleDestroyNotify(rest, w)
    BY <1>4, Zenon DEF DestroyNotify, Receive, rest
  <2>. QED BY <1>1, <2>1, HandleDestroyNotifyGood
<1>5. CASE ButtonPress
  <2>1. \E w \in Windows : state.queue # <<>> /\ state' = HandleButtonPress(rest, w)
    BY <1>5, Zenon DEF ButtonPress, Receive, rest
  <2>. QED BY <1>1, <2>1, HandleButtonPressGood
<1>. QED BY <1>2, <1>3, <1>4, <1>5 DEF EventLoop

\* A map request is passed on or registers the window.
LEMMA MapRequestGood ==
  ASSUME Good(state), NEW w \in Windows, MapRequest(w)
  PROVE  Good(state')
<1>1. CASE state' = XMap(state, w) BY <1>1, XMapTyped, OnlyX DEF Good
<1>2. CASE \E n \in 0 .. Remaps : state' = RegisterWindow(state, w, <<w, n>>)
  BY <1>2, RegisterWindowGood DEF Clients
<1>. QED BY <1>1, <1>2 DEF MapRequest

\* A destroyed window.
LEMMA DestroyWindowGood ==
  ASSUME Good(state), NEW w \in Windows, DestroyWindow(w)
  PROVE  Good(state')
<1>. DEFINE s1    == XUnmap(state, w)
            win   == [s1.win EXCEPT ![w] = "gone"]
            grabs == s1.grabs \ {w}
            queue == Append(s1.queue, Event("DestroyNotify", w))
            t     == [s1 EXCEPT !.win = win, !.grabs = grabs, !.queue = queue]
<1>1. Good(s1) BY XUnmapTyped, OnlyX DEF Good
<1>2. win \in [Windows -> WinStates] BY <1>1 DEF Good, State, WinStates
<1>3. grabs \in SUBSET Windows BY <1>1 DEF Good, State
<1>4. queue \in Seq(Events) BY <1>1, AppendEvent DEF Good, EventTypes
<1>5. state' = t BY <1>1 DEF DestroyWindow, Good, State
<1>. HIDE DEF s1, win, grabs, queue
<1>6. t \in State /\ SameScreens(s1, t) /\ SameFocus(s1, t)
  BY <1>1, <1>2, <1>3, <1>4 DEF Good, State, SameScreens, SameFocus
<1>. HIDE DEF t
<1>. QED BY <1>1, <1>5, <1>6, Unchanged

\* A click that is reported.
LEMMA ClickGood ==
  ASSUME Good(state), NEW w \in Windows, Click(w)
  PROVE  Good(state')
<1>. DEFINE queue == Append(state.queue, Event("ButtonPress", w))
            t == [state EXCEPT !.frozen = w, !.queue = queue]
<1>1. queue \in Seq(Events) BY AppendEvent DEF Good, EventTypes
<1>2. w \in OptWindow BY DEF OptWindow
<1>3. state' = t BY DEF Click, Good, State
<1>. HIDE DEF queue
<1>4. t \in State /\ SameScreens(state, t) /\ SameFocus(state, t)
  BY <1>1, <1>2 DEF Good, State, SameScreens, SameFocus
<1>. HIDE DEF t
<1>. QED BY <1>3, <1>4, Unchanged

\* Every action keeps the invariant.
LEMMA NextGood == IInv /\ [Next]_state => IInv'
<1>0. Good(state') => IInv'
  BY DEF IInv, TypeOK, OneFocusedWorkspace, MonitorsAgree, Good, Focused, Agree
<1>. SUFFICES ASSUME Good(state), [Next]_state PROVE Good(state')
  BY IInvGood, <1>0
<1>1. CASE EventLoop BY <1>1, EventLoopGood
<1>2. ASSUME NEW w \in Windows, MapRequest(w) PROVE Good(state')
  BY <1>2, MapRequestGood
<1>3. ASSUME NEW w \in Windows, Withdraw(w) PROVE Good(state')
  BY <1>3, XUnmapTyped, OnlyX DEF Withdraw, Good
<1>4. ASSUME NEW w \in Windows, DestroyWindow(w) PROVE Good(state')
  BY <1>4, DestroyWindowGood
<1>5. ASSUME NEW w \in Windows, Click(w) PROVE Good(state')
  BY <1>5, ClickGood
<1>6. ASSUME NEW w \in Windows, ActiveWindow(w) PROVE Good(state')
  BY <1>6, HandleActiveWindowGood DEF ActiveWindow
<1>7. ASSUME NEW w \in Windows, NEW mode, ConfigureRequest(w, mode) PROVE Good(state')
  BY <1>7, HandleConfigureRequestGood DEF ConfigureRequest
<1>8. ASSUME NEW w \in Windows, NEW j, WmDesktop(w, j) PROVE Good(state')
  BY <1>8, HandleWmDesktopGood DEF WmDesktop
<1>9. ASSUME NEW j, CurrentDesktop(j) PROVE Good(state')
  BY <1>9, HandleCurrentDesktopGood DEF CurrentDesktop
<1>10. CASE UNCHANGED state BY <1>10
<1>. QED BY <1>1, <1>2, <1>3, <1>4, <1>5, <1>6, <1>7, <1>8, <1>9, <1>10, Zenon DEF Next

\* Hence it is an invariant.
LEMMA Inductive == Spec => []IInv
BY InitGood, NextGood, PTL DEF Spec

\* Whatever the handlers do, the state keeps its shape; in particular the index
\* of the active workspace and the workspaces of the client map exist.
THEOREM TypeCorrect == Spec => []TypeOK
<1>1. IInv => TypeOK BY DEF IInv
<1>. QED BY <1>1, Inductive, PTL

\* For any number of workspaces, monitors and windows, between two events one
\* workspace is focused, the one workspace_list->active_index and
\* _NET_CURRENT_DESKTOP name.
THEOREM FocusedOnce == Spec => []OneFocusedWorkspace
<1>1. IInv => OneFocusedWorkspace BY DEF IInv
<1>. QED BY <1>1, Inductive, PTL

\* For any number of workspaces, monitors and windows, workspace->is_visible is
\* right about monitor->workspace, and no two monitors show one workspace.
THEOREM ScreensAgree == Spec => []MonitorsAgree
<1>1. IInv => MonitorsAgree BY DEF IInv
<1>. QED BY <1>1, Inductive, PTL

-----------------------------------------------------------------------------
(* Sequences without repetition *)

Elems(q) == {q[k] : k \in 1 .. Len(q)}

Once(q) == \A k, l \in 1 .. Len(q) : q[k] = q[l] => k = l

\* list_insert, at the head.
LEMMA ConsOnce ==
  ASSUME NEW S, NEW q \in Seq(S), NEW c \in S
  PROVE  /\ Elems(<<c>> \o q) = Elems(q) \cup {c}
         /\ Once(q) /\ c \notin Elems(q) => Once(<<c>> \o q)
<1>. DEFINE r == <<c>> \o q
<1>1. Len(q) \in Nat OBVIOUS
<1>2. Len(r) = Len(q) + 1 /\ r[1] = c /\ \A k \in 2 .. Len(q) + 1 : r[k] = q[k - 1]
  <2>1. <<c>> \in Seq(S) /\ Len(<<c>>) = 1 /\ <<c>>[1] = c OBVIOUS
  <2>. QED BY <1>1, <2>1, ConcatProperties
<1>. HIDE DEF r
<1>3. Elems(r) = Elems(q) \cup {c}
  <2>1. ASSUME NEW k \in 1 .. Len(r) PROVE r[k] \in Elems(q) \cup {c}
    <3>1. CASE k = 1 BY <1>2, <3>1
    <3>2. CASE k # 1
      <4>1. k \in 2 .. Len(q) + 1 /\ k - 1 \in 1 .. Len(q) BY <1>1, <1>2, <3>2
      <4>. QED BY <1>2, <4>1 DEF Elems
    <3>. QED BY <3>1, <3>2
  <2>2. ASSUME NEW k \in 1 .. Len(q) PROVE \E l \in 1 .. Len(r) : q[k] = r[l]
    <3>1. k + 1 \in 2 .. Len(q) + 1 /\ k + 1 \in 1 .. Len(r) /\ (k + 1) - 1 = k BY <1>1, <1>2
    <3>2. r[k + 1] = q[k] BY <1>2, <3>1
    <3>. QED BY <3>1, <3>2
  <2>3. 1 \in 1 .. Len(r) BY <1>1, <1>2
  <2>4. c \in Elems(r) BY <1>2, <2>3 DEF Elems
  <2>5. Elems(r) \subseteq Elems(q) \cup {c} BY <2>1, Zenon DEF Elems
  <2>6. Elems(q) \subseteq Elems(r) BY <2>2, Zenon DEF Elems
  <2>. QED BY <2>4, <2>5, <2>6, Zenon
<1>4. ASSUME Once(q), c \notin Elems(q), NEW k \in 1 .. Len(r), NEW l \in 1 .. Len(r), r[k] = r[l]
      PROVE  k = l
  <2>1. ASSUME NEW m \in 1 .. Len(r), m # 1 PROVE m - 1 \in 1 .. Len(q) /\ r[m] = q[m - 1]
    <3>1. m \in 2 .. Len(q) + 1 /\ m - 1 \in 1 .. Len(q) BY <1>1, <1>2, <2>1
    <3>. QED BY <1>2, <3>1
  <2>2. \A m \in 1 .. Len(q) : q[m] # c BY <1>4 DEF Elems
  <2>3. CASE k = 1 /\ l = 1 BY <2>3
  <2>4. CASE k # 1 /\ l # 1
    <3>1. k - 1 = l - 1 BY <1>4, <2>1, <2>4 DEF Once
    <3>. QED BY <1>1, <1>2, <3>1
  <2>5. CASE ~(k = 1 <=> l = 1) BY <1>2, <1>4, <2>1, <2>2, <2>5
  <2>. QED BY <2>3, <2>4, <2>5
<1>. QED BY <1>3, <1>4 DEF r, Once

\* The same at the tail.
LEMMA SnocOnce ==
  ASSUME NEW S, NEW q \in Seq(S), NEW c \in S
  PROVE  /\ Elems(q \o <<c>>) = Elems(q) \cup {c}
         /\ Once(q) /\ c \notin Elems(q) => Once(q \o <<c>>)
<1>. DEFINE r == q \o <<c>>
            n == Len(q)
<1>1. n \in Nat OBVIOUS
<1>2. Len(r) = n + 1 /\ r[n + 1] = c /\ \A k \in 1 .. n : r[k] = q[k]
  <2>1. <<c>> \in Seq(S) /\ Len(<<c>>) = 1 /\ <<c>>[1] = c OBVIOUS
  <2>. QED BY <1>1, <2>1, ConcatProperties
<1>3. 1 .. Len(r) = (1 .. n) \cup {n + 1} /\ n + 1 \notin 1 .. n BY <1>1, <1>2
<1>. HIDE DEF r, n
<1>4. Elems(r) = {q[k] : k \in 1 .. n} \cup {c} BY <1>2, <1>3 DEF Elems
<1>5. ASSUME Once(q), c \notin Elems(q) PROVE Once(r)
  BY <1>2, <1>3, <1>5 DEF Once, Elems, n
<1>. QED BY <1>4, <1>5 DEF r, n, Elems

\* list_remove.
LEMMA WithoutOnce ==
  ASSUME NEW S, NEW q \in Seq(S), Once(q), NEW k \in 1 .. Len(q)
  PROVE  Once(Without(q, k)) /\ Elems(Without(q, k)) = Elems(q) \ {q[k]}
<1>. DEFINE r == Without(q, k)
            n == Len(q)
            From(l) == IF l < k THEN l ELSE l + 1
<1>1. n \in Nat OBVIOUS
<1>2. Len(r) = n - 1 /\ \A l \in 1 .. n - 1 : r[l] = q[From(l)]
  <2>1. Len(r) = n - 1 /\ \A l \in 1 .. n - 1 : r[l] = IF l < k THEN q[l] ELSE q[l + 1]
    BY WithoutElements
  <2>. QED BY <2>1
<1>. HIDE DEF r
<1>3. \A l \in 1 .. n - 1 : From(l) \in 1 .. n /\ From(l) # k BY <1>1
<1>4. \A l, m \in 1 .. n - 1 : From(l) = From(m) => l = m BY <1>1
<1>5. \A l \in 1 .. n : l # k => \E m \in 1 .. n - 1 : From(m) = l
  <2>. SUFFICES ASSUME NEW l \in 1 .. n, l # k PROVE \E m \in 1 .. n - 1 : From(m) = l
    OBVIOUS
  <2>1. CASE l < k
    <3>1. l \in 1 .. n - 1 BY <1>1, <2>1
    <3>. QED BY <2>1, <3>1
  <2>2. CASE l > k
    <3>1. l - 1 \in 1 .. n - 1 /\ ~(l - 1 < k) /\ (l - 1) + 1 = l BY <1>1, <2>2
    <3>. QED BY <3>1
  <2>. QED BY <2>1, <2>2
<1>. HIDE DEF From, n
<1>6. Once(r) BY <1>2, <1>3, <1>4 DEF Once, n
<1>7. Elems(r) = Elems(q) \ {q[k]}
  <2>1. ASSUME NEW l \in 1 .. n - 1 PROVE r[l] \in Elems(q) \ {q[k]}
    BY <1>2, <1>3 DEF Elems, Once, n
  <2>2. ASSUME NEW l \in 1 .. n, q[l] # q[k] PROVE \E m \in 1 .. n - 1 : q[l] = r[m]
    BY <1>2, <1>5, <2>2
  <2>3. Elems(r) \subseteq Elems(q) \ {q[k]} BY <1>2, <2>1 DEF Elems
  <2>4. ASSUME NEW x \in Elems(q), x # q[k] PROVE x \in Elems(r)
    <3>1. PICK l \in 1 .. n : q[l] = x BY DEF Elems, n
    <3>2. PICK m \in 1 .. n - 1 : r[m] = x BY <2>2, <2>4, <3>1
    <3>. QED BY <1>2, <3>2 DEF Elems
  <2>. QED BY <2>3, <2>4
<1>. QED BY <1>6, <1>7 DEF r

\* list_move_node_to_head and list_move_node_to_tail.
LEMMA MovedOnce ==
  ASSUME NEW S, NEW q \in Seq(S), Once(q), NEW k \in 1 .. Len(q)
  PROVE  /\ Once(ToHead(q, k)) /\ Elems(ToHead(q, k)) = Elems(q)
         /\ Once(ToTail(q, k)) /\ Elems(ToTail(q, k)) = Elems(q)
<1>. DEFINE c == q[k]
            r == Without(q, k)
<1>1. c \in S /\ c \in Elems(q) BY ElementOfSeq DEF Elems
<1>2. r \in Seq(S) BY WithoutTyped
<1>3. Once(r) /\ Elems(r) = Elems(q) \ {c} BY WithoutOnce
<1>4. ToHead(q, k) = <<c>> \o r /\ ToTail(q, k) = r \o <<c>> BY DEF ToHead, ToTail
<1>. HIDE DEF c, r
<1>5. c \notin Elems(r) /\ Elems(r) \cup {c} = Elems(q) BY <1>1, <1>3
<1>6. Once(<<c>> \o r) /\ Elems(<<c>> \o r) = Elems(r) \cup {c}
  BY <1>1, <1>2, <1>3, <1>5, ConsOnce
<1>7. Once(r \o <<c>>) /\ Elems(r \o <<c>>) = Elems(r) \cup {c}
  BY <1>1, <1>2, <1>3, <1>5, SnocOnce
<1>. QED BY <1>4, <1>5, <1>6, <1>7

-----------------------------------------------------------------------------
(* The invariant, as a predicate on any state.  ws are windows of which the  *)
(* grab need not be right: those of clients in the middle of being focused.  *)

\* A client is on the list of its workspace, once, and on no other list.
Homes(s) ==
  \A i \in Workspaces :
    /\ Once(s.clients[i])
    /\ \A c \in Clients : c \in Elems(s.clients[i]) <=> s.registry[Win(c)] = i

Allocated(s) == \A c \in Clients : s.registry[Win(c)] # NULL => c \in s.live

Actives(s) == \A i \in Workspaces : s.active[i] # NULL => s.registry[Win(s.active[i])] = i

GrabbedBut(s, ws) ==
  \A c \in s.live :
    Win(c) \notin ws /\ s.win[Win(c)] # "gone" => (Win(c) \in s.grabs <=> c \notin s.focused)

\* A window that was destroyed and is still in the map will be taken out of it.
Told(s, w) == \E k \in 1 .. Len(s.queue) : s.queue[k] = Event("DestroyNotify", w)

Doomed(s) == \A w \in Windows : s.win[w] = "gone" /\ s.registry[w] # NULL => Told(s, w)

SoundBut(s, ws) ==
  /\ s \in State /\ Remaps = 0
  /\ Homes(s) /\ Allocated(s) /\ Actives(s)
  /\ s.hidden \subseteq s.live
  /\ GrabbedBut(s, ws)
  /\ Doomed(s)

Sound(s) == SoundBut(s, {})

\* Nothing is asked of the server that it tells natwm of, and no client comes,
\* goes, or is hidden.
Silent(s, t) ==
  /\ t.registry = s.registry /\ t.live = s.live /\ t.hidden = s.hidden
  /\ t.win = s.win /\ t.queue = s.queue

\* Where the keyboard is, and what _NET_ACTIVE_WINDOW says of it.
SameInput(s, t) == t.input = s.input /\ t.activeWin = s.activeWin

\* What turning the focus does not touch.
Quiet(s, t) ==
  /\ t.registry = s.registry /\ t.live = s.live /\ t.hidden = s.hidden
  /\ t.win = s.win /\ t.queue = s.queue
  /\ t.visible = s.visible /\ t.offscreen = s.offscreen

\* With one structure for a window, clients are told apart by their windows.
LEMMA OneClient ==
  ASSUME Remaps = 0
  PROVE  /\ \A c, d \in Clients : Win(c) = Win(d) => c = d
         /\ \A w \in Windows : <<w, 0>> \in Clients /\ Win(<<w, 0>>) = w
BY DEF Clients, Win

\* What leaves the lists alone, asks nothing of the server but grabs, and has
\* these right.
LEMMA SilentSound ==
  ASSUME NEW ws, NEW vs, NEW s, SoundBut(s, ws), NEW t \in State,
         SameLists(s, t), Silent(s, t), GrabbedBut(t, vs)
  PROVE  SoundBut(t, vs)
BY DEF SoundBut, Homes, Allocated, Actives, Doomed, Told, SameLists, Silent

LEMMA QuietSound ==
  ASSUME NEW ws, NEW vs, NEW s, SoundBut(s, ws), NEW t \in State,
         SameLists(s, t), Quiet(s, t), GrabbedBut(t, vs)
  PROVE  SoundBut(t, vs)
BY SilentSound DEF Quiet, Silent

-----------------------------------------------------------------------------
(* Focus *)

\* client_set_unfocused.
LEMMA ClientSetUnfocusedSound ==
  ASSUME NEW ws, NEW s, SoundBut(s, ws), NEW c \in OptClient
  PROVE  LET t == ClientSetUnfocused(s, c)
         IN  SoundBut(t, ws) /\ Quiet(s, t) /\ s.focused \ {c} \subseteq t.focused
<1>. DEFINE t == ClientSetUnfocused(s, c)
<1>1. CASE c = NULL \/ c \in s.hidden BY <1>1 DEF ClientSetUnfocused, Quiet
<1>2. CASE c # NULL /\ c \notin s.hidden
  <2>1. s \in State /\ Remaps = 0 BY DEF SoundBut
  <2>2. c \in Clients /\ Win(c) \in Windows BY <1>2, WinTyped DEF OptClient
  <2>3. t = [s EXCEPT !.focused = @ \ {c},
                      !.grabs = @ \cup {w \in {Win(c)} : s.win[w] # "gone"}]
    BY <1>2, <2>1 DEF ClientSetUnfocused, XGrab, State
  <2>4. /\ t.focused = s.focused \ {c} /\ Quiet(s, t)
        /\ t.grabs = s.grabs \cup {w \in {Win(c)} : s.win[w] # "gone"}
    BY <2>1, <2>3 DEF State, Quiet
  <2>5. t \in State /\ SameLists(s, t) BY <2>1, ClientSetUnfocusedTyped
  <2>. HIDE DEF t
  <2>6. GrabbedBut(t, ws)
    <3>1. s.live \subseteq Clients BY <2>1 DEF State
    <3>. QED BY <2>1, <2>2, <2>4, <2>5, <3>1, OneClient DEF GrabbedBut, SoundBut, Quiet
  <2>. QED BY <2>4, <2>5, <2>6, QuietSound DEF t
<1>. QED BY <1>1, <1>2

\* workspace_set_unfocused takes the focus from no client but the active one.
LEMMA WorkspaceSetUnfocusedSound ==
  ASSUME NEW ws, NEW s, SoundBut(s, ws), NEW i \in Workspaces
  PROVE  LET t == WorkspaceSetUnfocused(s, i)
         IN  SoundBut(t, ws) /\ Quiet(s, t) /\ s.focused \ {s.active[i]} \subseteq t.focused
<1>. DEFINE t == WorkspaceSetUnfocused(s, i)
            u == ClientSetUnfocused(s, s.active[i])
<1>1. CASE i \notin s.wsFocused BY <1>1 DEF WorkspaceSetUnfocused, Quiet
<1>2. CASE i \in s.wsFocused
  <2>1. s \in State BY DEF SoundBut
  <2>2. SoundBut(u, ws) /\ Quiet(s, u) /\ s.focused \ {s.active[i]} \subseteq u.focused
    BY <2>1, ActiveTyped, ClientSetUnfocusedSound
  <2>3. t = [u EXCEPT !.wsFocused = @ \ {i}] BY <1>2 DEF WorkspaceSetUnfocused
  <2>4. t \in State BY <2>1, WorkspaceSetUnfocusedTyped
  <2>. HIDE DEF u
  <2>5. /\ SameLists(u, t) /\ Quiet(u, t)
        /\ t.focused = u.focused /\ t.grabs = u.grabs
    BY <2>2, <2>3 DEF SoundBut, State, SameLists, Quiet
  <2>. HIDE DEF t
  <2>6. GrabbedBut(t, ws) BY <2>2, <2>5 DEF SoundBut, GrabbedBut, SameLists, Quiet
  <2>7. SoundBut(t, ws) BY <2>2, <2>4, <2>5, <2>6, QuietSound
  <2>. QED BY <2>2, <2>5, <2>7 DEF Quiet, t
<1>. QED BY <1>1, <1>2

\* workspace_set_focused takes the focus from no client of its own workspace.
LEMMA WorkspaceSetFocusedSound ==
  ASSUME NEW ws, NEW s, SoundBut(s, ws), AtMostFocused(s), NEW i \in Workspaces
  PROVE  LET t == WorkspaceSetFocused(s, i)
         IN  /\ SoundBut(t, ws) /\ Quiet(s, t)
             /\ \A c \in s.focused : s.registry[Win(c)] = i => c \in t.focused
<1>. DEFINE t == WorkspaceSetFocused(s, i)
            a == s.activeIndex
            u == WorkspaceSetUnfocused(s, a)
<1>1. CASE i \in s.wsFocused BY <1>1 DEF WorkspaceSetFocused, Quiet
<1>2. CASE i \notin s.wsFocused
  <2>1. s \in State /\ a \in Workspaces BY DEF SoundBut, State
  <2>2. SoundBut(u, ws) /\ Quiet(s, u) /\ s.focused \ {s.active[a]} \subseteq u.focused
    BY <2>1, WorkspaceSetUnfocusedSound
  <2>3. t = [u EXCEPT !.wsFocused = @ \cup {i}, !.activeIndex = i, !.desktop = i]
    BY <1>2 DEF WorkspaceSetFocused
  <2>4. t \in State BY <2>1, WorkspaceSetFocusedTyped DEF Refocused
  <2>5. ASSUME NEW c \in s.focused, s.registry[Win(c)] = i PROVE c \in u.focused
    <3>1. CASE i # a
      <4>1. c # NULL
        BY <2>1, ConstantsAssumption DEF State, Clients
      <4>2. c # s.active[a] BY <2>1, <2>5, <3>1, <4>1 DEF SoundBut, Actives
      <4>. QED BY <2>2, <4>2
    <3>2. CASE i = a BY <1>2, <2>5, <3>2 DEF WorkspaceSetUnfocused
    <3>. QED BY <3>1, <3>2
  <2>. HIDE DEF u
  <2>6. /\ SameLists(u, t) /\ Quiet(u, t)
        /\ t.focused = u.focused /\ t.grabs = u.grabs
    BY <2>2, <2>3 DEF SoundBut, State, SameLists, Quiet
  <2>. HIDE DEF t
  <2>7. GrabbedBut(t, ws) BY <2>2, <2>6 DEF SoundBut, GrabbedBut, SameLists, Quiet
  <2>8. SoundBut(t, ws) BY <2>2, <2>4, <2>6, <2>7, QuietSound
  <2>. QED BY <2>2, <2>5, <2>6, <2>8 DEF Quiet, t
<1>. QED BY <1>1, <1>2

\* client_set_focused: the client it focuses loses its grab, and its workspace
\* is the focused one.
LEMMA ClientSetFocusedSound ==
  ASSUME NEW ws, NEW s, SoundBut(s, ws), Focused(s), NEW c \in Clients,
         c \notin s.hidden, s.registry[Win(c)] # NULL, ws \subseteq {Win(c)}
  PROVE  LET t == ClientSetFocused(s, c)
         IN  Sound(t) /\ Quiet(s, t) /\ t.activeIndex = s.registry[Win(c)]
<1>. DEFINE w  == Win(c)
            i  == s.registry[w]
            s0 == [s EXCEPT !.focused = @ \cup {c}]
            s1 == XFocus(s0, w)
            s2 == WorkspaceSetFocused(s1, i)
            t  == ClientSetFocused(s, c)
<1>1. s \in State /\ Remaps = 0 /\ w \in Windows BY WinTyped DEF SoundBut
<1>2. i \in Workspaces BY <1>1 DEF State, OptWorkspace
<1>3. c # NULL BY ConstantsAssumption DEF Clients
<1>4. t = XUngrab(s2, w) BY <1>3, Zenon DEF ClientSetFocused
<1>5. Refocused(s, t) /\ SameLists(s, t) BY <1>1, ClientSetFocusedTyped DEF OptClient
<1>6. s0 \in State /\ s0.focused = s.focused \cup {c} /\ SameLists(s, s0) /\ SameFocus(s, s0)
      /\ Quiet(s, s0) /\ s0.grabs = s.grabs
  BY <1>1 DEF State, SameLists, SameFocus, Quiet
<1>. HIDE DEF s0, i, w
<1>7. XOnly(s0, s1) BY <1>1, <1>6, XFocusTyped
<1>8. s1.win = s0.win /\ s1.queue = s0.queue /\ s1.grabs = s0.grabs
  BY <1>6 DEF XFocus, State
<1>. HIDE DEF s1
<1>9. /\ s1 \in State /\ SameLists(s, s1) /\ Quiet(s, s1) /\ SameFocus(s, s1)
      /\ s1.focused = s.focused \cup {c} /\ s1.grabs = s.grabs
  BY <1>6, <1>7, <1>8 DEF XOnly, SameLists, SameFocus, SameFlags, SameScreens, Quiet
<1>10. GrabbedBut(s1, {w})
  <2>1. ws \subseteq {w} BY DEF w
  <2>2. \A d \in Clients : Win(d) # w => d # c BY DEF w
  <2>3. s.live \subseteq Clients BY <1>1 DEF State
  <2>. QED BY <1>9, <2>1, <2>2, <2>3 DEF SoundBut, GrabbedBut, SameLists, Quiet
<1>11. SoundBut(s1, {w}) BY <1>9, <1>10, QuietSound
<1>12. AtMostFocused(s1) BY <1>9 DEF Focused, AtMostFocused, SameFocus
<1>13. /\ SoundBut(s2, {w}) /\ Quiet(s1, s2)
       /\ \A d \in s1.focused : s1.registry[Win(d)] = i => d \in s2.focused
  BY <1>2, <1>11, <1>12, WorkspaceSetFocusedSound
<1>14. s2.activeIndex = i BY <1>2, <1>9, <1>12, WorkspaceSetFocusedTyped
<1>. HIDE DEF s2
<1>15. c \in s2.focused BY <1>9, <1>13 DEF Quiet, i, w
<1>16. /\ t.focused = s2.focused /\ t.grabs = s2.grabs \ {w} /\ SameLists(s2, t)
       /\ Quiet(s2, t) /\ t.activeIndex = s2.activeIndex
  BY <1>4, <1>13 DEF XUngrab, SoundBut, State, SameLists, Quiet
<1>. HIDE DEF t
<1>17. GrabbedBut(t, {})
  <2>1. s2.live \subseteq Clients BY <1>13 DEF SoundBut, State
  <2>2. \A d \in Clients : Win(d) = w => d = c BY <1>1, OneClient DEF w
  <2>. QED BY <1>13, <1>15, <1>16, <2>1, <2>2 DEF SoundBut, GrabbedBut, SameLists, Quiet
<1>18. Sound(t) BY <1>5, <1>13, <1>16, <1>17, QuietSound DEF Sound, Refocused
<1>. QED BY <1>9, <1>13, <1>14, <1>16, <1>18 DEF Quiet, t, i, w

\* client_set_focused in all its cases.
LEMMA ClientSetFocusedKeeps ==
  ASSUME NEW s, Sound(s), Focused(s), NEW c \in OptClient
  PROVE  LET t == ClientSetFocused(s, c)
         IN  /\ Sound(t) /\ Quiet(s, t)
             /\ \/ t.activeIndex = s.activeIndex
                \/ c # NULL /\ t.activeIndex = s.registry[Win(c)]
<1>1. CASE c = NULL \/ c \in s.hidden BY <1>1 DEF ClientSetFocused, Quiet
<1>2. CASE c # NULL /\ c \notin s.hidden /\ s.registry[Win(c)] = NULL
  BY <1>2 DEF ClientSetFocused, Quiet
<1>3. CASE c # NULL /\ c \notin s.hidden /\ s.registry[Win(c)] # NULL
  <2>1. c \in Clients BY <1>3 DEF OptClient
  <2>2. {} \subseteq {Win(c)} OBVIOUS
  <2>. QED BY <1>3, <2>1, <2>2, ClientSetFocusedSound DEF Sound
<1>. QED BY <1>1, <1>2, <1>3

\* Where a client is on a list, and what is found there.
LEMMA NodeOf ==
  ASSUME NEW ws, NEW s, SoundBut(s, ws), NEW i \in Workspaces, NEW c \in Clients
  PROVE  /\ Nodes(s, i, Win(c)) # {} <=> s.registry[Win(c)] = i
         /\ s.registry[Win(c)] = i =>
              /\ FirstNode(s, i, Win(c)) \in 1 .. Len(s.clients[i])
              /\ s.clients[i][FirstNode(s, i, Win(c))] = c
              /\ Nodes(s, i, Win(c)) = {FirstNode(s, i, Win(c))}
<1>1. s \in State /\ Remaps = 0 BY DEF SoundBut
<1>2. \A k \in Nodes(s, i, Win(c)) : k \in 1 .. Len(s.clients[i]) /\ s.clients[i][k] = c
  <2>. SUFFICES ASSUME NEW k \in Nodes(s, i, Win(c)) PROVE s.clients[i][k] = c
    BY DEF Nodes
  <2>1. k \in 1 .. Len(s.clients[i]) /\ Win(s.clients[i][k]) = Win(c) BY DEF Nodes
  <2>. QED BY <1>1, <2>1, EntryTyped, OneClient
<1>3. \A k \in 1 .. Len(s.clients[i]) : s.clients[i][k] = c => k \in Nodes(s, i, Win(c))
  BY DEF Nodes
<1>4. c \in Elems(s.clients[i]) <=> Nodes(s, i, Win(c)) # {} BY <1>2, <1>3 DEF Elems
<1>5. c \in Elems(s.clients[i]) <=> s.registry[Win(c)] = i BY DEF SoundBut, Homes
<1>6. Nodes(s, i, Win(c)) # {} => FirstNode(s, i, Win(c)) \in Nodes(s, i, Win(c))
  BY <1>1, FirstNodeTyped
<1>7. \A k, l \in Nodes(s, i, Win(c)) : k = l BY <1>2 DEF SoundBut, Homes, Once
<1>. QED BY <1>2, <1>4, <1>5, <1>6, <1>7

\* What is on a list is registered there.
LEMMA ListedAt ==
  ASSUME NEW ws, NEW s, SoundBut(s, ws), NEW i \in Workspaces, NEW k \in 1 .. Len(s.clients[i])
  PROVE  /\ s.clients[i][k] \in Clients
         /\ s.registry[Win(s.clients[i][k])] = i
         /\ s.clients[i][k] \in s.live
<1>1. s \in State BY DEF SoundBut
<1>2. s.clients[i][k] \in Clients BY <1>1, EntryTyped
<1>3. s.clients[i][k] \in Elems(s.clients[i]) BY DEF Elems
<1>4. s.registry[Win(s.clients[i][k])] = i BY <1>2, <1>3 DEF SoundBut, Homes
<1>. QED BY <1>2, <1>4, NullNoWorkspace DEF SoundBut, Allocated

\* The clients of a list may change places, and another of them become active.
LEMMA MovedSound ==
  ASSUME NEW ws, NEW s, SoundBut(s, ws), NEW i \in Workspaces,
         NEW q, Once(q), Elems(q) = Elems(s.clients[i]),
         NEW t \in State, Quiet(s, t), t.focused = s.focused, t.grabs = s.grabs,
         t.clients = [s.clients EXCEPT ![i] = q],
         \A j \in Workspaces : \/ t.active[j] = s.active[j]
                               \/ t.active[j] # NULL /\ s.registry[Win(t.active[j])] = j
  PROVE  SoundBut(t, ws)
<1>1. s \in State BY DEF SoundBut
<1>2. \A j \in Workspaces : t.clients[j] = IF j = i THEN q ELSE s.clients[j] BY <1>1 DEF State
<1>3. Homes(t) BY <1>2 DEF SoundBut, Homes, Quiet
<1>4. Actives(t) BY DEF SoundBut, Actives, Quiet
<1>5. GrabbedBut(t, ws) BY DEF SoundBut, GrabbedBut, Quiet
<1>6. Allocated(t) /\ Doomed(t) /\ t.hidden \subseteq t.live
  BY DEF SoundBut, Allocated, Doomed, Told, Quiet
<1>. QED BY <1>3, <1>4, <1>5, <1>6 DEF SoundBut

\* focus_client, of a client at its place.
LEMMA FocusClientSound ==
  ASSUME NEW s, Sound(s), Focused(s), NEW i \in Workspaces, NEW k \in 1 .. Len(s.clients[i])
  PROVE  LET t == FocusClient(s, i, k, s.clients[i][k])
         IN  Sound(t) /\ Quiet(s, t) /\ t.activeIndex \in {s.activeIndex, i}
<1>. DEFINE c  == s.clients[i][k]
            s1 == ClientSetUnfocused(s, s.active[i])
            q  == ToHead(s.clients[i], k)
            active  == [s1.active EXCEPT ![i] = c]
            clients == [s1.clients EXCEPT ![i] = q]
            s2 == [s1 EXCEPT !.active = active, !.clients = clients]
            t  == FocusClient(s, i, k, c)
<1>1. s \in State BY DEF Sound, SoundBut
<1>2. c \in Clients /\ c \in OptClient /\ c # NULL /\ s.registry[Win(c)] = i
  BY ListedAt, ConstantsAssumption DEF Sound, OptClient, Clients
<1>3. s.clients[i] \in Seq(Clients) /\ Once(s.clients[i])
  BY <1>1, ListTyped DEF Sound, SoundBut, Homes
<1>4. q \in Seq(Clients) /\ Once(q) /\ Elems(q) = Elems(s.clients[i])
  BY <1>3, ToHeadTyped, MovedOnce
<1>5. Sound(s1) /\ Quiet(s, s1) BY <1>1, ActiveTyped, ClientSetUnfocusedSound DEF Sound
<1>6. SameLists(s, s1) /\ SameFocus(s, s1) BY <1>1, ActiveTyped, ClientSetUnfocusedTyped
<1>7. t = ClientSetFocused(s2, c)
  BY <1>5, <1>6 DEF FocusClient, Sound, SoundBut, State, SameLists
<1>8. s1 \in State BY <1>5 DEF Sound, SoundBut
<1>. HIDE DEF s1, q
<1>9. active \in [Workspaces -> OptClient] /\ clients \in [Workspaces -> Seq(Clients)]
  BY <1>2, <1>4, <1>8 DEF State
<1>10. \A j \in Workspaces : active[j] = s1.active[j] \/ (active[j] = c /\ j = i)
  BY <1>8 DEF State
<1>. HIDE DEF c, active
<1>11. /\ s2 \in State /\ Quiet(s1, s2) /\ SameFocus(s1, s2) /\ s2.active = active
       /\ s2.clients = clients /\ s2.focused = s1.focused /\ s2.grabs = s1.grabs
  BY <1>8, <1>9 DEF State, Quiet, SameFocus
<1>. HIDE DEF s2
<1>12. Sound(s2)
  <2>1. Elems(q) = Elems(s1.clients[i]) BY <1>4, <1>6 DEF SameLists
  <2>2. \A j \in Workspaces : \/ s2.active[j] = s1.active[j]
                              \/ s2.active[j] # NULL /\ s1.registry[Win(s2.active[j])] = j
    BY <1>2, <1>5, <1>10, <1>11 DEF Quiet
  <2>3. s2.clients = [s1.clients EXCEPT ![i] = q] BY <1>11
  <2>4. SoundBut(s1, {}) BY <1>5 DEF Sound
  <2>. HIDE DEF active, clients
  <2>5. SoundBut(s2, {}) BY <1>4, <1>11, <2>1, <2>2, <2>3, <2>4, MovedSound
  <2>. QED BY <2>5 DEF Sound
<1>13. Focused(s2) BY <1>6, <1>11 DEF Focused, SameFocus
<1>14. Sound(t) /\ Quiet(s2, t) /\ t.activeIndex \in {s2.activeIndex, i}
  BY <1>2, <1>5, <1>7, <1>11, <1>12, <1>13, ClientSetFocusedKeeps DEF Quiet
<1>. HIDE DEF t
<1>. QED BY <1>5, <1>6, <1>11, <1>14 DEF Quiet, SameFocus, t, c

\* client_set_window_input_focus and reset_input_focus touch nothing of this.
LEMMA InputSound ==
  ASSUME NEW s, Sound(s), NEW w \in Windows
  PROVE  /\ Sound(XFocus(s, w)) /\ Quiet(s, XFocus(s, w))
         /\ Sound(ResetInputFocus(s)) /\ Quiet(s, ResetInputFocus(s))
<1>. DEFINE f == XFocus(s, w)
            r == ResetInputFocus(s)
<1>1. s \in State BY DEF Sound, SoundBut
<1>2. XOnly(s, f) /\ XOnly(s, r) BY <1>1, XFocusTyped, ResetInputFocusTyped
<1>3. f.grabs = s.grabs /\ f.win = s.win /\ f.queue = s.queue BY <1>1 DEF XFocus, State
<1>4. r.grabs = s.grabs /\ r.win = s.win /\ r.queue = s.queue
  BY <1>1 DEF ResetInputFocus, State
<1>. HIDE DEF f, r
<1>5. Quiet(s, f) /\ Quiet(s, r) /\ GrabbedBut(f, {}) /\ GrabbedBut(r, {})
  BY <1>2, <1>3, <1>4 DEF Quiet, XOnly, SameLists, SameFlags, SameScreens, Sound, SoundBut, GrabbedBut
<1>6. Sound(f) /\ Sound(r) BY <1>2, <1>5, QuietSound DEF XOnly, Sound
<1>. QED BY <1>5, <1>6 DEF f, r

\* workspace_reset_focus keeps the focus in the workspace.
LEMMA WorkspaceResetFocusSound ==
  ASSUME NEW s, Sound(s), Focused(s), NEW i \in Workspaces
  PROVE  LET t == WorkspaceResetFocus(s, i)
         IN  Sound(t) /\ Quiet(s, t) /\ t.activeIndex = s.activeIndex
<1>. DEFINE t == WorkspaceResetFocus(s, i)
            a == s.active[i]
            r == ResetInputFocus(s)
<1>1. s \in State BY DEF Sound, SoundBut
<1>2. CASE i \notin s.wsFocused BY <1>2 DEF WorkspaceResetFocus, Quiet
<1>3. CASE i \in s.wsFocused
  <2>1. i = s.activeIndex BY <1>3 DEF Focused
  <2>2. ASSUME NEW w \in Windows PROVE Sound(r) /\ Quiet(s, r) BY InputSound
  <2>3. r.activeIndex = s.activeIndex
    BY <1>1, ResetInputFocusTyped DEF XOnly, SameFocus
  <2>4. Quiet(s, s) BY DEF Quiet
  <2>5. Sound(r) /\ Quiet(s, r)
    <3>1. XOnly(s, r) /\ r.grabs = s.grabs /\ r.win = s.win /\ r.queue = s.queue
      BY <1>1, ResetInputFocusTyped DEF ResetInputFocus, State
    <3>. HIDE DEF r
    <3>2. Quiet(s, r) /\ GrabbedBut(r, {})
      BY <3>1 DEF Quiet, XOnly, SameLists, SameFlags, SameScreens, Sound, SoundBut, GrabbedBut
    <3>. QED BY <3>1, <3>2, QuietSound DEF XOnly, Sound
  <2>6. CASE a # NULL
    <3>. DEFINE f == XFocus(s, Win(a))
                g == ClientSetFocused(s, a)
    <3>1. a \in Clients /\ a \in OptClient BY <1>1, <2>6, ActiveTyped DEF OptClient
    <3>2. s.registry[Win(a)] = i BY <2>6 DEF Sound, SoundBut, Actives
    <3>3. Sound(f) /\ Quiet(s, f) BY <3>1, WinTyped, InputSound
    <3>4. f.activeIndex = s.activeIndex
      BY <1>1, <3>1, WinTyped, XFocusTyped DEF XOnly, SameFocus
    <3>5. Sound(g) /\ Quiet(s, g) /\ g.activeIndex = s.activeIndex
      BY <2>1, <3>1, <3>2, ClientSetFocusedKeeps
    <3>. QED BY <1>3, <2>3, <2>5, <2>6, <3>3, <3>4, <3>5 DEF WorkspaceResetFocus
  <2>7. CASE a = NULL /\ Showable(s, i) # {}
    <3>. DEFINE k == FirstOf(Showable(s, i))
                g == FocusClient(s, i, k, s.clients[i][k])
    <3>1. Showable(s, i) \subseteq 1 .. Len(s.clients[i]) BY DEF Showable
    <3>2. Showable(s, i) \subseteq Nat BY <1>1, <3>1, ListTyped
    <3>3. k \in 1 .. Len(s.clients[i]) BY <2>7, <3>1, <3>2, FirstOfType
    <3>. HIDE DEF k
    <3>4. Sound(g) /\ Quiet(s, g) /\ g.activeIndex = s.activeIndex
      BY <2>1, <3>3, FocusClientSound
    <3>. QED BY <1>3, <2>3, <2>5, <2>7, <3>4 DEF WorkspaceResetFocus, k
  <2>8. CASE a = NULL /\ Showable(s, i) = {}
    BY <1>3, <2>3, <2>5, <2>8 DEF WorkspaceResetFocus
  <2>. QED BY <2>6, <2>7, <2>8
<1>. QED BY <1>2, <1>3

\* workspace_focus_client, of a client of the workspace.
LEMMA WorkspaceFocusClientSound ==
  ASSUME NEW s, Sound(s), Focused(s), NEW i \in Workspaces, NEW c \in Clients
  PROVE  LET t == WorkspaceFocusClient(s, i, c)
         IN  Sound(t) /\ Quiet(s, t) /\ t.activeIndex \in {s.activeIndex, i}
<1>. DEFINE t == WorkspaceFocusClient(s, i, c)
            k == FirstNode(s, i, Win(c))
            f == FocusClient(s, i, k, c)
<1>1. CASE ~MayFocus(s, i, c) BY <1>1 DEF WorkspaceFocusClient, Quiet
<1>2. CASE MayFocus(s, i, c)
  <2>1. s \in State BY DEF Sound, SoundBut
  <2>2. k \in 1 .. Len(s.clients[i]) /\ s.clients[i][k] = c
    BY <1>2, NodeOf DEF MayFocus, Sound
  <2>. HIDE DEF k
  <2>3. Sound(f) /\ Quiet(s, f) BY <2>2, FocusClientSound
  <2>4. Refocused(s, f) BY <2>1, <2>2, FocusClientTyped
  <2>5. t = WorkspaceSetFocused(f, i) BY <1>2 DEF WorkspaceFocusClient, k
  <2>. HIDE DEF f
  <2>6. f \in State /\ AtMostFocused(f) BY <2>4 DEF Refocused, Focused, AtMostFocused
  <2>7. Sound(t) /\ Quiet(f, t) BY <2>3, <2>5, <2>6, WorkspaceSetFocusedSound DEF Sound
  <2>8. t.activeIndex = i BY <2>5, <2>6, WorkspaceSetFocusedTyped
  <2>. HIDE DEF t
  <2>. QED BY <2>3, <2>7, <2>8 DEF Quiet, t
<1>. QED BY <1>1, <1>2

\* workspace_unfocus_client, likewise.
LEMMA WorkspaceUnfocusClientSound ==
  ASSUME NEW s, Sound(s), Focused(s), NEW i \in Workspaces, NEW c \in Clients
  PROVE  LET t == WorkspaceUnfocusClient(s, i, c)
         IN  Sound(t) /\ Quiet(s, t) /\ t.activeIndex \in {s.activeIndex, i}
<1>. DEFINE t == WorkspaceUnfocusClient(s, i, c)
            k == FirstNode(s, i, Win(c))
<1>1. CASE Nodes(s, i, Win(c)) = {} \/ k = Len(s.clients[i])
  BY <1>1 DEF WorkspaceUnfocusClient, Quiet
<1>2. CASE ~(Nodes(s, i, Win(c)) = {} \/ k = Len(s.clients[i]))
  <2>. DEFINE d  == s.clients[i][k + 1]
              s1 == IF c \in s.focused THEN WorkspaceFocusClient(s, i, d) ELSE s
              k1 == FirstNode(s1, i, Win(c))
              q  == ToTail(s1.clients[i], k1)
              clients == [s1.clients EXCEPT ![i] = q]
  <2>1. s \in State /\ SoundBut(s, {}) BY DEF Sound, SoundBut
  <2>2. s.registry[Win(c)] = i /\ k \in 1 .. Len(s.clients[i]) BY <1>2, <2>1, NodeOf
  <2>3. k + 1 \in 1 .. Len(s.clients[i]) BY <1>2, <2>1, <2>2, ListTyped
  <2>4. d \in Clients BY <2>1, <2>3, EntryTyped
  <2>5. t = [s1 EXCEPT !.clients[i] = ToTail(@, k1)]
    BY <1>2, Zenon DEF WorkspaceUnfocusClient
  <2>. HIDE DEF k, d
  <2>6. Sound(s1) /\ Quiet(s, s1) /\ s1.activeIndex \in {s.activeIndex, i}
    <3>1. CASE c \in s.focused BY <2>4, <3>1, WorkspaceFocusClientSound
    <3>2. CASE c \notin s.focused BY <3>2 DEF Quiet
    <3>. QED BY <3>1, <3>2
  <2>. HIDE DEF s1
  <2>7. s1 \in State /\ SoundBut(s1, {}) BY <2>6 DEF Sound, SoundBut
  <2>8. s1.registry[Win(c)] = i BY <2>2, <2>6 DEF Quiet
  <2>9. k1 \in 1 .. Len(s1.clients[i]) BY <2>7, <2>8, NodeOf
  <2>10. s1.clients[i] \in Seq(Clients) /\ Once(s1.clients[i])
    BY <2>7, ListTyped DEF SoundBut, Homes
  <2>11. q \in Seq(Clients) /\ Once(q) /\ Elems(q) = Elems(s1.clients[i])
    BY <2>9, <2>10, ToTailTyped, MovedOnce
  <2>12. t = [s1 EXCEPT !.clients = clients] BY <2>5, <2>7 DEF State
  <2>13. clients \in [Workspaces -> Seq(Clients)] BY <2>7, <2>11 DEF State
  <2>. HIDE DEF q, clients
  <2>14. /\ t \in State /\ Quiet(s1, t) /\ t.focused = s1.focused /\ t.grabs = s1.grabs
         /\ t.clients = clients /\ t.active = s1.active /\ t.activeIndex = s1.activeIndex
    BY <2>7, <2>12, <2>13 DEF State, Quiet
  <2>15. t.clients = [s1.clients EXCEPT ![i] = q] BY <2>14 DEF clients
  <2>. HIDE DEF t
  <2>16. \A j \in Workspaces : t.active[j] = s1.active[j] BY <2>14
  <2>17. SoundBut(t, {}) BY <2>7, <2>11, <2>14, <2>15, <2>16, MovedSound
  <2>. QED BY <2>6, <2>14, <2>17 DEF Sound, Quiet, t
<1>. QED BY <1>1, <1>2

-----------------------------------------------------------------------------
(* Hiding, showing and moving *)

\* What mapping and hiding leave alone: the lists, and which windows are gone.
\* Events are only added.
Lasting(s, t) ==
  /\ t.registry = s.registry /\ t.live = s.live
  /\ t.hidden \subseteq s.hidden
  /\ \A w \in Windows : t.win[w] = "gone" <=> s.win[w] = "gone"
  /\ \A w \in Windows : Told(s, w) => Told(t, w)

Steady(s, t) == Lasting(s, t) /\ SameLists(s, t)

LEMMA SilentLasting ==
  ASSUME NEW s, NEW t, Silent(s, t)
  PROVE  Lasting(s, t)
BY DEF Silent, Lasting, Told

LEMMA QuietLasting ==
  ASSUME NEW s, NEW t, Quiet(s, t)
  PROVE  Lasting(s, t)
BY SilentLasting DEF Quiet, Silent

LEMMA LastingTransitive ==
  ASSUME NEW s, NEW t, NEW u, Lasting(s, t), Lasting(t, u)
  PROVE  Lasting(s, u)
BY DEF Lasting

LEMMA SteadyTransitive ==
  ASSUME NEW s, NEW t, NEW u, Steady(s, t), Steady(t, u)
  PROVE  Steady(s, u)
BY DEF Steady, Lasting, SameLists

LEMMA SteadySound ==
  ASSUME NEW ws, NEW vs, NEW s, SoundBut(s, ws), NEW t \in State, Steady(s, t),
         GrabbedBut(t, vs)
  PROVE  SoundBut(t, vs)
BY DEF SoundBut, Homes, Allocated, Actives, Doomed, Steady, Lasting, SameLists

\* The grabs are right if neither they nor the focused clients change.
LEMMA SameGrabs ==
  ASSUME NEW ws, NEW s, GrabbedBut(s, ws), s \in State, NEW t, Steady(s, t),
         t.grabs = s.grabs, t.focused = s.focused
  PROVE  GrabbedBut(t, ws)
<1>1. \A c \in s.live : Win(c) \in Windows BY WinTyped DEF State
<1>. QED BY <1>1 DEF GrabbedBut, Steady, Lasting, SameLists

\* Events are not lost when others follow them.
LEMMA ToldStill ==
  ASSUME NEW s \in State, NEW t, NEW es \in Seq(Events), t.queue = s.queue \o es,
         NEW w, Told(s, w)
  PROVE  Told(t, w)
<1>1. s.queue \in Seq(Events) BY DEF State
<1>2. PICK k \in 1 .. Len(s.queue) : s.queue[k] = Event("DestroyNotify", w) BY DEF Told
<1>3. k \in 1 .. Len(s.queue \o es) /\ (s.queue \o es)[k] = s.queue[k]
  BY <1>1, <1>2, ConcatProperties
<1>. QED BY <1>2, <1>3 DEF Told

\* Mapping a window.
LEMMA XMapSteady ==
  ASSUME NEW s \in State, NEW w \in Windows
  PROVE  LET t == XMap(s, w)
         IN  Steady(s, t) /\ t.grabs = s.grabs /\ t.focused = s.focused /\ t.hidden = s.hidden
<1>. DEFINE t == XMap(s, w)
            es == <<Event("MapNotify", w)>>
<1>1. CASE s.win[w] # "unmapped"
  BY <1>1 DEF XMap, Steady, Lasting, SameLists
<1>2. CASE s.win[w] = "unmapped"
  <2>1. XOnly(s, t) BY XMapTyped
  <2>2. es \in Seq(Events) BY EventTyped DEF EventTypes
  <2>3. s.queue \in Seq(Events) BY DEF State
  <2>4. t.win = [s.win EXCEPT ![w] = "mapped"] /\ t.queue = Append(s.queue, Event("MapNotify", w))
        /\ t.grabs = s.grabs
    BY <1>2 DEF XMap, State
  <2>5. Append(s.queue, Event("MapNotify", w)) = s.queue \o es
    BY <2>3, EventTyped, AppendIsConcat DEF EventTypes
  <2>. HIDE DEF t, es
  <2>6. \A v \in Windows : t.win[v] = "gone" <=> s.win[v] = "gone" BY <1>2, <2>4 DEF State
  <2>7. \A v \in Windows : Told(s, v) => Told(t, v) BY <2>2, <2>4, <2>5, ToldStill
  <2>8. Steady(s, t) /\ t.grabs = s.grabs /\ t.focused = s.focused /\ t.hidden = s.hidden
    BY <2>1, <2>4, <2>6, <2>7 DEF XOnly, SameLists, SameFlags, Steady, Lasting
  <2>. QED BY <2>8 DEF t
<1>. QED BY <1>1, <1>2

\* Unmapping windows that are mapped.
LEMMA XUnmapAllSteady ==
  ASSUME NEW s \in State, NEW ws \in SUBSET Windows, NEW es \in Seq(Events),
         \A w \in ws : s.win[w] = "mapped"
  PROVE  LET t == XUnmapAll(s, ws, es)
         IN  Steady(s, t) /\ t.grabs = s.grabs /\ t.focused = s.focused /\ t.hidden = s.hidden
<1>. DEFINE t == XUnmapAll(s, ws, es)
<1>1. XOnly(s, t) BY XUnmapAllTyped
<1>2. /\ t.win = [w \in Windows |-> IF w \in ws THEN "unmapped" ELSE s.win[w]]
      /\ t.queue = s.queue \o es /\ t.grabs = s.grabs
  BY DEF XUnmapAll, State
<1>. HIDE DEF t
<1>3. \A v \in Windows : t.win[v] = "gone" <=> s.win[v] = "gone" BY <1>2
<1>4. \A v \in Windows : Told(s, v) => Told(t, v) BY <1>2, ToldStill
<1>5. Steady(s, t) /\ t.grabs = s.grabs /\ t.focused = s.focused /\ t.hidden = s.hidden
  BY <1>1, <1>2, <1>3, <1>4 DEF XOnly, SameLists, SameFlags, Steady, Lasting
<1>. QED BY <1>5 DEF t

\* Unmapping one window.
LEMMA XUnmapSteady ==
  ASSUME NEW s \in State, NEW w \in Windows
  PROVE  LET t == XUnmap(s, w)
         IN  Steady(s, t) /\ t.grabs = s.grabs /\ t.focused = s.focused /\ t.hidden = s.hidden
<1>1. CASE s.win[w] # "mapped" BY <1>1 DEF XUnmap, Steady, Lasting, SameLists
<1>2. CASE s.win[w] = "mapped"
  <2>1. <<Event("UnmapNotify", w)>> \in Seq(Events) BY EventTyped DEF EventTypes
  <2>2. {w} \in SUBSET Windows OBVIOUS
  <2>. QED BY <1>2, <2>1, <2>2, XUnmapAllSteady DEF XUnmap
<1>. QED BY <1>1, <1>2

\* client_hide.
LEMMA ClientHideSound ==
  ASSUME NEW s, Sound(s), NEW c \in Clients
  PROVE  LET t == ClientHide(s, c)
         IN  Sound(t) /\ Steady(s, t) /\ t.hidden = s.hidden
<1>. DEFINE s1 == IF c \in s.focused THEN ClientSetUnfocused(s, c) ELSE s
            offscreen == s1.offscreen \cup {c}
            s2 == [s1 EXCEPT !.offscreen = offscreen]
            t  == XUnmap(s2, Win(c))
<1>1. s \in State /\ SoundBut(s, {}) /\ c \in OptClient BY DEF Sound, SoundBut, OptClient
<1>2. SoundBut(s1, {}) /\ Quiet(s, s1)
  <2>1. CASE c \in s.focused BY <1>1, <2>1, ClientSetUnfocusedSound
  <2>2. CASE c \notin s.focused BY <1>1, <2>2 DEF Quiet
  <2>. QED BY <2>1, <2>2
<1>3. SameLists(s, s1) BY <1>1, ClientSetUnfocusedTyped DEF SameLists
<1>4. ClientHide(s, c) = t BY DEF ClientHide
<1>. HIDE DEF s1
<1>5. s1 \in State BY <1>2 DEF SoundBut
<1>6. offscreen \in SUBSET Clients BY <1>5 DEF State
<1>. HIDE DEF offscreen
<1>7. /\ s2 \in State /\ SameLists(s1, s2) /\ Silent(s1, s2)
      /\ s2.focused = s1.focused /\ s2.grabs = s1.grabs
  BY <1>5, <1>6 DEF State, SameLists, Silent
<1>. HIDE DEF s2
<1>8. Steady(s1, s2) BY <1>7, SilentLasting DEF Steady
<1>9. t \in State BY <1>7, WinTyped, XUnmapTyped DEF XOnly
<1>10. /\ Steady(s2, t) /\ t.grabs = s2.grabs /\ t.focused = s2.focused
       /\ t.hidden = s2.hidden
  BY <1>7, WinTyped, XUnmapSteady
<1>. HIDE DEF t
<1>11. Steady(s1, t) BY <1>8, <1>10, SteadyTransitive
<1>12. Steady(s, t) BY <1>2, <1>3, <1>11, QuietLasting, SteadyTransitive DEF Steady
<1>13. GrabbedBut(t, {}) BY <1>2, <1>5, <1>7, <1>10, <1>11, SameGrabs DEF SoundBut
<1>14. Sound(t) BY <1>2, <1>9, <1>11, <1>13, SteadySound DEF Sound
<1>. QED BY <1>2, <1>4, <1>7, <1>10, <1>12, <1>14 DEF Quiet, Silent

\* client_show.
LEMMA ClientShowSound ==
  ASSUME NEW s, Sound(s), NEW c \in Clients
  PROVE  LET t == ClientShow(s, c)
         IN  Sound(t) /\ Steady(s, t)
<1>. DEFINE s1 == [s EXCEPT !.hidden = @ \ {c}]
            t  == XMap(s1, Win(c))
<1>1. s \in State BY DEF Sound, SoundBut
<1>2. /\ s1 \in State /\ Steady(s, s1) /\ s1.grabs = s.grabs /\ s1.focused = s.focused
  BY <1>1 DEF State, Steady, Lasting, SameLists, Told
<1>3. ClientShow(s, c) = t BY DEF ClientShow
<1>. HIDE DEF s1
<1>4. t \in State BY <1>2, WinTyped, XMapTyped DEF XOnly
<1>5. Steady(s1, t) /\ t.grabs = s1.grabs /\ t.focused = s1.focused
  BY <1>2, WinTyped, XMapSteady
<1>. HIDE DEF t
<1>6. Steady(s, t) BY <1>2, <1>5, SteadyTransitive
<1>7. GrabbedBut(t, {}) BY <1>1, <1>2, <1>5, <1>6, SameGrabs DEF Sound, SoundBut
<1>8. Sound(t) BY <1>4, <1>6, <1>7, SteadySound DEF Sound
<1>. QED BY <1>3, <1>6, <1>8

\* The loops map and unmap what is in the state they look for.
LEMMA LoopMapped ==
  ASSUME NEW s, NEW i, NEW from
  PROVE  \A w \in LoopWindows(s, i, from) : s.win[w] = from
BY DEF LoopWindows, LoopNodes

\* workspace_hide.
LEMMA WorkspaceHideSound ==
  ASSUME NEW s, Sound(s), NEW i \in Workspaces
  PROVE  LET t == WorkspaceHide(s, i)
         IN  Sound(t) /\ Steady(s, t) /\ t.hidden = s.hidden
<1>0. s \in State /\ Remaps = 0 BY DEF Sound, SoundBut
<1>1. CASE i \notin s.visible
  BY <1>1 DEF WorkspaceHide, Steady, Lasting, SameLists
<1>2. CASE i \in s.visible
  <2>. DEFINE loop == Members(s, i) \ s.hidden
              wsFocused == s.wsFocused \ {i}
              visible   == s.visible \ {i}
              focused   == s.focused \ loop
              offscreen == s.offscreen \cup loop
              s1 == [s EXCEPT !.wsFocused = wsFocused, !.visible = visible,
                              !.focused = focused, !.offscreen = offscreen]
              ws == {Win(c) : c \in loop \cap s.focused}
              s2 == XGrab(s1, ws)
              es == LoopEvents(s, i, "mapped", "UnmapNotify")
              wins == LoopWindows(s, i, "mapped")
              t == XUnmapAll(s2, wins, es)
  <2>1. loop \in SUBSET Clients BY <1>0, EntryTyped DEF Members
  <2>2. ws \in SUBSET Windows BY <2>1, WinTyped
  <2>3. es \in Seq(Events) /\ wins \in SUBSET Windows BY <1>0, LoopEventsTyped DEF EventTypes
  <2>4. WorkspaceHide(s, i) = t BY <1>2, Zenon DEF WorkspaceHide
  <2>5. /\ wsFocused \in SUBSET Workspaces /\ visible \in SUBSET Workspaces
        /\ focused \in SUBSET Clients /\ offscreen \in SUBSET Clients
    <3>. HIDE DEF loop
    <3>. QED BY <1>0, <2>1 DEF State
  <2>6. \A w \in wins : s.win[w] = "mapped" BY LoopMapped
  <2>7. \A c \in loop \cap s.focused : Win(c) \in ws OBVIOUS
  <2>8. \A w \in ws : \E c \in loop \cap s.focused : w = Win(c) OBVIOUS
  <2>. HIDE DEF loop, wsFocused, visible, focused, offscreen, ws, es, wins
  <2>9. /\ s1 \in State /\ SameLists(s, s1) /\ Silent(s, s1)
        /\ s1.focused = focused /\ s1.grabs = s.grabs
    BY <1>0, <2>5 DEF State, SameLists, Silent
  <2>. HIDE DEF s1
  <2>10. XOnly(s1, s2) BY <2>2, <2>9, XGrabTyped
  <2>11. /\ s2.win = s1.win /\ s2.queue = s1.queue
         /\ s2.grabs = s1.grabs \cup {w \in ws : s1.win[w] # "gone"}
    BY <2>9 DEF XGrab, State
  <2>. HIDE DEF s2
  <2>12. /\ s2 \in State /\ SameLists(s, s2) /\ Silent(s, s2) /\ s2.focused = s.focused \ loop
         /\ s2.grabs = s.grabs \cup {w \in ws : s.win[w] # "gone"}
    BY <2>9, <2>10, <2>11 DEF XOnly, SameLists, SameFlags, Silent, focused
  <2>13. GrabbedBut(s2, {})
    <3>1. s.live \subseteq Clients BY <1>0 DEF State
    <3>2. \A c \in Clients : Win(c) \in ws => c \in loop \cap s.focused
      BY <1>0, <2>1, <2>8, OneClient
    <3>. QED BY <2>7, <2>12, <3>1, <3>2 DEF Sound, SoundBut, GrabbedBut, SameLists, Silent
  <2>14. SoundBut(s2, {}) BY <2>12, <2>13, SilentSound DEF Sound
  <2>15. Steady(s, s2) BY <2>12, SilentLasting DEF Steady
  <2>16. \A w \in wins : s2.win[w] = "mapped" BY <2>6, <2>12 DEF Silent
  <2>17. /\ Steady(s2, t) /\ t.grabs = s2.grabs /\ t.focused = s2.focused
         /\ t.hidden = s2.hidden
    BY <2>3, <2>12, <2>16, XUnmapAllSteady
  <2>18. t \in State BY <2>3, <2>12, XUnmapAllTyped DEF XOnly
  <2>. HIDE DEF t
  <2>19. GrabbedBut(t, {}) BY <2>12, <2>13, <2>17, SameGrabs
  <2>20. Sound(t) BY <2>14, <2>17, <2>18, <2>19, SteadySound DEF Sound
  <2>21. Steady(s, t) BY <2>15, <2>17, SteadyTransitive
  <2>. QED BY <2>4, <2>12, <2>17, <2>20, <2>21 DEF Silent
<1>. QED BY <1>1, <1>2

\* workspace_send_to_monitor.
LEMMA WorkspaceSendToMonitorSound ==
  ASSUME NEW s, Sound(s), NEW i \in Workspaces, NEW m \in Monitors
  PROVE  LET t == WorkspaceSendToMonitor(s, i, m)
         IN  Sound(t) /\ Steady(s, t)
<1>. DEFINE t  == WorkspaceSendToMonitor(s, i, m)
            ws == LoopWindows(s, i, "unmapped")
            es == LoopEvents(s, i, "unmapped", "MapNotify")
<1>1. s \in State BY DEF Sound, SoundBut
<1>2. t \in State /\ SameLists(s, t) BY <1>1, WorkspaceSendToMonitorTyped
<1>3. /\ t.win = [w \in Windows |-> IF w \in ws THEN "mapped" ELSE s.win[w]]
      /\ t.queue = s.queue \o es /\ t.grabs = s.grabs /\ t.focused = s.focused
      /\ t.hidden = s.hidden
  BY <1>1 DEF WorkspaceSendToMonitor, State
<1>4. es \in Seq(Events) BY <1>1, LoopEventsTyped DEF EventTypes
<1>5. \A w \in ws : s.win[w] = "unmapped" BY LoopMapped
<1>. HIDE DEF t, ws, es
<1>6. \A v \in Windows : t.win[v] = "gone" <=> s.win[v] = "gone" BY <1>3, <1>5
<1>7. \A v \in Windows : Told(s, v) => Told(t, v) BY <1>1, <1>3, <1>4, ToldStill
<1>8. Steady(s, t) BY <1>2, <1>3, <1>6, <1>7 DEF Steady, Lasting, SameLists
<1>9. GrabbedBut(t, {}) BY <1>1, <1>3, <1>8, SameGrabs DEF Sound, SoundBut
<1>10. Sound(t) BY <1>2, <1>8, <1>9, SteadySound DEF Sound
<1>. QED BY <1>8, <1>10 DEF t

\* workspace_change_monitor brings a workspace to the monitor of the focused
\* one; if it was on another, the two change places.
LEMMA WorkspaceChangeMonitorSound ==
  ASSUME NEW s, Sound(s), Focused(s), Agree(s), NEW next \in Workspaces,
         next # s.activeIndex
  PROVE  LET t == WorkspaceChangeMonitor(s, next)
         IN  \/ t = s
             \/ /\ Sound(t) /\ Lasting(s, t) /\ t.activeIndex = next
                /\ \A m \in Monitors :
                     t.shows[m] = IF s.shows[m] = s.activeIndex THEN next
                                  ELSE IF s.shows[m] = next THEN s.activeIndex
                                  ELSE s.shows[m]
                /\ \E u : /\ Sound(u) /\ Focused(u) /\ u.activeIndex = next
                         /\ t = WorkspaceResetFocus(u, next)
<1>. DEFINE cur  == s.activeIndex
            curM == ActiveMonitor(s)
            nxtM == FirstOf(MonitorsOf(s, next))
            s1   == WorkspaceHide(s, cur)
            s1h  == WorkspaceHide(s1, next)
            s2   == IF next \in s1.visible /\ nxtM # NULL
                    THEN WorkspaceSendToMonitor(s1h, cur, nxtM) ELSE s1
            s3   == WorkspaceSendToMonitor(s2, next, curM)
            s4   == WorkspaceSetFocused(s3, next)
            t    == WorkspaceResetFocus(s4, next)
            Between(u) == /\ Sound(u) /\ Steady(s, u) /\ AtMostFocused(u)
<1>0. s \in State BY DEF Sound, SoundBut
<1>1. CASE next \in s.wsFocused \/ curM = NULL BY <1>1 DEF WorkspaceChangeMonitor
<1>2. CASE next \notin s.wsFocused /\ curM # NULL
  <2>1. cur \in Workspaces /\ cur # NULL BY <1>0, NullNoWorkspace DEF State
  <2>2. curM \in Monitors /\ s.shows[curM] = cur
    <3>1. {m \in Monitors : s.shows[m] \in s.wsFocused} # {} BY <1>2 DEF ActiveMonitor, FirstOf
    <3>2. curM \in {m \in Monitors : s.shows[m] \in s.wsFocused}
      BY <3>1, MonitorTyped DEF ActiveMonitor
    <3>. QED BY <3>2 DEF Focused
  <2>3. \A m \in Monitors : s.shows[m] = cur => m = curM BY <2>1, <2>2 DEF Agree
  <2>4. WorkspaceChangeMonitor(s, next) = t
    BY <1>2, Zenon DEF WorkspaceChangeMonitor
  <2>5. /\ Between(s1) /\ s1.visible = s.visible \ {cur} /\ s1.shows = s.shows
    BY <1>0, <2>1, WorkspaceHideTyped, WorkspaceHideSound DEF Focused, AtMostFocused
  <2>. HIDE DEF s1, curM
  <2>6. /\ Between(s2)
        /\ IF next \in s1.visible /\ nxtM # NULL
           THEN nxtM \in MonitorsOf(s, next) /\ s2.shows = [s1.shows EXCEPT ![nxtM] = cur]
           ELSE s2.shows = s1.shows
    <3>1. CASE next \in s1.visible /\ nxtM # NULL
      <4>1. MonitorsOf(s, next) # {} BY <3>1 DEF FirstOf
      <4>2. nxtM \in MonitorsOf(s, next) BY <4>1, MonitorTyped DEF MonitorsOf
      <4>3. nxtM \in Monitors BY <4>2 DEF MonitorsOf
      <4>. HIDE DEF nxtM
      <4>4. s1 \in State BY <2>5 DEF Sound, SoundBut
      <4>5. Sound(s1h) /\ Steady(s1, s1h) BY <2>5, WorkspaceHideSound
      <4>6. AtMostFocused(s1h) /\ s1h.shows = s1.shows
        BY <2>5, <4>4, WorkspaceHideTyped DEF AtMostFocused
      <4>7. Between(s1h) BY <2>5, <4>5, <4>6, SteadyTransitive
      <4>. HIDE DEF s1h
      <4>8. s1h \in State BY <4>5 DEF Sound, SoundBut
      <4>9. s2 = WorkspaceSendToMonitor(s1h, cur, nxtM) BY <3>1
      <4>. HIDE DEF s2
      <4>10. Sound(s2) /\ Steady(s1h, s2) BY <2>1, <4>3, <4>5, <4>9, WorkspaceSendToMonitorSound
      <4>11. SameFocus(s1h, s2) /\ s2.shows = [s1h.shows EXCEPT ![nxtM] = cur]
        BY <2>1, <4>3, <4>8, <4>9, WorkspaceSendToMonitorTyped
      <4>12. Between(s2) BY <4>7, <4>10, <4>11, SteadyTransitive DEF AtMostFocused, SameFocus
      <4>. QED BY <3>1, <4>2, <4>6, <4>11, <4>12
    <3>2. CASE ~(next \in s1.visible /\ nxtM # NULL) BY <2>5, <3>2
    <3>. QED BY <3>1, <3>2
  <2>. HIDE DEF s2
  <2>7. s2 \in State BY <2>6 DEF Sound, SoundBut
  <2>8. Sound(s3) /\ Steady(s2, s3) BY <2>2, <2>6, WorkspaceSendToMonitorSound
  <2>9. SameFocus(s2, s3) /\ s3.shows = [s2.shows EXCEPT ![curM] = next]
    BY <2>2, <2>7, WorkspaceSendToMonitorTyped
  <2>. HIDE DEF s3
  <2>10. Between(s3) BY <2>6, <2>8, <2>9, SteadyTransitive DEF AtMostFocused, SameFocus
  <2>11. s3 \in State /\ SoundBut(s3, {}) BY <2>8 DEF Sound, SoundBut
  <2>12. Refocused(s3, s4) /\ s4.activeIndex = next BY <2>10, <2>11, WorkspaceSetFocusedTyped
  <2>13. Sound(s4) /\ Quiet(s3, s4) BY <2>10, <2>11, WorkspaceSetFocusedSound DEF Sound
  <2>. HIDE DEF s4
  <2>14. s4 \in State /\ Focused(s4) /\ s4.shows = s3.shows
    BY <2>12 DEF Refocused, SameScreens
  <2>15. \E u : /\ Sound(u) /\ Focused(u) /\ u.activeIndex = next
               /\ t = WorkspaceResetFocus(u, next)
    BY <2>12, <2>13, <2>14
  <2>16. Sound(t) /\ Quiet(s4, t) /\ t.activeIndex = next
    BY <2>12, <2>13, <2>14, WorkspaceResetFocusSound
  <2>17. t.shows = s3.shows BY <2>14, WorkspaceResetFocusTyped DEF Refocused, SameScreens
  <2>. HIDE DEF t
  <2>18. Lasting(s, t) BY <2>10, <2>13, <2>16, QuietLasting, LastingTransitive DEF Steady
  <2>19. ASSUME NEW m \in Monitors
         PROVE  t.shows[m] = IF s.shows[m] = cur THEN next
                             ELSE IF s.shows[m] = next THEN cur ELSE s.shows[m]
    <3>1. s.shows \in [Monitors -> OptWorkspace] BY <1>0 DEF State
    <3>2. CASE next \in s1.visible /\ nxtM # NULL
      <4>1. nxtM \in Monitors /\ s.shows[nxtM] = next BY <2>6, <3>2 DEF MonitorsOf
      <4>2. \A n \in Monitors : s.shows[n] = next => n = nxtM
        BY <4>1, NullNoWorkspace DEF Agree
      <4>3. t.shows = [s.shows EXCEPT ![nxtM] = cur, ![curM] = next]
        BY <2>5, <2>6, <2>9, <2>17, <3>2
      <4>. HIDE DEF nxtM
      <4>. QED BY <2>2, <2>3, <3>1, <4>1, <4>2, <4>3
    <3>3. CASE ~(next \in s1.visible /\ nxtM # NULL)
      <4>1. t.shows = [s.shows EXCEPT ![curM] = next]
        BY <2>5, <2>6, <2>9, <2>17, <3>3
      <4>2. \A n \in Monitors : s.shows[n] # next
        <5>. SUFFICES ASSUME NEW n \in Monitors, s.shows[n] = next PROVE FALSE OBVIOUS
        <5>1. next \in s1.visible BY <2>5, NullNoWorkspace DEF Agree
        <5>2. MonitorsOf(s, next) # {} BY DEF MonitorsOf
        <5>3. nxtM \in Monitors BY <5>2, MonitorTyped DEF MonitorsOf
        <5>. QED BY <3>3, <5>1, <5>3, ConstantsAssumption DEF Monitors
      <4>. HIDE DEF nxtM
      <4>. QED BY <2>2, <2>3, <3>1, <4>1, <4>2
    <3>. QED BY <3>2, <3>3
  <2>. QED BY <2>4, <2>15, <2>16, <2>18, <2>19
<1>. QED BY <1>1, <1>2

\* workspace_add_client, of a client on no list.  If its window is gone already
\* the event that says so is still to come.
LEMMA WorkspaceAddClientSound ==
  ASSUME NEW ws, NEW s, SoundBut(s, ws), NEW i \in Workspaces, NEW c \in Clients,
         s.registry[Win(c)] = NULL, c \in s.live,
         s.win[Win(c)] = "gone" => Told(s, Win(c))
  PROVE  LET t == WorkspaceAddClient(s, i, c)
         IN  /\ SoundBut(t, ws)
             /\ t.registry = [s.registry EXCEPT ![Win(c)] = i]
             /\ t.live = s.live /\ t.hidden = s.hidden /\ t.win = s.win /\ t.queue = s.queue
             /\ t.visible = s.visible /\ t.offscreen = s.offscreen
<1>. DEFINE w  == Win(c)
            q  == <<c>> \o s.clients[i]
            clients  == [s.clients EXCEPT ![i] = q]
            registry == [s.registry EXCEPT ![w] = i]
            s1 == [s EXCEPT !.clients = clients, !.registry = registry]
            s2 == ClientSetUnfocused(s1, s.active[i])
            active == [s2.active EXCEPT ![i] = c]
            t  == [s2 EXCEPT !.active = active]
<1>1. s \in State /\ Remaps = 0 /\ w \in Windows BY WinTyped DEF SoundBut
<1>2. s.clients[i] \in Seq(Clients) BY <1>1, ListTyped
<1>3. c \notin Elems(s.clients[i]) BY <1>1, NullNoWorkspace DEF SoundBut, Homes
<1>4. Once(q) /\ Elems(q) = Elems(s.clients[i]) \cup {c}
  BY <1>2, <1>3, ConsOnce DEF SoundBut, Homes
<1>5. q \in Seq(Clients)
  <2>1. <<c>> \in Seq(Clients) OBVIOUS
  <2>. QED BY <1>2, <2>1, ConcatProperties
<1>6. \A d \in Clients : d # c => Win(d) # w BY <1>1, OneClient
<1>7. WorkspaceAddClient(s, i, c) = [s2 EXCEPT !.active[i] = c]
  BY <1>1 DEF WorkspaceAddClient, State
<1>. HIDE DEF q
<1>8. clients \in [Workspaces -> Seq(Clients)] BY <1>1, <1>5 DEF State
<1>9. registry \in [Windows -> OptWorkspace] BY <1>1 DEF State, OptWorkspace
<1>10. /\ \A j \in Workspaces : clients[j] = IF j = i THEN q ELSE s.clients[j]
       /\ \A v \in Windows : registry[v] = IF v = w THEN i ELSE s.registry[v]
  BY <1>1 DEF State
<1>. HIDE DEF clients, registry
<1>11. /\ s1 \in State /\ s1.clients = clients /\ s1.registry = registry
       /\ s1.active = s.active /\ s1.live = s.live /\ s1.hidden = s.hidden
       /\ s1.win = s.win /\ s1.queue = s.queue
       /\ s1.grabs = s.grabs /\ s1.focused = s.focused
       /\ s1.visible = s.visible /\ s1.offscreen = s.offscreen
  BY <1>1, <1>8, <1>9 DEF State
<1>. HIDE DEF s1
<1>12. \A d \in Clients : Win(d) \in Windows BY WinTyped
<1>13. Homes(s1)
  <2>1. \A d \in Clients : Win(d) = w <=> d = c BY <1>6 DEF w
  <2>. HIDE DEF w
  <2>2. \A d \in Clients : s.registry[Win(d)] = i => d # c BY <1>1, NullNoWorkspace DEF w
  <2>3. ASSUME NEW j \in Workspaces, NEW d \in Clients
        PROVE  d \in Elems(s1.clients[j]) <=> s1.registry[Win(d)] = j
    <3>1. d \in Elems(s.clients[j]) <=> s.registry[Win(d)] = j BY DEF SoundBut, Homes
    <3>2. s.registry[Win(c)] \notin Workspaces BY NullNoWorkspace
    <3>3. CASE d = c BY <1>4, <1>10, <1>11, <1>12, <2>1, <3>1, <3>2, <3>3
    <3>4. CASE d # c BY <1>4, <1>10, <1>11, <1>12, <2>1, <3>1, <3>4
    <3>. QED BY <3>3, <3>4
  <2>. QED BY <1>4, <1>10, <1>11, <2>3 DEF SoundBut, Homes
<1>14. Actives(s1)
  <2>1. ASSUME NEW j \in Workspaces, s.active[j] # NULL
        PROVE  s1.registry[Win(s.active[j])] = j
    <3>1. s.active[j] \in Clients BY <1>1, <2>1, ActiveTyped DEF OptClient
    <3>2. s.registry[Win(s.active[j])] = j BY <2>1 DEF SoundBut, Actives
    <3>3. Win(s.active[j]) # w BY <3>2, NullNoWorkspace
    <3>. QED BY <1>10, <1>11, <1>12, <3>1, <3>2, <3>3
  <2>. QED BY <1>11, <2>1 DEF Actives
<1>15. Allocated(s1) BY <1>6, <1>10, <1>11, <1>12 DEF SoundBut, Allocated
<1>16. Doomed(s1) BY <1>1, <1>10, <1>11 DEF SoundBut, Doomed, Told
<1>17. GrabbedBut(s1, ws) /\ s1.hidden \subseteq s1.live BY <1>11 DEF SoundBut, GrabbedBut
<1>18. SoundBut(s1, ws) BY <1>1, <1>11, <1>13, <1>14, <1>15, <1>16, <1>17 DEF SoundBut
<1>19. SoundBut(s2, ws) /\ Quiet(s1, s2) BY <1>1, <1>18, ActiveTyped, ClientSetUnfocusedSound
<1>20. SameLists(s1, s2) BY <1>1, <1>11, ActiveTyped, ClientSetUnfocusedTyped
<1>21. s2 \in State BY <1>19 DEF SoundBut
<1>. HIDE DEF s2
<1>22. active \in [Workspaces -> OptClient] BY <1>21 DEF State, OptClient
<1>23. \A j \in Workspaces : active[j] = IF j = i THEN c ELSE s2.active[j] BY <1>21 DEF State
<1>. HIDE DEF active
<1>24. /\ t \in State /\ Quiet(s2, t) /\ t.focused = s2.focused /\ t.grabs = s2.grabs
       /\ t.clients = s2.clients /\ t.active = active
  BY <1>21, <1>22 DEF State, Quiet
<1>25. WorkspaceAddClient(s, i, c) = t BY <1>7, <1>21 DEF State, active
<1>. HIDE DEF t
<1>26. Once(s2.clients[i]) BY <1>19 DEF SoundBut, Homes
<1>27. s2.clients = [s2.clients EXCEPT ![i] = s2.clients[i]] BY <1>21 DEF State
<1>28. c # NULL /\ s2.registry[Win(c)] = i
  BY <1>1, <1>10, <1>11, <1>20, ConstantsAssumption DEF SameLists, Clients, w
<1>29. \A j \in Workspaces : \/ t.active[j] = s2.active[j]
                             \/ t.active[j] # NULL /\ s2.registry[Win(t.active[j])] = j
  BY <1>23, <1>24, <1>28
<1>30. SoundBut(t, ws) BY <1>19, <1>24, <1>26, <1>27, <1>29, MovedSound
<1>. QED BY <1>11, <1>19, <1>24, <1>25, <1>30 DEF Quiet, registry, w

\* Taking a client from its list and from the map; active_client may be lost,
\* and an event about its window, which is being handled.
LEMMA RemovedSound ==
  ASSUME NEW s, Sound(s), NEW i \in Workspaces, NEW c \in Clients, s.registry[Win(c)] = i,
         NEW t \in State, SameFlags(s, t),
         t.clients = [s.clients EXCEPT ![i] = Without(s.clients[i], FirstNode(s, i, Win(c)))],
         t.registry = [s.registry EXCEPT ![Win(c)] = NULL],
         \A j \in Workspaces : t.active[j] # NULL => t.active[j] = s.active[j],
         t.active[i] # c,
         t.live = s.live, t.win = s.win, t.grabs = s.grabs,
         \A v \in Windows : v # Win(c) /\ Told(s, v) => Told(t, v)
  PROVE  Sound(t)
<1>. DEFINE w == Win(c)
            k == FirstNode(s, i, w)
            q == Without(s.clients[i], k)
<1>1. s \in State /\ SoundBut(s, {}) /\ Remaps = 0 /\ w \in Windows
  BY WinTyped DEF Sound, SoundBut
<1>2. k \in 1 .. Len(s.clients[i]) /\ s.clients[i][k] = c BY <1>1, NodeOf
<1>3. s.clients[i] \in Seq(Clients) /\ Once(s.clients[i])
  BY <1>1, ListTyped DEF SoundBut, Homes
<1>4. Once(q) /\ Elems(q) = Elems(s.clients[i]) \ {c} BY <1>2, <1>3, WithoutOnce
<1>5. \A j \in Workspaces : t.clients[j] = IF j = i THEN q ELSE s.clients[j]
  BY <1>1 DEF State
<1>6. \A v \in Windows : t.registry[v] = IF v = w THEN NULL ELSE s.registry[v]
  BY <1>1 DEF State
<1>7. \A d \in Clients : Win(d) \in Windows /\ (Win(d) = w <=> d = c)
  BY <1>1, WinTyped, OneClient
<1>. HIDE DEF q, k
<1>8. Homes(t)
  <2>1. ASSUME NEW j \in Workspaces, NEW d \in Clients
        PROVE  d \in Elems(t.clients[j]) <=> t.registry[Win(d)] = j
    <3>1. d \in Elems(s.clients[j]) <=> s.registry[Win(d)] = j BY <1>1 DEF SoundBut, Homes
    <3>2. CASE d = c
      <4>1. d \notin Elems(t.clients[j]) BY <1>4, <1>5, <3>1, <3>2
      <4>2. t.registry[Win(d)] = NULL BY <1>6, <1>7, <3>2
      <4>. QED BY <4>1, <4>2, NullNoWorkspace
    <3>3. CASE d # c
      <4>1. d \in Elems(t.clients[j]) <=> d \in Elems(s.clients[j]) BY <1>4, <1>5, <3>3
      <4>2. t.registry[Win(d)] = s.registry[Win(d)] BY <1>6, <1>7, <3>3
      <4>. QED BY <3>1, <4>1, <4>2
    <3>. QED BY <3>2, <3>3
  <2>. QED BY <1>1, <1>4, <1>5, <2>1 DEF SoundBut, Homes
<1>9. Actives(t)
  <2>. SUFFICES ASSUME NEW j \in Workspaces, t.active[j] # NULL
                PROVE  t.registry[Win(t.active[j])] = j
    BY DEF Actives
  <2>1. t.active[j] = s.active[j] /\ t.active[j] \in Clients
    BY ActiveTyped DEF OptClient
  <2>2. s.registry[Win(t.active[j])] = j BY <1>1, <2>1 DEF SoundBut, Actives
  <2>3. t.active[j] # c BY <2>2
  <2>. QED BY <1>6, <1>7, <2>1, <2>2, <2>3
<1>10. Allocated(t) BY <1>1, <1>6, <1>7 DEF SoundBut, Allocated
<1>11. Doomed(t) BY <1>1, <1>6 DEF SoundBut, Doomed
<1>12. GrabbedBut(t, {}) /\ t.hidden \subseteq t.live
  BY <1>1 DEF SoundBut, GrabbedBut, SameFlags
<1>. QED BY <1>1, <1>8, <1>9, <1>10, <1>11, <1>12 DEF Sound, SoundBut

\* s is like the sound state o, but that an event about window w is being
\* handled and is no longer in the queue.
Handling(o, s, w) ==
  /\ s \in State /\ SameLists(o, s) /\ SameFlags(o, s) /\ SameFocus(o, s)
  /\ s.win = o.win /\ s.grabs = o.grabs
  /\ \A v \in Windows : v # w /\ Told(o, v) => Told(s, v)

\* s and u, in which c is off its list and the map, and not active.
Removed(s, u, i, c) ==
  /\ u.registry = [s.registry EXCEPT ![Win(c)] = NULL]
  /\ u.hidden = s.hidden /\ u.win = s.win
  /\ SameFocus(s, u) /\ SameInput(s, u)
  /\ \A j \in Workspaces :
       u.active[j] = IF j = i /\ s.active[i] = c THEN NULL ELSE s.active[j]

\* Its workspace turns the focus, if it was the active one.
Left(s, t, i, c) ==
  \E u : /\ Sound(u) /\ Removed(s, u, i, c)
         /\ t = IF s.active[i] = c THEN WorkspaceResetFocus(u, i) ELSE u

\* workspace_remove_client.
LEMMA WorkspaceRemoveClientSound ==
  ASSUME NEW o, Sound(o), Focused(o), NEW i \in Workspaces, NEW c \in Clients,
         o.registry[Win(c)] = i, NEW s, Handling(o, s, Win(c))
  PROVE  LET t == WorkspaceRemoveClient(s, i, c)
         IN  /\ Sound(t) /\ t.activeIndex = s.activeIndex
             /\ t.registry = [s.registry EXCEPT ![Win(c)] = NULL]
             /\ t.live = s.live /\ t.hidden = s.hidden /\ t.win = s.win /\ t.queue = s.queue
             /\ t.shows = s.shows /\ t.visible = s.visible /\ t.offscreen = s.offscreen
             /\ Left(s, t, i, c)
<1>. DEFINE k == FirstNode(s, i, Win(c))
            clients  == [s.clients EXCEPT ![i] = Without(s.clients[i], k)]
            registry == [s.registry EXCEPT ![Win(c)] = NULL]
            s1 == [s EXCEPT !.clients = clients, !.registry = registry]
            active == [s1.active EXCEPT ![i] = NULL]
            s2 == [s1 EXCEPT !.active = active]
            r  == WorkspaceResetFocus(s2, i)
            t  == WorkspaceRemoveClient(s, i, c)
            Kept(u) == /\ u \in State /\ SameFlags(s, u) /\ SameFocus(s, u) /\ SameScreens(s, u)
                       /\ u.clients = clients /\ u.registry = registry
                       /\ u.live = s.live /\ u.win = s.win /\ u.queue = s.queue
                       /\ u.grabs = s.grabs /\ SameInput(s, u)
<1>0. s \in State /\ SameLists(o, s) /\ SameFlags(o, s) /\ SameFocus(o, s) BY DEF Handling
<1>1. SoundBut(o, {}) BY DEF Sound
<1>2. Nodes(s, i, Win(c)) # {} /\ k \in 1 .. Len(s.clients[i])
  <2>1. Nodes(o, i, Win(c)) # {} BY <1>1, NodeOf
  <2>2. Nodes(s, i, Win(c)) = Nodes(o, i, Win(c)) BY <1>0 DEF SameLists, Nodes
  <2>. QED BY <1>0, <2>1, <2>2, FirstNodeTyped
<1>3. clients \in [Workspaces -> Seq(Clients)]
  <2>1. Without(s.clients[i], k) \in Seq(Clients) BY <1>0, <1>2, ListTyped, WithoutTyped
  <2>. QED BY <1>0, <2>1 DEF State
<1>4. registry \in [Windows -> OptWorkspace] BY <1>0, WinTyped DEF State, OptWorkspace
<1>5. t = IF s.active[i] # c THEN s1 ELSE WorkspaceResetFocus([s1 EXCEPT !.active[i] = NULL], i)
  BY <1>0, <1>2 DEF WorkspaceRemoveClient, State
<1>. HIDE DEF t, clients, registry
<1>6. Kept(s1) /\ s1.active = s.active
  BY <1>0, <1>3, <1>4 DEF State, SameFlags, SameFocus, SameScreens, SameInput
<1>. HIDE DEF s1
<1>7. active \in [Workspaces -> OptClient] BY <1>6 DEF State, OptClient
<1>8. [s1 EXCEPT !.active[i] = NULL] = s2 BY <1>6 DEF State
<1>9. \A j \in Workspaces : active[j] = IF j = i THEN NULL ELSE s1.active[j] BY <1>6 DEF State
<1>. HIDE DEF active
<1>10. Kept(s2) /\ s2.active = active
  BY <1>6, <1>7 DEF State, SameFlags, SameFocus, SameScreens, SameInput
<1>. HIDE DEF s2
<1>11. c # NULL BY ConstantsAssumption DEF Clients
<1>12. ASSUME NEW u, Kept(u) PROVE \A v \in Windows : v # Win(c) /\ Told(o, v) => Told(u, v)
  BY <1>12 DEF Handling, Told
<1>13. /\ clients = [o.clients EXCEPT
                      ![i] = Without(o.clients[i], FirstNode(o, i, Win(c)))]
       /\ registry = [o.registry EXCEPT ![Win(c)] = NULL]
  BY <1>0 DEF SameLists, FirstNode, Nodes, clients, registry
<1>14. ASSUME NEW u, Kept(u), u.active[i] # c,
              \A j \in Workspaces : u.active[j] # NULL => u.active[j] = s.active[j]
       PROVE  Sound(u)
  <2>1. /\ SameFlags(o, u) /\ u.live = o.live /\ u.win = o.win /\ u.grabs = o.grabs
        /\ \A j \in Workspaces : u.active[j] # NULL => u.active[j] = o.active[j]
    BY <1>14 DEF Handling, SameFlags, SameLists
  <2>. QED BY <1>12, <1>13, <1>14, <2>1, RemovedSound
<1>15. CASE s.active[i] # c
  <2>1. s1.active[i] # c /\ \A j \in Workspaces : s1.active[j] # NULL => s1.active[j] = s.active[j]
    BY <1>6, <1>15
  <2>2. Sound(s1) BY <1>6, <1>14, <2>1
  <2>3. Removed(s, s1, i, c)
    BY <1>6, <1>15 DEF Removed, SameFlags, registry
  <2>4. t = s1 BY <1>5, <1>15
  <2>5. Left(s, t, i, c) BY <1>15, <2>2, <2>3, <2>4 DEF Left
  <2>. QED BY <1>6, <2>2, <2>4, <2>5 DEF SameFlags, SameFocus, SameScreens, t, registry
<1>16. CASE s.active[i] = c
  <2>1. s2.active[i] # c /\ \A j \in Workspaces : s2.active[j] # NULL => s2.active[j] = s.active[j]
    BY <1>6, <1>9, <1>10, <1>11
  <2>2. Sound(s2) BY <1>10, <1>14, <2>1
  <2>3. Focused(s2) BY <1>0, <1>10 DEF Focused, SameFocus
  <2>4. Sound(r) /\ Quiet(s2, r) /\ r.activeIndex = s2.activeIndex
    BY <2>2, <2>3, WorkspaceResetFocusSound
  <2>5. t = WorkspaceResetFocus(s2, i) BY <1>5, <1>8, <1>16
  <2>6. Removed(s, s2, i, c)
    BY <1>6, <1>9, <1>10, <1>16 DEF Removed, SameFlags, registry
  <2>7. Left(s, t, i, c) BY <1>16, <2>2, <2>5, <2>6 DEF Left
  <2>8. t = r BY <2>5
  <2>9. r.shows = s2.shows BY <1>10, <2>3, WorkspaceResetFocusTyped DEF Refocused, SameScreens
  <2>. HIDE DEF r
  <2>. QED BY <1>10, <2>4, <2>7, <2>8, <2>9 DEF SameFlags, SameFocus, SameScreens, Quiet, t, registry
<1>. QED BY <1>15, <1>16

\* client_destroy, of a client on no list.
LEMMA ClientDestroySound ==
  ASSUME NEW s, Sound(s), NEW c \in Clients, s.registry[Win(c)] = NULL
  PROVE  LET t == ClientDestroy(s, c)
         IN  /\ Sound(t) /\ t.registry = s.registry /\ t.activeIndex = s.activeIndex
             /\ t.win = s.win /\ t.queue = s.queue /\ t.shows = s.shows
<1>. DEFINE t == ClientDestroy(s, c)
<1>1. s \in State BY DEF Sound, SoundBut
<1>2. /\ t \in State /\ t.registry = s.registry /\ t.clients = s.clients /\ t.active = s.active
      /\ t.win = s.win /\ t.queue = s.queue /\ t.grabs = s.grabs /\ t.activeIndex = s.activeIndex
      /\ t.live = s.live \ {c} /\ t.focused = s.focused \ {c} /\ t.hidden = s.hidden \ {c}
      /\ t.shows = s.shows
  BY <1>1 DEF ClientDestroy, State
<1>. HIDE DEF t
<1>3. Homes(t) /\ Actives(t) /\ Doomed(t) /\ t.hidden \subseteq t.live
  BY <1>2 DEF Sound, SoundBut, Homes, Actives, Doomed, Told
<1>4. Allocated(t) /\ GrabbedBut(t, {}) BY <1>2 DEF Sound, SoundBut, Allocated, GrabbedBut
<1>5. Sound(t) BY <1>2, <1>3, <1>4 DEF Sound, SoundBut
<1>. QED BY <1>2, <1>5 DEF t

-----------------------------------------------------------------------------
(* The handlers.  A handler keeps what is sound, and takes a step module      *)
(* Desktop allows.                                                            *)

\* One window is put on a workspace, or on none.
Put(s, t, w, i) ==
  /\ t.registry = [s.registry EXCEPT ![w] = i]
  /\ t.shows = s.shows /\ t.activeIndex = s.activeIndex

\* The focus stays where it is or turns to a workspace on a monitor.
Turned(s, t) ==
  /\ t.registry = s.registry /\ t.shows = s.shows
  /\ t.activeIndex # s.activeIndex => MonitorsOf(s, t.activeIndex) # {}

Switched(s, t) ==
  /\ t.registry = s.registry /\ t.activeIndex # s.activeIndex
  /\ \A m \in Monitors :
       t.shows[m] = IF s.shows[m] = s.activeIndex THEN t.activeIndex
                    ELSE IF s.shows[m] = t.activeIndex THEN s.activeIndex
                    ELSE s.shows[m]

Promised(s, t) ==
  \/ Turned(s, t) \/ Switched(s, t)
  \/ \E w \in Windows : \/ s.registry[w] = NULL /\ Put(s, t, w, s.activeIndex)
                        \/ Put(s, t, w, NULL)
                        \/ \E i \in Workspaces : /\ s.registry[w] # NULL
                                                 /\ i # s.activeIndex
                                                 /\ Put(s, t, w, i)

\* workspace_list_send_to_workspace.
LEMMA SendToWorkspaceSound ==
  ASSUME NEW s, Sound(s), Good(s), NEW c \in Clients, NEW j \in Workspaces
  PROVE  LET t == SendToWorkspace(s, c, j)
         IN  Sound(t) /\ Promised(s, t)
<1>. DEFINE w  == Win(c)
            i  == s.registry[w]
            s1 == ClientHide(s, c)
            r  == WorkspaceRemoveClient(s1, i, c)
            s2 == WorkspaceAddClient(r, j, c)
            s3 == IF j \in s2.visible /\ MonitorsOf(s2, j) # {} THEN ClientShow(s2, c) ELSE s2
<1>1. SendToWorkspace(s, c, j)
        = IF j \in s.wsFocused \/ i = NULL THEN s
          ELSE IF Nodes(s1, i, w) = {} THEN s1 ELSE s3
  BY Zenon DEF SendToWorkspace
<1>2. s \in State /\ Focused(s) /\ w \in Windows BY WinTyped DEF Good
<1>3. Sound(s1) /\ Steady(s, s1) BY ClientHideSound
<1>4. SameScreens(s, s1) /\ SameFocus(s, s1) BY <1>2, ClientHideTyped
<1>. HIDE DEF s1, w
<1>5. ASSUME j \notin s.wsFocused, i # NULL
      PROVE  Sound(s3) /\ Put(s, s3, w, j) /\ j # s.activeIndex
  <2>1. i \in Workspaces BY <1>2, <1>5 DEF State, OptWorkspace
  <2>2. s1.registry[w] = i BY <1>3 DEF Steady, Lasting
  <2>3. s1 \in State /\ Focused(s1)
    BY <1>2, <1>3, <1>4 DEF Sound, SoundBut, Focused, SameFocus
  <2>4. Handling(s1, s1, w) BY <2>3 DEF Handling, SameLists, SameFlags, SameFocus
  <2>. HIDE DEF i
  <2>5. /\ Sound(r) /\ r.activeIndex = s1.activeIndex
        /\ r.registry = [s1.registry EXCEPT ![w] = NULL]
        /\ r.live = s1.live /\ r.win = s1.win /\ r.queue = s1.queue /\ r.shows = s1.shows
    BY <1>3, <2>1, <2>2, <2>3, <2>4, WorkspaceRemoveClientSound DEF w
  <2>. HIDE DEF r
  <2>6. r \in State /\ SoundBut(r, {}) BY <2>5 DEF Sound, SoundBut
  <2>7. r.registry[w] = NULL BY <1>2, <2>3, <2>5 DEF State
  <2>8. i # NULL BY <2>1, NullNoWorkspace
  <2>9. c \in r.live BY <1>3, <2>2, <2>5, <2>8 DEF Sound, SoundBut, Allocated, w
  <2>10. r.win[w] = "gone" => Told(r, w)
    BY <1>2, <1>3, <2>2, <2>5, <2>8 DEF Sound, SoundBut, Doomed, Told
  <2>11. SoundBut(s2, {}) /\ s2.registry = [r.registry EXCEPT ![w] = j]
    BY <2>6, <2>7, <2>9, <2>10, WorkspaceAddClientSound DEF w
  <2>12. s2 \in State /\ SameScreens(r, s2) /\ SameFocus(r, s2)
    BY <2>6, WorkspaceAddClientTyped
  <2>. HIDE DEF s2
  <2>13. s2.registry = [s.registry EXCEPT ![w] = j]
    BY <1>2, <1>3, <2>5, <2>11 DEF State, Steady, Lasting
  <2>14. Put(s, s2, w, j) BY <1>4, <2>5, <2>12, <2>13 DEF Put, SameScreens, SameFocus
  <2>15. CASE s3 = ClientShow(s2, c)
    <3>1. Sound(s3) /\ Steady(s2, s3) BY <2>11, <2>15, ClientShowSound DEF Sound
    <3>2. SameScreens(s2, s3) /\ SameFocus(s2, s3) BY <2>12, <2>15, ClientShowTyped
    <3>. HIDE DEF s3
    <3>. QED BY <1>2, <1>5, <2>14, <3>1, <3>2
         DEF Put, Steady, Lasting, SameScreens, SameFocus, Focused
  <2>16. CASE s3 = s2 BY <1>2, <1>5, <2>11, <2>14, <2>16 DEF Sound, Focused
  <2>. QED BY <2>15, <2>16
<1>6. Turned(s, s) BY DEF Turned
<1>7. Turned(s, s1) BY <1>3, <1>4 DEF Turned, Steady, Lasting, SameScreens, SameFocus
<1>. HIDE DEF s3
<1>8. CASE j \in s.wsFocused \/ i = NULL BY <1>1, <1>6, <1>8 DEF Promised
<1>9. CASE ~(j \in s.wsFocused \/ i = NULL)
  <2>1. Sound(s3) /\ Promised(s, s3) BY <1>2, <1>5, <1>9 DEF Promised
  <2>. QED BY <1>1, <1>3, <1>7, <1>9, <2>1 DEF Promised
<1>. QED BY <1>8, <1>9

\* client_register_window, of a window that has no client yet.
LEMMA RegisterWindowSound ==
  ASSUME NEW s, Sound(s), Good(s), NEW w \in Windows, s.win[w] # "gone",
         NEW c \in Clients, Win(c) = w, c \notin s.live
  PROVE  LET t == RegisterWindow(s, w, c)
         IN  Sound(t) /\ Promised(s, t)
<1>. DEFINE i  == s.activeIndex
            s0 == [s EXCEPT !.live = @ \cup {c}]
            s1 == XMap(s0, w)
            s2 == WorkspaceAddClient(s1, i, c)
            t  == ClientSetFocused(s2, c)
<1>1. RegisterWindow(s, w, c) = IF MonitorsOf(s, i) = {} THEN s ELSE t
  BY Zenon DEF RegisterWindow
<1>2. s \in State /\ Focused(s) /\ Remaps = 0 BY DEF Good, Sound, SoundBut
<1>3. i \in Workspaces BY <1>2 DEF State
<1>4. s.registry[w] = NULL BY DEF Sound, SoundBut, Allocated
<1>5. c \notin s.hidden BY DEF Sound, SoundBut
<1>6. /\ s0 \in State /\ SameScreens(s, s0) /\ SameFocus(s, s0) /\ SameFlags(s, s0)
      /\ s0.clients = s.clients /\ s0.active = s.active /\ s0.registry = s.registry
      /\ s0.live = s.live \cup {c} /\ s0.win = s.win /\ s0.queue = s.queue
      /\ s0.grabs = s.grabs
  BY <1>2 DEF State, SameScreens, SameFocus, SameFlags
<1>. HIDE DEF s0, i
<1>7. SoundBut(s0, {w})
  <2>1. Homes(s0) /\ Actives(s0) /\ Doomed(s0)
    BY <1>6 DEF Sound, SoundBut, Homes, Actives, Doomed, Told
  <2>2. Allocated(s0) /\ s0.hidden \subseteq s0.live
    BY <1>6 DEF Sound, SoundBut, Allocated, SameFlags
  <2>3. GrabbedBut(s0, {w}) BY <1>6 DEF Sound, SoundBut, GrabbedBut, SameFlags
  <2>. QED BY <1>2, <1>6, <2>1, <2>2, <2>3 DEF SoundBut
<1>8. XOnly(s0, s1) BY <1>6, XMapTyped
<1>9. Steady(s0, s1) /\ s1.grabs = s0.grabs /\ s1.focused = s0.focused BY <1>6, XMapSteady
<1>. HIDE DEF s1
<1>10. GrabbedBut(s1, {w}) BY <1>6, <1>7, <1>9, SameGrabs DEF SoundBut
<1>11. SoundBut(s1, {w}) BY <1>7, <1>8, <1>9, <1>10, SteadySound DEF XOnly
<1>12. s1.registry[w] = NULL /\ c \in s1.live /\ s1.win[w] # "gone" /\ c \notin s1.hidden
  BY <1>4, <1>5, <1>6, <1>9 DEF Steady, Lasting, SameFlags
<1>13. /\ SoundBut(s2, {w}) /\ s2.registry = [s1.registry EXCEPT ![w] = i]
       /\ s2.hidden = s1.hidden
  BY <1>3, <1>11, <1>12, WorkspaceAddClientSound
<1>14. s2 \in State /\ SameScreens(s1, s2) /\ SameFocus(s1, s2)
  BY <1>3, <1>8, WorkspaceAddClientTyped DEF XOnly
<1>. HIDE DEF s2
<1>15. Focused(s2) BY <1>2, <1>6, <1>8, <1>14 DEF XOnly, Focused, SameFocus
<1>16. s2.registry = [s.registry EXCEPT ![w] = i] BY <1>6, <1>9, <1>13 DEF Steady, Lasting
<1>17. s2.registry[w] = i /\ i # NULL BY <1>2, <1>3, <1>16, NullNoWorkspace DEF State
<1>18. c \notin s2.hidden /\ {w} \subseteq {Win(c)} BY <1>12, <1>13
<1>19. Sound(t) /\ Quiet(s2, t) /\ t.activeIndex = i
  <2>1. SoundBut(s2, {w}) /\ s2.registry[Win(c)] = i BY <1>13, <1>17
  <2>2. s2.registry[Win(c)] # NULL BY <1>17
  <2>3. Sound(t) /\ Quiet(s2, t) /\ t.activeIndex = s2.registry[Win(c)]
    BY <1>15, <1>18, <2>1, <2>2, ClientSetFocusedSound
  <2>. QED BY <2>1, <2>3
<1>20. t.shows = s2.shows
  BY <1>14, <1>15, ClientSetFocusedTyped DEF OptClient, Refocused, SameScreens
<1>. HIDE DEF t
<1>21. Put(s, t, w, s.activeIndex)
  <2>1. t.shows = s.shows BY <1>6, <1>8, <1>14, <1>20 DEF XOnly, SameScreens
  <2>2. t.registry = [s.registry EXCEPT ![w] = i] BY <1>16, <1>19 DEF Quiet
  <2>3. s.activeIndex = i BY DEF i
  <2>. QED BY <1>19, <2>1, <2>2, <2>3 DEF Put
<1>22. Promised(s, t) BY <1>4, <1>21 DEF Promised
<1>23. Promised(s, s) BY DEF Promised, Turned
<1>. QED BY <1>1, <1>19, <1>22, <1>23

\* The client found through client_map is there if and only if the window is
\* registered, and is one of this window.
LEMMA RegisteredClientFound ==
  ASSUME NEW s, Sound(s), NEW w \in Windows
  PROVE  LET c == RegisteredClient(s, w)
         IN  IF s.registry[w] = NULL THEN c = NULL
             ELSE /\ s.registry[w] \in Workspaces /\ c \in Clients /\ Win(c) = w
                  /\ c \in s.live /\ c # NULL
<1>. DEFINE i == s.registry[w]
            d == <<w, 0>>
<1>1. CASE i = NULL BY <1>1 DEF RegisteredClient
<1>2. CASE i # NULL
  <2>1. s \in State /\ SoundBut(s, {}) /\ Remaps = 0 BY DEF Sound, SoundBut
  <2>2. i \in Workspaces BY <1>2, <2>1 DEF State, OptWorkspace
  <2>3. d \in Clients /\ Win(d) = w BY <2>1, OneClient
  <2>. HIDE DEF d
  <2>4. Nodes(s, i, w) # {} /\ s.clients[i][FirstNode(s, i, w)] = d
    BY <2>1, <2>2, <2>3, NodeOf
  <2>5. RegisteredClient(s, w) = d BY <1>2, <2>4 DEF RegisteredClient, FindClient
  <2>6. d \in s.live /\ d # NULL
    BY <1>2, <2>3, ConstantsAssumption DEF Sound, SoundBut, Allocated, Clients
  <2>. QED BY <1>2, <2>2, <2>3, <2>5, <2>6
<1>. QED BY <1>1, <1>2

\* What keeps the map, the screens and the focused workspace is promised.
LEMMA SamePromised ==
  ASSUME NEW s, NEW t, t.registry = s.registry, t.shows = s.shows,
         t.activeIndex = s.activeIndex
  PROVE  Promised(s, t)
BY DEF Promised, Turned

\* client_handle_map_notify.
LEMMA HandleMapNotifySound ==
  ASSUME NEW s, Sound(s), NEW w \in Windows
  PROVE  LET t == HandleMapNotify(s, w) IN Sound(t) /\ Promised(s, t)
<1>. DEFINE c == RegisteredClient(s, w)
            t == [s EXCEPT !.offscreen = @ \ {c}]
<1>1. s \in State BY DEF Sound, SoundBut
<1>2. /\ t \in State /\ SameLists(s, t) /\ Silent(s, t) /\ t.grabs = s.grabs
      /\ t.focused = s.focused /\ t.shows = s.shows /\ t.activeIndex = s.activeIndex
  BY <1>1 DEF State, SameLists, Silent
<1>3. HandleMapNotify(s, w)
        = IF c \notin s.offscreen \/ s.registry[w] \notin s.visible THEN s ELSE t
  BY Zenon DEF HandleMapNotify
<1>. HIDE DEF t, c
<1>4. GrabbedBut(t, {}) BY <1>2 DEF Sound, SoundBut, GrabbedBut, SameLists, Silent
<1>5. Sound(t) BY <1>2, <1>4, SilentSound DEF Sound
<1>6. Promised(s, s) /\ Promised(s, t) BY <1>2, SamePromised DEF Silent
<1>. QED BY <1>3, <1>5, <1>6

\* client_unmap_window.
LEMMA HandleUnmapNotifySound ==
  ASSUME NEW s, Sound(s), Good(s), NEW w \in Windows
  PROVE  LET t == HandleUnmapNotify(s, w) IN Sound(t) /\ Promised(s, t)
<1>. DEFINE c  == RegisteredClient(s, w)
            i  == s.registry[w]
            u  == [s EXCEPT !.hidden = @ \cup {c}]
            s1 == IF c \in s.offscreen THEN s ELSE u
            r  == WorkspaceResetFocus(s1, i)
<1>1. HandleUnmapNotify(s, w)
        = IF c = NULL THEN s ELSE IF c \in s.focused THEN r ELSE s1
  BY Zenon DEF HandleUnmapNotify
<1>2. CASE c = NULL BY <1>1, <1>2, SamePromised
<1>3. CASE c # NULL
  <2>1. c \in s.live /\ i \in Workspaces BY <1>3, RegisteredClientFound
  <2>2. s \in State /\ Focused(s) BY DEF Good
  <2>. HIDE DEF c, i
  <2>3. /\ u \in State /\ SameLists(s, u) /\ SameFocus(s, u) /\ SameScreens(s, u)
        /\ u.hidden = s.hidden \cup {c} /\ u.win = s.win /\ u.queue = s.queue
        /\ u.grabs = s.grabs /\ u.focused = s.focused
    BY <2>1, <2>2 DEF State, SameLists, SameFocus, SameScreens
  <2>. HIDE DEF u
  <2>4. Homes(u) /\ Allocated(u) /\ Actives(u) /\ GrabbedBut(u, {}) /\ Doomed(u)
    BY <2>3 DEF Sound, SoundBut, Homes, Allocated, Actives, GrabbedBut, Doomed, Told, SameLists
  <2>5. Sound(u) BY <2>1, <2>3, <2>4 DEF Sound, SoundBut, SameLists
  <2>6. Sound(s1) /\ SameLists(s, s1) /\ SameFocus(s, s1) /\ SameScreens(s, s1)
    BY <2>3, <2>5 DEF SameLists, SameFocus, SameScreens
  <2>. HIDE DEF s1
  <2>7. s1 \in State /\ Focused(s1) BY <2>2, <2>6 DEF Sound, SoundBut, Focused, SameFocus
  <2>8. Sound(r) /\ Quiet(s1, r) /\ r.activeIndex = s1.activeIndex
    BY <2>1, <2>6, <2>7, WorkspaceResetFocusSound
  <2>9. r.shows = s1.shows
    BY <2>1, <2>7, WorkspaceResetFocusTyped DEF Refocused, SameScreens
  <2>. HIDE DEF r
  <2>10. Promised(s, r) /\ Promised(s, s1)
    BY <2>6, <2>8, <2>9, SamePromised DEF Quiet, SameLists, SameFocus, SameScreens
  <2>. QED BY <1>1, <1>3, <2>6, <2>8, <2>10
<1>. QED BY <1>2, <1>3

\* client_handle_destroy_notify; the event it handles was the last to tell of
\* the window.
LEMMA HandleDestroyNotifySound ==
  ASSUME NEW o, Sound(o), Good(o), NEW w \in Windows, NEW s, Handling(o, s, w), Good(s)
  PROVE  LET t == HandleDestroyNotify(s, w) IN Sound(t) /\ Promised(s, t)
<1>. DEFINE c == RegisteredClient(s, w)
            i == s.registry[w]
            a == s.activeIndex
            f == WorkspaceResetFocus(s, a)
            r == WorkspaceRemoveClient(s, i, c)
            t == ClientDestroy(r, c)
<1>1. HandleDestroyNotify(s, w) = IF i = NULL THEN f ELSE IF c = NULL THEN s ELSE t
  BY Zenon DEF HandleDestroyNotify
<1>2. s \in State /\ SameLists(o, s) /\ SameFlags(o, s) /\ SameFocus(o, s)
      /\ s.win = o.win /\ s.grabs = o.grabs
  BY DEF Handling
<1>3. CASE i = NULL
  <2>1. Doomed(s) BY <1>2, <1>3 DEF Sound, SoundBut, Doomed, Handling, SameLists
  <2>2. Homes(s) /\ Allocated(s) /\ Actives(s) /\ GrabbedBut(s, {})
    BY <1>2 DEF Sound, SoundBut, Homes, Allocated, Actives, GrabbedBut, SameLists, SameFlags
  <2>3. s.hidden \subseteq s.live BY <1>2 DEF Sound, SoundBut, SameLists, SameFlags
  <2>4. Sound(s) BY <1>2, <2>1, <2>2, <2>3 DEF Sound, SoundBut
  <2>5. Focused(s) /\ a \in Workspaces BY <1>2 DEF Good, State
  <2>6. Sound(f) /\ Quiet(s, f) /\ f.activeIndex = s.activeIndex
    BY <2>4, <2>5, WorkspaceResetFocusSound
  <2>7. f.shows = s.shows
    BY <1>2, <2>5, WorkspaceResetFocusTyped DEF Refocused, SameScreens
  <2>. HIDE DEF f
  <2>8. Promised(s, f) BY <2>6, <2>7, SamePromised DEF Quiet
  <2>. QED BY <1>1, <1>3, <2>6, <2>8
<1>4. CASE i # NULL
  <2>1. RegisteredClient(o, w) = c /\ o.registry[w] = i
    <3>1. o.registry[w] = i /\ o.clients = s.clients BY <1>2 DEF SameLists
    <3>2. Nodes(s, i, w) = Nodes(o, i, w) BY <3>1 DEF Nodes
    <3>3. FirstNode(s, i, w) = FirstNode(o, i, w) BY <3>2, Zenon DEF FirstNode
    <3>4. FindClient(s, i, w) = FindClient(o, i, w) BY <3>1, <3>2, <3>3 DEF FindClient
    <3>. QED BY <3>1, <3>4 DEF RegisteredClient
  <2>2. i \in Workspaces /\ c \in Clients /\ Win(c) = w /\ c # NULL
    BY <1>4, <2>1, RegisteredClientFound
  <2>. HIDE DEF c, i
  <2>3. Focused(o) BY DEF Good
  <2>4. /\ Sound(r) /\ r.activeIndex = s.activeIndex
        /\ r.registry = [s.registry EXCEPT ![w] = NULL] /\ r.shows = s.shows
    BY <2>1, <2>2, <2>3, WorkspaceRemoveClientSound
  <2>. HIDE DEF r
  <2>5. r.registry[Win(c)] = NULL BY <1>2, <2>2, <2>4 DEF State
  <2>6. Sound(t) /\ t.registry = r.registry /\ t.activeIndex = r.activeIndex /\ t.shows = r.shows
    BY <2>2, <2>4, <2>5, ClientDestroySound
  <2>. HIDE DEF t
  <2>7. Promised(s, t) BY <2>4, <2>6 DEF Promised, Put
  <2>. QED BY <1>1, <1>4, <2>2, <2>6, <2>7
<1>. QED BY <1>3, <1>4

\* client_handle_button_press.
LEMMA HandleButtonPressSound ==
  ASSUME NEW s, Sound(s), Good(s), NEW w \in Windows
  PROVE  LET t == HandleButtonPress(s, w) IN Sound(t) /\ Promised(s, t)
<1>. DEFINE c == RegisteredClient(s, w)
            i == s.registry[w]
            f == WorkspaceFocusClient(s, i, c)
            t == [f EXCEPT !.frozen = NULL]
<1>1. HandleButtonPress(s, w)
        = IF c = NULL \/ MonitorsOf(s, i) = {} \/ ~MayFocus(s, i, c) THEN s ELSE t
  BY Zenon DEF HandleButtonPress
<1>2. ASSUME c # NULL, MonitorsOf(s, i) # {} PROVE Sound(t) /\ Promised(s, t)
  <2>1. c \in Clients /\ i \in Workspaces BY <1>2, RegisteredClientFound
  <2>2. s \in State /\ Focused(s) BY DEF Good
  <2>. HIDE DEF c, i
  <2>3. Sound(f) /\ Quiet(s, f) /\ f.activeIndex \in {s.activeIndex, i}
    BY <2>1, <2>2, WorkspaceFocusClientSound
  <2>4. f.shows = s.shows
    BY <2>1, <2>2, WorkspaceFocusClientTyped DEF Refocused, SameScreens
  <2>. HIDE DEF f
  <2>5. NULL \in OptWindow /\ f \in State BY <2>3 DEF OptWindow, Sound, SoundBut
  <2>6. /\ t \in State /\ SameLists(f, t) /\ Quiet(f, t) /\ t.grabs = f.grabs
        /\ t.focused = f.focused /\ t.shows = f.shows /\ t.activeIndex = f.activeIndex
    BY <2>5 DEF State, SameLists, Quiet
  <2>. HIDE DEF t
  <2>7. GrabbedBut(t, {}) BY <2>3, <2>6 DEF Sound, SoundBut, GrabbedBut, SameLists, Quiet
  <2>8. Sound(t) BY <2>3, <2>6, <2>7, QuietSound DEF Sound
  <2>9. Turned(s, t) BY <1>2, <2>3, <2>4, <2>6 DEF Turned, Quiet
  <2>. QED BY <2>8, <2>9 DEF Promised
<1>3. Promised(s, s) BY SamePromised
<1>. HIDE DEF t, c, i
<1>. QED BY <1>1, <1>2, <1>3

\* client_configure_window.
LEMMA HandleConfigureRequestSound ==
  ASSUME NEW s, Sound(s), Good(s), NEW w \in Windows, NEW mode
  PROVE  LET t == HandleConfigureRequest(s, w, mode) IN Sound(t) /\ Promised(s, t)
<1>. DEFINE c == RegisteredClient(s, w)
            i == s.registry[w]
            f == WorkspaceFocusClient(s, i, c)
            u == WorkspaceUnfocusClient(s, i, c)
<1>1. HandleConfigureRequest(s, w, mode)
        = IF c = NULL \/ MonitorsOf(s, i) = {} THEN s ELSE IF mode = "raise" THEN f ELSE u
  BY Zenon DEF HandleConfigureRequest
<1>2. ASSUME c # NULL, MonitorsOf(s, i) # {}
      PROVE  Sound(f) /\ Promised(s, f) /\ Sound(u) /\ Promised(s, u)
  <2>1. c \in Clients /\ i \in Workspaces BY <1>2, RegisteredClientFound
  <2>2. s \in State /\ Focused(s) BY DEF Good
  <2>. HIDE DEF c, i
  <2>3. Sound(f) /\ Quiet(s, f) /\ f.activeIndex \in {s.activeIndex, i}
    BY <2>1, <2>2, WorkspaceFocusClientSound
  <2>4. Sound(u) /\ Quiet(s, u) /\ u.activeIndex \in {s.activeIndex, i}
    BY <2>1, <2>2, WorkspaceUnfocusClientSound
  <2>5. f.shows = s.shows /\ u.shows = s.shows
    BY <2>1, <2>2, WorkspaceFocusClientTyped, WorkspaceUnfocusClientTyped
    DEF Refocused, SameScreens
  <2>. HIDE DEF f, u
  <2>6. Turned(s, f) /\ Turned(s, u) BY <1>2, <2>3, <2>4, <2>5 DEF Turned, Quiet
  <2>. QED BY <2>3, <2>4, <2>6 DEF Promised
<1>3. Promised(s, s) BY SamePromised
<1>. HIDE DEF f, u, c, i
<1>. QED BY <1>1, <1>2, <1>3

\* client_focus_window, which may turn the focus to a workspace that is on no
\* monitor.
LEMMA HandleActiveWindowSound ==
  ASSUME NEW s, Sound(s), Good(s), NEW w \in Windows
  PROVE  Sound(HandleActiveWindow(s, w))
<1>. DEFINE c == FindListedClient(s, w)
<1>1. s \in State /\ Focused(s) BY DEF Good
<1>2. c \in OptClient BY <1>1, FindListedClientTyped
<1>3. HandleActiveWindow(s, w)
        = IF c = NULL THEN XFocus(s, w) ELSE IF c \in s.focused THEN s ELSE ClientSetFocused(s, c)
  BY Zenon DEF HandleActiveWindow
<1>. HIDE DEF c
<1>4. Sound(XFocus(s, w)) BY InputSound
<1>5. Sound(ClientSetFocused(s, c)) BY <1>1, <1>2, ClientSetFocusedKeeps
<1>. QED BY <1>3, <1>4, <1>5

\* client_send_window_to_workspace.
LEMMA HandleWmDesktopSound ==
  ASSUME NEW s, Sound(s), Good(s), NEW w \in Windows, NEW j
  PROVE  LET t == HandleWmDesktop(s, w, j) IN Sound(t) /\ Promised(s, t)
<1>. DEFINE c == FindListedClient(s, w)
<1>1. c # NULL => c \in Clients BY FindListedClientTyped DEF Good, OptClient
<1>2. HandleWmDesktop(s, w, j)
        = IF c = NULL \/ j \notin Workspaces THEN s ELSE SendToWorkspace(s, c, j)
  BY Zenon DEF HandleWmDesktop
<1>. HIDE DEF c
<1>3. c # NULL /\ j \in Workspaces =>
        Sound(SendToWorkspace(s, c, j)) /\ Promised(s, SendToWorkspace(s, c, j))
  BY <1>1, SendToWorkspaceSound
<1>4. Promised(s, s) BY SamePromised
<1>. QED BY <1>2, <1>3, <1>4

\* workspace_list_switch_to_workspace.
LEMMA HandleCurrentDesktopSound ==
  ASSUME NEW s, Sound(s), Good(s), NEW j
  PROVE  LET t == HandleCurrentDesktop(s, j) IN Sound(t) /\ Promised(s, t)
<1>. DEFINE t == WorkspaceChangeMonitor(s, j)
<1>1. Promised(s, s) BY SamePromised
<1>2. ASSUME j \in Workspaces, j \notin s.wsFocused PROVE Sound(t) /\ Promised(s, t)
  <2>1. Focused(s) /\ Agree(s) /\ j # s.activeIndex BY <1>2 DEF Good, Focused
  <2>2. \/ t = s
        \/ /\ Sound(t) /\ Lasting(s, t) /\ t.activeIndex = j
           /\ \A m \in Monitors :
                t.shows[m] = IF s.shows[m] = s.activeIndex THEN j
                             ELSE IF s.shows[m] = j THEN s.activeIndex
                             ELSE s.shows[m]
    BY <1>2, <2>1, WorkspaceChangeMonitorSound
  <2>. HIDE DEF t
  <2>3. CASE t = s BY <1>1, <2>3
  <2>4. CASE t # s
    <3>1. Switched(s, t) BY <2>1, <2>2, <2>4 DEF Switched, Lasting
    <3>. QED BY <2>2, <2>4, <3>1 DEF Promised
  <2>. QED BY <2>3, <2>4
<1>3. HandleCurrentDesktop(s, j) = IF j \notin Workspaces \/ j \in s.wsFocused THEN s ELSE t
  BY DEF HandleCurrentDesktop
<1>. HIDE DEF t
<1>. QED BY <1>1, <1>2, <1>3

-----------------------------------------------------------------------------
(* The specification *)

\* The next event is taken from the queue; what tells of other windows stays.
LEMMA TakeHead ==
  ASSUME NEW o, Sound(o), Good(o), o.queue # <<>>, NEW type, NEW w \in Windows,
         Head(o.queue) = Event(type, w)
  PROVE  LET s == [o EXCEPT !.queue = Tail(@)]
         IN  /\ Good(s) /\ Handling(o, s, w)
             /\ type # "DestroyNotify" \/ o.registry[w] = NULL => Sound(s)
             /\ s.registry = o.registry /\ s.shows = o.shows /\ s.activeIndex = o.activeIndex
<1>. DEFINE q == Tail(o.queue)
            s == [o EXCEPT !.queue = q]
<1>1. o \in State /\ o.queue \in Seq(Events) BY DEF Good, State
<1>2. Len(o.queue) \in Nat \ {0} /\ o.queue[1] = Event(type, w) BY <1>1
<1>3. q \in Seq(Events) /\ Len(q) = Len(o.queue) - 1
      /\ \A k \in 1 .. Len(o.queue) - 1 : q[k] = o.queue[k + 1]
  BY <1>1, HeadTailProperties
<1>. HIDE DEF q
<1>4. /\ s \in State /\ SameLists(o, s) /\ SameFlags(o, s) /\ SameFocus(o, s) /\ SameScreens(o, s)
      /\ s.win = o.win /\ s.grabs = o.grabs /\ s.queue = q
  BY <1>1, <1>3 DEF State, SameLists, SameFlags, SameFocus, SameScreens
<1>5. s = [o EXCEPT !.queue = Tail(@)] BY DEF q
<1>. HIDE DEF s
<1>6. ASSUME NEW v \in Windows, Told(o, v), v # w \/ type # "DestroyNotify" PROVE Told(s, v)
  <2>1. PICK k \in 1 .. Len(o.queue) : o.queue[k] = Event("DestroyNotify", v) BY <1>6 DEF Told
  <2>2. k # 1 BY <1>2, <1>6, <2>1 DEF Event
  <2>3. k - 1 \in 1 .. Len(q) /\ (k - 1) + 1 = k /\ k - 1 \in 1 .. Len(o.queue) - 1
    BY <1>2, <1>3, <2>1, <2>2
  <2>4. q[k - 1] = Event("DestroyNotify", v) BY <1>3, <2>1, <2>3
  <2>. QED BY <1>4, <2>3, <2>4 DEF Told
<1>7. Handling(o, s, w) BY <1>4, <1>6 DEF Handling
<1>8. Good(s) BY <1>4, Unchanged
<1>9. ASSUME type # "DestroyNotify" \/ o.registry[w] = NULL PROVE Sound(s)
  <2>1. Homes(s) /\ Allocated(s) /\ Actives(s) /\ GrabbedBut(s, {}) /\ s.hidden \subseteq s.live
    BY <1>4 DEF Sound, SoundBut, Homes, Allocated, Actives, GrabbedBut, SameLists, SameFlags
  <2>2. Doomed(s) BY <1>4, <1>6, <1>9 DEF Sound, SoundBut, Doomed, SameLists
  <2>. QED BY <1>4, <2>1, <2>2 DEF Sound, SoundBut
<1>. QED BY <1>4, <1>5, <1>7, <1>8, <1>9 DEF SameLists, SameScreens, SameFocus

\* What is promised of a step does not depend on the queue.
LEMMA PromisedFrom ==
  ASSUME NEW o, NEW s, s.registry = o.registry, s.shows = o.shows,
         s.activeIndex = o.activeIndex, NEW t, Promised(s, t)
  PROVE  Promised(o, t)
<1>1. Turned(s, t) => Turned(o, t) BY DEF Turned, MonitorsOf
<1>2. Switched(s, t) => Switched(o, t) BY DEF Switched
<1>3. \A w, i : Put(s, t, w, i) => Put(o, t, w, i) BY DEF Put
<1>. QED BY <1>1, <1>2, <1>3 DEF Promised

\* Each event.
LEMMA EventLoopSound ==
  ASSUME Sound(state), Good(state), EventLoop
  PROVE  Sound(state') /\ Promised(state, state')
<1>. DEFINE rest == [state EXCEPT !.queue = Tail(@)]
            Taken(type, w) == state.queue # <<>> /\ Head(state.queue) = Event(type, w)
            Same == /\ rest.registry = state.registry /\ rest.shows = state.shows
                    /\ rest.activeIndex = state.activeIndex
<1>1. ASSUME NEW type, NEW w \in Windows, Taken(type, w)
      PROVE  /\ Good(rest) /\ Handling(state, rest, w) /\ Same
             /\ type # "DestroyNotify" => Sound(rest)
  BY <1>1, TakeHead
<1>. HIDE DEF rest
<1>2. CASE MapNotify
  <2>1. PICK w \in Windows : Taken("MapNotify", w) /\ state' = HandleMapNotify(rest, w)
    BY <1>2, Zenon DEF MapNotify, Receive, rest
  <2>2. Good(rest) /\ Sound(rest) /\ Same BY <1>1, <2>1
  <2>3. Sound(state') /\ Promised(rest, state') BY <2>1, <2>2, HandleMapNotifySound
  <2>. QED BY <2>2, <2>3, PromisedFrom
<1>3. CASE UnmapNotify
  <2>1. PICK w \in Windows : Taken("UnmapNotify", w) /\ state' = HandleUnmapNotify(rest, w)
    BY <1>3, Zenon DEF UnmapNotify, Receive, rest
  <2>2. Good(rest) /\ Sound(rest) /\ Same BY <1>1, <2>1
  <2>3. Sound(state') /\ Promised(rest, state') BY <2>1, <2>2, HandleUnmapNotifySound
  <2>. QED BY <2>2, <2>3, PromisedFrom
<1>4. CASE DestroyNotify
  <2>1. PICK w \in Windows : Taken("DestroyNotify", w) /\ state' = HandleDestroyNotify(rest, w)
    BY <1>4, Zenon DEF DestroyNotify, Receive, rest
  <2>2. Good(rest) /\ Handling(state, rest, w) /\ Same BY <1>1, <2>1
  <2>3. Sound(state') /\ Promised(rest, state') BY <2>1, <2>2, HandleDestroyNotifySound
  <2>. QED BY <2>2, <2>3, PromisedFrom
<1>5. CASE ButtonPress
  <2>1. PICK w \in Windows : Taken("ButtonPress", w) /\ state' = HandleButtonPress(rest, w)
    BY <1>5, Zenon DEF ButtonPress, Receive, rest
  <2>2. Good(rest) /\ Sound(rest) /\ Same BY <1>1, <2>1
  <2>3. Sound(state') /\ Promised(rest, state') BY <2>1, <2>2, HandleButtonPressSound
  <2>. QED BY <2>2, <2>3, PromisedFrom
<1>. QED BY <1>2, <1>3, <1>4, <1>5 DEF EventLoop

\* What only happens at the server, to windows that stay.
LEMMA ServerSound ==
  ASSUME NEW s, Sound(s), NEW t, XOnly(s, t), Steady(s, t), t.grabs = s.grabs
  PROVE  Sound(t) /\ Promised(s, t)
<1>1. s \in State /\ t \in State /\ t.focused = s.focused
  BY DEF Sound, SoundBut, XOnly, SameFlags
<1>2. GrabbedBut(t, {}) BY <1>1, SameGrabs DEF Sound, SoundBut
<1>3. Sound(t) BY <1>1, <1>2, SteadySound DEF Sound
<1>4. Promised(s, t) BY SamePromised DEF XOnly, SameScreens, SameFocus, SameLists
<1>. QED BY <1>3, <1>4

\* A map request.
LEMMA MapRequestSound ==
  ASSUME Sound(state), Good(state), NEW w \in Windows, MapRequest(w)
  PROVE  Sound(state') /\ Promised(state, state')
<1>1. state \in State /\ state.win[w] # "gone" BY DEF Good, MapRequest
<1>2. CASE state' = XMap(state, w) BY <1>1, <1>2, XMapTyped, XMapSteady, ServerSound
<1>3. CASE \E n \in 0 .. Remaps : <<w, n>> \notin state.live
                                  /\ state' = RegisterWindow(state, w, <<w, n>>)
  <2>1. PICK n \in 0 .. Remaps : <<w, n>> \notin state.live
                                 /\ state' = RegisterWindow(state, w, <<w, n>>)
    BY <1>3
  <2>2. <<w, n>> \in Clients /\ Win(<<w, n>>) = w BY DEF Clients, Win
  <2>. QED BY <1>1, <2>1, <2>2, RegisterWindowSound
<1>. QED BY <1>2, <1>3 DEF MapRequest

\* Destroying a window: its event follows.
LEMMA DestroyWindowSound ==
  ASSUME Sound(state), Good(state), NEW w \in Windows, DestroyWindow(w)
  PROVE  Sound(state') /\ Promised(state, state')
<1>. DEFINE s     == XUnmap(state, w)
            win   == [s.win EXCEPT ![w] = "gone"]
            grabs == s.grabs \ {w}
            e     == Event("DestroyNotify", w)
            queue == Append(s.queue, e)
            t     == [s EXCEPT !.win = win, !.grabs = grabs, !.queue = queue]
<1>1. state \in State BY DEF Good
<1>2. XOnly(state, s) BY <1>1, XUnmapTyped
<1>3. Sound(s) BY <1>1, <1>2, XUnmapSteady, ServerSound
<1>4. state' = t BY <1>2 DEF DestroyWindow, XOnly, State
<1>. HIDE DEF s
<1>5. s \in State /\ s.queue \in Seq(Events) BY <1>2 DEF XOnly, State
<1>6. win \in [Windows -> WinStates] /\ grabs \in SUBSET Windows
  BY <1>5 DEF State, WinStates
<1>7. e \in Events BY EventTyped DEF EventTypes
<1>8. /\ queue \in Seq(Events) /\ queue = s.queue \o <<e>> /\ <<e>> \in Seq(Events)
      /\ Len(queue) = Len(s.queue) + 1 /\ queue[Len(s.queue) + 1] = e
  BY <1>5, <1>7, AppendProperties, AppendIsConcat
<1>9. \A v \in Windows : win[v] = IF v = w THEN "gone" ELSE s.win[v] BY <1>5 DEF State
<1>. HIDE DEF win, grabs, queue, e
<1>10. /\ t \in State /\ SameScreens(s, t) /\ SameFocus(s, t) /\ SameLists(s, t)
       /\ SameFlags(s, t) /\ t.win = win /\ t.grabs = grabs /\ t.queue = queue
  BY <1>5, <1>6, <1>8 DEF State, SameScreens, SameFocus, SameLists, SameFlags
<1>. HIDE DEF t
<1>11. \A v \in Windows : Told(s, v) => Told(t, v) BY <1>5, <1>8, <1>10, ToldStill
<1>12. Told(t, w)
  <2>1. Len(s.queue) + 1 \in 1 .. Len(t.queue) BY <1>5, <1>8, <1>10
  <2>. QED BY <1>8, <1>10, <2>1 DEF Told, e
<1>13. Doomed(t) BY <1>3, <1>9, <1>10, <1>11, <1>12 DEF Sound, SoundBut, Doomed, SameLists
<1>14. GrabbedBut(t, {})
  <2>1. \A c \in s.live : Win(c) \in Windows BY <1>5, WinTyped DEF State
  <2>. QED BY <1>3, <1>9, <1>10, <2>1 DEF Sound, SoundBut, GrabbedBut, SameLists, SameFlags, grabs
<1>15. Homes(t) /\ Allocated(t) /\ Actives(t) /\ t.hidden \subseteq t.live
  BY <1>3, <1>10 DEF Sound, SoundBut, Homes, Allocated, Actives, SameLists, SameFlags
<1>16. Sound(t) BY <1>3, <1>10, <1>13, <1>14, <1>15 DEF Sound, SoundBut
<1>17. Promised(state, t)
  BY <1>2, <1>10, SamePromised DEF XOnly, SameScreens, SameFocus, SameLists
<1>. QED BY <1>4, <1>16, <1>17

\* A click.
LEMMA ClickSound ==
  ASSUME Sound(state), Good(state), NEW w \in Windows, Click(w)
  PROVE  Sound(state') /\ Promised(state, state')
<1>. DEFINE e     == Event("ButtonPress", w)
            queue == Append(state.queue, e)
            t     == [state EXCEPT !.frozen = w, !.queue = queue]
<1>1. state \in State /\ state.queue \in Seq(Events) BY DEF Good, State
<1>2. e \in Events BY EventTyped DEF EventTypes
<1>3. queue \in Seq(Events) /\ queue = state.queue \o <<e>> /\ <<e>> \in Seq(Events)
  BY <1>1, <1>2, AppendProperties, AppendIsConcat
<1>4. w \in OptWindow BY DEF OptWindow
<1>5. state' = t BY <1>1 DEF Click, State
<1>. HIDE DEF queue, e
<1>6. XOnly(state, t) /\ t.win = state.win /\ t.grabs = state.grabs /\ t.queue = queue
  BY <1>1, <1>3, <1>4 DEF State, XOnly, SameScreens, SameFocus, SameLists, SameFlags
<1>. HIDE DEF t
<1>7. \A v \in Windows : Told(state, v) => Told(t, v) BY <1>1, <1>3, <1>6, ToldStill
<1>8. Steady(state, t) BY <1>6, <1>7 DEF XOnly, SameLists, SameFlags, Steady, Lasting
<1>. QED BY <1>5, <1>6, <1>8, ServerSound

\* The beginning: there are no clients.
LEMMA InitSound == Remaps = 0 /\ Init => Sound(state)
<1>. SUFFICES ASSUME Remaps = 0, Init PROVE Sound(state) OBVIOUS
<1>1. state \in State BY InitGood, IInvGood DEF Good
<1>2. /\ state.clients = [i \in Workspaces |-> <<>>]
      /\ state.active = [i \in Workspaces |-> NULL]
      /\ state.registry = [w \in Windows |-> NULL]
      /\ state.live = {} /\ state.hidden = {}
  BY DEF Init
<1>3. Homes(state)
  <2>1. \A c \in Clients : state.registry[Win(c)] = NULL BY <1>2, WinTyped
  <2>2. \A i \in Workspaces : Len(state.clients[i]) = 0 BY <1>2
  <2>. QED BY <2>1, <2>2, NullNoWorkspace DEF Homes, Once, Elems
<1>4. Allocated(state) BY <1>2, WinTyped DEF Allocated
<1>5. Actives(state) /\ GrabbedBut(state, {}) /\ Doomed(state)
  BY <1>2 DEF Actives, GrabbedBut, Doomed
<1>. QED BY <1>1, <1>2, <1>3, <1>4, <1>5 DEF Sound, SoundBut

\* A step of Natwm keeps what is sound; it is one Desktop allows unless another
\* program activates a window.
LEMMA NextSound ==
  ASSUME Sound(state), Good(state), [Next]_state
  PROVE  Sound(state') /\ ("activate" \notin Messages => Promised(state, state'))
<1>. DEFINE Goal == Sound(state') /\ ("activate" \notin Messages => Promised(state, state'))
<1>1. CASE EventLoop BY <1>1, EventLoopSound
<1>2. ASSUME NEW w \in Windows, MapRequest(w) PROVE Goal BY <1>2, MapRequestSound
<1>3. ASSUME NEW w \in Windows, Withdraw(w) PROVE Goal
  BY <1>3, XUnmapTyped, XUnmapSteady, ServerSound DEF Withdraw, Good
<1>4. ASSUME NEW w \in Windows, DestroyWindow(w) PROVE Goal BY <1>4, DestroyWindowSound
<1>5. ASSUME NEW w \in Windows, Click(w) PROVE Goal BY <1>5, ClickSound
<1>6. ASSUME NEW w \in Windows, ActiveWindow(w) PROVE Goal
  BY <1>6, HandleActiveWindowSound DEF ActiveWindow, EnvironmentMay
<1>7. ASSUME NEW w \in Windows, NEW mode, ConfigureRequest(w, mode) PROVE Goal
  BY <1>7, HandleConfigureRequestSound DEF ConfigureRequest
<1>8. ASSUME NEW w \in Windows, NEW j, WmDesktop(w, j) PROVE Goal
  BY <1>8, HandleWmDesktopSound DEF WmDesktop
<1>9. ASSUME NEW j, CurrentDesktop(j) PROVE Goal
  BY <1>9, HandleCurrentDesktopSound DEF CurrentDesktop
<1>10. CASE UNCHANGED state BY <1>10, SamePromised
<1>. HIDE DEF Goal
<1>11. CASE Next
  BY <1>1, <1>2, <1>3, <1>4, <1>5, <1>6, <1>7, <1>8, <1>9, <1>11, Zenon DEF Next, Goal
<1>. QED BY <1>10, <1>11 DEF Goal

\* The inductive invariant.
LInv == Remaps = 0 /\ IInv /\ Sound(state)

LEMMA ListsInductive == Remaps = 0 /\ Spec => []LInv
<1>1. Remaps = 0 /\ Init => LInv BY InitGood, InitSound DEF LInv
<1>2. LInv /\ [Next]_state => LInv'
  <2>. SUFFICES ASSUME LInv, [Next]_state PROVE LInv' OBVIOUS
  <2>1. Good(state) /\ IInv' BY IInvGood, NextGood DEF LInv
  <2>2. Sound(state') BY <2>1, NextSound DEF LInv
  <2>. QED BY <2>1, <2>2 DEF LInv
<1>. QED BY <1>1, <1>2, PTL DEF Spec

\* client_map and the lists of clients never disagree, for any number of
\* windows, workspaces and monitors: a window of the map is on the list of its
\* workspace, once, and on no other.
THEOREM ListsAgree == Remaps = 0 /\ Spec => []RegistryAgrees
<1>1. LInv => RegistryAgrees
  <2>. SUFFICES ASSUME LInv, NEW w \in Windows, NEW i \in Workspaces
                PROVE  IF state.registry[w] = i
                       THEN \E k \in 1 .. Len(state.clients[i]) :
                              Nodes(state, i, w) = {k} /\ state.clients[i][k] \in state.live
                       ELSE Nodes(state, i, w) = {}
    BY DEF RegistryAgrees
  <2>1. <<w, 0>> \in Clients /\ Win(<<w, 0>>) = w BY OneClient DEF LInv
  <2>2. SoundBut(state, {}) BY DEF LInv, Sound
  <2>3. CASE state.registry[w] = i
    <3>. DEFINE k == FirstNode(state, i, w)
    <3>1. k \in 1 .. Len(state.clients[i]) /\ Nodes(state, i, w) = {k}
      BY <2>1, <2>2, <2>3, NodeOf
    <3>. HIDE DEF k
    <3>2. state.clients[i][k] \in state.live BY <2>2, <3>1, ListedAt
    <3>. QED BY <2>3, <3>1, <3>2
  <2>4. CASE state.registry[w] # i BY <2>1, <2>2, <2>4, NodeOf
  <2>. QED BY <2>3, <2>4
<1>. QED BY <1>1, ListsInductive, PTL

\* active_client of a workspace is never a pointer to a client that was freed
\* or moved to another workspace.
THEOREM ActiveNeverDangles == Remaps = 0 /\ Spec => []ActiveOnList
<1>1. LInv => ActiveOnList
  <2>. SUFFICES ASSUME LInv, NEW i \in Workspaces, state.active[i] # NULL
                PROVE  state.active[i] \in Members(state, i) \cap state.live
    BY DEF ActiveOnList
  <2>. DEFINE c == state.active[i]
              k == FirstNode(state, i, Win(c))
  <2>1. SoundBut(state, {}) /\ state \in State BY DEF LInv, Sound, SoundBut
  <2>2. c \in Clients /\ state.registry[Win(c)] = i
    BY <2>1, ActiveTyped DEF SoundBut, Actives, OptClient
  <2>. HIDE DEF c
  <2>3. k \in 1 .. Len(state.clients[i]) /\ state.clients[i][k] = c BY <2>1, <2>2, NodeOf
  <2>. HIDE DEF k
  <2>4. c \in Members(state, i) /\ c \in state.live BY <2>1, <2>3, ListedAt DEF Members
  <2>. QED BY <2>4 DEF c
<1>. QED BY <1>1, ListsInductive, PTL

\* Exactly the clients that are not focused have the grab a click on them needs.
THEOREM GrabFollowsFocus == Remaps = 0 /\ Spec => []FocusGrab
<1>1. LInv => FocusGrab BY DEF LInv, Sound, SoundBut, GrabbedBut, FocusGrab
<1>. QED BY <1>1, ListsInductive, PTL

\* Nothing refers to a destroyed window whose events have been handled.
THEOREM DestroyedForgotten == Remaps = 0 /\ Spec => []Forgotten
<1>1. LInv => Forgotten
  <2>. SUFFICES ASSUME LInv, NEW w \in Windows, state.win[w] = "gone", Pending(w) = {}
                PROVE  /\ state.registry[w] = NULL
                       /\ \A i \in Workspaces :
                            /\ Nodes(state, i, w) = {}
                            /\ state.active[i] \notin {w} \X (0 .. Remaps)
    BY DEF Forgotten
  <2>1. SoundBut(state, {}) /\ state \in State BY DEF LInv, Sound, SoundBut
  <2>2. ~Told(state, w) BY DEF Told, Pending, Event
  <2>3. state.registry[w] = NULL BY <2>1, <2>2 DEF SoundBut, Doomed
  <2>4. <<w, 0>> \in Clients /\ Win(<<w, 0>>) = w BY OneClient DEF LInv
  <2>5. ASSUME NEW i \in Workspaces PROVE Nodes(state, i, w) = {}
    BY <2>1, <2>3, <2>4, NullNoWorkspace, NodeOf
  <2>6. ASSUME NEW i \in Workspaces, state.active[i] \in {w} \X (0 .. Remaps) PROVE FALSE
    <3>1. Win(state.active[i]) = w BY <2>6 DEF Win
    <3>2. state.active[i] # NULL BY <2>6, ConstantsAssumption
    <3>. QED BY <2>1, <2>3, <3>1, <3>2, NullNoWorkspace DEF SoundBut, Actives
  <2>. QED BY <2>3, <2>5, <2>6
<1>. QED BY <1>1, ListsInductive, PTL

-----------------------------------------------------------------------------
(* Module Desktop by itself *)

VARIABLE desk

Own == INSTANCE Desktop WITH current <- desk.current, shows <- desk.shows, home <- desk.home

\* No strengthening is needed: together they are inductive.
OwnInv == Own!TypeOK /\ Own!CurrentShown /\ Own!ShownOnce

\* The first monitor begins with the current workspace.
LEMMA OwnInit == Own!Init => OwnInv
<1>. SUFFICES ASSUME Own!Init PROVE OwnInv OBVIOUS
<1>1. 0 \in Own!Workspaces /\ 1 \in Own!Monitors
  BY ConstantsAssumption DEF Own!Workspaces, Own!Monitors
<1>2. desk.shows[1] = 0 BY <1>1, ConstantsAssumption DEF Own!Init, Own!Monitors
<1>3. Own!TypeOK BY <1>1, ConstantsAssumption DEF Own!Init, Own!TypeOK, Own!Workspaces, Own!Monitors
<1>4. Own!CurrentShown BY <1>1, <1>2 DEF Own!Init, Own!CurrentShown, Own!Shown
<1>5. Own!ShownOnce BY ConstantsAssumption DEF Own!Init, Own!ShownOnce, Own!Monitors
<1>. QED BY <1>3, <1>4, <1>5 DEF OwnInv

\* A switch brings the new workspace to the monitor of the old one, and the old
\* one to where the new one was.
LEMMA OwnSwitch ==
  ASSUME OwnInv, NEW i \in Own!Workspaces, Own!Switch(i)
  PROVE  OwnInv'
<1>1. NULL \notin Own!Workspaces BY ConstantsAssumption DEF Own!Workspaces
<1>2. Own!TypeOK' BY DEF OwnInv, Own!TypeOK, Own!Switch
<1>3. Own!CurrentShown' BY DEF OwnInv, Own!TypeOK, Own!CurrentShown, Own!Shown, Own!Switch
<1>4. Own!ShownOnce' BY <1>1 DEF OwnInv, Own!TypeOK, Own!ShownOnce, Own!Switch
<1>. QED BY <1>2, <1>3, <1>4 DEF OwnInv

\* Every step keeps the three.
LEMMA OwnNext == OwnInv /\ [Own!Next]_(Own!vars) => OwnInv'
<1>. SUFFICES ASSUME OwnInv, [Own!Next]_(Own!vars) PROVE OwnInv' OBVIOUS
<1>1. ASSUME NEW i \in Own!Workspaces, Own!Switch(i) PROVE OwnInv' BY <1>1, OwnSwitch
<1>2. ASSUME NEW i \in Own!Workspaces, Own!Turn(i) PROVE OwnInv'
  BY <1>2 DEF OwnInv, Own!TypeOK, Own!CurrentShown, Own!Shown, Own!ShownOnce, Own!Turn
<1>3. ASSUME NEW w \in Windows, Own!Manage(w) PROVE OwnInv'
  BY <1>3 DEF OwnInv, Own!TypeOK, Own!CurrentShown, Own!Shown, Own!ShownOnce, Own!Manage
<1>4. ASSUME NEW w \in Windows, Own!Forget(w) PROVE OwnInv'
  BY <1>4 DEF OwnInv, Own!TypeOK, Own!CurrentShown, Own!Shown, Own!ShownOnce, Own!Forget
<1>5. ASSUME NEW w \in Windows, NEW i \in Own!Workspaces, Own!Move(w, i) PROVE OwnInv'
  BY <1>5 DEF OwnInv, Own!TypeOK, Own!CurrentShown, Own!Shown, Own!ShownOnce, Own!Move
<1>6. CASE UNCHANGED Own!vars
  BY <1>6 DEF OwnInv, Own!TypeOK, Own!CurrentShown, Own!Shown, Own!ShownOnce, Own!vars
<1>. QED BY <1>1, <1>2, <1>3, <1>4, <1>5, <1>6 DEF Own!Next

\* The current workspace is on a monitor, however workspaces are switched and
\* turned to.
THEOREM AlwaysShown == Own!Spec => []Own!CurrentShown
<1>1. OwnInv => Own!CurrentShown BY DEF OwnInv
<1>. QED BY <1>1, OwnInit, OwnNext, PTL DEF Own!Spec

\* No workspace is ever on two monitors.
THEOREM NeverTwice == Own!Spec => []Own!ShownOnce
<1>1. OwnInv => Own!ShownOnce BY DEF OwnInv
<1>. QED BY <1>1, OwnInit, OwnNext, PTL DEF Own!Spec

-----------------------------------------------------------------------------
(* How natwm implements it *)

\* The first monitors begin with the first workspaces.
LEMMA InitDesktop == Init => D!Init
<1>. SUFFICES ASSUME Init PROVE D!Init OBVIOUS
<1>1. /\ state.activeIndex = 0
      /\ state.shows = [m \in Monitors |-> IF m - 1 \in Workspaces THEN m - 1 ELSE NULL]
      /\ state.registry = [w \in Windows |-> NULL]
  BY DEF Init
<1>2. D!Monitors = Monitors BY DEF D!Monitors, Monitors
<1>3. \A m \in Monitors : m - 1 \in Workspaces <=> m <= WorkspaceCount
  BY ConstantsAssumption DEF Monitors, Workspaces
<1>. QED BY <1>1, <1>2, <1>3 DEF D!Init

\* What is promised of a step is a step of Desktop.
LEMMA PromisedStep ==
  ASSUME state \in State, state' \in State, Promised(state, state')
  PROVE  [D!Next]_D!vars
<1>1. D!Monitors = Monitors /\ D!Workspaces = Workspaces
  BY DEF D!Monitors, Monitors, D!Workspaces, Workspaces
<1>2. state.shows \in [Monitors -> OptWorkspace] /\ state'.shows \in [Monitors -> OptWorkspace]
      /\ state'.activeIndex \in Workspaces
  BY DEF State
<1>3. ASSUME Turned(state, state') PROVE [D!Next]_D!vars
  <2>1. CASE state'.activeIndex = state.activeIndex BY <1>3, <2>1 DEF Turned, D!vars
  <2>2. CASE state'.activeIndex # state.activeIndex
    <3>1. D!Shown(state'.activeIndex)
      BY <1>1, <1>3, <2>2 DEF Turned, D!Shown, MonitorsOf
    <3>2. D!Turn(state'.activeIndex) BY <1>3, <3>1 DEF Turned, D!Turn
    <3>. QED BY <1>1, <1>2, <3>2 DEF D!Next
  <2>. QED BY <2>1, <2>2
<1>4. ASSUME Switched(state, state') PROVE [D!Next]_D!vars
  <2>1. state'.shows = [m \in Monitors |->
                          IF state.shows[m] = state.activeIndex THEN state'.activeIndex
                          ELSE IF state.shows[m] = state'.activeIndex THEN state.activeIndex
                          ELSE state.shows[m]]
    BY <1>2, <1>4 DEF Switched
  <2>2. D!Switch(state'.activeIndex) BY <1>1, <1>4, <2>1 DEF Switched, D!Switch
  <2>. QED BY <1>1, <1>2, <2>2 DEF D!Next
<1>5. ASSUME NEW w \in Windows, state.registry[w] = NULL, Put(state, state', w, state.activeIndex)
      PROVE  [D!Next]_D!vars
  <2>1. D!Manage(w) BY <1>5 DEF Put, D!Manage
  <2>. QED BY <2>1 DEF D!Next
<1>6. ASSUME NEW w \in Windows, Put(state, state', w, NULL) PROVE [D!Next]_D!vars
  <2>1. D!Forget(w) BY <1>6 DEF Put, D!Forget
  <2>. QED BY <2>1 DEF D!Next
<1>7. ASSUME NEW w \in Windows, NEW i \in Workspaces, state.registry[w] # NULL,
             i # state.activeIndex, Put(state, state', w, i)
      PROVE  [D!Next]_D!vars
  <2>1. D!Move(w, i) BY <1>7 DEF Put, D!Move
  <2>. QED BY <1>1, <2>1 DEF D!Next
<1>. QED BY <1>3, <1>4, <1>5, <1>6, <1>7 DEF Promised

\* If no other program activates windows, natwm keeps what Desktop promises
\* about workspaces, monitors and windows, whatever events are late.
THEOREM KeepsPromises ==
  Remaps = 0 /\ "activate" \notin Messages /\ Spec => ImplementsDesktop
<1>. SUFFICES ASSUME "activate" \notin Messages PROVE Remaps = 0 /\ Spec => ImplementsDesktop
  OBVIOUS
<1>1. LInv /\ [Next]_state => [D!Next]_D!vars
  <2>. SUFFICES ASSUME LInv, [Next]_state PROVE [D!Next]_D!vars OBVIOUS
  <2>1. Good(state) BY IInvGood DEF LInv
  <2>2. Sound(state') /\ Promised(state, state') BY <2>1, NextSound DEF LInv
  <2>3. state \in State /\ state' \in State BY <2>1, <2>2 DEF Good, Sound, SoundBut
  <2>. QED BY <2>2, <2>3, PromisedStep
<1>. QED BY <1>1, InitDesktop, ListsInductive, PTL DEF Spec, ImplementsDesktop, D!Spec

\* Then the focused workspace is always on a monitor.
THEOREM FocusOnScreen ==
  Remaps = 0 /\ "activate" \notin Messages /\ Spec => []FocusedWorkspaceShown
<1>. SUFFICES ASSUME "activate" \notin Messages
              PROVE  Remaps = 0 /\ Spec => []FocusedWorkspaceShown
  OBVIOUS
<1>1. Init => FocusedWorkspaceShown
  <2>. SUFFICES ASSUME Init PROVE FocusedWorkspaceShown OBVIOUS
  <2>1. 1 \in Monitors /\ 0 \in Workspaces BY ConstantsAssumption DEF Monitors, Workspaces
  <2>2. state.activeIndex = 0 /\ state.shows[1] = 0 BY <2>1 DEF Init
  <2>. QED BY <2>1, <2>2 DEF FocusedWorkspaceShown, MonitorsOf
<1>2. LInv /\ FocusedWorkspaceShown /\ [Next]_state => FocusedWorkspaceShown'
  <2>. SUFFICES ASSUME LInv, FocusedWorkspaceShown, [Next]_state PROVE FocusedWorkspaceShown'
    OBVIOUS
  <2>1. Promised(state, state') BY IInvGood, NextSound DEF LInv
  <2>2. PICK m \in Monitors : state.shows[m] = state.activeIndex
    BY DEF FocusedWorkspaceShown, MonitorsOf
  <2>3. CASE Turned(state, state')
    <3>1. MonitorsOf(state', state'.activeIndex) = MonitorsOf(state, state'.activeIndex)
      BY <2>3 DEF Turned, MonitorsOf
    <3>. QED BY <2>3, <3>1 DEF Turned, FocusedWorkspaceShown
  <2>4. CASE Switched(state, state')
    BY <2>2, <2>4 DEF Switched, FocusedWorkspaceShown, MonitorsOf
  <2>5. CASE \E w, i : Put(state, state', w, i)
    BY <2>2, <2>5 DEF Put, FocusedWorkspaceShown, MonitorsOf
  <2>. QED BY <2>1, <2>3, <2>4, <2>5 DEF Promised
<1>. QED BY <1>1, <1>2, ListsInductive, PTL DEF Spec

-----------------------------------------------------------------------------
(* Which windows are mapped.  The flag CLIENT_OFF_SCREEN is set when a switch *)
(* unmaps a window, and cleared when natwm handles the MapNotify of the next  *)
(* one; what is between is told by the events in the queue.                   *)

Coming(s, w) == \E k \in 1 .. Len(s.queue) : s.queue[k] = Event("MapNotify", w)

Leaving(s, w) ==
  \E k \in 1 .. Len(s.queue) :
    /\ s.queue[k] = Event("UnmapNotify", w)
    /\ \A l \in k + 1 .. Len(s.queue) : s.queue[l] # Event("MapNotify", w)

\* On a monitor: the flag is cleared or will be, and who unmapped the window
\* will be found out.
OnScreen(s, c) ==
  /\ c \notin s.offscreen \/ s.win[Win(c)] = "gone" \/ Coming(s, Win(c))
  /\ s.win[Win(c)] = "unmapped" => Leaving(s, Win(c))

OffScreen(s, c) == c \in s.offscreen /\ s.win[Win(c)] # "mapped"

Placed(s, c) == IF s.registry[Win(c)] \in s.visible THEN OnScreen(s, c) ELSE OffScreen(s, c)

\* cs are clients in the middle of being moved.
ScreenedBut(s, cs) ==
  /\ s.offscreen \subseteq s.live
  /\ \A c \in s.live : Win(c) \notin Docks
  /\ \A c \in Clients \ cs :
       s.registry[Win(c)] # NULL /\ c \notin s.hidden => Placed(s, c)

Screened(s) == ScreenedBut(s, {})

\* Turning the focus does not change any of this.
LEMMA QuietScreened ==
  ASSUME NEW cs, NEW s, ScreenedBut(s, cs), NEW t, Quiet(s, t)
  PROVE  ScreenedBut(t, cs)
BY DEF ScreenedBut, Placed, OnScreen, OffScreen, Coming, Leaving, Quiet

\* Events that follow: a map is still coming, a window is leaving unless it is
\* mapped again.
LEMMA EventsFollow ==
  ASSUME NEW s \in State, NEW t, NEW es \in Seq(Events), t.queue = s.queue \o es,
         NEW w
  PROVE  /\ Coming(s, w) => Coming(t, w)
         /\ (\E n \in 1 .. Len(es) : es[n] = Event("MapNotify", w)) => Coming(t, w)
         /\ (\A n \in 1 .. Len(es) : es[n] # Event("MapNotify", w)) =>
              /\ Leaving(s, w) => Leaving(t, w)
              /\ (\E n \in 1 .. Len(es) : es[n] = Event("UnmapNotify", w)) => Leaving(t, w)
<1>. DEFINE q == s.queue
            L == Len(q)
            M == Len(es)
            r == q \o es
<1>1. q \in Seq(Events) BY DEF State
<1>2. L \in Nat /\ M \in Nat BY <1>1
<1>3. /\ Len(r) = L + M
      /\ \A k \in 1 .. L : r[k] = q[k]
      /\ \A k \in L + 1 .. L + M : r[k] = es[k - L]
  <2>1. \A k \in 1 .. Len(r) : r[k] = IF k <= L THEN q[k] ELSE es[k - L]
    BY <1>1, ConcatProperties
  <2>2. Len(r) = L + M BY <1>1, ConcatProperties
  <2>. HIDE DEF r, L, M, q
  <2>. QED BY <1>2, <2>1, <2>2
<1>4. t.queue = r OBVIOUS
<1>. HIDE DEF r, L, M
<1>5. \A k \in 1 .. L : k \in 1 .. Len(r) BY <1>2, <1>3
<1>6. \A n \in 1 .. M : L + n \in 1 .. Len(r) /\ r[L + n] = es[n]
  <2>1. \A n \in 1 .. M : L + n \in 1 .. L + M /\ L + n \in L + 1 .. L + M /\ (L + n) - L = n
    BY <1>2
  <2>. QED BY <1>3, <2>1
<1>7. \A k \in 1 .. Len(r) : k \in 1 .. L \/ (k - L \in 1 .. M /\ r[k] = es[k - L] /\ k > L)
  <2>1. \A k \in 1 .. L + M : k \in 1 .. L \/ (k - L \in 1 .. M /\ k \in L + 1 .. L + M /\ k > L)
    BY <1>2
  <2>. QED BY <1>3, <2>1
<1>8. Coming(s, w) => Coming(t, w) BY <1>3, <1>4, <1>5 DEF Coming, L
<1>9. (\E n \in 1 .. M : es[n] = Event("MapNotify", w)) => Coming(t, w)
  BY <1>4, <1>6 DEF Coming
<1>10. ASSUME \A n \in 1 .. M : es[n] # Event("MapNotify", w), Leaving(s, w)
       PROVE  Leaving(t, w)
  <2>1. PICK k \in 1 .. L : /\ q[k] = Event("UnmapNotify", w)
                            /\ \A l \in k + 1 .. L : q[l] # Event("MapNotify", w)
    BY <1>10 DEF Leaving, L
  <2>2. ASSUME NEW l \in k + 1 .. Len(r) PROVE r[l] # Event("MapNotify", w)
    <3>1. l \in 1 .. Len(r) BY <1>2, <1>3
    <3>2. CASE l \in 1 .. L
      <4>1. l \in k + 1 .. L BY <1>2, <3>2
      <4>. QED BY <1>3, <2>1, <3>2, <4>1
    <3>3. CASE l \notin 1 .. L BY <1>7, <1>10, <3>1, <3>3
    <3>. QED BY <3>2, <3>3
  <2>. QED BY <1>3, <1>4, <1>5, <2>1, <2>2 DEF Leaving
<1>11. ASSUME \A n \in 1 .. M : es[n] # Event("MapNotify", w),
              NEW n \in 1 .. M, es[n] = Event("UnmapNotify", w)
       PROVE  Leaving(t, w)
  <2>1. L + n \in 1 .. Len(r) /\ r[L + n] = Event("UnmapNotify", w) BY <1>6, <1>11
  <2>2. ASSUME NEW l \in (L + n) + 1 .. Len(r) PROVE r[l] # Event("MapNotify", w)
    <3>1. l \in 1 .. Len(r) /\ l \notin 1 .. L BY <1>2, <1>3
    <3>. QED BY <1>7, <1>11, <3>1
  <2>. QED BY <1>4, <2>1, <2>2 DEF Leaving
<1>. QED BY <1>8, <1>9, <1>10, <1>11 DEF M

\* Events none of which is a mapping.
LEMMA OthersFollow ==
  ASSUME NEW s \in State, NEW t, NEW es \in Seq(Events), t.queue = s.queue \o es,
         \A v : \A n \in 1 .. Len(es) : es[n] # Event("MapNotify", v)
  PROVE  \A v : (Coming(s, v) => Coming(t, v)) /\ (Leaving(s, v) => Leaving(t, v))
<1>1. ASSUME NEW v
      PROVE  (Coming(s, v) => Coming(t, v)) /\ (Leaving(s, v) => Leaving(t, v))
  <2>1. Coming(s, v) => Coming(t, v) BY EventsFollow
  <2>2. \A n \in 1 .. Len(es) : es[n] # Event("MapNotify", v) OBVIOUS
  <2>3. Leaving(s, v) => Leaving(t, v) BY <2>2, EventsFollow
  <2>. QED BY <2>1, <2>3
<1>. QED BY <1>1

\* No position is both the n-th and another one.
LEMMA NthOf ==
  ASSUME NEW L \in Nat, NEW K \in SUBSET (1 .. L), NEW k \in K
  PROVE  \E n \in 1 .. Cardinality(K) : Nth(K, n) = k
<1>. DEFINE below(m) == {l \in K : l <= m}
            n == Cardinality(below(k))
<1>1. IsFiniteSet(K) /\ \A l \in K : l \in Nat
  <2>1. IsFiniteSet(1 .. L) BY FS_Interval
  <2>2. IsFiniteSet(K) BY <2>1, FS_Subset
  <2>. QED BY <2>2
<1>2. ASSUME NEW m \in K, NEW l \in K, l < m
      PROVE  Cardinality(below(l)) < Cardinality(below(m))
  <2>1. \A j \in K : j <= l => j <= m BY <1>1, <1>2
  <2>2. below(l) \subseteq below(m) BY <2>1
  <2>3. m \in below(m) /\ m \notin below(l) BY <1>1, <1>2
  <2>4. below(l) # below(m) BY <2>3
  <2>5. IsFiniteSet(below(m)) BY <1>1, FS_Subset
  <2>. HIDE DEF below
  <2>. QED BY <2>2, <2>4, <2>5, FS_Subset, FS_CardinalityType
<1>3. n \in 1 .. Cardinality(K)
  <2>1. below(k) \subseteq K /\ k \in below(k) BY <1>1
  <2>2. IsFiniteSet(below(k)) /\ below(k) # {} BY <1>1, <2>1, FS_Subset
  <2>. HIDE DEF below
  <2>3. n \in Nat /\ n # 0 /\ n <= Cardinality(K) /\ Cardinality(K) \in Nat
    BY <1>1, <2>1, <2>2, FS_Subset, FS_CardinalityType, FS_EmptySet
  <2>. QED BY <2>3
<1>4. ASSUME NEW m \in K, Cardinality(below(m)) = n PROVE m = k
  <2>1. \A j \in K : IsFiniteSet(below(j)) /\ Cardinality(below(j)) \in Nat
    BY <1>1, FS_Subset, FS_CardinalityType
  <2>2. ~(m < k) /\ ~(k < m)
    <3>. HIDE DEF below
    <3>. QED BY <1>2, <1>4, <2>1
  <2>. QED BY <1>1, <2>2
<1>5. Nth(K, n) = k BY <1>4 DEF Nth
<1>. QED BY <1>3, <1>5

\* A loop causes events of its one type, one for each of its windows.
LEMMA LoopEventsTell ==
  ASSUME NEW s \in State, NEW i \in Workspaces, NEW from, NEW type \in EventTypes
  PROVE  LET es == LoopEvents(s, i, from, type)
             ws == LoopWindows(s, i, from)
         IN  /\ \A n \in 1 .. Len(es) : \E w \in ws : es[n] = Event(type, w)
             /\ \A w \in ws : \E n \in 1 .. Len(es) : es[n] = Event(type, w)
<1>. DEFINE K == LoopNodes(s, i, from)
            N == Cardinality(K)
            ws == LoopWindows(s, i, from)
            es == LoopEvents(s, i, from, type)
            q == s.clients[i]
<1>1. K \in SUBSET (1 .. Len(q)) /\ Len(q) \in Nat BY ListTyped DEF LoopNodes, Showable
<1>2. N \in Nat
  <2>1. IsFiniteSet(1 .. Len(q)) BY <1>1, FS_Interval
  <2>2. IsFiniteSet(K) BY <1>1, <2>1, FS_Subset
  <2>. QED BY <2>2, FS_CardinalityType
<1>3. es = [n \in 1 .. N |-> Event(type, Win(q[Nth(K, n)]))] BY DEF LoopEvents
<1>4. ws = {Win(q[k]) : k \in K} BY DEF LoopWindows
<1>. HIDE DEF K, es, ws, q
<1>5. \A n \in 1 .. N : Nth(K, n) \in K BY <1>1, NthType
<1>6. \A k \in K : \E n \in 1 .. N : Nth(K, n) = k BY <1>1, NthOf
<1>. HIDE DEF N
<1>7. Len(es) = N BY <1>2, <1>3
<1>8. \A n \in 1 .. N : \E w \in ws : es[n] = Event(type, w) BY <1>3, <1>4, <1>5
<1>9. \A w \in ws : \E n \in 1 .. N : es[n] = Event(type, w)
  <2>. SUFFICES ASSUME NEW k \in K PROVE \E n \in 1 .. N : es[n] = Event(type, Win(q[k]))
    BY <1>4
  <2>1. PICK n \in 1 .. N : Nth(K, n) = k BY <1>6
  <2>. QED BY <1>3, <2>1
<1>. QED BY <1>7, <1>8, <1>9 DEF es, ws

\* The screens are as they were for a window.
Same(s, t, w) ==
  /\ t.win[w] = s.win[w]
  /\ Coming(s, w) => Coming(t, w)
  /\ Leaving(s, w) => Leaving(t, w)

LEMMA PlacedStill ==
  ASSUME NEW s, NEW t, NEW c, Placed(s, c), Same(s, t, Win(c)),
         t.registry[Win(c)] = s.registry[Win(c)],
         s.registry[Win(c)] \in t.visible <=> s.registry[Win(c)] \in s.visible,
         c \in t.offscreen <=> c \in s.offscreen
  PROVE  Placed(t, c)
BY DEF Placed, OnScreen, OffScreen, Same

\* xcb_map_window.
LEMMA XMapScreens ==
  ASSUME NEW s \in State, NEW w \in Windows
  PROVE  LET t == XMap(s, w)
         IN  /\ t.visible = s.visible /\ t.offscreen = s.offscreen
             /\ \A v \in Windows \ {w} : Same(s, t, v)
             /\ Coming(s, w) => Coming(t, w)
             /\ s.win[w] = "unmapped" => t.win[w] = "mapped" /\ Coming(t, w)
             /\ s.win[w] # "unmapped" => t = s
<1>. DEFINE t == XMap(s, w)
            e == Event("MapNotify", w)
<1>1. CASE s.win[w] # "unmapped" BY <1>1 DEF XMap, Same
<1>2. CASE s.win[w] = "unmapped"
  <2>1. s.queue \in Seq(Events) /\ e \in Events BY EventTyped DEF State, EventTypes
  <2>2. Append(s.queue, e) = s.queue \o <<e>> /\ <<e>> \in Seq(Events)
    BY <2>1, AppendIsConcat
  <2>3. /\ t.win = [s.win EXCEPT ![w] = "mapped"] /\ t.queue = Append(s.queue, e)
        /\ t.visible = s.visible /\ t.offscreen = s.offscreen
    BY <1>2 DEF XMap, State
  <2>4. Len(<<e>>) = 1 /\ <<e>>[1] = e OBVIOUS
  <2>5. \A v : e = Event("MapNotify", v) => v = w BY DEF Event
  <2>6. e = Event("MapNotify", w) OBVIOUS
  <2>. DEFINE es == <<e>>
  <2>. HIDE DEF t, e
  <2>10. t.queue = s.queue \o es /\ es \in Seq(Events) BY <2>2, <2>3
  <2>11. \E n \in 1 .. Len(es) : es[n] = Event("MapNotify", w) BY <2>4, <2>6
  <2>12. \A v : v # w => \A n \in 1 .. Len(es) : es[n] # Event("MapNotify", v) BY <2>4, <2>5
  <2>. HIDE DEF es
  <2>7. ASSUME NEW v, v # w
        PROVE  (Coming(s, v) => Coming(t, v)) /\ (Leaving(s, v) => Leaving(t, v))
    <3>1. \A n \in 1 .. Len(es) : es[n] # Event("MapNotify", v) BY <2>7, <2>12
    <3>2. Coming(s, v) => Coming(t, v) BY <2>10, EventsFollow
    <3>3. Leaving(s, v) => Leaving(t, v) BY <2>10, <3>1, EventsFollow
    <3>. QED BY <3>2, <3>3
  <2>8. (Coming(s, w) => Coming(t, w)) /\ Coming(t, w) BY <2>10, <2>11, EventsFollow
  <2>9. \A v \in Windows : t.win[v] = IF v = w THEN "mapped" ELSE s.win[v]
    BY <2>3 DEF State
  <2>. QED BY <1>2, <2>3, <2>7, <2>8, <2>9 DEF Same, t
<1>. QED BY <1>1, <1>2

\* Unmapping windows, and telling of each.
LEMMA XUnmapAllScreens ==
  ASSUME NEW s \in State, NEW ws \in SUBSET Windows, NEW es \in Seq(Events),
         \A n \in 1 .. Len(es) : \E w \in ws : es[n] = Event("UnmapNotify", w),
         \A w \in ws : \E n \in 1 .. Len(es) : es[n] = Event("UnmapNotify", w)
  PROVE  LET t == XUnmapAll(s, ws, es)
         IN  /\ t.visible = s.visible /\ t.offscreen = s.offscreen
             /\ \A v \in Windows \ ws : Same(s, t, v)
             /\ \A w \in ws : /\ t.win[w] = "unmapped" /\ Leaving(t, w)
                              /\ Coming(s, w) => Coming(t, w)
<1>. DEFINE t == XUnmapAll(s, ws, es)
<1>1. /\ t.win = [w \in Windows |-> IF w \in ws THEN "unmapped" ELSE s.win[w]]
      /\ t.queue = s.queue \o es
      /\ t.visible = s.visible /\ t.offscreen = s.offscreen
  BY DEF XUnmapAll, State
<1>. HIDE DEF t
<1>2. \A v, w : Event("UnmapNotify", w) # Event("MapNotify", v) BY DEF Event
<1>3. ASSUME NEW v, NEW n \in 1 .. Len(es) PROVE es[n] # Event("MapNotify", v)
  <2>1. PICK w \in ws : es[n] = Event("UnmapNotify", w) OBVIOUS
  <2>. QED BY <1>2, <2>1
<1>4. \A v : (Coming(s, v) => Coming(t, v)) /\ (Leaving(s, v) => Leaving(t, v))
  <2>1. t.queue = s.queue \o es BY <1>1
  <2>. QED BY <1>3, <2>1, OthersFollow
<1>5. ASSUME NEW w \in ws PROVE Leaving(t, w)
  <2>1. \A n \in 1 .. Len(es) : es[n] # Event("MapNotify", w) BY <1>3
  <2>2. \E n \in 1 .. Len(es) : es[n] = Event("UnmapNotify", w) OBVIOUS
  <2>3. t.queue = s.queue \o es BY <1>1
  <2>. QED BY <2>1, <2>2, <2>3, EventsFollow
<1>6. \A v \in Windows : t.win[v] = IF v \in ws THEN "unmapped" ELSE s.win[v] BY <1>1
<1>. QED BY <1>1, <1>4, <1>5, <1>6 DEF Same, t

LEMMA XUnmapScreens ==
  ASSUME NEW s \in State, NEW w \in Windows
  PROVE  LET t == XUnmap(s, w)
         IN  /\ t.visible = s.visible /\ t.offscreen = s.offscreen
             /\ \A v \in Windows \ {w} : Same(s, t, v)
             /\ Coming(s, w) => Coming(t, w)
             /\ s.win[w] = "mapped" => t.win[w] = "unmapped" /\ Leaving(t, w)
             /\ s.win[w] # "mapped" => t = s
<1>. DEFINE e  == Event("UnmapNotify", w)
            es == <<e>>
<1>1. CASE s.win[w] # "mapped" BY <1>1 DEF XUnmap, Same
<1>2. CASE s.win[w] = "mapped"
  <2>1. e \in Events BY EventTyped DEF EventTypes
  <2>2. es \in Seq(Events) /\ Len(es) = 1 /\ es[1] = e BY <2>1
  <2>3. {w} \in SUBSET Windows OBVIOUS
  <2>4. XUnmap(s, w) = XUnmapAll(s, {w}, es) BY <1>2 DEF XUnmap
  <2>5. \A n \in 1 .. Len(es) : \E v \in {w} : es[n] = Event("UnmapNotify", v) BY <2>2
  <2>6. \A v \in {w} : \E n \in 1 .. Len(es) : es[n] = Event("UnmapNotify", v) BY <2>2
  <2>. HIDE DEF es
  <2>. DEFINE t == XUnmapAll(s, {w}, es)
  <2>7. /\ t.visible = s.visible /\ t.offscreen = s.offscreen
        /\ \A v \in Windows \ {w} : Same(s, t, v)
        /\ t.win[w] = "unmapped" /\ Leaving(t, w)
        /\ Coming(s, w) => Coming(t, w)
    <3>. HIDE DEF t
    <3>1. /\ t.visible = s.visible /\ t.offscreen = s.offscreen
          /\ \A v \in Windows \ {w} : Same(s, t, v)
          /\ \A v \in {w} : /\ t.win[v] = "unmapped" /\ Leaving(t, v)
                            /\ Coming(s, v) => Coming(t, v)
      BY <2>2, <2>3, <2>5, <2>6, XUnmapAllScreens DEF t
    <3>. QED BY <3>1
  <2>. HIDE DEF t
  <2>. QED BY <1>2, <2>4, <2>7 DEF t
<1>. QED BY <1>1, <1>2

\* client_hide.
LEMMA ClientHideScreened ==
  ASSUME NEW s, Sound(s), Screened(s), NEW c \in s.live
  PROVE  LET t == ClientHide(s, c)
         IN  /\ ScreenedBut(t, {c}) /\ OffScreen(t, c)
             /\ t.visible = s.visible
<1>. DEFINE s1 == IF c \in s.focused THEN ClientSetUnfocused(s, c) ELSE s
            offscreen == s1.offscreen \cup {c}
            s2 == [s1 EXCEPT !.offscreen = offscreen]
            w  == Win(c)
            t  == XUnmap(s2, w)
<1>1. s \in State /\ SoundBut(s, {}) /\ Remaps = 0 BY DEF Sound, SoundBut
<1>2. c \in Clients /\ c \in OptClient /\ w \in Windows
  BY <1>1, WinTyped DEF State, OptClient
<1>3. SoundBut(s1, {}) /\ Quiet(s, s1)
  <2>1. CASE c \in s.focused BY <1>1, <1>2, <2>1, ClientSetUnfocusedSound
  <2>2. CASE c \notin s.focused BY <1>1, <2>2 DEF Quiet
  <2>. QED BY <2>1, <2>2
<1>4. ClientHide(s, c) = t BY DEF ClientHide
<1>. HIDE DEF s1
<1>5. s1 \in State /\ Screened(s1) BY <1>3, QuietScreened DEF SoundBut, Screened
<1>6. offscreen \in SUBSET Clients BY <1>2, <1>5 DEF State
<1>. HIDE DEF offscreen, w
<1>7. /\ s2 \in State /\ Silent(s1, s2) /\ s2.visible = s1.visible
      /\ s2.offscreen = offscreen
  BY <1>5, <1>6 DEF State, Silent
<1>. HIDE DEF s2
<1>8. /\ t.visible = s2.visible /\ t.offscreen = s2.offscreen
      /\ \A v \in Windows \ {w} : Same(s2, t, v)
      /\ t.win[w] # "mapped"
  BY <1>2, <1>7, XUnmapScreens
<1>9. t.live = s2.live /\ t.registry = s2.registry /\ t.hidden = s2.hidden
  BY <1>2, <1>7, XUnmapSteady DEF Steady, Lasting
<1>. HIDE DEF t
<1>10. OffScreen(t, c) BY <1>7, <1>8 DEF OffScreen, offscreen, w
<1>11. ASSUME NEW d \in Clients \ {c}, t.registry[Win(d)] # NULL, d \notin t.hidden
       PROVE  Placed(t, d)
  <2>1. Win(d) \in Windows \ {w} BY <1>1, <1>2, WinTyped, OneClient DEF w
  <2>2. Same(s1, t, Win(d)) BY <1>7, <1>8, <2>1 DEF Same, Silent, Coming, Leaving
  <2>3. Placed(s1, d) BY <1>5, <1>7, <1>9, <1>11 DEF Screened, ScreenedBut, Silent
  <2>4. d \in t.offscreen <=> d \in s1.offscreen BY <1>7, <1>8, <1>11 DEF offscreen
  <2>. QED BY <1>7, <1>8, <1>9, <2>2, <2>3, <2>4, PlacedStill DEF Silent
<1>12. t.offscreen \subseteq t.live /\ \A d \in t.live : Win(d) \notin Docks
  BY <1>3, <1>5, <1>7, <1>8, <1>9 DEF Screened, ScreenedBut, Silent, Quiet, offscreen
<1>13. ScreenedBut(t, {c}) BY <1>11, <1>12 DEF ScreenedBut
<1>14. t.visible = s.visible BY <1>3, <1>7, <1>8 DEF Quiet
<1>. QED BY <1>4, <1>10, <1>13, <1>14

\* client_show, of a client whose workspace is on a monitor and whose window was
\* hidden.
LEMMA ClientShowScreened ==
  ASSUME NEW s, Sound(s), NEW c \in Clients, ScreenedBut(s, {c}), OffScreen(s, c),
         s.registry[Win(c)] \in s.visible
  PROVE  Screened(ClientShow(s, c))
<1>. DEFINE w  == Win(c)
            s1 == [s EXCEPT !.hidden = @ \ {c}]
            t  == XMap(s1, w)
<1>1. s \in State /\ Remaps = 0 /\ w \in Windows BY WinTyped DEF Sound, SoundBut
<1>2. /\ s1 \in State /\ s1.hidden = s.hidden \ {c} /\ s1.live = s.live
      /\ s1.registry = s.registry /\ s1.visible = s.visible
      /\ s1.offscreen = s.offscreen /\ s1.win = s.win /\ s1.queue = s.queue
  BY <1>1 DEF State
<1>3. ClientShow(s, c) = t BY DEF ClientShow
<1>. HIDE DEF s1, w
<1>4. /\ t.visible = s.visible /\ t.offscreen = s.offscreen
      /\ \A v \in Windows \ {w} : Same(s1, t, v)
      /\ s1.win[w] = "unmapped" => t.win[w] = "mapped" /\ Coming(t, w)
      /\ s1.win[w] # "unmapped" => t = s1
  BY <1>1, <1>2, XMapScreens
<1>5. t.live = s.live /\ t.registry = s.registry /\ t.hidden = s.hidden \ {c}
  BY <1>1, <1>2, XMapSteady DEF Steady, Lasting
<1>. HIDE DEF t
<1>6. Placed(t, c)
  <2>1. (t.win[w] = "mapped" /\ Coming(t, w)) \/ t.win[w] = "gone"
    <3>1. s1.win[w] \in {"unmapped", "gone"}
      BY <1>1, <1>2 DEF OffScreen, State, WinStates, w
    <3>. QED BY <1>4, <3>1
  <2>2. OnScreen(t, c) BY <2>1 DEF OnScreen, w
  <2>. QED BY <1>4, <1>5, <2>2 DEF Placed
<1>7. ASSUME NEW d \in Clients, d # c, t.registry[Win(d)] # NULL, d \notin t.hidden
      PROVE  Placed(t, d)
  <2>1. Win(d) \in Windows \ {w} BY <1>1, <1>7, WinTyped, OneClient DEF w
  <2>2. Same(s, t, Win(d)) BY <1>2, <1>4, <2>1 DEF Same, Coming, Leaving
  <2>3. Placed(s, d) BY <1>5, <1>7 DEF ScreenedBut
  <2>. QED BY <1>4, <1>5, <2>2, <2>3, PlacedStill
<1>. QED BY <1>3, <1>4, <1>5, <1>6, <1>7 DEF Screened, ScreenedBut

\* The loops over the list of a workspace are about the windows registered there.
LEMMA LoopOf ==
  ASSUME NEW s, Sound(s), NEW i \in Workspaces, NEW from
  PROVE  LET ws == LoopWindows(s, i, from)
         IN  /\ \A w \in ws : w \in Windows /\ s.registry[w] = i /\ s.win[w] = from
             /\ \A c \in Clients :
                  s.registry[Win(c)] = i /\ c \notin s.hidden /\ s.win[Win(c)] = from =>
                    Win(c) \in ws
             /\ \A c : c \in Members(s, i) <=> c \in Clients /\ s.registry[Win(c)] = i
<1>. DEFINE ws == LoopWindows(s, i, from)
<1>1. s \in State /\ SoundBut(s, {}) BY DEF Sound, SoundBut
<1>2. ASSUME NEW w \in ws PROVE w \in Windows /\ s.registry[w] = i /\ s.win[w] = from
  <2>1. PICK k \in 1 .. Len(s.clients[i]) : w = Win(s.clients[i][k]) /\ s.win[w] = from
    BY DEF LoopWindows, LoopNodes, Showable
  <2>. QED BY <1>1, <2>1, ListedAt, WinTyped
<1>3. ASSUME NEW c \in Clients, s.registry[Win(c)] = i, c \notin s.hidden,
             s.win[Win(c)] = from
      PROVE  Win(c) \in ws
  <2>. DEFINE k == FirstNode(s, i, Win(c))
  <2>1. k \in 1 .. Len(s.clients[i]) /\ s.clients[i][k] = c /\ Nodes(s, i, Win(c)) = {k}
    BY <1>1, <1>3, NodeOf
  <2>2. Len(s.clients[i]) \in Nat BY <1>1, ListTyped
  <2>. HIDE DEF k
  <2>3. k \in LoopNodes(s, i, from) BY <1>3, <2>1, <2>2 DEF LoopNodes, Showable
  <2>. QED BY <2>1, <2>3 DEF LoopWindows
<1>4. ASSUME NEW c PROVE c \in Members(s, i) <=> c \in Clients /\ s.registry[Win(c)] = i
  <2>1. c \in Members(s, i) <=> c \in Elems(s.clients[i]) BY DEF Members, Elems
  <2>2. c \in Elems(s.clients[i]) => c \in Clients BY <1>1, EntryTyped DEF Elems
  <2>. QED BY <1>1, <2>1, <2>2 DEF SoundBut, Homes
<1>. QED BY <1>2, <1>3, <1>4 DEF ws

\* workspace_hide.
LEMMA WorkspaceHideScreened ==
  ASSUME NEW s, Sound(s), Screened(s), NEW i \in Workspaces
  PROVE  LET t == WorkspaceHide(s, i)
         IN  Screened(t) /\ t.visible = s.visible \ {i}
<1>0. s \in State /\ Remaps = 0 BY DEF Sound, SoundBut
<1>1. CASE i \notin s.visible BY <1>1 DEF WorkspaceHide
<1>2. CASE i \in s.visible
  <2>. DEFINE loop == Members(s, i) \ s.hidden
              wsFocused == s.wsFocused \ {i}
              visible   == s.visible \ {i}
              focused   == s.focused \ loop
              offscreen == s.offscreen \cup loop
              s1 == [s EXCEPT !.wsFocused = wsFocused, !.visible = visible,
                              !.focused = focused, !.offscreen = offscreen]
              ws == {Win(c) : c \in loop \cap s.focused}
              s2 == XGrab(s1, ws)
              es == LoopEvents(s, i, "mapped", "UnmapNotify")
              wins == LoopWindows(s, i, "mapped")
              t == XUnmapAll(s2, wins, es)
  <2>1. WorkspaceHide(s, i) = t BY <1>2, Zenon DEF WorkspaceHide
  <2>2. \A c : c \in loop <=> c \in Clients /\ s.registry[Win(c)] = i /\ c \notin s.hidden
    BY LoopOf
  <2>3. /\ \A w \in wins : w \in Windows /\ s.registry[w] = i /\ s.win[w] = "mapped"
        /\ \A c \in Clients :
             s.registry[Win(c)] = i /\ c \notin s.hidden /\ s.win[Win(c)] = "mapped" =>
               Win(c) \in wins
    BY LoopOf
  <2>4. /\ \A n \in 1 .. Len(es) : \E w \in wins : es[n] = Event("UnmapNotify", w)
        /\ \A w \in wins : \E n \in 1 .. Len(es) : es[n] = Event("UnmapNotify", w)
    <3>1. "UnmapNotify" \in EventTypes BY DEF EventTypes
    <3>. QED BY <1>0, <3>1, LoopEventsTell
  <2>5. es \in Seq(Events) /\ wins \in SUBSET Windows BY <1>0, LoopEventsTyped DEF EventTypes
  <2>6. ws \in SUBSET Windows BY <2>2, WinTyped
  <2>. HIDE DEF loop, ws, es, wins
  <2>7. /\ wsFocused \in SUBSET Workspaces /\ visible \in SUBSET Workspaces
        /\ focused \in SUBSET Clients /\ offscreen \in SUBSET Clients
    BY <1>0, <2>2 DEF State
  <2>. HIDE DEF wsFocused, visible, focused, offscreen
  <2>8. /\ s1 \in State /\ Silent(s, s1) /\ SameLists(s, s1)
        /\ s1.visible = visible /\ s1.offscreen = offscreen
    BY <1>0, <2>7 DEF State, Silent, SameLists
  <2>. HIDE DEF s1
  <2>9. /\ s2 \in State /\ Silent(s, s2)
        /\ s2.visible = visible /\ s2.offscreen = offscreen
    <3>1. XOnly(s1, s2) BY <2>6, <2>8, XGrabTyped
    <3>2. /\ s2.win = s1.win /\ s2.queue = s1.queue
          /\ s2.visible = s1.visible /\ s2.offscreen = s1.offscreen
      BY <2>8 DEF XGrab, State
    <3>. QED BY <2>8, <3>1, <3>2 DEF XOnly, SameLists, SameFlags, Silent
  <2>. HIDE DEF s2
  <2>10. /\ t.visible = s2.visible /\ t.offscreen = s2.offscreen
         /\ \A v \in Windows \ wins : Same(s2, t, v)
         /\ \A w \in wins : t.win[w] = "unmapped"
    BY <2>4, <2>5, <2>9, XUnmapAllScreens
  <2>11. Steady(s2, t) /\ t.hidden = s2.hidden
    BY <2>3, <2>5, <2>9, XUnmapAllSteady DEF Silent
  <2>. HIDE DEF t
  <2>12. t.registry = s.registry /\ t.live = s.live /\ t.hidden = s.hidden
    BY <2>9, <2>11 DEF Steady, Lasting, Silent
  <2>13. t.visible = s.visible \ {i} /\ t.offscreen = s.offscreen \cup loop
    BY <2>9, <2>10 DEF visible, offscreen
  <2>14. \A v \in Windows \ wins : Same(s, t, v)
    BY <2>9, <2>10 DEF Same, Silent, Coming, Leaving
  <2>15. ASSUME NEW d \in Clients, t.registry[Win(d)] # NULL, d \notin t.hidden
         PROVE  Placed(t, d)
    <3>1. Win(d) \in Windows BY WinTyped
    <3>2. CASE s.registry[Win(d)] = i
      <4>1. d \in t.offscreen BY <2>2, <2>12, <2>13, <2>15, <3>2
      <4>2. t.win[Win(d)] # "mapped"
        <5>1. CASE Win(d) \in wins BY <2>10, <5>1
        <5>2. CASE Win(d) \notin wins
          <6>1. s.win[Win(d)] # "mapped" BY <2>3, <2>12, <2>15, <3>2, <5>2
          <6>. QED BY <2>14, <3>1, <5>2, <6>1 DEF Same
        <5>. QED BY <5>1, <5>2
      <4>. QED BY <2>12, <2>13, <3>2, <4>1, <4>2 DEF Placed, OffScreen
    <3>3. CASE s.registry[Win(d)] # i
      <4>1. Win(d) \notin wins BY <2>3, <3>3
      <4>2. Same(s, t, Win(d)) BY <2>14, <3>1, <4>1
      <4>3. d \in t.offscreen <=> d \in s.offscreen BY <2>2, <2>13, <3>3
      <4>4. Placed(s, d) BY <2>12, <2>15 DEF Screened, ScreenedBut
      <4>. QED BY <2>12, <2>13, <3>3, <4>2, <4>3, <4>4, PlacedStill
    <3>. QED BY <3>2, <3>3
  <2>16. t.offscreen \subseteq t.live /\ \A c \in t.live : Win(c) \notin Docks
    <3>1. loop \subseteq s.live
      BY <2>2, NullNoWorkspace DEF Sound, SoundBut, Allocated
    <3>. QED BY <2>12, <2>13, <3>1 DEF Screened, ScreenedBut
  <2>. QED BY <2>1, <2>13, <2>15, <2>16 DEF Screened, ScreenedBut
<1>. QED BY <1>1, <1>2

\* workspace_send_to_monitor, of a workspace that was on none.
LEMMA WorkspaceSendToMonitorScreened ==
  ASSUME NEW s, Sound(s), Screened(s), NEW i \in Workspaces \ s.visible, NEW m \in Monitors
  PROVE  LET t == WorkspaceSendToMonitor(s, i, m)
         IN  Screened(t) /\ t.visible = s.visible \cup {i}
<1>. DEFINE t  == WorkspaceSendToMonitor(s, i, m)
            ws == LoopWindows(s, i, "unmapped")
            es == LoopEvents(s, i, "unmapped", "MapNotify")
<1>1. s \in State BY DEF Sound, SoundBut
<1>2. /\ t.win = [w \in Windows |-> IF w \in ws THEN "mapped" ELSE s.win[w]]
      /\ t.queue = s.queue \o es
      /\ t.visible = s.visible \cup {i} /\ t.offscreen = s.offscreen
      /\ t.registry = s.registry /\ t.hidden = s.hidden /\ t.live = s.live
  BY <1>1 DEF WorkspaceSendToMonitor, State
<1>3. es \in Seq(Events) BY <1>1, LoopEventsTyped DEF EventTypes
<1>4. /\ \A n \in 1 .. Len(es) : \E w \in ws : es[n] = Event("MapNotify", w)
      /\ \A w \in ws : \E n \in 1 .. Len(es) : es[n] = Event("MapNotify", w)
  <2>1. "MapNotify" \in EventTypes BY DEF EventTypes
  <2>. QED BY <1>1, <2>1, LoopEventsTell
<1>5. /\ \A w \in ws : w \in Windows /\ s.registry[w] = i /\ s.win[w] = "unmapped"
      /\ \A c \in Clients :
           s.registry[Win(c)] = i /\ c \notin s.hidden /\ s.win[Win(c)] = "unmapped" =>
             Win(c) \in ws
  BY LoopOf
<1>. HIDE DEF t, es, ws
<1>6. \A v \in Windows : t.win[v] = IF v \in ws THEN "mapped" ELSE s.win[v] BY <1>2
<1>7. ASSUME NEW v \in Windows \ ws PROVE Same(s, t, v)
  <2>1. ASSUME NEW n \in 1 .. Len(es) PROVE es[n] # Event("MapNotify", v)
    <3>1. PICK w \in ws : es[n] = Event("MapNotify", w) BY <1>4
    <3>2. Event("MapNotify", w).window = w /\ Event("MapNotify", v).window = v BY DEF Event
    <3>. QED BY <1>7, <3>1, <3>2
  <2>2. t.queue = s.queue \o es BY <1>2
  <2>3. (Coming(s, v) => Coming(t, v)) /\ (Leaving(s, v) => Leaving(t, v))
    BY <1>1, <1>3, <2>1, <2>2, EventsFollow
  <2>. QED BY <1>6, <2>3 DEF Same
<1>8. ASSUME NEW w \in ws PROVE Coming(t, w)
  <2>1. \E n \in 1 .. Len(es) : es[n] = Event("MapNotify", w) BY <1>4
  <2>2. t.queue = s.queue \o es BY <1>2
  <2>. QED BY <1>1, <1>3, <2>1, <2>2, EventsFollow
<1>9. ASSUME NEW d \in Clients, t.registry[Win(d)] # NULL, d \notin t.hidden
      PROVE  Placed(t, d)
  <2>1. Win(d) \in Windows BY WinTyped
  <2>2. Placed(s, d) BY <1>2, <1>9 DEF Screened, ScreenedBut
  <2>3. CASE s.registry[Win(d)] = i
    <3>1. d \in s.offscreen /\ s.win[Win(d)] # "mapped" BY <2>2, <2>3 DEF Placed, OffScreen
    <3>2. (t.win[Win(d)] = "mapped" /\ Coming(t, Win(d))) \/ t.win[Win(d)] = "gone"
      <4>1. s.win[Win(d)] \in {"unmapped", "gone"} BY <1>1, <2>1, <3>1 DEF State, WinStates
      <4>2. CASE s.win[Win(d)] = "unmapped"
        <5>1. Win(d) \in ws BY <1>2, <1>5, <1>9, <2>3, <4>2
        <5>. QED BY <1>6, <1>8, <2>1, <5>1
      <4>3. CASE s.win[Win(d)] = "gone" BY <1>5, <1>6, <2>1, <4>3
      <4>. QED BY <4>1, <4>2, <4>3
    <3>3. OnScreen(t, d) BY <3>2 DEF OnScreen
    <3>. QED BY <1>2, <2>3, <3>3 DEF Placed
  <2>4. CASE s.registry[Win(d)] # i
    <3>1. Same(s, t, Win(d)) BY <1>5, <1>7, <2>1, <2>4
    <3>. QED BY <1>2, <2>2, <2>4, <3>1, PlacedStill
  <2>. QED BY <2>3, <2>4
<1>10. Screened(t) BY <1>2, <1>9 DEF Screened, ScreenedBut
<1>. QED BY <1>2, <1>10 DEF t

\* workspace_change_monitor.
LEMMA WorkspaceChangeMonitorScreened ==
  ASSUME NEW s, Sound(s), Screened(s), Focused(s), Agree(s), NEW next \in Workspaces,
         next # s.activeIndex
  PROVE  Screened(WorkspaceChangeMonitor(s, next))
<1>. DEFINE cur  == s.activeIndex
            curM == ActiveMonitor(s)
            nxtM == FirstOf(MonitorsOf(s, next))
            s1   == WorkspaceHide(s, cur)
            s1h  == WorkspaceHide(s1, next)
            s2   == IF next \in s1.visible /\ nxtM # NULL
                    THEN WorkspaceSendToMonitor(s1h, cur, nxtM) ELSE s1
            s3   == WorkspaceSendToMonitor(s2, next, curM)
            s4   == WorkspaceSetFocused(s3, next)
            t    == WorkspaceResetFocus(s4, next)
            Kept(u) == Sound(u) /\ Screened(u) /\ AtMostFocused(u)
<1>0. s \in State BY DEF Sound, SoundBut
<1>1. CASE next \in s.wsFocused \/ curM = NULL BY <1>1 DEF WorkspaceChangeMonitor
<1>2. CASE next \notin s.wsFocused /\ curM # NULL
  <2>1. cur \in Workspaces BY <1>0 DEF State
  <2>2. curM \in Monitors
    <3>1. {m \in Monitors : s.shows[m] \in s.wsFocused} # {} BY <1>2 DEF ActiveMonitor, FirstOf
    <3>. QED BY <3>1, MonitorTyped DEF ActiveMonitor
  <2>3. WorkspaceChangeMonitor(s, next) = t BY <1>2, Zenon DEF WorkspaceChangeMonitor
  <2>4. nxtM = NULL => next \notin s.visible
    <3>. SUFFICES ASSUME nxtM = NULL, next \in s.visible PROVE FALSE OBVIOUS
    <3>1. PICK n \in Monitors : s.shows[n] = next BY DEF Agree
    <3>2. MonitorsOf(s, next) # {} BY <3>1 DEF MonitorsOf
    <3>3. nxtM \in Monitors BY <3>2, MonitorTyped DEF MonitorsOf
    <3>. QED BY <3>3, ConstantsAssumption DEF Monitors
  <2>5. nxtM # NULL => nxtM \in Monitors
    <3>1. nxtM # NULL => MonitorsOf(s, next) # {} BY DEF FirstOf
    <3>. QED BY <3>1, MonitorTyped DEF MonitorsOf
  <2>6. Kept(s1) /\ s1.visible = s.visible \ {cur}
    <3>1. Sound(s1) BY <2>1, WorkspaceHideSound
    <3>2. Screened(s1) /\ s1.visible = s.visible \ {cur} BY <2>1, WorkspaceHideScreened
    <3>3. AtMostFocused(s1) BY <1>0, <2>1, WorkspaceHideTyped DEF Focused, AtMostFocused
    <3>. QED BY <3>1, <3>2, <3>3
  <2>. HIDE DEF s1, curM, nxtM
  <2>7. Kept(s2) /\ next \notin s2.visible
    <3>1. CASE next \in s1.visible /\ nxtM # NULL
      <4>1. s1 \in State BY <2>6 DEF Sound, SoundBut
      <4>2. Sound(s1h) BY <2>6, WorkspaceHideSound
      <4>3. Screened(s1h) /\ s1h.visible = s1.visible \ {next} BY <2>6, WorkspaceHideScreened
      <4>4. AtMostFocused(s1h) BY <2>6, <4>1, WorkspaceHideTyped DEF AtMostFocused
      <4>. HIDE DEF s1h
      <4>5. cur \notin s1h.visible /\ s1h \in State BY <2>6, <4>2, <4>3 DEF Sound, SoundBut
      <4>6. s2 = WorkspaceSendToMonitor(s1h, cur, nxtM) BY <3>1
      <4>. HIDE DEF s2
      <4>7. Sound(s2) BY <2>1, <2>5, <3>1, <4>2, <4>6, WorkspaceSendToMonitorSound
      <4>8. Screened(s2) /\ s2.visible = s1h.visible \cup {cur}
        BY <2>1, <2>5, <3>1, <4>2, <4>3, <4>5, <4>6, WorkspaceSendToMonitorScreened
      <4>9. AtMostFocused(s2)
        <5>1. SameFocus(s1h, s2)
          BY <2>1, <2>5, <3>1, <4>5, <4>6, WorkspaceSendToMonitorTyped
        <5>. QED BY <4>4, <5>1 DEF AtMostFocused, SameFocus
      <4>. QED BY <4>3, <4>7, <4>8, <4>9
    <3>2. CASE ~(next \in s1.visible /\ nxtM # NULL) BY <2>4, <2>6, <3>2
    <3>. QED BY <3>1, <3>2
  <2>. HIDE DEF s2
  <2>8. s2 \in State BY <2>7 DEF Sound, SoundBut
  <2>9. Sound(s3) BY <2>2, <2>7, WorkspaceSendToMonitorSound
  <2>10. Screened(s3) BY <2>2, <2>7, WorkspaceSendToMonitorScreened
  <2>11. SameFocus(s2, s3) BY <2>2, <2>8, WorkspaceSendToMonitorTyped
  <2>. HIDE DEF s3
  <2>12. AtMostFocused(s3) BY <2>7, <2>11 DEF AtMostFocused, SameFocus
  <2>13. s3 \in State /\ SoundBut(s3, {}) BY <2>9 DEF Sound, SoundBut
  <2>14. Refocused(s3, s4) BY <2>12, <2>13, WorkspaceSetFocusedTyped
  <2>15. Sound(s4) /\ Quiet(s3, s4) BY <2>12, <2>13, WorkspaceSetFocusedSound DEF Sound
  <2>. HIDE DEF s4
  <2>16. Focused(s4) BY <2>14 DEF Refocused
  <2>17. Quiet(s4, t) BY <2>15, <2>16, WorkspaceResetFocusSound
  <2>. HIDE DEF t
  <2>. QED BY <2>3, <2>10, <2>15, <2>17, QuietScreened DEF Screened
<1>. QED BY <1>1, <1>2

\* The entry of a client that is being moved does not matter to the others.
LEMMA MovingScreened ==
  ASSUME Remaps = 0, NEW s \in State, NEW c \in Clients, ScreenedBut(s, {c}), NEW t, NEW i,
         t.registry = [s.registry EXCEPT ![Win(c)] = i],
         t.live = s.live, t.hidden = s.hidden, t.win = s.win, t.queue = s.queue,
         t.visible = s.visible, t.offscreen = s.offscreen
  PROVE  ScreenedBut(t, {c}) /\ (OffScreen(s, c) => OffScreen(t, c))
<1>1. ASSUME NEW d \in Clients, d # c, t.registry[Win(d)] # NULL, d \notin t.hidden
      PROVE  Placed(t, d)
  <2>1. Win(d) \in Windows /\ Win(d) # Win(c) BY <1>1, WinTyped, OneClient
  <2>2. t.registry[Win(d)] = s.registry[Win(d)] BY <2>1 DEF State
  <2>3. Placed(s, d) BY <1>1, <2>2 DEF ScreenedBut
  <2>4. Same(s, t, Win(d)) BY DEF Same, Coming, Leaving
  <2>. QED BY <2>2, <2>3, <2>4, PlacedStill
<1>. QED BY <1>1 DEF ScreenedBut, OffScreen

\* workspace_list_send_to_workspace.
LEMMA SendToWorkspaceScreened ==
  ASSUME NEW s, Sound(s), Good(s), Screened(s), NEW c \in Clients, NEW j \in Workspaces
  PROVE  Screened(SendToWorkspace(s, c, j))
<1>. DEFINE w  == Win(c)
            i  == s.registry[w]
            s1 == ClientHide(s, c)
            r  == WorkspaceRemoveClient(s1, i, c)
            s2 == WorkspaceAddClient(r, j, c)
            s3 == IF j \in s2.visible /\ MonitorsOf(s2, j) # {} THEN ClientShow(s2, c) ELSE s2
<1>1. SendToWorkspace(s, c, j)
        = IF j \in s.wsFocused \/ i = NULL THEN s
          ELSE IF Nodes(s1, i, w) = {} THEN s1 ELSE s3
  BY Zenon DEF SendToWorkspace
<1>2. s \in State /\ Focused(s) /\ w \in Windows /\ Remaps = 0
  BY WinTyped DEF Good, Sound, SoundBut
<1>3. Sound(s1) /\ Steady(s, s1) BY ClientHideSound
<1>4. SameScreens(s, s1) /\ SameFocus(s, s1) BY <1>2, ClientHideTyped
<1>5. CASE j \in s.wsFocused \/ i = NULL BY <1>1, <1>5
<1>6. CASE ~(j \in s.wsFocused \/ i = NULL)
  <2>1. i \in Workspaces BY <1>2, <1>6 DEF State, OptWorkspace
  <2>2. c \in s.live BY <1>6 DEF Sound, SoundBut, Allocated
  <2>3. ScreenedBut(s1, {c}) /\ OffScreen(s1, c) BY <2>2, ClientHideScreened
  <2>. HIDE DEF s1, w
  <2>4. s1.registry[w] = i BY <1>3 DEF Steady, Lasting
  <2>5. s1 \in State /\ Focused(s1) /\ SoundBut(s1, {})
    BY <1>2, <1>3, <1>4 DEF Sound, SoundBut, Focused, SameFocus
  <2>6. Handling(s1, s1, w) BY <2>5 DEF Handling, SameLists, SameFlags, SameFocus
  <2>7. Nodes(s1, i, w) # {} BY <2>1, <2>4, <2>5, NodeOf DEF w
  <2>. HIDE DEF i
  <2>8. /\ Sound(r) /\ r.registry = [s1.registry EXCEPT ![w] = NULL]
        /\ r.live = s1.live /\ r.hidden = s1.hidden /\ r.win = s1.win /\ r.queue = s1.queue
        /\ r.shows = s1.shows /\ r.visible = s1.visible /\ r.offscreen = s1.offscreen
    BY <1>3, <2>1, <2>4, <2>5, <2>6, WorkspaceRemoveClientSound DEF w
  <2>. HIDE DEF r
  <2>9. ScreenedBut(r, {c}) /\ OffScreen(r, c)
    BY <1>2, <2>3, <2>5, <2>8, MovingScreened DEF w
  <2>10. r \in State /\ SoundBut(r, {}) BY <2>8 DEF Sound, SoundBut
  <2>11. r.registry[w] = NULL BY <1>2, <2>5, <2>8 DEF State
  <2>12. i # NULL BY <2>1, NullNoWorkspace
  <2>13. c \in r.live BY <1>3, <2>4, <2>8, <2>12 DEF Sound, SoundBut, Allocated, w
  <2>14. r.win[w] = "gone" => Told(r, w)
    BY <1>2, <1>3, <2>4, <2>8, <2>12 DEF Sound, SoundBut, Doomed, Told
  <2>15. /\ SoundBut(s2, {}) /\ s2.registry = [r.registry EXCEPT ![w] = j]
         /\ s2.live = r.live /\ s2.hidden = r.hidden /\ s2.win = r.win /\ s2.queue = r.queue
         /\ s2.visible = r.visible /\ s2.offscreen = r.offscreen
    BY <2>10, <2>11, <2>13, <2>14, WorkspaceAddClientSound DEF w
  <2>16. SameScreens(r, s2) BY <2>10, WorkspaceAddClientTyped
  <2>. HIDE DEF s2
  <2>17. ScreenedBut(s2, {c}) /\ OffScreen(s2, c)
    BY <1>2, <2>9, <2>10, <2>15, MovingScreened DEF w
  <2>18. s2.registry[w] = j BY <1>2, <2>10, <2>15 DEF State
  <2>19. j \in s2.visible => MonitorsOf(s2, j) # {}
    <3>1. s2.visible = s.visible /\ s2.shows = s.shows
      BY <1>4, <2>8, <2>16 DEF SameScreens
    <3>. QED BY <3>1 DEF Good, Agree, MonitorsOf
  <2>20. Screened(s3)
    <3>1. CASE j \in s2.visible
      <4>1. s3 = ClientShow(s2, c) BY <2>19, <3>1
      <4>2. Sound(s2) BY <2>15 DEF Sound
      <4>3. s2.registry[Win(c)] \in s2.visible BY <2>18, <3>1 DEF w
      <4>. HIDE DEF s3
      <4>. QED BY <2>17, <4>1, <4>2, <4>3, ClientShowScreened
    <3>2. CASE j \notin s2.visible
      <4>1. s3 = s2 BY <3>2
      <4>2. Placed(s2, c) BY <2>17, <2>18, <3>2 DEF Placed, w
      <4>. HIDE DEF s3
      <4>. QED BY <2>17, <4>1, <4>2 DEF Screened, ScreenedBut
    <3>. QED BY <3>1, <3>2
  <2>. HIDE DEF s3
  <2>. QED BY <1>1, <1>6, <2>7, <2>20
<1>. QED BY <1>5, <1>6

\* client_register_window, of a window that is not a dock and has no client yet.
LEMMA RegisterWindowScreened ==
  ASSUME NEW s, Sound(s), Good(s), Screened(s), NEW w \in Windows \ Docks, s.win[w] # "gone",
         NEW c \in Clients, Win(c) = w, c \notin s.live
  PROVE  Screened(RegisterWindow(s, w, c))
<1>. DEFINE i  == s.activeIndex
            s0 == [s EXCEPT !.live = @ \cup {c}]
            s1 == XMap(s0, w)
            s2 == WorkspaceAddClient(s1, i, c)
            t  == ClientSetFocused(s2, c)
<1>1. RegisterWindow(s, w, c) = IF MonitorsOf(s, i) = {} THEN s ELSE t
  BY Zenon DEF RegisterWindow
<1>2. s \in State /\ Focused(s) /\ Remaps = 0 BY DEF Good, Sound, SoundBut
<1>3. i \in Workspaces BY <1>2 DEF State
<1>4. s.registry[w] = NULL BY DEF Sound, SoundBut, Allocated
<1>5. c \notin s.hidden /\ c \notin s.offscreen BY DEF Sound, SoundBut, Screened, ScreenedBut
<1>6. MonitorsOf(s, i) # {} => i \in s.visible
  BY <1>3, NullNoWorkspace DEF Good, Agree, MonitorsOf
<1>7. /\ s0 \in State /\ SameScreens(s, s0) /\ SameFocus(s, s0) /\ SameFlags(s, s0)
      /\ s0.clients = s.clients /\ s0.active = s.active /\ s0.registry = s.registry
      /\ s0.live = s.live \cup {c} /\ s0.win = s.win /\ s0.queue = s.queue
      /\ s0.grabs = s.grabs
  BY <1>2 DEF State, SameScreens, SameFocus, SameFlags
<1>. HIDE DEF s0, i
<1>8. SoundBut(s0, {w})
  <2>1. Homes(s0) /\ Actives(s0) /\ Doomed(s0)
    BY <1>7 DEF Sound, SoundBut, Homes, Actives, Doomed, Told
  <2>2. Allocated(s0) /\ s0.hidden \subseteq s0.live
    BY <1>7 DEF Sound, SoundBut, Allocated, SameFlags
  <2>3. GrabbedBut(s0, {w}) BY <1>7 DEF Sound, SoundBut, GrabbedBut, SameFlags
  <2>. QED BY <1>2, <1>7, <2>1, <2>2, <2>3 DEF SoundBut
<1>9. XOnly(s0, s1) BY <1>7, XMapTyped
<1>10. /\ Steady(s0, s1) /\ s1.grabs = s0.grabs /\ s1.focused = s0.focused
       /\ s1.hidden = s0.hidden
  BY <1>7, XMapSteady
<1>11. /\ s1.visible = s0.visible /\ s1.offscreen = s0.offscreen
       /\ \A v \in Windows \ {w} : Same(s0, s1, v)
       /\ s0.win[w] = "unmapped" => s1.win[w] = "mapped"
       /\ s0.win[w] # "unmapped" => s1 = s0
  BY <1>7, XMapScreens
<1>. HIDE DEF s1
<1>12. s1.win[w] = "mapped"
  BY <1>2, <1>7, <1>11 DEF State, WinStates
<1>13. ASSUME NEW d \in Clients, d # c, s1.registry[Win(d)] # NULL, d \notin s1.hidden
       PROVE  Placed(s1, d)
  <2>1. Win(d) \in Windows \ {w} BY <1>2, <1>13, WinTyped, OneClient
  <2>2. Same(s, s1, Win(d)) BY <1>7, <1>11, <2>1 DEF Same, Coming, Leaving
  <2>3. /\ s1.registry = s.registry /\ s1.hidden = s.hidden /\ s1.visible = s.visible
        /\ s1.offscreen = s.offscreen
    BY <1>7, <1>10, <1>11 DEF Steady, Lasting, SameFlags, SameScreens
  <2>4. Placed(s, d) BY <1>13, <2>3 DEF Screened, ScreenedBut
  <2>. QED BY <2>2, <2>3, <2>4, PlacedStill
<1>14. ScreenedBut(s1, {c})
  <2>1. s1.offscreen \subseteq s1.live /\ \A d \in s1.live : Win(d) \notin Docks
    BY <1>7, <1>10, <1>11 DEF Steady, Lasting, SameFlags, Screened, ScreenedBut
  <2>. QED BY <1>13, <2>1 DEF ScreenedBut
<1>15. SoundBut(s1, {w})
  <2>1. GrabbedBut(s1, {w}) BY <1>7, <1>8, <1>10, SameGrabs DEF SoundBut
  <2>. QED BY <1>8, <1>9, <1>10, <2>1, SteadySound DEF XOnly
<1>16. s1.registry[w] = NULL /\ c \in s1.live /\ c \notin s1.hidden
  BY <1>4, <1>5, <1>7, <1>10 DEF Steady, Lasting, SameFlags
<1>17. /\ SoundBut(s2, {w}) /\ s2.registry = [s1.registry EXCEPT ![w] = i]
       /\ s2.live = s1.live /\ s2.hidden = s1.hidden /\ s2.win = s1.win /\ s2.queue = s1.queue
       /\ s2.visible = s1.visible /\ s2.offscreen = s1.offscreen
  BY <1>3, <1>12, <1>15, <1>16, WorkspaceAddClientSound
<1>18. Focused(s2)
  <2>1. SameFocus(s1, s2) BY <1>3, <1>9, WorkspaceAddClientTyped DEF XOnly
  <2>. QED BY <1>2, <1>7, <1>9, <2>1 DEF XOnly, Focused, SameFocus
<1>. HIDE DEF s2
<1>19. s1 \in State BY <1>9 DEF XOnly
<1>20. ScreenedBut(s2, {c}) BY <1>2, <1>14, <1>17, <1>19, MovingScreened
<1>21. s2.registry[w] = i /\ i # NULL BY <1>3, <1>17, <1>19, NullNoWorkspace DEF State
<1>22. ASSUME MonitorsOf(s, i) # {} PROVE Screened(s2)
  <2>1. i \in s2.visible BY <1>6, <1>7, <1>11, <1>17, <1>22 DEF SameScreens
  <2>2. OnScreen(s2, c)
    BY <1>5, <1>7, <1>11, <1>12, <1>17 DEF OnScreen, SameFlags
  <2>3. Placed(s2, c) BY <1>21, <2>1, <2>2 DEF Placed
  <2>. QED BY <1>20, <2>3 DEF Screened, ScreenedBut
<1>23. Quiet(s2, t)
  <2>1. c \notin s2.hidden /\ {w} \subseteq {Win(c)} /\ s2.registry[Win(c)] # NULL
    BY <1>16, <1>17, <1>21
  <2>. QED BY <1>17, <1>18, <2>1, ClientSetFocusedSound
<1>. HIDE DEF t
<1>. QED BY <1>1, <1>22, <1>23, QuietScreened DEF Screened

\* The next event is taken from the queue.
LEMMA TakeHeadTells ==
  ASSUME NEW o \in State, o.queue # <<>>, NEW type, NEW w, Head(o.queue) = Event(type, w),
         NEW s, s.queue = Tail(o.queue), NEW v
  PROVE  /\ type # "MapNotify" \/ v # w => (Coming(o, v) => Coming(s, v))
         /\ type # "UnmapNotify" \/ v # w \/ Coming(o, v) => (Leaving(o, v) => Leaving(s, v))
<1>. DEFINE p == o.queue
            q == s.queue
            L == Len(p)
<1>1. p \in Seq(Events) BY DEF State
<1>2. L \in Nat \ {0} /\ p[1] = Event(type, w) BY <1>1
<1>3. Len(q) = L - 1 /\ \A k \in 1 .. L - 1 : q[k] = p[k + 1]
  BY <1>1, HeadTailProperties
<1>. HIDE DEF p, q, L
<1>4. \A k \in 1 .. L : k # 1 => k - 1 \in 1 .. Len(q) /\ q[k - 1] = p[k]
  <2>1. \A k \in 1 .. L : k # 1 => k - 1 \in 1 .. L - 1 /\ (k - 1) + 1 = k BY <1>2
  <2>. QED BY <1>3, <2>1
<1>5. \A k \in 1 .. Len(q) : k + 1 \in 1 .. L /\ q[k] = p[k + 1] BY <1>2, <1>3
<1>6. ASSUME NEW k \in 1 .. L, p[k] = Event("MapNotify", v), type # "MapNotify" \/ v # w
      PROVE  Coming(s, v)
  <2>1. k # 1 BY <1>2, <1>6 DEF Event
  <2>. QED BY <1>4, <1>6, <2>1 DEF Coming, q
<1>7. ASSUME NEW k \in 1 .. L, p[k] = Event("UnmapNotify", v), k # 1,
             \A l \in k + 1 .. L : p[l] # Event("MapNotify", v)
      PROVE  Leaving(s, v)
  <2>1. k - 1 \in 1 .. Len(q) /\ q[k - 1] = Event("UnmapNotify", v) BY <1>4, <1>7
  <2>2. ASSUME NEW l \in (k - 1) + 1 .. Len(q) PROVE q[l] # Event("MapNotify", v)
    <3>1. l \in 1 .. Len(q) /\ l + 1 \in k + 1 .. L BY <1>2, <1>3, <1>7
    <3>. QED BY <1>5, <1>7, <3>1
  <2>. QED BY <2>1, <2>2 DEF Leaving, q
<1>8. ASSUME Leaving(o, v), type # "UnmapNotify" \/ v # w \/ Coming(o, v)
      PROVE  Leaving(s, v)
  <2>1. PICK k \in 1 .. L : /\ p[k] = Event("UnmapNotify", v)
                            /\ \A l \in k + 1 .. L : p[l] # Event("MapNotify", v)
    BY <1>8 DEF Leaving, p, L
  <2>2. k # 1
    <3>1. CASE type # "UnmapNotify" \/ v # w BY <1>2, <2>1, <3>1 DEF Event
    <3>2. CASE Coming(o, v)
      <4>1. PICK l \in 1 .. L : p[l] = Event("MapNotify", v) BY <3>2 DEF Coming, p, L
      <4>2. l # k BY <2>1, <4>1 DEF Event
      <4>3. l \notin k + 1 .. L BY <2>1, <4>1
      <4>. QED BY <1>2, <4>2, <4>3
    <3>. QED BY <1>8, <3>1, <3>2
  <2>. QED BY <1>7, <2>1, <2>2
<1>. QED BY <1>6, <1>8 DEF Coming, p, L

\* s is o, but that an event about w is no longer in the queue.
Taking(o, s, w) ==
  /\ Screened(o) /\ ScreenedBut(s, {<<w, 0>>})
  /\ s.win = o.win /\ s.registry = o.registry /\ s.live = o.live /\ s.hidden = o.hidden
  /\ s.offscreen = o.offscreen /\ s.visible = o.visible

\* When an event about w is taken, only what MapNotify and UnmapNotify told of w
\* is no longer in the queue.
LEMMA TakenScreened ==
  ASSUME NEW o, Sound(o), Good(o), Screened(o), o.queue # <<>>, NEW type,
         NEW w \in Windows, Head(o.queue) = Event(type, w)
  PROVE  LET s == [o EXCEPT !.queue = Tail(@)]
         IN  /\ Taking(o, s, w)
             /\ type # "MapNotify" => (Coming(o, w) => Coming(s, w))
             /\ type # "UnmapNotify" \/ Coming(o, w) => (Leaving(o, w) => Leaving(s, w))
             /\ type \notin {"MapNotify", "UnmapNotify"} => Screened(s)
<1>. DEFINE s == [o EXCEPT !.queue = Tail(@)]
<1>1. o \in State /\ Remaps = 0 BY DEF Sound, SoundBut
<1>2. /\ s.queue = Tail(o.queue) /\ s.win = o.win /\ s.registry = o.registry
      /\ s.live = o.live /\ s.hidden = o.hidden /\ s.offscreen = o.offscreen
      /\ s.visible = o.visible
  BY <1>1 DEF State
<1>. HIDE DEF s
<1>3. ASSUME NEW v, v # w \/ type \notin {"MapNotify", "UnmapNotify"}
      PROVE  Same(o, s, v)
  <2>1. (Coming(o, v) => Coming(s, v)) /\ (Leaving(o, v) => Leaving(s, v))
    BY <1>1, <1>2, <1>3, TakeHeadTells
  <2>. QED BY <1>2, <2>1 DEF Same
<1>4. ASSUME NEW d \in Clients, s.registry[Win(d)] # NULL, d \notin s.hidden,
             Win(d) # w \/ type \notin {"MapNotify", "UnmapNotify"}
      PROVE  Placed(s, d)
  <2>1. Placed(o, d) BY <1>2, <1>4 DEF Screened, ScreenedBut
  <2>2. Same(o, s, Win(d)) BY <1>3, <1>4
  <2>. QED BY <1>2, <2>1, <2>2, PlacedStill
<1>5. \A d \in Clients : Win(d) = w => d = <<w, 0>> BY <1>1, OneClient
<1>6. s.offscreen \subseteq s.live /\ \A c \in s.live : Win(c) \notin Docks
  BY <1>2 DEF Screened, ScreenedBut
<1>7. ScreenedBut(s, {<<w, 0>>}) BY <1>4, <1>5, <1>6 DEF ScreenedBut
<1>8. type \notin {"MapNotify", "UnmapNotify"} => Screened(s)
  BY <1>4, <1>6 DEF Screened, ScreenedBut
<1>9. Taking(o, s, w) BY <1>2, <1>7 DEF Taking
<1>10. /\ type # "MapNotify" => (Coming(o, w) => Coming(s, w))
       /\ type # "UnmapNotify" \/ Coming(o, w) => (Leaving(o, w) => Leaving(s, w))
  BY <1>1, <1>2, TakeHeadTells
<1>. QED BY <1>8, <1>9, <1>10 DEF s

\* client_handle_map_notify: what is mapped is no longer off screen.
LEMMA MapNotifyScreened ==
  ASSUME NEW w \in Windows, NEW o, NEW s, Sound(s), Good(s), Taking(o, s, w),
         Leaving(o, w) => Leaving(s, w)
  PROVE  Screened(HandleMapNotify(s, w))
<1>. DEFINE c == RegisteredClient(s, w)
            d == <<w, 0>>
            t == [s EXCEPT !.offscreen = @ \ {c}]
<1>1. Remaps = 0 BY DEF Sound, SoundBut
<1>2. HandleMapNotify(s, w)
        = IF c \notin s.offscreen \/ s.registry[w] \notin s.visible THEN s ELSE t
  BY Zenon DEF HandleMapNotify
<1>3. ScreenedBut(s, {d}) BY DEF Taking
<1>4. d \in Clients /\ Win(d) = w BY <1>1, OneClient
<1>5. /\ s.win = o.win /\ s.registry = o.registry
      /\ s.live = o.live /\ s.hidden = o.hidden /\ s.offscreen = o.offscreen
      /\ s.visible = o.visible /\ Screened(o)
  BY DEF Taking
<1>6. s.registry[w] # NULL => c = d
  BY <1>1, <1>4, RegisteredClientFound, OneClient
<1>7. /\ t.offscreen = s.offscreen \ {c} /\ t.visible = s.visible
      /\ t.win = s.win /\ t.registry = s.registry /\ t.live = s.live /\ t.hidden = s.hidden
      /\ t.queue = s.queue
  BY DEF Good, State
<1>8. Leaving(o, w) => Leaving(s, w) OBVIOUS
<1>9. s.registry[w] = NULL => Screened(s)
  BY <1>3, <1>4 DEF Screened, ScreenedBut
<1>. HIDE DEF c, d, t
<1>10. s.registry[w] # NULL /\ d \notin s.hidden => Placed(o, d)
  BY <1>4, <1>5 DEF Screened, ScreenedBut
<1>11. CASE s.registry[w] # NULL /\ c \notin s.offscreen
  <2>1. d \notin s.hidden => Placed(s, d)
    BY <1>4, <1>5, <1>6, <1>8, <1>10, <1>11 DEF Placed, OnScreen, OffScreen
  <2>. QED BY <1>2, <1>3, <1>11, <2>1 DEF Screened, ScreenedBut
<1>12. CASE s.registry[w] # NULL /\ s.registry[w] \notin s.visible
  <2>1. d \notin s.hidden => Placed(s, d)
    BY <1>4, <1>5, <1>10, <1>12 DEF Placed, OffScreen
  <2>. QED BY <1>2, <1>3, <1>12, <2>1 DEF Screened, ScreenedBut
<1>13. CASE s.registry[w] # NULL /\ c \in s.offscreen /\ s.registry[w] \in s.visible
  <2>1. d \notin s.hidden => Placed(t, d)
    BY <1>4, <1>5, <1>6, <1>7, <1>8, <1>10, <1>13 DEF Placed, OnScreen, Leaving
  <2>2. ASSUME NEW e \in Clients, e # d, t.registry[Win(e)] # NULL, e \notin t.hidden
        PROVE  Placed(t, e)
    <3>1. Placed(s, e) BY <1>3, <1>7, <2>2 DEF ScreenedBut
    <3>2. e \in t.offscreen <=> e \in s.offscreen BY <1>6, <1>7, <1>13, <2>2
    <3>3. Same(s, t, Win(e)) BY <1>7 DEF Same, Coming, Leaving
    <3>. QED BY <1>7, <3>1, <3>2, <3>3, PlacedStill
  <2>3. Screened(t) BY <1>3, <1>7, <2>1, <2>2 DEF Screened, ScreenedBut
  <2>. QED BY <1>2, <1>13, <2>3
<1>14. CASE s.registry[w] = NULL
  <2>1. c = NULL BY <1>14, RegisteredClientFound DEF c
  <2>2. c \notin s.offscreen BY <2>1, ConstantsAssumption DEF Good, State, Clients
  <2>. QED BY <1>2, <1>9, <1>14, <2>2
<1>. QED BY <1>11, <1>12, <1>13, <1>14

\* client_unmap_window: a client that was not taken off screen is hidden; the
\* event of one that is coming back was the first of two.
LEMMA UnmapNotifyScreened ==
  ASSUME NEW w \in Windows, NEW o, NEW s, Sound(s), Good(s), Taking(o, s, w),
         Coming(o, w) => Coming(s, w),
         Coming(o, w) /\ Leaving(o, w) => Leaving(s, w)
  PROVE  Screened(HandleUnmapNotify(s, w))
<1>. DEFINE c  == RegisteredClient(s, w)
            d  == <<w, 0>>
            i  == s.registry[w]
            u  == [s EXCEPT !.hidden = @ \cup {c}]
            s1 == IF c \in s.offscreen THEN s ELSE u
            r  == WorkspaceResetFocus(s1, i)
<1>1. Remaps = 0 BY DEF Sound, SoundBut
<1>2. HandleUnmapNotify(s, w) = IF c = NULL THEN s ELSE IF c \in s.focused THEN r ELSE s1
  BY Zenon DEF HandleUnmapNotify
<1>3. ScreenedBut(s, {d}) BY DEF Taking
<1>4. d \in Clients /\ Win(d) = w BY <1>1, OneClient
<1>5. /\ s.win = o.win /\ s.registry = o.registry
      /\ s.live = o.live /\ s.hidden = o.hidden /\ s.offscreen = o.offscreen
      /\ s.visible = o.visible /\ Screened(o)
  BY DEF Taking
<1>6. IF i = NULL THEN c = NULL ELSE i \in Workspaces /\ c = d /\ c # NULL /\ c \in s.live
  BY <1>1, <1>4, RegisteredClientFound, OneClient
<1>7. /\ Coming(o, w) => Coming(s, w)
      /\ Coming(o, w) /\ Leaving(o, w) => Leaving(s, w)
  OBVIOUS
<1>8. CASE i = NULL
  <2>1. Screened(s) BY <1>3, <1>4, <1>8 DEF Screened, ScreenedBut
  <2>. QED BY <1>2, <1>6, <1>8, <2>1
<1>9. CASE i # NULL
  <2>1. /\ u \in State /\ SameLists(s, u) /\ SameFocus(s, u) /\ SameScreens(s, u)
        /\ u.hidden = s.hidden \cup {c} /\ u.win = s.win /\ u.queue = s.queue
        /\ u.grabs = s.grabs /\ u.focused = s.focused /\ u.offscreen = s.offscreen
    BY <1>6, <1>9 DEF Good, State, SameLists, SameFocus, SameScreens
  <2>. HIDE DEF c, d, u, i
  <2>2. Sound(u)
    <3>1. Homes(u) /\ Allocated(u) /\ Actives(u) /\ GrabbedBut(u, {}) /\ Doomed(u)
      BY <2>1
      DEF Sound, SoundBut, Homes, Allocated, Actives, GrabbedBut, Doomed, Told, SameLists
    <3>. QED BY <1>6, <1>9, <2>1, <3>1 DEF Sound, SoundBut, SameLists
  <2>3. Screened(u)
    <3>1. ASSUME NEW e \in Clients, u.registry[Win(e)] # NULL, e \notin u.hidden
          PROVE  Placed(u, e)
      <4>1. e # d /\ e \notin s.hidden BY <1>6, <1>9, <2>1, <3>1
      <4>2. Placed(s, e) BY <1>3, <2>1, <3>1, <4>1 DEF ScreenedBut, SameLists
      <4>3. Same(s, u, Win(e)) BY <2>1 DEF Same, Coming, Leaving
      <4>. QED BY <2>1, <4>2, <4>3, PlacedStill DEF SameLists, SameScreens
    <3>. QED BY <1>3, <2>1, <3>1 DEF Screened, ScreenedBut, SameLists
  <2>4. ASSUME c \in s.offscreen PROVE Screened(s)
    <3>1. ASSUME s.registry[Win(d)] # NULL, d \notin s.hidden PROVE Placed(s, d)
      <4>1. Placed(o, d) BY <1>4, <1>5, <3>1 DEF Screened, ScreenedBut
      <4>2. CASE s.registry[w] \notin s.visible
        BY <1>4, <1>5, <4>1, <4>2 DEF Placed, OffScreen
      <4>3. CASE s.registry[w] \in s.visible
        <5>1. OnScreen(o, d) BY <1>4, <1>5, <4>1, <4>3 DEF Placed
        <5>2. s.win[w] = "gone" \/ Coming(o, w)
          BY <1>4, <1>5, <1>6, <1>9, <2>4, <5>1 DEF OnScreen
        <5>3. OnScreen(s, d) BY <1>4, <1>5, <1>7, <5>1, <5>2 DEF OnScreen
        <5>. QED BY <1>4, <4>3, <5>3 DEF Placed
      <4>. QED BY <4>2, <4>3
    <3>. QED BY <1>3, <3>1 DEF Screened, ScreenedBut
  <2>5. Sound(s1) /\ Screened(s1) /\ SameFocus(s, s1)
    BY <2>1, <2>2, <2>3, <2>4 DEF SameFocus
  <2>. HIDE DEF s1
  <2>6. Focused(s1) BY <2>5 DEF Good, Focused, SameFocus
  <2>7. Quiet(s1, r) BY <1>6, <1>9, <2>5, <2>6, WorkspaceResetFocusSound
  <2>. HIDE DEF r
  <2>8. Screened(r) BY <2>5, <2>7, QuietScreened DEF Screened
  <2>. QED BY <1>2, <1>6, <1>9, <2>5, <2>8
<1>. QED BY <1>8, <1>9

\* client_handle_destroy_notify.
LEMMA DestroyNotifyScreened ==
  ASSUME NEW o, Sound(o), Good(o), NEW w \in Windows, NEW s, Handling(o, s, w), Good(s),
         Screened(s), s.registry[w] = NULL => Sound(s)
  PROVE  Screened(HandleDestroyNotify(s, w))
<1>. DEFINE c == RegisteredClient(s, w)
            i == s.registry[w]
            a == s.activeIndex
            f == WorkspaceResetFocus(s, a)
            r == WorkspaceRemoveClient(s, i, c)
            t == ClientDestroy(r, c)
<1>1. HandleDestroyNotify(s, w) = IF i = NULL THEN f ELSE IF c = NULL THEN s ELSE t
  BY Zenon DEF HandleDestroyNotify
<1>2. s \in State /\ SameLists(o, s) BY DEF Handling
<1>3. Focused(s) /\ Focused(o) /\ Remaps = 0 BY DEF Good, Sound, SoundBut
<1>4. CASE i = NULL
  <2>1. a \in Workspaces BY <1>2 DEF State
  <2>2. Quiet(s, f) BY <1>3, <1>4, <2>1, WorkspaceResetFocusSound
  <2>. HIDE DEF f
  <2>. QED BY <1>1, <1>4, <2>2, QuietScreened DEF Screened
<1>5. CASE i # NULL
  <2>1. RegisteredClient(o, w) = c /\ o.registry[w] = i
    <3>1. o.registry[w] = i /\ o.clients = s.clients BY <1>2 DEF SameLists
    <3>2. Nodes(s, i, w) = Nodes(o, i, w) BY <3>1 DEF Nodes
    <3>3. FirstNode(s, i, w) = FirstNode(o, i, w) BY <3>2, Zenon DEF FirstNode
    <3>4. FindClient(s, i, w) = FindClient(o, i, w) BY <3>1, <3>2, <3>3 DEF FindClient
    <3>. QED BY <3>1, <3>4 DEF RegisteredClient
  <2>2. i \in Workspaces /\ c \in Clients /\ Win(c) = w /\ c # NULL
    BY <1>5, <2>1, RegisteredClientFound
  <2>. HIDE DEF c, i
  <2>3. /\ Sound(r) /\ r.registry = [s.registry EXCEPT ![w] = NULL]
        /\ r.live = s.live /\ r.hidden = s.hidden /\ r.win = s.win /\ r.queue = s.queue
        /\ r.visible = s.visible /\ r.offscreen = s.offscreen
    <3>1. Handling(o, s, Win(c)) /\ o.registry[Win(c)] = i BY <2>1, <2>2
    <3>2. /\ Sound(r) /\ r.registry = [s.registry EXCEPT ![Win(c)] = NULL]
          /\ r.live = s.live /\ r.hidden = s.hidden /\ r.win = s.win /\ r.queue = s.queue
          /\ r.visible = s.visible /\ r.offscreen = s.offscreen
      BY <1>3, <2>2, <3>1, WorkspaceRemoveClientSound
    <3>. HIDE DEF r
    <3>. QED BY <2>2, <3>2
  <2>. HIDE DEF r
  <2>4. ScreenedBut(s, {c}) BY DEF Screened, ScreenedBut
  <2>5. ScreenedBut(r, {c}) BY <1>2, <1>3, <2>2, <2>3, <2>4, MovingScreened
  <2>6. r \in State BY <2>3 DEF Sound, SoundBut
  <2>7. /\ t.live = r.live \ {c} /\ t.hidden = r.hidden \ {c} /\ t.offscreen = r.offscreen \ {c}
        /\ t.registry = r.registry /\ t.win = r.win /\ t.queue = r.queue
        /\ t.visible = r.visible
    BY <2>6 DEF ClientDestroy, State
  <2>. HIDE DEF t
  <2>8. ASSUME NEW d \in Clients, t.registry[Win(d)] # NULL, d \notin t.hidden
        PROVE  Placed(t, d)
    <3>1. d # c BY <1>2, <2>2, <2>3, <2>7, <2>8 DEF State
    <3>2. Placed(r, d) BY <2>5, <2>7, <2>8, <3>1 DEF ScreenedBut
    <3>3. Same(r, t, Win(d)) BY <2>7 DEF Same, Coming, Leaving
    <3>. QED BY <2>7, <3>1, <3>2, <3>3, PlacedStill
  <2>9. t.offscreen \subseteq t.live /\ \A d \in t.live : Win(d) \notin Docks
    BY <2>5, <2>7 DEF ScreenedBut
  <2>10. Screened(t) BY <2>8, <2>9 DEF Screened, ScreenedBut
  <2>. QED BY <1>1, <1>5, <2>2, <2>10 DEF i
<1>. QED BY <1>4, <1>5

\* The handlers that only turn the focus.
LEMMA FocusHandlersQuiet ==
  ASSUME NEW s, Sound(s), Good(s), NEW w \in Windows, NEW mode
  PROVE  /\ Quiet(s, HandleButtonPress(s, w))
         /\ Quiet(s, HandleConfigureRequest(s, w, mode))
         /\ Quiet(s, HandleActiveWindow(s, w))
<1>1. s \in State /\ Focused(s) BY DEF Good
<1>2. Quiet(s, s) BY DEF Quiet
<1>. DEFINE c == RegisteredClient(s, w)
            i == s.registry[w]
            f == WorkspaceFocusClient(s, i, c)
            u == WorkspaceUnfocusClient(s, i, c)
            t == [f EXCEPT !.frozen = NULL]
<1>3. ASSUME c # NULL PROVE Quiet(s, f) /\ Quiet(s, u) /\ Quiet(s, t)
  <2>1. c \in Clients /\ i \in Workspaces BY <1>3, RegisteredClientFound
  <2>. HIDE DEF c, i
  <2>2. Sound(f) /\ Quiet(s, f) BY <1>1, <2>1, WorkspaceFocusClientSound
  <2>3. Quiet(s, u) BY <1>1, <2>1, WorkspaceUnfocusClientSound
  <2>. HIDE DEF f, u
  <2>4. f \in State BY <2>2 DEF Sound, SoundBut
  <2>5. Quiet(f, t) BY <2>4 DEF State, Quiet
  <2>. HIDE DEF t
  <2>6. Quiet(s, t) BY <2>2, <2>5 DEF Quiet
  <2>. QED BY <2>2, <2>3, <2>6
<1>4. HandleButtonPress(s, w)
        = IF c = NULL \/ MonitorsOf(s, i) = {} \/ ~MayFocus(s, i, c) THEN s ELSE t
  BY Zenon DEF HandleButtonPress
<1>5. HandleConfigureRequest(s, w, mode)
        = IF c = NULL \/ MonitorsOf(s, i) = {} THEN s ELSE IF mode = "raise" THEN f ELSE u
  BY Zenon DEF HandleConfigureRequest
<1>6. Quiet(s, HandleActiveWindow(s, w))
  <2>. DEFINE l == FindListedClient(s, w)
  <2>1. l \in OptClient BY <1>1, FindListedClientTyped
  <2>2. HandleActiveWindow(s, w)
          = IF l = NULL THEN XFocus(s, w)
            ELSE IF l \in s.focused THEN s ELSE ClientSetFocused(s, l)
    BY Zenon DEF HandleActiveWindow
  <2>. HIDE DEF l
  <2>3. Quiet(s, XFocus(s, w)) BY InputSound
  <2>4. Quiet(s, ClientSetFocused(s, l)) BY <1>1, <2>1, ClientSetFocusedKeeps
  <2>. QED BY <1>2, <2>2, <2>3, <2>4
<1>. HIDE DEF c, i, f, u, t
<1>. QED BY <1>2, <1>3, <1>4, <1>5, <1>6

\* Each event.
LEMMA EventLoopScreened ==
  ASSUME Sound(state), Good(state), Screened(state), EventLoop
  PROVE  Screened(state')
<1>. DEFINE rest == [state EXCEPT !.queue = Tail(@)]
            Taken(type, w) == state.queue # <<>> /\ Head(state.queue) = Event(type, w)
<1>1. ASSUME NEW type, NEW w \in Windows, Taken(type, w)
      PROVE  /\ Good(rest) /\ Handling(state, rest, w) /\ Taking(state, rest, w)
             /\ type # "DestroyNotify" \/ state.registry[w] = NULL => Sound(rest)
             /\ type # "MapNotify" => (Coming(state, w) => Coming(rest, w))
             /\ type # "UnmapNotify" \/ Coming(state, w) =>
                  (Leaving(state, w) => Leaving(rest, w))
             /\ type \notin {"MapNotify", "UnmapNotify"} => Screened(rest)
  <2>1. /\ Good(rest) /\ Handling(state, rest, w)
        /\ type # "DestroyNotify" \/ state.registry[w] = NULL => Sound(rest)
    BY <1>1, TakeHead
  <2>2. /\ Taking(state, rest, w)
        /\ type # "MapNotify" => (Coming(state, w) => Coming(rest, w))
        /\ type # "UnmapNotify" \/ Coming(state, w) =>
             (Leaving(state, w) => Leaving(rest, w))
        /\ type \notin {"MapNotify", "UnmapNotify"} => Screened(rest)
    BY <1>1, TakenScreened
  <2>. HIDE DEF rest
  <2>. QED BY <2>1, <2>2
<1>. HIDE DEF rest
<1>2. CASE MapNotify
  <2>1. PICK w \in Windows : Taken("MapNotify", w) /\ state' = HandleMapNotify(rest, w)
    BY <1>2, Zenon DEF MapNotify, Receive, rest
  <2>2. /\ Good(rest) /\ Sound(rest) /\ Taking(state, rest, w)
        /\ Leaving(state, w) => Leaving(rest, w)
    BY <1>1, <2>1
  <2>. QED BY <2>1, <2>2, MapNotifyScreened
<1>3. CASE UnmapNotify
  <2>1. PICK w \in Windows : Taken("UnmapNotify", w) /\ state' = HandleUnmapNotify(rest, w)
    BY <1>3, Zenon DEF UnmapNotify, Receive, rest
  <2>2. /\ Good(rest) /\ Sound(rest) /\ Taking(state, rest, w)
        /\ Coming(state, w) => Coming(rest, w)
        /\ Coming(state, w) /\ Leaving(state, w) => Leaving(rest, w)
    BY <1>1, <2>1
  <2>. QED BY <2>1, <2>2, UnmapNotifyScreened
<1>4. CASE DestroyNotify
  <2>1. PICK w \in Windows : Taken("DestroyNotify", w) /\ state' = HandleDestroyNotify(rest, w)
    BY <1>4, Zenon DEF DestroyNotify, Receive, rest
  <2>2. /\ Good(rest) /\ Handling(state, rest, w) /\ Taking(state, rest, w) /\ Screened(rest)
        /\ state.registry[w] = NULL => Sound(rest)
    BY <1>1, <2>1
  <2>3. rest.registry = state.registry BY <2>2 DEF Taking
  <2>. QED BY <2>1, <2>2, <2>3, DestroyNotifyScreened
<1>5. CASE ButtonPress
  <2>1. PICK w \in Windows : Taken("ButtonPress", w) /\ state' = HandleButtonPress(rest, w)
    BY <1>5, Zenon DEF ButtonPress, Receive, rest
  <2>2. Good(rest) /\ Sound(rest) /\ Screened(rest) BY <1>1, <2>1
  <2>3. Quiet(rest, state') BY <2>1, <2>2, FocusHandlersQuiet
  <2>. QED BY <2>2, <2>3, QuietScreened DEF Screened
<1>. QED BY <1>2, <1>3, <1>4, <1>5 DEF EventLoop

\* client_send_window_to_workspace.
LEMMA WmDesktopScreened ==
  ASSUME NEW s, Sound(s), Good(s), Screened(s), NEW w \in Windows, NEW j
  PROVE  Screened(HandleWmDesktop(s, w, j))
<1>. DEFINE c == FindListedClient(s, w)
<1>1. c # NULL => c \in Clients BY FindListedClientTyped DEF Good, OptClient
<1>2. HandleWmDesktop(s, w, j)
        = IF c = NULL \/ j \notin Workspaces THEN s ELSE SendToWorkspace(s, c, j)
  BY Zenon DEF HandleWmDesktop
<1>. HIDE DEF c
<1>. QED BY <1>1, <1>2, SendToWorkspaceScreened

\* workspace_list_switch_to_workspace.
LEMMA CurrentDesktopScreened ==
  ASSUME NEW s, Sound(s), Good(s), Screened(s), NEW j
  PROVE  Screened(HandleCurrentDesktop(s, j))
<1>1. HandleCurrentDesktop(s, j)
        = IF j \notin Workspaces \/ j \in s.wsFocused THEN s ELSE WorkspaceChangeMonitor(s, j)
  BY DEF HandleCurrentDesktop
<1>2. ASSUME j \in Workspaces, j \notin s.wsFocused PROVE Screened(WorkspaceChangeMonitor(s, j))
  <2>1. Focused(s) /\ Agree(s) /\ j # s.activeIndex BY <1>2 DEF Good, Focused
  <2>. QED BY <1>2, <2>1, WorkspaceChangeMonitorScreened
<1>. QED BY <1>1, <1>2

\* A map request.
LEMMA MapRequestScreened ==
  ASSUME Sound(state), Good(state), Screened(state), NEW w \in Windows, MapRequest(w)
  PROVE  Screened(state')
<1>1. state \in State /\ state.win[w] # "gone" BY DEF Good, MapRequest
<1>2. CASE w \in Docks /\ state' = XMap(state, w)
  <2>. DEFINE s == state
              t == XMap(s, w)
  <2>1. /\ t.visible = s.visible /\ t.offscreen = s.offscreen
        /\ \A v \in Windows \ {w} : Same(s, t, v)
    BY <1>1, XMapScreens
  <2>2. t.registry = s.registry /\ t.live = s.live /\ t.hidden = s.hidden
    BY <1>1, XMapSteady DEF Steady, Lasting
  <2>3. ASSUME NEW d \in Clients, t.registry[Win(d)] # NULL, d \notin t.hidden
        PROVE  Placed(t, d)
    <3>1. d \in s.live BY <2>2, <2>3 DEF Sound, SoundBut, Allocated
    <3>2. Win(d) \notin Docks BY <3>1 DEF Screened, ScreenedBut
    <3>3. Win(d) \in Windows \ {w} BY <1>2, <3>2, WinTyped
    <3>4. Same(s, t, Win(d)) BY <2>1, <3>3
    <3>5. Placed(s, d) BY <2>2, <2>3 DEF Screened, ScreenedBut
    <3>. HIDE DEF t
    <3>. QED BY <2>1, <2>2, <3>4, <3>5, PlacedStill
  <2>. HIDE DEF t
  <2>4. Screened(t) BY <2>1, <2>2, <2>3 DEF Screened, ScreenedBut
  <2>. QED BY <1>2, <2>4 DEF t
<1>3. CASE w \notin Docks /\ \E n \in 0 .. Remaps :
              <<w, n>> \notin state.live /\ state' = RegisterWindow(state, w, <<w, n>>)
  <2>1. PICK n \in 0 .. Remaps : <<w, n>> \notin state.live
                                 /\ state' = RegisterWindow(state, w, <<w, n>>)
    BY <1>3
  <2>2. <<w, n>> \in Clients /\ Win(<<w, n>>) = w BY DEF Clients, Win
  <2>. QED BY <1>1, <1>3, <2>1, <2>2, RegisterWindowScreened
<1>. QED BY <1>2, <1>3 DEF MapRequest

\* An X client unmaps its window: natwm will find out.
LEMMA XUnmapKeepsScreened ==
  ASSUME NEW s, Sound(s), Screened(s), NEW w \in Windows
  PROVE  Screened(XUnmap(s, w))
<1>. DEFINE t == XUnmap(s, w)
<1>1. s \in State BY DEF Sound, SoundBut
<1>2. /\ t.visible = s.visible /\ t.offscreen = s.offscreen
      /\ \A v \in Windows \ {w} : Same(s, t, v)
      /\ Coming(s, w) => Coming(t, w)
      /\ s.win[w] = "mapped" => t.win[w] = "unmapped" /\ Leaving(t, w)
      /\ s.win[w] # "mapped" => t = s
  BY <1>1, XUnmapScreens
<1>3. t.registry = s.registry /\ t.live = s.live /\ t.hidden = s.hidden
  BY <1>1, XUnmapSteady DEF Steady, Lasting
<1>. HIDE DEF t
<1>4. ASSUME NEW d \in Clients, t.registry[Win(d)] # NULL, d \notin t.hidden
      PROVE  Placed(t, d)
  <2>1. Placed(s, d) BY <1>3, <1>4 DEF Screened, ScreenedBut
  <2>2. CASE Win(d) # w
    <3>1. Same(s, t, Win(d)) BY <1>2, <2>2, WinTyped
    <3>. QED BY <1>2, <1>3, <2>1, <3>1, PlacedStill
  <2>3. CASE Win(d) = w /\ s.win[w] = "mapped"
    BY <1>2, <1>3, <2>1, <2>3 DEF Placed, OnScreen, OffScreen
  <2>4. CASE s.win[w] # "mapped" BY <1>2, <2>1, <2>4
  <2>. QED BY <2>2, <2>3, <2>4
<1>5. Screened(t) BY <1>2, <1>3, <1>4 DEF Screened, ScreenedBut
<1>. QED BY <1>5 DEF t

\* An event that is not about mapping follows, and the window of it may go.
LEMMA AppendScreened ==
  ASSUME NEW s \in State, Screened(s), NEW w \in Windows,
         NEW type \in EventTypes \ {"MapNotify"}, NEW t,
         t.queue = Append(s.queue, Event(type, w)),
         \A v \in Windows : t.win[v] = s.win[v] \/ t.win[v] = "gone",
         t.registry = s.registry, t.live = s.live, t.hidden = s.hidden,
         t.visible = s.visible, t.offscreen = s.offscreen
  PROVE  Screened(t)
<1>. DEFINE e  == Event(type, w)
            es == <<e>>
<1>1. s.queue \in Seq(Events) /\ e \in Events BY EventTyped DEF State
<1>2. es \in Seq(Events) /\ t.queue = s.queue \o es BY <1>1, AppendIsConcat
<1>3. \A v : \A n \in 1 .. Len(es) : es[n] # Event("MapNotify", v)
  <2>1. \A v : e # Event("MapNotify", v) BY DEF Event
  <2>2. Len(es) = 1 /\ es[1] = e OBVIOUS
  <2>. HIDE DEF e, es
  <2>. QED BY <2>1, <2>2
<1>. HIDE DEF e, es
<1>4. \A v : (Coming(s, v) => Coming(t, v)) /\ (Leaving(s, v) => Leaving(t, v))
  BY <1>2, <1>3, OthersFollow
<1>5. ASSUME NEW d \in Clients, t.registry[Win(d)] # NULL, d \notin t.hidden
      PROVE  Placed(t, d)
  <2>1. Placed(s, d) BY <1>5 DEF Screened, ScreenedBut
  <2>2. t.win[Win(d)] = s.win[Win(d)] \/ t.win[Win(d)] = "gone" BY WinTyped
  <2>3. Coming(s, Win(d)) => Coming(t, Win(d)) BY <1>4
  <2>4. Leaving(s, Win(d)) => Leaving(t, Win(d)) BY <1>4
  <2>. QED BY <2>1, <2>2, <2>3, <2>4 DEF Placed, OnScreen, OffScreen
<1>. QED BY <1>5 DEF Screened, ScreenedBut

\* A window is destroyed.
LEMMA DestroyWindowScreened ==
  ASSUME Sound(state), Good(state), Screened(state), NEW w \in Windows, DestroyWindow(w)
  PROVE  Screened(state')
<1>. DEFINE s == XUnmap(state, w)
            t == [s EXCEPT !.win[w] = "gone", !.grabs = @ \ {w},
                           !.queue = Append(@, Event("DestroyNotify", w))]
<1>1. s \in State BY XUnmapTyped DEF Good, XOnly
<1>2. Screened(s) BY XUnmapKeepsScreened
<1>3. state' = t BY DEF DestroyWindow
<1>. HIDE DEF s
<1>4. /\ t.win = [s.win EXCEPT ![w] = "gone"]
      /\ t.queue = Append(s.queue, Event("DestroyNotify", w))
      /\ t.registry = s.registry /\ t.live = s.live /\ t.hidden = s.hidden
      /\ t.visible = s.visible /\ t.offscreen = s.offscreen
  BY <1>1 DEF State
<1>5. "DestroyNotify" \in EventTypes \ {"MapNotify"} BY DEF EventTypes
<1>. HIDE DEF t
<1>6. \A v \in Windows : t.win[v] = s.win[v] \/ t.win[v] = "gone" BY <1>1, <1>4 DEF State
<1>7. Screened(t) BY <1>1, <1>2, <1>4, <1>5, <1>6, AppendScreened
<1>. QED BY <1>3, <1>7

\* A click.
LEMMA ClickScreened ==
  ASSUME Good(state), Screened(state), NEW w \in Windows, Click(w)
  PROVE  Screened(state')
<1>. DEFINE t == [state EXCEPT !.frozen = w,
                               !.queue = Append(@, Event("ButtonPress", w))]
<1>1. state \in State /\ state' = t BY DEF Good, Click
<1>2. /\ t.win = state.win /\ t.queue = Append(state.queue, Event("ButtonPress", w))
      /\ t.registry = state.registry /\ t.live = state.live /\ t.hidden = state.hidden
      /\ t.visible = state.visible /\ t.offscreen = state.offscreen
  BY <1>1 DEF State
<1>3. "ButtonPress" \in EventTypes \ {"MapNotify"} BY DEF EventTypes
<1>. HIDE DEF t
<1>4. Screened(t) BY <1>1, <1>2, <1>3, AppendScreened
<1>. QED BY <1>1, <1>4

LEMMA NextScreened ==
  ASSUME Sound(state), Good(state), Screened(state), [Next]_state
  PROVE  Screened(state')
<1>1. CASE EventLoop BY <1>1, EventLoopScreened
<1>2. ASSUME NEW w \in Windows, MapRequest(w) PROVE Screened(state')
  BY <1>2, MapRequestScreened
<1>3. ASSUME NEW w \in Windows, Withdraw(w) PROVE Screened(state')
  BY <1>3, XUnmapKeepsScreened DEF Withdraw
<1>4. ASSUME NEW w \in Windows, DestroyWindow(w) PROVE Screened(state')
  BY <1>4, DestroyWindowScreened
<1>5. ASSUME NEW w \in Windows, Click(w) PROVE Screened(state') BY <1>5, ClickScreened
<1>6. ASSUME NEW w \in Windows, ActiveWindow(w) PROVE Screened(state')
  <2>1. Quiet(state, state') BY <1>6, FocusHandlersQuiet DEF ActiveWindow
  <2>. QED BY <2>1, QuietScreened DEF Screened
<1>7. ASSUME NEW w \in Windows, NEW mode, ConfigureRequest(w, mode) PROVE Screened(state')
  <2>1. Quiet(state, state') BY <1>7, FocusHandlersQuiet DEF ConfigureRequest
  <2>. QED BY <2>1, QuietScreened DEF Screened
<1>8. ASSUME NEW w \in Windows, NEW j, WmDesktop(w, j) PROVE Screened(state')
  BY <1>8, WmDesktopScreened DEF WmDesktop
<1>9. ASSUME NEW j, CurrentDesktop(j) PROVE Screened(state')
  BY <1>9, CurrentDesktopScreened DEF CurrentDesktop
<1>10. CASE UNCHANGED state BY <1>10
<1>11. CASE Next
  BY <1>1, <1>2, <1>3, <1>4, <1>5, <1>6, <1>7, <1>8, <1>9, <1>11, Zenon DEF Next
<1>. QED BY <1>10, <1>11

\* The invariant of what is on the screen is inductive.
LEMMA ScreensInductive == Remaps = 0 /\ Spec => []Screened(state)
<1>1. Remaps = 0 /\ Init => Screened(state)
  <2>. SUFFICES ASSUME Remaps = 0, Init PROVE Screened(state) OBVIOUS
  <2>1. state.registry = [w \in Windows |-> NULL] /\ state.live = {} /\ state.offscreen = {}
    BY DEF Init
  <2>. QED BY <2>1, WinTyped DEF Screened, ScreenedBut
<1>2. LInv /\ Screened(state) /\ [Next]_state => Screened(state)'
  <2>. SUFFICES ASSUME LInv, Screened(state), [Next]_state PROVE Screened(state') OBVIOUS
  <2>. QED BY IInvGood, NextScreened DEF LInv
<1>. QED BY <1>1, <1>2, ListsInductive, PTL DEF Spec

\* Once natwm has handled every event, exactly the clients that are not hidden
\* and whose workspace is on a monitor are mapped, and CLIENT_OFF_SCREEN says so.
THEOREM ScreensSettled == Remaps = 0 /\ Spec => []ScreensSettle
<1>1. LInv /\ Screened(state) => ScreensSettle
  <2>. SUFFICES ASSUME LInv, Screened(state), state.queue = <<>>, NEW i \in Workspaces,
                       NEW c \in Members(state, i) \ state.hidden
                PROVE  IF i \in state.visible
                       THEN state.win[Win(c)] = "mapped" /\ c \notin state.offscreen
                       ELSE state.win[Win(c)] = "unmapped" /\ c \in state.offscreen
    BY DEF ScreensSettle
  <2>1. Sound(state) /\ state \in State BY DEF LInv, Sound, SoundBut
  <2>2. c \in Clients /\ state.registry[Win(c)] = i BY <2>1, LoopOf
  <2>3. i # NULL /\ Win(c) \in Windows BY <2>2, NullNoWorkspace, WinTyped
  <2>4. ~Told(state, Win(c)) /\ ~Coming(state, Win(c)) /\ ~Leaving(state, Win(c))
    <3>1. Len(state.queue) = 0 OBVIOUS
    <3>. QED BY <3>1 DEF Told, Coming, Leaving
  <2>5. state.win[Win(c)] # "gone" BY <2>1, <2>2, <2>3, <2>4 DEF Sound, SoundBut, Doomed
  <2>6. Placed(state, c) BY <2>2, <2>3 DEF Screened, ScreenedBut
  <2>7. state.win[Win(c)] \in WinStates BY <2>1, <2>3 DEF State
  <2>. QED BY <2>2, <2>4, <2>5, <2>6, <2>7 DEF Placed, OnScreen, OffScreen, WinStates
<1>. QED BY <1>1, ListsInductive, ScreensInductive, PTL DEF Spec

-----------------------------------------------------------------------------
(* Where the keyboard is.  natwm turns the focus only to the active client of *)
(* the focused workspace, and resets it when that client goes.                *)

\* The keyboard is with the active client as soon as it can be; without one
\* there is no client to turn to, and the root window has it.
Attentive(s) ==
  LET a == s.activeIndex
      c == s.active[a]
  IN  /\ c = NULL => /\ s.input = Root /\ s.activeWin = Root
                     /\ \A d \in Clients : s.registry[Win(d)] = a => d \in s.hidden
      /\ c # NULL /\ c \notin s.hidden =>
           s.activeWin = Win(c) /\ (s.win[Win(c)] = "mapped" => s.input = Win(c))

\* client_set_unfocused, workspace_set_unfocused and workspace_set_focused
\* leave the keyboard where it is.
LEMMA ClientSetUnfocusedInput ==
  ASSUME NEW s \in State, NEW c
  PROVE  SameInput(s, ClientSetUnfocused(s, c))
BY DEF ClientSetUnfocused, XGrab, SameInput, State

LEMMA WorkspaceSetUnfocusedInput ==
  ASSUME NEW s \in State, NEW i \in Workspaces
  PROVE  SameInput(s, WorkspaceSetUnfocused(s, i))
<1>. DEFINE u == ClientSetUnfocused(s, s.active[i])
<1>1. u \in State BY ActiveTyped, ClientSetUnfocusedTyped
<1>2. SameInput(s, u) BY ClientSetUnfocusedInput
<1>3. WorkspaceSetUnfocused(s, i)
        = IF i \notin s.wsFocused THEN s ELSE [u EXCEPT !.wsFocused = @ \ {i}]
  BY Zenon DEF WorkspaceSetUnfocused
<1>. HIDE DEF u
<1>. QED BY <1>1, <1>2, <1>3 DEF SameInput, State

LEMMA WorkspaceSetFocusedInput ==
  ASSUME NEW s \in State, NEW i \in Workspaces
  PROVE  SameInput(s, WorkspaceSetFocused(s, i))
<1>. DEFINE a == s.activeIndex
            u == WorkspaceSetUnfocused(s, a)
<1>1. a \in Workspaces BY DEF State
<1>2. u \in State BY <1>1, WorkspaceSetUnfocusedTyped
<1>3. SameInput(s, u) BY <1>1, WorkspaceSetUnfocusedInput
<1>4. WorkspaceSetFocused(s, i)
        = IF i \in s.wsFocused THEN s
          ELSE [u EXCEPT !.wsFocused = @ \cup {i}, !.activeIndex = i, !.desktop = i]
  BY Zenon DEF WorkspaceSetFocused
<1>. HIDE DEF u
<1>. QED BY <1>2, <1>3, <1>4 DEF SameInput, State

\* client_set_focused, of the active client of a workspace.
LEMMA ClientSetFocusedAttends ==
  ASSUME NEW ws, NEW s, SoundBut(s, ws), Focused(s), NEW c \in Clients,
         c \notin s.hidden, s.registry[Win(c)] # NULL, ws \subseteq {Win(c)},
         s.active[s.registry[Win(c)]] = c
  PROVE  Attentive(ClientSetFocused(s, c))
<1>. DEFINE w  == Win(c)
            i  == s.registry[w]
            s0 == [s EXCEPT !.focused = @ \cup {c}]
            s1 == XFocus(s0, w)
            s2 == WorkspaceSetFocused(s1, i)
            t  == ClientSetFocused(s, c)
<1>1. s \in State /\ w \in Windows BY WinTyped DEF SoundBut
<1>2. i \in Workspaces BY <1>1 DEF State, OptWorkspace
<1>3. c # NULL BY ConstantsAssumption DEF Clients
<1>4. t = XUngrab(s2, w) BY <1>3, Zenon DEF ClientSetFocused
<1>5. SameLists(s, t) BY <1>1, ClientSetFocusedTyped DEF OptClient
<1>6. Quiet(s, t) /\ t.activeIndex = i BY ClientSetFocusedSound
<1>7. s0 \in State /\ s0.win = s.win /\ SameFocus(s, s0) BY <1>1 DEF State, SameFocus
<1>. HIDE DEF s0, i, w
<1>8. s1 \in State /\ SameFocus(s0, s1) BY <1>1, <1>7, XFocusTyped DEF XOnly
<1>9. s1.activeWin = w /\ (s.win[w] = "mapped" => s1.input = w)
  BY <1>7 DEF XFocus, State
<1>. HIDE DEF s1
<1>10. AtMostFocused(s1) BY <1>7, <1>8 DEF Focused, AtMostFocused, SameFocus
<1>11. s2 \in State /\ SameInput(s1, s2)
  BY <1>2, <1>8, <1>10, WorkspaceSetFocusedTyped, WorkspaceSetFocusedInput DEF Refocused
<1>. HIDE DEF s2
<1>12. SameInput(s2, t) BY <1>4, <1>11 DEF XUngrab, State, SameInput
<1>13. t.active[t.activeIndex] = c BY <1>5, <1>6 DEF SameLists, i, w
<1>. HIDE DEF t
<1>. QED BY <1>3, <1>6, <1>9, <1>11, <1>12, <1>13 DEF Attentive, SameInput, Quiet, t, w

\* focus_client, of a client that is not hidden.
LEMMA FocusClientAttends ==
  ASSUME NEW s, Sound(s), Focused(s), NEW i \in Workspaces, NEW k \in 1 .. Len(s.clients[i]),
         s.clients[i][k] \notin s.hidden
  PROVE  LET t == FocusClient(s, i, k, s.clients[i][k])
         IN  Attentive(t) /\ t.activeIndex = i
<1>. DEFINE c  == s.clients[i][k]
            s1 == ClientSetUnfocused(s, s.active[i])
            q  == ToHead(s.clients[i], k)
            active  == [s1.active EXCEPT ![i] = c]
            clients == [s1.clients EXCEPT ![i] = q]
            s2 == [s1 EXCEPT !.active = active, !.clients = clients]
            t  == FocusClient(s, i, k, c)
<1>1. s \in State BY DEF Sound, SoundBut
<1>2. c \in Clients /\ c \in OptClient /\ c # NULL /\ s.registry[Win(c)] = i
  BY ListedAt, ConstantsAssumption DEF Sound, OptClient, Clients
<1>3. s.clients[i] \in Seq(Clients) /\ Once(s.clients[i])
  BY <1>1, ListTyped DEF Sound, SoundBut, Homes
<1>4. q \in Seq(Clients) /\ Once(q) /\ Elems(q) = Elems(s.clients[i])
  BY <1>3, ToHeadTyped, MovedOnce
<1>5. Sound(s1) /\ Quiet(s, s1) BY <1>1, ActiveTyped, ClientSetUnfocusedSound DEF Sound
<1>6. SameLists(s, s1) /\ SameFocus(s, s1) BY <1>1, ActiveTyped, ClientSetUnfocusedTyped
<1>7. t = ClientSetFocused(s2, c)
  BY <1>5, <1>6 DEF FocusClient, Sound, SoundBut, State, SameLists
<1>8. s1 \in State BY <1>5 DEF Sound, SoundBut
<1>. HIDE DEF s1, q
<1>9. active \in [Workspaces -> OptClient] /\ clients \in [Workspaces -> Seq(Clients)]
  BY <1>2, <1>4, <1>8 DEF State
<1>10. \A j \in Workspaces : active[j] = IF j = i THEN c ELSE s1.active[j]
  BY <1>8 DEF State
<1>. HIDE DEF c, active
<1>11. /\ s2 \in State /\ Quiet(s1, s2) /\ SameFocus(s1, s2) /\ s2.active = active
       /\ s2.clients = clients /\ s2.focused = s1.focused /\ s2.grabs = s1.grabs
  BY <1>8, <1>9 DEF State, Quiet, SameFocus
<1>. HIDE DEF s2
<1>12. SoundBut(s2, {})
  <2>1. Elems(q) = Elems(s1.clients[i]) BY <1>4, <1>6 DEF SameLists
  <2>2. \A j \in Workspaces : \/ s2.active[j] = s1.active[j]
                              \/ s2.active[j] # NULL /\ s1.registry[Win(s2.active[j])] = j
    BY <1>2, <1>5, <1>10, <1>11 DEF Quiet
  <2>3. s2.clients = [s1.clients EXCEPT ![i] = q] BY <1>11
  <2>4. SoundBut(s1, {}) BY <1>5 DEF Sound
  <2>. HIDE DEF active, clients
  <2>. QED BY <1>4, <1>11, <2>1, <2>2, <2>3, <2>4, MovedSound
<1>13. Focused(s2) BY <1>6, <1>11 DEF Focused, SameFocus
<1>14. /\ c \notin s2.hidden /\ s2.registry[Win(c)] = i /\ s2.active[i] = c
       /\ i # NULL /\ {} \subseteq {Win(c)}
  BY <1>2, <1>5, <1>10, <1>11, NullNoWorkspace DEF Quiet, c
<1>15. Attentive(ClientSetFocused(s2, c))
  BY <1>2, <1>12, <1>13, <1>14, ClientSetFocusedAttends
<1>16. ClientSetFocused(s2, c).activeIndex = i
  BY <1>2, <1>12, <1>13, <1>14, ClientSetFocusedSound
<1>. QED BY <1>7, <1>15, <1>16 DEF c

\* workspace_reset_focus, of the focused workspace; of another it does nothing.
LEMMA WorkspaceResetFocusAttends ==
  ASSUME NEW s, Sound(s), Focused(s), NEW i \in Workspaces
  PROVE  IF i = s.activeIndex THEN Attentive(WorkspaceResetFocus(s, i))
         ELSE WorkspaceResetFocus(s, i) = s
<1>. DEFINE t == WorkspaceResetFocus(s, i)
            a == s.active[i]
            r == ResetInputFocus(s)
<1>1. s \in State BY DEF Sound, SoundBut
<1>2. CASE i # s.activeIndex BY <1>2 DEF WorkspaceResetFocus, Focused
<1>3. CASE i = s.activeIndex
  <2>1. i \in s.wsFocused BY <1>3 DEF Focused
  <2>2. a = NULL /\ Showable(s, i) = {} => Attentive(r)
    <3>1. r.input = Root /\ r.activeWin = Root /\ r.active = s.active
          /\ r.activeIndex = s.activeIndex /\ r.registry = s.registry /\ r.hidden = s.hidden
      BY <1>1 DEF ResetInputFocus, State
    <3>2. ASSUME Showable(s, i) = {}, NEW d \in Clients, s.registry[Win(d)] = i
          PROVE  d \in s.hidden
      <4>1. \E k \in 1 .. Len(s.clients[i]) : s.clients[i][k] = d
        BY <3>2, NodeOf DEF Sound
      <4>. QED BY <3>2, <4>1 DEF Showable
    <3>. HIDE DEF r
    <3>. QED BY <1>3, <3>1, <3>2 DEF Attentive
  <2>3. CASE a # NULL
    <3>. DEFINE f == XFocus(s, Win(a))
                g == ClientSetFocused(s, a)
    <3>1. a \in Clients BY <1>1, <2>3, ActiveTyped DEF OptClient
    <3>2. s.registry[Win(a)] = i BY <2>3 DEF Sound, SoundBut, Actives
    <3>3. s.clients[i] # <<>>
      <4>1. \E k \in 1 .. Len(s.clients[i]) : s.clients[i][k] = a
        BY <3>1, <3>2, NodeOf DEF Sound
      <4>. QED BY <4>1
    <3>4. Attentive(f)
      <4>1. /\ f.activeWin = Win(a) /\ f.active = s.active /\ f.activeIndex = s.activeIndex
            /\ f.win = s.win /\ (s.win[Win(a)] = "mapped" => f.input = Win(a))
        BY <1>1 DEF XFocus, State
      <4>. HIDE DEF f
      <4>. QED BY <1>3, <2>3, <4>1 DEF Attentive
    <3>5. a \in s.offscreen => Attentive(g)
      <4>1. CASE a \in s.hidden
        <5>1. g = s BY <4>1 DEF ClientSetFocused
        <5>. HIDE DEF g
        <5>. QED BY <1>3, <2>3, <4>1, <5>1 DEF Attentive
      <4>2. CASE a \notin s.hidden
        <5>1. SoundBut(s, {}) /\ {} \subseteq {Win(a)} /\ s.registry[Win(a)] # NULL
          BY <3>2, NullNoWorkspace DEF Sound
        <5>2. s.active[s.registry[Win(a)]] = a BY <3>2
        <5>. QED BY <3>1, <4>2, <5>1, <5>2, ClientSetFocusedAttends
      <4>. QED BY <4>1, <4>2
    <3>6. t = IF a \in s.offscreen THEN g ELSE f
      BY <2>1, <2>3, <3>3, Zenon DEF WorkspaceResetFocus
    <3>. HIDE DEF f, g, t
    <3>7. Attentive(t) BY <3>4, <3>5, <3>6
    <3>. QED BY <1>3, <3>7 DEF t
  <2>4. CASE a = NULL /\ Showable(s, i) # {}
    <3>. DEFINE k == FirstOf(Showable(s, i))
                g == FocusClient(s, i, k, s.clients[i][k])
    <3>1. Showable(s, i) \subseteq 1 .. Len(s.clients[i]) BY DEF Showable
    <3>2. Showable(s, i) \subseteq Nat BY <1>1, <3>1, ListTyped
    <3>3. k \in Showable(s, i) BY <2>4, <3>2, FirstOfType
    <3>4. k \in 1 .. Len(s.clients[i]) /\ s.clients[i][k] \notin s.hidden
      BY <3>3 DEF Showable
    <3>5. s.clients[i] # <<>> BY <3>4
    <3>. HIDE DEF k
    <3>6. Attentive(g) BY <3>4, FocusClientAttends
    <3>7. t = g BY <2>1, <2>4, <3>5, Zenon DEF WorkspaceResetFocus, k
    <3>. HIDE DEF g, t
    <3>8. Attentive(t) BY <3>6, <3>7
    <3>. QED BY <1>3, <3>8 DEF t
  <2>5. CASE a = NULL /\ Showable(s, i) = {}
    <3>1. t = r BY <2>1, <2>5 DEF WorkspaceResetFocus
    <3>. QED BY <1>3, <2>2, <2>5, <3>1
  <2>. QED BY <2>3, <2>4, <2>5
<1>. QED BY <1>2, <1>3

\* workspace_focus_client and workspace_unfocus_client.
LEMMA WorkspaceFocusClientAttends ==
  ASSUME NEW s, Sound(s), Focused(s), Attentive(s), NEW i \in Workspaces, NEW c \in Clients
  PROVE  Attentive(WorkspaceFocusClient(s, i, c))
<1>. DEFINE k == FirstNode(s, i, Win(c))
            f == FocusClient(s, i, k, c)
<1>1. WorkspaceFocusClient(s, i, c)
        = IF ~MayFocus(s, i, c) THEN s ELSE WorkspaceSetFocused(f, i)
  BY Zenon DEF WorkspaceFocusClient
<1>2. ASSUME MayFocus(s, i, c) PROVE Attentive(f) /\ WorkspaceSetFocused(f, i) = f
  <2>1. /\ k \in 1 .. Len(s.clients[i]) /\ s.clients[i][k] = c /\ c \notin s.hidden
    BY <1>2, NodeOf DEF MayFocus, Sound
  <2>. HIDE DEF k
  <2>2. Attentive(f) /\ f.activeIndex = i BY <2>1, FocusClientAttends
  <2>3. Focused(f) BY <2>1, FocusClientTyped DEF Refocused, Sound, SoundBut
  <2>. HIDE DEF f
  <2>. QED BY <2>2, <2>3 DEF Focused, WorkspaceSetFocused
<1>. HIDE DEF f
<1>. QED BY <1>1, <1>2

LEMMA WorkspaceUnfocusClientAttends ==
  ASSUME NEW s, Sound(s), Focused(s), Attentive(s), NEW i \in Workspaces, NEW c \in Clients
  PROVE  Attentive(WorkspaceUnfocusClient(s, i, c))
<1>. DEFINE t == WorkspaceUnfocusClient(s, i, c)
            k == FirstNode(s, i, Win(c))
            d  == s.clients[i][k + 1]
            s1 == IF c \in s.focused THEN WorkspaceFocusClient(s, i, d) ELSE s
            k1 == FirstNode(s1, i, Win(c))
<1>1. s \in State /\ SoundBut(s, {}) BY DEF Sound, SoundBut
<1>2. t = IF Nodes(s, i, Win(c)) = {} \/ k = Len(s.clients[i]) THEN s
          ELSE [s1 EXCEPT !.clients[i] = ToTail(@, k1)]
  BY Zenon DEF WorkspaceUnfocusClient
<1>3. ASSUME ~(Nodes(s, i, Win(c)) = {} \/ k = Len(s.clients[i]))
      PROVE  s1 \in State /\ Attentive(s1)
  <2>1. k \in 1 .. Len(s.clients[i]) BY <1>1, <1>3, NodeOf
  <2>2. k + 1 \in 1 .. Len(s.clients[i]) BY <1>1, <1>3, <2>1, ListTyped
  <2>3. d \in Clients BY <1>1, <2>2, EntryTyped
  <2>. HIDE DEF k, d
  <2>4. WorkspaceFocusClient(s, i, d) \in State /\ Attentive(WorkspaceFocusClient(s, i, d))
    BY <2>3, WorkspaceFocusClientAttends, WorkspaceFocusClientSound DEF Sound, SoundBut
  <2>. QED BY <1>1, <2>4
<1>. HIDE DEF s1
<1>4. ASSUME s1 \in State, Attentive(s1) PROVE Attentive([s1 EXCEPT !.clients[i] = ToTail(@, k1)])
  BY <1>4 DEF Attentive, State
<1>. HIDE DEF t
<1>. QED BY <1>2, <1>3, <1>4 DEF t

-----------------------------------------------------------------------------
(* The keyboard through hiding, showing, moving and removing *)

\* The active client of the focused workspace is registered there.
LEMMA ActiveRegistered ==
  ASSUME NEW ws, NEW s, SoundBut(s, ws)
  PROVE  /\ s.activeIndex \in Workspaces
         /\ s.active[s.activeIndex] # NULL =>
              /\ s.active[s.activeIndex] \in Clients
              /\ Win(s.active[s.activeIndex]) \in Windows
              /\ s.registry[Win(s.active[s.activeIndex])] = s.activeIndex
<1>1. s.activeIndex \in Workspaces BY DEF SoundBut, State
<1>. QED BY <1>1, ActiveTyped, WinTyped DEF SoundBut, Actives, OptClient

\* Unmapping a window, which may be the active client's.
LEMMA XUnmapAttends ==
  ASSUME NEW s, Sound(s), Attentive(s), NEW w \in Windows
  PROVE  Attentive(XUnmap(s, w))
<1>. DEFINE t == XUnmap(s, w)
            a == s.activeIndex
            c == s.active[a]
<1>1. s \in State /\ SoundBut(s, {}) BY DEF Sound, SoundBut
<1>2. CASE s.win[w] # "mapped" BY <1>2 DEF XUnmap
<1>3. CASE s.win[w] = "mapped"
  <2>1. t = XUnmapAll(s, {w}, <<Event("UnmapNotify", w)>>) BY <1>3 DEF XUnmap
  <2>2. /\ t.activeIndex = a /\ t.active = s.active /\ t.activeWin = s.activeWin
        /\ t.registry = s.registry /\ t.hidden = s.hidden
        /\ t.input = IF s.input = w THEN PointerRoot ELSE s.input
        /\ t.win = [v \in Windows |-> IF v = w THEN "unmapped" ELSE s.win[v]]
    BY <1>1, <2>1 DEF XUnmapAll, State
  <2>. HIDE DEF t
  <2>3. t.win[w] = "unmapped" /\ \A v \in Windows : t.win[v] = "mapped" => s.win[v] = "mapped"
    BY <2>2
  <2>4. c # NULL => Win(c) \in Windows BY <1>1, ActiveRegistered
  <2>5. w # Root BY ConstantsAssumption
  <2>6. Attentive(t)
    <3>1. CASE c # NULL /\ Win(c) = w BY <2>2, <2>3, <2>4, <3>1 DEF Attentive
    <3>2. CASE c # NULL /\ Win(c) # w BY <2>2, <2>3, <2>4, <3>2 DEF Attentive
    <3>3. CASE c = NULL BY <2>2, <2>5, <3>3 DEF Attentive
    <3>. QED BY <3>1, <3>2, <3>3
  <2>. QED BY <2>6 DEF t
<1>. QED BY <1>2, <1>3

\* Mapping a window that is not the active client's.
LEMMA XMapAttends ==
  ASSUME NEW s \in State, Attentive(s), NEW w \in Windows,
         s.active[s.activeIndex] # NULL => Win(s.active[s.activeIndex]) # w
  PROVE  Attentive(XMap(s, w))
<1>. DEFINE t == XMap(s, w)
<1>1. /\ t.activeIndex = s.activeIndex /\ t.active = s.active /\ SameInput(s, t)
      /\ t.registry = s.registry /\ t.hidden = s.hidden
      /\ \A v : v # w => t.win[v] = s.win[v]
  <2>1. CASE s.win[w] # "unmapped" BY <2>1 DEF XMap, SameInput
  <2>2. CASE s.win[w] = "unmapped"
    <3>1. t = [s EXCEPT !.win[w] = "mapped", !.queue = Append(@, Event("MapNotify", w))]
      BY <2>2 DEF XMap
    <3>. QED BY <3>1 DEF State, SameInput
  <2>. QED BY <2>1, <2>2
<1>. HIDE DEF t
<1>2. Attentive(t) BY <1>1 DEF Attentive, SameInput
<1>. QED BY <1>2 DEF t

\* client_hide.
LEMMA ClientHideAttends ==
  ASSUME NEW s, Sound(s), Attentive(s), NEW c \in Clients
  PROVE  Attentive(ClientHide(s, c))
<1>. DEFINE s1 == IF c \in s.focused THEN ClientSetUnfocused(s, c) ELSE s
            s2 == [s1 EXCEPT !.offscreen = @ \cup {c}]
            t  == XUnmap(s2, Win(c))
<1>1. ClientHide(s, c) = t BY DEF ClientHide
<1>2. s \in State /\ Win(c) \in Windows /\ c \in OptClient
  BY WinTyped DEF Sound, SoundBut, OptClient
<1>3. /\ Sound(s1) /\ Quiet(s, s1) /\ SameLists(s, s1) /\ SameFocus(s, s1) /\ SameInput(s, s1)
  BY <1>2, ClientSetUnfocusedSound, ClientSetUnfocusedTyped, ClientSetUnfocusedInput
     DEF Sound, Quiet, SameLists, SameFocus, SameInput
<1>. HIDE DEF s1
<1>4. Attentive(s1) BY <1>3 DEF Attentive, Quiet, SameLists, SameFocus, SameInput
<1>5. s1 \in State BY <1>3 DEF Sound, SoundBut
<1>6. /\ s2 \in State /\ SameLists(s1, s2) /\ SameFocus(s1, s2) /\ SameInput(s1, s2)
      /\ Silent(s1, s2) /\ s2.focused = s1.focused /\ s2.grabs = s1.grabs
  BY <1>5 DEF State, SameLists, SameFocus, SameInput, Silent
<1>. HIDE DEF s2
<1>7. Attentive(s2) BY <1>4, <1>6 DEF Attentive, Silent, SameLists, SameFocus, SameInput
<1>8. Sound(s2)
  <2>1. GrabbedBut(s2, {}) BY <1>3, <1>6 DEF Sound, SoundBut, GrabbedBut, Silent
  <2>. QED BY <1>3, <1>6, <2>1, SilentSound DEF Sound
<1>9. Attentive(t) BY <1>2, <1>7, <1>8, XUnmapAttends
<1>. HIDE DEF t
<1>. QED BY <1>1, <1>9

\* client_show, of a client that is not on the focused workspace.
LEMMA ClientShowAttends ==
  ASSUME NEW s, Sound(s), Attentive(s), NEW c \in Clients,
         s.registry[Win(c)] # s.activeIndex
  PROVE  Attentive(ClientShow(s, c))
<1>. DEFINE s1 == [s EXCEPT !.hidden = @ \ {c}]
<1>1. s \in State /\ SoundBut(s, {}) /\ Win(c) \in Windows BY WinTyped DEF Sound, SoundBut
<1>2. /\ s1 \in State /\ SameLists(s, s1) /\ SameFocus(s, s1) /\ SameInput(s, s1)
      /\ s1.win = s.win /\ s1.hidden = s.hidden \ {c}
  BY <1>1 DEF State, SameLists, SameFocus, SameInput
<1>. HIDE DEF s1
<1>3. s.active[s.activeIndex] # NULL =>
        s.active[s.activeIndex] # c /\ Win(s.active[s.activeIndex]) # Win(c)
  BY <1>1, ActiveRegistered
<1>4. Attentive(s1)
  BY <1>2, <1>3 DEF Attentive, SameLists, SameFocus, SameInput
<1>5. Attentive(XMap(s1, Win(c)))
  BY <1>1, <1>2, <1>3, <1>4, XMapAttends DEF SameLists, SameFocus
<1>. QED BY <1>5 DEF ClientShow, s1

\* workspace_change_monitor ends with workspace_reset_focus.
LEMMA WorkspaceChangeMonitorAttends ==
  ASSUME NEW s, Sound(s), Focused(s), Agree(s), Attentive(s), NEW next \in Workspaces,
         next # s.activeIndex
  PROVE  Attentive(WorkspaceChangeMonitor(s, next))
<1>. DEFINE t == WorkspaceChangeMonitor(s, next)
<1>1. \/ t = s
      \/ \E u : /\ Sound(u) /\ Focused(u) /\ u.activeIndex = next
                /\ t = WorkspaceResetFocus(u, next)
  BY WorkspaceChangeMonitorSound
<1>. HIDE DEF t
<1>2. Attentive(t) BY <1>1, WorkspaceResetFocusAttends
<1>. QED BY <1>2 DEF t

\* workspace_add_client makes the client the active one of its workspace.
LEMMA WorkspaceAddClientActive ==
  ASSUME NEW s \in State, NEW i \in Workspaces, NEW c \in Clients
  PROVE  LET t == WorkspaceAddClient(s, i, c)
         IN  /\ SameInput(s, t)
             /\ \A j \in Workspaces : t.active[j] = IF j = i THEN c ELSE s.active[j]
BY DEF WorkspaceAddClient, ClientSetUnfocused, XGrab, SameInput, State

\* workspace_remove_client.
LEMMA WorkspaceRemoveClientAttends ==
  ASSUME NEW o, Sound(o), Focused(o), NEW i \in Workspaces, NEW c \in Clients,
         o.registry[Win(c)] = i, NEW s, Handling(o, s, Win(c)), Attentive(s)
  PROVE  Attentive(WorkspaceRemoveClient(s, i, c))
<1>. DEFINE t == WorkspaceRemoveClient(s, i, c)
            a == s.activeIndex
<1>1. PICK u : /\ Sound(u) /\ Removed(s, u, i, c)
               /\ t = IF s.active[i] = c THEN WorkspaceResetFocus(u, i) ELSE u
  <2>1. Left(s, t, i, c) BY WorkspaceRemoveClientSound
  <2>. QED BY <2>1 DEF Left
<1>2. s \in State /\ SameLists(o, s) /\ SameFocus(o, s) BY DEF Handling
<1>3. a \in Workspaces /\ Win(c) \in Windows /\ a # NULL
  BY <1>2, WinTyped, NullNoWorkspace DEF State
<1>4. u.activeIndex = a /\ Focused(u) BY <1>1, <1>2 DEF Removed, SameFocus, Focused
<1>5. CASE s.active[i] = c /\ i = a
  BY <1>1, <1>4, <1>5, WorkspaceResetFocusAttends
<1>6. CASE ~(s.active[i] = c /\ i = a)
  <2>1. t = u BY <1>1, <1>4, <1>6, WorkspaceResetFocusAttends
  <2>2. u.active[a] = s.active[a] BY <1>1, <1>3, <1>6 DEF Removed
  <2>3. \A d \in Clients : u.registry[Win(d)] = a => s.registry[Win(d)] = a
    BY <1>1, <1>2, <1>3, WinTyped DEF Removed, State
  <2>4. Attentive(u) BY <1>1, <1>4, <2>2, <2>3 DEF Attentive, Removed, SameInput
  <2>. QED BY <2>1, <2>4
<1>. QED BY <1>5, <1>6

\* workspace_list_send_to_workspace, never to the focused workspace.
LEMMA SendToWorkspaceAttends ==
  ASSUME NEW s, Sound(s), Good(s), Attentive(s), NEW c \in Clients, NEW j \in Workspaces
  PROVE  Attentive(SendToWorkspace(s, c, j))
<1>. DEFINE w  == Win(c)
            i  == s.registry[w]
            s1 == ClientHide(s, c)
            r  == WorkspaceRemoveClient(s1, i, c)
            s2 == WorkspaceAddClient(r, j, c)
            s3 == IF j \in s2.visible /\ MonitorsOf(s2, j) # {} THEN ClientShow(s2, c) ELSE s2
<1>1. SendToWorkspace(s, c, j)
        = IF j \in s.wsFocused \/ i = NULL THEN s
          ELSE IF Nodes(s1, i, w) = {} THEN s1 ELSE s3
  BY Zenon DEF SendToWorkspace
<1>2. s \in State /\ Focused(s) /\ w \in Windows /\ Remaps = 0
  BY WinTyped DEF Good, Sound, SoundBut
<1>3. Sound(s1) /\ Steady(s, s1) BY ClientHideSound
<1>4. SameFocus(s, s1) BY <1>2, ClientHideTyped
<1>5. Attentive(s1) BY ClientHideAttends
<1>6. ASSUME j \notin s.wsFocused, i # NULL
      PROVE  Attentive(s3)
  <2>1. i \in Workspaces BY <1>2, <1>6 DEF State, OptWorkspace
  <2>. HIDE DEF s1, w
  <2>2. s1.registry[w] = i BY <1>3 DEF Steady, Lasting
  <2>3. s1 \in State /\ Focused(s1) BY <1>2, <1>3, <1>4 DEF Sound, SoundBut, Focused, SameFocus
  <2>4. Handling(s1, s1, w) BY <2>3 DEF Handling, SameLists, SameFlags, SameFocus
  <2>. HIDE DEF i
  <2>5. /\ Sound(r) /\ r.activeIndex = s1.activeIndex
        /\ r.registry = [s1.registry EXCEPT ![w] = NULL]
        /\ r.live = s1.live /\ r.win = s1.win /\ r.queue = s1.queue
    BY <1>3, <2>1, <2>2, <2>3, <2>4, WorkspaceRemoveClientSound DEF w
  <2>6. Attentive(r)
    BY <1>3, <1>5, <2>1, <2>2, <2>3, <2>4, WorkspaceRemoveClientAttends DEF w
  <2>. HIDE DEF r
  <2>7. r \in State /\ SoundBut(r, {}) BY <2>5 DEF Sound, SoundBut
  <2>8. r.registry[w] = NULL BY <1>2, <2>3, <2>5 DEF State
  <2>9. i # NULL BY <2>1, NullNoWorkspace
  <2>10. c \in r.live BY <1>3, <2>2, <2>5, <2>9 DEF Sound, SoundBut, Allocated, w
  <2>11. r.win[w] = "gone" => Told(r, w)
    BY <1>2, <1>3, <2>2, <2>5, <2>9 DEF Sound, SoundBut, Doomed, Told
  <2>12. /\ SoundBut(s2, {}) /\ s2.registry = [r.registry EXCEPT ![w] = j]
         /\ s2.hidden = r.hidden /\ s2.win = r.win
    BY <2>7, <2>8, <2>10, <2>11, WorkspaceAddClientSound DEF w
  <2>13. /\ SameInput(r, s2) /\ SameFocus(r, s2)
         /\ \A l \in Workspaces : s2.active[l] = IF l = j THEN c ELSE r.active[l]
    BY <2>7, WorkspaceAddClientActive, WorkspaceAddClientTyped
  <2>. HIDE DEF s2
  <2>14. r.activeIndex \in Workspaces /\ r.activeIndex # j
    BY <1>2, <1>4, <1>6, <2>5, <2>7 DEF Focused, SameFocus, State
  <2>15. \A d \in Clients : s2.registry[Win(d)] = r.activeIndex => r.registry[Win(d)] = r.activeIndex
    BY <1>2, <2>7, <2>12, <2>14, WinTyped DEF State
  <2>16. s2.activeIndex = r.activeIndex /\ s2.active[r.activeIndex] = r.active[r.activeIndex]
    BY <2>13, <2>14 DEF SameFocus
  <2>17. Attentive(s2) BY <2>6, <2>12, <2>13, <2>15, <2>16 DEF Attentive, SameInput
  <2>18. s2.registry[Win(c)] # s2.activeIndex
    BY <1>2, <2>7, <2>12, <2>14, <2>16 DEF State, w
  <2>19. Attentive(ClientShow(s2, c)) BY <2>12, <2>17, <2>18, ClientShowAttends DEF Sound
  <2>. QED BY <2>17, <2>19
<1>. HIDE DEF s1, s3
<1>. QED BY <1>1, <1>5, <1>6

\* client_register_window.
LEMMA RegisterWindowAttends ==
  ASSUME NEW s, Sound(s), Good(s), Attentive(s), NEW w \in Windows, s.win[w] # "gone",
         NEW c \in Clients, Win(c) = w, c \notin s.live
  PROVE  Attentive(RegisterWindow(s, w, c))
<1>. DEFINE i  == s.activeIndex
            s0 == [s EXCEPT !.live = @ \cup {c}]
            s1 == XMap(s0, w)
            s2 == WorkspaceAddClient(s1, i, c)
            t  == ClientSetFocused(s2, c)
<1>1. RegisterWindow(s, w, c) = IF MonitorsOf(s, i) = {} THEN s ELSE t
  BY Zenon DEF RegisterWindow
<1>2. s \in State /\ Focused(s) /\ Remaps = 0 BY DEF Good, Sound, SoundBut
<1>3. i \in Workspaces /\ i # NULL BY <1>2, NullNoWorkspace DEF State
<1>4. s.registry[w] = NULL BY DEF Sound, SoundBut, Allocated
<1>5. c \notin s.hidden BY DEF Sound, SoundBut
<1>6. /\ s0 \in State /\ SameFocus(s, s0) /\ SameFlags(s, s0)
      /\ s0.clients = s.clients /\ s0.active = s.active /\ s0.registry = s.registry
      /\ s0.live = s.live \cup {c} /\ s0.win = s.win /\ s0.queue = s.queue
      /\ s0.grabs = s.grabs
  BY <1>2 DEF State, SameFocus, SameFlags
<1>. HIDE DEF s0, i
<1>7. SoundBut(s0, {w})
  <2>1. Homes(s0) /\ Actives(s0) /\ Doomed(s0)
    BY <1>6 DEF Sound, SoundBut, Homes, Actives, Doomed, Told
  <2>2. Allocated(s0) /\ s0.hidden \subseteq s0.live
    BY <1>6 DEF Sound, SoundBut, Allocated, SameFlags
  <2>3. GrabbedBut(s0, {w}) BY <1>6 DEF Sound, SoundBut, GrabbedBut, SameFlags
  <2>. QED BY <1>2, <1>6, <2>1, <2>2, <2>3 DEF SoundBut
<1>8. XOnly(s0, s1) BY <1>6, XMapTyped
<1>9. /\ Steady(s0, s1) /\ s1.grabs = s0.grabs /\ s1.focused = s0.focused
      /\ s1.hidden = s0.hidden
  BY <1>6, XMapSteady
<1>. HIDE DEF s1
<1>10. SoundBut(s1, {w})
  <2>1. GrabbedBut(s1, {w}) BY <1>6, <1>7, <1>9, SameGrabs DEF SoundBut
  <2>. QED BY <1>7, <1>8, <1>9, <2>1, SteadySound DEF XOnly
<1>11. /\ s1.registry[w] = NULL /\ c \in s1.live /\ c \notin s1.hidden
       /\ s1.win[w] # "gone" /\ s1 \in State
  BY <1>4, <1>5, <1>6, <1>8, <1>9 DEF Steady, Lasting, SameFlags, XOnly
<1>12. /\ SoundBut(s2, {w}) /\ s2.registry = [s1.registry EXCEPT ![w] = i]
       /\ s2.hidden = s1.hidden
  BY <1>3, <1>10, <1>11, WorkspaceAddClientSound
<1>13. s2.active[i] = c /\ SameFocus(s1, s2)
  BY <1>3, <1>11, WorkspaceAddClientActive, WorkspaceAddClientTyped
<1>14. Focused(s2) BY <1>2, <1>6, <1>8, <1>13 DEF XOnly, Focused, SameFocus
<1>. HIDE DEF s2
<1>15. s2.registry[w] = i BY <1>11, <1>12 DEF State
<1>16. c \notin s2.hidden /\ {w} \subseteq {Win(c)} /\ s2.registry[Win(c)] # NULL
       /\ s2.active[s2.registry[Win(c)]] = c
  BY <1>3, <1>11, <1>12, <1>13, <1>15
<1>17. Attentive(t) BY <1>12, <1>14, <1>16, ClientSetFocusedAttends
<1>. HIDE DEF t
<1>. QED BY <1>1, <1>17

-----------------------------------------------------------------------------
(* The keyboard and the handlers *)

\* client_unmap_window hides a client or not, and turns the focus if it had it.
LEMMA UnmapNotifyAttends ==
  ASSUME NEW s, Sound(s), Good(s), Attentive(s), NEW w \in Windows
  PROVE  Attentive(HandleUnmapNotify(s, w))
<1>. DEFINE c  == RegisteredClient(s, w)
            i  == s.registry[w]
            h  == IF c \in s.offscreen THEN s.hidden ELSE s.hidden \cup {c}
            s1 == IF c \in s.offscreen THEN s ELSE [s EXCEPT !.hidden = @ \cup {c}]
            r  == WorkspaceResetFocus(s1, i)
<1>1. HandleUnmapNotify(s, w) = IF c = NULL THEN s ELSE IF c \in s.focused THEN r ELSE s1
  BY Zenon DEF HandleUnmapNotify
<1>2. s \in State /\ Focused(s) BY DEF Good
<1>3. ASSUME c # NULL PROVE Attentive(s1) /\ Attentive(r)
  <2>1. i \in Workspaces /\ c \in Clients /\ c \in s.live
    <3>1. i # NULL BY <1>3, RegisteredClientFound
    <3>. QED BY <3>1, RegisteredClientFound
  <2>. HIDE DEF c, i
  <2>2. h \in SUBSET Clients /\ h \subseteq s.live /\ s.hidden \subseteq h
    BY <1>2, <2>1 DEF Sound, SoundBut, State
  <2>3. s1 = [s EXCEPT !.hidden = h] BY <1>2 DEF State
  <2>. HIDE DEF h
  <2>4. /\ s1 \in State /\ SameLists(s, s1) /\ SameFocus(s, s1) /\ SameInput(s, s1)
        /\ s1.hidden = h /\ s1.win = s.win /\ s1.queue = s.queue /\ s1.grabs = s.grabs
        /\ s1.focused = s.focused
    BY <1>2, <2>2, <2>3 DEF State, SameLists, SameFocus, SameInput
  <2>. HIDE DEF s1
  <2>5. Attentive(s1) BY <2>2, <2>4 DEF Attentive, SameLists, SameFocus, SameInput
  <2>6. Sound(s1)
    BY <2>2, <2>4
       DEF Sound, SoundBut, Homes, Allocated, Actives, GrabbedBut, Doomed, Told, SameLists
  <2>7. Focused(s1) BY <1>2, <2>4 DEF Focused, SameFocus
  <2>8. Attentive(r) BY <2>1, <2>5, <2>6, <2>7, WorkspaceResetFocusAttends
  <2>. QED BY <2>5, <2>8
<1>. HIDE DEF c, s1, r
<1>. QED BY <1>1, <1>3

\* client_handle_destroy_notify.
LEMMA DestroyNotifyAttends ==
  ASSUME NEW o, Sound(o), Good(o), NEW w \in Windows, NEW s, Handling(o, s, w), Good(s),
         Attentive(s), s.registry[w] = NULL => Sound(s)
  PROVE  Attentive(HandleDestroyNotify(s, w))
<1>. DEFINE c == RegisteredClient(s, w)
            i == s.registry[w]
            a == s.activeIndex
            f == WorkspaceResetFocus(s, a)
            r == WorkspaceRemoveClient(s, i, c)
            t == ClientDestroy(r, c)
<1>1. HandleDestroyNotify(s, w) = IF i = NULL THEN f ELSE IF c = NULL THEN s ELSE t
  BY Zenon DEF HandleDestroyNotify
<1>2. s \in State /\ SameLists(o, s) BY DEF Handling
<1>3. Focused(s) /\ Focused(o) BY DEF Good
<1>4. CASE i = NULL
  <2>1. a \in Workspaces BY <1>2 DEF State
  <2>2. Attentive(f) BY <1>3, <1>4, <2>1, WorkspaceResetFocusAttends
  <2>. QED BY <1>1, <1>4, <2>2
<1>5. CASE i # NULL
  <2>1. RegisteredClient(o, w) = c /\ o.registry[w] = i
    <3>1. o.registry[w] = i /\ o.clients = s.clients BY <1>2 DEF SameLists
    <3>2. Nodes(s, i, w) = Nodes(o, i, w) BY <3>1 DEF Nodes
    <3>3. FirstNode(s, i, w) = FirstNode(o, i, w) BY <3>2, Zenon DEF FirstNode
    <3>4. FindClient(s, i, w) = FindClient(o, i, w) BY <3>1, <3>2, <3>3 DEF FindClient
    <3>. QED BY <3>1, <3>4 DEF RegisteredClient
  <2>2. i \in Workspaces /\ c \in Clients /\ Win(c) = w
    BY <1>5, <2>1, RegisteredClientFound
  <2>. HIDE DEF c, i
  <2>3. Handling(o, s, Win(c)) /\ o.registry[Win(c)] = i BY <2>1, <2>2
  <2>4. Sound(r) /\ r.registry = [s.registry EXCEPT ![Win(c)] = NULL]
    BY <1>3, <2>2, <2>3, WorkspaceRemoveClientSound
  <2>5. Attentive(r) BY <1>3, <2>2, <2>3, WorkspaceRemoveClientAttends
  <2>. HIDE DEF r
  <2>6. r \in State /\ SoundBut(r, {}) BY <2>4 DEF Sound, SoundBut
  <2>7. r.registry[Win(c)] = NULL BY <1>2, <2>2, <2>4 DEF State
  <2>8. /\ SameFocus(r, t) /\ SameInput(r, t)
        /\ t.registry = r.registry /\ t.active = r.active
        /\ t.win = r.win /\ t.hidden = r.hidden \ {c}
    BY <2>6 DEF ClientDestroy, State, SameFocus, SameInput
  <2>. HIDE DEF t
  <2>9. r.activeIndex \in Workspaces /\ r.activeIndex # NULL
    BY <2>6, NullNoWorkspace DEF State
  <2>10. r.active[r.activeIndex] # NULL => r.active[r.activeIndex] # c
    BY <2>6, <2>7, <2>9, ActiveRegistered
  <2>11. Attentive(t)
    BY <2>5, <2>7, <2>8, <2>9, <2>10 DEF Attentive, SameFocus, SameInput
  <2>. QED BY <1>1, <1>5, <2>11 DEF i
<1>. QED BY <1>4, <1>5

\* The handlers that only turn the focus, but for _NET_ACTIVE_WINDOW.
LEMMA FocusHandlersAttend ==
  ASSUME NEW s, Sound(s), Good(s), Attentive(s), NEW w \in Windows, NEW mode
  PROVE  /\ Attentive(HandleButtonPress(s, w))
         /\ Attentive(HandleConfigureRequest(s, w, mode))
<1>1. s \in State /\ Focused(s) BY DEF Good
<1>. DEFINE c == RegisteredClient(s, w)
            i == s.registry[w]
            f == WorkspaceFocusClient(s, i, c)
            u == WorkspaceUnfocusClient(s, i, c)
            t == [f EXCEPT !.frozen = NULL]
<1>2. ASSUME c # NULL PROVE Attentive(f) /\ Attentive(u) /\ Attentive(t)
  <2>1. c \in Clients /\ i \in Workspaces BY <1>2, RegisteredClientFound
  <2>. HIDE DEF c, i
  <2>2. Attentive(f) /\ f \in State
    BY <1>1, <2>1, WorkspaceFocusClientAttends, WorkspaceFocusClientSound DEF Sound, SoundBut
  <2>3. Attentive(u) BY <1>1, <2>1, WorkspaceUnfocusClientAttends
  <2>. HIDE DEF f
  <2>4. Attentive(t) BY <2>2 DEF Attentive, State
  <2>. QED BY <2>2, <2>3, <2>4
<1>3. HandleButtonPress(s, w)
        = IF c = NULL \/ MonitorsOf(s, i) = {} \/ ~MayFocus(s, i, c) THEN s ELSE t
  BY Zenon DEF HandleButtonPress
<1>4. HandleConfigureRequest(s, w, mode)
        = IF c = NULL \/ MonitorsOf(s, i) = {} THEN s ELSE IF mode = "raise" THEN f ELSE u
  BY Zenon DEF HandleConfigureRequest
<1>. HIDE DEF c, i, f, u, t
<1>. QED BY <1>2, <1>3, <1>4

\* Each event.
LEMMA EventLoopAttends ==
  ASSUME Sound(state), Good(state), Attentive(state), EventLoop
  PROVE  Attentive(state')
<1>. DEFINE rest == [state EXCEPT !.queue = Tail(@)]
            Taken(type, w) == state.queue # <<>> /\ Head(state.queue) = Event(type, w)
<1>1. ASSUME NEW type, NEW w \in Windows, Taken(type, w)
      PROVE  /\ Good(rest) /\ Handling(state, rest, w) /\ Attentive(rest)
             /\ type # "DestroyNotify" \/ state.registry[w] = NULL => Sound(rest)
             /\ rest.registry = state.registry
  <2>1. /\ Good(rest) /\ Handling(state, rest, w) /\ rest.registry = state.registry
        /\ type # "DestroyNotify" \/ state.registry[w] = NULL => Sound(rest)
    BY <1>1, TakeHead
  <2>2. Attentive(rest) BY DEF Good, State, Attentive
  <2>. QED BY <2>1, <2>2
<1>. HIDE DEF rest
<1>2. CASE MapNotify
  <2>1. PICK w \in Windows : Taken("MapNotify", w) /\ state' = HandleMapNotify(rest, w)
    BY <1>2, Zenon DEF MapNotify, Receive, rest
  <2>2. Good(rest) /\ Attentive(rest) BY <1>1, <2>1
  <2>. QED BY <2>1, <2>2 DEF HandleMapNotify, Good, State, Attentive
<1>3. CASE UnmapNotify
  <2>1. PICK w \in Windows : Taken("UnmapNotify", w) /\ state' = HandleUnmapNotify(rest, w)
    BY <1>3, Zenon DEF UnmapNotify, Receive, rest
  <2>2. Good(rest) /\ Sound(rest) /\ Attentive(rest) BY <1>1, <2>1
  <2>. QED BY <2>1, <2>2, UnmapNotifyAttends
<1>4. CASE DestroyNotify
  <2>1. PICK w \in Windows : Taken("DestroyNotify", w) /\ state' = HandleDestroyNotify(rest, w)
    BY <1>4, Zenon DEF DestroyNotify, Receive, rest
  <2>2. /\ Good(rest) /\ Handling(state, rest, w) /\ Attentive(rest)
        /\ rest.registry[w] = NULL => Sound(rest)
    BY <1>1, <2>1
  <2>. QED BY <2>1, <2>2, DestroyNotifyAttends
<1>5. CASE ButtonPress
  <2>1. PICK w \in Windows : Taken("ButtonPress", w) /\ state' = HandleButtonPress(rest, w)
    BY <1>5, Zenon DEF ButtonPress, Receive, rest
  <2>2. Good(rest) /\ Sound(rest) /\ Attentive(rest) BY <1>1, <2>1
  <2>. QED BY <2>1, <2>2, FocusHandlersAttend
<1>. QED BY <1>2, <1>3, <1>4, <1>5 DEF EventLoop

\* A map request.
LEMMA MapRequestAttends ==
  ASSUME Sound(state), Good(state), Screened(state), Attentive(state), NEW w \in Windows,
         MapRequest(w)
  PROVE  Attentive(state')
<1>1. state \in State /\ state.win[w] # "gone" BY DEF Good, MapRequest
<1>2. CASE w \in Docks /\ state' = XMap(state, w)
  <2>. DEFINE c == state.active[state.activeIndex]
  <2>1. ASSUME c # NULL PROVE Win(c) # w
    <3>1. /\ state.activeIndex \in Workspaces
          /\ c \in Clients /\ state.registry[Win(c)] = state.activeIndex
      BY <2>1, ActiveRegistered DEF Sound
    <3>2. c \in state.live BY <3>1, NullNoWorkspace DEF Sound, SoundBut, Allocated
    <3>. QED BY <1>2, <3>2 DEF Screened, ScreenedBut
  <2>. QED BY <1>1, <1>2, <2>1, XMapAttends
<1>3. CASE w \notin Docks /\ \E n \in 0 .. Remaps :
              <<w, n>> \notin state.live /\ state' = RegisterWindow(state, w, <<w, n>>)
  <2>1. PICK n \in 0 .. Remaps : <<w, n>> \notin state.live
                                 /\ state' = RegisterWindow(state, w, <<w, n>>)
    BY <1>3
  <2>2. <<w, n>> \in Clients /\ Win(<<w, n>>) = w BY DEF Clients, Win
  <2>. QED BY <1>1, <2>1, <2>2, RegisterWindowAttends
<1>. QED BY <1>2, <1>3 DEF MapRequest

\* A window is destroyed.
LEMMA DestroyWindowAttends ==
  ASSUME Sound(state), Good(state), Attentive(state), NEW w \in Windows, DestroyWindow(w)
  PROVE  Attentive(state')
<1>. DEFINE s == XUnmap(state, w)
            t == [s EXCEPT !.win[w] = "gone", !.grabs = @ \ {w},
                           !.queue = Append(@, Event("DestroyNotify", w))]
<1>1. s \in State BY XUnmapTyped DEF Good, XOnly
<1>2. Attentive(s) BY XUnmapAttends
<1>3. state' = t BY DEF DestroyWindow
<1>. HIDE DEF s
<1>4. /\ \A v : t.win[v] = "mapped" => s.win[v] = "mapped"
      /\ SameFocus(s, t) /\ SameInput(s, t) /\ t.active = s.active
      /\ t.registry = s.registry /\ t.hidden = s.hidden
  BY <1>1 DEF State, SameFocus, SameInput
<1>. HIDE DEF t
<1>5. Attentive(t) BY <1>2, <1>4 DEF Attentive, SameFocus, SameInput
<1>. QED BY <1>3, <1>5

LEMMA NextAttends ==
  ASSUME Sound(state), Good(state), Screened(state), Attentive(state), [Next]_state,
         "activate" \notin Messages
  PROVE  Attentive(state')
<1>1. CASE EventLoop BY <1>1, EventLoopAttends
<1>2. ASSUME NEW w \in Windows, MapRequest(w) PROVE Attentive(state')
  BY <1>2, MapRequestAttends
<1>3. ASSUME NEW w \in Windows, Withdraw(w) PROVE Attentive(state')
  BY <1>3, XUnmapAttends DEF Withdraw
<1>4. ASSUME NEW w \in Windows, DestroyWindow(w) PROVE Attentive(state')
  BY <1>4, DestroyWindowAttends
<1>5. ASSUME NEW w \in Windows, Click(w) PROVE Attentive(state')
  <2>1. state' = [state EXCEPT !.frozen = w,
                               !.queue = Append(@, Event("ButtonPress", w))]
    BY <1>5 DEF Click
  <2>. QED BY <2>1 DEF Good, State, Attentive
<1>6. ASSUME NEW w \in Windows, NEW mode, ConfigureRequest(w, mode) PROVE Attentive(state')
  BY <1>6, FocusHandlersAttend DEF ConfigureRequest
<1>7. ASSUME NEW w \in Windows, NEW j, WmDesktop(w, j) PROVE Attentive(state')
  <2>. DEFINE c == FindListedClient(state, w)
  <2>1. c # NULL => c \in Clients BY FindListedClientTyped DEF Good, OptClient
  <2>2. state' = IF c = NULL \/ j \notin Workspaces THEN state ELSE SendToWorkspace(state, c, j)
    BY <1>7, Zenon DEF WmDesktop, HandleWmDesktop
  <2>. HIDE DEF c
  <2>. QED BY <2>1, <2>2, SendToWorkspaceAttends
<1>8. ASSUME NEW j, CurrentDesktop(j) PROVE Attentive(state')
  <2>1. state' = IF j \notin Workspaces \/ j \in state.wsFocused THEN state
                 ELSE WorkspaceChangeMonitor(state, j)
    BY <1>8, Zenon DEF CurrentDesktop, HandleCurrentDesktop
  <2>2. ASSUME j \in Workspaces, j \notin state.wsFocused
        PROVE  Attentive(WorkspaceChangeMonitor(state, j))
    <3>1. Focused(state) /\ Agree(state) /\ j # state.activeIndex BY <2>2 DEF Good, Focused
    <3>. QED BY <2>2, <3>1, WorkspaceChangeMonitorAttends
  <2>. QED BY <2>1, <2>2
<1>9. ASSUME NEW w \in Windows, ActiveWindow(w) PROVE FALSE
  BY <1>9 DEF ActiveWindow, EnvironmentMay
<1>10. CASE UNCHANGED state BY <1>10
<1>11. CASE Next
  BY <1>1, <1>2, <1>3, <1>4, <1>5, <1>6, <1>7, <1>8, <1>9, <1>11, Zenon DEF Next
<1>. QED BY <1>10, <1>11

\* Once natwm has handled every event, the keyboard is with the active client of
\* the focused workspace or, if that has none to show, with the root window, and
\* _NET_ACTIVE_WINDOW says so.  Another program that asks for a window natwm does
\* not manage to be activated takes the keyboard elsewhere.
THEOREM FocusSettled ==
  Remaps = 0 /\ "activate" \notin Messages /\ Spec => []FocusSettles
<1>. SUFFICES ASSUME "activate" \notin Messages PROVE Remaps = 0 /\ Spec => []FocusSettles
  OBVIOUS
<1>1. Init => Attentive(state)
  <2>. SUFFICES ASSUME Init PROVE Attentive(state) OBVIOUS
  <2>1. /\ state.activeIndex = 0 /\ state.active = [i \in Workspaces |-> NULL]
        /\ state.registry = [w \in Windows |-> NULL]
        /\ state.input = Root /\ state.activeWin = Root
    BY DEF Init
  <2>2. 0 \in Workspaces BY ConstantsAssumption DEF Workspaces
  <2>3. state.active[0] = NULL /\ \A d \in Clients : state.registry[Win(d)] # 0
    BY <2>1, <2>2, WinTyped, NullNoWorkspace
  <2>. QED BY <2>1, <2>3 DEF Attentive
<1>2. LInv /\ Screened(state) /\ Attentive(state) /\ [Next]_state => Attentive(state)'
  <2>. SUFFICES ASSUME LInv, Screened(state), Attentive(state), [Next]_state
                PROVE  Attentive(state')
    OBVIOUS
  <2>. QED BY IInvGood, NextAttends DEF LInv
<1>3. LInv /\ Screened(state) /\ Attentive(state) /\ FocusedWorkspaceShown => FocusSettles
  <2>. DEFINE a == state.activeIndex
              c == state.active[a]
  <2>. SUFFICES ASSUME LInv, Screened(state), Attentive(state), FocusedWorkspaceShown,
                       state.queue = <<>>
                PROVE  /\ c = NULL => /\ Showable(state, a) = {}
                                      /\ state.input = Root /\ state.activeWin = Root
                       /\ c # NULL /\ c \notin state.hidden =>
                            state.input = Win(c) /\ state.activeWin = Win(c)
    BY DEF FocusSettles
  <2>1. Sound(state) /\ Good(state) /\ state \in State
    BY IInvGood DEF LInv, Sound, SoundBut
  <2>2. a \in Workspaces BY <2>1 DEF State
  <2>3. CASE c = NULL
    <3>1. \A d \in Clients : state.registry[Win(d)] = a => d \in state.hidden
      BY <2>3 DEF Attentive
    <3>2. Showable(state, a) = {}
      BY <2>1, <2>2, <3>1, ListedAt DEF Showable, Sound
    <3>. QED BY <2>3, <3>2 DEF Attentive
  <2>4. CASE c # NULL /\ c \notin state.hidden
    <3>1. c \in Clients /\ Win(c) \in Windows /\ state.registry[Win(c)] = a /\ a # NULL
      BY <2>1, <2>2, <2>4, ActiveRegistered, NullNoWorkspace DEF Sound
    <3>2. ~Told(state, Win(c)) /\ ~Leaving(state, Win(c))
      <4>1. Len(state.queue) = 0 OBVIOUS
      <4>. QED BY <4>1 DEF Told, Leaving
    <3>3. a \in state.visible
      BY <2>1, <3>1 DEF Good, Agree, FocusedWorkspaceShown, MonitorsOf
    <3>4. OnScreen(state, c) BY <2>4, <3>1, <3>3 DEF Screened, ScreenedBut, Placed
    <3>5. state.win[Win(c)] # "gone" BY <2>1, <3>1, <3>2 DEF Sound, SoundBut, Doomed
    <3>6. state.win[Win(c)] = "mapped"
      BY <2>1, <3>1, <3>2, <3>4, <3>5 DEF State, WinStates, OnScreen
    <3>. QED BY <2>4, <3>6 DEF Attentive
  <2>. QED BY <2>3, <2>4
<1>4. Remaps = 0 /\ Spec => []FocusedWorkspaceShown BY FocusOnScreen
<1>. QED BY <1>1, <1>2, <1>3, <1>4, ListsInductive, ScreensInductive, PTL DEF Spec

-----------------------------------------------------------------------------
(* Calm: natwm's own requests.  An UnmapNotify that natwm has caused itself   *)
(* finds the flag set: a MapNotify, which clears it, is never before it.      *)

Ending(s, w) == \E k \in 1 .. Len(s.queue) : s.queue[k] = Event("UnmapNotify", w)

Flagged(s, w) ==
  \/ s.win[w] = "gone"
  \/ \A c \in Clients : Win(c) = w /\ s.registry[w] # NULL => c \in s.offscreen

Unhidden(s) == \A c \in s.hidden : s.win[Win(c)] = "gone"

MapsLast(s) ==
  \A w \in Windows : \A k, l \in 1 .. Len(s.queue) :
    s.queue[k] = Event("MapNotify", w) /\ s.queue[l] = Event("UnmapNotify", w) => l < k

NoMaps(s) == \A w \in Windows : ~Coming(s, w)

Tame(s) ==
  Unhidden(s) /\ MapsLast(s) /\ \A w \in Windows : Ending(s, w) => Flagged(s, w)

\* Windows of clients that come off the screen are unmapped.
Hides(s, t) ==
  \E es \in Seq(Events), ws \in SUBSET Windows :
    /\ t.queue = s.queue \o es
    /\ \A n \in 1 .. Len(es) : \E w \in ws : es[n] = Event("UnmapNotify", w)
    /\ \A w \in ws : s.win[w] = "mapped"
    /\ \A c \in Clients : /\ Win(c) \in ws /\ c \notin s.hidden => c \in t.offscreen
                          /\ c \in s.offscreen => c \in t.offscreen

\* No window is unmapped.
Shows(s, t) ==
  \E es \in Seq(Events) :
    /\ t.queue = s.queue \o es
    /\ \A n \in 1 .. Len(es) : \A w \in Windows : es[n] # Event("UnmapNotify", w)

\* Where an event is in a longer queue.
LEMMA InJoined ==
  ASSUME NEW q \in Seq(Events), NEW es \in Seq(Events), NEW r, r = q \o es
  PROVE  \A k \in 1 .. Len(r) :
           \/ k \in 1 .. Len(q) /\ r[k] = q[k]
           \/ k > Len(q) /\ \E n \in 1 .. Len(es) : r[k] = es[n]
<1>1. Len(q) \in Nat /\ Len(es) \in Nat OBVIOUS
<1>2. Len(r) = Len(q) + Len(es)
      /\ \A k \in 1 .. Len(r) : r[k] = IF k <= Len(q) THEN q[k] ELSE es[k - Len(q)]
  BY ConcatProperties
<1>. SUFFICES ASSUME NEW k \in 1 .. Len(r), k \notin 1 .. Len(q)
              PROVE  k > Len(q) /\ k - Len(q) \in 1 .. Len(es)
  BY <1>1, <1>2
<1>. QED BY <1>1, <1>2

\* A client stays hidden, and a window stays flagged.
LEMMA UnhiddenStill ==
  ASSUME NEW s \in State, Unhidden(s), NEW t, Lasting(s, t)
  PROVE  Unhidden(t)
<1>1. \A c \in s.hidden : Win(c) \in Windows BY WinTyped DEF State
<1>. QED BY <1>1 DEF Unhidden, Lasting

LEMMA ShowsTame ==
  ASSUME NEW s \in State, Tame(s), NEW t, Lasting(s, t), Shows(s, t),
         t.offscreen = s.offscreen
  PROVE  Tame(t)
<1>. DEFINE q == s.queue
<1>1. q \in Seq(Events) BY DEF State
<1>2. PICK es \in Seq(Events) :
        /\ t.queue = q \o es
        /\ \A n \in 1 .. Len(es) : \A w \in Windows : es[n] # Event("UnmapNotify", w)
  BY DEF Shows
<1>10. \A k \in 1 .. Len(t.queue) :
        \/ k \in 1 .. Len(q) /\ t.queue[k] = q[k]
        \/ k > Len(q) /\ \E n \in 1 .. Len(es) : t.queue[k] = es[n]
  <2>1. t.queue = q \o es BY <1>2
  <2>. HIDE DEF q
  <2>. QED BY <1>1, <2>1, InJoined
<1>3. Len(q) \in Nat BY <1>1
<1>4. ASSUME NEW w \in Windows, NEW l \in 1 .. Len(t.queue), t.queue[l] = Event("UnmapNotify", w)
      PROVE  l \in 1 .. Len(q) /\ q[l] = Event("UnmapNotify", w)
  <2>1. \/ l \in 1 .. Len(q) /\ t.queue[l] = q[l]
        \/ \E n \in 1 .. Len(es) : t.queue[l] = es[n]
    BY <1>10
  <2>. QED BY <1>2, <1>4, <2>1
<1>5. MapsLast(t)
  <2>. SUFFICES ASSUME NEW w \in Windows, NEW k \in 1 .. Len(t.queue), NEW l \in 1 .. Len(t.queue),
                       t.queue[k] = Event("MapNotify", w), t.queue[l] = Event("UnmapNotify", w)
                PROVE  l < k
    BY DEF MapsLast
  <2>1. l \in 1 .. Len(q) /\ q[l] = Event("UnmapNotify", w) BY <1>4
  <2>2. (k \in 1 .. Len(q) /\ t.queue[k] = q[k]) \/ k > Len(q)
    BY <1>10
  <2>3. CASE k \in 1 .. Len(q) /\ t.queue[k] = q[k]
    <3>1. q[k] = Event("MapNotify", w) BY <2>3
    <3>2. MapsLast(s) BY DEF Tame
    <3>. QED BY <2>1, <2>3, <3>1, <3>2 DEF MapsLast
  <2>4. CASE k > Len(q)
    <3>. HIDE DEF q
    <3>. QED BY <1>3, <2>1, <2>4
  <2>. QED BY <2>2, <2>3, <2>4
<1>6. \A w \in Windows : Ending(t, w) => Ending(s, w) BY <1>4 DEF Ending
<1>7. \A w \in Windows : Flagged(s, w) => Flagged(t, w) BY DEF Flagged, Lasting
<1>. QED BY <1>5, <1>6, <1>7, UnhiddenStill DEF Tame

LEMMA HidesTame ==
  ASSUME NEW s \in State, Tame(s), NoMaps(s), NEW t, Lasting(s, t), Hides(s, t)
  PROVE  Tame(t) /\ NoMaps(t)
<1>. DEFINE q == s.queue
<1>1. q \in Seq(Events) BY DEF State
<1>2. PICK es \in Seq(Events), ws \in SUBSET Windows :
        /\ t.queue = q \o es
        /\ \A n \in 1 .. Len(es) : \E w \in ws : es[n] = Event("UnmapNotify", w)
        /\ \A w \in ws : s.win[w] = "mapped"
        /\ \A c \in Clients : /\ Win(c) \in ws /\ c \notin s.hidden => c \in t.offscreen
                              /\ c \in s.offscreen => c \in t.offscreen
  BY DEF Hides
<1>10. \A k \in 1 .. Len(t.queue) :
        \/ k \in 1 .. Len(q) /\ t.queue[k] = q[k]
        \/ \E n \in 1 .. Len(es) : t.queue[k] = es[n]
  <2>. DEFINE r == t.queue
  <2>1. r = q \o es BY <1>2
  <2>2. q \in Seq(Events) /\ es \in Seq(Events) BY <1>1
  <2>. HIDE DEF q, r
  <2>3. \A k \in 1 .. Len(r) :
           \/ k \in 1 .. Len(q) /\ r[k] = q[k]
           \/ k > Len(q) /\ \E n \in 1 .. Len(es) : r[k] = es[n]
    BY ONLY <2>1, <2>2, InJoined
  <2>4. \A k \in 1 .. Len(r) :
           \/ k \in 1 .. Len(q) /\ r[k] = q[k]
           \/ \E n \in 1 .. Len(es) : r[k] = es[n]
    BY ONLY <2>3
  <2>. QED BY <2>4 DEF r
<1>3. NoMaps(t)
  <2>. SUFFICES ASSUME NEW w \in Windows, NEW k \in 1 .. Len(t.queue),
                       t.queue[k] = Event("MapNotify", w)
                PROVE  FALSE
    BY DEF NoMaps, Coming
  <2>1. CASE k \in 1 .. Len(q) /\ q[k] = Event("MapNotify", w) BY <2>1 DEF NoMaps, Coming
  <2>2. ASSUME NEW n \in 1 .. Len(es), es[n] = Event("MapNotify", w) PROVE FALSE
    <3>1. \A u, v : Event("UnmapNotify", u) # Event("MapNotify", v) BY DEF Event
    <3>. QED BY <1>2, <2>2, <3>1
  <2>3. CASE k \in 1 .. Len(q) /\ t.queue[k] = q[k] BY <2>1, <2>3
  <2>4. CASE \E n \in 1 .. Len(es) : t.queue[k] = es[n] BY <2>2, <2>4
  <2>. QED BY <1>10, <2>3, <2>4
<1>4. MapsLast(t) BY <1>3 DEF MapsLast, NoMaps, Coming
<1>5. ASSUME NEW w \in Windows, Ending(t, w) PROVE Ending(s, w) \/ w \in ws
  <2>1. PICK k \in 1 .. Len(t.queue) : t.queue[k] = Event("UnmapNotify", w)
    BY <1>5 DEF Ending
  <2>2. ASSUME NEW n \in 1 .. Len(es), es[n] = Event("UnmapNotify", w) PROVE w \in ws
    <3>1. PICK v \in ws : es[n] = Event("UnmapNotify", v) BY <1>2
    <3>. QED BY <2>2, <3>1 DEF Event
  <2>3. \/ k \in 1 .. Len(q) /\ t.queue[k] = q[k]
        \/ \E n \in 1 .. Len(es) : t.queue[k] = es[n]
    BY <1>10
  <2>. QED BY <2>1, <2>2, <2>3 DEF Ending
<1>6. ASSUME NEW w \in Windows, Flagged(s, w) PROVE Flagged(t, w)
  BY <1>2, <1>6 DEF Flagged, Lasting
<1>7. ASSUME NEW w \in ws PROVE Flagged(t, w)
  <2>1. \A c \in Clients : Win(c) = w => c \notin s.hidden BY <1>2 DEF Tame, Unhidden
  <2>. QED BY <1>2, <2>1 DEF Flagged
<1>. QED BY <1>3, <1>4, <1>5, <1>6, <1>7, UnhiddenStill DEF Tame

\* Turning the focus.
LEMMA QuietTame ==
  ASSUME NEW s, Tame(s), NEW t, Quiet(s, t)
  PROVE  Tame(t)
BY DEF Quiet, Tame, Unhidden, MapsLast, Ending, Flagged

\* One window is registered elsewhere or nowhere, or one flag changes.
LEMMA OneWindowTame ==
  ASSUME NEW s, Tame(s), NEW t, NEW w \in Windows,
         t.hidden \subseteq s.hidden, t.win = s.win, t.queue = s.queue,
         \A v \in Windows \ {w} : t.registry[v] = s.registry[v],
         \A c \in Clients : Win(c) # w /\ c \in s.offscreen => c \in t.offscreen,
         \/ ~Ending(s, w) \/ t.registry[w] = NULL
         \/ \A c \in Clients : Win(c) = w => c \in t.offscreen
  PROVE  Tame(t)
<1>1. Unhidden(t) /\ MapsLast(t) BY DEF Tame, Unhidden, MapsLast
<1>2. ASSUME NEW v \in Windows, Ending(t, v) PROVE Flagged(t, v)
  <2>1. Ending(s, v) BY <1>2 DEF Ending
  <2>2. Flagged(s, v) BY <2>1 DEF Tame
  <2>. QED BY <2>1, <2>2 DEF Flagged
<1>. QED BY <1>1, <1>2 DEF Tame

\* workspace_hide.
LEMMA WorkspaceHideTame ==
  ASSUME NEW s, Sound(s), Tame(s), NoMaps(s), NEW i \in Workspaces
  PROVE  LET t == WorkspaceHide(s, i) IN Tame(t) /\ NoMaps(t)
<1>0. s \in State /\ Remaps = 0 BY DEF Sound, SoundBut
<1>1. CASE i \notin s.visible BY <1>1 DEF WorkspaceHide
<1>2. CASE i \in s.visible
  <2>. DEFINE loop == Members(s, i) \ s.hidden
              s1 == [s EXCEPT !.wsFocused = @ \ {i}, !.visible = @ \ {i},
                              !.focused = @ \ loop, !.offscreen = @ \cup loop]
              ws == {Win(c) : c \in loop \cap s.focused}
              s2 == XGrab(s1, ws)
              es == LoopEvents(s, i, "mapped", "UnmapNotify")
              wins == LoopWindows(s, i, "mapped")
              t == XUnmapAll(s2, wins, es)
  <2>1. WorkspaceHide(s, i) = t BY <1>2, Zenon DEF WorkspaceHide
  <2>2. \A c : c \in loop <=> c \in Clients /\ s.registry[Win(c)] = i /\ c \notin s.hidden
    BY LoopOf
  <2>3. \A w \in wins : w \in Windows /\ s.registry[w] = i /\ s.win[w] = "mapped" BY LoopOf
  <2>4. \A n \in 1 .. Len(es) : \E w \in wins : es[n] = Event("UnmapNotify", w)
    <3>1. "UnmapNotify" \in EventTypes BY DEF EventTypes
    <3>. QED BY <1>0, <3>1, LoopEventsTell
  <2>5. es \in Seq(Events) /\ wins \in SUBSET Windows BY <1>0, LoopEventsTyped DEF EventTypes
  <2>. HIDE DEF loop, ws, es, wins
  <2>6. s1.queue = s.queue /\ s1.offscreen = s.offscreen \cup loop BY <1>0 DEF State
  <2>7. /\ s1 = [s EXCEPT !.wsFocused = @ \ {i}, !.visible = @ \ {i},
                          !.focused = @ \ loop, !.offscreen = @ \cup loop]
        /\ s2.queue = s1.queue /\ s2.offscreen = s1.offscreen
    BY <1>0 DEF State, XGrab
  <2>8. t.queue = s2.queue \o es /\ t.offscreen = s2.offscreen
    BY <1>0 DEF State, XGrab, XUnmapAll
  <2>9. Lasting(s, t) BY <2>1, WorkspaceHideSound DEF Steady
  <2>. HIDE DEF s1, s2, t
  <2>10. Hides(s, t)
    <3>1. t.queue = s.queue \o es BY <2>6, <2>7, <2>8
    <3>2. \A c \in Clients : /\ Win(c) \in wins /\ c \notin s.hidden => c \in t.offscreen
                             /\ c \in s.offscreen => c \in t.offscreen
      BY <2>2, <2>3, <2>6, <2>7, <2>8
    <3>. QED BY <2>3, <2>4, <2>5, <3>1, <3>2 DEF Hides
  <2>. QED BY <1>0, <2>1, <2>9, <2>10, HidesTame
<1>. QED BY <1>1, <1>2

\* workspace_send_to_monitor.
LEMMA WorkspaceSendToMonitorTame ==
  ASSUME NEW s, Sound(s), Tame(s), NEW i \in Workspaces, NEW m \in Monitors
  PROVE  Tame(WorkspaceSendToMonitor(s, i, m))
<1>. DEFINE t  == WorkspaceSendToMonitor(s, i, m)
            ws == LoopWindows(s, i, "unmapped")
            es == LoopEvents(s, i, "unmapped", "MapNotify")
<1>1. s \in State BY DEF Sound, SoundBut
<1>2. t.queue = s.queue \o es /\ t.offscreen = s.offscreen
  BY <1>1 DEF WorkspaceSendToMonitor, State
<1>3. es \in Seq(Events) BY <1>1, LoopEventsTyped DEF EventTypes
<1>4. \A n \in 1 .. Len(es) : \E w \in ws : es[n] = Event("MapNotify", w)
  <2>1. "MapNotify" \in EventTypes BY DEF EventTypes
  <2>. QED BY <1>1, <2>1, LoopEventsTell
<1>5. Lasting(s, t) BY WorkspaceSendToMonitorSound DEF Steady
<1>. HIDE DEF t, es, ws
<1>6. \A v, w : Event("MapNotify", v) # Event("UnmapNotify", w) BY DEF Event
<1>7. Shows(s, t) BY <1>2, <1>3, <1>4, <1>6 DEF Shows
<1>8. Tame(t) BY <1>1, <1>2, <1>5, <1>7, ShowsTame
<1>. QED BY <1>8 DEF t

\* xcb_map_window.
LEMMA XMapTame ==
  ASSUME NEW s \in State, Tame(s), NEW w \in Windows
  PROVE  Tame(XMap(s, w))
<1>. DEFINE t == XMap(s, w)
            e == Event("MapNotify", w)
            es == <<e>>
<1>1. CASE s.win[w] # "unmapped" BY <1>1 DEF XMap
<1>2. CASE s.win[w] = "unmapped"
  <2>1. s.queue \in Seq(Events) /\ e \in Events BY EventTyped DEF State, EventTypes
  <2>2. es \in Seq(Events) /\ Append(s.queue, e) = s.queue \o es BY <2>1, AppendIsConcat
  <2>3. t.queue = Append(s.queue, e) /\ t.offscreen = s.offscreen BY <1>2 DEF XMap, State
  <2>4. Lasting(s, t) BY XMapSteady DEF Steady
  <2>5. \A n \in 1 .. Len(es) : \A v \in Windows : es[n] # Event("UnmapNotify", v)
    <3>1. \A v : e # Event("UnmapNotify", v) BY DEF Event
    <3>2. Len(es) = 1 /\ es[1] = e OBVIOUS
    <3>. HIDE DEF e, es
    <3>. QED BY <3>1, <3>2
  <2>. HIDE DEF t, e, es
  <2>6. Shows(s, t) BY <2>2, <2>3, <2>5 DEF Shows
  <2>7. Tame(t) BY <2>3, <2>4, <2>6, ShowsTame
  <2>. QED BY <2>7 DEF t
<1>. QED BY <1>1, <1>2

\* workspace_change_monitor.
LEMMA WorkspaceChangeMonitorTame ==
  ASSUME NEW s, Sound(s), Tame(s), NoMaps(s), Focused(s), Agree(s), NEW next \in Workspaces,
         next # s.activeIndex
  PROVE  Tame(WorkspaceChangeMonitor(s, next))
<1>. DEFINE cur  == s.activeIndex
            curM == ActiveMonitor(s)
            nxtM == FirstOf(MonitorsOf(s, next))
            s1   == WorkspaceHide(s, cur)
            s1h  == WorkspaceHide(s1, next)
            s2   == IF next \in s1.visible /\ nxtM # NULL
                    THEN WorkspaceSendToMonitor(s1h, cur, nxtM) ELSE s1
            s3   == WorkspaceSendToMonitor(s2, next, curM)
            s4   == WorkspaceSetFocused(s3, next)
            t    == WorkspaceResetFocus(s4, next)
            Kept(u) == Sound(u) /\ Tame(u) /\ AtMostFocused(u)
<1>0. s \in State BY DEF Sound, SoundBut
<1>1. CASE next \in s.wsFocused \/ curM = NULL BY <1>1 DEF WorkspaceChangeMonitor
<1>2. CASE next \notin s.wsFocused /\ curM # NULL
  <2>1. cur \in Workspaces BY <1>0 DEF State
  <2>2. curM \in Monitors
    <3>1. {m \in Monitors : s.shows[m] \in s.wsFocused} # {} BY <1>2 DEF ActiveMonitor, FirstOf
    <3>. QED BY <3>1, MonitorTyped DEF ActiveMonitor
  <2>3. WorkspaceChangeMonitor(s, next) = t BY <1>2, Zenon DEF WorkspaceChangeMonitor
  <2>4. nxtM # NULL => nxtM \in Monitors
    <3>1. nxtM # NULL => MonitorsOf(s, next) # {} BY DEF FirstOf
    <3>. QED BY <3>1, MonitorTyped DEF MonitorsOf
  <2>5. Kept(s1) /\ NoMaps(s1)
    <3>1. Sound(s1) BY <2>1, WorkspaceHideSound
    <3>2. Tame(s1) /\ NoMaps(s1) BY <2>1, WorkspaceHideTame
    <3>3. AtMostFocused(s1) BY <1>0, <2>1, WorkspaceHideTyped DEF Focused, AtMostFocused
    <3>. QED BY <3>1, <3>2, <3>3
  <2>. HIDE DEF s1, curM, nxtM
  <2>6. Kept(s2)
    <3>1. CASE next \in s1.visible /\ nxtM # NULL
      <4>1. s1 \in State BY <2>5 DEF Sound, SoundBut
      <4>2. Sound(s1h) BY <2>5, WorkspaceHideSound
      <4>3. Tame(s1h) BY <2>5, WorkspaceHideTame
      <4>4. AtMostFocused(s1h) BY <2>5, <4>1, WorkspaceHideTyped DEF AtMostFocused
      <4>. HIDE DEF s1h
      <4>5. s1h \in State BY <4>2 DEF Sound, SoundBut
      <4>6. s2 = WorkspaceSendToMonitor(s1h, cur, nxtM) BY <3>1
      <4>. HIDE DEF s2
      <4>7. Sound(s2) BY <2>1, <2>4, <3>1, <4>2, <4>6, WorkspaceSendToMonitorSound
      <4>8. Tame(s2) BY <2>1, <2>4, <3>1, <4>2, <4>3, <4>6, WorkspaceSendToMonitorTame
      <4>9. AtMostFocused(s2)
        <5>1. SameFocus(s1h, s2)
          BY <2>1, <2>4, <3>1, <4>5, <4>6, WorkspaceSendToMonitorTyped
        <5>. QED BY <4>4, <5>1 DEF AtMostFocused, SameFocus
      <4>. QED BY <4>7, <4>8, <4>9
    <3>2. CASE ~(next \in s1.visible /\ nxtM # NULL) BY <2>5, <3>2
    <3>. QED BY <3>1, <3>2
  <2>. HIDE DEF s2
  <2>7. s2 \in State BY <2>6 DEF Sound, SoundBut
  <2>8. Sound(s3) BY <2>2, <2>6, WorkspaceSendToMonitorSound
  <2>9. Tame(s3) BY <2>2, <2>6, WorkspaceSendToMonitorTame
  <2>10. SameFocus(s2, s3) BY <2>2, <2>7, WorkspaceSendToMonitorTyped
  <2>. HIDE DEF s3
  <2>11. AtMostFocused(s3) BY <2>6, <2>10 DEF AtMostFocused, SameFocus
  <2>12. s3 \in State /\ SoundBut(s3, {}) BY <2>8 DEF Sound, SoundBut
  <2>13. Refocused(s3, s4) BY <2>11, <2>12, WorkspaceSetFocusedTyped
  <2>14. Sound(s4) /\ Quiet(s3, s4) BY <2>11, <2>12, WorkspaceSetFocusedSound DEF Sound
  <2>. HIDE DEF s4
  <2>15. Focused(s4) BY <2>13 DEF Refocused
  <2>16. Quiet(s4, t) BY <2>14, <2>15, WorkspaceResetFocusSound
  <2>. HIDE DEF t
  <2>17. Tame(s4) BY <2>9, <2>14, QuietTame
  <2>. QED BY <2>3, <2>16, <2>17, QuietTame
<1>. QED BY <1>1, <1>2

\* client_hide, of a client that natwm does not take for hidden or that is gone.
LEMMA ClientHideTame ==
  ASSUME NEW s, Sound(s), Tame(s), NoMaps(s), NEW c \in Clients
  PROVE  LET t == ClientHide(s, c) IN Tame(t) /\ c \in t.offscreen
<1>. DEFINE s1 == IF c \in s.focused THEN ClientSetUnfocused(s, c) ELSE s
            offscreen == s1.offscreen \cup {c}
            s2 == [s1 EXCEPT !.offscreen = offscreen]
            w  == Win(c)
            e  == Event("UnmapNotify", w)
            t  == XUnmap(s2, w)
<1>1. s \in State /\ SoundBut(s, {}) /\ Remaps = 0 BY DEF Sound, SoundBut
<1>2. c \in OptClient /\ w \in Windows BY WinTyped DEF OptClient
<1>3. SoundBut(s1, {}) /\ Quiet(s, s1)
  <2>1. CASE c \in s.focused BY <1>1, <1>2, <2>1, ClientSetUnfocusedSound
  <2>2. CASE c \notin s.focused BY <1>1, <2>2 DEF Quiet
  <2>. QED BY <2>1, <2>2
<1>4. ClientHide(s, c) = t BY DEF ClientHide
<1>. HIDE DEF s1
<1>5. s1 \in State BY <1>3 DEF SoundBut
<1>6. offscreen \in SUBSET Clients BY <1>5 DEF State
<1>. HIDE DEF offscreen
<1>7. s2 \in State /\ Silent(s1, s2) /\ s2.offscreen = offscreen BY <1>5, <1>6 DEF State, Silent
<1>. HIDE DEF s2, w
<1>8. Lasting(s, t)
  <2>1. Lasting(s, s1) /\ Lasting(s1, s2) BY <1>3, <1>7, QuietLasting, SilentLasting
  <2>2. Lasting(s2, t) BY <1>2, <1>7, XUnmapSteady DEF Steady
  <2>. QED BY <2>1, <2>2, LastingTransitive
<1>9. s2.win = s.win /\ s2.queue = s.queue /\ s2.offscreen = s.offscreen \cup {c}
  BY <1>3, <1>7 DEF Quiet, Silent, offscreen
<1>10. t.offscreen = s2.offscreen BY <1>7 DEF XUnmap, XUnmapAll, State
<1>11. \A d \in Clients : Win(d) = w => d = c BY <1>1, OneClient DEF w
<1>12. CASE s.win[w] # "mapped"
  <2>1. t = s2 BY <1>9, <1>12 DEF XUnmap
  <2>2. Tame(s2)
    <3>1. s2.hidden = s.hidden /\ s2.registry = s.registry BY <1>3, <1>7 DEF Quiet, Silent
    <3>. QED BY <1>9, <3>1 DEF Tame, Unhidden, MapsLast, Ending, Flagged
  <2>. QED BY <1>4, <1>9, <2>1, <2>2
<1>13. CASE s.win[w] = "mapped"
  <2>1. t.queue = s.queue \o <<e>> BY <1>7, <1>9, <1>13 DEF XUnmap, XUnmapAll, State
  <2>. DEFINE es == <<e>>
              ws == {w}
  <2>2. e \in Events BY <1>2, EventTyped DEF EventTypes
  <2>3. es \in Seq(Events) /\ Len(es) = 1 /\ es[1] = e BY <2>2
  <2>4. t.queue = s.queue \o es BY <2>1
  <2>5. ws \in SUBSET Windows /\ \A v \in ws : s.win[v] = "mapped" BY <1>2, <1>13
  <2>6. \A n \in 1 .. Len(es) : \E v \in ws : es[n] = Event("UnmapNotify", v) BY <2>3
  <2>7. \A d \in Clients : /\ Win(d) \in ws /\ d \notin s.hidden => d \in t.offscreen
                           /\ d \in s.offscreen => d \in t.offscreen
    BY <1>9, <1>10, <1>11
  <2>. HIDE DEF es, ws, t
  <2>8. Hides(s, t) BY <2>3, <2>4, <2>5, <2>6, <2>7 DEF Hides
  <2>. QED BY <1>1, <1>4, <1>8, <1>9, <1>10, <2>8, HidesTame
<1>. QED BY <1>12, <1>13

\* client_show.
LEMMA ClientShowTame ==
  ASSUME NEW s, Sound(s), Tame(s), NEW c \in Clients
  PROVE  Tame(ClientShow(s, c))
<1>. DEFINE s1 == [s EXCEPT !.hidden = @ \ {c}]
<1>1. s \in State /\ Win(c) \in Windows BY WinTyped DEF Sound, SoundBut
<1>2. /\ s1 \in State /\ s1.hidden \subseteq s.hidden /\ s1.win = s.win
      /\ s1.queue = s.queue /\ s1.registry = s.registry /\ s1.offscreen = s.offscreen
  BY <1>1 DEF State
<1>3. ClientShow(s, c) = XMap(s1, Win(c)) BY DEF ClientShow
<1>. HIDE DEF s1
<1>4. Tame(s1) BY <1>2 DEF Tame, Unhidden, MapsLast, Ending, Flagged
<1>. QED BY <1>1, <1>2, <1>3, <1>4, XMapTame

\* workspace_list_send_to_workspace.
LEMMA SendToWorkspaceTame ==
  ASSUME NEW s, Sound(s), Good(s), Tame(s), NoMaps(s), NEW c \in Clients, NEW j \in Workspaces
  PROVE  Tame(SendToWorkspace(s, c, j))
<1>. DEFINE w  == Win(c)
            i  == s.registry[w]
            s1 == ClientHide(s, c)
            r  == WorkspaceRemoveClient(s1, i, c)
            s2 == WorkspaceAddClient(r, j, c)
            s3 == IF j \in s2.visible /\ MonitorsOf(s2, j) # {} THEN ClientShow(s2, c) ELSE s2
<1>1. SendToWorkspace(s, c, j)
        = IF j \in s.wsFocused \/ i = NULL THEN s
          ELSE IF Nodes(s1, i, w) = {} THEN s1 ELSE s3
  BY Zenon DEF SendToWorkspace
<1>2. s \in State /\ Focused(s) /\ w \in Windows /\ Remaps = 0
  BY WinTyped DEF Good, Sound, SoundBut
<1>3. Sound(s1) /\ Steady(s, s1) BY ClientHideSound
<1>4. SameScreens(s, s1) /\ SameFocus(s, s1) BY <1>2, ClientHideTyped
<1>5. CASE j \in s.wsFocused \/ i = NULL BY <1>1, <1>5
<1>6. CASE ~(j \in s.wsFocused \/ i = NULL)
  <2>1. i \in Workspaces BY <1>2, <1>6 DEF State, OptWorkspace
  <2>2. Tame(s1) /\ c \in s1.offscreen BY ClientHideTame
  <2>. HIDE DEF s1, w
  <2>3. s1.registry[w] = i BY <1>3 DEF Steady, Lasting
  <2>4. s1 \in State /\ Focused(s1)
    BY <1>2, <1>3, <1>4 DEF Sound, SoundBut, Focused, SameFocus
  <2>5. Handling(s1, s1, w) BY <2>4 DEF Handling, SameLists, SameFlags, SameFocus
  <2>. HIDE DEF i
  <2>6. /\ Sound(r) /\ r.registry = [s1.registry EXCEPT ![w] = NULL]
        /\ r.live = s1.live /\ r.hidden = s1.hidden /\ r.win = s1.win /\ r.queue = s1.queue
        /\ r.offscreen = s1.offscreen
    BY <1>3, <2>1, <2>3, <2>4, <2>5, WorkspaceRemoveClientSound DEF w
  <2>. HIDE DEF r
  <2>7. r \in State /\ SoundBut(r, {}) BY <2>6 DEF Sound, SoundBut
  <2>8. r.registry[w] = NULL BY <1>2, <2>4, <2>6 DEF State
  <2>9. i # NULL BY <2>1, NullNoWorkspace
  <2>10. c \in r.live BY <1>3, <2>3, <2>6, <2>9 DEF Sound, SoundBut, Allocated, w
  <2>11. r.win[w] = "gone" => Told(r, w)
    BY <1>2, <1>3, <2>3, <2>6, <2>9 DEF Sound, SoundBut, Doomed, Told
  <2>12. /\ SoundBut(s2, {}) /\ s2.registry = [r.registry EXCEPT ![w] = j]
         /\ s2.hidden = r.hidden /\ s2.win = r.win /\ s2.queue = r.queue
         /\ s2.offscreen = r.offscreen
    BY <2>7, <2>8, <2>10, <2>11, WorkspaceAddClientSound DEF w
  <2>. HIDE DEF s2
  <2>13. Tame(s2)
    <3>1. /\ s2.hidden = s1.hidden /\ s2.win = s1.win /\ s2.queue = s1.queue
          /\ s2.offscreen = s1.offscreen
      BY <2>6, <2>12
    <3>2. \A v \in Windows \ {w} : s2.registry[v] = s1.registry[v]
      BY <2>4, <2>6, <2>7, <2>12 DEF State
    <3>3. \A d \in Clients : Win(d) = w => d \in s2.offscreen
      BY <1>2, <2>2, <3>1, OneClient DEF w
    <3>. QED BY <1>2, <2>2, <3>1, <3>2, <3>3, OneWindowTame
  <2>14. Tame(ClientShow(s2, c)) BY <2>12, <2>13, ClientShowTame DEF Sound
  <2>15. Tame(s3) BY <2>13, <2>14
  <2>. HIDE DEF s3
  <2>. QED BY <1>1, <2>2, <2>15
<1>. QED BY <1>5, <1>6

\* client_register_window, when every event is handled.
LEMMA RegisterWindowTame ==
  ASSUME NEW s, Sound(s), Good(s), Tame(s), s.queue = <<>>, NEW w \in Windows,
         s.win[w] # "gone", NEW c \in Clients, Win(c) = w, c \notin s.live
  PROVE  Tame(RegisterWindow(s, w, c))
<1>. DEFINE i  == s.activeIndex
            s0 == [s EXCEPT !.live = @ \cup {c}]
            s1 == XMap(s0, w)
            s2 == WorkspaceAddClient(s1, i, c)
            t  == ClientSetFocused(s2, c)
            e  == Event("MapNotify", w)
<1>1. RegisterWindow(s, w, c) = IF MonitorsOf(s, i) = {} THEN s ELSE t
  BY Zenon DEF RegisterWindow
<1>2. s \in State /\ Focused(s) /\ Remaps = 0 BY DEF Good, Sound, SoundBut
<1>3. i \in Workspaces BY <1>2 DEF State
<1>4. s.registry[w] = NULL BY DEF Sound, SoundBut, Allocated
<1>5. c \notin s.hidden BY DEF Sound, SoundBut
<1>6. /\ s0 \in State /\ SameScreens(s, s0) /\ SameFocus(s, s0) /\ SameFlags(s, s0)
      /\ s0.clients = s.clients /\ s0.active = s.active /\ s0.registry = s.registry
      /\ s0.live = s.live \cup {c} /\ s0.win = s.win /\ s0.queue = <<>>
      /\ s0.grabs = s.grabs
  BY <1>2 DEF State, SameScreens, SameFocus, SameFlags
<1>. HIDE DEF s0, i
<1>7. SoundBut(s0, {w})
  <2>1. Homes(s0) /\ Actives(s0) /\ Doomed(s0)
    BY <1>6 DEF Sound, SoundBut, Homes, Actives, Doomed, Told
  <2>2. Allocated(s0) /\ s0.hidden \subseteq s0.live
    BY <1>6 DEF Sound, SoundBut, Allocated, SameFlags
  <2>3. GrabbedBut(s0, {w}) BY <1>6 DEF Sound, SoundBut, GrabbedBut, SameFlags
  <2>. QED BY <1>2, <1>6, <2>1, <2>2, <2>3 DEF SoundBut
<1>8. Tame(s0) BY <1>6 DEF Tame, Unhidden, MapsLast, Ending, Flagged, SameFlags
<1>9. Tame(s1) BY <1>6, <1>8, XMapTame
<1>10. XOnly(s0, s1) BY <1>6, XMapTyped
<1>11. /\ Steady(s0, s1) /\ s1.grabs = s0.grabs /\ s1.focused = s0.focused
       /\ s1.hidden = s0.hidden
  BY <1>6, XMapSteady
<1>12. ~Ending(s1, w)
  <2>1. s1.queue = <<>> \/ s1.queue = <<e>> BY <1>6 DEF XMap, State
  <2>2. e # Event("UnmapNotify", w) BY DEF Event
  <2>. HIDE DEF s1, e
  <2>3. \A k \in 1 .. Len(s1.queue) : s1.queue[k] = e BY <2>1
  <2>. QED BY <2>2, <2>3 DEF Ending
<1>. HIDE DEF s1
<1>13. SoundBut(s1, {w})
  <2>1. GrabbedBut(s1, {w}) BY <1>6, <1>7, <1>11, SameGrabs DEF SoundBut
  <2>. QED BY <1>7, <1>10, <1>11, <2>1, SteadySound DEF XOnly
<1>14. s1.registry[w] = NULL /\ c \in s1.live /\ c \notin s1.hidden
  BY <1>4, <1>5, <1>6, <1>11 DEF Steady, Lasting, SameFlags
<1>15. s1.win[w] # "gone" BY <1>6, <1>11 DEF Steady, Lasting
<1>16. /\ SoundBut(s2, {w}) /\ s2.registry = [s1.registry EXCEPT ![w] = i]
       /\ s2.hidden = s1.hidden /\ s2.win = s1.win /\ s2.queue = s1.queue
       /\ s2.offscreen = s1.offscreen
  BY <1>3, <1>13, <1>14, <1>15, WorkspaceAddClientSound
<1>17. Focused(s2)
  <2>1. SameFocus(s1, s2) BY <1>3, <1>10, WorkspaceAddClientTyped DEF XOnly
  <2>. QED BY <1>2, <1>6, <1>10, <2>1 DEF XOnly, Focused, SameFocus
<1>. HIDE DEF s2
<1>18. s1 \in State BY <1>10 DEF XOnly
<1>19. Tame(s2)
  <2>1. \A v \in Windows \ {w} : s2.registry[v] = s1.registry[v] BY <1>16, <1>18 DEF State
  <2>. QED BY <1>9, <1>12, <1>16, <2>1, OneWindowTame
<1>20. s2.registry[w] = i /\ i # NULL BY <1>3, <1>16, <1>18, NullNoWorkspace DEF State
<1>21. Quiet(s2, t)
  <2>1. c \notin s2.hidden /\ {w} \subseteq {Win(c)} /\ s2.registry[Win(c)] # NULL
    BY <1>14, <1>16, <1>20
  <2>. QED BY <1>16, <1>17, <2>1, ClientSetFocusedSound
<1>. HIDE DEF t
<1>. QED BY <1>1, <1>19, <1>21, QuietTame

\* A window is destroyed, when every event is handled.
LEMMA DestroyWindowTame ==
  ASSUME Good(state), Tame(state), state.queue = <<>>, NEW w \in Windows, DestroyWindow(w)
  PROVE  Tame(state')
<1>. DEFINE s == XUnmap(state, w)
            u == Event("UnmapNotify", w)
            d == Event("DestroyNotify", w)
            t == [s EXCEPT !.win[w] = "gone", !.grabs = @ \ {w}, !.queue = Append(@, d)]
<1>1. state \in State /\ state' = t BY DEF Good, DestroyWindow
<1>2. s \in State /\ s.queue \in Seq(Events) BY <1>1, XUnmapTyped DEF XOnly, State
<1>3. s.hidden = state.hidden /\ \A v \in Windows : s.win[v] = "gone" <=> state.win[v] = "gone"
  BY <1>1, XUnmapSteady DEF Steady, Lasting
<1>4. s.queue = <<>> \/ s.queue = <<u>> BY <1>1 DEF XUnmap, XUnmapAll, State
<1>5. d \in Events /\ u \in Events BY EventTyped DEF EventTypes
<1>6. d # u /\ \A v : d # Event("UnmapNotify", v) /\ d # Event("MapNotify", v)
                      /\ u # Event("MapNotify", v) /\ (u = Event("UnmapNotify", v) => v = w)
  BY DEF Event
<1>. HIDE DEF s, u, d
<1>7. /\ t.hidden = s.hidden /\ t.queue = Append(s.queue, d)
      /\ t.win = [s.win EXCEPT ![w] = "gone"]
  BY <1>2 DEF State
<1>. HIDE DEF t
<1>8. \A v \in Windows : t.win[v] = IF v = w THEN "gone" ELSE s.win[v] BY <1>2, <1>7 DEF State
<1>9. \A k \in 1 .. Len(t.queue) : t.queue[k] \in {u, d}
  <2>1. \A k \in 1 .. Len(s.queue) : s.queue[k] = u BY <1>4
  <2>2. Len(s.queue) \in Nat /\ Len(t.queue) = Len(s.queue) + 1 BY <1>2, <1>5, <1>7
  <2>3. \A k \in 1 .. Len(t.queue) : t.queue[k] = IF k <= Len(s.queue) THEN s.queue[k] ELSE d
    BY <1>2, <1>5, <1>7, AppendProperties
  <2>. QED BY <2>1, <2>2, <2>3
<1>10. \A c \in s.hidden : Win(c) \in Windows BY <1>2, WinTyped DEF State
<1>11. Unhidden(t) BY <1>3, <1>7, <1>8, <1>10 DEF Tame, Unhidden
<1>12. MapsLast(t) BY <1>6, <1>9 DEF MapsLast
<1>13. \A v \in Windows : Ending(t, v) => v = w BY <1>6, <1>9 DEF Ending
<1>14. Flagged(t, w) BY <1>8 DEF Flagged
<1>. QED BY <1>1, <1>11, <1>12, <1>13, <1>14 DEF Tame

\* A click, when every event is handled.
LEMMA ClickTame ==
  ASSUME Good(state), Tame(state), state.queue = <<>>, NEW w \in Windows, Click(w)
  PROVE  Tame(state')
<1>. DEFINE e == Event("ButtonPress", w)
            t == [state EXCEPT !.frozen = w, !.queue = Append(@, e)]
<1>1. state \in State /\ state' = t BY DEF Good, Click
<1>2. t.win = state.win /\ t.hidden = state.hidden /\ t.queue = <<e>> BY <1>1 DEF State
<1>3. \A v : e # Event("UnmapNotify", v) BY DEF Event
<1>. HIDE DEF t, e
<1>4. \A k \in 1 .. Len(t.queue) : t.queue[k] = e BY <1>2
<1>5. \A v \in Windows : ~Ending(t, v) BY <1>3, <1>4 DEF Ending
<1>6. MapsLast(t) BY <1>3, <1>4 DEF MapsLast
<1>7. Unhidden(t) BY <1>2 DEF Tame, Unhidden
<1>. QED BY <1>1, <1>5, <1>6, <1>7 DEF Tame

\* The next event is taken: of a window that is mapped, no unmapping follows.
LEMMA TakenTame ==
  ASSUME NEW o \in State, Tame(o), o.queue # <<>>, NEW type, NEW w \in Windows,
         Head(o.queue) = Event(type, w)
  PROVE  LET s == [o EXCEPT !.queue = Tail(@)]
         IN  /\ Tame(s)
             /\ type = "MapNotify" => ~Ending(s, w)
             /\ type = "UnmapNotify" => Flagged(s, w)
<1>. DEFINE s == [o EXCEPT !.queue = Tail(@)]
            p == o.queue
            q == s.queue
<1>1. p \in Seq(Events) BY DEF State
<1>2. Len(p) \in Nat \ {0} /\ p[1] = Event(type, w) BY <1>1
<1>3. /\ s.win = o.win /\ s.registry = o.registry /\ s.hidden = o.hidden
      /\ s.offscreen = o.offscreen /\ q = Tail(p)
  BY DEF State
<1>4. Len(q) = Len(p) - 1 /\ \A k \in 1 .. Len(p) - 1 : q[k] = p[k + 1]
  BY <1>1, <1>3, HeadTailProperties
<1>. HIDE DEF s, p, q
<1>5. \A k \in 1 .. Len(q) : k \in Nat /\ k + 1 \in 1 .. Len(p) /\ q[k] = p[k + 1] BY <1>2, <1>4
<1>6. Unhidden(s) BY <1>3 DEF Tame, Unhidden
<1>7. MapsLast(o) BY DEF Tame
<1>8. MapsLast(s)
  <2>. SUFFICES ASSUME NEW v \in Windows, NEW k \in 1 .. Len(q), NEW l \in 1 .. Len(q),
                       q[k] = Event("MapNotify", v), q[l] = Event("UnmapNotify", v)
                PROVE  l < k
    BY DEF MapsLast, q
  <2>1. l + 1 < k + 1 BY <1>5, <1>7 DEF MapsLast, p
  <2>. QED BY <1>5, <2>1
<1>9. \A v \in Windows : Ending(s, v) => Ending(o, v) BY <1>5 DEF Ending, p, q
<1>10. \A v \in Windows : Flagged(o, v) <=> Flagged(s, v) BY <1>3 DEF Flagged
<1>11. Tame(s) BY <1>6, <1>8, <1>9, <1>10 DEF Tame
<1>12. ASSUME type = "MapNotify", Ending(s, w) PROVE FALSE
  <2>1. PICK k \in 1 .. Len(q) : q[k] = Event("UnmapNotify", w) BY <1>12 DEF Ending, q
  <2>2. p[k + 1] = Event("UnmapNotify", w) /\ k + 1 \in 1 .. Len(p) BY <1>5, <2>1
  <2>3. 1 \in 1 .. Len(p) /\ p[1] = Event("MapNotify", w) BY <1>2, <1>12
  <2>4. k + 1 < 1 BY <1>7, <2>2, <2>3 DEF MapsLast, p
  <2>. QED BY <1>5, <2>4
<1>13. type = "UnmapNotify" => Flagged(s, w)
  <2>1. type = "UnmapNotify" => Ending(o, w)
    <3>1. 1 \in 1 .. Len(p) BY <1>2
    <3>. QED BY <1>2, <3>1 DEF Ending, p
  <2>. QED BY <1>10, <2>1 DEF Tame
<1>. QED BY <1>11, <1>12, <1>13 DEF s

\* client_handle_map_notify: what is no longer off screen is not unmapped.
LEMMA MapNotifyTame ==
  ASSUME NEW s, Sound(s), NEW w \in Windows, Tame(s), ~Ending(s, w)
  PROVE  Tame(HandleMapNotify(s, w))
<1>. DEFINE c == RegisteredClient(s, w)
            t == [s EXCEPT !.offscreen = @ \ {c}]
<1>1. s \in State BY DEF Sound, SoundBut
<1>2. HandleMapNotify(s, w)
        = IF c \notin s.offscreen \/ s.registry[w] \notin s.visible THEN s ELSE t
  BY Zenon DEF HandleMapNotify
<1>3. /\ t.hidden = s.hidden /\ t.win = s.win /\ t.queue = s.queue
      /\ t.registry = s.registry /\ t.offscreen = s.offscreen \ {c}
  BY <1>1 DEF State
<1>4. c # NULL => Win(c) = w BY RegisteredClientFound
<1>. HIDE DEF c, t
<1>5. ASSUME c \in s.offscreen PROVE Tame(t)
  <2>1. c # NULL BY <1>1, <1>5, ConstantsAssumption DEF State, Clients
  <2>2. \A d \in Clients : Win(d) # w /\ d \in s.offscreen => d \in t.offscreen
    BY <1>3, <1>4, <2>1
  <2>. QED BY <1>3, <2>2, OneWindowTame
<1>. QED BY <1>2, <1>5

\* client_unmap_window: only the window that is gone was not expected to be
\* unmapped.
LEMMA UnmapNotifyTame ==
  ASSUME NEW s, Sound(s), Good(s), NEW w \in Windows, Tame(s), Flagged(s, w)
  PROVE  Tame(HandleUnmapNotify(s, w))
<1>. DEFINE c  == RegisteredClient(s, w)
            i  == s.registry[w]
            u  == [s EXCEPT !.hidden = @ \cup {c}]
            s1 == IF c \in s.offscreen THEN s ELSE u
            r  == WorkspaceResetFocus(s1, i)
<1>1. HandleUnmapNotify(s, w) = IF c = NULL THEN s ELSE IF c \in s.focused THEN r ELSE s1
  BY Zenon DEF HandleUnmapNotify
<1>2. c # NULL => i \in Workspaces /\ c \in Clients /\ Win(c) = w /\ c \in s.live
  BY RegisteredClientFound
<1>3. CASE c = NULL BY <1>1, <1>3
<1>4. CASE c # NULL
  <2>1. /\ u \in State /\ SameLists(s, u) /\ SameFocus(s, u) /\ SameScreens(s, u)
        /\ u.hidden = s.hidden \cup {c} /\ u.win = s.win /\ u.queue = s.queue
        /\ u.grabs = s.grabs /\ u.focused = s.focused /\ u.offscreen = s.offscreen
    BY <1>2, <1>4 DEF Good, State, SameLists, SameFocus, SameScreens
  <2>2. i # NULL BY <1>2, <1>4, NullNoWorkspace
  <2>. HIDE DEF c, u
  <2>3. Sound(u)
    <3>1. Homes(u) /\ Allocated(u) /\ Actives(u) /\ GrabbedBut(u, {}) /\ Doomed(u)
      BY <2>1
      DEF Sound, SoundBut, Homes, Allocated, Actives, GrabbedBut, Doomed, Told, SameLists
    <3>. QED BY <1>2, <1>4, <2>1, <3>1 DEF Sound, SoundBut, SameLists
  <2>4. ASSUME c \notin s.offscreen PROVE Tame(u)
    <3>1. s.win[w] = "gone" BY <1>2, <1>4, <2>2, <2>4 DEF Flagged
    <3>2. Unhidden(u) BY <1>2, <1>4, <2>1, <3>1 DEF Tame, Unhidden
    <3>. QED BY <2>1, <3>2 DEF Tame, MapsLast, Ending, Flagged, SameLists
  <2>5. Sound(s1) /\ Tame(s1) /\ SameFocus(s, s1) BY <2>1, <2>3, <2>4 DEF SameFocus
  <2>. HIDE DEF s1, i
  <2>6. Focused(s1) BY <2>5 DEF Good, Focused, SameFocus
  <2>7. Quiet(s1, r) BY <1>2, <1>4, <2>5, <2>6, WorkspaceResetFocusSound
  <2>. HIDE DEF r
  <2>8. Tame(r) BY <2>5, <2>7, QuietTame
  <2>. QED BY <1>1, <1>4, <2>5, <2>8
<1>. QED BY <1>3, <1>4

\* client_handle_destroy_notify.
LEMMA DestroyNotifyTame ==
  ASSUME NEW o, Sound(o), Good(o), NEW w \in Windows, NEW s, Handling(o, s, w), Good(s),
         Tame(s), s.registry[w] = NULL => Sound(s)
  PROVE  Tame(HandleDestroyNotify(s, w))
<1>. DEFINE c == RegisteredClient(s, w)
            i == s.registry[w]
            a == s.activeIndex
            f == WorkspaceResetFocus(s, a)
            r == WorkspaceRemoveClient(s, i, c)
            t == ClientDestroy(r, c)
<1>1. HandleDestroyNotify(s, w) = IF i = NULL THEN f ELSE IF c = NULL THEN s ELSE t
  BY Zenon DEF HandleDestroyNotify
<1>2. s \in State /\ SameLists(o, s) BY DEF Handling
<1>3. Focused(s) /\ Focused(o) BY DEF Good
<1>4. CASE i = NULL
  <2>1. a \in Workspaces BY <1>2 DEF State
  <2>2. Quiet(s, f) BY <1>3, <1>4, <2>1, WorkspaceResetFocusSound
  <2>. HIDE DEF f
  <2>. QED BY <1>1, <1>4, <2>2, QuietTame
<1>5. CASE i # NULL
  <2>1. RegisteredClient(o, w) = c /\ o.registry[w] = i
    <3>1. o.registry[w] = i /\ o.clients = s.clients BY <1>2 DEF SameLists
    <3>2. Nodes(s, i, w) = Nodes(o, i, w) BY <3>1 DEF Nodes
    <3>3. FirstNode(s, i, w) = FirstNode(o, i, w) BY <3>2, Zenon DEF FirstNode
    <3>4. FindClient(s, i, w) = FindClient(o, i, w) BY <3>1, <3>2, <3>3 DEF FindClient
    <3>. QED BY <3>1, <3>4 DEF RegisteredClient
  <2>2. i \in Workspaces /\ c \in Clients /\ Win(c) = w /\ c # NULL
    BY <1>5, <2>1, RegisteredClientFound
  <2>. HIDE DEF c, i
  <2>3. /\ Sound(r) /\ r.registry = [s.registry EXCEPT ![w] = NULL]
        /\ r.hidden = s.hidden /\ r.win = s.win /\ r.queue = s.queue
        /\ r.offscreen = s.offscreen
    <3>1. Handling(o, s, Win(c)) /\ o.registry[Win(c)] = i BY <2>1, <2>2
    <3>2. /\ Sound(r) /\ r.registry = [s.registry EXCEPT ![Win(c)] = NULL]
          /\ r.hidden = s.hidden /\ r.win = s.win /\ r.queue = s.queue
          /\ r.offscreen = s.offscreen
      BY <1>3, <2>2, <3>1, WorkspaceRemoveClientSound
    <3>. HIDE DEF r
    <3>. QED BY <2>2, <3>2
  <2>. HIDE DEF r
  <2>4. r \in State BY <2>3 DEF Sound, SoundBut
  <2>5. /\ t.hidden = r.hidden \ {c} /\ t.offscreen = r.offscreen \ {c}
        /\ t.registry = r.registry /\ t.win = r.win /\ t.queue = r.queue
    BY <2>4 DEF ClientDestroy, State
  <2>. HIDE DEF t
  <2>6. t.registry[w] = NULL /\ \A v \in Windows \ {w} : t.registry[v] = s.registry[v]
    BY <1>2, <2>3, <2>5 DEF State
  <2>7. \A d \in Clients : Win(d) # w /\ d \in s.offscreen => d \in t.offscreen
    BY <2>2, <2>3, <2>5
  <2>8. t.hidden \subseteq s.hidden /\ t.win = s.win /\ t.queue = s.queue BY <2>3, <2>5
  <2>9. Tame(t) BY <2>6, <2>7, <2>8, OneWindowTame
  <2>. QED BY <1>1, <1>5, <2>2, <2>9 DEF i
<1>. QED BY <1>4, <1>5

\* Each event.
LEMMA EventLoopTame ==
  ASSUME Sound(state), Good(state), Tame(state), EventLoop
  PROVE  Tame(state')
<1>. DEFINE rest == [state EXCEPT !.queue = Tail(@)]
            Taken(type, w) == state.queue # <<>> /\ Head(state.queue) = Event(type, w)
<1>1. ASSUME NEW type, NEW w \in Windows, Taken(type, w)
      PROVE  /\ Good(rest) /\ Handling(state, rest, w) /\ Tame(rest)
             /\ rest.registry = state.registry
             /\ type # "DestroyNotify" \/ state.registry[w] = NULL => Sound(rest)
             /\ type = "MapNotify" => ~Ending(rest, w)
             /\ type = "UnmapNotify" => Flagged(rest, w)
  <2>1. state \in State BY DEF Good
  <2>2. /\ Good(rest) /\ Handling(state, rest, w) /\ rest.registry = state.registry
        /\ type # "DestroyNotify" \/ state.registry[w] = NULL => Sound(rest)
    BY <1>1, TakeHead
  <2>3. /\ Tame(rest)
        /\ type = "MapNotify" => ~Ending(rest, w)
        /\ type = "UnmapNotify" => Flagged(rest, w)
    BY <1>1, <2>1, TakenTame
  <2>. HIDE DEF rest
  <2>. QED BY <2>2, <2>3
<1>. HIDE DEF rest
<1>2. CASE MapNotify
  <2>1. PICK w \in Windows : Taken("MapNotify", w) /\ state' = HandleMapNotify(rest, w)
    BY <1>2, Zenon DEF MapNotify, Receive, rest
  <2>2. Sound(rest) /\ Tame(rest) /\ ~Ending(rest, w) BY <1>1, <2>1
  <2>. QED BY <2>1, <2>2, MapNotifyTame
<1>3. CASE UnmapNotify
  <2>1. PICK w \in Windows : Taken("UnmapNotify", w) /\ state' = HandleUnmapNotify(rest, w)
    BY <1>3, Zenon DEF UnmapNotify, Receive, rest
  <2>2. Good(rest) /\ Sound(rest) /\ Tame(rest) /\ Flagged(rest, w) BY <1>1, <2>1
  <2>. QED BY <2>1, <2>2, UnmapNotifyTame
<1>4. CASE DestroyNotify
  <2>1. PICK w \in Windows : Taken("DestroyNotify", w) /\ state' = HandleDestroyNotify(rest, w)
    BY <1>4, Zenon DEF DestroyNotify, Receive, rest
  <2>2. /\ Good(rest) /\ Handling(state, rest, w) /\ Tame(rest)
        /\ rest.registry = state.registry /\ (state.registry[w] = NULL => Sound(rest))
    BY <1>1, <2>1
  <2>. QED BY <2>1, <2>2, DestroyNotifyTame
<1>5. CASE ButtonPress
  <2>1. PICK w \in Windows : Taken("ButtonPress", w) /\ state' = HandleButtonPress(rest, w)
    BY <1>5, Zenon DEF ButtonPress, Receive, rest
  <2>2. Good(rest) /\ Sound(rest) /\ Tame(rest) BY <1>1, <2>1
  <2>3. Quiet(rest, state') BY <2>1, <2>2, FocusHandlersQuiet
  <2>. QED BY <2>2, <2>3, QuietTame
<1>. QED BY <1>2, <1>3, <1>4, <1>5 DEF EventLoop

\* When every event is handled, nothing comes or ends.
LEMMA NothingComes ==
  ASSUME NEW s, s.queue = <<>>
  PROVE  NoMaps(s)
BY DEF NoMaps, Coming

\* A step that keeps the calm.
LEMMA CalmTame ==
  ASSUME Sound(state), Good(state), Tame(state), [Next]_state,
         EventLoop \/ (state.queue = <<>> /\ ~(\E w \in Windows : Withdraw(w)))
  PROVE  Tame(state')
<1>1. CASE EventLoop BY <1>1, EventLoopTame
<1>2. CASE UNCHANGED state BY <1>2
<1>3. CASE Next /\ ~EventLoop
  <2>1. state.queue = <<>> /\ NoMaps(state) BY <1>3, NothingComes
  <2>2. ASSUME NEW w \in Windows, MapRequest(w) PROVE Tame(state')
    <3>1. state \in State /\ state.win[w] # "gone" BY <2>2 DEF Good, MapRequest
    <3>2. CASE state' = XMap(state, w) BY <3>1, <3>2, XMapTame
    <3>3. CASE \E n \in 0 .. Remaps : <<w, n>> \notin state.live
                                      /\ state' = RegisterWindow(state, w, <<w, n>>)
      <4>1. PICK n \in 0 .. Remaps : <<w, n>> \notin state.live
                                     /\ state' = RegisterWindow(state, w, <<w, n>>)
        BY <3>3
      <4>2. <<w, n>> \in Clients /\ Win(<<w, n>>) = w BY DEF Clients, Win
      <4>. QED BY <2>1, <3>1, <4>1, <4>2, RegisterWindowTame
    <3>. QED BY <2>2, <3>2, <3>3 DEF MapRequest
  <2>3. ASSUME NEW w \in Windows, Withdraw(w) PROVE Tame(state') BY <1>3, <2>3
  <2>4. ASSUME NEW w \in Windows, DestroyWindow(w) PROVE Tame(state')
    BY <2>1, <2>4, DestroyWindowTame
  <2>5. ASSUME NEW w \in Windows, Click(w) PROVE Tame(state') BY <2>1, <2>5, ClickTame
  <2>6. ASSUME NEW w \in Windows, ActiveWindow(w) PROVE Tame(state')
    <3>1. Quiet(state, state') BY <2>6, FocusHandlersQuiet DEF ActiveWindow
    <3>. QED BY <3>1, QuietTame
  <2>7. ASSUME NEW w \in Windows, NEW mode, ConfigureRequest(w, mode) PROVE Tame(state')
    <3>1. Quiet(state, state') BY <2>7, FocusHandlersQuiet DEF ConfigureRequest
    <3>. QED BY <3>1, QuietTame
  <2>8. ASSUME NEW w \in Windows, NEW j, WmDesktop(w, j) PROVE Tame(state')
    <3>. DEFINE c == FindListedClient(state, w)
    <3>1. c # NULL => c \in Clients BY FindListedClientTyped DEF Good, OptClient
    <3>2. state' = IF c = NULL \/ j \notin Workspaces THEN state
                   ELSE SendToWorkspace(state, c, j)
      BY <2>8, Zenon DEF WmDesktop, HandleWmDesktop
    <3>. HIDE DEF c
    <3>. QED BY <2>1, <3>1, <3>2, SendToWorkspaceTame
  <2>9. ASSUME NEW j, CurrentDesktop(j) PROVE Tame(state')
    <3>1. state' = IF j \notin Workspaces \/ j \in state.wsFocused THEN state
                   ELSE WorkspaceChangeMonitor(state, j)
      BY <2>9 DEF CurrentDesktop, HandleCurrentDesktop
    <3>2. ASSUME j \in Workspaces, j \notin state.wsFocused
          PROVE  Tame(WorkspaceChangeMonitor(state, j))
      <4>1. Focused(state) /\ Agree(state) /\ j # state.activeIndex
        BY <3>2 DEF Good, Focused
      <4>. QED BY <2>1, <3>2, <4>1, WorkspaceChangeMonitorTame
    <3>. QED BY <3>1, <3>2
  <2>. QED BY <1>3, <2>2, <2>3, <2>4, <2>5, <2>6, <2>7, <2>8, <2>9, Zenon DEF Next
<1>. QED BY <1>1, <1>2, <1>3

\* As long as the calm lasts, natwm takes no client for hidden but one whose
\* window is gone: every UnmapNotify its own switches and moves cause finds
\* CLIENT_OFF_SCREEN set when it is handled.
THEOREM SwitchesHideNothing == Remaps = 0 /\ CalmSpec => []SwitchHidesNothing
<1>. DEFINE Calm == LInv /\ (calm => Tame(state))
<1>1. Remaps = 0 /\ CalmInit => Calm
  <2>. SUFFICES ASSUME Remaps = 0, CalmInit PROVE Calm OBVIOUS
  <2>1. LInv BY InitGood, InitSound DEF LInv, CalmInit
  <2>2. state.hidden = {} /\ Len(state.queue) = 0 BY DEF CalmInit, Init
  <2>3. Tame(state) BY <2>2 DEF Tame, Unhidden, MapsLast, Ending
  <2>. QED BY <2>1, <2>3
<1>2. Calm /\ [CalmNext]_<<state, calm>> => Calm'
  <2>. SUFFICES ASSUME Calm, [CalmNext]_<<state, calm>> PROVE Calm' OBVIOUS
  <2>1. [Next]_state BY DEF CalmNext
  <2>2. Good(state) /\ IInv' BY <2>1, IInvGood, NextGood DEF LInv
  <2>3. LInv' BY <2>1, <2>2, NextSound DEF LInv
  <2>4. ASSUME calm' PROVE Tame(state')
    <3>1. CASE CalmNext
      <4>1. calm /\ KeepsCalm BY <2>4, <3>1 DEF CalmNext
      <4>. QED BY <2>1, <2>2, <4>1, CalmTame DEF KeepsCalm, LInv
    <3>2. CASE UNCHANGED <<state, calm>> BY <2>4, <3>2
    <3>. QED BY <3>1, <3>2
  <2>. QED BY <2>3, <2>4
<1>3. Calm => SwitchHidesNothing BY DEF SwitchHidesNothing, Tame, Unhidden
<1>. QED BY <1>1, <1>2, <1>3, PTL DEF CalmSpec
=============================================================================
